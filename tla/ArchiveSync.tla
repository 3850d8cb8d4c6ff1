----------------------------- MODULE ArchiveSync -----------------------------
(***************************************************************************)
(* Version 2 archives shared by several enrolled clients through one Git   *)
(* remote (v2_store.rs): local appends, `archive sync`, and coordinated    *)
(* changes under the remote's coordination lease.                          *)
(*                                                                         *)
(* A frontier names, per client, how many of its batches are accepted, and *)
(* the frontiers it was formed from.  A commit is a Git commit of the      *)
(* canonical tree: the frontier its HEAD file names and the commits it     *)
(* descends from.  Both live in append-only tables and are named by their  *)
(* index.  Every client has one worktree; the operating system processes   *)
(* of an installation share it, and only append_batch takes a lock         *)
(* (append.lock).                                                          *)
(*                                                                         *)
(* All clients are enrolled, their keys are good and they read one clock.  *)
(***************************************************************************)
EXTENDS Integers, Sequences, FiniteSets

CONSTANTS
    Clients,   \* enrolled clients
    Initial,   \* the genesis client
    SyncProcs,     \* processes
    ClientOf,  \* the installation a process runs on
    Nobody,      \* no process
    Ops,       \* the operations processes perform
    Attempts,  \* attempts of one sync
    Duration,  \* lifetime of a lease
    MaxSyncTime,   \* bound on the clock
    MaxOps     \* bound on operations

ASSUME SyncAssumption ==
    /\ Initial \in Clients
    /\ Nobody \notin SyncProcs
    /\ ClientOf \in [SyncProcs -> Clients]
    /\ Ops \subseteq {"append", "sync", "coordinated", "spool"}
    /\ Attempts \in Nat \ {0} /\ Duration \in Nat \ {0}
    /\ MaxSyncTime \in Nat /\ MaxOps \in Nat

VARIABLES
    frontiers,  \* every frontier made so far
    commits,    \* every commit made so far
    batches,    \* the accepted batches of each client, by sequence number
    site,       \* the worktree of each client
    remote,     \* the remote's canonical ref: a commit, 0 when absent
    lease,      \* the remote's coordination ref
    syncProc,       \* state of every process
    clock,        \* wall clock
    ops         \* operations so far

syncVars == <<frontiers, commits, batches, site, remote, lease, syncProc, clock, ops>>

NoLease == [id |-> 0, base |-> 0, until |-> 0]

IdleSync == [pc |-> "idle", op |-> "none", base |-> 0, time |-> 0, local |-> 0,
             fetched |-> 0, target |-> 0, tries |-> 0, lease |-> NoLease]

FrontierOf(c) == frontiers[commits[c].frontier]
Tails(f) == frontiers[f].tails
Descends(c, d) == d \in commits[c].ancestors

\* The genesis frontier, and the one in which the initial client enrolled
\* the others; the remote may not have been set up yet.
SyncInit ==
    /\ frontiers =
         << [tails |-> [c \in Clients |-> 0], previous |-> {}, ancestors |-> {1}],
            [tails |-> [c \in Clients |-> IF c = Initial THEN 1 ELSE 0],
             previous |-> {1}, ancestors |-> {1, 2}] >>
    /\ commits = << [frontier |-> 2, ancestors |-> {1}] >>
    /\ batches = [c \in Clients |-> IF c = Initial
                                    THEN << [base |-> 1, lease |-> 0, ok |-> TRUE] >>
                                    ELSE << >>]
    /\ site = [c \in Clients |-> [head |-> 2, commit |-> 1, synced |-> 0,
                                  lock |-> Nobody, files |-> FALSE]]
    /\ remote \in {0, 1}
    /\ lease = [id |-> 0, held |-> FALSE, until |-> 0]
    /\ syncProc = [x \in SyncProcs |-> IdleSync]
    /\ clock = 0
    /\ ops = 0

-----------------------------------------------------------------------------
(* Verification                                                            *)

\* visit_verified: every batch up to the tails is signed over a frontier of
\* the accepted graph, and a coordinated one matches its signed lease.
VerifiesAs(tails, ancestors) ==
    \A c \in Clients : \A n \in 1 .. tails[c] :
        /\ batches[c][n].base \in ancestors
        /\ batches[c][n].ok

RemoteVerified(f) == VerifiesAs(Tails(f), frontiers[f].ancestors)

\* verify_append_base, the initial client's shortcut, reads only its newest
\* range of batches; a frontier without exactly one predecessor falls back to
\* the full verification, which every other client uses.
AppendBaseOK(c) ==
    LET f == frontiers[site[c].head]
    IN  IF c = Initial /\ Cardinality(f.previous) = 1
        THEN \A p \in f.previous :
                /\ Tails(p)[c] < f.tails[c]
                /\ \A n \in Tails(p)[c] + 1 .. f.tails[c] :
                      batches[c][n].base \in {p, site[c].head} /\ batches[c][n].ok
        ELSE RemoteVerified(site[c].head)

\* HEAD advanced in the worktree and the Git commit is still missing.
Pending(c) == site[c].head # commits[site[c].commit].frontier

\* ensure_git_clean
Clean(c) == ~Pending(c) /\ ~site[c].files

\* Segments of client c that the history of its worktree has ever held.
Recorded(c) == {FrontierOf(d).tails[c] : d \in commits[site[c].commit].ancestors}

\* append_batch would not refuse.
AppendAllowed(c) ==
    /\ AppendBaseOK(c)
    /\ \A n \in Recorded(c) : n <= Tails(site[c].head)[c]

-----------------------------------------------------------------------------
(* Writing frontiers and commits                                           *)

\* Frontiers are named by their hash: equal content has one name.
NameOf(tails, previous) ==
    IF \E f \in DOMAIN frontiers : frontiers[f].tails = tails
                                   /\ frontiers[f].previous = previous
    THEN CHOOSE f \in DOMAIN frontiers : frontiers[f].tails = tails
                                         /\ frontiers[f].previous = previous
    ELSE Len(frontiers) + 1

Behind(previous) == UNION {frontiers[p].ancestors : p \in previous}

FrontiersWith(tails, previous) ==
    LET id == NameOf(tails, previous)
    IN  IF id \in DOMAIN frontiers THEN frontiers
        ELSE Append(frontiers, [tails |-> tails, previous |-> previous,
                                ancestors |-> {id} \cup Behind(previous)])

\* git commit of a tree whose HEAD file names frontier f.
CommitsWith(f, parents) ==
    Append(commits,
           [frontier |-> f,
            ancestors |-> {Len(commits) + 1}
                          \cup UNION {commits[p].ancestors : p \in parents}])

\* Fault: the local side wins.
UnionTailsLocal(f, g) == Tails(f)

\* union_frontier: the pointwise maximum.  Two tails at one sequence number
\* are the same batch, every segment path is written once.
UnionTails(f, g) ==
    [c \in Clients |-> IF Tails(f)[c] > Tails(g)[c] THEN Tails(f)[c] ELSE Tails(g)[c]]

-----------------------------------------------------------------------------
(* Processes                                                               *)

At(x, pc) == syncProc[x].pc = pc
Goto(x, pc) == syncProc' = [syncProc EXCEPT ![x].pc = pc]
ExitSync(x) == syncProc' = [syncProc EXCEPT ![x] = IdleSync]

RemoteUntouched == UNCHANGED <<remote, lease>>
HistoryUntouched == UNCHANGED <<frontiers, commits, batches>>

StartSync(x, op) ==
    /\ At(x, "idle")
    /\ ops < MaxOps
    /\ ops' = ops + 1
    /\ syncProc' = [syncProc EXCEPT ![x] =
                          [IdleSync EXCEPT !.op = op,
                                           !.pc = CASE op \in {"sync", "coordinated"} -> "sync"
                                                    [] op = "spool" -> "acquire"
                                                    [] op = "append" -> "append"]]
    /\ HistoryUntouched /\ RemoteUntouched
    /\ UNCHANGED <<site, clock>>

\* The process is killed: the operating system drops its lock, its files stay.
CrashSync(x) ==
    LET c == ClientOf[x]
    IN  /\ ~At(x, "idle")
        /\ ExitSync(x)
        /\ site' = [site EXCEPT ![c].lock = IF @ = x THEN Nobody ELSE @]
        /\ HistoryUntouched /\ RemoteUntouched
        /\ UNCHANGED <<clock, ops>>

\* A coordinated append is published; when it fails its lease is given back.
AfterAppend(x) == IF syncProc[x].op = "append" THEN ExitSync(x) ELSE Goto(x, "sync")
FailAppend(x) == IF syncProc[x].op = "append" THEN ExitSync(x) ELSE Goto(x, "release")

-----------------------------------------------------------------------------
(* append_batch, under append.lock                                         *)

Unlocked(x) == At(x, "append") /\ site[ClientOf[x]].lock = Nobody

\* recover_pending_publication_locked: the pending append is committed when
\* it is one verified local advance from the committed frontier, else refused.
RecoverPublication(x) ==
    LET c == ClientOf[x]
        f == frontiers[site[c].head]
        old == commits[site[c].commit].frontier
    IN  /\ Unlocked(x)
        /\ Pending(c)
        /\ IF /\ f.previous = {old}
              /\ f.tails = [Tails(old) EXCEPT ![c] = @ + 1]
              /\ RemoteVerified(site[c].head)
           THEN /\ commits' = CommitsWith(site[c].head, {site[c].commit})
                /\ site' = [site EXCEPT ![c].commit = Len(commits) + 1,
                                        ![c].files = FALSE]
                /\ UNCHANGED syncProc
           ELSE /\ FailAppend(x)
                /\ UNCHANGED <<commits, site>>
        /\ RemoteUntouched
        /\ UNCHANGED <<frontiers, batches, clock, ops>>

\* Fault: a pending publication is not finished first.
AppendStartUnrecovered(x) ==
    LET c == ClientOf[x]
    IN  /\ Unlocked(x)
        /\ IF AppendAllowed(c)
           THEN /\ site' = [site EXCEPT ![c].lock = x, ![c].files = TRUE]
                /\ syncProc' = [syncProc EXCEPT ![x].pc = "head",
                                                ![x].base = site[c].head,
                                                ![x].time = clock]
           ELSE /\ FailAppend(x)
                /\ UNCHANGED site
        /\ HistoryUntouched /\ RemoteUntouched
        /\ UNCHANGED <<clock, ops>>

\* The base is verified, leftovers of an interrupted append are set aside and
\* segment, manifest and frontier are written for the next sequence number.
AppendStart(x) ==
    LET c == ClientOf[x]
    IN  /\ Unlocked(x)
        /\ ~Pending(c)
        /\ IF AppendAllowed(c)
           THEN /\ site' = [site EXCEPT ![c].lock = x, ![c].files = TRUE]
                /\ syncProc' = [syncProc EXCEPT ![x].pc = "head",
                                                ![x].base = site[c].head,
                                                ![x].time = clock]
           ELSE /\ FailAppend(x)
                /\ UNCHANGED site
        /\ HistoryUntouched /\ RemoteUntouched
        /\ UNCHANGED <<clock, ops>>

\* replace_synced(HEAD): the frontier made from the verified base is accepted.
AdvanceHead(x) ==
    LET c == ClientOf[x]
        l == syncProc[x].lease
        tails == [Tails(syncProc[x].base) EXCEPT ![c] = @ + 1]
    IN  /\ At(x, "head")
        /\ frontiers' = FrontiersWith(tails, {syncProc[x].base})
        /\ batches' = [batches EXCEPT ![c] = Append(@,
                        [base |-> syncProc[x].base, lease |-> l.id,
                         ok |-> l.id # 0 => /\ l.base = syncProc[x].base
                                            /\ syncProc[x].time <= l.until])]
        /\ site' = [site EXCEPT ![c].head = NameOf(tails, {syncProc[x].base})]
        /\ Goto(x, "commit")
        /\ RemoteUntouched
        /\ UNCHANGED <<commits, clock, ops>>

\* Fault: the error return keeps the lock.
CommitTreeKeepsLock(x) ==
    LET c == ClientOf[x]
    IN  /\ At(x, "commit")
        /\ IF AppendBaseOK(c)
           THEN /\ commits' = CommitsWith(site[c].head, {site[c].commit})
                /\ site' = [site EXCEPT ![c].commit = Len(commits) + 1,
                                        ![c].files = FALSE, ![c].lock = Nobody]
                /\ AfterAppend(x)
           ELSE /\ FailAppend(x)
                /\ UNCHANGED <<commits, site>>
        /\ RemoteUntouched
        /\ UNCHANGED <<frontiers, batches, clock, ops>>

\* The new HEAD is verified, then the tree is committed on top of Git's HEAD.
CommitTree(x) ==
    LET c == ClientOf[x]
    IN  /\ At(x, "commit")
        /\ IF AppendBaseOK(c)
           THEN /\ commits' = CommitsWith(site[c].head, {site[c].commit})
                /\ site' = [site EXCEPT ![c].commit = Len(commits) + 1,
                                        ![c].files = FALSE, ![c].lock = Nobody]
                /\ AfterAppend(x)
           ELSE /\ site' = [site EXCEPT ![c].lock = Nobody]
                /\ FailAppend(x)
                /\ UNCHANGED commits
        /\ RemoteUntouched
        /\ UNCHANGED <<frontiers, batches, clock, ops>>

-----------------------------------------------------------------------------
(* sync_remote                                                             *)

\* A sync that ends well records the accepted commit.
Succeed(x, accepted, worktree) ==
    /\ site' = [worktree EXCEPT ![ClientOf[x]].synced = accepted]
    /\ CASE syncProc[x].op = "sync" -> ExitSync(x)
         [] syncProc[x].lease = NoLease -> Goto(x, "acquire")
         [] OTHER -> Goto(x, "release")

SyncBegin(x) ==
    LET c == ClientOf[x]
    IN  /\ At(x, "sync")
        /\ IF Clean(c) /\ RemoteVerified(site[c].head)
           THEN syncProc' = [syncProc EXCEPT ![x].pc = "list", ![x].tries = 1,
                                             ![x].local = site[c].commit]
           ELSE ExitSync(x)
        /\ HistoryUntouched /\ RemoteUntouched
        /\ UNCHANGED <<site, clock, ops>>

\* validate_protected_publication: every coordinated batch of f that g does
\* not have was made under the lease that is current now.
ProtectedPublicationOK(f, g) ==
    Cardinality(Clients) > 1 =>
        \A c \in Clients : \A n \in Tails(g)[c] + 1 .. Tails(f)[c] :
            batches[c][n].lease # 0 =>
                batches[c][n].lease = lease.id /\ clock <= lease.until

\* remote_archive_commit (git ls-remote); a new remote gets the local commit.
SyncList(x) ==
    /\ At(x, "list")
    /\ syncProc' = [syncProc EXCEPT ![x].pc = IF remote = 0 THEN "push" ELSE "fetch",
                                    ![x].fetched = remote,
                                    ![x].target = syncProc[x].local]
    /\ HistoryUntouched /\ RemoteUntouched
    /\ UNCHANGED <<site, clock, ops>>

\* The remote changed between two calls: the next attempt, if there is one.
Retry(x) ==
    IF syncProc[x].tries < Attempts
    THEN syncProc' = [syncProc EXCEPT ![x].pc = "list", ![x].tries = @ + 1]
    ELSE ExitSync(x)

\* Fetches the remote's tip and decides: nothing to do, fast-forward, push,
\* or push the union of both histories.
SyncFetch(x) ==
    LET local == syncProc[x].local
        f == commits[local].frontier
        Push(target) == syncProc' = [syncProc EXCEPT ![x].pc = "push", ![x].target = target]
    IN  /\ At(x, "fetch")
        /\ \/ /\ remote # syncProc[x].fetched
              /\ Retry(x)
              /\ UNCHANGED <<frontiers, commits, site>>
           \/ /\ remote = syncProc[x].fetched
              /\ remote = local
              /\ Succeed(x, local, site)
              /\ UNCHANGED <<frontiers, commits>>
           \/ /\ remote = syncProc[x].fetched
              /\ remote # local
              /\ Descends(remote, local)
              /\ syncProc' = [syncProc EXCEPT ![x].pc = "forward", ![x].target = remote]
              /\ UNCHANGED <<frontiers, commits, site>>
           \/ /\ remote = syncProc[x].fetched
              /\ ~Descends(remote, local)
              /\ LET g == commits[remote].frontier
                     tails == UnionTails(f, g)
                 IN  IF ~ProtectedPublicationOK(f, g)
                     THEN /\ ExitSync(x)
                          /\ UNCHANGED <<frontiers, commits>>
                     ELSE IF Descends(local, remote)
                     THEN /\ Push(local)
                          /\ UNCHANGED <<frontiers, commits>>
                     ELSE IF ~VerifiesAs(tails, Behind({f, g}))
                     THEN /\ ExitSync(x)
                          /\ UNCHANGED <<frontiers, commits>>
                     ELSE /\ frontiers' = FrontiersWith(tails, {f, g})
                          /\ commits' = CommitsWith(NameOf(tails, {f, g}), {local, remote})
                          /\ Push(Len(commits) + 1)
              /\ UNCHANGED site
        /\ RemoteUntouched
        /\ UNCHANGED <<batches, clock, ops>>

\* Fault: the push is forced.
SyncPushForced(x) ==
    /\ At(x, "push")
    /\ remote' = syncProc[x].target
    /\ IF syncProc[x].target = syncProc[x].local
       THEN Succeed(x, syncProc[x].local, site)
       ELSE Goto(x, "forward") /\ UNCHANGED site
    /\ HistoryUntouched
    /\ UNCHANGED <<lease, clock, ops>>

\* Compare and swap on the canonical ref alone; a lost race starts over.
SyncPush(x) ==
    /\ At(x, "push")
    /\ IF remote = syncProc[x].fetched
       THEN /\ remote' = syncProc[x].target
            /\ IF syncProc[x].target = syncProc[x].local
               THEN Succeed(x, syncProc[x].local, site)
               ELSE Goto(x, "forward") /\ UNCHANGED site
       ELSE /\ Retry(x)
            /\ UNCHANGED <<remote, site>>
    /\ HistoryUntouched
    /\ UNCHANGED <<lease, clock, ops>>

\* git merge --ff-only, which refuses to overwrite a changed HEAD file, then
\* a verification of the result; after a union HEAD must be the union's.
SyncForward(x) ==
    LET c == ClientOf[x]
        t == syncProc[x].target
        forward == Descends(t, site[c].commit) /\ ~Pending(c)
        after == IF forward
                 THEN [site EXCEPT ![c].commit = t, ![c].head = commits[t].frontier]
                 ELSE site
    IN  /\ At(x, "forward")
        /\ IF /\ forward \/ Descends(site[c].commit, t)
              /\ t # syncProc[x].fetched => after[c].head = commits[t].frontier
              /\ RemoteVerified(after[c].head)
           THEN Succeed(x, t, after)
           ELSE site' = after /\ ExitSync(x)
        /\ HistoryUntouched /\ RemoteUntouched
        /\ UNCHANGED <<clock, ops>>

-----------------------------------------------------------------------------
(* The coordination lease                                                  *)

\* The worktree must be what the remote holds.
AcquireBegin(x) ==
    LET c == ClientOf[x]
    IN  /\ At(x, "acquire")
        /\ IF Clean(c) /\ RemoteVerified(site[c].head) /\ remote = site[c].commit
           THEN syncProc' = [syncProc EXCEPT ![x].pc = "lease", ![x].base = site[c].head]
           ELSE ExitSync(x)
        /\ HistoryUntouched /\ RemoteUntouched
        /\ UNCHANGED <<site, clock, ops>>

\* Compare and swap on the lease ref: a free or expired lease is taken over.
AcquireLease(x) ==
    /\ At(x, "lease")
    /\ IF lease.held /\ clock <= lease.until
       THEN ExitSync(x) /\ UNCHANGED lease
       ELSE /\ lease' = [id |-> lease.id + 1, held |-> TRUE, until |-> clock + Duration]
            /\ syncProc' = [syncProc EXCEPT
                                  ![x].pc = "append",
                                  ![x].lease = [id |-> lease.id + 1, base |-> syncProc[x].base,
                                                until |-> clock + Duration]]
    /\ HistoryUntouched
    /\ UNCHANGED <<site, remote, clock, ops>>

\* Only the current lease can be released, from a tree that verifies.
ReleaseLease(x) ==
    /\ At(x, "release")
    /\ lease' = IF lease.id = syncProc[x].lease.id /\ RemoteVerified(site[ClientOf[x]].head)
                THEN [id |-> lease.id + 1, held |-> FALSE, until |-> clock]
                ELSE lease
    /\ ExitSync(x)
    /\ HistoryUntouched
    /\ UNCHANGED <<site, remote, clock, ops>>

SyncTick ==
    /\ clock < MaxSyncTime
    /\ clock' = clock + 1
    /\ HistoryUntouched /\ RemoteUntouched
    /\ UNCHANGED <<site, syncProc, ops>>

-----------------------------------------------------------------------------
SyncStep(x) ==
    \/ RecoverPublication(x) \/ AppendStart(x) \/ AdvanceHead(x) \/ CommitTree(x)
    \/ SyncBegin(x) \/ SyncList(x) \/ SyncFetch(x) \/ SyncPush(x) \/ SyncForward(x)
    \/ AcquireBegin(x) \/ AcquireLease(x) \/ ReleaseLease(x)

SyncNext ==
    \/ \E x \in SyncProcs : SyncStep(x)
    \/ \E x \in SyncProcs, op \in Ops : StartSync(x, op)
    \/ \E x \in SyncProcs : CrashSync(x)
    \/ SyncTick

SyncSpec == SyncInit /\ [][SyncNext]_syncVars /\ \A x \in SyncProcs : WF_syncVars(SyncStep(x))
-----------------------------------------------------------------------------
(* Properties                                                              *)

Pcs == {"idle", "append", "head", "commit", "sync", "list", "fetch", "push", "forward",
        "acquire", "lease", "release"}

\* Type correctness; references between the tables never dangle, and a
\* process is inside an append exactly when it holds its installation's lock.
SyncTypeOK ==
    /\ frontiers \in Seq([tails: [Clients -> Nat], previous: SUBSET Nat,
                          ancestors: SUBSET Nat])
    /\ commits \in Seq([frontier: DOMAIN frontiers, ancestors: SUBSET DOMAIN commits])
    /\ batches \in [Clients -> Seq([base: DOMAIN frontiers, lease: Nat, ok: BOOLEAN])]
    /\ site \in [Clients -> [head: DOMAIN frontiers, commit: DOMAIN commits,
                             synced: {0} \cup DOMAIN commits,
                             lock: SyncProcs \cup {Nobody}, files: BOOLEAN]]
    /\ remote \in {0} \cup DOMAIN commits
    /\ lease \in [id: Nat, held: BOOLEAN, until: Nat]
    /\ clock \in 0 .. MaxSyncTime
    /\ ops \in 0 .. MaxOps
    /\ \A x \in SyncProcs :
          /\ syncProc[x].pc \in Pcs
          /\ syncProc[x].pc \in {"head", "commit"} <=> site[ClientOf[x]].lock = x

\* "A valid successor never omits or reduces an origin entry": whatever is
\* appended, merged, retried or interrupted, the frontier published at the
\* remote keeps every batch it ever had, and so does every worktree's.
FrontiersNeverShrink ==
    [][/\ remote # 0 => \A c \in Clients :
             FrontierOf(remote)'.tails[c] >= FrontierOf(remote).tails[c]
       /\ \A s, c \in Clients :
             Tails(site[s].head)'[c] >= Tails(site[s].head)[c]]_syncVars

\* sync_remote records the accepted commit, "which every successful path
\* leaves on the remote": a commit counted as protected offline is part of
\* what the remote holds, now and after every later push of anybody.
SyncedIsOnRemote ==
    \A c \in Clients :
        site[c].synced # 0 => remote # 0 /\ Descends(remote, site[c].synced)

\* "job resume and the next local append reconcile that pending publication":
\* an append interrupted after HEAD advanced is one verified step from the
\* commit below it, so recovery commits it and does not refuse.  (A batch
\* that does not match its lease is rejected after HEAD advanced.)
InterruptedAppendsReconcile ==
    \A c \in Clients :
        (Pending(c) /\ site[c].lock = Nobody /\ batches[c][Len(batches[c])].ok) =>
            LET old == commits[site[c].commit].frontier
            IN  /\ frontiers[site[c].head].previous = {old}
                /\ Tails(site[c].head) = [Tails(old) EXCEPT ![c] = @ + 1]
                /\ RemoteVerified(site[c].head)

\* "allowing a small number of enrolled installations to append concurrently":
\* an installation whose worktree is clean can append.
\* TLC refutes it: README, "Met while modelling".
EnrolledClientsCanAppend ==
    \A c \in Clients : Clean(c) => AppendAllowed(c)

\* Every operation ends: lost push races are retried a bounded number of
\* times, and a process waiting for append.lock gets it.
EveryOperationEnds == \A x \in SyncProcs : ~At(x, "idle") ~> At(x, "idle")
=============================================================================
