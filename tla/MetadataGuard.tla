----------------------------- MODULE MetadataGuard -----------------------------
(***************************************************************************)
(* How a version 1 archive protects its own event log (metadata.rs, git.rs *)
(* and the checkpoint tables of projection.rs).                            *)
(*                                                                         *)
(* `metadata checkpoint` closes the log with a checkpoint event, commits   *)
(* the segments and the checkpoint file to a local Git branch, records the *)
(* commit as an event, pushes it to the active destination and records     *)
(* what the remote shows.  `reconcile` records a commit that a killed run  *)
(* left unrecorded, `destination check` repeats the observation.  Several  *)
(* processes may run at once and each may be killed between its steps.     *)
(*                                                                         *)
(* The log is here a sequence that is appended atomically (EventLog says   *)
(* how).  A checkpoint is named by its number in the log; a commit by its  *)
(* place in commits.  There is one destination.  `independent` and         *)
(* `overlapping` stand for what the registered topology says of it.        *)
(***************************************************************************)
EXTENDS Integers, Sequences, FiniteSets

CONSTANTS
    MetaProcs,      \* processes
    Locators,       \* locators a destination may have
    LocalLocators,  \* those that name a local path
    MaxMetaLog,     \* bound on the length of the log
    MaxOutsider     \* bound on changes to remotes and to the Git configuration

ASSUME MetaAssumption ==
    LocalLocators \subseteq Locators /\ MaxMetaLog \in Nat /\ MaxOutsider \in Nat

VARIABLES
    mlog,     \* the event log
    mdb,      \* the projection: [n, commit, repl, dest, destSeq, topoSeq, ind]
    commits,  \* Git objects: [par, files, n]
    tip,      \* refs/heads/archive-ledger
    remote,   \* the ref each locator's repository shows: a commit, 0 or Foreign
    conf,     \* the locator `git remote get-url` prints
    mp,       \* processes
    outside,  \* changes made by others so far
    held      \* history: <<locator, commit>> that a remote once showed

metaVars == <<mlog, mdb, commits, tip, remote, conf, mp, outside, held>>

Foreign == -1
Event(k, c, g, st, ind, loc) == [k |-> k, c |-> c, g |-> g, st |-> st, ind |-> ind, loc |-> loc]
Topology(ind) == Event("topo", 0, 0, "", ind, "")
Destination(st, loc) == Event("dest", 0, 0, st, "", loc)
Checkpoint == Event("chk", 0, 0, "", "", "")
CommitSeen(c, g) == Event("commit", c, g, "", "", "")
Replication(c, g, st, ind) == Event("repl", c, g, st, ind, "")

-----------------------------------------------------------------------------
(* The projection.                                                         *)

NoRepl == [st |-> "none", g |-> 0, ind |-> "unknown", seq |-> 0]
EmptyMetaDb == [n |-> 0, chks |-> {}, commit |-> [c \in 1..MaxMetaLog |-> 0],
                repl |-> [c \in 1..MaxMetaLog |-> NoRepl],
                dest |-> [st |-> "none", loc |-> ""], destSeq |-> 0, topoSeq |-> 0,
                ind |-> "unknown"]

project_checkpoint_commit(db, e) == e.c \in db.chks /\ db.commit[e.c] \in {0, e.g}

project_checkpoint_replication(db, e) ==
    /\ e.c \in db.chks /\ db.dest.st = "active"
    /\ e.st = "present" => e.g = db.commit[e.c]

Accepted(db, e) ==
    CASE e.k = "commit" -> project_checkpoint_commit(db, e)
      [] e.k = "repl" -> project_checkpoint_replication(db, e)
      [] OTHER -> TRUE

\* One event applied to the tables; s is its number.
Project(db, e, s) ==
    CASE e.k = "chk" -> [db EXCEPT !.n = s, !.chks = @ \cup {s}]
      [] e.k = "commit" -> [db EXCEPT !.n = s, !.commit[e.c] = e.g]
      [] e.k = "repl" -> [db EXCEPT !.n = s,
                            !.repl[e.c] = [st |-> e.st, g |-> e.g, ind |-> e.ind, seq |-> s]]
      [] e.k = "dest" -> [db EXCEPT !.n = s, !.dest = [st |-> e.st, loc |-> e.loc],
                            !.destSeq = s, !.topoSeq = s]
      [] e.k = "topo" -> [db EXCEPT !.n = s, !.topoSeq = s, !.ind = e.ind]
      [] OTHER -> [db EXCEPT !.n = s]

\* The tables after the first s events; <<>> once an event is refused.
Folded(es) ==
    LET R[s \in 0..Len(es)] ==
          IF s = 0 THEN <<EmptyMetaDb>>
          ELSE LET d == R[s - 1]
               IN IF d = <<>> \/ ~Accepted(d[1], es[s]) THEN <<>>
                  ELSE <<Project(d[1], es[s], s)>>
    IN R[Len(es)]

\* apply fails as a whole while the unread events hold one it refuses.
Projects == Folded(mlog) # <<>>
apply == IF Projects THEN Folded(mlog)[1] ELSE mdb

\* metadata_protection_status: the checkpoints that count as independently
\* protected.
ProtectedCheckpoints(db) ==
    {c \in db.chks : /\ db.dest.st = "active"
                     /\ db.repl[c].st = "present" /\ db.repl[c].ind = "independent"
                     /\ db.commit[c] # 0 /\ db.repl[c].g = db.commit[c]
                     /\ db.repl[c].seq > db.destSeq /\ db.repl[c].seq >= db.topoSeq}

assess_metadata_independence(db, loc) == IF loc \in LocalLocators THEN "unknown" ELSE db.ind

-----------------------------------------------------------------------------
(* Git.                                                                    *)

Reachable(g) ==
    LET A[i \in 0..Len(commits)] == IF i = 0 THEN {} ELSE {i} \cup A[commits[i].par]
    IN A[g]

\* verify_checkpoint_commit: the commit holds the file of c and the log up to it.
verify_checkpoint_commit(c, g) == g > 0 /\ c \in commits[g].files /\ c <= commits[g].n

\* The commits of the branch that add the file of checkpoint c.
introducing(c) ==
    {g \in Reachable(tip) : c \in commits[g].files
                            /\ (commits[g].par = 0 \/ c \notin commits[commits[g].par].files)}

checkpoints(es) == {s \in 1..Len(es) : es[s].k = "chk"}

\* restore_check in a clone of commit g: every checkpoint event has its file, the
\* events project and every checkpoint's commit is found.
restore_check(g) ==
    LET es == SubSeq(mlog, 1, commits[g].n)
    IN /\ checkpoints(es) \subseteq commits[g].files
       /\ Folded(es) # <<>>
       /\ \A c \in checkpoints(es) : \E i \in Reachable(g) : c \in commits[i].files

-----------------------------------------------------------------------------
(* Operations.                                                             *)

MIdle == [pc |-> "idle", c |-> 0, par |-> 0, g |-> 0, loc |-> "", ind |-> "", st |-> "",
          replicate |-> FALSE]
MetaAt(p, pc) == mp[p].pc = pc
MetaSet(p, r) == mp' = [mp EXCEPT ![p] = r]
MetaStop(p) == MetaSet(p, MIdle)
Room == Len(mlog) < MaxMetaLog

\* Appends e and applies it; until then, or after a kill, the tables lag behind.
Record(e) ==
    /\ Room /\ mlog' = Append(mlog, e)
    /\ \E d \in {Folded(mlog')} : mdb' \in {mdb} \cup {d[1] : i \in 1..Len(d)}

\* checkpoint: apply, create_checkpoint, apply.
checkpoint(p) ==
    /\ MetaAt(p, "idle") /\ Projects
    /\ Record(Checkpoint)
    /\ \E r \in BOOLEAN : MetaSet(p, [MIdle EXCEPT !.pc = "parent", !.c = Len(mlog) + 1, !.replicate = r])
    /\ UNCHANGED <<commits, tip, remote, conf, outside, held>>

\* commit_checkpoint reads the branch; its index starts from that tree.
read_tree(p) ==
    /\ MetaAt(p, "parent")
    /\ MetaSet(p, [mp[p] EXCEPT !.pc = "commit", !.par = tip])
    /\ UNCHANGED <<mlog, mdb, commits, tip, remote, conf, outside, held>>

\* checkpoint_paths: the segments up to the checkpoint and its own file.
NewCommit(p) ==
    LET par == mp[p].par
        old == IF par = 0 THEN [files |-> {}, n |-> 0] ELSE commits[par]
    IN [par |-> par, files |-> old.files \cup {mp[p].c},
        n |-> IF old.n > mp[p].c THEN old.n ELSE mp[p].c]

Bug_UpdateRefUnchecked(p) ==
    /\ MetaAt(p, "commit")
    /\ commits' = Append(commits, NewCommit(p)) /\ tip' = Len(commits) + 1
    /\ MetaSet(p, [mp[p] EXCEPT !.pc = "record", !.g = Len(commits) + 1])
    /\ UNCHANGED <<mlog, mdb, remote, conf, outside, held>>

\* update-ref names the old value: the loser of a race reports an error.
update_ref(p) ==
    /\ MetaAt(p, "commit")
    /\ IF tip = mp[p].par
       THEN /\ commits' = Append(commits, NewCommit(p)) /\ tip' = Len(commits) + 1
            /\ MetaSet(p, [mp[p] EXCEPT !.pc = "record", !.g = Len(commits) + 1])
       ELSE MetaStop(p) /\ UNCHANGED <<commits, tip>>
    /\ UNCHANGED <<mlog, mdb, remote, conf, outside, held>>

record_commit(p) ==
    /\ MetaAt(p, "record")
    /\ Record(CommitSeen(mp[p].c, mp[p].g))
    /\ IF mp[p].replicate THEN MetaSet(p, [mp[p] EXCEPT !.pc = "list"]) ELSE MetaStop(p)
    /\ UNCHANGED <<commits, tip, remote, conf, outside, held>>

\* reconcile: a checkpoint without recorded commit gets the one that added it.
reconcile(p) ==
    /\ MetaAt(p, "idle") /\ Projects
    /\ mdb' = apply
    /\ \E c \in checkpoints(mlog) :
          /\ mdb'.commit[c] = 0
          /\ \E g \in introducing(c) :
                /\ introducing(c) = {g} /\ verify_checkpoint_commit(c, g)
                /\ MetaSet(p, [MIdle EXCEPT !.pc = "record", !.c = c, !.g = g])
    /\ UNCHANGED <<mlog, commits, tip, remote, conf, outside, held>>

\* replicate_checkpoint lists the active destination after record_commit.
replicate_checkpoint(p) ==
    /\ MetaAt(p, "list")
    /\ mdb' = apply
    /\ IF Projects /\ mdb'.dest.st = "active"
       THEN MetaSet(p, [mp[p] EXCEPT !.pc = "push", !.loc = mdb'.dest.loc])
       ELSE MetaStop(p)
    /\ UNCHANGED <<mlog, commits, tip, remote, conf, outside, held>>

\* check_destination: one checkpoint that has a commit; pc tells whether it pushes.
check_destination(p) ==
    /\ MetaAt(p, "idle") /\ Projects
    /\ mdb' = apply
    /\ mdb'.dest.st = "active"
    /\ \E c \in mdb'.chks, pc \in {"push", "check"} :
          /\ mdb'.commit[c] # 0
          /\ MetaSet(p, [MIdle EXCEPT !.pc = pc, !.c = c, !.g = mdb'.commit[c], !.loc = mdb'.dest.loc])
    /\ UNCHANGED <<mlog, commits, tip, remote, conf, outside, held>>

\* observe_destination compares the Git configuration, then assesses.
observe_destination(p) ==
    /\ mp[p].pc \in {"push", "check"} /\ mp[p].ind = ""
    /\ IF conf = mp[p].loc
       THEN MetaSet(p, [mp[p] EXCEPT !.ind = assess_metadata_independence(mdb, mp[p].loc)])
       ELSE MetaSet(p, [mp[p] EXCEPT !.pc = "repl", !.ind = "unknown", !.st = "error"])
    /\ UNCHANGED <<mlog, mdb, commits, tip, remote, conf, outside, held>>

\* A push that is no fast-forward is refused.
push(p) ==
    /\ MetaAt(p, "push") /\ mp[p].ind # ""
    /\ IF remote[conf] = 0 \/ remote[conf] \in Reachable(mp[p].g)
       THEN /\ remote' = [remote EXCEPT ![conf] = mp[p].g]
            /\ held' = held \cup {<<conf, mp[p].g>>}
            /\ MetaSet(p, [mp[p] EXCEPT !.pc = "check"])
       ELSE /\ MetaSet(p, [mp[p] EXCEPT !.pc = "repl", !.st = "error"])
            /\ UNCHANGED <<remote, held>>
    /\ UNCHANGED <<mlog, mdb, commits, tip, conf, outside>>

\* ls-remote.
observe_remote(p) ==
    /\ MetaAt(p, "check") /\ mp[p].ind # ""
    /\ MetaSet(p, [mp[p] EXCEPT !.pc = "repl",
                     !.st = CASE remote[conf] = mp[p].g -> "present"
                              [] remote[conf] = 0 -> "missing"
                              [] OTHER -> "diverged"])
    /\ UNCHANGED <<mlog, mdb, commits, tip, remote, conf, outside, held>>

record_replication(p) ==
    /\ MetaAt(p, "repl")
    /\ Record(Replication(mp[p].c, mp[p].g, mp[p].st, mp[p].ind))
    /\ MetaStop(p)
    /\ UNCHANGED <<commits, tip, remote, conf, outside, held>>

\* validate_destination: an update is active, a retirement retired; the location
\* is active and the id known.
ValidSnapshots == {Destination("active", l) : l \in Locators} \cup {Destination("retired", mdb.dest.loc)}

\* record_destination: the snapshot is validated and appended (update, retire).
record_destination(p) ==
    /\ MetaAt(p, "idle") /\ Projects /\ outside < MaxOutsider
    /\ \E e \in ValidSnapshots :
          e # Destination(mdb.dest.st, mdb.dest.loc) /\ Record(e)
    /\ outside' = outside + 1
    /\ UNCHANGED <<commits, tip, remote, conf, mp, held>>

\* catalog_location_set and the registry's site, device, root, location and risk events.
set_catalog_location(p) ==
    /\ MetaAt(p, "idle") /\ Projects /\ outside < MaxOutsider
    /\ \E ind \in {"independent", "overlapping"} \ {mdb.ind} : Record(Topology(ind))
    /\ outside' = outside + 1
    /\ UNCHANGED <<commits, tip, remote, conf, mp, held>>

MetaKill(p) ==
    /\ ~MetaAt(p, "idle")
    /\ MetaStop(p)
    /\ UNCHANGED <<mlog, mdb, commits, tip, remote, conf, outside, held>>

\* Others change a remote's ref, or the operator the configured URL.
Outsider ==
    /\ outside < MaxOutsider /\ outside' = outside + 1
    /\ \/ \E l \in Locators, v \in {0, Foreign} :
             remote[l] # v /\ remote' = [remote EXCEPT ![l] = v] /\ UNCHANGED conf
       \/ \E l \in Locators \ {conf} : conf' = l /\ UNCHANGED remote
    /\ UNCHANGED <<mlog, mdb, commits, tip, mp, held>>

-----------------------------------------------------------------------------
\* The catalog location is set and one destination registered and configured.
MetaInit ==
    /\ conf \in Locators \ LocalLocators
    /\ mlog = <<Topology("independent"), Destination("active", conf)>>
    /\ mdb = Folded(mlog)[1]
    /\ commits = <<>> /\ tip = 0
    /\ remote = [l \in Locators |-> 0]
    /\ mp = [p \in MetaProcs |-> MIdle]
    /\ outside = 0 /\ held = {}

MetaNext ==
    \/ \E p \in MetaProcs :
          \/ checkpoint(p) \/ read_tree(p) \/ update_ref(p) \/ record_commit(p) \/ reconcile(p)
          \/ replicate_checkpoint(p) \/ check_destination(p) \/ observe_destination(p)
          \/ push(p) \/ observe_remote(p) \/ record_replication(p)
          \/ record_destination(p) \/ set_catalog_location(p) \/ MetaKill(p)
    \/ Outsider

MetaSpec == MetaInit /\ [][MetaNext]_metaVars

-----------------------------------------------------------------------------
(* Properties.                                                             *)

\* Every recorded commit holds the exact prefix of its checkpoint and stays on
\* the branch: a second checkpoint that races for the branch never drops it.
RecordedCommitsStay ==
    \A s \in 1..Len(mlog) : mlog[s].k = "commit" =>
        mlog[s].g \in Reachable(tip) /\ verify_checkpoint_commit(mlog[s].c, mlog[s].g)

\* A checkpoint, however it was interrupted, reconciled and recorded, gets one
\* commit: the projection never refuses a checkpoint_commit_observed event.
CommitsAgree ==
    \A s, t \in 1..Len(mlog) :
        (mlog[s].k = "commit" /\ mlog[t].k = "commit" /\ mlog[s].c = mlog[t].c)
            => mlog[s].g = mlog[t].g

\* What `metadata status` counts as protected was once shown by a remote.
ProtectedWasHeld ==
    \A c \in ProtectedCheckpoints(mdb) : \E l \in Locators : <<l, mdb.commit[c]>> \in held

\* What the event log says of the metadata branch is so, whoever raced for it.
CheckpointsAreTrue == RecordedCommitsStay /\ CommitsAgree /\ ProtectedWasHeld

\* Every event of the log can be projected, also when the destination is retired
\* while it is being checked.
\* TLC refutes it: README, "Met while modelling".
ReplicationsProject == Projects

\* The protected checkpoint was shown by the destination's current locator.
\* TLC refutes it: README, "Met while modelling".
ProtectedIsAtDestination ==
    \A c \in ProtectedCheckpoints(mdb) : <<mdb.dest.loc, mdb.commit[c]>> \in held

\* Protection is counted only while the topology says the destination is
\* independent.
\* TLC refutes it: README, "Met while modelling".
ProtectedIsIndependent ==
    (mdb.n = Len(mlog) /\ ProtectedCheckpoints(mdb) # {}) => mdb.ind = "independent"

\* A clone of the branch can be restored.
\* TLC refutes it: README, "Met while modelling".
TipIsRestorable == tip > 0 => restore_check(tip)
=============================================================================
