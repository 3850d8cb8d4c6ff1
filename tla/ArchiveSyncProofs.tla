-------------------------- MODULE ArchiveSyncProofs --------------------------
(***************************************************************************)
(* Proofs about ArchiveSync, for every set of clients and processes and    *)
(* every bound.                                                            *)
(*                                                                         *)
(* The first part holds whatever the processes of an installation do to    *)
(* each other: Git's history only grows, a push replaces the remote's tip  *)
(* by a descendant, so what a sync counted as protected stays protected.   *)
(* The second part is about installations with one process at a time: the  *)
(* model checker refutes its conclusions for two (README).                 *)
(***************************************************************************)
EXTENDS ArchiveSync, TLAPS

ProcType ==
    [pc: Pcs, op: {"none", "append", "sync", "coordinated", "spool"},
     base: Nat, time: Nat, local: Nat, fetched: Nat, target: Nat,
     tries: Nat, lease: [id: Nat, base: Nat, until: Nat]]

SiteType ==
    [head: Nat, commit: Nat, synced: Nat, lock: SyncProcs \cup {Nobody}, files: BOOLEAN]

\* What the model checker's type invariant leaves open: the fields of a
\* process.
SyncTypes ==
    /\ frontiers \in Seq([tails: [Clients -> Nat], previous: SUBSET Nat,
                          ancestors: SUBSET Nat])
    /\ commits \in Seq([frontier: Nat, ancestors: SUBSET Nat])
    /\ batches \in [Clients -> Seq([base: Nat, lease: Nat, ok: BOOLEAN])]
    /\ site \in [Clients -> SiteType]
    /\ remote \in Nat
    /\ lease \in [id: Nat, held: BOOLEAN, until: Nat]
    /\ syncProc \in [SyncProcs -> ProcType]
    /\ clock \in 0 .. MaxSyncTime
    /\ ops \in 0 .. MaxOps

\* The commit graph is closed: ancestors are commits, every commit is its own
\* ancestor, and ancestry is transitive.
CommitGraph ==
    /\ 1 \in DOMAIN commits
    /\ \A d \in DOMAIN commits :
          /\ commits[d].frontier \in DOMAIN frontiers
          /\ d \in commits[d].ancestors
          /\ commits[d].ancestors \subseteq DOMAIN commits
          /\ \A e \in commits[d].ancestors : commits[e].ancestors \subseteq commits[d].ancestors

\* References into the tables do not dangle, and append.lock tells who is
\* inside an append.
SiteOK(c) ==
    /\ site[c].head \in DOMAIN frontiers
    /\ site[c].commit \in DOMAIN commits
    /\ site[c].synced \in {0} \cup DOMAIN commits
    /\ \A n \in DOMAIN batches[c] : batches[c][n].base \in DOMAIN frontiers

LockOK(x) == syncProc[x].pc \in {"head", "commit"} <=> site[ClientOf[x]].lock = x

SitesInv ==
    /\ remote \in {0} \cup DOMAIN commits
    /\ \A c \in Clients : SiteOK(c)
    /\ \A x \in SyncProcs : LockOK(x)

\* What a process inside a sync may rely on: a push only ever adds to what it
\* compares with, and what is merged afterwards is on the remote.
ProcOK(x) ==
    /\ syncProc[x].pc \in {"head", "commit"} => syncProc[x].base \in DOMAIN frontiers
    /\ syncProc[x].pc \in {"list", "fetch", "push", "forward"} =>
          syncProc[x].local \in DOMAIN commits
    /\ syncProc[x].pc = "fetch" => syncProc[x].fetched # 0
    /\ syncProc[x].pc = "push" =>
          /\ syncProc[x].target \in DOMAIN commits
          /\ syncProc[x].fetched # 0 => Descends(syncProc[x].target, syncProc[x].fetched)
    /\ syncProc[x].pc = "forward" =>
          /\ syncProc[x].target \in DOMAIN commits
          /\ remote # 0
          /\ Descends(remote, syncProc[x].target)

ProcsInv == \A x \in SyncProcs : ProcOK(x)

SyncInv == SyncTypes /\ CommitGraph /\ SitesInv /\ ProcsInv /\ SyncedIsOnRemote

-----------------------------------------------------------------------------
(* Sequences that grow                                                     *)

\* Appending changes none of the entries that were there.
LEMMA AppendFacts ==
    ASSUME NEW S, NEW s \in Seq(S), NEW e \in S
    PROVE  /\ Append(s, e) \in Seq(S)
           /\ Len(Append(s, e)) = Len(s) + 1
           /\ Len(s) \in Nat
           /\ DOMAIN s = 1 .. Len(s)
           /\ DOMAIN Append(s, e) = 1 .. Len(s) + 1
           /\ \A i \in 1 .. Len(s) : Append(s, e)[i] = s[i]
           /\ Append(s, e)[Len(s) + 1] = e
OBVIOUS

\* The fields of the rows of the tables.
LEMMA Rows ==
    ASSUME SyncTypes
    PROVE  /\ DOMAIN frontiers = 1 .. Len(frontiers) /\ Len(frontiers) \in Nat
           /\ DOMAIN commits = 1 .. Len(commits) /\ Len(commits) \in Nat
           /\ \A f \in DOMAIN frontiers : /\ Tails(f) \in [Clients -> Nat]
                                         /\ frontiers[f].previous \in SUBSET Nat
                                         /\ frontiers[f].ancestors \in SUBSET Nat
<1> DEFINE R == [tails: [Clients -> Nat], previous: SUBSET Nat, ancestors: SUBSET Nat]
           C == [frontier: Nat, ancestors: SUBSET Nat]
<1>1. frontiers \in Seq(R) /\ commits \in Seq(C)
  BY DEF SyncTypes
<1> HIDE DEF R, C
<1>2. /\ DOMAIN frontiers = 1 .. Len(frontiers) /\ Len(frontiers) \in Nat
      /\ DOMAIN commits = 1 .. Len(commits) /\ Len(commits) \in Nat
      /\ \A f \in DOMAIN frontiers : frontiers[f] \in R
  BY <1>1
<1> QED BY <1>2 DEF R, Tails

\* Every entry of s is still there in t.
Extends(s, t) == DOMAIN s \subseteq DOMAIN t /\ \A i \in DOMAIN s : t[i] = s[i]

\* The tables of frontiers and commits only grow, and so do the segments of
\* every client.
Grows ==
    /\ Extends(frontiers, frontiers')
    /\ Extends(commits, commits')
    /\ \A c \in Clients : Extends(batches[c], batches'[c])

\* A frontier that is written keeps the table well formed, and its name is a
\* row of the table with that content.
LEMMA FrontierWritten ==
    ASSUME SyncTypes,
           NEW tails \in [Clients -> Nat], NEW previous \in SUBSET DOMAIN frontiers,
           frontiers' = FrontiersWith(tails, previous)
    PROVE  /\ frontiers' \in Seq([tails: [Clients -> Nat], previous: SUBSET Nat,
                                  ancestors: SUBSET Nat])
           /\ Extends(frontiers, frontiers')
           /\ NameOf(tails, previous) \in DOMAIN frontiers'
           /\ frontiers'[NameOf(tails, previous)].tails = tails
           /\ frontiers'[NameOf(tails, previous)].previous = previous
           /\ DOMAIN frontiers' \subseteq DOMAIN frontiers \cup {NameOf(tails, previous)}
           /\ NameOf(tails, previous) \notin DOMAIN frontiers =>
                 frontiers'[NameOf(tails, previous)].ancestors =
                     {NameOf(tails, previous)} \cup Behind(previous)
<1> DEFINE R == [tails: [Clients -> Nat], previous: SUBSET Nat, ancestors: SUBSET Nat]
           id == NameOf(tails, previous)
           row == [tails |-> tails, previous |-> previous,
                   ancestors |-> {id} \cup Behind(previous)]
<1>1. frontiers \in Seq(R) /\ DOMAIN frontiers = 1 .. Len(frontiers) /\ Len(frontiers) \in Nat
  BY DEF SyncTypes
<1>2. CASE \E f \in DOMAIN frontiers : frontiers[f].tails = tails
                                      /\ frontiers[f].previous = previous
  <2>1. /\ id \in DOMAIN frontiers
        /\ frontiers[id].tails = tails
        /\ frontiers[id].previous = previous
    BY <1>2 DEF NameOf
  <2>2. frontiers' = frontiers
    BY <2>1 DEF FrontiersWith
  <2> QED BY <1>1, <2>1, <2>2 DEF Extends
<1>3. CASE ~ \E f \in DOMAIN frontiers : frontiers[f].tails = tails
                                        /\ frontiers[f].previous = previous
  <2>1. id = Len(frontiers) + 1
    BY <1>3 DEF NameOf
  <2>2. id \notin DOMAIN frontiers /\ id \in Nat
    BY <2>1, <1>1
  <2>3. frontiers' = Append(frontiers, row)
    BY <2>2 DEF FrontiersWith
  <2>4. Behind(previous) \in SUBSET Nat
    <3>1. ASSUME NEW p \in previous PROVE frontiers[p].ancestors \in SUBSET Nat
      <4>1. p \in 1 .. Len(frontiers)
        BY <1>1
      <4> HIDE DEF R
      <4>2. frontiers[p] \in R
        BY <1>1, <4>1
      <4> QED BY <4>2 DEF R
    <3> QED BY <3>1 DEF Behind
  <2>5. row \in R
    BY <2>4, <2>2, <1>1
  <2> HIDE DEF R, row, id
  <2>6. /\ frontiers' \in Seq(R)
        /\ DOMAIN frontiers' = 1 .. Len(frontiers) + 1
        /\ \A i \in 1 .. Len(frontiers) : frontiers'[i] = frontiers[i]
        /\ frontiers'[Len(frontiers) + 1] = row
    BY <2>3, <2>5, <1>1, AppendFacts
  <2>7. row.tails = tails /\ row.previous = previous /\ row.ancestors = {id} \cup Behind(previous)
    BY DEF row
  <2>8. Extends(frontiers, frontiers')
    BY <2>6, <1>1 DEF Extends
  <2> QED BY <2>1, <2>6, <2>7, <2>8, <1>1 DEF R, id
<1> QED BY <1>2, <1>3

\* A commit that is written descends from its parents and from what they
\* descend from.
LEMMA CommitWritten ==
    ASSUME SyncTypes, CommitGraph, Extends(frontiers, frontiers'),
           NEW f \in DOMAIN frontiers', f \in Nat, NEW parents \in SUBSET DOMAIN commits,
           commits' = CommitsWith(f, parents)
    PROVE  /\ commits' \in Seq([frontier: Nat, ancestors: SUBSET Nat])
           /\ Extends(commits, commits')
           /\ CommitGraph'
           /\ DOMAIN commits' = DOMAIN commits \cup {Len(commits) + 1}
           /\ Len(commits) + 1 \notin DOMAIN commits
           /\ commits'[Len(commits) + 1].frontier = f
           /\ commits'[Len(commits) + 1].ancestors =
                 {Len(commits) + 1} \cup UNION {commits[p].ancestors : p \in parents}
           /\ parents \subseteq commits'[Len(commits) + 1].ancestors
<1> DEFINE R == [frontier: Nat, ancestors: SUBSET Nat]
           n == Len(commits) + 1
           up == UNION {commits[p].ancestors : p \in parents}
           row == [frontier |-> f, ancestors |-> {n} \cup up]
<1>1. commits \in Seq(R) /\ DOMAIN commits = 1 .. Len(commits) /\ Len(commits) \in Nat
  BY DEF SyncTypes
<1>2. up \subseteq DOMAIN commits
  BY DEF CommitGraph
<1>3. row \in R
  BY <1>1, <1>2
<1>4. commits' = Append(commits, row)
  BY DEF CommitsWith
<1>5. row.frontier = f /\ row.ancestors = {n} \cup up
  OBVIOUS
<1> HIDE DEF R, row
<1>6. /\ commits' \in Seq(R)
      /\ DOMAIN commits' = 1 .. Len(commits) + 1
      /\ \A i \in 1 .. Len(commits) : commits'[i] = commits[i]
      /\ commits'[n] = row
  BY <1>1, <1>3, <1>4, AppendFacts
<1>7. Extends(commits, commits')
  BY <1>1, <1>6 DEF Extends
<1>8. DOMAIN commits' = DOMAIN commits \cup {n} /\ n \notin DOMAIN commits
  BY <1>1, <1>6
<1>9. parents \subseteq up
  BY DEF CommitGraph
<1>10. \A e \in up : commits[e].ancestors \subseteq up
  BY <1>2 DEF CommitGraph
<1> HIDE DEF up, n
<1>11. ASSUME NEW d \in DOMAIN commits'
       PROVE  /\ commits'[d].frontier \in DOMAIN frontiers'
              /\ d \in commits'[d].ancestors
              /\ commits'[d].ancestors \subseteq DOMAIN commits'
              /\ \A e \in commits'[d].ancestors :
                    commits'[e].ancestors \subseteq commits'[d].ancestors
  <2>1. CASE d = n
    <3>1. \A e \in up : commits'[e].ancestors = commits[e].ancestors
      BY <1>7, <1>2 DEF Extends
    <3> QED BY <2>1, <3>1, <1>6, <1>5, <1>2, <1>8, <1>10
  <2>2. CASE d \in DOMAIN commits
    BY <2>2, <1>7, <1>8 DEF CommitGraph, Extends
  <2> QED BY <2>1, <2>2, <1>8
<1>12. CommitGraph'
  BY <1>11, <1>8 DEF CommitGraph
<1> QED BY <1>5, <1>6, <1>7, <1>8, <1>9, <1>12 DEF R, n, up

-----------------------------------------------------------------------------
(* What every step keeps                                                   *)

\* The remote's tip is replaced by a descendant only.
RemoteAdvances ==
    /\ remote' \in {0} \cup DOMAIN commits'
    /\ remote # 0 => remote' # 0 /\ remote \in commits'[remote'].ancestors

\* What every step keeps.
Kept == SyncInv' /\ Grows /\ RemoteAdvances

\* Client c's synced commit stays, or the new one is on the remote.
SyncedOK(c) == site[c].synced # 0 => remote # 0 /\ Descends(remote, site[c].synced)

\* What the tables and the remote still hold after a step.
LEMMA TablesGrow ==
    ASSUME SyncInv, Grows, CommitGraph', RemoteAdvances
    PROVE  /\ \A d \in DOMAIN commits : d \in DOMAIN commits' /\ commits'[d] = commits[d]
           /\ \A f \in DOMAIN frontiers : f \in DOMAIN frontiers'
           /\ \A d \in DOMAIN commits : remote # 0 /\ Descends(remote, d) =>
                 remote' # 0 /\ d \in commits'[remote'].ancestors
<1>1. /\ \A d \in DOMAIN commits : d \in DOMAIN commits' /\ commits'[d] = commits[d]
      /\ \A f \in DOMAIN frontiers : f \in DOMAIN frontiers'
  BY DEF Grows, Extends
<1>2. ASSUME NEW d \in DOMAIN commits, remote # 0, Descends(remote, d)
      PROVE  remote' # 0 /\ d \in commits'[remote'].ancestors
  <2>1. remote \in DOMAIN commits /\ d \in commits'[remote].ancestors
    BY <1>1, <1>2 DEF SyncInv, SitesInv, Descends
  <2>2. remote' \in DOMAIN commits' /\ remote \in commits'[remote'].ancestors
    BY <1>2 DEF RemoteAdvances
  <2>3. commits'[remote].ancestors \subseteq commits'[remote'].ancestors
    BY <2>2 DEF CommitGraph
  <2> QED BY <1>2, <2>1, <2>3 DEF RemoteAdvances
<1> QED BY <1>1, <1>2

\* A process that does not move keeps what it relies on.
LEMMA OthersKeep ==
    ASSUME SyncInv, Grows, CommitGraph', RemoteAdvances,
           NEW y \in SyncProcs, syncProc'[y] = syncProc[y]
    PROVE  ProcOK(y)'
<1>1. ProcOK(y)
  BY DEF SyncInv, ProcsInv
<1>2. CASE syncProc[y].pc = "forward"
  BY <1>1, <1>2, TablesGrow DEF ProcOK, Descends
<1>3. CASE syncProc[y].pc = "push"
  BY <1>1, <1>3, TablesGrow DEF ProcOK, Descends
<1>4. CASE syncProc[y].pc \notin {"push", "forward"}
  BY <1>1, <1>4, TablesGrow DEF ProcOK
<1> QED BY <1>2, <1>3, <1>4

\* What remains to be shown of a step of process x.
LEMMA StepPreserves ==
    ASSUME SyncInv, Grows, SyncTypes', CommitGraph', RemoteAdvances,
           NEW x \in SyncProcs,
           \A y \in SyncProcs \ {x} : syncProc'[y] = syncProc[y],
           \A y \in SyncProcs \ {x} : site'[ClientOf[y]].lock = y <=> site[ClientOf[y]].lock = y,
           ProcOK(x)', LockOK(x)',
           \A c \in Clients : SiteOK(c)',
           \A c \in Clients : site'[c].synced = site[c].synced \/ SyncedOK(c)'
    PROVE  Kept
<1>1. ASSUME NEW y \in SyncProcs PROVE ProcOK(y)' /\ LockOK(y)'
  <2>1. CASE y = x
    BY <2>1
  <2>2. CASE y # x
    BY <2>2, OthersKeep DEF LockOK, SyncInv, SitesInv
  <2> QED BY <2>1, <2>2
<1>2. ASSUME NEW c \in Clients PROVE SyncedOK(c)'
  <2>1. CASE site'[c].synced = site[c].synced
    <3>1. SyncedOK(c)
      BY DEF SyncInv, SyncedIsOnRemote, SyncedOK
    <3>2. site[c].synced \in {0} \cup DOMAIN commits
      BY DEF SyncInv, SitesInv, SiteOK
    <3> QED BY <2>1, <3>1, <3>2, TablesGrow DEF SyncedOK, Descends
  <2> QED BY <2>1
<1>3. SyncedIsOnRemote'
  BY <1>2 DEF SyncedIsOnRemote, SyncedOK
<1>4. SitesInv' /\ ProcsInv'
  BY <1>1 DEF SitesInv, ProcsInv, RemoteAdvances
<1> QED BY <1>3, <1>4 DEF SyncInv, Kept

\* Nothing grows or moves when the tables and the remote are untouched.
LEMMA Untouched ==
    ASSUME SyncInv, HistoryUntouched, remote' = remote
    PROVE  Grows /\ CommitGraph' /\ RemoteAdvances
<1>1. Grows
  BY DEF Grows, Extends, HistoryUntouched
<1>2. CommitGraph'
  BY DEF SyncInv, CommitGraph, HistoryUntouched
<1>3. RemoteAdvances
  BY DEF SyncInv, CommitGraph, HistoryUntouched, SitesInv, RemoteAdvances
<1> QED BY <1>1, <1>2, <1>3

\* A step that moves nothing but its own process.
LEMMA Quiet ==
    ASSUME SyncInv, HistoryUntouched, UNCHANGED <<site, remote>>,
           lease' \in [id: Nat, held: BOOLEAN, until: Nat],
           clock' \in 0 .. MaxSyncTime, ops' \in 0 .. MaxOps,
           NEW x \in SyncProcs, NEW r \in ProcType,
           syncProc' = [syncProc EXCEPT ![x] = r],
           syncProc[x].pc \in {"head", "commit"} <=> r.pc \in {"head", "commit"},
           ProcOK(x)'
    PROVE  Kept
<1>1. SyncTypes'
  BY DEF SyncInv, SyncTypes, HistoryUntouched
<1>2. Grows /\ CommitGraph' /\ RemoteAdvances
  BY Untouched
<1>3. syncProc'[x] = r /\ \A y \in SyncProcs \ {x} : syncProc'[y] = syncProc[y]
  BY DEF SyncInv, SyncTypes
<1>4. LockOK(x)'
  BY <1>3 DEF LockOK, SyncInv, SitesInv
<1>5. \A c \in Clients : SiteOK(c)'
  BY DEF SiteOK, SyncInv, SitesInv, HistoryUntouched
<1> QED BY <1>1, <1>2, <1>3, <1>4, <1>5, StepPreserves

\* The fields of a process and of a worktree.
LEMMA Fields ==
    ASSUME SyncInv
    PROVE  /\ \A x \in SyncProcs : syncProc[x] \in ProcType /\ ClientOf[x] \in Clients
           /\ \A c \in Clients : site[c] \in SiteType
           /\ IdleSync \in ProcType
           /\ NoLease \in [id: Nat, base: Nat, until: Nat]
BY SyncAssumption DEF SyncInv, SyncTypes, IdleSync, ProcType, NoLease, Pcs

\* A process that exits.
LEMMA Exits ==
    ASSUME SyncInv, HistoryUntouched, UNCHANGED <<site, remote>>,
           lease' \in [id: Nat, held: BOOLEAN, until: Nat],
           clock' \in 0 .. MaxSyncTime, ops' \in 0 .. MaxOps,
           NEW x \in SyncProcs, ExitSync(x), syncProc[x].pc \notin {"head", "commit"}
    PROVE  Kept
<1>1. syncProc' = [syncProc EXCEPT ![x] = IdleSync] /\ syncProc'[x] = IdleSync
  BY DEF ExitSync, SyncInv, SyncTypes
<1>2. IdleSync \in ProcType /\ IdleSync.pc = "idle"
  BY Fields DEF IdleSync
<1>3. ProcOK(x)'
  BY <1>1, <1>2 DEF ProcOK
<1> QED BY <1>1, <1>2, <1>3, Quiet

-----------------------------------------------------------------------------
(* The actions                                                             *)

\* The initial archive: one commit, no process, nothing synced.
LEMMA InitSync == SyncInit => SyncInv
<1> SUFFICES ASSUME SyncInit PROVE SyncInv
  OBVIOUS
<1> USE SyncAssumption
<1>1. /\ DOMAIN frontiers = 1 .. 2
      /\ frontiers \in Seq([tails: [Clients -> Nat], previous: SUBSET Nat,
                            ancestors: SUBSET Nat])
  BY DEF SyncInit
<1>2. /\ DOMAIN commits = {1}
      /\ commits[1] = [frontier |-> 2, ancestors |-> {1}]
      /\ commits \in Seq([frontier: Nat, ancestors: SUBSET Nat])
  BY DEF SyncInit
<1>3. /\ batches \in [Clients -> Seq([base: Nat, lease: Nat, ok: BOOLEAN])]
      /\ \A c \in Clients : \A n \in DOMAIN batches[c] : batches[c][n].base = 1
  <2> DEFINE B == [base: Nat, lease: Nat, ok: BOOLEAN]
             b == [base |-> 1, lease |-> 0, ok |-> TRUE]
  <2>1. b \in B /\ b.base = 1
    OBVIOUS
  <2>2. batches = [c \in Clients |-> IF c = Initial THEN <<b>> ELSE << >>]
    BY DEF SyncInit
  <2> HIDE DEF B, b
  <2>3. <<b>> \in Seq(B) /\ << >> \in Seq(B) /\ DOMAIN <<b>> = {1} /\ <<b>>[1] = b
    BY <2>1
  <2>4. \A n \in DOMAIN << >> : FALSE
    OBVIOUS
  <2>5. \A c \in Clients : \A n \in DOMAIN batches[c] : batches[c][n].base = 1
    BY <2>1, <2>2, <2>3, <2>4
  <2> QED BY <2>2, <2>3, <2>5 DEF B
<1>4. site \in [Clients -> SiteType]
  BY DEF SyncInit, SiteType
<1>5. IdleSync \in ProcType /\ IdleSync.pc = "idle"
  BY DEF IdleSync, ProcType, NoLease, Pcs
<1>6. syncProc \in [SyncProcs -> ProcType] /\ \A x \in SyncProcs : syncProc[x].pc = "idle"
  BY <1>5 DEF SyncInit
<1>7. SyncTypes
  <2>1. lease \in [id: Nat, held: BOOLEAN, until: Nat] /\ remote \in Nat
    BY DEF SyncInit
  <2>2. clock \in 0 .. MaxSyncTime /\ ops \in 0 .. MaxOps
    BY DEF SyncInit
  <2> QED BY <1>1, <1>2, <1>3, <1>4, <1>6, <2>1, <2>2 DEF SyncTypes
<1>8. CommitGraph
  BY <1>1, <1>2 DEF CommitGraph
<1>9. /\ \A c \in Clients : SiteOK(c)
      /\ \A x \in SyncProcs : LockOK(x)
  BY <1>1, <1>2, <1>3, <1>6 DEF SyncInit, SiteOK, LockOK
<1>10. SitesInv /\ ProcsInv /\ SyncedIsOnRemote
  BY <1>2, <1>6, <1>9 DEF SyncInit, SitesInv, ProcsInv, ProcOK, SyncedIsOnRemote
<1> QED BY <1>7, <1>8, <1>10 DEF SyncInv

\* A command that starts.
LEMMA StartKeeps ==
    ASSUME SyncInv, NEW x \in SyncProcs, NEW op \in Ops, StartSync(x, op)
    PROVE  Kept
<1> DEFINE r == [IdleSync EXCEPT !.op = op,
                                 !.pc = CASE op \in {"sync", "coordinated"} -> "sync"
                                          [] op = "spool" -> "acquire"
                                          [] op = "append" -> "append"]
<1>1. op \in {"append", "sync", "coordinated", "spool"}
  BY SyncAssumption
<1>2. r \in ProcType /\ r.pc \in {"sync", "acquire", "append"}
  BY <1>1 DEF IdleSync, ProcType, NoLease, Pcs
<1>3. syncProc' = [syncProc EXCEPT ![x] = r]
  BY DEF StartSync
<1> HIDE DEF r
<1>4. syncProc'[x] = r
  BY <1>3 DEF SyncInv, SyncTypes
<1>5. ProcOK(x)'
  BY <1>2, <1>4 DEF ProcOK
<1>6. ops' \in 0 .. MaxOps
  BY SyncAssumption DEF StartSync, SyncInv, SyncTypes
<1>7. HistoryUntouched /\ UNCHANGED <<site, remote, lease, clock>> /\ syncProc[x].pc = "idle"
  BY DEF StartSync, RemoteUntouched, At
<1> QED BY <1>2, <1>3, <1>5, <1>6, <1>7, Quiet DEF SyncInv, SyncTypes

\* A process that is killed gives back its lock and nothing else.
LEMMA CrashKeeps ==
    ASSUME SyncInv, NEW x \in SyncProcs, CrashSync(x)
    PROVE  Kept
<1> DEFINE c == ClientOf[x]
<1>1. c \in Clients /\ site[c] \in SiteType /\ IdleSync \in ProcType /\ IdleSync.pc = "idle"
  BY Fields DEF IdleSync
<1>2. HistoryUntouched /\ UNCHANGED <<remote, lease, clock, ops>>
  BY DEF CrashSync, RemoteUntouched
<1>3. site' = [site EXCEPT ![c].lock = IF site[c].lock = x THEN Nobody ELSE site[c].lock]
  BY DEF CrashSync
<1>4. syncProc' = [syncProc EXCEPT ![x] = IdleSync]
  BY DEF CrashSync, ExitSync
<1> HIDE DEF c
<1>5. site' \in [Clients -> SiteType]
  BY <1>1, <1>3 DEF SiteType, SyncInv, SyncTypes
<1>6. SyncTypes'
  BY <1>1, <1>2, <1>4, <1>5 DEF SyncInv, SyncTypes, HistoryUntouched
<1>7. Grows /\ CommitGraph' /\ RemoteAdvances
  BY <1>2, Untouched
<1>8. syncProc'[x] = IdleSync /\ \A y \in SyncProcs \ {x} : syncProc'[y] = syncProc[y]
  BY <1>4 DEF SyncInv, SyncTypes
<1>9. ProcOK(x)'
  BY <1>1, <1>8 DEF ProcOK
<1>10. \A d \in Clients : /\ site'[d].head = site[d].head
                          /\ site'[d].commit = site[d].commit
                          /\ site'[d].synced = site[d].synced
                          /\ site'[d].lock = IF d = c /\ site[c].lock = x THEN Nobody ELSE site[d].lock
  BY <1>1, <1>3 DEF SiteType, SyncInv, SyncTypes
<1>11. \A d \in Clients : SiteOK(d)'
  BY <1>2, <1>10 DEF SiteOK, SyncInv, SitesInv, HistoryUntouched
<1>12. LockOK(x)'
  BY <1>1, <1>8, <1>10, SyncAssumption DEF LockOK, c
<1>13. \A y \in SyncProcs \ {x} : site'[ClientOf[y]].lock = y <=> site[ClientOf[y]].lock = y
  BY <1>10, Fields, SyncAssumption
<1> QED BY <1>6, <1>7, <1>8, <1>9, <1>10, <1>11, <1>12, <1>13, StepPreserves

\* A failed append leaves everything to its caller.
LEMMA FailKeeps ==
    ASSUME SyncInv, NEW x \in SyncProcs, FailAppend(x), At(x, "append"),
           HistoryUntouched, UNCHANGED <<site, remote, lease, clock, ops>>
    PROVE  Kept
<1>1. CASE syncProc[x].op = "append"
  BY <1>1, Exits DEF FailAppend, At, SyncInv, SyncTypes
<1>2. CASE syncProc[x].op # "append"
  <2> DEFINE r == [syncProc[x] EXCEPT !.pc = "release"]
  <2>1. syncProc' = [syncProc EXCEPT ![x] = r] /\ syncProc'[x] = r
    BY <1>2 DEF FailAppend, Goto, SyncInv, SyncTypes
  <2>2. r \in ProcType /\ r.pc = "release"
    BY Fields DEF ProcType, Pcs
  <2> HIDE DEF r
  <2>3. ProcOK(x)'
    BY <2>1, <2>2 DEF ProcOK
  <2> QED BY <2>1, <2>2, <2>3, Quiet DEF At, SyncInv, SyncTypes
<1> QED BY <1>1, <1>2

\* sync_remote: the worktree's commit becomes the local side.
LEMMA BeginKeeps ==
    ASSUME SyncInv, NEW x \in SyncProcs, SyncBegin(x)
    PROVE  Kept
<1>1. /\ HistoryUntouched /\ UNCHANGED <<site, remote, lease, clock, ops>>
      /\ syncProc[x].pc = "sync"
  BY DEF SyncBegin, RemoteUntouched, At
<1>2. CASE ExitSync(x)
  BY <1>1, <1>2, Exits DEF SyncInv, SyncTypes
<1>3. CASE ~ExitSync(x)
  <2> DEFINE r == [syncProc[x] EXCEPT !.pc = "list", !.tries = 1,
                                      !.local = site[ClientOf[x]].commit]
  <2>1. syncProc' = [syncProc EXCEPT ![x] = r] /\ syncProc'[x] = r
    BY <1>3 DEF SyncBegin, SyncInv, SyncTypes
  <2>2. site[ClientOf[x]].commit \in DOMAIN commits /\ site[ClientOf[x]].commit \in Nat
    BY Fields DEF SyncInv, SitesInv, SiteOK, SiteType
  <2>3. r \in ProcType /\ r.pc = "list" /\ r.local = site[ClientOf[x]].commit
    BY <2>2, Fields DEF ProcType, Pcs
  <2> HIDE DEF r
  <2>4. ProcOK(x)'
    BY <1>1, <2>1, <2>2, <2>3 DEF ProcOK, HistoryUntouched
  <2> QED BY <1>1, <2>1, <2>3, <2>4, Quiet DEF SyncInv, SyncTypes
<1> QED BY <1>2, <1>3

\* git ls-remote; an absent ref is pushed to, a present one fetched.
LEMMA ListKeeps ==
    ASSUME SyncInv, NEW x \in SyncProcs, SyncList(x)
    PROVE  Kept
<1>1. /\ HistoryUntouched /\ UNCHANGED <<site, remote, lease, clock, ops>>
      /\ syncProc[x].pc = "list"
  BY DEF SyncList, RemoteUntouched, At
<1> DEFINE r == [syncProc[x] EXCEPT !.pc = IF remote = 0 THEN "push" ELSE "fetch",
                                    !.fetched = remote, !.target = syncProc[x].local]
<1>2. syncProc' = [syncProc EXCEPT ![x] = r] /\ syncProc'[x] = r
  BY DEF SyncList, SyncInv, SyncTypes
<1>3. syncProc[x].local \in DOMAIN commits
  BY <1>1 DEF SyncInv, ProcsInv, ProcOK
<1>4. /\ r \in ProcType
      /\ r.pc = IF remote = 0 THEN "push" ELSE "fetch"
      /\ r.fetched = remote
      /\ r.target = syncProc[x].local
      /\ r.local = syncProc[x].local
  BY Fields DEF ProcType, Pcs, SyncInv, SyncTypes
<1> HIDE DEF r
<1>5. ProcOK(x)'
  BY <1>1, <1>2, <1>3, <1>4 DEF ProcOK, HistoryUntouched
<1> QED BY <1>1, <1>2, <1>4, <1>5, Quiet DEF SyncInv, SyncTypes

\* The lease ref does not touch the history.
LEMMA AcquireKeeps ==
    ASSUME SyncInv, NEW x \in SyncProcs,
           AcquireBegin(x) \/ AcquireLease(x) \/ ReleaseLease(x)
    PROVE  Kept
<1>1. /\ HistoryUntouched /\ UNCHANGED <<site, remote, clock, ops>>
      /\ syncProc[x].pc \in {"acquire", "lease", "release"}
  BY DEF AcquireBegin, AcquireLease, ReleaseLease, RemoteUntouched, At
<1>2. lease' \in [id: Nat, held: BOOLEAN, until: Nat] /\ clock + Duration \in Nat
  <2>1. /\ lease \in [id: Nat, held: BOOLEAN, until: Nat] /\ clock \in Nat /\ Duration \in Nat
    BY SyncAssumption DEF SyncInv, SyncTypes
  <2>2. /\ [id |-> lease.id + 1, held |-> TRUE, until |-> clock + Duration]
              \in [id: Nat, held: BOOLEAN, until: Nat]
        /\ [id |-> lease.id + 1, held |-> FALSE, until |-> clock]
              \in [id: Nat, held: BOOLEAN, until: Nat]
        /\ clock + Duration \in Nat
    BY <2>1
  <2>3. CASE AcquireBegin(x)
    BY <2>1, <2>2, <2>3 DEF AcquireBegin, RemoteUntouched
  <2>4. CASE AcquireLease(x)
    BY <2>1, <2>2, <2>4, Zenon DEF AcquireLease
  <2>5. CASE ReleaseLease(x)
    BY <2>1, <2>2, <2>5, Zenon DEF ReleaseLease
  <2> QED BY <2>2, <2>3, <2>4, <2>5
<1>3. CASE ExitSync(x)
  BY <1>1, <1>2, <1>3, Exits DEF SyncInv, SyncTypes
<1>4. CASE ~ExitSync(x)
  <2> DEFINE r == IF AcquireBegin(x)
                  THEN [syncProc[x] EXCEPT !.pc = "lease", !.base = site[ClientOf[x]].head]
                  ELSE [syncProc[x] EXCEPT
                          !.pc = "append",
                          !.lease = [id |-> lease.id + 1, base |-> syncProc[x].base,
                                     until |-> clock + Duration]]
  <2>1. syncProc' = [syncProc EXCEPT ![x] = r] /\ syncProc'[x] = r
    BY <1>4 DEF AcquireBegin, AcquireLease, ReleaseLease, SyncInv, SyncTypes
  <2>2. site[ClientOf[x]].head \in Nat /\ lease.id \in Nat
    BY Fields DEF SiteType, SyncInv, SyncTypes
  <2>3. r \in ProcType /\ r.pc \in {"lease", "append"}
    <3>1. syncProc[x] \in ProcType
      BY Fields
    <3>2. CASE AcquireBegin(x)
      BY <2>2, <3>1, <3>2 DEF ProcType, Pcs
    <3>3. CASE ~AcquireBegin(x)
      <4>1. [id |-> lease.id + 1, base |-> syncProc[x].base, until |-> clock + Duration]
               \in [id: Nat, base: Nat, until: Nat]
        BY <1>2, <2>2, <3>1 DEF ProcType
      <4> QED BY <3>1, <3>3, <4>1 DEF ProcType, Pcs
    <3> QED BY <3>2, <3>3
  <2> HIDE DEF r
  <2>4. ProcOK(x)'
    BY <2>1, <2>3 DEF ProcOK
  <2> QED BY <1>1, <1>2, <2>1, <2>3, <2>4, Quiet DEF SyncInv, SyncTypes
<1> QED BY <1>3, <1>4

\* Time passes.
LEMMA TickKeeps == ASSUME SyncInv, SyncTick PROVE Kept
<1>1. SyncTypes'
  <2>1. clock' \in 0 .. MaxSyncTime
    BY SyncAssumption DEF SyncInv, SyncTypes, SyncTick
  <2> QED BY <2>1 DEF SyncInv, SyncTypes, SyncTick, HistoryUntouched, RemoteUntouched
<1>2. CommitGraph'
  BY DEF SyncInv, CommitGraph, SyncTick, HistoryUntouched
<1>3. SitesInv'
  BY DEF SyncInv, SitesInv, SiteOK, LockOK, SyncTick, HistoryUntouched, RemoteUntouched
<1>4. ProcsInv'
  BY DEF SyncInv, ProcsInv, ProcOK, Descends, SyncTick, HistoryUntouched, RemoteUntouched
<1>5. SyncedIsOnRemote'
  BY DEF SyncInv, SyncedIsOnRemote, Descends, SyncTick, HistoryUntouched, RemoteUntouched
<1>6. Grows /\ RemoteAdvances
  BY Untouched DEF SyncTick, RemoteUntouched
<1> QED BY <1>1, <1>2, <1>3, <1>4, <1>5, <1>6 DEF SyncInv, Kept

\* git commit of the worktree of client c.
LEMMA Committed ==
    ASSUME SyncInv, NEW c \in Clients, NEW s \in SiteType,
           UNCHANGED <<frontiers, batches, remote>>,
           commits' = CommitsWith(site[c].head, {site[c].commit}),
           site' = [site EXCEPT ![c] = s],
           s.head = site[c].head, s.commit = Len(commits) + 1, s.synced = site[c].synced
    PROVE  /\ commits' \in Seq([frontier: Nat, ancestors: SUBSET Nat])
           /\ site' \in [Clients -> SiteType]
           /\ Grows /\ CommitGraph' /\ RemoteAdvances
           /\ \A d \in Clients : SiteOK(d)' /\ site'[d].synced = site[d].synced
<1>1. SyncTypes /\ CommitGraph /\ SiteOK(c) /\ site[c] \in SiteType
  BY Fields DEF SyncInv, SitesInv
<1>2. site[c].head \in DOMAIN frontiers' /\ site[c].head \in Nat
  BY <1>1 DEF SiteOK, SiteType
<1>3. {site[c].commit} \in SUBSET DOMAIN commits
  BY <1>1 DEF SiteOK
<1>4. Extends(frontiers, frontiers')
  BY DEF Extends
<1>5. /\ commits' \in Seq([frontier: Nat, ancestors: SUBSET Nat])
      /\ Extends(commits, commits')
      /\ CommitGraph'
      /\ DOMAIN commits' = DOMAIN commits \cup {Len(commits) + 1}
  BY <1>1, <1>2, <1>3, <1>4, CommitWritten
<1>6. Grows
  BY <1>4, <1>5 DEF Grows, Extends
<1>7. RemoteAdvances
  BY <1>5 DEF RemoteAdvances, Extends, SyncInv, SitesInv, CommitGraph
<1>8. site' \in [Clients -> SiteType] /\ site'[c] = s /\ \A d \in Clients \ {c} : site'[d] = site[d]
  BY DEF SyncInv, SyncTypes
<1>9. ASSUME NEW d \in Clients PROVE SiteOK(d)' /\ site'[d].synced = site[d].synced
  <2>1. SiteOK(d)
    BY DEF SyncInv, SitesInv
  <2> QED BY <2>1, <1>5, <1>8 DEF SiteOK
<1> QED BY <1>5, <1>6, <1>7, <1>8, <1>9

\* recover_pending_publication_locked commits or refuses.
LEMMA RecoverKeeps ==
    ASSUME SyncInv, NEW x \in SyncProcs, RecoverPublication(x)
    PROVE  Kept
<1> DEFINE c == ClientOf[x]
           s == [site[c] EXCEPT !.commit = Len(commits) + 1, !.files = FALSE]
<1>1. /\ UNCHANGED <<frontiers, batches, remote, lease, clock, ops>>
      /\ At(x, "append") /\ c \in Clients /\ site[c] \in SiteType
  BY Fields DEF RecoverPublication, RemoteUntouched, Unlocked
<1>2. CASE FailAppend(x) /\ UNCHANGED <<commits, site>>
  BY <1>1, <1>2, FailKeeps DEF HistoryUntouched
<1>3. CASE ~(FailAppend(x) /\ UNCHANGED <<commits, site>>)
  <2>1. /\ commits' = CommitsWith(site[c].head, {site[c].commit})
        /\ site' = [site EXCEPT ![c].commit = Len(commits) + 1, ![c].files = FALSE]
        /\ UNCHANGED syncProc
    BY <1>3 DEF RecoverPublication
  <2>2. site' = [site EXCEPT ![c] = s]
    BY <2>1, <1>1 DEF SyncInv, SyncTypes
  <2>3. s \in SiteType /\ s.head = site[c].head /\ s.commit = Len(commits) + 1
        /\ s.synced = site[c].synced /\ s.lock = site[c].lock
    <3>1. Len(commits) + 1 \in Nat
      BY DEF SyncInv, SyncTypes
    <3> QED BY <1>1, <3>1 DEF SiteType
  <2> HIDE DEF s, c
  <2>4. /\ commits' \in Seq([frontier: Nat, ancestors: SUBSET Nat])
        /\ site' \in [Clients -> SiteType]
        /\ Grows /\ CommitGraph' /\ RemoteAdvances
        /\ \A d \in Clients : SiteOK(d)' /\ site'[d].synced = site[d].synced
    BY <1>1, <2>1, <2>2, <2>3, Committed
  <2>5. SyncTypes'
    BY <1>1, <2>1, <2>4 DEF SyncInv, SyncTypes
  <2>6. \A d \in Clients : site'[d].lock = site[d].lock
    BY <1>1, <2>2, <2>3 DEF SyncInv, SyncTypes
  <2>7. LockOK(x)' /\ \A y \in SyncProcs : syncProc'[y] = syncProc[y]
    BY <2>1, <2>6, Fields DEF LockOK, SyncInv, SitesInv
  <2>8. ProcOK(x)'
    BY <2>4, <2>7, OthersKeep
  <2>9. \A y \in SyncProcs \ {x} : site'[ClientOf[y]].lock = y <=> site[ClientOf[y]].lock = y
    BY <2>6, Fields
  <2> QED BY <2>4, <2>5, <2>7, <2>8, <2>9, StepPreserves
<1> QED BY <1>2, <1>3

\* append_batch takes append.lock, or fails.
LEMMA AppendStartKeeps ==
    ASSUME SyncInv, NEW x \in SyncProcs, AppendStart(x)
    PROVE  Kept
<1> DEFINE c == ClientOf[x]
           s == [site[c] EXCEPT !.lock = x, !.files = TRUE]
           r == [syncProc[x] EXCEPT !.pc = "head", !.base = site[c].head, !.time = clock]
<1>1. /\ HistoryUntouched /\ UNCHANGED <<remote, lease, clock, ops>>
      /\ At(x, "append") /\ c \in Clients /\ site[c] \in SiteType /\ site[c].lock = Nobody
      /\ syncProc[x] \in ProcType
  BY Fields DEF AppendStart, RemoteUntouched, Unlocked
<1>2. CASE FailAppend(x) /\ UNCHANGED site
  BY <1>1, <1>2, FailKeeps DEF HistoryUntouched
<1>3. CASE ~(FailAppend(x) /\ UNCHANGED site)
  <2>1. /\ site' = [site EXCEPT ![c].lock = x, ![c].files = TRUE]
        /\ syncProc' = [syncProc EXCEPT ![x].pc = "head", ![x].base = site[c].head,
                                        ![x].time = clock]
    BY <1>3 DEF AppendStart
  <2>2. site' = [site EXCEPT ![c] = s]
    BY <2>1, <1>1 DEF SyncInv, SyncTypes
  <2>3. s \in SiteType /\ s.head = site[c].head /\ s.commit = site[c].commit
        /\ s.synced = site[c].synced /\ s.lock = x
    BY <1>1 DEF SiteType
  <2>4. syncProc' = [syncProc EXCEPT ![x] = r]
    BY <2>1 DEF SyncInv, SyncTypes
  <2>5. r \in ProcType /\ r.pc = "head" /\ r.base = site[c].head
    <3>1. site[c].head \in Nat /\ clock \in Nat
      BY <1>1, SyncAssumption DEF SiteType, SyncInv, SyncTypes
    <3> QED BY <1>1, <3>1 DEF ProcType, Pcs
  <2> HIDE DEF s, r, c
  <2>6. /\ site'[c] = s /\ \A d \in Clients \ {c} : site'[d] = site[d]
        /\ syncProc'[x] = r /\ \A y \in SyncProcs \ {x} : syncProc'[y] = syncProc[y]
        /\ site' \in [Clients -> SiteType] /\ syncProc' \in [SyncProcs -> ProcType]
    BY <1>1, <2>2, <2>3, <2>4, <2>5 DEF SyncInv, SyncTypes
  <2>7. SyncTypes'
    BY <1>1, <2>6 DEF SyncInv, SyncTypes, HistoryUntouched
  <2>8. Grows /\ CommitGraph' /\ RemoteAdvances
    BY <1>1, Untouched
  <2>9. SiteOK(c)
    BY <1>1 DEF SyncInv, SitesInv
  <2>10. \A d \in Clients : SiteOK(d)' /\ site'[d].synced = site[d].synced
    BY <1>1, <2>3, <2>6, <2>9 DEF SiteOK, SyncInv, SitesInv, HistoryUntouched
  <2>11. ProcOK(x)'
    BY <1>1, <2>5, <2>6, <2>9 DEF ProcOK, SiteOK, HistoryUntouched
  <2>12. LockOK(x)'
    BY <1>1, <2>3, <2>5, <2>6 DEF LockOK, c
  <2>13. \A y \in SyncProcs \ {x} : site'[ClientOf[y]].lock = y <=> site[ClientOf[y]].lock = y
    BY <1>1, <2>3, <2>6, Fields, SyncAssumption
  <2> QED BY <2>6, <2>7, <2>8, <2>10, <2>11, <2>12, <2>13, StepPreserves
<1> QED BY <1>2, <1>3

\* The batch AdvanceHead accepts.
LEMMA AdvanceBatch ==
    ASSUME SyncInv, NEW x \in SyncProcs, AdvanceHead(x)
    PROVE  \E b \in [base: Nat, lease: Nat, ok: BOOLEAN] :
              /\ b.base = syncProc[x].base
              /\ batches' = [batches EXCEPT ![ClientOf[x]] = Append(@, b)]
<1> DEFINE l == syncProc[x].lease
           good == l.id # 0 => l.base = syncProc[x].base /\ syncProc[x].time <= l.until
           b == [base |-> syncProc[x].base, lease |-> l.id, ok |-> good]
<1>1. syncProc[x].base \in Nat /\ l.id \in Nat
  BY Fields DEF ProcType
<1>2. good \in BOOLEAN
  OBVIOUS
<1>3. batches' = [batches EXCEPT ![ClientOf[x]] = Append(@, b)]
  BY DEF AdvanceHead
<1> HIDE DEF good, l
<1>4. b \in [base: Nat, lease: Nat, ok: BOOLEAN] /\ b.base = syncProc[x].base
  BY <1>1, <1>2
<1> QED BY <1>3, <1>4

\* HEAD advances to the frontier of the new batch.
LEMMA AdvanceKeeps ==
    ASSUME SyncInv, NEW x \in SyncProcs, AdvanceHead(x)
    PROVE  Kept
<1> DEFINE c == ClientOf[x]
           base == syncProc[x].base
           tails == [Tails(base) EXCEPT ![c] = @ + 1]
           id == NameOf(tails, {base})
           s == [site[c] EXCEPT !.head = id]
           r == [syncProc[x] EXCEPT !.pc = "commit"]
           B == [base: Nat, lease: Nat, ok: BOOLEAN]
<1>1. /\ UNCHANGED <<commits, remote, lease, clock, ops>>
      /\ syncProc[x].pc = "head" /\ c \in Clients /\ site[c] \in SiteType
      /\ syncProc[x] \in ProcType /\ base \in DOMAIN frontiers /\ SyncTypes
  BY Fields DEF AdvanceHead, RemoteUntouched, At, SyncInv, ProcsInv, ProcOK
<1>2. tails \in [Clients -> Nat]
  <2>1. Tails(base) \in [Clients -> Nat]
    BY <1>1, Rows
  <2> QED BY <1>1, <2>1
<1>3. /\ frontiers' = FrontiersWith(tails, {base})
      /\ site' = [site EXCEPT ![c].head = id]
      /\ syncProc' = [syncProc EXCEPT ![x].pc = "commit"]
  BY DEF AdvanceHead, Goto
<1>4. PICK b \in B : b.base = base /\ batches' = [batches EXCEPT ![c] = Append(batches[c], b)]
  BY AdvanceBatch
<1> HIDE DEF tails
<1>5. /\ frontiers' \in Seq([tails: [Clients -> Nat], previous: SUBSET Nat,
                             ancestors: SUBSET Nat])
      /\ Extends(frontiers, frontiers')
      /\ id \in DOMAIN frontiers'
  <2>1. {base} \in SUBSET DOMAIN frontiers
    BY <1>1
  <2> HIDE DEF base
  <2> QED BY <1>1, <1>2, <1>3, <2>1, FrontierWritten
<1>6. id \in Nat
  BY <1>5
<1> HIDE DEF id
<1>7. site' = [site EXCEPT ![c] = s]
  BY <1>3, <1>1 DEF SyncTypes
<1>8. s \in SiteType /\ s.head = id /\ s.commit = site[c].commit
      /\ s.synced = site[c].synced /\ s.lock = site[c].lock
  BY <1>1, <1>6 DEF SiteType
<1>9. syncProc' = [syncProc EXCEPT ![x] = r]
  BY <1>3, <1>1 DEF SyncTypes
<1>10. r \in ProcType /\ r.pc = "commit" /\ r.base = base
  BY <1>1 DEF ProcType, Pcs
<1> HIDE DEF s, r, B
<1>11. /\ site'[c] = s /\ \A d \in Clients \ {c} : site'[d] = site[d]
       /\ syncProc'[x] = r /\ \A y \in SyncProcs \ {x} : syncProc'[y] = syncProc[y]
       /\ site' \in [Clients -> SiteType] /\ syncProc' \in [SyncProcs -> ProcType]
  BY <1>1, <1>7, <1>8, <1>9, <1>10 DEF SyncTypes
<1>12. /\ Append(batches[c], b) \in Seq(B)
       /\ DOMAIN Append(batches[c], b) = 1 .. Len(batches[c]) + 1
       /\ DOMAIN batches[c] = 1 .. Len(batches[c])
       /\ Len(batches[c]) \in Nat
       /\ \A i \in 1 .. Len(batches[c]) : Append(batches[c], b)[i] = batches[c][i]
       /\ Append(batches[c], b)[Len(batches[c]) + 1] = b
  <2>1. batches[c] \in Seq(B)
    BY <1>1 DEF SyncTypes, B
  <2> QED BY <2>1, <1>4, AppendFacts
<1>13. /\ batches' \in [Clients -> Seq(B)]
       /\ batches'[c] = Append(batches[c], b)
       /\ \A d \in Clients \ {c} : batches'[d] = batches[d]
  BY <1>1, <1>4, <1>12 DEF SyncTypes, B
<1>14. SyncTypes'
  BY <1>1, <1>5, <1>11, <1>13 DEF SyncTypes, B
<1>15. Grows
  <2>1. Extends(batches[c], batches'[c])
    BY <1>12, <1>13 DEF Extends
  <2>2. \A d \in Clients \ {c} : Extends(batches[d], batches'[d])
    BY <1>13 DEF Extends
  <2> QED BY <1>1, <1>5, <2>1, <2>2 DEF Grows, Extends
<1>16. CommitGraph' /\ RemoteAdvances
  BY <1>1, <1>5 DEF SyncInv, CommitGraph, RemoteAdvances, SitesInv, Extends
<1>17. ASSUME NEW d \in Clients PROVE SiteOK(d)' /\ site'[d].synced = site[d].synced
  <2>1. SiteOK(d)
    BY DEF SyncInv, SitesInv
  <2>2. CASE d = c
    <3>1. \A n \in DOMAIN batches'[c] : batches'[c][n].base \in DOMAIN frontiers'
      BY <1>1, <1>4, <1>5, <1>12, <1>13, <2>1, <2>2 DEF SiteOK, Extends
    <3> QED BY <2>1, <2>2, <3>1, <1>1, <1>5, <1>8, <1>11 DEF SiteOK
  <2>3. CASE d # c
    BY <2>1, <2>3, <1>1, <1>5, <1>11, <1>13 DEF SiteOK, Extends
  <2> QED BY <2>2, <2>3
<1>18. ProcOK(x)'
  BY <1>1, <1>5, <1>10, <1>11 DEF ProcOK, Extends
<1>19. \A d \in Clients : site'[d].lock = site[d].lock
  BY <1>8, <1>11
<1>20. LockOK(x)'
  BY <1>1, <1>10, <1>11, <1>19 DEF LockOK, SyncInv, SitesInv
<1>21. \A y \in SyncProcs \ {x} : site'[ClientOf[y]].lock = y <=> site[ClientOf[y]].lock = y
  BY <1>19, Fields
<1> QED BY <1>11, <1>14, <1>15, <1>16, <1>17, <1>18, <1>20, <1>21, StepPreserves

\* append_batch commits or fails, and gives append.lock back.
LEMMA CommitTreeKeeps ==
    ASSUME SyncInv, NEW x \in SyncProcs, CommitTree(x)
    PROVE  Kept
<1> DEFINE c == ClientOf[x]
<1>1. /\ UNCHANGED <<frontiers, batches, remote, lease, clock, ops>>
      /\ syncProc[x].pc = "commit" /\ c \in Clients /\ site[c] \in SiteType
      /\ syncProc[x] \in ProcType /\ IdleSync \in ProcType /\ IdleSync.pc = "idle"
      /\ SyncTypes /\ site[c].lock = x
  BY Fields DEF CommitTree, RemoteUntouched, At, SyncInv, IdleSync, SitesInv, LockOK
\* Where the process goes.
<1>2. /\ syncProc' \in [SyncProcs -> ProcType]
      /\ syncProc'[x].pc \in {"idle", "sync", "release"}
      /\ \A y \in SyncProcs \ {x} : syncProc'[y] = syncProc[y]
  <2>1. ASSUME NEW pc \in {"sync", "release"}, Goto(x, pc)
        PROVE  /\ syncProc' \in [SyncProcs -> ProcType]
               /\ syncProc'[x].pc = pc
               /\ \A y \in SyncProcs \ {x} : syncProc'[y] = syncProc[y]
    <3> DEFINE r == [syncProc[x] EXCEPT !.pc = pc]
    <3>1. r \in ProcType /\ r.pc = pc
      BY <1>1 DEF ProcType, Pcs
    <3>2. syncProc' = [syncProc EXCEPT ![x] = r]
      BY <1>1, <2>1 DEF Goto, SyncTypes
    <3> HIDE DEF r
    <3> QED BY <1>1, <3>1, <3>2 DEF SyncTypes
  <2>2. CASE ExitSync(x)
    BY <1>1, <2>2 DEF ExitSync, SyncTypes
  <2>3. ExitSync(x) \/ \E pc \in {"sync", "release"} : Goto(x, pc)
    BY DEF CommitTree, AfterAppend, FailAppend
  <2> QED BY <2>1, <2>2, <2>3
<1>3. ProcOK(x)'
  BY <1>2 DEF ProcOK
<1>4. CASE AppendBaseOK(c)
  <2> DEFINE s == [site[c] EXCEPT !.commit = Len(commits) + 1, !.files = FALSE,
                                  !.lock = Nobody]
  <2>1. /\ commits' = CommitsWith(site[c].head, {site[c].commit})
        /\ site' = [site EXCEPT ![c].commit = Len(commits) + 1, ![c].files = FALSE,
                                ![c].lock = Nobody]
    BY <1>4 DEF CommitTree
  <2>2. site' = [site EXCEPT ![c] = s]
    BY <2>1, <1>1 DEF SyncTypes
  <2>3. s \in SiteType /\ s.head = site[c].head /\ s.commit = Len(commits) + 1
        /\ s.synced = site[c].synced /\ s.lock = Nobody
    <3>1. Len(commits) + 1 \in Nat
      BY Rows DEF SyncInv
    <3> QED BY <1>1, <3>1 DEF SiteType
  <2> HIDE DEF s, c
  <2>4. /\ commits' \in Seq([frontier: Nat, ancestors: SUBSET Nat])
        /\ site' \in [Clients -> SiteType]
        /\ Grows /\ CommitGraph' /\ RemoteAdvances
        /\ \A d \in Clients : SiteOK(d)' /\ site'[d].synced = site[d].synced
    BY <1>1, <2>1, <2>2, <2>3, Committed
  <2>5. SyncTypes'
    BY <1>1, <1>2, <2>4 DEF SyncTypes
  <2>6. /\ site'[c].lock = Nobody
        /\ \A d \in Clients \ {c} : site'[d].lock = site[d].lock
    BY <1>1, <2>2, <2>3 DEF SyncTypes
  <2>7. LockOK(x)'
    BY <1>2, <2>6, SyncAssumption DEF LockOK, c
  <2>8. \A y \in SyncProcs \ {x} : site'[ClientOf[y]].lock = y <=> site[ClientOf[y]].lock = y
    BY <1>1, <2>6, Fields, SyncAssumption
  <2> QED BY <1>2, <1>3, <2>4, <2>5, <2>7, <2>8, StepPreserves
<1>5. CASE ~AppendBaseOK(c)
  <2> DEFINE s == [site[c] EXCEPT !.lock = Nobody]
  <2>1. UNCHANGED commits /\ site' = [site EXCEPT ![c].lock = Nobody]
    BY <1>5 DEF CommitTree
  <2>2. site' = [site EXCEPT ![c] = s]
    BY <2>1, <1>1 DEF SyncTypes
  <2>3. s \in SiteType /\ s.head = site[c].head /\ s.commit = site[c].commit
        /\ s.synced = site[c].synced /\ s.lock = Nobody
    BY <1>1 DEF SiteType
  <2> HIDE DEF s, c
  <2>4. /\ site'[c] = s /\ \A d \in Clients \ {c} : site'[d] = site[d]
        /\ site' \in [Clients -> SiteType]
    BY <1>1, <2>2, <2>3 DEF SyncTypes
  <2>5. SyncTypes'
    BY <1>1, <1>2, <2>1, <2>4 DEF SyncTypes
  <2>6. Grows /\ CommitGraph' /\ RemoteAdvances
    BY <1>1, <2>1, Untouched DEF HistoryUntouched
  <2>7. \A d \in Clients : SiteOK(d)' /\ site'[d].synced = site[d].synced
    BY <1>1, <2>1, <2>3, <2>4 DEF SiteOK, SyncInv, SitesInv
  <2>8. LockOK(x)'
    BY <1>2, <2>3, <2>4, SyncAssumption DEF LockOK, c
  <2>9. \A y \in SyncProcs \ {x} : site'[ClientOf[y]].lock = y <=> site[ClientOf[y]].lock = y
    BY <1>1, <2>3, <2>4, Fields, SyncAssumption
  <2> QED BY <1>2, <1>3, <2>5, <2>6, <2>7, <2>8, <2>9, StepPreserves
<1> QED BY <1>4, <1>5

\* A sync that ends well with a commit the remote holds, in a worktree that
\* may have been fast-forwarded.
LEMMA SucceedKeeps ==
    ASSUME SyncInv, NEW x \in SyncProcs, NEW t \in DOMAIN commits,
           NEW w \in [Clients -> SiteType], Succeed(x, t, w),
           \A d \in Clients \ {ClientOf[x]} : w[d] = site[d],
           w[ClientOf[x]].lock = site[ClientOf[x]].lock,
           w[ClientOf[x]].head \in DOMAIN frontiers,
           w[ClientOf[x]].commit \in DOMAIN commits,
           HistoryUntouched, UNCHANGED <<lease, clock, ops>>,
           RemoteAdvances, remote' # 0, t \in commits[remote'].ancestors,
           syncProc[x].pc \in {"fetch", "push", "forward"}
    PROVE  Kept
<1> DEFINE c == ClientOf[x]
           s == [w[c] EXCEPT !.synced = t]
<1>1. /\ c \in Clients /\ syncProc[x] \in ProcType /\ IdleSync \in ProcType
      /\ IdleSync.pc = "idle" /\ SyncTypes /\ t \in Nat /\ w[c] \in SiteType
  BY Fields, Rows DEF SyncInv, IdleSync
<1>2. /\ syncProc' \in [SyncProcs -> ProcType]
      /\ syncProc'[x].pc \in {"idle", "acquire", "release"}
      /\ \A y \in SyncProcs \ {x} : syncProc'[y] = syncProc[y]
  <2>1. ASSUME NEW pc \in {"acquire", "release"}, Goto(x, pc)
        PROVE  /\ syncProc' \in [SyncProcs -> ProcType]
               /\ syncProc'[x].pc = pc
               /\ \A y \in SyncProcs \ {x} : syncProc'[y] = syncProc[y]
    <3> DEFINE r == [syncProc[x] EXCEPT !.pc = pc]
    <3>1. r \in ProcType /\ r.pc = pc
      BY <1>1 DEF ProcType, Pcs
    <3>2. syncProc' = [syncProc EXCEPT ![x] = r]
      BY <1>1, <2>1 DEF Goto, SyncTypes
    <3> HIDE DEF r
    <3> QED BY <1>1, <3>1, <3>2 DEF SyncTypes
  <2>2. CASE ExitSync(x)
    BY <1>1, <2>2 DEF ExitSync, SyncTypes
  <2>3. ExitSync(x) \/ \E pc \in {"acquire", "release"} : Goto(x, pc)
    BY DEF Succeed
  <2> QED BY <2>1, <2>2, <2>3
<1>3. ProcOK(x)'
  BY <1>2 DEF ProcOK
<1>4. site' = [w EXCEPT ![c] = s]
  BY DEF Succeed
<1>5. s \in SiteType /\ s.head = w[c].head /\ s.commit = w[c].commit /\ s.synced = t
      /\ s.lock = w[c].lock
  BY <1>1 DEF SiteType
<1> HIDE DEF s, c
<1>6. /\ site'[c] = s /\ \A d \in Clients \ {c} : site'[d] = site[d]
      /\ site' \in [Clients -> SiteType]
  BY <1>1, <1>4, <1>5 DEF c
<1>7. SyncTypes'
  <2>1. remote' \in Nat
    BY <1>1, Rows DEF RemoteAdvances, HistoryUntouched
  <2> QED BY <1>1, <1>2, <1>6, <2>1 DEF SyncTypes, HistoryUntouched
<1>8. Grows /\ CommitGraph'
  BY DEF Grows, Extends, HistoryUntouched, SyncInv, CommitGraph
<1>9. ASSUME NEW d \in Clients
      PROVE SiteOK(d)' /\ (site'[d].synced = site[d].synced \/ SyncedOK(d)')
  <2>1. SiteOK(d)
    BY DEF SyncInv, SitesInv
  <2>2. CASE d = c
    BY <1>5, <1>6, <2>1, <2>2 DEF SiteOK, SyncedOK, Descends, HistoryUntouched, c
  <2>3. CASE d # c
    BY <1>6, <2>1, <2>3 DEF SiteOK, HistoryUntouched
  <2> QED BY <2>2, <2>3
<1>10. \A d \in Clients : site'[d].lock = site[d].lock
  BY <1>5, <1>6 DEF c
<1>11. LockOK(x)'
  BY <1>1, <1>2, <1>10 DEF LockOK, SyncInv, SitesInv, c
<1>12. \A y \in SyncProcs \ {x} : site'[ClientOf[y]].lock = y <=> site[ClientOf[y]].lock = y
  BY <1>10, Fields
<1> QED BY <1>2, <1>3, <1>7, <1>8, <1>9, <1>11, <1>12, StepPreserves

\* A lost race: the next attempt lists the remote again.
LEMMA RetryKeeps ==
    ASSUME SyncInv, NEW x \in SyncProcs, Retry(x), syncProc[x].pc \in {"fetch", "push"},
           HistoryUntouched, UNCHANGED <<site, remote, lease, clock, ops>>
    PROVE  Kept
<1>1. CASE ExitSync(x)
  BY <1>1, Exits DEF SyncInv, SyncTypes
<1>2. CASE ~ExitSync(x)
  <2> DEFINE r == [syncProc[x] EXCEPT !.pc = "list", !.tries = syncProc[x].tries + 1]
  <2>1. syncProc' = [syncProc EXCEPT ![x] = r] /\ syncProc'[x] = r
    BY <1>2 DEF Retry, SyncInv, SyncTypes
  <2>2. r \in ProcType /\ r.pc = "list" /\ r.local = syncProc[x].local
    <3>1. syncProc[x] \in ProcType /\ syncProc[x].tries + 1 \in Nat
      BY Fields DEF ProcType
    <3> QED BY <3>1 DEF ProcType, Pcs
  <2>3. syncProc[x].local \in DOMAIN commits
    BY DEF SyncInv, ProcsInv, ProcOK
  <2> HIDE DEF r
  <2>4. ProcOK(x)'
    BY <2>1, <2>2, <2>3 DEF ProcOK, HistoryUntouched
  <2> QED BY <2>1, <2>2, <2>4, Quiet DEF SyncInv, SyncTypes
<1> QED BY <1>1, <1>2

\* The compare and swap on the canonical ref.
LEMMA PushKeeps ==
    ASSUME SyncInv, NEW x \in SyncProcs, SyncPush(x)
    PROVE  Kept
<1> DEFINE t == syncProc[x].target
<1>1. /\ HistoryUntouched /\ UNCHANGED <<lease, clock, ops>>
      /\ syncProc[x].pc = "push" /\ syncProc[x] \in ProcType
      /\ ClientOf[x] \in Clients /\ SyncTypes /\ CommitGraph
      /\ site \in [Clients -> SiteType] /\ SiteOK(ClientOf[x])
  BY Fields DEF SyncPush, At, SyncInv, SyncTypes, SitesInv
<1>2. /\ t \in DOMAIN commits
      /\ syncProc[x].fetched # 0 => syncProc[x].fetched \in commits[t].ancestors
      /\ syncProc[x].local \in DOMAIN commits
  BY <1>1 DEF SyncInv, ProcsInv, ProcOK, Descends
<1>3. CASE remote # syncProc[x].fetched
  BY <1>1, <1>3, RetryKeeps DEF SyncPush
<1>4. CASE remote = syncProc[x].fetched
  <2>1. remote' = t /\ t # 0 /\ t \in commits[t].ancestors
    BY <1>1, <1>2, <1>4, Rows DEF SyncPush, CommitGraph
  <2>2. RemoteAdvances
    BY <1>1, <1>2, <1>4, <2>1 DEF RemoteAdvances, HistoryUntouched
  <2>3. CASE t = syncProc[x].local
    <3>1. Succeed(x, t, site)
      BY <1>4, <2>3 DEF SyncPush
    <3> HIDE DEF t
    <3> QED BY <1>1, <1>2, <2>1, <2>2, <3>1, SucceedKeeps DEF SiteOK
  <2>4. CASE t # syncProc[x].local
    <3> DEFINE r == [syncProc[x] EXCEPT !.pc = "forward"]
    <3>1. site' = site /\ syncProc' = [syncProc EXCEPT ![x] = r] /\ syncProc'[x] = r
      BY <1>1, <1>4, <2>4 DEF SyncPush, Goto, SyncTypes
    <3>2. r \in ProcType /\ r.pc = "forward" /\ r.local = syncProc[x].local /\ r.target = t
      BY <1>1 DEF ProcType, Pcs
    <3> HIDE DEF r
    <3>3. ProcOK(x)'
      BY <1>1, <1>2, <2>1, <3>1, <3>2 DEF ProcOK, Descends, HistoryUntouched
    <3>4. SyncTypes'
      BY <1>1, <1>2, <2>1, <3>1, <3>2, Rows DEF SyncTypes, HistoryUntouched
    <3>5. Grows /\ CommitGraph'
      BY <1>1 DEF Grows, Extends, HistoryUntouched, CommitGraph
    <3>6. \A d \in Clients : SiteOK(d)'
      BY <1>1, <3>1 DEF SiteOK, SyncInv, SitesInv, HistoryUntouched
    <3>7. LockOK(x)' /\ \A y \in SyncProcs \ {x} : syncProc'[y] = syncProc[y]
      BY <1>1, <3>1, <3>2 DEF LockOK, SyncInv, SitesInv, SyncTypes
    <3> QED BY <2>2, <3>1, <3>3, <3>4, <3>5, <3>6, <3>7, StepPreserves
  <2> QED BY <2>3, <2>4
<1> QED BY <1>3, <1>4

\* The worktree is fast-forwarded, or the sync ends.
LEMMA ForwardKeeps ==
    ASSUME SyncInv, NEW x \in SyncProcs, SyncForward(x)
    PROVE  Kept
<1> DEFINE c == ClientOf[x]
           t == syncProc[x].target
           forward == Descends(t, site[c].commit) /\ ~Pending(c)
           after == IF forward
                    THEN [site EXCEPT ![c].commit = t, ![c].head = commits[t].frontier]
                    ELSE site
<1>1. /\ HistoryUntouched /\ UNCHANGED <<remote, lease, clock, ops>>
      /\ syncProc[x].pc = "forward" /\ IdleSync \in ProcType /\ IdleSync.pc = "idle"
      /\ c \in Clients /\ SyncTypes /\ CommitGraph /\ site[c] \in SiteType
      /\ site \in [Clients -> SiteType] /\ SiteOK(c)
  BY Fields DEF SyncForward, RemoteUntouched, At, SyncInv, SyncTypes, SitesInv, IdleSync
<1>2. t \in DOMAIN commits /\ remote # 0 /\ t \in commits[remote].ancestors /\ t \in Nat
  BY <1>1, Rows DEF SyncInv, ProcsInv, ProcOK, Descends
<1>3. commits[t].frontier \in DOMAIN frontiers /\ commits[t].frontier \in Nat
  BY <1>1, <1>2, Rows DEF CommitGraph
<1>4. /\ after \in [Clients -> SiteType]
      /\ \A d \in Clients \ {c} : after[d] = site[d]
      /\ after[c].lock = site[c].lock
      /\ after[c].synced = site[c].synced
      /\ after[c].head \in DOMAIN frontiers
      /\ after[c].commit \in DOMAIN commits
  <2>1. CASE ~forward
    BY <1>1, <2>1 DEF SiteOK
  <2>2. CASE forward
    <3> DEFINE s == [site[c] EXCEPT !.commit = t, !.head = commits[t].frontier]
    <3>1. after = [site EXCEPT ![c] = s]
      BY <1>1, <2>2
    <3>2. s \in SiteType /\ s.head = commits[t].frontier /\ s.commit = t
          /\ s.synced = site[c].synced /\ s.lock = site[c].lock
      BY <1>1, <1>2, <1>3 DEF SiteType
    <3> HIDE DEF s, after
    <3> QED BY <1>1, <1>2, <1>3, <3>1, <3>2
  <2> QED BY <2>1, <2>2
<1>5. Succeed(x, t, after) \/ (site' = after /\ ExitSync(x))
  BY DEF SyncForward
<1> HIDE DEF after, forward, t
<1>6. Grows /\ CommitGraph' /\ RemoteAdvances
  BY <1>1, Untouched
<1>7. CASE Succeed(x, t, after)
  BY <1>1, <1>2, <1>4, <1>6, <1>7, SucceedKeeps
<1>8. CASE site' = after /\ ExitSync(x)
  <2>1. /\ syncProc'[x] = IdleSync /\ \A y \in SyncProcs \ {x} : syncProc'[y] = syncProc[y]
        /\ syncProc' \in [SyncProcs -> ProcType]
    BY <1>1, <1>8 DEF ExitSync, SyncTypes
  <2>2. ProcOK(x)'
    BY <1>1, <2>1 DEF ProcOK
  <2>3. SyncTypes'
    BY <1>1, <1>4, <1>8, <2>1 DEF SyncTypes, HistoryUntouched
  <2>4. ASSUME NEW d \in Clients PROVE SiteOK(d)' /\ site'[d].synced = site[d].synced
                                       /\ site'[d].lock = site[d].lock
    <3>1. SiteOK(d)
      BY DEF SyncInv, SitesInv
    <3>2. CASE d = c
      <4>1. site'[c].synced = site[c].synced /\ site'[c].lock = site[c].lock
        BY <1>4, <1>8
      <4>2. site'[c].head \in DOMAIN frontiers /\ site'[c].commit \in DOMAIN commits
        BY <1>4, <1>8
      <4> HIDE DEF c
      <4> QED BY <1>1, <3>1, <3>2, <4>1, <4>2 DEF SiteOK, HistoryUntouched
    <3>3. CASE d # c
      BY <1>1, <1>4, <1>8, <3>1, <3>3 DEF SiteOK, HistoryUntouched
    <3> QED BY <3>2, <3>3
  <2>5. LockOK(x)'
    BY <1>1, <2>1, <2>4 DEF LockOK, SyncInv, SitesInv
  <2>6. \A y \in SyncProcs \ {x} : site'[ClientOf[y]].lock = y <=> site[ClientOf[y]].lock = y
    BY <2>4, Fields
  <2> QED BY <1>6, <2>1, <2>2, <2>3, <2>4, <2>5, <2>6, StepPreserves
<1> QED BY <1>5, <1>7, <1>8

\* The tables after a union was written: its commit descends from both sides.
LEMMA UnionWritten ==
    ASSUME SyncInv, NEW local \in DOMAIN commits, remote # 0,
           NEW tails, tails = UnionTails(commits[local].frontier, commits[remote].frontier),
           NEW both, both = {commits[local].frontier, commits[remote].frontier},
           frontiers' = FrontiersWith(tails, both),
           commits' = CommitsWith(NameOf(tails, both), {local, remote}),
           UNCHANGED <<batches, remote>>
    PROVE  /\ tails \in [Clients -> Nat]
           /\ both \in SUBSET DOMAIN frontiers
           /\ frontiers' \in Seq([tails: [Clients -> Nat], previous: SUBSET Nat,
                                  ancestors: SUBSET Nat])
           /\ commits' \in Seq([frontier: Nat, ancestors: SUBSET Nat])
           /\ Grows /\ CommitGraph' /\ RemoteAdvances
           /\ DOMAIN commits' = DOMAIN commits \cup {Len(commits) + 1}
           /\ Len(commits) + 1 \notin DOMAIN commits
           /\ {local, remote} \subseteq commits'[Len(commits) + 1].ancestors
           /\ commits'[Len(commits) + 1].frontier = NameOf(tails, both)
           /\ commits'[Len(commits) + 1].ancestors =
                 {Len(commits) + 1} \cup commits[local].ancestors \cup commits[remote].ancestors
<1> DEFINE f == commits[local].frontier
           g == commits[remote].frontier
           id == NameOf(tails, both)
<1>1. SyncTypes /\ CommitGraph /\ remote \in DOMAIN commits
  BY DEF SyncInv, SitesInv
<1>2. f \in DOMAIN frontiers /\ g \in DOMAIN frontiers
  BY <1>1 DEF CommitGraph
<1>3. tails \in [Clients -> Nat]
  BY <1>1, <1>2, Rows DEF UnionTails
<1>4. both \in SUBSET DOMAIN frontiers
  BY <1>2
<1>5. /\ frontiers' \in Seq([tails: [Clients -> Nat], previous: SUBSET Nat,
                             ancestors: SUBSET Nat])
      /\ Extends(frontiers, frontiers')
      /\ id \in DOMAIN frontiers'
  BY <1>1, <1>3, <1>4, FrontierWritten
<1>6. id \in Nat
  BY <1>5
<1>7. {local, remote} \in SUBSET DOMAIN commits
  BY <1>1
<1> HIDE DEF id
<1>8. /\ commits' \in Seq([frontier: Nat, ancestors: SUBSET Nat])
      /\ Extends(commits, commits')
      /\ CommitGraph'
      /\ DOMAIN commits' = DOMAIN commits \cup {Len(commits) + 1}
      /\ Len(commits) + 1 \notin DOMAIN commits
      /\ commits'[Len(commits) + 1].frontier = id
      /\ commits'[Len(commits) + 1].ancestors =
            {Len(commits) + 1} \cup UNION {commits[p].ancestors : p \in {local, remote}}
      /\ {local, remote} \subseteq commits'[Len(commits) + 1].ancestors
  <2>1. commits' = CommitsWith(id, {local, remote})
    BY DEF id
  <2> QED BY <1>1, <1>5, <1>6, <1>7, <2>1, CommitWritten
<1>9. Grows
  BY <1>5, <1>8 DEF Grows, Extends
<1>10. RemoteAdvances
  BY <1>1, <1>8 DEF RemoteAdvances, Extends, CommitGraph
<1>11. UNION {commits[p].ancestors : p \in {local, remote}}
          = commits[local].ancestors \cup commits[remote].ancestors
  OBVIOUS
<1> QED BY <1>3, <1>4, <1>5, <1>8, <1>9, <1>10, <1>11 DEF id

\* What a fetch decides.
Refetched(x) ==
    /\ remote # syncProc[x].fetched
    /\ Retry(x)
    /\ UNCHANGED <<frontiers, commits, site>>

UpToDate(x) ==
    /\ remote = syncProc[x].fetched
    /\ remote = syncProc[x].local
    /\ Succeed(x, syncProc[x].local, site)
    /\ UNCHANGED <<frontiers, commits>>

FallenBehind(x) ==
    /\ remote = syncProc[x].fetched
    /\ Descends(remote, syncProc[x].local)
    /\ syncProc' = [syncProc EXCEPT ![x].pc = "forward", ![x].target = remote]
    /\ UNCHANGED <<frontiers, commits, site>>

Refused(x) ==
    /\ ExitSync(x)
    /\ UNCHANGED <<frontiers, commits, site>>

Ahead(x) ==
    /\ remote = syncProc[x].fetched
    /\ Descends(syncProc[x].local, remote)
    /\ syncProc' = [syncProc EXCEPT ![x].pc = "push", ![x].target = syncProc[x].local]
    /\ UNCHANGED <<frontiers, commits, site>>

Unites(x, tails, both) ==
    /\ remote = syncProc[x].fetched
    /\ tails = UnionTails(commits[syncProc[x].local].frontier, commits[remote].frontier)
    /\ both = {commits[syncProc[x].local].frontier, commits[remote].frontier}
    /\ VerifiesAs(tails, Behind(both))
    /\ frontiers' = FrontiersWith(tails, both)
    /\ commits' = CommitsWith(NameOf(tails, both), {syncProc[x].local, remote})
    /\ syncProc' = [syncProc EXCEPT ![x].pc = "push", ![x].target = Len(commits) + 1]
    /\ UNCHANGED site

\* A fetch is one of the six cases.
LEMMA FetchCases ==
    ASSUME NEW x \in SyncProcs, SyncFetch(x)
    PROVE  /\ syncProc[x].pc = "fetch"
           /\ UNCHANGED <<batches, remote, lease, clock, ops>>
           /\ \/ Refetched(x) \/ UpToDate(x) \/ FallenBehind(x) \/ Refused(x) \/ Ahead(x)
              \/ \E tails, both : Unites(x, tails, both)
<1>1. /\ syncProc[x].pc = "fetch"
      /\ UNCHANGED <<batches, remote, lease, clock, ops>>
  BY DEF SyncFetch, At, RemoteUntouched
<1> DEFINE local == syncProc[x].local
           f == commits[local].frontier
           g == commits[remote].frontier
           tails == UnionTails(f, g)
<1>2. CASE /\ ~Descends(remote, local) /\ ProtectedPublicationOK(f, g)
           /\ ~Descends(local, remote) /\ VerifiesAs(tails, Behind({f, g}))
           /\ remote = syncProc[x].fetched
  <2>1. UpToDate(x) \/ Unites(x, tails, {f, g})
    BY <1>2 DEF SyncFetch, Unites, UpToDate
  <2> QED BY <1>1, <2>1
<1>3. CASE ~ (/\ ~Descends(remote, local) /\ ProtectedPublicationOK(f, g)
              /\ ~Descends(local, remote) /\ VerifiesAs(tails, Behind({f, g}))
              /\ remote = syncProc[x].fetched)
  <2>1. \/ Refetched(x) \/ UpToDate(x) \/ FallenBehind(x) \/ Refused(x) \/ Ahead(x)
    BY <1>3 DEF SyncFetch, Refetched, UpToDate, FallenBehind, Refused, Ahead
  <2> QED BY <1>1, <2>1
<1> QED BY <1>2, <1>3

\* The fetch and what it decides; a union adds a commit on top of both sides.
LEMMA FetchKeeps ==
    ASSUME SyncInv, NEW x \in SyncProcs, SyncFetch(x)
    PROVE  Kept
<1> DEFINE local == syncProc[x].local
<1>1. /\ syncProc[x].pc = "fetch"
      /\ UNCHANGED <<batches, remote, lease, clock, ops>>
      /\ \/ Refetched(x) \/ UpToDate(x) \/ FallenBehind(x) \/ Refused(x) \/ Ahead(x)
         \/ \E tails, both : Unites(x, tails, both)
  BY FetchCases
<1>2. /\ local \in DOMAIN commits /\ syncProc[x].fetched # 0
      /\ syncProc[x] \in ProcType /\ SyncTypes /\ CommitGraph /\ ClientOf[x] \in Clients
      /\ site \in [Clients -> SiteType] /\ SiteOK(ClientOf[x]) /\ local \in Nat
      /\ remote \in {0} \cup DOMAIN commits /\ remote \in Nat
  BY <1>1, Fields, Rows DEF SyncInv, ProcsInv, ProcOK, SyncTypes, SitesInv
<1>3. CASE Refetched(x)
  BY <1>1, <1>3, RetryKeeps DEF Refetched, HistoryUntouched
<1>4. CASE UpToDate(x)
  <2>1. HistoryUntouched /\ remote' # 0 /\ local \in commits[remote'].ancestors
    BY <1>1, <1>2, <1>4 DEF UpToDate, HistoryUntouched, CommitGraph
  <2>2. RemoteAdvances
    BY <1>1, <2>1, Untouched
  <2> QED BY <1>1, <1>2, <1>4, <2>1, <2>2, SucceedKeeps DEF UpToDate, SiteOK
<1>5. CASE Refused(x)
  BY <1>1, <1>5, Exits DEF Refused, HistoryUntouched, SyncInv, SyncTypes
<1>6. CASE FallenBehind(x)
  <2> DEFINE r == [syncProc[x] EXCEPT !.pc = "forward", !.target = remote]
  <2>1. syncProc' = [syncProc EXCEPT ![x] = r] /\ syncProc'[x] = r
    BY <1>2, <1>6 DEF FallenBehind, SyncTypes
  <2>2. r \in ProcType /\ r.pc = "forward" /\ r.local = local /\ r.target = remote
    BY <1>2 DEF ProcType, Pcs
  <2>3. remote # 0 /\ remote \in DOMAIN commits
    BY <1>2, <1>6 DEF FallenBehind
  <2> HIDE DEF r
  <2>4. ProcOK(x)'
    BY <1>1, <1>2, <1>6, <2>1, <2>2, <2>3 DEF ProcOK, Descends, FallenBehind, CommitGraph
  <2> QED BY <1>1, <1>6, <2>1, <2>2, <2>4, Quiet
        DEF FallenBehind, HistoryUntouched, SyncInv, SyncTypes
<1>7. CASE Ahead(x)
  <2> DEFINE r == [syncProc[x] EXCEPT !.pc = "push", !.target = syncProc[x].local]
  <2>1. syncProc' = [syncProc EXCEPT ![x] = r] /\ syncProc'[x] = r
    BY <1>2, <1>7 DEF Ahead, SyncTypes
  <2>2. r \in ProcType /\ r.pc = "push" /\ r.local = local /\ r.target = local
        /\ r.fetched = remote
    BY <1>2, <1>7 DEF ProcType, Pcs, Ahead
  <2> HIDE DEF r
  <2>4. ProcOK(x)'
    BY <1>1, <1>2, <1>7, <2>1, <2>2 DEF ProcOK, Descends, Ahead
  <2> QED BY <1>1, <1>7, <2>1, <2>2, <2>4, Quiet
        DEF Ahead, HistoryUntouched, SyncInv, SyncTypes
<1>8. ASSUME NEW tails, NEW both, Unites(x, tails, both) PROVE Kept
  <2> DEFINE n == Len(commits) + 1
             r == [syncProc[x] EXCEPT !.pc = "push", !.target = n]
  <2>1. remote # 0
    BY <1>2, <1>8 DEF Unites
  <2>2. /\ frontiers' \in Seq([tails: [Clients -> Nat], previous: SUBSET Nat,
                               ancestors: SUBSET Nat])
        /\ commits' \in Seq([frontier: Nat, ancestors: SUBSET Nat])
        /\ Grows /\ CommitGraph' /\ RemoteAdvances
        /\ DOMAIN commits' = DOMAIN commits \cup {n}
        /\ {local, remote} \subseteq commits'[n].ancestors
    <3> HIDE DEF local
    <3>1. /\ tails = UnionTails(commits[local].frontier, commits[remote].frontier)
          /\ both = {commits[local].frontier, commits[remote].frontier}
          /\ frontiers' = FrontiersWith(tails, both)
          /\ commits' = CommitsWith(NameOf(tails, both), {local, remote})
      BY <1>8 DEF Unites, local
    <3> QED BY <1>1, <1>2, <2>1, <3>1, UnionWritten
  <2>3. syncProc' = [syncProc EXCEPT ![x] = r]
    BY <1>2, <1>8 DEF Unites, SyncTypes
  <2>4. r \in ProcType /\ r.pc = "push" /\ r.local = local /\ r.target = n /\ r.fetched = remote
    <3>1. n \in Nat
      BY <1>2, Rows
    <3> HIDE DEF n
    <3> QED BY <1>2, <1>8, <3>1 DEF ProcType, Pcs, Unites
  <2> HIDE DEF r, n
  <2>5. /\ syncProc'[x] = r /\ \A y \in SyncProcs \ {x} : syncProc'[y] = syncProc[y]
        /\ syncProc' \in [SyncProcs -> ProcType]
    BY <1>2, <2>3, <2>4 DEF SyncTypes
  <2>6. ProcOK(x)'
    BY <1>2, <2>2, <2>4, <2>5 DEF ProcOK, Descends
  <2>7. site' = site
    BY <1>8 DEF Unites
  <2>8. SyncTypes'
    BY <1>1, <1>2, <2>2, <2>5, <2>7 DEF SyncTypes
  <2>9. ASSUME NEW d \in Clients PROVE SiteOK(d)'
    <3>1. SiteOK(d)
      BY DEF SyncInv, SitesInv
    <3> QED BY <1>1, <2>2, <2>7, <3>1 DEF SiteOK, Grows, Extends
  <2>10. LockOK(x)'
    BY <1>1, <2>4, <2>5, <2>7 DEF LockOK, SyncInv, SitesInv
  <2> QED BY <2>2, <2>5, <2>6, <2>7, <2>8, <2>9, <2>10, StepPreserves
<1> QED BY <1>1, <1>3, <1>4, <1>5, <1>6, <1>7, <1>8

\* Every step keeps the invariant, the tables and the remote's history.
LEMMA NextSync == SyncInv /\ [SyncNext]_syncVars => Kept
<1> SUFFICES ASSUME SyncInv, [SyncNext]_syncVars PROVE Kept
  OBVIOUS
<1>1. CASE UNCHANGED syncVars
  <2>1. SyncInv'
    BY <1>1 DEF syncVars, SyncInv, SyncTypes, CommitGraph, SitesInv, SiteOK, LockOK,
                ProcsInv, ProcOK, SyncedIsOnRemote, Descends
  <2>2. Grows /\ RemoteAdvances
    BY <1>1, Untouched DEF syncVars, HistoryUntouched
  <2> QED BY <2>1, <2>2 DEF Kept
<1>2. CASE SyncTick
  BY <1>2, TickKeeps
<1>3. ASSUME NEW x \in SyncProcs, NEW op \in Ops, StartSync(x, op) PROVE Kept
  BY <1>3, StartKeeps
<1>4. ASSUME NEW x \in SyncProcs, CrashSync(x) PROVE Kept
  BY <1>4, CrashKeeps
<1>5. ASSUME NEW x \in SyncProcs, SyncStep(x) PROVE Kept
  BY <1>5, RecoverKeeps, AppendStartKeeps, AdvanceKeeps, CommitTreeKeeps, BeginKeeps,
     ListKeeps, FetchKeeps, PushKeeps, ForwardKeeps, AcquireKeeps DEF SyncStep
<1> QED BY <1>1, <1>2, <1>3, <1>4, <1>5 DEF SyncNext

\* The invariant of the first part holds in every behaviour.
THEOREM SyncInvariant == SyncSpec => []SyncInv
<1>1. SyncInit => SyncInv
  BY InitSync
<1>2. SyncInv /\ [SyncNext]_syncVars => SyncInv'
  BY NextSync DEF Kept
<1> QED BY <1>1, <1>2, PTL DEF SyncSpec

\* sync_remote: the commit a client recorded as accepted is part of what the
\* remote holds, after every later push of anybody, however many processes
\* every installation runs.
THEOREM SyncedStaysOnRemote == SyncSpec => []SyncedIsOnRemote
<1>1. SyncInv => SyncedIsOnRemote
  BY DEF SyncInv
<1> QED BY <1>1, SyncInvariant, PTL

-----------------------------------------------------------------------------
(* One process at a time                                                   *)

\* Every installation runs at most one process.
OneProcess == \A x, y \in SyncProcs : ClientOf[x] = ClientOf[y] => x = y

\* A frontier is formed from frontiers of the table and counts no batch that
\* does not exist.
FrontierGraph ==
    \A f \in DOMAIN frontiers :
        /\ frontiers[f].previous \subseteq DOMAIN frontiers
        /\ frontiers[f].ancestors = {f} \cup Behind(frontiers[f].previous)
        /\ \A c \in Clients : Tails(f)[c] <= Len(batches[c])

\* No commit has fewer batches of a client than one it descends from.
TailsMonotone ==
    \A d \in DOMAIN commits : \A e \in commits[d].ancestors : \A c \in Clients :
        Tails(commits[e].frontier)[c] <= Tails(commits[d].frontier)[c]

\* Whatever Git has accepted verifies.
CommitsVerify == \A d \in DOMAIN commits : RemoteVerified(commits[d].frontier)

\* HEAD of worktree c is at most one append ahead of Git.
OneAhead(c) ==
    LET old == commits[site[c].commit].frontier
    IN  /\ frontiers[site[c].head].previous = {old}
        /\ Tails(site[c].head) = [Tails(old) EXCEPT ![c] = @ + 1]
        /\ batches[c][Len(batches[c])].base = old

\* A worktree has all batches of its own client.
OwnTail(c) ==
    /\ Tails(site[c].head)[c] = Len(batches[c])
    /\ Pending(c) => OneAhead(c)

\* The base an append was verified on is still the worktree's.
BaseIsCurrent(x) ==
    syncProc[x].pc = "head" => /\ syncProc[x].base = site[ClientOf[x]].head
                               /\ ~Pending(ClientOf[x])

SoloInv ==
    /\ FrontierGraph
    /\ TailsMonotone
    /\ CommitsVerify
    /\ \A c \in Clients : OwnTail(c)
    /\ \A x \in SyncProcs : BaseIsCurrent(x)

SameHead(d) == site'[d].head = site[d].head /\ site'[d].commit = site[d].commit

OthersStill(x) == \A y \in SyncProcs \ {x} : syncProc'[y] = syncProc[y]

\* No worktree loses a batch.
HeadsGrow ==
    \A s, c \in Clients : Tails(site[s].head)[c] <= frontiers'[site'[s].head].tails[c]

\* The genesis and the enrolment verify.
LEMMA InitSolo == SyncInit => SoloInv
<1> SUFFICES ASSUME SyncInit PROVE SoloInv
  OBVIOUS
<1>0. SyncInv
  BY InitSync
<1>1. /\ DOMAIN frontiers = {1, 2}
      /\ frontiers[1].previous = {} /\ frontiers[1].ancestors = {1}
      /\ frontiers[2].previous = {1} /\ frontiers[2].ancestors = {1, 2}
      /\ Tails(1) = [c \in Clients |-> 0]
      /\ Tails(2) = [c \in Clients |-> IF c = Initial THEN 1 ELSE 0]
  <2>1. DOMAIN frontiers = 1 .. 2
    BY DEF SyncInit
  <2> QED BY <2>1 DEF SyncInit, Tails
<1>2. DOMAIN commits = {1} /\ commits[1].frontier = 2 /\ commits[1].ancestors = {1}
  BY DEF SyncInit
<1>3. \A c \in Clients : /\ Len(batches[c]) = IF c = Initial THEN 1 ELSE 0
                         /\ c = Initial => batches[c][1].base = 1 /\ batches[c][1].ok = TRUE
  BY DEF SyncInit
<1>4. FrontierGraph
  <2>1. Behind({}) = {} /\ Behind({1}) = {1}
    BY <1>1 DEF Behind
  <2>2. \A c \in Clients : Tails(1)[c] <= Len(batches[c]) /\ Tails(2)[c] <= Len(batches[c])
    BY <1>1, <1>3
  <2>3. /\ {} \subseteq DOMAIN frontiers /\ {1} = {1} \cup Behind({})
        /\ {1} \subseteq DOMAIN frontiers /\ {1, 2} = {2} \cup Behind({1})
    BY <1>1, <2>1
  <2> QED BY <1>1, <2>2, <2>3 DEF FrontierGraph
<1>5. TailsMonotone
  <2>1. \A c \in Clients : Tails(2)[c] \in Nat
    BY <1>1
  <2> QED BY <1>2, <2>1 DEF TailsMonotone
<1>6. CommitsVerify
  <2>1. \A c \in Clients : Tails(2)[c] = IF c = Initial THEN 1 ELSE 0
    BY <1>1
  <2>2. ASSUME NEW c \in Clients, NEW n \in 1 .. Tails(2)[c]
        PROVE  batches[c][n].base \in frontiers[2].ancestors /\ batches[c][n].ok
    <3>1. c = Initial /\ n = 1
      BY <2>1
    <3> QED BY <1>1, <1>3, <3>1
  <2> QED BY <1>2, <2>2 DEF CommitsVerify, RemoteVerified, VerifiesAs
<1>7. ASSUME NEW c \in Clients PROVE OwnTail(c)
  BY <1>1, <1>2, <1>3 DEF OwnTail, Pending, SyncInit
<1>8. ASSUME NEW x \in SyncProcs PROVE BaseIsCurrent(x)
  BY DEF BaseIsCurrent, SyncInit, IdleSync
<1> QED BY <1>4, <1>5, <1>6, <1>7, <1>8 DEF SoloInv

\* Growing tables change nothing about the frontiers that are there, and what
\* verified still does.
LEMMA Stable ==
    ASSUME SyncInv, FrontierGraph, Kept
    PROVE  /\ \A f \in DOMAIN frontiers : f \in DOMAIN frontiers' /\ frontiers'[f] = frontiers[f]
           /\ \A d \in DOMAIN commits : d \in DOMAIN commits' /\ commits'[d] = commits[d]
           /\ \A c \in Clients : Len(batches[c]) <= Len(batches'[c])
           /\ \A c \in Clients : \A n \in 1 .. Len(batches[c]) : batches'[c][n] = batches[c][n]
           /\ \A f \in DOMAIN frontiers : RemoteVerified(f) => RemoteVerified(f)'
<1>1. /\ \A f \in DOMAIN frontiers : f \in DOMAIN frontiers' /\ frontiers'[f] = frontiers[f]
      /\ \A d \in DOMAIN commits : d \in DOMAIN commits' /\ commits'[d] = commits[d]
  BY DEF Kept, Grows, Extends
<1>2. ASSUME NEW c \in Clients
      PROVE  /\ Len(batches[c]) \in Nat /\ Len(batches'[c]) \in Nat
             /\ Len(batches[c]) <= Len(batches'[c])
             /\ \A n \in 1 .. Len(batches[c]) : batches'[c][n] = batches[c][n]
  <2> DEFINE B == [base: Nat, lease: Nat, ok: BOOLEAN]
  <2>1. batches[c] \in Seq(B) /\ batches'[c] \in Seq(B)
    BY DEF SyncInv, SyncTypes, Kept
  <2> HIDE DEF B
  <2>2. /\ DOMAIN batches[c] = 1 .. Len(batches[c]) /\ Len(batches[c]) \in Nat
        /\ DOMAIN batches'[c] = 1 .. Len(batches'[c]) /\ Len(batches'[c]) \in Nat
    BY <2>1
  <2>3. Extends(batches[c], batches'[c])
    BY DEF Kept, Grows
  <2>4. Len(batches[c]) = 0 \/ Len(batches[c]) \in 1 .. Len(batches[c])
    BY <2>2
  <2> QED BY <2>2, <2>3, <2>4 DEF Extends
<1>3. ASSUME NEW f \in DOMAIN frontiers, RemoteVerified(f) PROVE RemoteVerified(f)'
  <2>1. Tails(f) \in [Clients -> Nat] /\ \A c \in Clients : Tails(f)[c] <= Len(batches[c])
    BY Rows DEF FrontierGraph, SyncInv
  <2>2. ASSUME NEW c \in Clients, NEW n \in 1 .. Tails(f)[c]
        PROVE  batches'[c][n].base \in frontiers[f].ancestors /\ batches'[c][n].ok
    <3>1. n \in 1 .. Len(batches[c])
      BY <1>2, <2>1
    <3>2. batches'[c][n] = batches[c][n]
      BY <1>2, <3>1
    <3> QED BY <1>3, <3>2 DEF RemoteVerified, VerifiesAs
  <2> QED BY <1>1, <2>2 DEF RemoteVerified, VerifiesAs, Tails
<1> QED BY <1>1, <1>2, <1>3

\* A step of process x: what remains to be shown of its own worktree.
LEMMA SoloStep ==
    ASSUME OneProcess, SyncInv, SoloInv, Kept, NEW x \in SyncProcs, NEW c \in Clients,
           c = ClientOf[x], OthersStill(x),
           \A d \in Clients \ {c} : SameHead(d) /\ batches'[d] = batches[d],
           FrontierGraph', TailsMonotone', CommitsVerify', OwnTail(c)', BaseIsCurrent(x)',
           \A e \in Clients : Tails(site[c].head)[e] <= frontiers'[site'[c].head].tails[e]
    PROVE  SoloInv' /\ HeadsGrow
<1>1. FrontierGraph
  BY DEF SoloInv
<1>2. ASSUME NEW d \in Clients \ {c}
      PROVE  /\ OwnTail(d)'
             /\ Pending(d)' <=> Pending(d)
             /\ \A e \in Clients : Tails(site[d].head)[e] <= frontiers'[site'[d].head].tails[e]
  <2>1. site[d].head \in DOMAIN frontiers /\ site[d].commit \in DOMAIN commits
    BY DEF SyncInv, SitesInv, SiteOK
  <2>2. commits[site[d].commit].frontier \in DOMAIN frontiers
    BY <2>1 DEF SyncInv, CommitGraph
  <2>3. /\ frontiers'[site'[d].head] = frontiers[site[d].head]
        /\ commits'[site'[d].commit] = commits[site[d].commit]
        /\ frontiers'[commits[site[d].commit].frontier] = frontiers[commits[site[d].commit].frontier]
        /\ site'[d].head = site[d].head /\ batches'[d] = batches[d]
    BY <1>1, <2>1, <2>2, Stable DEF SameHead
  <2>4. Pending(d)' <=> Pending(d)
    BY <2>3 DEF Pending
  <2>5. OwnTail(d)
    BY DEF SoloInv
  <2>6. OwnTail(d)'
    BY <2>3, <2>4, <2>5 DEF OwnTail, OneAhead, Tails
  <2>7. Tails(site[d].head) \in [Clients -> Nat]
    BY <2>1, Rows DEF SyncInv
  <2> QED BY <2>3, <2>4, <2>6, <2>7 DEF Tails
<1>3. ASSUME NEW y \in SyncProcs \ {x} PROVE BaseIsCurrent(y)'
  <2>1. ClientOf[y] \in Clients \ {c}
    BY Fields DEF OneProcess
  <2>2. BaseIsCurrent(y)
    BY DEF SoloInv
  <2> QED BY <1>2, <2>1, <2>2 DEF BaseIsCurrent, OthersStill, SameHead
<1> QED BY <1>2, <1>3 DEF SoloInv, HeadsGrow

\* A step that leaves the tables and the worktrees' HEADs alone.
LEMMA SoloStill ==
    ASSUME OneProcess, SyncInv, SoloInv, Kept, NEW x \in SyncProcs,
           HistoryUntouched, OthersStill(x), \A d \in Clients : SameHead(d),
           BaseIsCurrent(x)'
    PROVE  SoloInv' /\ HeadsGrow
<1>1. FrontierGraph'
  BY DEF SoloInv, FrontierGraph, Behind, Tails, HistoryUntouched
<1>2. TailsMonotone'
  BY DEF SoloInv, TailsMonotone, Tails, HistoryUntouched
<1>3. CommitsVerify'
  BY DEF SoloInv, CommitsVerify, RemoteVerified, VerifiesAs, Tails, HistoryUntouched
<1>4. ClientOf[x] \in Clients
  BY Fields
<1>5. OwnTail(ClientOf[x])'
  BY <1>4 DEF SoloInv, OwnTail, OneAhead, Pending, Tails, HistoryUntouched, SameHead
<1>6. \A d \in Clients : batches'[d] = batches[d]
  BY DEF HistoryUntouched
<1>7. \A e \in Clients :
         Tails(site[ClientOf[x]].head)[e] <= frontiers'[site'[ClientOf[x]].head].tails[e]
  <2>1. Tails(site[ClientOf[x]].head) \in [Clients -> Nat]
    BY <1>4, Rows DEF SyncInv, SitesInv, SiteOK
  <2> QED BY <1>4, <2>1 DEF SameHead, Tails, HistoryUntouched
<1> QED BY <1>1, <1>2, <1>3, <1>4, <1>5, <1>6, <1>7, SoloStep

\* Where a process goes.
LEMMA ProcSteps ==
    ASSUME SyncInv, NEW x \in SyncProcs
    PROVE  /\ ExitSync(x) => syncProc'[x].pc = "idle" /\ OthersStill(x)
           /\ \A pc : Goto(x, pc) => syncProc'[x].pc = pc /\ OthersStill(x)
           /\ Retry(x) => syncProc'[x].pc \in {"list", "idle"} /\ OthersStill(x)
<1>1. syncProc \in [SyncProcs -> ProcType]
  BY DEF SyncInv, SyncTypes
<1>2. ExitSync(x) => syncProc'[x].pc = "idle" /\ OthersStill(x)
  BY <1>1 DEF ExitSync, IdleSync, OthersStill
<1>3. ASSUME NEW pc, Goto(x, pc) PROVE syncProc'[x].pc = pc /\ OthersStill(x)
  BY <1>1, <1>3 DEF Goto, OthersStill, ProcType
<1>4. Retry(x) => syncProc'[x].pc \in {"list", "idle"} /\ OthersStill(x)
  BY <1>1, <1>2 DEF Retry, OthersStill, ProcType
<1> QED BY <1>2, <1>3, <1>4

\* A sync that ends well moves its process on.
LEMMA SucceedSteps ==
    ASSUME SyncInv, NEW x \in SyncProcs, NEW t, NEW w \in [Clients -> SiteType],
           Succeed(x, t, w)
    PROVE  /\ syncProc'[x].pc \in {"idle", "acquire", "release"} /\ OthersStill(x)
           /\ \A d \in Clients : site'[d].head = w[d].head /\ site'[d].commit = w[d].commit
<1>1. site' = [w EXCEPT ![ClientOf[x]].synced = t]
  BY DEF Succeed
<1>2. \A d \in Clients : site'[d].head = w[d].head /\ site'[d].commit = w[d].commit
  BY <1>1, Fields DEF SiteType
<1>3. ExitSync(x) \/ Goto(x, "acquire") \/ Goto(x, "release")
  BY DEF Succeed
<1> QED BY <1>2, <1>3, ProcSteps

\* The steps that leave the tables and every HEAD alone.
LEMMA StillActions ==
    ASSUME OneProcess, SyncInv, SoloInv, Kept, NEW x \in SyncProcs,
           \/ \E op \in Ops : StartSync(x, op)
           \/ CrashSync(x) \/ AppendStart(x) \/ SyncBegin(x) \/ SyncList(x) \/ SyncPush(x)
           \/ AcquireBegin(x) \/ AcquireLease(x) \/ ReleaseLease(x)
    PROVE  SoloInv' /\ HeadsGrow
<1> DEFINE Goal == HistoryUntouched /\ OthersStill(x) /\ (\A d \in Clients : SameHead(d))
                   /\ BaseIsCurrent(x)'
<1>0. SUFFICES Goal
  BY SoloStill
<1>1. /\ syncProc \in [SyncProcs -> ProcType] /\ site \in [Clients -> SiteType]
      /\ ClientOf[x] \in Clients
  BY Fields DEF SyncInv, SyncTypes
<1>2. UNCHANGED site => \A d \in Clients : SameHead(d)
  BY DEF SameHead
<1>3. ASSUME NEW op \in Ops, StartSync(x, op) PROVE Goal
  <2>1. syncProc'[x].pc # "head" /\ OthersStill(x)
    BY <1>1, <1>3, SyncAssumption DEF StartSync, OthersStill, IdleSync
  <2> QED BY <1>2, <1>3, <2>1 DEF StartSync, BaseIsCurrent
<1>4. CASE CrashSync(x)
  <2>1. \A d \in Clients : SameHead(d)
    BY <1>1, <1>4 DEF CrashSync, SameHead, SiteType
  <2> QED BY <1>4, <2>1, ProcSteps DEF CrashSync, BaseIsCurrent
<1>5. CASE AppendStart(x)
  <2>1. HistoryUntouched
    BY <1>5 DEF AppendStart
  <2>2. CASE FailAppend(x) /\ UNCHANGED site
    <3>1. ExitSync(x) \/ Goto(x, "release")
      BY <2>2 DEF FailAppend
    <3> QED BY <1>2, <2>1, <2>2, <3>1, ProcSteps DEF BaseIsCurrent
  <2>3. CASE ~(FailAppend(x) /\ UNCHANGED site)
    <3>1. /\ site' = [site EXCEPT ![ClientOf[x]].lock = x, ![ClientOf[x]].files = TRUE]
          /\ syncProc' = [syncProc EXCEPT ![x].pc = "head", ![x].base = site[ClientOf[x]].head,
                                          ![x].time = clock]
          /\ ~Pending(ClientOf[x])
      BY <1>5, <2>3 DEF AppendStart
    <3>2. OthersStill(x) /\ syncProc'[x].base = site[ClientOf[x]].head
      BY <1>1, <3>1 DEF OthersStill, ProcType
    <3>3. \A d \in Clients : SameHead(d)
      BY <1>1, <3>1 DEF SameHead, SiteType
    <3> QED BY <1>1, <2>1, <3>1, <3>2, <3>3
          DEF BaseIsCurrent, SameHead, Pending, HistoryUntouched
  <2> QED BY <2>2, <2>3
<1>6. CASE SyncBegin(x) \/ SyncList(x) \/ AcquireBegin(x) \/ AcquireLease(x) \/ ReleaseLease(x)
  <2>1. HistoryUntouched /\ UNCHANGED site
    BY <1>6 DEF SyncBegin, SyncList, AcquireBegin, AcquireLease, ReleaseLease
  <2>2. CASE ExitSync(x)
    BY <1>2, <2>1, <2>2, ProcSteps DEF BaseIsCurrent
  <2>3. CASE ~ExitSync(x)
    <3>1. syncProc'[x].pc # "head" /\ OthersStill(x)
      BY <1>1, <1>6, <2>3
      DEF SyncBegin, SyncList, AcquireBegin, AcquireLease, ReleaseLease, OthersStill, ProcType
    <3> QED BY <1>2, <2>1, <3>1 DEF BaseIsCurrent
  <2> QED BY <2>2, <2>3
<1>7. CASE SyncPush(x)
  <2>1. HistoryUntouched
    BY <1>7 DEF SyncPush
  <2>2. CASE Succeed(x, syncProc[x].local, site)
    BY <1>1, <2>1, <2>2, SucceedSteps DEF SameHead, BaseIsCurrent
  <2>3. CASE ~Succeed(x, syncProc[x].local, site)
    <3>1. UNCHANGED site /\ (Retry(x) \/ Goto(x, "forward"))
      BY <1>7, <2>3 DEF SyncPush
    <3> QED BY <1>2, <2>1, <3>1, ProcSteps DEF BaseIsCurrent
  <2> QED BY <2>2, <2>3
<1> QED BY <1>3, <1>4, <1>5, <1>6, <1>7

\* An append that is one step ahead verifies when its batch does.
LEMMA StepVerifies ==
    ASSUME SyncInv, SoloInv, NEW c \in Clients, OneAhead(c),
           batches[c][Len(batches[c])].ok
    PROVE  RemoteVerified(site[c].head)
<1> DEFINE old == commits[site[c].commit].frontier
           h == site[c].head
<1>1. /\ h \in DOMAIN frontiers /\ old \in DOMAIN frontiers
      /\ Tails(old) \in [Clients -> Nat] /\ RemoteVerified(old)
  BY Rows DEF SyncInv, SitesInv, SiteOK, CommitGraph, SoloInv, CommitsVerify
<1>2. /\ frontiers[h].previous = {old}
      /\ Tails(h) = [Tails(old) EXCEPT ![c] = @ + 1]
      /\ batches[c][Len(batches[c])].base = old
      /\ Tails(h)[c] = Len(batches[c])
  BY DEF OneAhead, SoloInv, OwnTail
<1>3. old \in frontiers[h].ancestors /\ frontiers[old].ancestors \subseteq frontiers[h].ancestors
  <2>1. frontiers[h].ancestors = {h} \cup Behind({old})
    BY <1>1, <1>2 DEF SoloInv, FrontierGraph
  <2>2. Behind({old}) = frontiers[old].ancestors
    BY DEF Behind
  <2>3. old \in frontiers[old].ancestors
    BY <1>1 DEF SoloInv, FrontierGraph
  <2> QED BY <2>1, <2>2, <2>3
<1> HIDE DEF old, h
<1>4. ASSUME NEW d \in Clients, NEW n \in 1 .. Tails(h)[d]
      PROVE  batches[d][n].base \in frontiers[h].ancestors /\ batches[d][n].ok
  <2>1. CASE n \in 1 .. Tails(old)[d]
    BY <1>1, <1>3, <2>1 DEF RemoteVerified, VerifiesAs
  <2>2. CASE n \notin 1 .. Tails(old)[d]
    <3>1. d = c /\ n = Len(batches[c])
      BY <1>1, <1>2, <2>2
    <3> QED BY <1>2, <1>3, <3>1
  <2> QED BY <2>1, <2>2
<1> QED BY <1>4 DEF RemoteVerified, VerifiesAs, h

\* git commit of a worktree that verifies.
LEMMA SoloCommits ==
    ASSUME OneProcess, SyncInv, SoloInv, Kept, NEW x \in SyncProcs, NEW c \in Clients,
           c = ClientOf[x], RemoteVerified(site[c].head),
           UNCHANGED <<frontiers, batches>>,
           commits' = CommitsWith(site[c].head, {site[c].commit}),
           OthersStill(x), syncProc'[x].pc # "head",
           \A d \in Clients \ {c} : SameHead(d),
           site'[c].head = site[c].head, site'[c].commit = Len(commits) + 1
    PROVE  SoloInv' /\ HeadsGrow
<1> DEFINE h == site[c].head
           n == Len(commits) + 1
           p == site[c].commit
<1>0. /\ frontiers' = frontiers /\ batches' = batches /\ site'[c].head = h
      /\ commits' = CommitsWith(h, {p}) /\ site'[c].commit = n
  OBVIOUS
<1>1. /\ SyncTypes /\ CommitGraph /\ h \in DOMAIN frontiers /\ p \in DOMAIN commits
      /\ commits[p].frontier \in DOMAIN frontiers /\ h \in Nat
      /\ Tails(h) \in [Clients -> Nat] /\ Tails(commits[p].frontier) \in [Clients -> Nat]
  BY Rows DEF SyncInv, SitesInv, SiteOK, CommitGraph
<1> HIDE DEF h, p
<1>2. /\ DOMAIN commits' = DOMAIN commits \cup {n} /\ n \notin DOMAIN commits
      /\ commits'[n].frontier = h
      /\ commits'[n].ancestors = {n} \cup commits[p].ancestors
      /\ Extends(commits, commits')
  <2>1. h \in DOMAIN frontiers' /\ Extends(frontiers, frontiers')
    BY <1>0, <1>1 DEF Extends
  <2>2. {p} \in SUBSET DOMAIN commits
    BY <1>1
  <2>3. UNION {commits[q].ancestors : q \in {p}} = commits[p].ancestors
    OBVIOUS
  <2> QED BY <1>0, <1>1, <2>1, <2>2, <2>3, CommitWritten
<1>3. \A e \in Clients : Tails(commits[p].frontier)[e] <= Tails(h)[e]
  <2>1. OwnTail(c)
    BY DEF SoloInv
  <2>2. CASE Pending(c)
    BY <1>1, <2>1, <2>2 DEF OwnTail, OneAhead, h, p
  <2>3. CASE ~Pending(c)
    BY <1>1, <2>3 DEF Pending, h, p
  <2> QED BY <2>2, <2>3
<1>4. FrontierGraph'
  BY <1>0 DEF SoloInv, FrontierGraph, Behind, Tails
<1>5. TailsMonotone'
  <2> SUFFICES ASSUME NEW d \in DOMAIN commits', NEW e \in commits'[d].ancestors,
                      NEW k \in Clients
               PROVE  Tails(commits'[e].frontier)[k] <= Tails(commits'[d].frontier)[k]
    BY <1>0 DEF TailsMonotone, Tails
  <2>1. CASE d \in DOMAIN commits
    <3>1. commits'[d] = commits[d] /\ e \in DOMAIN commits /\ commits'[e] = commits[e]
      BY <1>1, <1>2, <2>1 DEF Extends, CommitGraph
    <3> QED BY <2>1, <3>1 DEF SoloInv, TailsMonotone
  <2>2. CASE d = n /\ e = n
    BY <1>1, <1>2, <2>2
  <2>3. CASE d = n /\ e \in commits[p].ancestors
    <3>1. e \in DOMAIN commits /\ commits'[e] = commits[e]
      BY <1>1, <1>2, <2>3 DEF Extends, CommitGraph
    <3>2. Tails(commits[e].frontier)[k] <= Tails(commits[p].frontier)[k]
      BY <1>1, <2>3 DEF SoloInv, TailsMonotone
    <3>3. Tails(commits[e].frontier) \in [Clients -> Nat]
      BY <1>1, <3>1, Rows DEF CommitGraph
    <3>4. Tails(commits[p].frontier)[k] <= Tails(h)[k]
      BY <1>3
    <3>5. commits'[d].frontier = h
      BY <1>2, <2>3
    <3> QED BY <1>1, <3>1, <3>2, <3>3, <3>4, <3>5
  <2> QED BY <1>2, <2>1, <2>2, <2>3
<1>6. CommitsVerify'
  <2>1. \A d \in DOMAIN commits' : RemoteVerified(commits'[d].frontier)
    BY <1>1, <1>2 DEF SoloInv, CommitsVerify, Extends, h
  <2> QED BY <1>0, <2>1 DEF CommitsVerify, RemoteVerified, VerifiesAs, Tails
<1>7. ~Pending(c)'
  BY <1>0, <1>2 DEF Pending
<1>8. OwnTail(c)'
  BY <1>0, <1>7 DEF OwnTail, SoloInv, Tails, h
<1>9. \A e \in Clients : Tails(h)[e] <= frontiers'[site'[c].head].tails[e]
  BY <1>0, <1>1 DEF Tails
<1>10. \A d \in Clients : batches'[d] = batches[d]
  BY <1>0
<1>11. BaseIsCurrent(x)'
  BY DEF BaseIsCurrent
<1> QED BY <1>4, <1>5, <1>6, <1>8, <1>9, <1>10, <1>11, SoloStep DEF h

\* A recovered publication verifies before it is committed.
LEMMA RecoverSolo ==
    ASSUME OneProcess, SyncInv, SoloInv, Kept, NEW x \in SyncProcs, RecoverPublication(x)
    PROVE  SoloInv' /\ HeadsGrow
<1> DEFINE c == ClientOf[x]
<1>1. /\ UNCHANGED <<frontiers, batches>> /\ c \in Clients /\ syncProc[x].pc = "append"
      /\ site \in [Clients -> SiteType]
  BY Fields DEF RecoverPublication, Unlocked, At, SyncInv, SyncTypes
<1>2. CASE FailAppend(x) /\ UNCHANGED <<commits, site>>
  <2>1. ExitSync(x) \/ Goto(x, "release")
    BY <1>2 DEF FailAppend
  <2>2. OthersStill(x) /\ BaseIsCurrent(x)'
    BY <2>1, ProcSteps DEF BaseIsCurrent
  <2> QED BY <1>1, <1>2, <2>2, SoloStill DEF HistoryUntouched, SameHead
<1>3. CASE ~(FailAppend(x) /\ UNCHANGED <<commits, site>>)
  <2>1. /\ RemoteVerified(site[c].head)
        /\ commits' = CommitsWith(site[c].head, {site[c].commit})
        /\ site' = [site EXCEPT ![c].commit = Len(commits) + 1, ![c].files = FALSE]
        /\ UNCHANGED syncProc
    BY <1>3 DEF RecoverPublication
  <2>2. /\ OthersStill(x) /\ syncProc'[x].pc # "head"
        /\ \A d \in Clients \ {c} : SameHead(d)
        /\ site'[c].head = site[c].head /\ site'[c].commit = Len(commits) + 1
    BY <1>1, <2>1 DEF OthersStill, SameHead, SiteType
  <2> QED BY <1>1, <2>1, <2>2, SoloCommits
<1> QED BY <1>2, <1>3

\* An append verifies before it is committed: the initial client's shortcut
\* reads all there is to check when HEAD is one step ahead.
LEMMA CommitTreeSolo ==
    ASSUME OneProcess, SyncInv, SoloInv, Kept, NEW x \in SyncProcs, CommitTree(x)
    PROVE  SoloInv' /\ HeadsGrow
<1> DEFINE c == ClientOf[x]
           old == commits[site[c].commit].frontier
<1>1. /\ UNCHANGED <<frontiers, batches>> /\ c \in Clients /\ syncProc[x].pc = "commit"
      /\ site \in [Clients -> SiteType]
  BY Fields DEF CommitTree, At, SyncInv, SyncTypes
<1>2. ExitSync(x) \/ Goto(x, "sync") \/ Goto(x, "release")
  BY DEF CommitTree, AfterAppend, FailAppend
<1>3. OthersStill(x) /\ syncProc'[x].pc # "head"
  BY <1>2, ProcSteps
<1>4. CASE ~AppendBaseOK(c)
  <2>1. UNCHANGED commits /\ site' = [site EXCEPT ![c].lock = Nobody]
    BY <1>4 DEF CommitTree
  <2>2. \A d \in Clients : SameHead(d)
    BY <1>1, <2>1 DEF SameHead, SiteType
  <2> QED BY <1>1, <1>3, <2>1, <2>2, SoloStill DEF HistoryUntouched, BaseIsCurrent
<1>5. CASE AppendBaseOK(c)
  <2>1. /\ commits' = CommitsWith(site[c].head, {site[c].commit})
        /\ site' = [site EXCEPT ![c].commit = Len(commits) + 1, ![c].files = FALSE,
                                ![c].lock = Nobody]
    BY <1>5 DEF CommitTree
  <2>2. /\ \A d \in Clients \ {c} : SameHead(d)
        /\ site'[c].head = site[c].head /\ site'[c].commit = Len(commits) + 1
    BY <1>1, <2>1 DEF SameHead, SiteType
  <2>3. RemoteVerified(site[c].head)
    <3>1. CASE ~Pending(c)
      BY <1>1, <3>1 DEF Pending, SyncInv, SitesInv, SiteOK, SoloInv, CommitsVerify
    <3>2. CASE ~(c = Initial /\ Cardinality(frontiers[site[c].head].previous) = 1)
      BY <1>5, <3>2 DEF AppendBaseOK
    <3>3. CASE Pending(c) /\ c = Initial /\ Cardinality(frontiers[site[c].head].previous) = 1
      <4>1. OneAhead(c) /\ Tails(site[c].head)[c] = Len(batches[c])
        BY <1>1, <3>3 DEF SoloInv, OwnTail
      <4>2. Tails(old) \in [Clients -> Nat]
        BY <1>1, Rows DEF SyncInv, SitesInv, SiteOK, CommitGraph
      <4>3. /\ frontiers[site[c].head].previous = {old}
            /\ frontiers[site[c].head].tails = [Tails(old) EXCEPT ![c] = @ + 1]
        BY <4>1 DEF OneAhead, Tails
      <4>4. Len(batches[c]) = Tails(old)[c] + 1
        BY <1>1, <4>1, <4>2, <4>3 DEF Tails
      <4>5. \A n \in Tails(old)[c] + 1 .. frontiers[site[c].head].tails[c] : batches[c][n].ok
        BY <1>5, <3>3, <4>3 DEF AppendBaseOK
      <4>6. Len(batches[c]) \in Tails(old)[c] + 1 .. frontiers[site[c].head].tails[c]
        <5>1. Tails(old)[c] \in Nat
          BY <1>1, <4>2
        <5>2. frontiers[site[c].head].tails[c] = Tails(old)[c] + 1
          BY <4>1, <4>4 DEF Tails
        <5> QED BY <4>4, <5>1, <5>2
      <4> QED BY <1>1, <4>1, <4>5, <4>6, StepVerifies
    <3> QED BY <3>1, <3>2, <3>3
  <2> QED BY <1>1, <1>3, <2>1, <2>2, <2>3, SoloCommits
<1> QED BY <1>4, <1>5

\* A frontier that is written keeps the graph of frontiers.
LEMMA FrontierGraphKept ==
    ASSUME SyncInv, FrontierGraph, Kept,
           NEW tails \in [Clients -> Nat], NEW previous \in SUBSET DOMAIN frontiers,
           frontiers' = FrontiersWith(tails, previous),
           \A c \in Clients : tails[c] <= Len(batches'[c])
    PROVE  FrontierGraph'
<1> DEFINE id == NameOf(tails, previous)
<1>1. /\ Extends(frontiers, frontiers')
      /\ id \in DOMAIN frontiers'
      /\ frontiers'[id].tails = tails
      /\ frontiers'[id].previous = previous
      /\ DOMAIN frontiers' \subseteq DOMAIN frontiers \cup {id}
      /\ id \notin DOMAIN frontiers => frontiers'[id].ancestors = {id} \cup Behind(previous)
  BY FrontierWritten DEF SyncInv
<1> HIDE DEF id
<1> DEFINE Up(q) == UNION {frontiers'[p].ancestors : p \in q}
<1>2. ASSUME NEW q \in SUBSET DOMAIN frontiers PROVE Up(q) = Behind(q)
  BY <1>1 DEF Behind, Extends
<1>3. ASSUME NEW f \in DOMAIN frontiers'
      PROVE  /\ frontiers'[f].previous \subseteq DOMAIN frontiers'
             /\ frontiers'[f].ancestors = {f} \cup Up(frontiers'[f].previous)
             /\ \A c \in Clients : frontiers'[f].tails[c] <= Len(batches'[c])
  <2>1. CASE f \in DOMAIN frontiers
    <3>1. frontiers'[f] = frontiers[f] /\ frontiers[f].previous \in SUBSET DOMAIN frontiers
      BY <1>1, <2>1 DEF Extends, FrontierGraph
    <3>2. Up(frontiers'[f].previous) = Behind(frontiers[f].previous)
      BY <1>2, <3>1
    <3>3. ASSUME NEW c \in Clients PROVE frontiers[f].tails[c] <= Len(batches'[c])
      <4>1. frontiers[f].tails[c] <= Len(batches[c]) /\ frontiers[f].tails \in [Clients -> Nat]
        BY <2>1, Rows DEF FrontierGraph, Tails, SyncInv
      <4>2. Len(batches[c]) <= Len(batches'[c])
        BY Stable
      <4>3. Len(batches[c]) \in Nat /\ Len(batches'[c]) \in Nat
        BY DEF SyncInv, SyncTypes, Kept
      <4> QED BY <4>1, <4>2, <4>3
    <3> QED BY <1>1, <2>1, <3>1, <3>2, <3>3 DEF FrontierGraph, Extends
  <2>2. CASE f = id /\ id \notin DOMAIN frontiers
    <3>1. Up(frontiers'[f].previous) = Behind(previous)
      BY <1>1, <1>2, <2>2
    <3> QED BY <1>1, <2>2, <3>1 DEF Extends
  <2> QED BY <1>1, <2>1, <2>2
<1> QED BY <1>3 DEF FrontierGraph, Tails, Behind

\* Without a new commit the accepted history stays as it was.
LEMMA HistoryKept ==
    ASSUME SyncInv, SoloInv, Kept, UNCHANGED commits
    PROVE  TailsMonotone' /\ CommitsVerify'
<1>1. \A d \in DOMAIN commits : commits[d].frontier \in DOMAIN frontiers
                                /\ commits[d].ancestors \subseteq DOMAIN commits
  BY DEF SyncInv, CommitGraph
<1>2. \A f \in DOMAIN frontiers : /\ frontiers'[f] = frontiers[f]
                                  /\ RemoteVerified(f) => RemoteVerified(f)'
  BY Stable DEF SoloInv
<1>3. TailsMonotone'
  BY <1>1, <1>2 DEF SoloInv, TailsMonotone, Tails
<1>4. \A d \in DOMAIN commits : RemoteVerified(commits[d].frontier)'
  BY <1>1, <1>2 DEF SoloInv, CommitsVerify
<1>5. CommitsVerify'
  BY <1>4 DEF CommitsVerify
<1> QED BY <1>3, <1>5

\* The new frontier is one step from the committed one, and it is new: no
\* frontier counts that batch yet.
LEMMA AdvanceSolo ==
    ASSUME OneProcess, SyncInv, SoloInv, Kept, NEW x \in SyncProcs, AdvanceHead(x)
    PROVE  SoloInv' /\ HeadsGrow
<1> DEFINE c == ClientOf[x]
           base == syncProc[x].base
           tails == [Tails(base) EXCEPT ![c] = @ + 1]
           id == NameOf(tails, {base})
           B == [base: Nat, lease: Nat, ok: BOOLEAN]
<1>1. /\ UNCHANGED commits /\ syncProc[x].pc = "head" /\ c \in Clients
      /\ base \in DOMAIN frontiers /\ SyncTypes
      /\ syncProc \in [SyncProcs -> ProcType] /\ site \in [Clients -> SiteType]
  BY Fields DEF AdvanceHead, At, SyncInv, ProcsInv, ProcOK, SyncTypes
<1>2. /\ base = site[c].head /\ ~Pending(c)
      /\ Tails(base)[c] = Len(batches[c])
      /\ base = commits[site[c].commit].frontier
  BY <1>1 DEF SoloInv, BaseIsCurrent, OwnTail, Pending
<1>3. Tails(base) \in [Clients -> Nat]
  BY <1>1, Rows
<1>4. /\ frontiers' = FrontiersWith(tails, {base})
      /\ site' = [site EXCEPT ![c].head = id]
      /\ Goto(x, "commit")
  BY DEF AdvanceHead
<1>5. PICK b \in B : b.base = base /\ batches' = [batches EXCEPT ![c] = Append(batches[c], b)]
  BY AdvanceBatch
<1>6. /\ tails \in [Clients -> Nat]
      /\ tails[c] = Len(batches[c]) + 1
      /\ \A d \in Clients \ {c} : tails[d] = Tails(base)[d]
      /\ \A e \in Clients : Tails(base)[e] <= tails[e]
  <2> DEFINE t == Tails(base)
  <2>1. t[c] = Len(batches[c]) /\ t \in [Clients -> Nat]
    BY <1>2, <1>3
  <2> HIDE DEF t, base, c
  <2>2. LET u == [t EXCEPT ![c] = @ + 1]
        IN  /\ u \in [Clients -> Nat]
            /\ u[c] = t[c] + 1
            /\ \A d \in Clients \ {c} : u[d] = t[d]
            /\ \A e \in Clients : t[e] <= u[e]
    BY <1>1, <2>1
  <2>3. tails = [t EXCEPT ![c] = @ + 1]
    BY DEF t
  <2> HIDE DEF tails
  <2> QED BY <2>1, <2>2, <2>3 DEF t
<1>7. \A e \in Clients : Tails(base)[e] <= tails[e]
  BY <1>6
<1> HIDE DEF B
<1>8. /\ Len(batches[c]) \in Nat
      /\ batches'[c][Len(batches[c]) + 1] = b
      /\ Len(batches'[c]) = Len(batches[c]) + 1
      /\ \A d \in Clients \ {c} : batches'[d] = batches[d]
  <2>1. batches[c] \in Seq(B)
    BY <1>1 DEF SyncTypes, B
  <2>2. batches'[c] = Append(batches[c], b) /\ \A d \in Clients \ {c} : batches'[d] = batches[d]
    BY <1>1, <1>5 DEF SyncTypes
  <2>3. /\ Len(batches[c]) \in Nat
        /\ Append(batches[c], b)[Len(batches[c]) + 1] = b
        /\ Len(Append(batches[c], b)) = Len(batches[c]) + 1
    BY <1>5, <2>1, AppendFacts
  <2> QED BY <2>2, <2>3
<1> DEFINE old == commits[site[c].commit].frontier
<1>9. {base} \in SUBSET DOMAIN frontiers
  BY <1>1
<1>10. \A d \in Clients : tails[d] <= Len(batches'[d])
  <2>1. ASSUME NEW d \in Clients \ {c} PROVE tails[d] <= Len(batches'[d])
    BY <1>1, <1>6, <1>8 DEF SoloInv, FrontierGraph
  <2> QED BY <1>6, <1>8, <2>1
<1> HIDE DEF tails, base
<1>11. FrontierGraph'
  BY <1>4, <1>6, <1>9, <1>10, FrontierGraphKept DEF SoloInv
<1>12. /\ frontiers'[id].tails = tails
       /\ frontiers'[id].previous = {base}
  BY <1>1, <1>4, <1>6, <1>9, FrontierWritten
<1> HIDE DEF id
<1>13. /\ site'[c].head = id /\ site'[c].commit = site[c].commit
       /\ \A d \in Clients \ {c} : SameHead(d)
  BY <1>1, <1>4 DEF SameHead, SiteType
<1>14. OneAhead(c)'
  <2>1. base \in DOMAIN frontiers /\ frontiers'[base] = frontiers[base]
    BY <1>1, Stable DEF SoloInv
  <2>2. commits'[site'[c].commit].frontier = base
    BY <1>1, <1>2, <1>13
  <2>3. frontiers'[id].tails = [frontiers'[base].tails EXCEPT ![c] = @ + 1]
    BY <1>12, <2>1 DEF tails, Tails
  <2>4. batches'[c][Len(batches'[c])].base = base
    BY <1>5, <1>8
  <2> HIDE DEF c
  <2> QED BY <1>12, <1>13, <2>2, <2>3, <2>4 DEF OneAhead, Tails
<1>15. OwnTail(c)'
  BY <1>6, <1>8, <1>12, <1>13, <1>14 DEF OwnTail, Tails
<1>16. OthersStill(x) /\ BaseIsCurrent(x)'
  BY <1>4, ProcSteps DEF BaseIsCurrent
<1>17. \A e \in Clients : Tails(site[c].head)[e] <= frontiers'[site'[c].head].tails[e]
  BY <1>2, <1>7, <1>12, <1>13
<1>18. TailsMonotone' /\ CommitsVerify'
  BY <1>1, HistoryKept
<1> HIDE DEF c
<1> QED BY <1>1, <1>8, <1>11, <1>13, <1>15, <1>16, <1>17, <1>18, SoloStep DEF c

\* Both sides of a union keep what they had.
LEMMA UnionIsUpper ==
    ASSUME NEW t \in [Clients -> Nat], NEW u \in [Clients -> Nat], NEW c \in Clients
    PROVE  LET m == [d \in Clients |-> IF t[d] > u[d] THEN t[d] ELSE u[d]]
           IN  t[c] <= m[c] /\ u[c] <= m[c] /\ (m[c] = t[c] \/ m[c] = u[c])
OBVIOUS

\* A union has every batch of both sides and verifies.
LEMMA UnitesSolo ==
    ASSUME OneProcess, SyncInv, SoloInv, Kept, NEW x \in SyncProcs, NEW tails, NEW both,
           syncProc[x].pc = "fetch", Unites(x, tails, both), UNCHANGED <<batches, remote>>
    PROVE  SoloInv' /\ HeadsGrow
<1> DEFINE local == syncProc[x].local
           f == commits[local].frontier
           g == commits[remote].frontier
           n == Len(commits) + 1
           id == NameOf(tails, both)
<1>1. /\ local \in DOMAIN commits /\ remote # 0 /\ remote \in DOMAIN commits
      /\ SyncTypes /\ CommitGraph /\ ClientOf[x] \in Clients
      /\ syncProc \in [SyncProcs -> ProcType]
  BY Fields DEF SyncInv, ProcsInv, ProcOK, SyncTypes, SitesInv, Unites
<1>2. /\ tails = UnionTails(f, g) /\ both = {f, g}
      /\ frontiers' = FrontiersWith(tails, both)
      /\ commits' = CommitsWith(id, {local, remote})
      /\ VerifiesAs(tails, Behind(both)) /\ site' = site
  BY DEF Unites
<1> HIDE DEF local
<1>3. /\ tails \in [Clients -> Nat]
      /\ both \in SUBSET DOMAIN frontiers
      /\ Extends(commits, commits')
      /\ DOMAIN commits' = DOMAIN commits \cup {n}
      /\ n \notin DOMAIN commits
      /\ commits'[n].frontier = id
      /\ commits'[n].ancestors = {n} \cup commits[local].ancestors \cup commits[remote].ancestors
  <2>1. /\ tails = UnionTails(commits[local].frontier, commits[remote].frontier)
        /\ both = {commits[local].frontier, commits[remote].frontier}
        /\ commits' = CommitsWith(NameOf(tails, both), {local, remote})
    BY <1>2
  <2>2. Extends(commits, commits')
    BY DEF Kept, Grows
  <2> HIDE DEF f, g
  <2> QED BY <1>1, <1>2, <2>1, <2>2, UnionWritten
<1>4. f \in DOMAIN frontiers /\ g \in DOMAIN frontiers
      /\ Tails(f) \in [Clients -> Nat] /\ Tails(g) \in [Clients -> Nat]
  BY <1>1, Rows DEF CommitGraph
<1>5. \A c \in Clients : Tails(f)[c] <= tails[c] /\ Tails(g)[c] <= tails[c]
                         /\ (tails[c] = Tails(f)[c] \/ tails[c] = Tails(g)[c])
  BY <1>2, <1>4, UnionIsUpper DEF UnionTails
<1>6. \A c \in Clients : tails[c] <= Len(batches'[c])
  BY <1>4, <1>5 DEF SoloInv, FrontierGraph
<1>7. FrontierGraph'
  BY <1>2, <1>3, <1>6, FrontierGraphKept DEF SoloInv
<1>8. /\ frontiers'[id].tails = tails /\ frontiers'[id].previous = both
      /\ id \in DOMAIN frontiers'
  BY <1>1, <1>2, <1>3, FrontierWritten
<1> HIDE DEF id, n, f, g
<1>9. \A q \in DOMAIN frontiers : q \in DOMAIN frontiers' /\ frontiers'[q] = frontiers[q]
                                  /\ (RemoteVerified(q) => RemoteVerified(q)')
  BY Stable DEF SoloInv
<1>10. ASSUME NEW d \in DOMAIN commits
       PROVE  /\ commits'[d] = commits[d] /\ commits[d].frontier \in DOMAIN frontiers
              /\ Tails(commits[d].frontier) \in [Clients -> Nat]
              /\ frontiers'[commits'[d].frontier] = frontiers[commits[d].frontier]
              /\ commits[d].ancestors \subseteq DOMAIN commits
  BY <1>1, <1>3, <1>9, Rows DEF CommitGraph, Extends
<1>11. TailsMonotone'
  <2> SUFFICES ASSUME NEW d \in DOMAIN commits', NEW e \in commits'[d].ancestors,
                      NEW k \in Clients
               PROVE  frontiers'[commits'[e].frontier].tails[k]
                         <= frontiers'[commits'[d].frontier].tails[k]
    BY DEF TailsMonotone, Tails
  <2>1. CASE d \in DOMAIN commits
    <3>1. e \in DOMAIN commits /\ e \in commits[d].ancestors
      BY <1>10, <2>1
    <3> QED BY <1>10, <2>1, <3>1 DEF SoloInv, TailsMonotone, Tails
  <2>2. CASE d = n /\ e = n
    <3>1. frontiers'[commits'[d].frontier].tails[k] \in Nat
      BY <1>3, <1>8, <2>2
    <3> QED BY <2>2, <3>1
  <2>3. ASSUME NEW p \in {local, remote}, d = n, e \in commits[p].ancestors
        PROVE  frontiers'[commits'[e].frontier].tails[k]
                  <= frontiers'[commits'[d].frontier].tails[k]
    <3>1. p \in DOMAIN commits /\ e \in DOMAIN commits
      BY <1>1, <1>10, <2>3
    <3>2. Tails(commits[e].frontier)[k] <= Tails(commits[p].frontier)[k]
      BY <2>3, <3>1 DEF SoloInv, TailsMonotone
    <3>3. Tails(commits[p].frontier)[k] <= tails[k]
      BY <1>5, <2>3 DEF f, g
    <3>4. /\ Tails(commits[e].frontier)[k] \in Nat
          /\ Tails(commits[p].frontier)[k] \in Nat /\ tails[k] \in Nat
      BY <1>3, <1>10, <3>1
    <3>5. frontiers'[commits'[d].frontier].tails = tails
      BY <1>3, <1>8, <2>3
    <3>6. frontiers'[commits'[e].frontier].tails = Tails(commits[e].frontier)
      BY <1>10, <3>1 DEF Tails
    <3> QED BY <3>2, <3>3, <3>4, <3>5, <3>6
  <2> QED BY <1>3, <2>1, <2>2, <2>3
<1>12. CommitsVerify'
  <2> DEFINE Good(q) == \A c \in Clients : \A m \in 1 .. frontiers'[q].tails[c] :
                           batches'[c][m].base \in frontiers'[q].ancestors /\ batches'[c][m].ok
  <2>1. ASSUME NEW q \in DOMAIN frontiers, RemoteVerified(q) PROVE Good(q)
    <3>1. RemoteVerified(q)'
      BY <1>9, <2>1
    <3> QED BY <3>1 DEF RemoteVerified, VerifiesAs, Tails
  <2>2. Good(id)
    <3>1. frontiers'[id].ancestors = {id} \cup UNION {frontiers'[p].ancestors : p \in both}
      BY <1>7, <1>8 DEF FrontierGraph, Behind
    <3>2. UNION {frontiers'[p].ancestors : p \in both} = Behind(both)
      BY <1>3, <1>9 DEF Behind
    <3>3. \A c \in Clients : \A m \in 1 .. tails[c] :
             batches[c][m].base \in frontiers'[id].ancestors /\ batches[c][m].ok
      BY <1>2, <3>1, <3>2 DEF VerifiesAs
    <3> QED BY <1>8, <3>3
  <2> HIDE DEF Good
  <2>3. ASSUME NEW d \in DOMAIN commits' PROVE Good(commits'[d].frontier)
    <3>1. CASE d = n
      BY <1>3, <2>2, <3>1
    <3>2. CASE d \in DOMAIN commits
      <4>1. RemoteVerified(commits[d].frontier) /\ commits[d].frontier \in DOMAIN frontiers
            /\ commits'[d] = commits[d]
        BY <1>10, <3>2 DEF SoloInv, CommitsVerify
      <4> QED BY <2>1, <4>1
    <3> QED BY <1>3, <3>1, <3>2
  <2> QED BY <2>3 DEF Good, CommitsVerify, RemoteVerified, VerifiesAs, Tails
<1>13. /\ OthersStill(x) /\ syncProc'[x].pc = "push"
  BY <1>1 DEF Unites, OthersStill, ProcType
<1>14. \A d \in Clients : SameHead(d) /\ batches'[d] = batches[d]
  BY <1>2 DEF SameHead
<1> DEFINE c == ClientOf[x]
<1>15. /\ site[c].head \in DOMAIN frontiers /\ site[c].commit \in DOMAIN commits
       /\ Tails(site[c].head) \in [Clients -> Nat]
  BY <1>1, Rows DEF SyncInv, SitesInv, SiteOK
<1>16. OwnTail(c)'
  <2>1. OwnTail(c)
    BY <1>1 DEF SoloInv
  <2>2. /\ frontiers'[site'[c].head] = frontiers[site[c].head] /\ site' = site
        /\ commits'[site'[c].commit] = commits[site[c].commit]
        /\ frontiers'[commits[site[c].commit].frontier] = frontiers[commits[site[c].commit].frontier]
    BY <1>2, <1>9, <1>10, <1>15
  <2> QED BY <1>14, <2>1, <2>2 DEF OwnTail, OneAhead, Pending, Tails
<1>17. \A e \in Clients : Tails(site[c].head)[e] <= frontiers'[site'[c].head].tails[e]
  <2> HIDE DEF c
  <2>1. frontiers'[site'[c].head].tails = Tails(site[c].head)
    BY <1>2, <1>9, <1>15 DEF Tails
  <2> QED BY <1>15, <2>1
<1>18. BaseIsCurrent(x)'
  BY <1>13 DEF BaseIsCurrent
<1> QED BY <1>1, <1>7, <1>11, <1>12, <1>13, <1>14, <1>16, <1>17, <1>18, SoloStep

\* Only a union changes the tables when a sync fetches.
LEMMA FetchSolo ==
    ASSUME OneProcess, SyncInv, SoloInv, Kept, NEW x \in SyncProcs, SyncFetch(x)
    PROVE  SoloInv' /\ HeadsGrow
<1>1. /\ syncProc[x].pc = "fetch"
      /\ UNCHANGED <<batches, remote>>
      /\ \/ Refetched(x) \/ UpToDate(x) \/ FallenBehind(x) \/ Refused(x) \/ Ahead(x)
         \/ \E tails, both : Unites(x, tails, both)
  BY FetchCases
<1>2. syncProc \in [SyncProcs -> ProcType] /\ site \in [Clients -> SiteType]
  BY DEF SyncInv, SyncTypes
<1>3. CASE Refetched(x)
  BY <1>1, <1>3, ProcSteps, SoloStill DEF Refetched, HistoryUntouched, SameHead, BaseIsCurrent
<1>4. CASE UpToDate(x)
  BY <1>1, <1>2, <1>4, SucceedSteps, SoloStill DEF UpToDate, HistoryUntouched, SameHead, BaseIsCurrent
<1>5. CASE Refused(x)
  BY <1>1, <1>5, ProcSteps, SoloStill DEF Refused, HistoryUntouched, SameHead, BaseIsCurrent
<1>6. CASE FallenBehind(x) \/ Ahead(x)
  <2>1. OthersStill(x) /\ syncProc'[x].pc # "head"
    BY <1>2, <1>6 DEF FallenBehind, Ahead, OthersStill, ProcType
  <2> QED BY <1>1, <1>6, <2>1, SoloStill
        DEF FallenBehind, Ahead, HistoryUntouched, SameHead, BaseIsCurrent
<1> QED BY <1>1, <1>3, <1>4, <1>5, <1>6, UnitesSolo

\* A fast-forward leads to a descendant, which has every batch of the
\* worktree's own client.
LEMMA ForwardSolo ==
    ASSUME OneProcess, SyncInv, SoloInv, Kept, NEW x \in SyncProcs, SyncForward(x)
    PROVE  SoloInv' /\ HeadsGrow
<1> DEFINE c == ClientOf[x]
           t == syncProc[x].target
           p == site[c].commit
           forward == Descends(t, p) /\ ~Pending(c)
           after == IF forward
                    THEN [site EXCEPT ![c].commit = t, ![c].head = commits[t].frontier]
                    ELSE site
<1>1. /\ HistoryUntouched /\ syncProc[x].pc = "forward" /\ c \in Clients
      /\ SyncTypes /\ CommitGraph /\ site \in [Clients -> SiteType] /\ SiteOK(c)
  BY Fields DEF SyncForward, At, SyncInv, SyncTypes, SitesInv
<1>2. t \in DOMAIN commits /\ t \in Nat
  BY <1>1, Rows DEF SyncInv, ProcsInv, ProcOK
<1>3. commits[t].frontier \in DOMAIN frontiers /\ commits[t].frontier \in Nat
  BY <1>1, <1>2, Rows DEF CommitGraph
<1>4. /\ after \in [Clients -> SiteType]
      /\ \A d \in Clients \ {c} : after[d] = site[d]
      /\ after[c].head = (IF forward THEN commits[t].frontier ELSE site[c].head)
      /\ after[c].commit = (IF forward THEN t ELSE p)
  <2>1. CASE ~forward
    BY <1>1, <2>1
  <2>2. CASE forward
    <3> DEFINE s == [site[c] EXCEPT !.commit = t, !.head = commits[t].frontier]
    <3>1. after = [site EXCEPT ![c] = s]
      BY <1>1, <2>2
    <3>2. s \in SiteType /\ s.head = commits[t].frontier /\ s.commit = t
      BY <1>1, <1>2, <1>3 DEF SiteType
    <3> HIDE DEF s, after
    <3> QED BY <1>1, <2>2, <3>1, <3>2
  <2> QED BY <2>1, <2>2
<1>5. Succeed(x, t, after) \/ (site' = after /\ ExitSync(x))
  BY DEF SyncForward
<1> HIDE DEF after, forward
<1>6. /\ OthersStill(x) /\ syncProc'[x].pc # "head"
      /\ \A d \in Clients : site'[d].head = after[d].head /\ site'[d].commit = after[d].commit
  <2>1. CASE Succeed(x, t, after)
    BY <1>4, <2>1, SucceedSteps
  <2>2. CASE site' = after /\ ExitSync(x)
    BY <2>2, ProcSteps
  <2> QED BY <1>5, <2>1, <2>2
<1>7. \A d \in Clients \ {c} : SameHead(d)
  BY <1>4, <1>6 DEF SameHead
<1>8. BaseIsCurrent(x)'
  BY <1>6 DEF BaseIsCurrent
<1>9. CASE ~forward
  <2>1. SameHead(c)
    BY <1>1, <1>4, <1>6, <1>9 DEF SameHead
  <2> QED BY <1>1, <1>6, <1>7, <1>8, <2>1, SoloStill
<1>10. CASE forward
  <2> DEFINE h == commits[t].frontier
  <2>1. site'[c].head = h /\ site'[c].commit = t
    BY <1>1, <1>4, <1>6, <1>10
  <2>2. /\ site[c].head = commits[p].frontier /\ p \in commits[t].ancestors
        /\ p \in DOMAIN commits
    BY <1>1, <1>10 DEF forward, Pending, Descends, SiteOK
  <2>3. \A e \in Clients : Tails(site[c].head)[e] <= Tails(h)[e]
    BY <1>2, <2>2 DEF SoloInv, TailsMonotone
  <2>4. Tails(h) \in [Clients -> Nat] /\ Tails(h)[c] <= Len(batches[c])
    BY <1>1, <1>3, Rows DEF SoloInv, FrontierGraph
  <2>5. Tails(site[c].head)[c] = Len(batches[c])
    BY <1>1 DEF SoloInv, OwnTail
  <2>6. Tails(h)[c] = Len(batches[c])
    <3>1. Len(batches[c]) \in Nat
      BY <1>1 DEF SyncTypes
    <3>2. Len(batches[c]) <= Tails(h)[c] /\ Tails(h)[c] \in Nat
      BY <1>1, <2>3, <2>4, <2>5
    <3> QED BY <2>4, <3>1, <3>2
  <2>7. OwnTail(c)'
    BY <1>1, <2>1, <2>6 DEF OwnTail, Pending, Tails, HistoryUntouched
  <2>8. FrontierGraph'
    BY <1>1 DEF SoloInv, FrontierGraph, Behind, Tails, HistoryUntouched
  <2>9. TailsMonotone' /\ CommitsVerify'
    BY <1>1, HistoryKept DEF HistoryUntouched
  <2>10. \A e \in Clients : Tails(site[c].head)[e] <= frontiers'[site'[c].head].tails[e]
    BY <1>1, <2>1, <2>3 DEF Tails, HistoryUntouched
  <2>11. \A d \in Clients : batches'[d] = batches[d]
    BY <1>1 DEF HistoryUntouched
  <2> QED BY <1>1, <1>6, <1>7, <1>8, <2>7, <2>8, <2>9, <2>10, <2>11, SoloStep
<1> QED BY <1>9, <1>10

\* Every step keeps the invariant, and every worktree its batches.
LEMMA NextSolo ==
    ASSUME OneProcess, SyncInv, SoloInv, [SyncNext]_syncVars
    PROVE  SoloInv' /\ HeadsGrow
<1>1. Kept
  BY NextSync
<1>2. CASE UNCHANGED syncVars \/ SyncTick
  <2>1. HistoryUntouched /\ UNCHANGED <<site, syncProc>>
    BY <1>2 DEF syncVars, SyncTick, HistoryUntouched
  <2>2. SoloInv'
    <3>1. FrontierGraph' /\ TailsMonotone'
      BY <2>1 DEF SoloInv, FrontierGraph, TailsMonotone, Behind, Tails, HistoryUntouched
    <3>2. CommitsVerify'
      BY <2>1 DEF SoloInv, CommitsVerify, RemoteVerified, VerifiesAs, Tails, HistoryUntouched
    <3>3. /\ \A c \in Clients : OwnTail(c)'
          /\ \A x \in SyncProcs : BaseIsCurrent(x)'
      BY <2>1 DEF SoloInv, OwnTail, OneAhead, BaseIsCurrent, Pending, Tails, HistoryUntouched
    <3> QED BY <3>1, <3>2, <3>3 DEF SoloInv
  <2>3. \A s \in Clients : Tails(site[s].head) \in [Clients -> Nat]
    BY Rows DEF SyncInv, SitesInv, SiteOK
  <2>4. HeadsGrow
    BY <2>1, <2>3 DEF HeadsGrow, Tails, HistoryUntouched
  <2> QED BY <2>2, <2>4
<1>3. ASSUME NEW x \in SyncProcs, NEW op \in Ops, StartSync(x, op)
      PROVE SoloInv' /\ HeadsGrow
  BY <1>1, <1>3, StillActions
<1>4. ASSUME NEW x \in SyncProcs, CrashSync(x) PROVE SoloInv' /\ HeadsGrow
  BY <1>1, <1>4, StillActions
<1>5. ASSUME NEW x \in SyncProcs, SyncStep(x) PROVE SoloInv' /\ HeadsGrow
  BY <1>1, <1>5, StillActions, RecoverSolo, AdvanceSolo, CommitTreeSolo, FetchSolo, ForwardSolo
  DEF SyncStep
<1> QED BY <1>2, <1>3, <1>4, <1>5 DEF SyncNext

\* The invariant of the second part holds when every installation runs one
\* process at a time.
THEOREM SoloInvariant == ASSUME OneProcess PROVE SyncSpec => []SoloInv
<1>1. SyncInit => SoloInv
  BY InitSolo
<1>2. SyncInv /\ SoloInv /\ [SyncNext]_syncVars => SoloInv'
  BY NextSolo
<1> QED BY <1>1, <1>2, SyncInvariant, PTL DEF SyncSpec

\* "job resume and the next local append reconcile that pending publication":
\* with one process per installation, an append that was interrupted after
\* HEAD advanced, and whose batch matches its lease, is what
\* recover_pending_publication_locked commits.
THEOREM AppendsReconcile ==
    ASSUME OneProcess PROVE SyncSpec => []InterruptedAppendsReconcile
<1>1. SyncInv /\ SoloInv => InterruptedAppendsReconcile
  <2> SUFFICES ASSUME SyncInv, SoloInv, NEW c \in Clients, Pending(c),
                      batches[c][Len(batches[c])].ok
               PROVE  OneAhead(c) /\ RemoteVerified(site[c].head)
    BY DEF InterruptedAppendsReconcile, OneAhead
  <2>1. OneAhead(c)
    BY DEF SoloInv, OwnTail
  <2> QED BY <2>1, StepVerifies
<1> QED BY <1>1, SyncInvariant, SoloInvariant, PTL

\* "A valid successor never omits or reduces an origin entry": with one
\* process per installation neither the remote's frontier nor a worktree's
\* ever loses a batch.  MCSyncOverlap refutes it for two processes.
THEOREM NothingShrinks == ASSUME OneProcess PROVE SyncSpec => FrontiersNeverShrink
<1> DEFINE Shrink == /\ remote # 0 => \A c \in Clients :
                           FrontierOf(remote)'.tails[c] >= FrontierOf(remote).tails[c]
                     /\ \A s, c \in Clients :
                           Tails(site[s].head)'[c] >= Tails(site[s].head)[c]
<1>1. SyncInv /\ SoloInv /\ [SyncNext]_syncVars => [Shrink]_syncVars
  <2> SUFFICES ASSUME SyncInv, SoloInv, [SyncNext]_syncVars PROVE Shrink
    OBVIOUS
  <2>1. SoloInv' /\ HeadsGrow /\ Kept
    BY NextSolo, NextSync
  <2>2. ASSUME NEW s \in Clients, NEW c \in Clients
        PROVE  frontiers'[site'[s].head].tails[c] >= frontiers[site[s].head].tails[c]
    <3>1. Tails(site[s].head) \in [Clients -> Nat]
      BY Rows DEF SyncInv, SitesInv, SiteOK
    <3>2. site'[s].head \in DOMAIN frontiers' /\ SyncTypes'
      BY <2>1 DEF Kept, SyncInv, SitesInv, SiteOK
    <3>3. frontiers'[site'[s].head].tails[c] \in Nat
      <4> DEFINE R == [tails: [Clients -> Nat], previous: SUBSET Nat, ancestors: SUBSET Nat]
      <4>1. frontiers' \in Seq(R)
        BY <3>2 DEF SyncTypes
      <4> HIDE DEF R
      <4>2. frontiers'[site'[s].head] \in R
        BY <3>2, <4>1
      <4> QED BY <4>2 DEF R
    <3> QED BY <2>1, <3>1, <3>3 DEF HeadsGrow, Tails
  <2>3. ASSUME remote # 0, NEW c \in Clients
        PROVE  frontiers'[commits'[remote'].frontier].tails[c]
                  >= frontiers[commits[remote].frontier].tails[c]
    <3> DEFINE old == commits[remote].frontier
               new == commits'[remote'].frontier
    <3>1. remote \in DOMAIN commits /\ old \in DOMAIN frontiers
          /\ Tails(old) \in [Clients -> Nat]
      BY <2>3, Rows DEF SyncInv, SitesInv, CommitGraph
    <3>2. frontiers'[old] = frontiers[old] /\ commits'[remote] = commits[remote]
      BY <2>1, <3>1, Stable DEF SoloInv
    <3>3. remote' \in DOMAIN commits' /\ remote \in commits'[remote'].ancestors
      BY <2>1, <2>3 DEF Kept, RemoteAdvances
    <3>4. frontiers'[commits'[remote].frontier].tails[c] <= frontiers'[new].tails[c]
      BY <2>1, <3>3 DEF SoloInv, TailsMonotone, Tails
    <3>5. new \in DOMAIN frontiers' /\ SyncTypes'
      BY <2>1, <3>3 DEF Kept, SyncInv, CommitGraph
    <3>6. frontiers'[new].tails[c] \in Nat
      <4> DEFINE R == [tails: [Clients -> Nat], previous: SUBSET Nat, ancestors: SUBSET Nat]
      <4>1. frontiers' \in Seq(R)
        BY <3>5 DEF SyncTypes
      <4> HIDE DEF R, new
      <4>2. frontiers'[new] \in R
        BY <3>5, <4>1
      <4> QED BY <4>2 DEF R
    <3> QED BY <3>1, <3>2, <3>4, <3>6 DEF Tails
  <2> QED BY <2>2, <2>3 DEF FrontierOf, Tails
<1>2. SyncSpec => [][Shrink]_syncVars
  BY <1>1, SyncInvariant, SoloInvariant, PTL DEF SyncSpec
<1> QED BY <1>2 DEF FrontiersNeverShrink

\* The tables are well formed, no reference between them dangles, and a
\* process is inside an append exactly when it holds append.lock.
THEOREM SyncTypeCorrect == SyncSpec => []SyncTypeOK
<1>1. SyncInv => SyncTypeOK
  <2> SUFFICES ASSUME SyncInv PROVE SyncTypeOK
    OBVIOUS
  <2>1. commits \in Seq([frontier: DOMAIN frontiers, ancestors: SUBSET DOMAIN commits])
    <3> DEFINE C == [frontier: Nat, ancestors: SUBSET Nat]
               D == [frontier: DOMAIN frontiers, ancestors: SUBSET DOMAIN commits]
    <3>1. commits \in Seq(C)
      BY DEF SyncInv, SyncTypes
    <3>2. ASSUME NEW d \in 1 .. Len(commits) PROVE commits[d] \in D
      <4> HIDE DEF C
      <4>1. commits[d] \in C /\ d \in DOMAIN commits
        BY <3>1
      <4>2. /\ commits[d].frontier \in DOMAIN frontiers
            /\ commits[d].ancestors \in SUBSET DOMAIN commits
        BY <4>1 DEF SyncInv, CommitGraph
      <4> QED BY <4>1, <4>2 DEF C
    <3> HIDE DEF C, D
    <3>3. commits \in Seq(D)
      BY <3>1, <3>2
    <3> QED BY <3>3 DEF D
  <2>2. batches \in [Clients -> Seq([base: DOMAIN frontiers, lease: Nat, ok: BOOLEAN])]
    <3> DEFINE B == [base: Nat, lease: Nat, ok: BOOLEAN]
               D == [base: DOMAIN frontiers, lease: Nat, ok: BOOLEAN]
    <3>1. batches \in [Clients -> Seq(B)]
      BY DEF SyncInv, SyncTypes
    <3>2. ASSUME NEW c \in Clients PROVE batches[c] \in Seq(D)
      <4>1. batches[c] \in Seq(B)
        BY <3>1
      <4>2. ASSUME NEW n \in 1 .. Len(batches[c]) PROVE batches[c][n] \in D
        <5> HIDE DEF B
        <5>1. batches[c][n] \in B /\ n \in DOMAIN batches[c]
          BY <4>1
        <5>2. batches[c][n].base \in DOMAIN frontiers
          BY <5>1 DEF SyncInv, SitesInv, SiteOK
        <5> QED BY <5>1, <5>2 DEF B
      <4> HIDE DEF B, D
      <4> QED BY <4>1, <4>2
    <3> HIDE DEF B, D
    <3>3. batches \in [Clients -> Seq(D)]
      BY <3>1, <3>2
    <3> QED BY <3>3 DEF D
  <2>3. site \in [Clients -> [head: DOMAIN frontiers, commit: DOMAIN commits,
                              synced: {0} \cup DOMAIN commits,
                              lock: SyncProcs \cup {Nobody}, files: BOOLEAN]]
    <3>1. site \in [Clients -> SiteType] /\ \A c \in Clients : SiteOK(c)
      BY DEF SyncInv, SyncTypes, SitesInv
    <3> QED BY <3>1 DEF SiteType, SiteOK
  <2>4. \A x \in SyncProcs : /\ syncProc[x].pc \in Pcs
                             /\ syncProc[x].pc \in {"head", "commit"} <=> site[ClientOf[x]].lock = x
    BY Fields DEF ProcType, SyncInv, SitesInv, LockOK
  <2> QED BY <2>1, <2>2, <2>3, <2>4 DEF SyncTypeOK, SyncInv, SyncTypes, SitesInv
<1> QED BY <1>1, SyncInvariant, PTL

=============================================================================
