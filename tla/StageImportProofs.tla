-------------------------- MODULE StageImportProofs --------------------------
(***************************************************************************)
(* Proofs about StageImport: what an audit that permits to remove the      *)
(* source has seen, and what an import publishes and records, for every    *)
(* number of paths, jobs, processes, audits, kills and edits.              *)
(*                                                                         *)
(* AuditInv is about the audit, its manifest and the source; ImportInv is  *)
(* about the jobs and the processes that run them, and needs of the audit  *)
(* only that it writes rows of a generation no job has selected.           *)
(***************************************************************************)
EXTENDS StageImport, TLAPS, FiniteSetTheorems, WellFoundedInduction

\* The rows of a manifest, the manifest, the audit and an import process.
StageRow == [gen : Nat, stat : Nat, hash : StageContents \cup {None},
             state : {"none", "stable", "unstable", "read_error"}]
StageRows == [StagePaths -> StageRow]
Manifest == [gen : Nat, status : {"none", "running", "complete", "partial"},
             rows : StageRows, sel : [Jobs -> Selection \cup {None}]]
AuditState == [pc : {"idle", "begin", "walk", "hash", "prune", "classify"}, gen : Nat,
               next : 1..NPaths + 1, stat : Nat, rows : StageRows,
               clean : BOOLEAN, ready : BOOLEAN]
Candidate == [path : StagePaths, hash : StageContents \cup {None}]
RunnerPcs == {"idle", "select", "start", "open", "page", "copy", "validate", "publish",
              "records", "record", "finish"}
RunnerState == [pc : RunnerPcs, job : Jobs \cup {None}, resuming : BOOLEAN, gen : Nat,
                eligible : Nat, published : BOOLEAN, keep : BOOLEAN, cursor : 0..NPaths,
                page : SUBSET Candidate, limit : Nat]

DiskTypeOK ==
    /\ src \in [StagePaths -> SourceFile \cup {None}]
    /\ temp \in [Jobs -> Trees \cup {None}]
    /\ pub \in Trees \cup {None}

CatalogTypeOK ==
    /\ cat \subseteq StageContents \cup {None}
    /\ expect \in [StagePaths -> StageContents \cup {None}]
    /\ job \in [Jobs -> {"none", "running", "complete"}]
    /\ recs \subseteq Jobs \X StagePaths \X (StageContents \cup {None})

HistTypeOK ==
    /\ touched \subseteq StagePaths
    /\ reviewed \in [Jobs -> Trees] /\ held \in [Jobs -> Trees]
    /\ audits \in Nat /\ starts \in Nat /\ kills \in Nat /\ edits \in Nat

StageTypeOK ==
    /\ backend \in Backends
    /\ DiskTypeOK /\ CatalogTypeOK /\ HistTypeOK
    /\ man \in Manifest /\ aud \in AuditState /\ proc \in [Runners -> RunnerState]

\* A stable row tells the bytes of the file that still has its stat: no two
\* contents of a path have one stat.
RowIsTrue(row, p) ==
    /\ row.stat <= edits
    /\ row.state = "stable" /\ src[p] # None /\ src[p].stat = row.stat => row.hash = src[p].bytes

\* The row the audit in progress has for a path.
SeenRow(p) == IF aud.rows[p].state # "none" THEN aud.rows[p] ELSE man.rows[p]

\* The audit has a stable row for every file it has passed that nobody changed,
\* as long as it is clean.
Seen(p) == /\ SeenRow(p).state = "stable" /\ SeenRow(p).gen = aud.gen
           /\ SeenRow(p).stat = src[p].stat

AuditInv ==
    /\ man.gen = audits
    /\ aud.stat <= edits
    /\ \A p \in StagePaths : /\ man.rows[p].gen <= man.gen
                             /\ src[p] # None => src[p].stat <= edits
                             /\ RowIsTrue(man.rows[p], p) /\ RowIsTrue(aud.rows[p], p)
                             /\ aud.rows[p].state # "none" => aud.rows[p].gen = aud.gen
    /\ aud.pc # "idle" => aud.gen = man.gen /\ man.status = "running" /\ ~aud.ready
    /\ aud.pc = "hash" => aud.next \in StagePaths
    /\ aud.pc \notin {"walk", "hash"} => aud.rows = IdleAudit.rows
    /\ aud.pc \in {"prune", "classify"} => aud.next = NPaths + 1
    /\ aud.pc # "idle" /\ aud.clean =>
         \A p \in StagePaths \ touched : p < aud.next /\ src[p] # None => Seen(p)

\* The files a job may still copy and record: selected, with the row it selected.
Current(j) == {p \in man.sel[j].paths : man.rows[p].gen = man.sel[j].gen /\ man.rows[p].state = "stable"}

JobGood(j) ==
    /\ man.sel[j] = None => job[j] = "none"
    /\ man.sel[j] # None =>
         /\ man.sel[j].gen <= man.gen
         /\ aud.pc # "idle" => man.sel[j].gen < man.gen
         /\ \A p \in Current(j) : man.rows[p].hash = reviewed[j][p]
         /\ man.sel[j].gen = man.gen => Current(j) = man.sel[j].paths
    /\ temp[j] # None => /\ job[j] = "running"
                         /\ \A p \in StagePaths : temp[j][p] \in {None, reviewed[j][p]}
    /\ \A r \in recs : r[1] = j => /\ man.sel[j] # None
                                   /\ held[j][r[2]] = r[3] /\ reviewed[j][r[2]] = r[3]
    /\ job[j] = "complete" /\ man.sel[j].gen = man.gen =>
         \A p \in man.sel[j].paths : <<j, p, reviewed[j][p]>> \in recs

OneRunnerPerJob ==
    \A x, y \in Runners : proc[x].job = proc[y].job /\ proc[x].job # None => x = y

Recording == {"records", "record", "finish"}
Copying == {"page", "copy", "validate", "publish"}
PagePaths(x) == {c.path : c \in proc[x].page}

\* Where a process is, and what its job has then.
PlaceGood(x) ==
    /\ proc[x].pc = "idle" => proc[x] = IdleProc
    /\ proc[x].pc # "idle" =>
         /\ proc[x].job \in Jobs
         /\ proc[x].gen <= man.gen
         /\ aud.pc # "idle" => proc[x].gen < man.gen
    /\ proc[x].pc \in {"select", "start", "open", "publish"} => proc[x].cursor = 0
    /\ proc[x].pc \in {"select", "start"} => job[proc[x].job] # "complete"
    /\ proc[x].pc = "validate" => proc[x].cursor = NPaths
    /\ proc[x].pc \notin {"idle", "select"} =>
         man.sel[proc[x].job] # None /\ man.sel[proc[x].job].gen = proc[x].gen
    /\ proc[x].pc \in Copying \cup Recording \cup {"open"} => job[proc[x].job] = "running"
    /\ proc[x].pc \in Copying => (proc[x].published <=> temp[proc[x].job] = None)
    /\ proc[x].pc \in Recording => temp[proc[x].job] = None

\* What a process has read is what its job selected, in its tree, so that what
\* it records from the manifest was verified.
CopyGood(x) ==
    /\ proc[x].pc \in {"copy", "record"} =>
         \A c \in proc[x].page : /\ c.path \in man.sel[proc[x].job].paths
                                 /\ c.hash = reviewed[proc[x].job][c.path]
    /\ proc[x].pc \in {"page", "copy", "validate"} =>
         \A p \in Current(proc[x].job) : p <= proc[x].cursor =>
             \/ held[proc[x].job][p] = reviewed[proc[x].job][p]
             \/ proc[x].pc = "copy" /\ p \in PagePaths(x)
    /\ proc[x].pc \in {"publish", "records"} =>
         \A p \in Current(proc[x].job) : held[proc[x].job][p] = reviewed[proc[x].job][p]
    /\ proc[x].pc = "record" =>
         \A p \in Current(proc[x].job) \cup PagePaths(x) :
            held[proc[x].job][p] = reviewed[proc[x].job][p]

\* No selected file is passed over, unless the source is audited again.
RecordGood(x) ==
    proc[x].pc \in Recording /\ proc[x].gen = man.gen =>
      \A p \in man.sel[proc[x].job].paths :
         \/ <<proc[x].job, p, reviewed[proc[x].job][p]>> \in recs
         \/ proc[x].pc # "finish" /\ p > proc[x].cursor
         \/ proc[x].pc = "record" /\ p \in PagePaths(x)

ImportInv ==
    /\ OneRunnerPerJob
    /\ \A j \in Jobs : JobGood(j)
    /\ \A x \in Runners : PlaceGood(x) /\ CopyGood(x) /\ RecordGood(x)

StageInv == StageTypeOK /\ AuditInv /\ ImportInv

-----------------------------------------------------------------------------
(* Types.                                                                  *)

LEMMA StageConstants ==
    /\ NPaths \in Nat /\ NPaths > 0 /\ Page \in Nat /\ Page > 0 /\ MaxItems \subseteq Nat
    /\ None \notin Jobs /\ None \notin StageContents /\ None \notin SourceFile
    /\ None \notin Trees /\ None \notin Selection
    /\ NoTree \in Trees /\ NoRow \in StageRow /\ IdleAudit.rows \in StageRows
    /\ IdleAudit \in AuditState /\ IdleProc \in RunnerState
<1>1. /\ NPaths \in Nat /\ NPaths > 0 /\ Page \in Nat /\ Page > 0 /\ MaxItems \subseteq Nat
  BY LimitsPositive
<1>2. NoTree \in Trees /\ NoRow \in StageRow
  BY DEF NoTree, Trees, NoRow, StageRow
<1>3. IdleAudit.rows \in StageRows
  BY <1>2 DEF IdleAudit, StageRows
<1>4. IdleAudit \in AuditState
  BY <1>1, <1>3 DEF IdleAudit, AuditState
<1>5. IdleProc \in RunnerState
  BY <1>1 DEF IdleProc, RunnerState, RunnerPcs
<1> QED BY <1>1, <1>2, <1>3, <1>4, <1>5, NoneIsApart

LEMMA StageTypesInit == StageInit => StageTypeOK
<1> SUFFICES ASSUME StageInit PROVE StageTypeOK
  OBVIOUS
<1>1. DiskTypeOK
  BY DEF StageInit, DiskTypeOK, SourceFile
<1>2. CatalogTypeOK
  BY DEF StageInit, CatalogTypeOK
<1>3. HistTypeOK
  BY StageConstants DEF StageInit, HistTypeOK
<1>4. man \in Manifest
  BY StageConstants DEF StageInit, Manifest, StageRows
<1> QED BY <1>1, <1>2, <1>3, <1>4, StageConstants DEF StageInit, StageTypeOK

LEMMA AuditTypes == StageTypeOK /\ AuditInv /\ AuditNext => StageTypeOK'
<1> SUFFICES ASSUME StageTypeOK, AuditInv, AuditNext PROVE StageTypeOK'
  OBVIOUS
<1>1. DiskTypeOK' /\ CatalogTypeOK' /\ HistTypeOK' /\ (backend \in Backends)'
      /\ (proc \in [Runners -> RunnerState])'
  <2>1. UNCHANGED <<backend, src, temp, pub, cat, expect, job, recs, proc, reviewed, held>>
    BY DEF AuditNext, AuditBegin, AuditBatch, AuditFingerprint, AuditVanished, AuditHash,
           AuditCommit, AuditPrune, AuditReport, AuditKilled, stageDisk, catalog, hist
  <2>2. HistTypeOK'
    <3>1. touched' = touched \/ touched' = {}
      BY DEF AuditNext, AuditBegin, AuditBatch, AuditFingerprint, AuditVanished, AuditHash,
             AuditCommit, AuditPrune, AuditReport, AuditKilled, hist
    <3>2. audits' \in Nat /\ starts' \in Nat /\ kills' \in Nat /\ edits' \in Nat
      BY DEF AuditNext, AuditBegin, AuditBatch, AuditFingerprint, AuditVanished, AuditHash,
             AuditCommit, AuditPrune, AuditReport, AuditKilled, stageBounds,
             StageTypeOK, HistTypeOK
    <3> QED BY <2>1, <3>1, <3>2 DEF StageTypeOK, HistTypeOK
  <2> QED BY <2>1, <2>2 DEF StageTypeOK, DiskTypeOK, CatalogTypeOK
<1>2. (man \in Manifest)'
  <2>1. CASE AuditBegin
    BY <2>1, <1>1 DEF AuditBegin, StageTypeOK, Manifest, HistTypeOK
  <2>2. CASE AuditCommit
    <3> DEFINE rows == [p \in StagePaths |-> IF p \in Pending THEN aud.rows[p] ELSE man.rows[p]]
    <3>1. rows \in StageRows
      BY DEF StageTypeOK, Manifest, AuditState, StageRows
    <3>2. man' = [man EXCEPT !.rows = rows]
      BY <2>2 DEF AuditCommit
    <3> HIDE DEF rows
    <3> QED BY <3>1, <3>2 DEF StageTypeOK, Manifest
  <2>3. CASE AuditPrune
    <3> DEFINE rows == [p \in StagePaths |->
                          IF man.rows[p].gen = aud.gen THEN man.rows[p] ELSE NoRow]
    <3>1. rows \in StageRows
      BY StageConstants DEF StageTypeOK, Manifest, AuditState, StageRows
    <3>2. man' = [man EXCEPT !.rows = rows] \/ man' = man
      BY <2>3 DEF AuditPrune
    <3> HIDE DEF rows
    <3> QED BY <3>1, <3>2 DEF StageTypeOK, Manifest
  <2>4. CASE AuditReport
    BY <2>4 DEF AuditReport, StageTypeOK, Manifest
  <2>5. CASE AuditBatch \/ AuditFingerprint \/ AuditVanished \/ AuditHash \/ AuditKilled
    BY <2>5 DEF AuditBatch, AuditFingerprint, AuditVanished, AuditHash, AuditKilled, StageTypeOK
  <2> QED BY <2>1, <2>2, <2>3, <2>4, <2>5 DEF AuditNext
<1>3. (aud \in AuditState)'
  <2>1. ASSUME NEW stat \in Nat, NEW hash \in StageContents \cup {None},
               NEW state \in {"stable", "unstable", "read_error"}, aud.next \in StagePaths
        PROVE  Upsert(stat, hash, state) \in AuditState
    <3> DEFINE r == [gen |-> aud.gen, stat |-> stat, hash |-> hash, state |-> state]
               rows == [aud.rows EXCEPT ![aud.next] = r]
    <3>1. rows \in StageRows
      BY DEF StageTypeOK, AuditState, StageRows, StageRow
    <3>2. aud.next + 1 \in 1..NPaths + 1
      BY <2>1, StageConstants DEF StagePaths
    <3>3. Upsert(stat, hash, state) =
             [aud EXCEPT !.pc = "walk", !.rows = rows,
                         !.clean = aud.clean /\ state = "stable", !.next = aud.next + 1]
      BY DEF Upsert, StageTypeOK, AuditState
    <3> HIDE DEF rows
    <3> QED BY <3>1, <3>2, <3>3 DEF StageTypeOK, AuditState
  <2>2. CASE AuditBegin \/ AuditVanished \/ AuditReport \/ AuditKilled \/ AuditBatch
    <3>1. CASE AuditBegin
      BY <3>1, <1>1, StageConstants DEF AuditBegin, Audit, AuditState, HistTypeOK
    <3>2. CASE AuditReport
      BY <3>2, StageConstants DEF AuditReport, Audit, AuditState, Ready
    <3>3. CASE AuditVanished \/ AuditKilled \/ AuditBatch
      BY <3>3, StageConstants DEF AuditVanished, AuditKilled, AuditBatch, Audit, StageTypeOK, AuditState
    <3> QED BY <2>2, <3>1, <3>2, <3>3
  <2>3. CASE AuditFingerprint
    <3> DEFINE p == aud.next
               f == src[p]
    <3>1. p \in StagePaths
      BY <2>3 DEF AuditFingerprint, Walking
    <3>2. CASE f = None
      <4>1. aud' = [aud EXCEPT !.next = aud.next + 1]
        BY <2>3, <3>2 DEF AuditFingerprint, Audit
      <4>2. aud.next + 1 \in 1..NPaths + 1
        BY <3>1, StageConstants DEF StagePaths
      <4> QED BY <4>1, <4>2 DEF StageTypeOK, AuditState
    <3>3. CASE f # None
      <4>1. f \in SourceFile /\ f.stat \in Nat
        BY <3>1, <3>3 DEF StageTypeOK, DiskTypeOK, SourceFile
      <4>2. man.rows[p].hash \in StageContents \cup {None}
        BY <3>1 DEF StageTypeOK, Manifest, StageRows, StageRow
      <4>3. \/ aud' = Upsert(f.stat, man.rows[p].hash, "stable")
            \/ aud' = [aud EXCEPT !.pc = "hash", !.stat = f.stat]
        BY <2>3, <3>3 DEF AuditFingerprint, Audit
      <4>4. Upsert(f.stat, man.rows[p].hash, "stable") \in AuditState
        <5> HIDE DEF f
        <5> QED BY <2>1, <3>1, <4>1, <4>2
      <4>5. [aud EXCEPT !.pc = "hash", !.stat = f.stat] \in AuditState
        BY <4>1 DEF StageTypeOK, AuditState
      <4> QED BY <4>3, <4>4, <4>5
    <3> QED BY <3>2, <3>3
  <2>4. CASE AuditHash
    <3>0. aud.next \in StagePaths
      BY <2>4 DEF AuditHash, AuditInv
    <3> DEFINE f == src[aud.next]
    <3>1. f # None => f.stat \in Nat /\ f.bytes \in StageContents
      BY <3>0 DEF StageTypeOK, DiskTypeOK, SourceFile
    <3>2. aud.stat \in Nat
      BY DEF StageTypeOK, AuditState
    <3>3. \/ aud' = Upsert(aud.stat, None, "read_error")
          \/ aud' = Upsert(aud.stat, None, "unstable")
          \/ f # None /\ aud' = Upsert(f.stat, f.bytes, "stable")
      BY <2>4 DEF AuditHash, Audit
    <3> HIDE DEF f
    <3> QED BY <2>1, <3>0, <3>1, <3>2, <3>3
  <2>5. CASE AuditCommit \/ AuditPrune
    BY <2>5, StageConstants DEF AuditCommit, AuditPrune, Audit, StageTypeOK, AuditState
  <2> QED BY <2>2, <2>3, <2>4, <2>5 DEF AuditNext
<1> QED BY <1>1, <1>2, <1>3 DEF StageTypeOK

-----------------------------------------------------------------------------
(* Pages of candidates.                                                    *)

\* A set of naturals has a least element.
LEMMA LeastNatural ==
    ASSUME NEW S \in SUBSET Nat, S # {}
    PROVE  \E m \in S : \A k \in S : m <= k
<1> DEFINE Less == {ss \in Nat \X Nat : ss[1] < ss[2]}
<1>1. IsWellFoundedOn(Less, Nat)
  BY NatLessThanWellFounded DEF OpToRel
<1>2. PICK m \in S : \A k \in S : ~(<<k, m>> \in Less)
  <2> HIDE DEF Less
  <2> QED BY <1>1, WFMin
<1>3. \A k \in S : ~(k < m)
  BY <1>2
<1> QED BY <1>3

\* Max of a bounded set of naturals.
LEMMA MaxIsOne ==
    ASSUME NEW n \in Nat, NEW S \in SUBSET (0..n), S # {}
    PROVE  Max(S) \in S /\ \A k \in S : k <= Max(S)
<1> DEFINE Left == {n - k : k \in S}
<1>1. Left \in SUBSET Nat /\ Left # {}
  <2>1. \A k \in S : n - k \in Nat
    OBVIOUS
  <2> QED BY <2>1
<1>2. PICK l \in Left : \A k \in Left : l <= k
  BY <1>1, LeastNatural
<1>3. PICK m \in S : l = n - m
  OBVIOUS
<1>4. \A k \in S : m >= k
  <2> TAKE k \in S
  <2>1. n - k \in Left
    OBVIOUS
  <2>2. l <= n - k /\ l = n - m
    BY <2>1, <1>2, <1>3
  <2>3. k \in Int /\ m \in Int
    OBVIOUS
  <2> QED BY <2>2, <2>3
<1>5. Max(S) \in S /\ \A k \in S : Max(S) >= k
  BY <1>4 DEF Max
<1>6. \A k \in S : k \in Int
  OBVIOUS
<1> QED BY <1>5, <1>6

LEMMA PathsFinite ==
    ASSUME NEW S \in SUBSET StagePaths
    PROVE  IsFiniteSet(S) /\ Cardinality(S) \in Nat
<1>1. IsFiniteSet(StagePaths)
  <2>1. 1 \in Int /\ NPaths \in Int
    BY StageConstants
  <2> QED BY <2>1, FS_Interval DEF StagePaths
<1>2. IsFiniteSet(S)
  BY <1>1, FS_Subset
<1> QED BY <1>2, FS_CardinalityType

\* A page holds the first candidates: none before its cursor is left out.
LEMMA PageIsFirst ==
    ASSUME NEW p
    PROVE  /\ NextPage(p) \subseteq ImportCandidates(p)
           /\ NextCursor(p) \in 0..NPaths
           /\ \A q \in ImportCandidates(p) : q <= NextCursor(p) => q \in NextPage(p)
<1> DEFINE C == ImportCandidates(p)
           N == NextPage(p)
           Upto(q) == {r \in C : r <= q}
<1>1. N = {q \in C : Cardinality(Upto(q)) <= Page} /\ C \subseteq StagePaths
  BY DEF NextPage, ImportCandidates, Stable
<1>2. NextCursor(p) = IF C = N THEN NPaths ELSE Max(N)
  BY DEF NextCursor
<1> HIDE DEF C, N
<1>3. CASE C = N
  <2>1. NextCursor(p) = NPaths /\ NPaths \in 0..NPaths
    BY <1>2, <1>3, StageConstants
  <2>2. ImportCandidates(p) = NextPage(p)
    BY <1>3 DEF C, N
  <2> QED BY ONLY <2>1, <2>2
<1>4. CASE C # N
  <2>1. C # {} /\ C \in SUBSET Nat
    BY <1>1, <1>4 DEF StagePaths
  <2>2. PICK m \in C : \A k \in C : m <= k
    BY <2>1, LeastNatural
  <2>3. Upto(m) = {m}
    <3>1. \A k \in C : k <= m => k = m
      BY <2>1, <2>2
    <3>2. m <= m
      BY <2>1, <2>2
    <3> QED BY <3>1, <3>2, <2>2
  <2>4. m \in N
    <3>1. Cardinality(Upto(m)) = 1
      BY <2>3, FS_Singleton
    <3> QED BY <1>1, <3>1, StageConstants
  <2>5. N \in SUBSET (0..NPaths) /\ N # {}
    <3>1. \A k \in StagePaths : k \in 0..NPaths
      BY StageConstants DEF StagePaths
    <3> QED BY <1>1, <2>4, <3>1
  <2>6. Max(N) \in N
    BY <2>5, MaxIsOne, StageConstants
  <2>7. ASSUME NEW q \in C, q <= Max(N) PROVE q \in N
    <3>1. Max(N) \in Nat /\ q \in Nat /\ Max(N) \in C
      BY <2>1, <2>6, <1>1
    <3>2. Upto(q) \in SUBSET Upto(Max(N))
      <4>1. \A k \in C : k <= q => k <= Max(N)
        BY <2>1, <2>7, <3>1
      <4> QED BY <4>1
    <3>3. Upto(q) \in SUBSET StagePaths /\ Upto(Max(N)) \in SUBSET StagePaths
      BY <1>1
    <3> HIDE DEF Upto
    <3>4. /\ IsFiniteSet(Upto(Max(N))) /\ Cardinality(Upto(q)) \in Nat
          /\ Cardinality(Upto(Max(N))) \in Nat
      BY <3>3, PathsFinite
    <3>5. Cardinality(Upto(q)) <= Cardinality(Upto(Max(N)))
      BY <3>2, <3>4, FS_Subset
    <3>6. Cardinality(Upto(Max(N))) <= Page
      BY <1>1, <2>6
    <3> QED BY <1>1, <3>4, <3>5, <3>6, StageConstants
  <2>8. NextCursor(p) = Max(N) /\ Max(N) \in 0..NPaths /\ N \subseteq C
    BY <1>1, <1>2, <1>4, <2>5, <2>6
  <2>9. N = NextPage(p) /\ C = ImportCandidates(p)
    BY DEF C, N
  <2> QED BY ONLY <2>7, <2>8, <2>9
<1> QED BY <1>3, <1>4

LEMMA RunnerSet ==
    ASSUME StageTypeOK, NEW x \in Runners, NEW r \in RunnerState, Set(x, r)
    PROVE  proc' \in [Runners -> RunnerState]
BY DEF StageTypeOK, Set

LEMMA RunnerExit ==
    ASSUME StageTypeOK, NEW x \in Runners, NEW p, Exit(x, p)
    PROVE  proc' \in [Runners -> RunnerState] /\ temp' \in [Jobs -> Trees \cup {None}]
<1>1. proc' \in [Runners -> RunnerState]
  BY RunnerSet, StageConstants DEF Exit
<1>2. temp' \in [Jobs -> Trees \cup {None}]
  BY DEF Exit, TreeDropped, StageTypeOK, DiskTypeOK
<1> QED BY <1>1, <1>2

\* The first candidate of a page.
First(page) == CHOOSE d \in page : \A e \in page : d.path <= e.path

LEMMA FirstOfPage ==
    ASSUME NEW page \in SUBSET Candidate, page # {}
    PROVE  First(page) \in page
<1> DEFINE Paths == {c.path : c \in page}
<1>1. Paths \in SUBSET Nat /\ Paths # {}
  BY DEF Candidate, StagePaths
<1>2. PICK m \in Paths : \A k \in Paths : m <= k
  BY <1>1, LeastNatural
<1>3. PICK c \in page : c.path = m
  OBVIOUS
<1>4. \A e \in page : c.path <= e.path
  BY <1>2, <1>3
<1> QED BY <1>4 DEF First

LEMMA ImportTypes ==
    ASSUME StageTypeOK, ImportInv, NEW x \in Runners, ImportNext(x)
    PROVE  StageTypeOK'
<1> DEFINE p == proc[x]
<1>0. p \in RunnerState /\ PlaceGood(x) /\ (p.pc # "idle" => p.job \in Jobs)
  BY DEF StageTypeOK, ImportInv, PlaceGood
<1>1. ASSUME UNCHANGED <<backend, stageDisk, man, catalog, aud, hist>>,
             proc' \in [Runners -> RunnerState],
             audits' \in Nat, starts' \in Nat, kills' \in Nat, edits' \in Nat
      PROVE  StageTypeOK'
  BY <1>1 DEF StageTypeOK, DiskTypeOK, CatalogTypeOK, HistTypeOK, stageDisk, catalog, hist
<1>2. UNCHANGED stageBounds => audits' \in Nat /\ starts' \in Nat /\ kills' \in Nat /\ edits' \in Nat
  BY DEF stageBounds, StageTypeOK, HistTypeOK
<1>3. ASSUME NEW j \in Jobs, Prepare(x, j) PROVE StageTypeOK'
  <2>1. PICK limit \in MaxItems :
           Set(x, [IdleProc EXCEPT !.pc = "select", !.job = j, !.resuming = job[j] # "none",
                                   !.gen = man.gen, !.limit = limit])
    BY <1>3 DEF Prepare
  <2>2. [IdleProc EXCEPT !.pc = "select", !.job = j, !.resuming = job[j] # "none",
                         !.gen = man.gen, !.limit = limit] \in RunnerState
    BY StageConstants DEF RunnerState, RunnerPcs, StageTypeOK, Manifest
  <2>3. proc' \in [Runners -> RunnerState]
    BY <2>1, <2>2, RunnerSet
  <2>4. audits' \in Nat /\ starts' \in Nat /\ kills' \in Nat /\ edits' \in Nat
    BY <1>3 DEF Prepare, StageTypeOK, HistTypeOK
  <2> QED BY <1>1, <1>3, <2>3, <2>4 DEF Prepare
<1>4. CASE Select(x)
  <2> DEFINE fresh == [gen |-> p.gen, paths |-> NotCataloged(p.gen)]
             new == [q \in StagePaths |-> IF q \in fresh.paths THEN man.rows[q].hash ELSE None]
  <2>1. p.job \in Jobs
    BY <1>0, <1>4 DEF Select
  <2>2. fresh \in Selection
    BY <1>0 DEF Selection, NotCataloged, Stable, RunnerState
  <2>3. man' \in Manifest
    <3>1. man' = man \/ man' = [man EXCEPT !.sel[p.job] = fresh]
      BY <1>4 DEF Select
    <3> HIDE DEF fresh, p
    <3>2. [man EXCEPT !.sel[p.job] = fresh] \in Manifest
      BY <2>1, <2>2 DEF StageTypeOK, Manifest
    <3> QED BY <3>1, <3>2 DEF StageTypeOK
  <2>4. new \in Trees
    BY DEF Trees, StageTypeOK, Manifest, StageRows, StageRow
  <2>5. reviewed' \in [Jobs -> Trees]
    <3>1. reviewed' = reviewed \/ reviewed' = [reviewed EXCEPT ![p.job] = new]
      BY <1>4 DEF Select
    <3> HIDE DEF new
    <3> QED BY <3>1, <2>4 DEF StageTypeOK, HistTypeOK
  <2>6. proc' \in [Runners -> RunnerState]
    <3> DEFINE e == Cardinality(Selected(man', p.job))
    <3>1. Set(x, IdleProc) \/ (man'.sel[p.job].gen = p.gen /\ Set(x, [p EXCEPT !.pc = "start", !.eligible = e]))
      BY <1>4 DEF Select
    <3>2. man'.sel[p.job] # None
      BY <1>4, <2>1, <2>2, StageConstants DEF Select, StageTypeOK, Manifest
    <3>3. Selected(man', p.job) \in SUBSET StagePaths
      BY <2>1, <2>3, <3>2 DEF Selected, Manifest, Selection
    <3>4. e \in Nat
      BY <3>3, PathsFinite
    <3> HIDE DEF e, p
    <3>5. [p EXCEPT !.pc = "start", !.eligible = e] \in RunnerState
      BY <1>0, <3>4 DEF RunnerState, RunnerPcs
    <3> QED BY <3>1, <3>5, RunnerSet, StageConstants
  <2>7. UNCHANGED <<backend, stageDisk, catalog, aud, touched, held, stageBounds>>
    BY <1>4 DEF Select
  <2> QED BY <2>3, <2>5, <2>6, <2>7 DEF StageTypeOK, DiskTypeOK, CatalogTypeOK, HistTypeOK,
             stageDisk, catalog, stageBounds
<1>5. CASE StartJob(x) \/ Finish(x)
  <2>1. proc' \in [Runners -> RunnerState]
    <3>1. [p EXCEPT !.pc = "open"] \in RunnerState
      BY <1>0 DEF RunnerState, RunnerPcs
    <3> QED BY <1>5, <3>1, RunnerSet, StageConstants DEF StartJob, Finish
  <2>2. job' \in [Jobs -> {"none", "running", "complete"}]
    BY <1>5 DEF StartJob, Finish, StageTypeOK, CatalogTypeOK
  <2>3. UNCHANGED <<backend, stageDisk, man, cat, expect, recs, aud, hist, stageBounds>>
    BY <1>5 DEF StartJob, Finish
  <2> QED BY <2>1, <2>2, <2>3 DEF StageTypeOK, DiskTypeOK, CatalogTypeOK, HistTypeOK,
             stageDisk, hist, stageBounds
<1>6. ASSUME temp' \in [Jobs -> Trees \cup {None}], pub' \in Trees \cup {None},
             held' \in [Jobs -> Trees], proc' \in [Runners -> RunnerState],
             UNCHANGED <<backend, src, man, catalog, aud, touched, reviewed, stageBounds>>
      PROVE  StageTypeOK'
  BY <1>6 DEF StageTypeOK, DiskTypeOK, CatalogTypeOK, HistTypeOK, catalog, stageBounds
<1>7. temp \in [Jobs -> Trees \cup {None}] /\ pub \in Trees \cup {None} /\ held \in [Jobs -> Trees]
  BY DEF StageTypeOK, DiskTypeOK, HistTypeOK
<1>8. CASE OpenTree(x)
  <2>1. temp' \in [Jobs -> Trees \cup {None}]
    BY <1>7, <1>8, StageConstants DEF OpenTree
  <2>2. [p EXCEPT !.pc = "page", !.published = pub # None, !.keep = temp[p.job] # None] \in RunnerState
    BY <1>0 DEF RunnerState, RunnerPcs
  <2>3. proc' \in [Runners -> RunnerState]
    BY <1>8, <2>2, RunnerSet, StageConstants DEF OpenTree
  <2> QED BY <1>6, <1>7, <1>8, <2>1, <2>3 DEF OpenTree, hist
<1>9. CASE ReadPage(x)
  <2> DEFINE page == {[path |-> q, hash |-> man.rows[q].hash] : q \in NextPage(p)}
             r == [p EXCEPT !.pc = IF p.pc = "page" THEN "copy" ELSE "record",
                            !.page = page, !.cursor = NextCursor(p)]
  <2>1. NextPage(p) \subseteq StagePaths
    BY PageIsFirst DEF ImportCandidates, Stable
  <2>2. page \in SUBSET Candidate
    BY <2>1 DEF Candidate, StageTypeOK, Manifest, StageRows, StageRow
  <2>3. NextCursor(p) \in 0..NPaths
    BY PageIsFirst
  <2>4. Set(x, r)
    BY <1>9 DEF ReadPage
  <2>5. r \in RunnerState
    <3> HIDE DEF page, p
    <3> QED BY <1>0, <2>2, <2>3 DEF RunnerState, RunnerPcs
  <2> HIDE DEF r
  <2>6. proc' \in [Runners -> RunnerState]
    BY <2>4, <2>5, RunnerSet
  <2> QED BY <1>1, <1>2, <1>9, <2>6 DEF ReadPage
<1>10. CASE CopyFile(x)
  <2> DEFINE c == First(p.page)
             found == Tree(p)[c.path]
             kept == p.keep \/ found # None
             ok == IF found # None THEN VerifiedExisting(found, c.hash)
                   ELSE ~p.published /\ VerifiedCopy(src[c.path], c.hash)
             bytes == src[c.path].bytes
  <2>1. c \in p.page /\ c \in Candidate /\ p.job \in Jobs /\ p.pc = "copy" /\ p.limit > 0
    BY <1>0, <1>10, FirstOfPage DEF CopyFile, RunnerState
  <2>2. Tree(p) \in Trees
    BY <1>0, <1>7, <2>1, StageConstants DEF Tree, PlaceGood, Copying
  <2>3. found \in StageContents \cup {None}
    BY <2>1, <2>2 DEF Trees, Candidate
  <2>4. CASE ok
    <3>1. /\ Set(x, [p EXCEPT !.page = p.page \ {c}, !.limit = p.limit - 1, !.keep = kept])
          /\ temp' = IF found # None THEN temp ELSE [temp EXCEPT ![p.job][c.path] = bytes]
          /\ held' = [held EXCEPT ![p.job][c.path] = IF found # None THEN found ELSE bytes]
      BY <1>10, <2>4 DEF CopyFile, First
    <3>2. found = None => bytes \in StageContents
      BY <2>1, <2>4, StageConstants DEF VerifiedCopy, StageTypeOK, DiskTypeOK, SourceFile, Candidate
    <3> HIDE DEF found, bytes, kept
    <3>3. [p EXCEPT !.page = p.page \ {c}, !.limit = p.limit - 1, !.keep = kept] \in RunnerState
      <4>1. kept \in BOOLEAN /\ p.limit - 1 \in Nat
        BY <1>0, <2>1 DEF RunnerState, kept
      <4>2. p.page \ {c} \in SUBSET Candidate
        BY <1>0 DEF RunnerState
      <4> HIDE DEF c
      <4> QED BY <1>0, <4>1, <4>2 DEF RunnerState
    <3>4. proc' \in [Runners -> RunnerState]
      BY <3>1, <3>3, RunnerSet
    <3>5. found = None => temp[p.job] \in Trees
      BY <1>0, <1>7, <2>1, <2>4 DEF PlaceGood, Copying, ok
    <3>6. temp' \in [Jobs -> Trees \cup {None}]
      BY <1>7, <2>1, <3>1, <3>2, <3>5 DEF Trees, Candidate
    <3>7. held' \in [Jobs -> Trees]
      BY <1>7, <2>1, <2>3, <3>1, <3>2 DEF Trees, Candidate
    <3> QED BY <1>6, <1>7, <1>10, <3>4, <3>6, <3>7 DEF CopyFile
  <2>5. CASE ~ok
    <3>1. Exit(x, [p EXCEPT !.keep = kept]) /\ UNCHANGED held
      BY <1>10, <2>5 DEF CopyFile, First
    <3> QED BY <1>6, <1>7, <1>10, <3>1, RunnerExit DEF CopyFile
  <2> QED BY <2>4, <2>5
<1>11. CASE Interrupt(x)
  BY <1>6, <1>7, <1>11, RunnerExit DEF Interrupt, hist
<1>12. CASE PageDone(x)
  <2>1. [p EXCEPT !.pc = IF p.cursor < NPaths THEN "page" ELSE "validate"] \in RunnerState
    BY <1>0 DEF RunnerState, RunnerPcs
  <2>2. proc' \in [Runners -> RunnerState]
    BY <1>12, <2>1, RunnerSet DEF PageDone
  <2> QED BY <1>1, <1>2, <1>12, <2>2 DEF PageDone
<1>13. CASE Validate(x)
  <2>1. [p EXCEPT !.pc = IF p.published THEN "records" ELSE "publish", !.cursor = 0] \in RunnerState
    <3>1. 0 \in 0..NPaths
      BY StageConstants
    <3>2. ASSUME NEW pc \in RunnerPcs PROVE [p EXCEPT !.pc = pc, !.cursor = 0] \in RunnerState
      BY <1>0, <3>1 DEF RunnerState
    <3> QED BY <3>2 DEF RunnerPcs
  <2>2. proc' \in [Runners -> RunnerState] /\ temp' \in [Jobs -> Trees \cup {None}]
    BY <1>7, <1>13, <2>1, RunnerSet, RunnerExit DEF Validate
  <2> QED BY <1>6, <1>7, <1>13, <2>2 DEF Validate, hist
<1>14. CASE Publish(x)
  <2>1. [p EXCEPT !.pc = "records", !.keep = TRUE] \in RunnerState
    BY <1>0 DEF RunnerState, RunnerPcs
  <2>2. proc' \in [Runners -> RunnerState]
    BY <1>14, <2>1, RunnerSet, RunnerExit, StageConstants DEF Publish
  <2>3. temp' \in [Jobs -> Trees \cup {None}]
    BY <1>7, <1>14, RunnerExit DEF Publish, Renamed
  <2>4. pub' \in Trees \cup {None}
    BY <1>0, <1>7, <1>14 DEF Publish
  <2> QED BY <1>6, <1>7, <1>14, <2>2, <2>3, <2>4 DEF Publish, hist
<1>15. CASE Record(x)
  <2> DEFINE new == p.page \ Refused(p)
  <2>1. p.page \in SUBSET Candidate /\ p.job \in Jobs
    BY <1>0, <1>15 DEF Record, RunnerState
  <2>2. new \in SUBSET Candidate
    BY <2>1
  <2>3. /\ recs' = recs \cup {<<p.job, c.path, c.hash>> : c \in new}
        /\ cat' = cat \cup {c.hash : c \in new}
        /\ expect' = IF backend = "v2" THEN expect
                     ELSE [q \in StagePaths |-> IF \E c \in new : c.path = q
                                                THEN (CHOOSE c \in new : c.path = q).hash ELSE expect[q]]
    BY <1>15 DEF Record
  <2>4. UNCHANGED <<backend, stageDisk, job, man, aud, hist, stageBounds>>
    BY <1>15 DEF Record
  <2> HIDE DEF new
  <2>5. recs' \subseteq Jobs \X StagePaths \X (StageContents \cup {None})
    BY <2>1, <2>2, <2>3 DEF Candidate, StageTypeOK, CatalogTypeOK
  <2>6. cat' \subseteq StageContents \cup {None}
    BY <2>2, <2>3 DEF Candidate, StageTypeOK, CatalogTypeOK
  <2>7. expect' \in [StagePaths -> StageContents \cup {None}]
    <3>1. ASSUME NEW q, \E c \in new : c.path = q
          PROVE  (CHOOSE c \in new : c.path = q).hash \in StageContents \cup {None}
      <4>1. (CHOOSE c \in new : c.path = q) \in new
        BY <3>1
      <4> QED BY <4>1, <2>2 DEF Candidate
    <3> QED BY <2>3, <3>1 DEF StageTypeOK, CatalogTypeOK
  <2>8. proc' \in [Runners -> RunnerState]
    <3>1. [p EXCEPT !.pc = AfterRecord(p)] \in RunnerState
      BY <1>0 DEF RunnerState, RunnerPcs, AfterRecord
    <3> QED BY <1>15, <3>1, RunnerSet, StageConstants DEF Record
  <2> QED BY <2>4, <2>5, <2>6, <2>7, <2>8 DEF StageTypeOK, DiskTypeOK, CatalogTypeOK, HistTypeOK,
             stageDisk, hist, stageBounds
<1>16. CASE ImportKilled(x)
  <2>1. proc' \in [Runners -> RunnerState]
    BY <1>16, RunnerSet, StageConstants DEF ImportKilled
  <2>2. audits' \in Nat /\ starts' \in Nat /\ kills' \in Nat /\ edits' \in Nat
    BY <1>16 DEF ImportKilled, StageTypeOK, HistTypeOK
  <2> QED BY <1>1, <1>16, <2>1, <2>2 DEF ImportKilled
<1> QED BY <1>3, <1>4, <1>5, <1>8, <1>9, <1>10, <1>11, <1>12, <1>13, <1>14, <1>15, <1>16
        DEF ImportNext

LEMMA OwnerTypes ==
    ASSUME StageTypeOK, NEW q \in StagePaths, EditSource(q) \/ Scan(q) \/ EditPublished
    PROVE  StageTypeOK'
<1>1. CASE EditSource(q)
  <2>1. edits' \in Nat
    BY <1>1 DEF EditSource, StageTypeOK, HistTypeOK
  <2>2. PICK c \in StageContents \cup {None} :
           src' = [src EXCEPT ![q] = IF c = None THEN None ELSE [bytes |-> c, stat |-> edits']]
    BY <1>1 DEF EditSource
  <2>3. src' \in [StagePaths -> SourceFile \cup {None}]
    BY <2>1, <2>2 DEF StageTypeOK, DiskTypeOK, SourceFile
  <2> QED BY <1>1, <2>1, <2>3 DEF EditSource, StageTypeOK, DiskTypeOK, CatalogTypeOK, HistTypeOK, catalog
<1>2. CASE Scan(q)
  <2>1. pub \in Trees
    BY <1>2 DEF Scan, StageTypeOK, DiskTypeOK
  <2>2. pub[q] \in StageContents \cup {None}
    BY <2>1 DEF Trees
  <2> QED BY <1>2, <2>2 DEF Scan, StageTypeOK, DiskTypeOK, CatalogTypeOK, HistTypeOK,
             stageDisk, hist, stageBounds
<1>3. CASE EditPublished
  <2>1. pub' \in Trees \cup {None}
    BY <1>3 DEF EditPublished, StageTypeOK, DiskTypeOK, Trees
  <2> QED BY <1>3, <2>1 DEF EditPublished, StageTypeOK, DiskTypeOK, CatalogTypeOK, HistTypeOK,
             catalog, hist
<1> QED BY <1>1, <1>2, <1>3

-----------------------------------------------------------------------------
(* The audit.                                                              *)

LEMMA AuditInvInit == StageInit => AuditInv
<1> SUFFICES ASSUME StageInit PROVE AuditInv
  OBVIOUS
<1>1. \A p \in StagePaths : src[p] # None => src[p].stat = 0
  BY DEF StageInit
<1>2. aud = IdleAudit /\ man.gen = 0 /\ audits = 0 /\ edits = 0
      /\ man.rows = [p \in StagePaths |-> NoRow]
  BY DEF StageInit
<1>3. \A p \in StagePaths : RowIsTrue(man.rows[p], p) /\ RowIsTrue(aud.rows[p], p)
                            /\ man.rows[p].gen = 0
  BY <1>2 DEF RowIsTrue, IdleAudit, NoRow
<1> QED BY <1>1, <1>2, <1>3 DEF AuditInv, IdleAudit

\* What the audit is about, unchanged.
LEMMA AuditFrame ==
    ASSUME AuditInv,
           UNCHANGED <<aud, src, touched, audits, edits>>,
           man'.gen = man.gen, man'.rows = man.rows, man'.status = man.status
    PROVE  AuditInv'
BY DEF AuditInv, RowIsTrue, Seen, SeenRow

LEMMA ImportKeepsAudit ==
    ASSUME StageTypeOK, AuditInv, NEW x \in Runners, ImportNext(x)
    PROVE  AuditInv'
<1>1. UNCHANGED <<aud, src, touched, audits, edits>>
  BY DEF ImportNext, Prepare, Select, StartJob, OpenTree, ReadPage, CopyFile, Interrupt,
         PageDone, Validate, Publish, Record, Finish, ImportKilled, stageDisk, hist, stageBounds
<1>2. man' = man \/ man' = [man EXCEPT !.sel[proc[x].job] =
                              [gen |-> proc[x].gen, paths |-> NotCataloged(proc[x].gen)]]
  BY DEF ImportNext, Prepare, Select, StartJob, OpenTree, ReadPage, CopyFile, Interrupt,
         PageDone, Validate, Publish, Record, Finish, ImportKilled
<1>3. man'.gen = man.gen /\ man'.rows = man.rows /\ man'.status = man.status
  BY <1>2 DEF StageTypeOK, Manifest
<1> QED BY <1>1, <1>3, AuditFrame

\* A changed file has a stat no row has.
LEMMA EditKeepsAudit ==
    ASSUME StageTypeOK, AuditInv, NEW q \in StagePaths, EditSource(q)
    PROVE  AuditInv'
<1>1. UNCHANGED <<aud, man, audits>> /\ touched' = touched \cup {q} /\ edits' = edits + 1
      /\ edits \in Nat /\ edits' \in Nat /\ edits < edits'
  BY DEF EditSource, StageTypeOK, HistTypeOK
<1>2. \A p \in StagePaths : p # q => src'[p] = src[p]
  BY DEF EditSource, StageTypeOK, DiskTypeOK
<1>3. src'[q] # None => src'[q].stat = edits'
  BY DEF EditSource, StageTypeOK, DiskTypeOK
<1>4. \A p \in StagePaths : src'[p] # None => src'[p].stat <= edits'
  <2> TAKE p \in StagePaths
  <2>1. src[p] # None => src[p].stat \in Nat
    BY DEF StageTypeOK, DiskTypeOK, SourceFile
  <2> QED BY <1>1, <1>2, <1>3, <2>1 DEF AuditInv
<1>5. ASSUME NEW p \in StagePaths, NEW row \in StageRow, RowIsTrue(row, p)
      PROVE  /\ row.stat <= edits'
             /\ row.state = "stable" /\ src'[p] # None /\ src'[p].stat = row.stat
                  => row.hash = src'[p].bytes
  <2>1. row.stat \in Nat /\ row.stat <= edits
    BY <1>5 DEF RowIsTrue, StageRow
  <2>2. row.stat <= edits' /\ row.stat # edits'
    BY <1>1, <2>1
  <2> QED BY <1>2, <1>3, <1>5, <2>2 DEF RowIsTrue
<1>6. \A p \in StagePaths : man.rows[p] \in StageRow /\ aud.rows[p] \in StageRow
  BY DEF StageTypeOK, Manifest, AuditState, StageRows
<1>7. \A p \in StagePaths : (RowIsTrue(man.rows[p], p) /\ RowIsTrue(aud.rows[p], p))'
  BY <1>1, <1>5, <1>6 DEF AuditInv, RowIsTrue
<1>8. aud.stat <= edits'
  BY <1>1 DEF AuditInv, StageTypeOK, AuditState
<1>9. \A p \in StagePaths \ touched' : src'[p] = src[p] /\ p \in StagePaths \ touched
  BY <1>1, <1>2
<1> QED BY <1>1, <1>4, <1>7, <1>8, <1>9 DEF AuditInv, Seen, SeenRow

LEMMA AuditKeepsAudit ==
    ASSUME StageTypeOK, StageTypeOK', AuditInv, AuditNext
    PROVE  AuditInv'
<1> DEFINE Rows(rows) == \A p \in StagePaths : RowIsTrue(rows[p], p)
<1>0. /\ UNCHANGED <<src, edits>> /\ aud \in AuditState /\ man \in Manifest
      /\ audits \in Nat /\ edits \in Nat /\ Rows(man.rows) /\ Rows(aud.rows)
      /\ \A p \in StagePaths : src[p] # None => src[p].stat <= edits /\ src[p].stat \in Nat
  BY DEF AuditNext, AuditBegin, AuditBatch, AuditFingerprint, AuditVanished, AuditHash,
         AuditCommit, AuditPrune, AuditReport, AuditKilled, stageDisk, stageBounds,
         StageTypeOK, HistTypeOK, AuditInv, DiskTypeOK, SourceFile
<1>1. Rows(IdleAudit.rows) /\ \A p \in StagePaths : IdleAudit.rows[p].state = "none"
  BY <1>0 DEF RowIsTrue, IdleAudit, NoRow
<1>2. ASSUME UNCHANGED <<man, touched, audits>>, aud' = IdleAudit PROVE AuditInv'
  BY <1>0, <1>1, <1>2 DEF AuditInv, RowIsTrue, IdleAudit
<1>3. CASE AuditBegin
  <2>1. man' = [man EXCEPT !.gen = audits', !.status = "running"] /\ audits' = audits + 1
        /\ aud' = [IdleAudit EXCEPT !.pc = "begin", !.gen = audits'] /\ touched' = {}
    BY <1>3 DEF AuditBegin, Audit
  <2>2. man'.gen = audits' /\ man'.status = "running" /\ man'.rows = man.rows
    BY <1>0, <2>1 DEF Manifest
  <2>3. aud'.pc = "begin" /\ aud'.gen = audits' /\ aud'.next = 1 /\ aud'.stat = 0
        /\ aud'.rows = IdleAudit.rows /\ aud'.ready = FALSE
    BY <2>1 DEF IdleAudit
  <2>4. \A p \in StagePaths : man.rows[p].gen <= audits'
    BY <1>0, <2>1 DEF AuditInv, Manifest, StageRows, StageRow
  <2>5. \A p \in StagePaths : ~(p < 1)
    BY DEF StagePaths
  <2>6. 0 <= edits
    BY <1>0
  <2> QED BY <1>0, <1>1, <2>2, <2>3, <2>4, <2>5, <2>6 DEF AuditInv, RowIsTrue
<1>4. CASE AuditBatch
  <2>1. UNCHANGED <<man, touched, audits>> /\ aud' = [aud EXCEPT !.pc = "walk"] /\ aud.pc = "begin"
    BY <1>4 DEF AuditBatch, Audit, hist, stageBounds
  <2> QED BY <1>0, <2>1 DEF AuditInv, AuditState, RowIsTrue, Seen, SeenRow
<1>5. CASE AuditVanished \/ AuditKilled
  BY <1>2, <1>5 DEF AuditVanished, AuditKilled, Audit, hist, stageBounds
<1>6. CASE AuditReport
  <2>1. UNCHANGED <<touched, audits>> /\ aud' = [IdleAudit EXCEPT !.ready = Ready(aud.clean, aud.gen)]
    BY <1>6 DEF AuditReport, Audit, hist, stageBounds
  <2>2. man'.gen = man.gen /\ man'.rows = man.rows
    BY <1>0, <1>6 DEF AuditReport, Manifest
  <2> QED BY <1>0, <1>1, <2>1, <2>2 DEF AuditInv, RowIsTrue, IdleAudit
\* A path is passed: its row is added, or there is no file.
<1>7. ASSUME NEW stat, NEW hash, NEW state, aud.pc \in {"walk", "hash"}, aud.next \in StagePaths,
             UNCHANGED <<man, touched, audits>>, aud' = Upsert(stat, hash, state),
             stat \in Nat, stat <= edits, state # "none",
             state = "stable" => /\ src[aud.next] # None /\ src[aud.next].stat = stat
                                 /\ hash = src[aud.next].bytes
      PROVE  AuditInv'
  <2> DEFINE n == aud.next
             r == [gen |-> aud.gen, stat |-> stat, hash |-> hash, state |-> state]
  <2>1. /\ aud'.pc = "walk" /\ aud'.next = n + 1 /\ aud'.gen = aud.gen /\ aud'.stat = aud.stat
        /\ aud'.rows = [aud.rows EXCEPT ![n] = r]
        /\ aud'.clean = (aud.clean /\ state = "stable") /\ aud'.ready = aud.ready
    BY <1>0, <1>7 DEF Upsert, AuditState
  <2>2. /\ aud'.rows[n] = r
        /\ \A p \in StagePaths : p # n => aud'.rows[p] = aud.rows[p]
    BY <1>0, <1>7, <2>1 DEF AuditState, StageRows
  <2>3. \A p \in StagePaths : RowIsTrue(aud.rows[p], p)'
    BY <1>0, <1>7, <2>2 DEF RowIsTrue
  <2>4. ASSUME aud'.clean, NEW p \in StagePaths \ touched, p < n + 1, src[p] # None
        PROVE  Seen(p)'
    <3>1. CASE p = n
      <4>1. state = "stable" /\ src[n].stat = stat
        BY <1>7, <2>1, <2>4, <3>1
      <4> QED BY <1>0, <2>1, <2>2, <3>1, <4>1 DEF Seen, SeenRow
    <3>2. CASE p # n
      <4>1. p < n
        BY <1>7, <2>4, <3>2 DEF StagePaths
      <4>2. Seen(p)
        BY <1>7, <2>1, <2>4, <4>1 DEF AuditInv
      <4> QED BY <1>0, <1>7, <2>1, <2>2, <3>2, <4>2 DEF Seen, SeenRow
    <3> QED BY <3>1, <3>2
  <2> QED BY <1>0, <1>7, <2>1, <2>3, <2>4 DEF AuditInv, RowIsTrue
<1>8. CASE AuditFingerprint
  <2> DEFINE n == aud.next
             f == src[n]
  <2>1. n \in StagePaths /\ aud.pc = "walk" /\ UNCHANGED <<man, touched, audits>>
    BY <1>8 DEF AuditFingerprint, Walking, hist, stageBounds
  <2>2. CASE f = None
    <3>1. aud' = [aud EXCEPT !.next = n + 1]
      BY <1>8, <2>2 DEF AuditFingerprint, Audit
    <3>2. \A p \in StagePaths : p < n + 1 /\ src[p] # None => p < n
      BY <2>1, <2>2 DEF StagePaths
    <3> QED BY <1>0, <2>1, <3>1, <3>2 DEF AuditInv, AuditState, RowIsTrue, Seen, SeenRow
  <2>3. CASE f # None /\ Cached(n, f.stat)
    <3>1. aud' = Upsert(f.stat, man.rows[n].hash, "stable")
      BY <1>8, <2>3 DEF AuditFingerprint, Audit
    <3>2. man.rows[n].hash = f.bytes /\ f.stat \in Nat /\ f.stat <= edits
      BY <1>0, <2>1, <2>3 DEF Cached, RowIsTrue
    <3> QED BY <1>7, <2>1, <2>3, <3>1, <3>2
  <2>4. CASE f # None /\ ~Cached(n, f.stat)
    <3>1. aud' = [aud EXCEPT !.pc = "hash", !.stat = f.stat]
      BY <1>8, <2>4 DEF AuditFingerprint, Audit
    <3> QED BY <1>0, <2>1, <2>4, <3>1 DEF AuditInv, AuditState, RowIsTrue, Seen, SeenRow
  <2> QED BY <2>2, <2>3, <2>4
<1>9. CASE AuditHash
  <2> DEFINE f == src[aud.next]
  <2>1. aud.next \in StagePaths /\ aud.pc = "hash" /\ UNCHANGED <<man, touched, audits>>
        /\ aud.stat \in Nat /\ aud.stat <= edits
    BY <1>0, <1>9 DEF AuditHash, AuditInv, hist, stageBounds, AuditState
  <2>2. \/ aud' = Upsert(aud.stat, None, "read_error")
        \/ aud' = Upsert(aud.stat, None, "unstable")
        \/ f # None /\ aud' = Upsert(f.stat, f.bytes, "stable")
    BY <1>9 DEF AuditHash, Audit
  <2>3. CASE f # None /\ aud' = Upsert(f.stat, f.bytes, "stable")
    <3>1. f.stat \in Nat /\ f.stat <= edits
      BY <1>0, <2>1, <2>3
    <3> QED BY <1>7, <2>1, <2>3, <3>1
  <2>4. CASE aud' = Upsert(aud.stat, None, "read_error") \/ aud' = Upsert(aud.stat, None, "unstable")
    BY <1>7, <2>1, <2>4
  <2> QED BY <2>2, <2>3, <2>4
<1>10. CASE AuditCommit
  <2> DEFINE rows == [p \in StagePaths |-> IF p \in Pending THEN aud.rows[p] ELSE man.rows[p]]
  <2>1. /\ aud.pc = "walk" /\ UNCHANGED <<touched, audits>>
        /\ man' = [man EXCEPT !.rows = rows]
        /\ aud' = [aud EXCEPT !.pc = IF aud.next \in StagePaths THEN "begin" ELSE "prune",
                              !.rows = IdleAudit.rows]
    BY <1>10 DEF AuditCommit, Audit, hist, stageBounds
  <2>2. man'.gen = man.gen /\ man'.status = man.status /\ man'.rows = rows
    BY <1>0, <2>1 DEF Manifest
  <2>3. \A p \in StagePaths : rows[p] = SeenRow(p)
    BY DEF Pending, SeenRow
  <2>4. /\ aud'.next = aud.next /\ aud'.gen = aud.gen /\ aud'.clean = aud.clean
        /\ aud'.ready = aud.ready /\ aud'.stat = aud.stat /\ aud'.rows = IdleAudit.rows
        /\ aud'.pc = IF aud.next \in StagePaths THEN "begin" ELSE "prune"
    BY <1>0, <2>1 DEF AuditState
  <2> HIDE DEF rows
  <2>5. \A p \in StagePaths : SeenRow(p)' = SeenRow(p)
    BY <2>2, <2>3, <2>4 DEF SeenRow, IdleAudit, NoRow
  <2>6. Rows(man'.rows)
    BY <1>0, <2>2, <2>3 DEF SeenRow
  <2>7. \A p \in StagePaths : man'.rows[p].gen <= man.gen
    <3> TAKE p \in StagePaths
    <3>1. CASE aud.rows[p].state # "none"
      <4>1. aud.rows[p].gen <= man.gen
        BY <1>0, <2>1, <3>1 DEF AuditInv, Manifest
      <4> QED BY <2>2, <2>3, <3>1, <4>1 DEF SeenRow
    <3>2. CASE aud.rows[p].state = "none"
      BY <2>2, <2>3, <3>2 DEF SeenRow, AuditInv
    <3> QED BY <3>1, <3>2
  <2>8. aud.next \notin StagePaths => aud.next = NPaths + 1
    BY <1>0, StageConstants DEF AuditState, StagePaths
  <2> QED BY <1>0, <1>1, <2>1, <2>2, <2>4, <2>5, <2>6, <2>7, <2>8 DEF AuditInv, RowIsTrue, Seen
<1>11. CASE AuditPrune
  <2> DEFINE rows == [p \in StagePaths |-> IF man.rows[p].gen = aud.gen THEN man.rows[p] ELSE NoRow]
  <2>1. /\ aud.pc = "prune" /\ UNCHANGED <<touched, audits>>
        /\ man' = IF aud.clean THEN [man EXCEPT !.rows = rows] ELSE man
        /\ aud' = [aud EXCEPT !.pc = "classify"]
    BY <1>11 DEF AuditPrune, Audit, hist, stageBounds
  <2>2. man'.gen = man.gen /\ man'.status = man.status
        /\ (man'.rows = rows \/ (~aud.clean /\ man'.rows = man.rows))
    BY <1>0, <2>1 DEF Manifest
  <2>3. /\ aud'.next = aud.next /\ aud'.gen = aud.gen /\ aud'.clean = aud.clean
        /\ aud'.ready = aud.ready /\ aud'.stat = aud.stat /\ aud'.rows = aud.rows
        /\ aud'.pc = "classify" /\ aud.rows = IdleAudit.rows
    BY <1>0, <2>1 DEF AuditState, AuditInv
  <2>4. Rows(man'.rows) /\ \A p \in StagePaths : man'.rows[p].gen <= man.gen
    BY <1>0, <2>2 DEF RowIsTrue, NoRow, AuditInv, Manifest
  <2>5. \A p \in StagePaths : Seen(p) /\ aud.clean => Seen(p)'
    BY <1>0, <2>2, <2>3 DEF Seen, SeenRow, IdleAudit, NoRow
  <2> HIDE DEF rows
  <2> QED BY <1>0, <1>1, <2>1, <2>2, <2>3, <2>4, <2>5 DEF AuditInv, RowIsTrue
<1> QED BY <1>3, <1>4, <1>5, <1>6, <1>8, <1>9, <1>10, <1>11 DEF AuditNext

-----------------------------------------------------------------------------
(* The import: what a step leaves alone.                                   *)

\* A step that leaves the files of generation g alone: their rows go, or stay.
GenQuiet(g) ==
    /\ g <= man'.gen /\ (aud'.pc # "idle" => g < man'.gen)
    /\ \A p \in StagePaths : man'.rows[p].gen = g /\ man'.rows[p].state = "stable"
                               => man'.rows[p] = man.rows[p]
    /\ man'.gen = g => man.gen = g /\ man'.rows = man.rows

\* A step that leaves a job alone, but for its temporary tree.
JobKept(j) ==
    /\ man'.sel[j] = man.sel[j] /\ job'[j] = job[j]
    /\ reviewed'[j] = reviewed[j] /\ held'[j] = held[j]
    /\ recs \subseteq recs' /\ \A r \in recs' : r[1] = j => r \in recs

SameJob(j) == JobKept(j) /\ temp'[j] = temp[j]

\* An audit writes rows of a generation no job and no process knows.
LEMMA AuditIsQuiet ==
    ASSUME StageTypeOK, AuditInv, AuditNext, NEW g \in Nat,
           g <= man.gen, aud.pc # "idle" => g < man.gen
    PROVE  GenQuiet(g)
<1>0. man \in Manifest /\ aud \in AuditState /\ audits \in Nat /\ man.gen \in Nat /\ man.gen = audits
  BY DEF StageTypeOK, HistTypeOK, Manifest, AuditInv
<1>1. CASE AuditBegin
  <2>1. man'.gen = audits + 1 /\ man'.rows = man.rows
    BY <1>0, <1>1 DEF AuditBegin, Manifest
  <2>2. g < man'.gen /\ g <= man'.gen /\ man'.gen # g
    BY <1>0, <2>1
  <2> QED BY <2>1, <2>2 DEF GenQuiet
<1>2. CASE AuditCommit
  <2> DEFINE rows == [p \in StagePaths |-> IF p \in Pending THEN aud.rows[p] ELSE man.rows[p]]
  <2>1. man' = [man EXCEPT !.rows = rows] /\ aud.pc = "walk"
    BY <1>2 DEF AuditCommit
  <2>2. man'.gen = man.gen /\ man'.rows = rows
    BY <1>0, <2>1 DEF Manifest
  <2>3. g < man.gen /\ g # man.gen
    BY <1>0, <2>1
  <2>4. \A p \in Pending : aud.rows[p].gen # g
    BY <1>0, <2>1, <2>3 DEF Pending, AuditInv
  <2>5. \A p \in StagePaths : rows[p].gen = g => rows[p] = man.rows[p]
    BY <2>4
  <2> HIDE DEF rows
  <2> QED BY <1>0, <2>2, <2>3, <2>5 DEF GenQuiet
<1>3. CASE AuditPrune
  <2> DEFINE rows == [p \in StagePaths |-> IF man.rows[p].gen = aud.gen THEN man.rows[p] ELSE NoRow]
  <2>1. (man' = [man EXCEPT !.rows = rows] \/ man' = man) /\ aud.pc = "prune"
    BY <1>3 DEF AuditPrune
  <2>2. man'.gen = man.gen /\ (man'.rows = rows \/ man'.rows = man.rows)
    BY <1>0, <2>1 DEF Manifest
  <2>3. g < man.gen /\ g # man.gen
    BY <1>0, <2>1
  <2>5. \A p \in StagePaths : rows[p].state = "stable" => rows[p] = man.rows[p]
    BY DEF NoRow
  <2> HIDE DEF rows
  <2> QED BY <1>0, <2>2, <2>3, <2>5 DEF GenQuiet
<1>4. CASE AuditBatch \/ AuditFingerprint \/ AuditVanished \/ AuditHash \/ AuditReport \/ AuditKilled
  <2>1. man'.gen = man.gen /\ man'.rows = man.rows
    BY <1>0, <1>4 DEF AuditBatch, AuditFingerprint, AuditVanished, AuditHash, AuditReport,
                      AuditKilled, Manifest
  <2>2. aud'.pc # "idle" => aud.pc # "idle"
    BY <1>4 DEF AuditBatch, AuditFingerprint, AuditVanished, AuditHash, AuditReport,
                AuditKilled, Walking, Audit, IdleAudit
  <2> QED BY <1>0, <2>1, <2>2 DEF GenQuiet
<1> QED BY <1>1, <1>2, <1>3, <1>4 DEF AuditNext

LEMMA StillIsQuiet ==
    ASSUME StageTypeOK, NEW g, g <= man.gen, aud.pc # "idle" => g < man.gen,
           aud' = aud, man'.gen = man.gen, man'.rows = man.rows
    PROVE  GenQuiet(g)
BY DEF GenQuiet

LEMMA JobFrame ==
    ASSUME StageTypeOK, NEW j \in Jobs, JobGood(j), JobKept(j), temp'[j] \in {temp[j], None},
           man.sel[j] # None => GenQuiet(man.sel[j].gen)
    PROVE  JobGood(j)'
<1>1. CASE man.sel[j] = None
  BY <1>1 DEF JobGood, JobKept
<1>2. CASE man.sel[j] # None
  <2>1. man.sel[j].paths \subseteq StagePaths
    BY <1>2 DEF StageTypeOK, Manifest, Selection
  <2>2. \A p \in Current(j)' : p \in Current(j) /\ man'.rows[p] = man.rows[p]
    BY <1>2, <2>1 DEF Current, JobKept, GenQuiet
  <2>3. \A p \in Current(j)' : man'.rows[p].hash = reviewed'[j][p]
    BY <1>2, <2>2 DEF JobGood, JobKept
  <2>4. man'.sel[j].gen = man'.gen => Current(j)' = man'.sel[j].paths
    BY <1>2 DEF JobGood, JobKept, GenQuiet, Current
  <2>5. man'.sel[j].gen <= man'.gen /\ (aud'.pc # "idle" => man'.sel[j].gen < man'.gen)
    BY <1>2 DEF JobKept, GenQuiet
  <2>6. temp'[j] # None => job'[j] = "running" /\ \A p \in StagePaths : temp'[j][p] \in {None, reviewed'[j][p]}
    BY DEF JobGood, JobKept
  <2>7. \A r \in recs' : r[1] = j => /\ man'.sel[j] # None
                                     /\ held'[j][r[2]] = r[3] /\ reviewed'[j][r[2]] = r[3]
    BY DEF JobGood, JobKept
  <2>8. job'[j] = "complete" /\ man'.sel[j].gen = man'.gen =>
           \A p \in man'.sel[j].paths : <<j, p, reviewed'[j][p]>> \in recs'
    BY <1>2 DEF JobGood, JobKept, GenQuiet
  <2>9. man'.sel[j] # None
    BY <1>2 DEF JobKept
  <2> QED BY <2>3, <2>4, <2>5, <2>6, <2>7, <2>8, <2>9 DEF JobGood
<1> QED BY <1>1, <1>2

RunnerGood(x) == PlaceGood(x) /\ CopyGood(x) /\ RecordGood(x)

LEMMA RunnerFrame ==
    ASSUME StageTypeOK, NEW x \in Runners, RunnerGood(x), proc'[x] = proc[x],
           proc[x].pc # "idle" => SameJob(proc[x].job) /\ GenQuiet(proc[x].gen)
    PROVE  RunnerGood(x)'
<1>1. CASE proc[x].pc = "idle"
  BY <1>1 DEF RunnerGood, PlaceGood, CopyGood, RecordGood, Copying, Recording
<1>2. CASE proc[x].pc # "idle"
  <2> DEFINE p == proc[x]
             j == proc[x].job
  <2>0. j \in Jobs /\ SameJob(j) /\ GenQuiet(p.gen) /\ p \in RunnerState
    BY <1>2 DEF RunnerGood, PlaceGood, StageTypeOK
  <2>1. PlaceGood(x)'
    BY <1>2, <2>0 DEF RunnerGood, PlaceGood, SameJob, JobKept, GenQuiet, Copying, Recording
  <2>2. p.pc \notin {"idle", "select"} =>
          /\ man.sel[j] # None /\ man.sel[j].gen = p.gen /\ man.sel[j].paths \subseteq StagePaths
          /\ \A q \in Current(j)' : q \in Current(j)
    BY <1>2, <2>0 DEF RunnerGood, PlaceGood, SameJob, JobKept, GenQuiet, Current, StageTypeOK,
                      Manifest, Selection
  <2>3. CopyGood(x)'
    BY <1>2, <2>0, <2>2 DEF RunnerGood, CopyGood, SameJob, JobKept, PagePaths
  <2>4. RecordGood(x)'
    BY <1>2, <2>0, <2>2 DEF RunnerGood, RecordGood, SameJob, JobKept, PagePaths, Recording, GenQuiet
  <2> QED BY <2>1, <2>3, <2>4 DEF RunnerGood
<1> QED BY <1>1, <1>2

LEMMA IdleIsGood ==
    ASSUME NEW x, proc'[x] = IdleProc
    PROVE  RunnerGood(x)'
BY DEF RunnerGood, PlaceGood, CopyGood, RecordGood, Copying, Recording, IdleProc

\* A step of x on its job j.
LEMMA ImportFrame ==
    ASSUME StageTypeOK, ImportInv, NEW x \in Runners, NEW j \in Jobs, NEW r, Set(x, r),
           r = IdleProc \/ r.job = j,
           proc[x].job = j \/ \A y \in Runners : proc[y].job # j,
           aud' = aud, man'.gen = man.gen, man'.rows = man.rows,
           \A i \in Jobs \ {j} : SameJob(i),
           JobGood(j)', RunnerGood(x)'
    PROVE  ImportInv'
<1>1. proc'[x] = r /\ \A y \in Runners : y # x => proc'[y] = proc[y]
  BY DEF Set, StageTypeOK
<1>2. \A y \in Runners : y # x => proc[y].job # j
  BY StageConstants DEF ImportInv, OneRunnerPerJob
<1>3. OneRunnerPerJob'
  BY <1>1, <1>2 DEF ImportInv, OneRunnerPerJob, IdleProc
<1>4. ASSUME NEW i \in Jobs PROVE JobGood(i)'
  <2>1. CASE i # j
    <3>1. man.sel[i] # None => GenQuiet(man.sel[i].gen)
      BY StillIsQuiet DEF ImportInv, JobGood
    <3> QED BY <2>1, <3>1, JobFrame DEF ImportInv, SameJob
  <2> QED BY <2>1
<1>5. ASSUME NEW y \in Runners PROVE RunnerGood(y)'
  <2>1. CASE y # x
    <3>1. RunnerGood(y) /\ (proc[y].pc # "idle" => proc[y].job \in Jobs \ {j})
      BY <1>2, <2>1 DEF ImportInv, RunnerGood, PlaceGood
    <3>2. proc[y].pc # "idle" => GenQuiet(proc[y].gen)
      BY <3>1, StillIsQuiet DEF RunnerGood, PlaceGood
    <3> QED BY <1>1, <2>1, <3>1, <3>2, RunnerFrame
  <2> QED BY <2>1
<1> QED BY <1>3, <1>4, <1>5 DEF ImportInv, RunnerGood

LEMMA ImportInvInit == StageInit => ImportInv
<1> SUFFICES ASSUME StageInit PROVE ImportInv
  OBVIOUS
<1>1. \A x \in Runners : proc[x] = IdleProc
  BY DEF StageInit
<1>2. OneRunnerPerJob
  BY <1>1 DEF OneRunnerPerJob, IdleProc
<1>3. \A j \in Jobs : JobGood(j)
  BY DEF StageInit, JobGood
<1>4. \A x \in Runners : PlaceGood(x) /\ CopyGood(x) /\ RecordGood(x)
  <2>1. \A x \in Runners : proc[x].pc = "idle"
    BY <1>1 DEF IdleProc
  <2> QED BY <1>1, <2>1 DEF PlaceGood, CopyGood, RecordGood, Copying, Recording
<1> QED BY <1>2, <1>3, <1>4 DEF ImportInv

\* Steps of the audit and of the owner.
LEMMA OthersKeepImport ==
    ASSUME StageTypeOK, AuditInv, ImportInv, UNCHANGED <<proc, temp, job, recs, reviewed, held>>,
           man'.sel = man.sel,
           \A g \in Nat : g <= man.gen /\ (aud.pc # "idle" => g < man.gen) => GenQuiet(g)
    PROVE  ImportInv'
<1>1. OneRunnerPerJob'
  BY DEF ImportInv, OneRunnerPerJob
<1>2. \A j \in Jobs : SameJob(j)
  BY DEF SameJob, JobKept
<1>3. ASSUME NEW j \in Jobs PROVE JobGood(j)'
  <2>1. man.sel[j] # None => man.sel[j].gen \in Nat
    BY DEF StageTypeOK, Manifest, Selection
  <2>2. JobGood(j)
    BY DEF ImportInv
  <2>3. man.sel[j] # None => GenQuiet(man.sel[j].gen)
    BY <2>1, <2>2 DEF JobGood
  <2> QED BY <1>2, <2>2, <2>3, JobFrame DEF SameJob
<1>4. ASSUME NEW x \in Runners PROVE RunnerGood(x)'
  <2>1. RunnerGood(x) /\ proc[x].gen \in Nat
    BY DEF ImportInv, RunnerGood, StageTypeOK, RunnerState
  <2>2. proc[x].pc # "idle" => SameJob(proc[x].job) /\ GenQuiet(proc[x].gen)
    BY <1>2, <2>1 DEF RunnerGood, PlaceGood
  <2> QED BY <2>1, <2>2, RunnerFrame
<1> QED BY <1>1, <1>3, <1>4 DEF ImportInv, RunnerGood

LEMMA AuditKeepsImport ==
    ASSUME StageTypeOK, AuditInv, ImportInv, AuditNext
    PROVE  ImportInv'
<1>1. UNCHANGED <<proc, temp, job, recs, reviewed, held>>
  BY DEF AuditNext, AuditBegin, AuditBatch, AuditFingerprint, AuditVanished, AuditHash,
         AuditCommit, AuditPrune, AuditReport, AuditKilled, stageDisk, catalog, hist
<1>2. man'.sel = man.sel
  BY DEF AuditNext, AuditBegin, AuditBatch, AuditFingerprint, AuditVanished, AuditHash,
         AuditCommit, AuditPrune, AuditReport, AuditKilled, StageTypeOK, Manifest
<1> QED BY <1>1, <1>2, AuditIsQuiet, OthersKeepImport

LEMMA OwnerKeepsImport ==
    ASSUME StageTypeOK, AuditInv, ImportInv, NEW q \in StagePaths,
           EditSource(q) \/ Scan(q) \/ EditPublished
    PROVE  ImportInv'
<1>1. UNCHANGED <<proc, temp, job, recs, reviewed, held, man, aud>>
  BY DEF EditSource, Scan, EditPublished, stageDisk, catalog, hist
<1> QED BY <1>1, StillIsQuiet, OthersKeepImport

LEMMA OwnerKeepsAudit ==
    ASSUME StageTypeOK, AuditInv, NEW q \in StagePaths, EditSource(q) \/ Scan(q) \/ EditPublished
    PROVE  AuditInv'
<1>1. CASE Scan(q)
  BY <1>1, AuditFrame DEF Scan, stageDisk, hist, stageBounds
<1>2. CASE EditPublished
  <2>1. UNCHANGED <<aud, man, src, touched, audits>> /\ edits' = edits + 1 /\ edits \in Nat
    BY <1>2 DEF EditPublished, hist, StageTypeOK, HistTypeOK
  <2>2. \A n \in Nat : n <= edits => n <= edits'
    BY <2>1
  <2>3. \A p \in StagePaths : man.rows[p].stat \in Nat /\ aud.rows[p].stat \in Nat
                              /\ (src[p] # None => src[p].stat \in Nat)
    BY DEF StageTypeOK, Manifest, AuditState, StageRows, StageRow, DiskTypeOK, SourceFile
  <2>4. aud.stat \in Nat
    BY DEF StageTypeOK, AuditState
  <2> QED BY <2>1, <2>2, <2>3, <2>4 DEF AuditInv, RowIsTrue, Seen, SeenRow
<1> QED BY <1>1, <1>2, EditKeepsAudit

-----------------------------------------------------------------------------
(* The steps of an import.                                                 *)

LEMMA PrepareKeeps ==
    ASSUME StageTypeOK, StageTypeOK', AuditInv, ImportInv, NEW x \in Runners, NEW j \in Jobs, Prepare(x, j)
    PROVE  ImportInv'
<1>1. PICK limit \in MaxItems :
         Set(x, [IdleProc EXCEPT !.pc = "select", !.job = j, !.resuming = job[j] # "none",
                                 !.gen = man.gen, !.limit = limit])
  BY DEF Prepare
<1> DEFINE r == [IdleProc EXCEPT !.pc = "select", !.job = j, !.resuming = job[j] # "none",
                                 !.gen = man.gen, !.limit = limit]
<1>2. /\ proc'[x] = r /\ r.pc = "select" /\ r.job = j /\ r.gen = man.gen /\ r.cursor = 0
  BY <1>1 DEF Set, StageTypeOK, IdleProc
<1>3. UNCHANGED <<man, aud, temp, job, recs, reviewed, held>> /\ job[j] \in {"none", "running"}
      /\ man.status \in {"complete", "partial"} /\ \A y \in Runners : proc[y].job # j
  BY DEF Prepare, stageDisk, catalog, hist
<1>4. aud.pc = "idle"
  BY <1>3 DEF AuditInv
<1> HIDE DEF r
<1>5. \A i \in Jobs : SameJob(i)
  BY <1>3 DEF SameJob, JobKept
<1>6. JobGood(j)'
  BY <1>3 DEF ImportInv, JobGood, Current
<1>7. RunnerGood(x)'
  <2>1. man.gen <= man.gen
    BY DEF StageTypeOK, Manifest
  <2>2. PlaceGood(x)'
    BY <1>2, <1>3, <1>4, <2>1 DEF PlaceGood, Copying, Recording
  <2> QED BY <1>2, <2>2 DEF RunnerGood, CopyGood, RecordGood, Recording
<1>8. Set(x, r)
  BY <1>1 DEF r
<1> QED BY <1>2, <1>3, <1>5, <1>6, <1>7, <1>8, ImportFrame

LEMMA SelectKeeps ==
    ASSUME StageTypeOK, StageTypeOK', AuditInv, ImportInv, NEW x \in Runners, Select(x),
           NEW p, p = proc[x], NEW j, j = p.job
    PROVE  ImportInv'
<1> DEFINE fresh == [gen |-> p.gen, paths |-> NotCataloged(p.gen)]
           e == Cardinality(Selected(man', j))
           r == IF man'.sel[j].gen = p.gen THEN [p EXCEPT !.pc = "start", !.eligible = e] ELSE IdleProc
<1>1. /\ p.pc = "select" /\ j \in Jobs /\ p \in RunnerState /\ p.gen <= man.gen
      /\ (aud.pc # "idle" => p.gen < man.gen) /\ p.cursor = 0 /\ job[j] # "complete" /\ JobGood(j)
  BY DEF Select, ImportInv, PlaceGood, StageTypeOK
<1>2. /\ Set(x, r) /\ UNCHANGED <<temp, job, recs, aud, held>>
      /\ IF man.sel[j] = None THEN man' = [man EXCEPT !.sel[j] = fresh] ELSE man' = man
      /\ reviewed' = IF man.sel[j] # None THEN reviewed
                     ELSE [reviewed EXCEPT ![j] =
                             [q \in StagePaths |-> IF q \in fresh.paths THEN man.rows[q].hash ELSE None]]
  BY DEF Select, stageDisk, catalog
<1>3. man'.gen = man.gen /\ man'.rows = man.rows
      /\ (man.sel[j] # None => man'.sel[j] = man.sel[j])
      /\ (man.sel[j] = None => man'.sel[j] = fresh)
      /\ \A i \in Jobs \ {j} : man'.sel[i] = man.sel[i]
  BY <1>1, <1>2 DEF StageTypeOK, Manifest
<1>4. \A i \in Jobs \ {j} : SameJob(i)
  BY <1>2, <1>3 DEF SameJob, JobKept, StageTypeOK, HistTypeOK
<1>5. JobGood(j)'
  <2>1. CASE man.sel[j] # None
    <3>1. JobKept(j) /\ temp'[j] \in {temp[j], None} /\ GenQuiet(man.sel[j].gen)
      BY <1>1, <1>2, <1>3, <2>1, StillIsQuiet DEF JobKept, JobGood
    <3> QED BY <1>1, <3>1, JobFrame
  <2>2. CASE man.sel[j] = None
    <3>1. /\ job'[j] = "none" /\ temp'[j] = None /\ \A t \in recs' : t[1] # j
      BY <1>1, <1>2, <2>2 DEF JobGood
    <3>2. fresh # None /\ man'.sel[j] = fresh /\ fresh.gen = p.gen /\ fresh.paths = NotCataloged(p.gen)
      BY <1>1, <1>3, <2>2, StageConstants DEF Selection, NotCataloged, Stable, RunnerState
    <3>3. Current(j)' = fresh.paths
      BY <1>3, <3>2 DEF Current, NotCataloged, Stable
    <3>4. \A q \in fresh.paths : reviewed'[j][q] = man.rows[q].hash
      BY <1>1, <1>2, <2>2, <3>2 DEF StageTypeOK, HistTypeOK, NotCataloged, Stable
    <3> HIDE DEF fresh
    <3> QED BY <1>1, <1>2, <1>3, <3>1, <3>2, <3>3, <3>4 DEF JobGood
  <2> QED BY <2>1, <2>2
<1>6. RunnerGood(x)'
  <2>1. proc'[x] = r
    BY <1>2 DEF Set, StageTypeOK
  <2>2. CASE man'.sel[j].gen = p.gen
    <3>1. /\ proc'[x].pc = "start" /\ proc'[x].job = j /\ proc'[x].gen = p.gen
          /\ proc'[x].cursor = 0
      BY <1>1, <2>1, <2>2 DEF RunnerState
    <3>2. man'.sel[j] # None
      BY <1>1, <1>3, StageConstants DEF Selection, NotCataloged, Stable, RunnerState
    <3>3. PlaceGood(x)'
      BY <1>1, <1>2, <1>3, <2>2, <3>1, <3>2 DEF PlaceGood, Copying, Recording
    <3> QED BY <3>1, <3>3 DEF RunnerGood, CopyGood, RecordGood, Recording
  <2>3. CASE man'.sel[j].gen # p.gen
    BY <2>1, <2>3, IdleIsGood
  <2> QED BY <2>2, <2>3
<1>7. r = IdleProc \/ r.job = j
  BY <1>1 DEF RunnerState
<1> HIDE DEF r
<1> QED BY <1>1, <1>2, <1>3, <1>4, <1>5, <1>6, <1>7, ImportFrame

\* A step that changes nothing of its job but its place and its temporary tree.
LEMMA QuietImport ==
    ASSUME StageTypeOK, ImportInv, NEW x \in Runners, NEW j \in Jobs, j = proc[x].job,
           NEW r, Set(x, r), r = IdleProc \/ r.job = j,
           UNCHANGED <<man, aud, job, recs, reviewed, held>>,
           temp'[j] \in {temp[j], None}, \A i \in Jobs \ {j} : temp'[i] = temp[i],
           RunnerGood(x)'
    PROVE  ImportInv'
<1>1. \A i \in Jobs : JobKept(i)
  BY DEF JobKept
<1>2. JobGood(j)
  BY DEF ImportInv
<1>3. JobGood(j)'
  <2>1. man.sel[j] # None => GenQuiet(man.sel[j].gen)
    BY <1>2, StillIsQuiet DEF JobGood
  <2> QED BY <1>1, <1>2, <2>1, JobFrame
<1>4. \A i \in Jobs \ {j} : SameJob(i)
  BY <1>1 DEF SameJob
<1> QED BY <1>3, <1>4, ImportFrame

LEMMA ExitKeeps ==
    ASSUME StageTypeOK, ImportInv, NEW x \in Runners, NEW j \in Jobs, j = proc[x].job,
           NEW q, q.job = j, Exit(x, q), UNCHANGED <<man, aud, job, recs, reviewed, held>>
    PROVE  ImportInv'
<1>1. temp' = temp \/ temp' = [temp EXCEPT ![j] = None]
  BY DEF Exit, TreeDropped
<1>2. temp'[j] \in {temp[j], None} /\ \A i \in Jobs \ {j} : temp'[i] = temp[i]
  BY <1>1 DEF StageTypeOK, DiskTypeOK
<1>3. Set(x, IdleProc) /\ proc'[x] = IdleProc
  BY DEF Exit, Set, StageTypeOK
<1> QED BY <1>2, <1>3, IdleIsGood, QuietImport

\* What a process at work may rely on.
LEMMA AtWork ==
    ASSUME StageTypeOK, ImportInv, NEW x \in Runners, NEW p, p = proc[x], NEW j, j = p.job,
           p.pc # "idle"
    PROVE  /\ j \in Jobs /\ p \in RunnerState /\ JobGood(j) /\ RunnerGood(x)
           /\ p.gen <= man.gen /\ (aud.pc # "idle" => p.gen < man.gen)
           /\ p.pc # "select" => /\ man.sel[j] # None /\ man.sel[j].gen = p.gen
                                 /\ man.sel[j].paths \subseteq StagePaths
<1>1. j \in Jobs /\ p \in RunnerState /\ JobGood(j) /\ RunnerGood(x)
      /\ p.gen <= man.gen /\ (aud.pc # "idle" => p.gen < man.gen)
      /\ (p.pc # "select" => man.sel[j] # None /\ man.sel[j].gen = p.gen)
  BY DEF ImportInv, RunnerGood, PlaceGood, StageTypeOK
<1> QED BY <1>1 DEF StageTypeOK, Manifest, Selection

LEMMA StartJobKeeps ==
    ASSUME StageTypeOK, AuditInv, ImportInv, NEW x \in Runners, StartJob(x),
           NEW p, p = proc[x], NEW j, j = p.job
    PROVE  ImportInv'
<1> DEFINE r == [p EXCEPT !.pc = "open"]
<1>1. p.pc = "start" /\ Set(x, r) /\ job' = [job EXCEPT ![j] = "running"]
      /\ UNCHANGED <<man, aud, temp, recs, reviewed, held>>
  BY DEF StartJob, stageDisk, hist
<1>2. /\ j \in Jobs /\ p \in RunnerState /\ JobGood(j) /\ RunnerGood(x)
      /\ p.gen <= man.gen /\ (aud.pc # "idle" => p.gen < man.gen)
      /\ man.sel[j] # None /\ man.sel[j].gen = p.gen /\ job[j] # "complete"
  BY <1>1, AtWork DEF RunnerGood, PlaceGood
<1>3. job'[j] = "running" /\ \A i \in Jobs \ {j} : job'[i] = job[i]
  BY <1>1, <1>2 DEF StageTypeOK, CatalogTypeOK
<1>4. \A i \in Jobs \ {j} : SameJob(i)
  BY <1>1, <1>3 DEF SameJob, JobKept
<1>5. JobGood(j)'
  BY <1>1, <1>2, <1>3 DEF JobGood, Current
<1>6. proc'[x].pc = "open" /\ proc'[x].job = j /\ proc'[x].gen = p.gen /\ proc'[x].cursor = p.cursor
  BY <1>1, <1>2 DEF Set, StageTypeOK, RunnerState
<1>7. RunnerGood(x)'
  <2>1. p.cursor = 0
    BY <1>1, <1>2 DEF RunnerGood, PlaceGood
  <2>2. PlaceGood(x)'
    BY <1>1, <1>2, <1>3, <1>6, <2>1 DEF PlaceGood, Copying, Recording
  <2> QED BY <1>6, <2>2 DEF RunnerGood, CopyGood, RecordGood, Recording
<1>8. r.job = j
  BY <1>2 DEF RunnerState
<1> HIDE DEF r
<1> QED BY <1>1, <1>2, <1>4, <1>5, <1>7, <1>8, ImportFrame

LEMMA OpenTreeKeeps ==
    ASSUME StageTypeOK, AuditInv, ImportInv, NEW x \in Runners, OpenTree(x),
           NEW p, p = proc[x], NEW j, j = p.job
    PROVE  ImportInv'
<1>1. p.pc = "open" /\ UNCHANGED <<man, aud, job, recs, reviewed, held>>
  BY DEF OpenTree, catalog, hist
<1>2. /\ j \in Jobs /\ p \in RunnerState /\ JobGood(j) /\ RunnerGood(x)
      /\ p.gen <= man.gen /\ (aud.pc # "idle" => p.gen < man.gen)
      /\ man.sel[j] # None /\ man.sel[j].gen = p.gen /\ job[j] = "running" /\ p.cursor = 0
  BY <1>1, AtWork DEF RunnerGood, PlaceGood
<1>3. CASE ~MayOpen(p)
  <2>1. Set(x, IdleProc) /\ UNCHANGED temp
    BY <1>3 DEF OpenTree
  <2>2. proc'[x] = IdleProc
    BY <2>1 DEF Set, StageTypeOK
  <2> QED BY <1>1, <1>2, <2>1, <2>2, IdleIsGood, QuietImport
<1>4. CASE MayOpen(p)
  <2> DEFINE r == [p EXCEPT !.pc = "page", !.published = pub # None, !.keep = temp[j] # None]
  <2>1. Set(x, r) /\ temp' = [temp EXCEPT ![j] = IF temp[j] = None /\ pub = None THEN NoTree ELSE temp[j]]
    BY <1>4 DEF OpenTree
  <2>2. /\ proc'[x].pc = "page" /\ proc'[x].job = j /\ proc'[x].gen = p.gen
        /\ proc'[x].cursor = 0 /\ proc'[x].published = (pub # None) /\ r.job = j
    BY <1>2, <2>1 DEF Set, StageTypeOK, RunnerState
  <2>3. /\ temp'[j] = IF temp[j] = None /\ pub = None THEN NoTree ELSE temp[j]
        /\ \A i \in Jobs \ {j} : temp'[i] = temp[i]
    BY <1>2, <2>1 DEF StageTypeOK, DiskTypeOK
  <2>4. (pub # None) <=> temp'[j] = None
    BY <1>2, <1>4, <2>3, StageConstants DEF MayOpen
  <2>5. \A i \in Jobs \ {j} : SameJob(i)
    BY <1>1, <2>3 DEF SameJob, JobKept
  <2>6. JobGood(j)'
    <3>1. temp'[j] # None => \A q \in StagePaths : temp'[j][q] \in {None, reviewed[j][q]}
      BY <1>2, <2>3 DEF JobGood, NoTree
    <3> QED BY <1>1, <1>2, <3>1 DEF JobGood, Current
  <2>7. RunnerGood(x)'
    <3>1. PlaceGood(x)'
      BY <1>1, <1>2, <2>2, <2>4 DEF PlaceGood, Copying, Recording
    <3>2. \A q \in StagePaths : ~(q <= 0)
      BY DEF StagePaths
    <3>3. Current(j)' \subseteq StagePaths
      BY <1>1, <1>2 DEF Current, StageTypeOK, Manifest, Selection
    <3>4. CopyGood(x)'
      BY <2>2, <3>2, <3>3 DEF CopyGood
    <3> QED BY <2>2, <3>1, <3>4 DEF RunnerGood, RecordGood, Recording
  <2> HIDE DEF r
  <2> QED BY <1>1, <1>2, <2>1, <2>2, <2>5, <2>6, <2>7, ImportFrame
<1> QED BY <1>3, <1>4

\* The pages of an import leave out no file that still has the row it selected.
LEMMA ReadPageKeeps ==
    ASSUME StageTypeOK, AuditInv, ImportInv, NEW x \in Runners, ReadPage(x),
           NEW p, p = proc[x], NEW j, j = p.job
    PROVE  ImportInv'
<1> DEFINE page == {[path |-> q, hash |-> man.rows[q].hash] : q \in NextPage(p)}
           c == NextCursor(p)
           pc == IF p.pc = "page" THEN "copy" ELSE "record"
           r == [p EXCEPT !.pc = pc, !.page = page, !.cursor = c]
<1>1. /\ p.pc \in {"page", "records"} /\ Set(x, r)
      /\ UNCHANGED <<man, aud, temp, job, recs, reviewed, held>>
  BY DEF ReadPage, stageDisk, catalog, hist
<1>2. /\ j \in Jobs /\ p \in RunnerState /\ JobGood(j) /\ RunnerGood(x)
      /\ p.gen <= man.gen /\ (aud.pc # "idle" => p.gen < man.gen)
      /\ man.sel[j] # None /\ man.sel[j].gen = p.gen /\ man.sel[j].paths \subseteq StagePaths
  BY <1>1, AtWork
<1>3. ImportCandidates(p) = {q \in Current(j) : q > p.cursor}
  BY <1>2 DEF ImportCandidates, Stable, Current
<1>4. /\ NextPage(p) \subseteq Current(j)
      /\ \A q \in Current(j) : q > p.cursor /\ q <= c => q \in NextPage(p)
  BY <1>3, PageIsFirst
<1>5. /\ proc'[x].pc = pc /\ proc'[x].job = j /\ proc'[x].gen = p.gen
      /\ proc'[x].page = page /\ proc'[x].cursor = c /\ r.job = j
      /\ proc'[x].published = p.published
  BY <1>1, <1>2 DEF Set, StageTypeOK, RunnerState
<1>6. PagePaths(x)' = NextPage(p)
  <2>1. PagePaths(x)' = {d.path : d \in page}
    BY <1>5 DEF PagePaths
  <2>2. \A d \in page : d.path \in NextPage(p)
    OBVIOUS
  <2>3. ASSUME NEW q \in NextPage(p) PROVE \E d \in page : d.path = q
    <3>1. [path |-> q, hash |-> man.rows[q].hash] \in page
      OBVIOUS
    <3> QED BY <3>1
  <2> HIDE DEF page
  <2> QED BY <2>1, <2>2, <2>3
<1>7. \A d \in page : d.path \in NextPage(p) /\ d.hash = man.rows[d.path].hash
  OBVIOUS
<1>8. \A d \in page : d.path \in man.sel[j].paths /\ d.hash = reviewed[j][d.path]
  BY <1>2, <1>4, <1>7 DEF JobGood, Current
<1>9. \A q \in Current(j) : q <= c => q <= p.cursor \/ q \in NextPage(p)
  <2>1. p.cursor \in Int /\ Current(j) \subseteq StagePaths /\ StagePaths \subseteq Int
    BY <1>2 DEF RunnerState, Current, StagePaths
  <2> QED BY <1>4, <2>1
<1> HIDE DEF page, c, r
<1>10. PlaceGood(x)'
  <2>1. PlaceGood(x)
    BY <1>2 DEF RunnerGood
  <2> QED BY <1>1, <1>2, <1>5, <2>1 DEF PlaceGood, Copying, Recording
<1>11. Current(j)' = Current(j)
  BY <1>1 DEF Current
<1>12. CopyGood(x)'
  <2>1. CASE p.pc = "page"
    <3>1. \A q \in Current(j) : q <= p.cursor => held[j][q] = reviewed[j][q]
      BY <1>2, <2>1 DEF RunnerGood, CopyGood
    <3>2. \A q \in Current(j) : q <= c => held[j][q] = reviewed[j][q] \/ q \in NextPage(p)
      BY <1>9, <3>1
    <3>3. proc'[x].pc = "copy"
      BY <1>5, <2>1
    <3> QED BY <1>1, <1>5, <1>6, <1>8, <1>11, <3>2, <3>3 DEF CopyGood
  <2>2. CASE p.pc = "records"
    <3>1. \A q \in Current(j) : held[j][q] = reviewed[j][q]
      BY <1>2, <2>2 DEF RunnerGood, CopyGood
    <3>2. proc'[x].pc = "record"
      BY <1>5, <2>2
    <3> QED BY <1>1, <1>4, <1>5, <1>6, <1>8, <1>11, <3>1, <3>2 DEF CopyGood
  <2> QED BY <1>1, <2>1, <2>2
<1>13. RecordGood(x)'
  <2>1. CASE p.pc = "page"
    BY <1>5, <2>1 DEF RecordGood, Recording
  <2>2. CASE p.pc = "records" /\ p.gen = man.gen
    <3>1. Current(j) = man.sel[j].paths
      BY <1>2, <2>2 DEF JobGood
    <3>2. ASSUME NEW q \in man.sel[j].paths
          PROVE  <<j, q, reviewed[j][q]>> \in recs \/ q > c \/ q \in NextPage(p)
      <4>1. <<j, q, reviewed[j][q]>> \in recs \/ q > p.cursor
        BY <1>2, <2>2 DEF RunnerGood, RecordGood, Recording
      <4>2. q \in Int /\ c \in Int /\ p.cursor \in Int
        BY <1>2, PageIsFirst DEF RunnerState, StagePaths, c
      <4>3. q <= c => q <= p.cursor \/ q \in NextPage(p)
        BY <1>9, <3>1
      <4> QED BY <4>1, <4>2, <4>3
    <3>3. proc'[x].pc = "record"
      BY <1>5, <2>2
    <3> QED BY <1>1, <1>5, <1>6, <3>2, <3>3 DEF RecordGood, Recording
  <2>3. CASE p.gen # man.gen
    BY <1>1, <1>5, <2>3 DEF RecordGood
  <2> QED BY <1>1, <2>1, <2>2, <2>3
<1>14. RunnerGood(x)'
  BY <1>10, <1>12, <1>13 DEF RunnerGood
<1> QED BY <1>1, <1>2, <1>5, <1>14, QuietImport

LEMMA CopyFileKeeps ==
    ASSUME StageTypeOK, AuditInv, ImportInv, NEW x \in Runners, CopyFile(x),
           NEW p, p = proc[x], NEW j, j = p.job, NEW c, c = First(p.page)
    PROVE  ImportInv'
<1> DEFINE found == Tree(p)[c.path]
           kept == p.keep \/ found # None
           ok == IF found # None THEN VerifiedExisting(found, c.hash)
                 ELSE ~p.published /\ VerifiedCopy(src[c.path], c.hash)
           r == [p EXCEPT !.page = p.page \ {c}, !.limit = p.limit - 1, !.keep = kept]
<1>1. p.pc = "copy" /\ p.page # {} /\ UNCHANGED <<man, aud, job, recs, reviewed>>
  BY DEF CopyFile, catalog
<1>2. /\ j \in Jobs /\ p \in RunnerState /\ JobGood(j) /\ RunnerGood(x)
      /\ p.gen <= man.gen /\ (aud.pc # "idle" => p.gen < man.gen)
      /\ man.sel[j] # None /\ man.sel[j].gen = p.gen
      /\ (p.published <=> temp[j] = None) /\ job[j] = "running"
  BY <1>1, AtWork DEF RunnerGood, PlaceGood, Copying
<1>3. c \in p.page /\ c \in Candidate /\ c.path \in StagePaths
  BY <1>1, <1>2, FirstOfPage DEF RunnerState, Candidate
<1>4. c.hash = reviewed[j][c.path]
  BY <1>1, <1>2, <1>3 DEF RunnerGood, CopyGood
<1>5. CASE ~ok
  <2>1. Exit(x, [p EXCEPT !.keep = kept]) /\ UNCHANGED held
    BY <1>5 DEF CopyFile, First
  <2>2. [p EXCEPT !.keep = kept].job = j
    BY <1>2 DEF RunnerState
  <2> QED BY <1>1, <1>2, <2>1, <2>2, ExitKeeps
<1>6. CASE ok
  <2> DEFINE bytes == IF found # None THEN found ELSE src[c.path].bytes
  <2>1. /\ Set(x, r)
        /\ temp' = IF found # None THEN temp ELSE [temp EXCEPT ![j][c.path] = src[c.path].bytes]
        /\ held' = [held EXCEPT ![j][c.path] = bytes]
    <3> DEFINE s == [proc[x] EXCEPT !.page = proc[x].page \ {c}, !.limit = proc[x].limit - 1, !.keep = kept]
    <3>1. c = CHOOSE d \in proc[x].page : \A e \in proc[x].page : d.path <= e.path
      BY DEF First
    <3>2. /\ Set(x, s)
          /\ temp' = IF found # None THEN temp ELSE [temp EXCEPT ![j][c.path] = src[c.path].bytes]
          /\ held' = [held EXCEPT ![j][c.path] = bytes]
      BY <1>6, <3>1 DEF CopyFile
    <3> QED BY <3>2
  <2>2. bytes = c.hash
    BY <1>6 DEF VerifiedExisting, VerifiedCopy
  <2>3. found = None => ~p.published /\ temp[j] \in Trees
    BY <1>2, <1>6 DEF StageTypeOK, DiskTypeOK
  <2>4. /\ temp'[j] = temp[j] \/ (found = None /\ temp'[j] = [temp[j] EXCEPT ![c.path] = c.hash])
        /\ \A i \in Jobs \ {j} : temp'[i] = temp[i]
    BY <1>2, <2>1, <2>2 DEF StageTypeOK, DiskTypeOK
  <2>5. /\ held'[j] = [held[j] EXCEPT ![c.path] = c.hash]
        /\ \A i \in Jobs \ {j} : held'[i] = held[i]
    BY <1>2, <2>1, <2>2 DEF StageTypeOK, HistTypeOK
  <2>6. \A q \in StagePaths : held'[j][q] = IF q = c.path THEN reviewed[j][q] ELSE held[j][q]
    BY <1>2, <1>3, <1>4, <2>5 DEF StageTypeOK, HistTypeOK, Trees
  <2>7. temp'[j] = None <=> temp[j] = None
    <3>1. [temp[j] EXCEPT ![c.path] = c.hash] \in Trees \/ temp[j] \notin Trees
      BY <1>3 DEF Trees, Candidate
    <3> QED BY <2>3, <2>4, <3>1, StageConstants
  <2>8. /\ proc'[x].pc = "copy" /\ proc'[x].job = j /\ proc'[x].gen = p.gen
        /\ proc'[x].page = p.page \ {c} /\ proc'[x].cursor = p.cursor
        /\ proc'[x].published = p.published /\ r.job = j
    BY <1>1, <1>2, <2>1 DEF Set, StageTypeOK, RunnerState
  <2>9. \A i \in Jobs \ {j} : SameJob(i)
    BY <1>1, <2>4, <2>5 DEF SameJob, JobKept
  <2>10. JobGood(j)'
    <3>1. temp'[j] # None => \A q \in StagePaths : temp'[j][q] \in {None, reviewed[j][q]}
      BY <1>2, <1>4, <2>3, <2>4, <2>7 DEF JobGood, Trees
    <3>2. \A t \in recs : t[1] = j => held'[j][t[2]] = t[3]
      <4>1. \A t \in recs : t[2] \in StagePaths
        BY DEF StageTypeOK, CatalogTypeOK
      <4> QED BY <1>2, <2>6, <4>1 DEF JobGood
    <3> HIDE DEF found, bytes, ok
    <3> QED BY <1>1, <1>2, <3>1, <3>2 DEF JobGood, Current
  <2>11. PlaceGood(x)'
    BY <1>1, <1>2, <2>7, <2>8 DEF RunnerGood, PlaceGood, Copying, Recording
  <2>12. \A q \in PagePaths(x) : q \in PagePaths(x)' \/ q = c.path
    BY <2>8 DEF PagePaths
  <2>13. CopyGood(x)'
    <3>1. Current(j)' = Current(j) /\ Current(j) \subseteq StagePaths
      BY <1>1, <1>2 DEF Current, StageTypeOK, Manifest, Selection
    <3>2. \A q \in Current(j) : q <= p.cursor => held[j][q] = reviewed[j][q] \/ q \in PagePaths(x)
      BY <1>1, <1>2 DEF RunnerGood, CopyGood
    <3>3. \A q \in Current(j) : q <= p.cursor => held'[j][q] = reviewed[j][q] \/ q \in PagePaths(x)'
      BY <2>6, <2>12, <3>1, <3>2
    <3>4. \A d \in p.page : d.path \in man.sel[j].paths /\ d.hash = reviewed[j][d.path]
      BY <1>1, <1>2 DEF RunnerGood, CopyGood
    <3> QED BY <1>1, <2>8, <3>1, <3>3, <3>4 DEF CopyGood
  <2>14. RunnerGood(x)'
    BY <2>8, <2>11, <2>13 DEF RunnerGood, RecordGood, Recording
  <2> HIDE DEF r
  <2> QED BY <1>1, <1>2, <2>1, <2>8, <2>9, <2>10, <2>14, ImportFrame
<1> QED BY <1>5, <1>6

LEMMA PageDoneKeeps ==
    ASSUME StageTypeOK, AuditInv, ImportInv, NEW x \in Runners, PageDone(x),
           NEW p, p = proc[x], NEW j, j = p.job
    PROVE  ImportInv'
<1> DEFINE pc == IF p.cursor < NPaths THEN "page" ELSE "validate"
           r == [p EXCEPT !.pc = pc]
<1>1. p.pc = "copy" /\ p.page = {} /\ Set(x, r)
      /\ UNCHANGED <<man, aud, temp, job, recs, reviewed, held>>
  BY DEF PageDone, stageDisk, catalog, hist
<1>2. j \in Jobs /\ p \in RunnerState /\ RunnerGood(x) /\ p.cursor \in 0..NPaths
  BY <1>1, AtWork DEF RunnerState
<1>3. /\ proc'[x].pc = pc /\ proc'[x].job = j /\ proc'[x].gen = p.gen
      /\ proc'[x].cursor = p.cursor /\ proc'[x].published = p.published /\ r.job = j
  BY <1>1, <1>2 DEF Set, StageTypeOK, RunnerState
<1>4. pc = "validate" => p.cursor = NPaths
  BY <1>2, StageConstants
<1>5. pc \in {"page", "validate"}
  OBVIOUS
<1> HIDE DEF r, pc
<1>6. PlaceGood(x)'
  BY <1>1, <1>2, <1>3, <1>4, <1>5 DEF RunnerGood, PlaceGood, Copying, Recording
<1>7. CopyGood(x)'
  <2>1. \A q \in Current(j) : q <= p.cursor => held[j][q] = reviewed[j][q]
    BY <1>1, <1>2 DEF RunnerGood, CopyGood, PagePaths
  <2>2. Current(j)' = Current(j)
    BY <1>1 DEF Current
  <2> QED BY <1>1, <1>3, <1>5, <2>1, <2>2 DEF CopyGood
<1>8. RunnerGood(x)'
  BY <1>3, <1>5, <1>6, <1>7 DEF RunnerGood, RecordGood, Recording
<1> QED BY <1>1, <1>2, <1>3, <1>8, QuietImport

LEMMA ValidateKeeps ==
    ASSUME StageTypeOK, AuditInv, ImportInv, NEW x \in Runners, Validate(x),
           NEW p, p = proc[x], NEW j, j = p.job
    PROVE  ImportInv'
<1> DEFINE pc == IF p.published THEN "records" ELSE "publish"
           r == [p EXCEPT !.pc = pc, !.cursor = 0]
<1>1. p.pc = "validate" /\ UNCHANGED <<man, aud, job, recs, reviewed, held>>
      /\ (Exit(x, [p EXCEPT !.keep = TRUE]) \/ (Set(x, r) /\ UNCHANGED temp))
  BY DEF Validate, catalog, hist
<1>2. /\ j \in Jobs /\ p \in RunnerState /\ RunnerGood(x) /\ p.cursor = NPaths
      /\ man.sel[j].paths \subseteq StagePaths
  BY <1>1, AtWork DEF RunnerGood, PlaceGood
<1>3. CASE Exit(x, [p EXCEPT !.keep = TRUE])
  <2>1. [p EXCEPT !.keep = TRUE].job = j
    BY <1>2 DEF RunnerState
  <2> QED BY <1>1, <1>2, <1>3, <2>1, ExitKeeps
<1>4. CASE Set(x, r) /\ UNCHANGED temp
  <2>1. /\ proc'[x].pc = pc /\ proc'[x].job = j /\ proc'[x].gen = p.gen
        /\ proc'[x].cursor = 0 /\ proc'[x].published = p.published /\ r.job = j
    BY <1>2, <1>4 DEF Set, StageTypeOK, RunnerState
  <2>2. p.published <=> temp[j] = None
    BY <1>1, <1>2 DEF RunnerGood, PlaceGood, Copying
  <2>3. PlaceGood(x)'
    BY <1>1, <1>2, <1>4, <2>1, <2>2 DEF RunnerGood, PlaceGood, Copying, Recording
  <2>4. Current(j)' = Current(j) /\ \A q \in Current(j) : q <= NPaths
    BY <1>1, <1>2 DEF Current, StagePaths
  <2>5. CopyGood(x)'
    <3>1. \A q \in Current(j) : held[j][q] = reviewed[j][q]
      BY <1>1, <1>2, <2>4 DEF RunnerGood, CopyGood
    <3> QED BY <1>1, <2>1, <2>4, <3>1 DEF CopyGood
  <2>6. RecordGood(x)'
    <3>1. \A q \in StagePaths : q > 0
      BY DEF StagePaths
    <3> QED BY <1>1, <1>2, <2>1, <3>1 DEF RecordGood, Recording
  <2>7. RunnerGood(x)'
    BY <2>3, <2>5, <2>6 DEF RunnerGood
  <2> HIDE DEF r
  <2> QED BY <1>1, <1>2, <1>4, <2>1, <2>7, QuietImport
<1> QED BY <1>1, <1>3, <1>4

LEMMA PublishKeeps ==
    ASSUME StageTypeOK, AuditInv, ImportInv, NEW x \in Runners, Publish(x),
           NEW p, p = proc[x], NEW j, j = p.job
    PROVE  ImportInv'
<1> DEFINE r == [p EXCEPT !.pc = "records", !.keep = TRUE]
<1>1. p.pc = "publish" /\ UNCHANGED <<man, aud, job, recs, reviewed, held>>
      /\ (Exit(x, p) \/ (temp' = [temp EXCEPT ![j] = None] /\ (Set(x, r) \/ Set(x, IdleProc))))
  BY DEF Publish, Renamed, catalog, hist
<1>2. /\ j \in Jobs /\ p \in RunnerState /\ RunnerGood(x) /\ p.cursor = 0
      /\ man.sel[j].paths \subseteq StagePaths
  BY <1>1, AtWork DEF RunnerGood, PlaceGood
<1>3. CASE Exit(x, p)
  BY <1>1, <1>2, <1>3, ExitKeeps
<1>4. CASE temp' = [temp EXCEPT ![j] = None]
  <2>0. temp'[j] = None /\ \A i \in Jobs \ {j} : temp'[i] = temp[i]
    BY <1>2, <1>4 DEF StageTypeOK, DiskTypeOK
  <2>1. CASE Set(x, IdleProc)
    <3>1. proc'[x] = IdleProc
      BY <2>1 DEF Set, StageTypeOK
    <3> QED BY <1>1, <1>2, <2>0, <2>1, <3>1, IdleIsGood, QuietImport
  <2>2. CASE Set(x, r)
    <3>1. /\ proc'[x].pc = "records" /\ proc'[x].job = j /\ proc'[x].gen = p.gen
          /\ proc'[x].cursor = 0 /\ proc'[x].published = p.published /\ r.job = j
      BY <1>2, <2>2 DEF Set, StageTypeOK, RunnerState
    <3>2. PlaceGood(x)'
      BY <1>1, <1>2, <2>0, <3>1 DEF RunnerGood, PlaceGood, Copying, Recording
    <3>3. Current(j)' = Current(j)
      BY <1>1 DEF Current
    <3>4. CopyGood(x)'
      BY <1>1, <1>2, <3>1, <3>3 DEF RunnerGood, CopyGood
    <3>5. RecordGood(x)'
      <4>1. \A q \in StagePaths : q > 0
        BY DEF StagePaths
      <4> QED BY <1>1, <1>2, <3>1, <4>1 DEF RecordGood, Recording
    <3>6. RunnerGood(x)'
      BY <3>2, <3>4, <3>5 DEF RunnerGood
    <3> HIDE DEF r
    <3> QED BY <1>1, <1>2, <2>0, <2>2, <3>1, <3>6, QuietImport
  <2> QED BY <1>1, <1>3, <2>1, <2>2
<1> QED BY <1>1, <1>3, <1>4

LEMMA RecordKeeps ==
    ASSUME StageTypeOK, AuditInv, ImportInv, NEW x \in Runners, Record(x),
           NEW p, p = proc[x], NEW j, j = p.job
    PROVE  ImportInv'
<1> DEFINE new == p.page \ Refused(p)
           r == IF Refused(p) # {} THEN IdleProc ELSE [p EXCEPT !.pc = AfterRecord(p)]
<1>1. /\ p.pc = "record" /\ UNCHANGED <<man, aud, temp, job, reviewed, held>> /\ Set(x, r)
      /\ recs' = recs \cup {<<j, c.path, c.hash>> : c \in new}
  BY DEF Record, stageDisk, hist
<1>2. /\ j \in Jobs /\ p \in RunnerState /\ JobGood(j) /\ RunnerGood(x)
      /\ man.sel[j] # None /\ man.sel[j].gen = p.gen /\ p.cursor \in 0..NPaths
      /\ man.sel[j].paths \subseteq StagePaths /\ job[j] = "running"
  BY <1>1, AtWork DEF RunnerState, RunnerGood, PlaceGood, Recording
<1>3. \A c \in p.page : /\ c.path \in man.sel[j].paths /\ c.hash = reviewed[j][c.path]
                        /\ held[j][c.path] = reviewed[j][c.path]
  BY <1>1, <1>2 DEF RunnerGood, CopyGood, PagePaths
<1>4. recs \subseteq recs' /\ \A t \in recs' : t \in recs \/ \E c \in p.page : t = <<j, c.path, c.hash>>
  BY <1>1
<1>5. \A i \in Jobs \ {j} : SameJob(i)
  BY <1>1, <1>4 DEF SameJob, JobKept
<1>6. JobGood(j)'
  <2>1. \A t \in recs' : t[1] = j => held[j][t[2]] = t[3] /\ reviewed[j][t[2]] = t[3]
    BY <1>2, <1>3, <1>4 DEF JobGood
  <2> QED BY <1>1, <1>2, <2>1 DEF JobGood, Current
<1>7. proc'[x] = r
  BY <1>1 DEF Set, StageTypeOK
<1>8. RunnerGood(x)'
  <2>1. CASE Refused(p) # {}
    BY <1>7, <2>1, IdleIsGood
  <2>2. CASE Refused(p) = {}
    <3>1. /\ proc'[x].pc = AfterRecord(p) /\ proc'[x].job = j /\ proc'[x].gen = p.gen
          /\ proc'[x].cursor = p.cursor /\ proc'[x].published = p.published
      BY <1>2, <1>7, <2>2 DEF RunnerState
    <3>2. AfterRecord(p) \in {"records", "finish"} /\ (AfterRecord(p) = "finish" => p.cursor = NPaths)
      BY <1>2, StageConstants DEF AfterRecord
    <3>3. PlaceGood(x)'
      BY <1>1, <1>2, <3>1, <3>2 DEF RunnerGood, PlaceGood, Copying, Recording
    <3>4. Current(j)' = Current(j)
      BY <1>1 DEF Current
    <3>5. CopyGood(x)'
      BY <1>1, <1>2, <3>1, <3>2, <3>4 DEF RunnerGood, CopyGood
    <3>6. \A c \in p.page : <<j, c.path, reviewed[j][c.path]>> \in recs'
      BY <1>1, <1>3, <2>2
    <3>7. ASSUME p.gen = man.gen, NEW q \in man.sel[j].paths
          PROVE  \/ <<j, q, reviewed[j][q]>> \in recs'
                 \/ AfterRecord(p) # "finish" /\ q > p.cursor
      <4>1. <<j, q, reviewed[j][q]>> \in recs \/ q > p.cursor \/ q \in PagePaths(x)
        BY <1>1, <1>2, <3>7 DEF RunnerGood, RecordGood, Recording
      <4>2. q \in PagePaths(x) => <<j, q, reviewed[j][q]>> \in recs'
        BY <3>6 DEF PagePaths
      <4>3. q \in Int /\ q <= NPaths
        BY <1>2 DEF StagePaths
      <4>4. AfterRecord(p) = "finish" => ~(q > p.cursor)
        BY <3>2, <4>3, StageConstants
      <4> QED BY <1>4, <4>1, <4>2, <4>4
    <3>8. RecordGood(x)'
      BY <1>1, <3>1, <3>2, <3>7 DEF RecordGood, Recording
    <3> QED BY <3>3, <3>5, <3>8 DEF RunnerGood
  <2> QED BY <2>1, <2>2
<1>9. r = IdleProc \/ r.job = j
  BY <1>2 DEF RunnerState
<1> HIDE DEF r
<1> QED BY <1>1, <1>2, <1>5, <1>6, <1>8, <1>9, ImportFrame

LEMMA FinishKeeps ==
    ASSUME StageTypeOK, AuditInv, ImportInv, NEW x \in Runners, Finish(x),
           NEW p, p = proc[x], NEW j, j = p.job
    PROVE  ImportInv'
<1>1. p.pc = "finish" /\ UNCHANGED <<man, aud, temp, recs, reviewed, held>> /\ Set(x, IdleProc)
      /\ job' = [job EXCEPT ![j] = "complete"]
  BY DEF Finish, stageDisk, hist
<1>2. /\ j \in Jobs /\ p \in RunnerState /\ JobGood(j) /\ RunnerGood(x)
      /\ man.sel[j] # None /\ man.sel[j].gen = p.gen /\ temp[j] = None
  BY <1>1, AtWork DEF RunnerGood, PlaceGood, Recording
<1>3. job'[j] = "complete" /\ \A i \in Jobs \ {j} : job'[i] = job[i]
  BY <1>1, <1>2 DEF StageTypeOK, CatalogTypeOK
<1>4. \A i \in Jobs \ {j} : SameJob(i)
  BY <1>1, <1>3 DEF SameJob, JobKept
<1>5. JobGood(j)'
  <2>1. p.gen = man.gen => \A q \in man.sel[j].paths : <<j, q, reviewed[j][q]>> \in recs
    BY <1>1, <1>2 DEF RunnerGood, RecordGood, Recording
  <2> QED BY <1>1, <1>2, <1>3, <2>1 DEF JobGood, Current
<1>6. proc'[x] = IdleProc
  BY <1>1 DEF Set, StageTypeOK
<1> QED BY <1>1, <1>2, <1>4, <1>5, <1>6, IdleIsGood, ImportFrame

LEMMA ImportKeepsImport ==
    ASSUME StageTypeOK, StageTypeOK', AuditInv, ImportInv, NEW x \in Runners, ImportNext(x)
    PROVE  ImportInv'
<1>1. ASSUME NEW j \in Jobs, Prepare(x, j) PROVE ImportInv'
  BY <1>1, PrepareKeeps
<1>2. CASE Interrupt(x)
  <2>1. /\ proc[x].pc = "copy" /\ Exit(x, [proc[x] EXCEPT !.keep = TRUE])
        /\ UNCHANGED <<man, aud, job, recs, reviewed, held>>
    BY <1>2 DEF Interrupt, catalog, hist
  <2>2. proc[x].job \in Jobs /\ [proc[x] EXCEPT !.keep = TRUE].job = proc[x].job
    BY <2>1, AtWork DEF RunnerState
  <2> QED BY <2>1, <2>2, ExitKeeps
<1>3. CASE ImportKilled(x)
  <2>1. /\ proc[x].pc # "idle" /\ Set(x, IdleProc) /\ proc'[x] = IdleProc
        /\ UNCHANGED <<man, aud, temp, job, recs, reviewed, held>>
    BY <1>3 DEF ImportKilled, stageDisk, catalog, hist, Set, StageTypeOK
  <2>2. proc[x].job \in Jobs
    BY <2>1, AtWork
  <2> QED BY <2>1, <2>2, IdleIsGood, QuietImport
<1> QED BY <1>1, <1>2, <1>3, SelectKeeps, StartJobKeeps, OpenTreeKeeps, ReadPageKeeps,
           CopyFileKeeps, PageDoneKeeps, ValidateKeeps, PublishKeeps, RecordKeeps, FinishKeeps
        DEF ImportNext

-----------------------------------------------------------------------------
(* The theorems.                                                           *)

LEMMA StageInvInit == StageInit => StageInv
BY StageTypesInit, AuditInvInit, ImportInvInit DEF StageInv

LEMMA StageInvNext == StageInv /\ [StageNext]_stageVars => StageInv'
<1> SUFFICES ASSUME StageInv, [StageNext]_stageVars PROVE StageInv'
  OBVIOUS
<1>0. StageTypeOK /\ AuditInv /\ ImportInv
  BY DEF StageInv
<1>1. CASE AuditNext
  <2>1. StageTypeOK'
    BY <1>0, <1>1, AuditTypes
  <2> QED BY <1>0, <1>1, <2>1, AuditKeepsAudit, AuditKeepsImport DEF StageInv
<1>2. ASSUME NEW x \in Runners, ImportNext(x) PROVE StageInv'
  <2>1. StageTypeOK'
    BY <1>0, <1>2, ImportTypes
  <2> QED BY <1>0, <1>2, <2>1, ImportKeepsAudit, ImportKeepsImport DEF StageInv
<1>3. ASSUME NEW q \in StagePaths, EditSource(q) \/ Scan(q) \/ EditPublished PROVE StageInv'
  BY <1>0, <1>3, OwnerTypes, OwnerKeepsAudit, OwnerKeepsImport DEF StageInv
<1>4. CASE UNCHANGED stageVars
  <2>1. UNCHANGED <<backend, src, temp, pub, man, cat, expect, job, recs, aud, proc, touched,
                    reviewed, held, audits, starts, kills, edits>>
    BY <1>4 DEF stageVars, stageDisk, catalog, hist, stageBounds
  <2>2. StageTypeOK'
    BY <1>0, <2>1 DEF StageTypeOK, DiskTypeOK, CatalogTypeOK, HistTypeOK
  <2>3. AuditInv'
    BY <1>0, <2>1, AuditFrame
  <2>4. ImportInv'
    BY <1>0, <2>1, StillIsQuiet, OthersKeepImport
  <2> QED BY <2>2, <2>3, <2>4 DEF StageInv
<1>5. 1 \in StagePaths
  BY StageConstants DEF StagePaths
<1> QED BY <1>1, <1>2, <1>3, <1>4, <1>5 DEF StageNext

\* The inductive invariant of the audits and imports.
THEOREM StageInvariant == StageSpec => []StageInv
<1> QED BY StageInvInit, StageInvNext, PTL DEF StageSpec

\* The types of the directories, the manifest, the catalog and the processes.
THEOREM StageTypes == StageSpec => []StageTypeOK
<1>1. StageInv => StageTypeOK
  BY DEF StageInv
<1> QED BY <1>1, StageInvariant, PTL

LEMMA InvIsSafe == StageInv => RecordedWasVerified /\ TreeHasAJob /\ CompleteRecordsSelection
<1> SUFFICES ASSUME StageInv PROVE RecordedWasVerified /\ TreeHasAJob /\ CompleteRecordsSelection
  OBVIOUS
<1>1. \A j \in Jobs : JobGood(j)
  BY DEF StageInv, ImportInv
<1>2. \A t \in recs : t[1] \in Jobs
  BY DEF StageInv, StageTypeOK, CatalogTypeOK
<1> QED BY <1>1, <1>2 DEF RecordedWasVerified, TreeHasAJob, CompleteRecordsSelection, JobGood

LEMMA PublishedAreReviewed == StageInv /\ StageNext => PublishedIsReviewed
<1> SUFFICES ASSUME StageInv, StageNext, pub = None, pub' # None
             PROVE  \E j \in Jobs : /\ temp[j] = pub'
                                    /\ \A p \in Files(pub') : pub'[p] = reviewed[j][p]
  BY DEF PublishedIsReviewed
<1>1. PICK x \in Runners : Publish(x)
  <2>1. AuditNext => UNCHANGED pub
    BY DEF AuditNext, AuditBegin, AuditBatch, AuditFingerprint, AuditVanished, AuditHash,
           AuditCommit, AuditPrune, AuditReport, AuditKilled, stageDisk
  <2>2. \A x \in Runners : ImportNext(x) => UNCHANGED pub \/ Publish(x)
    BY DEF ImportNext, Prepare, Select, StartJob, OpenTree, ReadPage, CopyFile, Interrupt,
           PageDone, Validate, Record, Finish, ImportKilled, stageDisk
  <2>3. \A q \in StagePaths : EditSource(q) \/ Scan(q) => UNCHANGED pub
    BY DEF EditSource, Scan, stageDisk
  <2>4. ~EditPublished
    BY DEF EditPublished
  <2> QED BY <2>1, <2>2, <2>3, <2>4 DEF StageNext
<1> DEFINE j == proc[x].job
<1>2. pub' = temp[j] /\ proc[x].pc = "publish"
  BY <1>1 DEF Publish
<1>3. j \in Jobs /\ JobGood(j)
  BY <1>2, AtWork DEF StageInv
<1>4. \A p \in StagePaths : temp[j][p] \in {None, reviewed[j][p]}
  BY <1>2, <1>3 DEF JobGood
<1> QED BY <1>2, <1>3, <1>4 DEF Files

LEMMA ReadyIsSound == StageInv /\ StageNext => ReadyIsTrue
<1> SUFFICES ASSUME StageInv, StageNext, aud.pc = "classify", aud'.ready,
                    NEW p \in StagePaths \ touched, src[p] # None
             PROVE  src[p].bytes \in cat
  BY DEF ReadyIsTrue
<1>0. AuditInv /\ StageTypeOK /\ ~aud.ready
  BY DEF StageInv, AuditInv
<1>1. AuditReport
  <2>1. (\E x \in Runners : ImportNext(x)) => UNCHANGED aud
    BY DEF ImportNext, Prepare, Select, StartJob, OpenTree, ReadPage, CopyFile, Interrupt,
           PageDone, Validate, Publish, Record, Finish, ImportKilled
  <2>2. (\E q \in StagePaths : EditSource(q) \/ Scan(q)) \/ EditPublished => UNCHANGED aud
    BY DEF EditSource, Scan, EditPublished
  <2>3. AuditNext => AuditReport \/ aud' = IdleAudit
    BY DEF AuditNext, AuditBegin, AuditBatch, AuditFingerprint, AuditVanished, AuditHash,
           AuditCommit, AuditPrune, AuditKilled, Walking, Audit
  <2> QED BY <1>0, <2>1, <2>2, <2>3 DEF StageNext, IdleAudit
<1>2. Ready(aud.clean, aud.gen)
  BY <1>1 DEF AuditReport, Audit, IdleAudit
<1>3. p < aud.next
  BY <1>0, StageConstants DEF AuditInv, StagePaths
<1>4. Seen(p) /\ aud.rows[p].state = "none"
  BY <1>0, <1>2, <1>3 DEF AuditInv, Ready, IdleAudit, NoRow
<1>5. p \in Stable(aud.gen) /\ man.rows[p].hash = src[p].bytes
  BY <1>0, <1>4 DEF Seen, SeenRow, Stable, AuditInv, RowIsTrue
<1> QED BY <1>2, <1>5 DEF Ready

\* Whatever is edited, audited again, killed and resumed: a published tree holds
\* reviewed bytes alone, a record was verified in the tree of its job, a finished
\* import of the current audit has recorded all it selected, and an audit permits
\* to remove the source only if the catalog knows every file nobody has changed
\* meanwhile (execute_v2_stage_import, source_removal_ready).
THEOREM ImportsAreSafe == StageSpec => ImportIsSafe
<1>1. StageInv /\ [StageNext]_stageVars =>
        [/\ PublishedIsReviewed /\ ReadyIsTrue
         /\ (RecordedWasVerified /\ TreeHasAJob /\ CompleteRecordsSelection)']_stageVars
  <2> SUFFICES ASSUME StageInv, StageNext
               PROVE  /\ PublishedIsReviewed /\ ReadyIsTrue
                      /\ (RecordedWasVerified /\ TreeHasAJob /\ CompleteRecordsSelection)'
    OBVIOUS
  <2>1. StageInv'
    BY StageInvNext
  <2>2. (RecordedWasVerified /\ TreeHasAJob /\ CompleteRecordsSelection)'
    BY <2>1, InvIsSafe, PTL
  <2> QED BY <2>2, PublishedAreReviewed, ReadyIsSound
<1> QED BY <1>1, StageInvariant, PTL DEF StageSpec, ImportIsSafe

=============================================================================
