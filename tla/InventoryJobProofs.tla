-------------------------- MODULE InventoryJobProofs --------------------------
(***************************************************************************)
(* Proofs about InventoryJob for every set of paths, jobs and processes    *)
(* and every bound.                                                        *)
(***************************************************************************)
EXTENDS InventoryJob, SequenceTheorems, FiniteSetTheorems, FunctionTheorems,
        WellFoundedInduction, TLAPS

-----------------------------------------------------------------------------
(* Outcomes and spools.                                                    *)

Items ==
    {Started} \cup {Observed(p, h) : p \in Paths, h \in Hashes}
        \cup {Failed(p) : p \in Paths}
        \cup {Completed(s, m) : s \in Terminal, m \in SUBSET Paths}

Decides(i) == i.kind \in {"observed", "failed"}

\* The paths a spool decides, and that it decides none twice.
Decided(s) == PathsOf(s, "observed") \cup PathsOf(s, "failed")
DecidesOnce(s) ==
    \A i, k \in DOMAIN s : Decides(s[i]) /\ Decides(s[k]) /\ s[i].path = s[k].path => i = k

\* What the outcomes of each kind carry.
LEMMA ItemFields ==
    ASSUME NEW i \in Items
    PROVE  /\ i.kind \in {"started", "observed", "failed", "completed"}
           /\ i.kind = "observed" => i.path \in Paths /\ i.object \in Hashes
           /\ i.kind = "failed" => i.path \in Paths
           /\ i.kind = "completed" => i.status \in Terminal /\ i.missing \in SUBSET Paths
BY DEF Items, Started, Observed, Failed, Completed

\* The outcomes the walk spools.
LEMMA ItemsMade ==
    /\ Started \in Items /\ Started.kind = "started"
    /\ \A p \in Paths, h \in Hashes :
          /\ Observed(p, h) \in Items /\ Observed(p, h).kind = "observed"
          /\ Observed(p, h).path = p /\ Observed(p, h).object = h
    /\ \A p \in Paths :
          Failed(p) \in Items /\ Failed(p).kind = "failed" /\ Failed(p).path = p
    /\ \A s \in Terminal, m \in SUBSET Paths :
          /\ Completed(s, m) \in Items /\ Completed(s, m).kind = "completed"
          /\ Completed(s, m).status = s /\ Completed(s, m).missing = m
<1>1. Started \in Items /\ Started.kind = "started"
  BY DEF Items, Started
<1>2. ASSUME NEW p \in Paths, NEW h \in Hashes
      PROVE  /\ Observed(p, h) \in Items /\ Observed(p, h).kind = "observed"
             /\ Observed(p, h).path = p /\ Observed(p, h).object = h
  <2>1. Observed(p, h) \in Items
    BY DEF Items
  <2> QED BY <2>1 DEF Observed
<1>3. ASSUME NEW p \in Paths
      PROVE  Failed(p) \in Items /\ Failed(p).kind = "failed" /\ Failed(p).path = p
  <2>1. Failed(p) \in Items
    BY DEF Items
  <2> QED BY <2>1 DEF Failed
<1>4. ASSUME NEW s \in Terminal, NEW m \in SUBSET Paths
      PROVE  /\ Completed(s, m) \in Items /\ Completed(s, m).kind = "completed"
             /\ Completed(s, m).status = s /\ Completed(s, m).missing = m
  <2>1. Completed(s, m) \in Items
    BY DEF Items
  <2> QED BY <2>1 DEF Completed
<1> QED BY <1>1, <1>2, <1>3, <1>4

\* A spool decides paths of the Location.
LEMMA DecidedPaths ==
    ASSUME NEW s \in Seq(Items)
    PROVE  /\ PathsOf(s, "observed") \subseteq Paths
           /\ PathsOf(s, "failed") \subseteq Paths
           /\ Decided(s) \subseteq Paths
<1>1. \A i \in DOMAIN s : s[i] \in Items
  OBVIOUS
<1> QED BY <1>1, ItemFields DEF PathsOf, Decided

\* What one more outcome adds.
LEMMA DecidedAppend ==
    ASSUME NEW s \in Seq(Items), NEW i \in Items
    PROVE  /\ Decided(Append(s, i)) =
                 Decided(s) \cup (IF Decides(i) THEN {i.path} ELSE {})
           /\ DecidesOnce(s) /\ (Decides(i) => i.path \notin Decided(s)) =>
                 DecidesOnce(Append(s, i))
<1> DEFINE t == Append(s, i)
<1>1. /\ t \in Seq(Items) /\ Len(t) = Len(s) + 1 /\ Len(s) \in Nat
      /\ DOMAIN t = 1 .. Len(s) + 1 /\ DOMAIN s = 1 .. Len(s)
      /\ \A n \in 1 .. Len(s) : t[n] = s[n]
      /\ t[Len(s) + 1] = i
  BY AppendProperties, LenProperties
<1> HIDE DEF t
<1>2. ASSUME NEW k
      PROVE  PathsOf(t, k) = PathsOf(s, k) \cup (IF i.kind = k THEN {i.path} ELSE {})
  <2>1. PathsOf(t, k) \subseteq PathsOf(s, k) \cup (IF i.kind = k THEN {i.path} ELSE {})
    BY <1>1 DEF PathsOf
  <2>2. PathsOf(s, k) \subseteq PathsOf(t, k)
    BY <1>1 DEF PathsOf
  <2>3. i.kind = k => i.path \in PathsOf(t, k)
    BY <1>1 DEF PathsOf
  <2> QED BY <2>1, <2>2, <2>3
<1>3. Decided(t) = Decided(s) \cup (IF Decides(i) THEN {i.path} ELSE {})
  BY <1>2 DEF Decided, Decides
<1>4. ASSUME DecidesOnce(s), Decides(i) => i.path \notin Decided(s)
      PROVE  DecidesOnce(t)
  <2>1. \A n \in 1 .. Len(s) : Decides(s[n]) => s[n].path \in Decided(s)
    BY <1>1 DEF Decided, Decides, PathsOf
  <2> QED BY <1>1, <1>4, <2>1 DEF DecidesOnce
<1> QED BY <1>3, <1>4 DEF t

\* Cutting a spool back.
LEMMA CutSpool ==
    ASSUME NEW s \in Seq(Items), NEW n \in 0 .. Len(s)
    PROVE  /\ SubSeq(s, 1, n) \in Seq(Items)
           /\ Len(SubSeq(s, 1, n)) = n
           /\ \A i \in 1 .. n : SubSeq(s, 1, n)[i] = s[i]
           /\ n = Len(s) => SubSeq(s, 1, n) = s
           /\ n = 0 => SubSeq(s, 1, n) = <<>>
<1>1. \A i \in 1 .. n : s[i] \in Items
  OBVIOUS
<1>2. /\ SubSeq(s, 1, n) \in Seq(Items) /\ Len(SubSeq(s, 1, n)) = n
      /\ \A i \in 1 .. n : SubSeq(s, 1, n)[i] = s[i]
  BY <1>1, SubSeqProperties
<1> QED BY <1>2, SubSeqFull, SubSeqEmpty

\* A part of a part.
LEMMA CutTwice ==
    ASSUME NEW s \in Seq(Items), NEW n \in 0 .. Len(s), NEW m \in 0 .. n
    PROVE  SubSeq(SubSeq(s, 1, n), 1, m) = SubSeq(s, 1, m)
<1>1. /\ SubSeq(s, 1, n) \in Seq(Items) /\ Len(SubSeq(s, 1, n)) = n /\ m \in 0 .. Len(s)
      /\ \A i \in 1 .. n : SubSeq(s, 1, n)[i] = s[i]
  BY CutSpool
<1>2. /\ SubSeq(s, 1, m) \in Seq(Items) /\ Len(SubSeq(s, 1, m)) = m
      /\ \A i \in 1 .. m : SubSeq(s, 1, m)[i] = s[i]
  BY <1>1, CutSpool
<1> DEFINE r == SubSeq(s, 1, n)
<1> HIDE DEF r
<1>3. /\ SubSeq(r, 1, m) \in Seq(Items) /\ Len(SubSeq(r, 1, m)) = m
      /\ \A i \in 1 .. m : SubSeq(r, 1, m)[i] = r[i]
  <2>1. r \in Seq(Items) /\ m \in 0 .. Len(r)
    BY <1>1 DEF r
  <2> QED BY <2>1, CutSpool
<1>4. \A i \in 1 .. m : SubSeq(r, 1, m)[i] = SubSeq(s, 1, m)[i]
  BY <1>1, <1>2, <1>3 DEF r
<1>5. SubSeq(r, 1, m) = SubSeq(s, 1, m)
  BY <1>2, <1>3, <1>4, SeqEqual
<1> QED BY <1>5 DEF r

-----------------------------------------------------------------------------
(* The inductive invariant.                                                *)

Files == {"config", "spool", "index"}
CheckpointRec == [len: Nat, seen: SUBSET Paths, unchanged: Nat, errors: Nat]
FilesRec == [there: SUBSET Files, spool: Seq(Items), checkpoint: CheckpointRec]

PCs == {"idle", "settle", "apply", "open", "checkpoint", "walk", "finish", "append",
        "publish", "cleanup"}
ProcRec ==
    [pc: PCs, job: Jobs \cup {None}, cancel: BOOLEAN, next: Nat, target: Nat,
     items: Seq(Items), seen: SUBSET Paths, unchanged: Nat, errors: Nat,
     todo: SUBSET Paths, fresh: Nat, after: {"walk", "paused", "finish", "cleanup"},
     bad: BOOLEAN, kept: SUBSET Paths]

BatchRec == [job: Jobs \cup {None}, items: Seq(Items)]
Standings == {"none", "present", "corrupt", "missing"}
DbRec ==
    [ident: [Paths -> Hashes \cup {None}], copies: [Paths -> Standings],
     rows: [Jobs -> Statuses], records: Nat, cursor: Nat]

TypeInv ==
    /\ disk \in [Paths -> Hashes \cup {None}]
    /\ log \in Seq(BatchRec)
    /\ committed \in {Len(log) - 1, Len(log)}
    /\ db \in DbRec
    /\ local \in [Jobs -> FilesRec]
    /\ proc \in [Procs -> ProcRec]
    /\ starts \in Nat /\ edits \in Nat

\* A process that is not idle holds the lock of its job, alone.
LockInv ==
    /\ \A x \in Procs : proc[x].pc = "idle" <=> proc[x].job = None
    /\ \A x, y \in Procs : proc[x].job = proc[y].job /\ proc[x].job # None => x = y

\* A batch ends with the outcome of its job, decides no path twice and calls
\* none missing that it decides.
GoodItems(items) ==
    /\ items # <<>>
    /\ Last(items).kind = "completed"
    /\ DecidesOnce(items)
    /\ Decided(items) \cap Last(items).missing = {}

\* A spool is published when its job is at "append", and everything in the log
\* was a spool like that.
LogInv ==
    /\ \A n \in 1 .. Len(log) : GoodItems(log[n].items)
    /\ \A x \in Procs : proc[x].pc = "append" =>
          GoodItems(proc[x].items) /\ local[proc[x].job].spool = proc[x].items

\* No process applies batches beyond the first that the database lacks.
OrderInv ==
    /\ db.cursor <= db.records /\ db.records <= Len(log)
    /\ \A x \in Procs : proc[x].pc = "apply" =>
          proc[x].next <= db.records /\ proc[x].target <= Len(log)

Unpublished(j) == \A n \in 1 .. Len(log) : log[n].job # j

\* The row of a job and the log: what a process relies on after its apply.
RowsInv ==
    /\ \A m, n \in 1 .. Len(log) : log[m].job = log[n].job => m = n
    /\ \A n \in 1 .. db.records : log[n].job \in Jobs => db.rows[log[n].job] \in Terminal
    /\ \A j \in Jobs : db.rows[j] = "cancelled" => Unpublished(j)
    /\ \A x \in Procs : \A n \in 1 .. Len(log) : log[n].job = proc[x].job =>
          /\ proc[x].pc = "apply" => n <= proc[x].target
          /\ proc[x].pc = "open" => n <= db.records
    /\ \A x \in Procs : proc[x].pc \in {"checkpoint", "walk", "finish", "append"} =>
          Unpublished(proc[x].job) /\ db.rows[proc[x].job] = "running"

\* Every path of an index has its outcome among these, or was counted.
Accounted(items, seen, counted) ==
    /\ DecidesOnce(items)
    /\ Decided(items) \subseteq seen
    /\ Cardinality(seen) = Cardinality(Decided(items)) + counted

\* The local files of a job.
FilesOK(f) ==
    /\ "spool" \in f.there => SpoolOK(f)
    /\ NewJob(f) => f.checkpoint = NoCheckpoint
    /\ SpoolOK(f) => Accounted(Checkpointed(f), f.checkpoint.seen,
                               f.checkpoint.unchanged + f.checkpoint.errors)

\* How a process at work stands to them.
WorkOK(w, f) ==
    /\ w.pc \in {"checkpoint", "walk", "finish"} =>
          /\ w.items # <<>>
          /\ Accounted(w.items, w.seen, w.unchanged + w.errors)
    /\ w.pc \in {"checkpoint", "walk"} =>
          /\ Len(f.spool) = f.checkpoint.len
          /\ Len(f.spool) <= Len(w.items)
          /\ f.spool = SubSeq(w.items, 1, f.checkpoint.len)
    /\ w.pc = "finish" =>
          f.checkpoint.len = Len(w.items) /\ f.spool = w.items

FilesInv ==
    /\ \A j \in Jobs : FilesOK(local[j])
    /\ \A x \in Procs : WorkOK(proc[x], local[proc[x].job])

\* What stayed on the disk during a pass is decided or still to be looked at.
KeptInv ==
    \A x \in Procs :
        LET w == proc[x]
        IN  /\ w.pc = "checkpoint" => w.after # "cleanup"
            /\ w.pc \in {"checkpoint", "walk", "finish"} =>
                  /\ \A p \in w.kept : disk[p] # None
                  /\ w.job \notin AcceptJobs => w.kept \subseteq w.seen \cup w.todo
            /\ w.pc = "finish" \/ (w.pc = "checkpoint" /\ w.after = "finish") => w.todo = {}
            /\ w.pc = "append" => Last(w.items).missing \cap w.kept = {}

JobInv ==
    /\ TypeInv /\ LockInv /\ LogInv /\ OrderInv /\ RowsInv
    /\ FilesInv /\ KeptInv /\ ReplayIsExact

-----------------------------------------------------------------------------
(* Types.                                                                  *)

\* The file names cleanup goes through.
LEMMA JobFileNames == Range(JobFiles) = Files
BY DEF Range, JobFiles, Files

\* A process that has just started or ended is well typed.
LEMMA IdleType == IdleProc \in ProcRec
<1>1. <<>> \in Seq(Items)
  OBVIOUS
<1> QED BY <1>1 DEF IdleProc, ProcRec, PCs

\* Counting a path, and going to the checkpoint, keep the types.
LEMMA CountType ==
    ASSUME NEW w \in ProcRec
    PROVE  [w EXCEPT !.unchanged = @ + 1] \in ProcRec /\ [w EXCEPT !.errors = @ + 1] \in ProcRec
<1>1. w.unchanged + 1 \in Nat /\ w.errors + 1 \in Nat
  BY DEF ProcRec
<1>2. ASSUME NEW n \in Nat PROVE [w EXCEPT !.unchanged = n] \in ProcRec
  BY DEF ProcRec
<1>3. ASSUME NEW n \in Nat PROVE [w EXCEPT !.errors = n] \in ProcRec
  BY DEF ProcRec
<1> QED BY <1>1, <1>2, <1>3

LEMMA ToCheckpointType ==
    ASSUME NEW w \in ProcRec, NEW after \in {"walk", "paused", "finish"}, NEW bad \in BOOLEAN
    PROVE  /\ [w EXCEPT !.pc = "checkpoint", !.after = after] \in ProcRec
           /\ [w EXCEPT !.pc = "checkpoint", !.after = after, !.bad = bad] \in ProcRec
<1> DEFINE v == [w EXCEPT !.pc = "checkpoint", !.after = after]
<1>1. v \in ProcRec
  BY DEF ProcRec, PCs
<1>2. ASSUME NEW u \in ProcRec PROVE [u EXCEPT !.bad = bad] \in ProcRec
  BY DEF ProcRec
<1>3. [v EXCEPT !.bad = bad] \in ProcRec
  <2> HIDE DEF v
  <2> QED BY <1>1, <1>2
<1> QED BY <1>1, <1>3

\* Ending a process keeps the types.
LEMMA LeaveType ==
    ASSUME proc \in [Procs -> ProcRec], NEW x \in Procs, Leave(x)
    PROVE  proc' \in [Procs -> ProcRec]
BY IdleType DEF Leave

\* What a batch tells the projection is well typed.
LEMMA ProjectType ==
    ASSUME NEW d \in DbRec, NEW b \in BatchRec, GoodItems(b.items)
    PROVE  /\ IdentAfter(d.ident, b) \in [Paths -> Hashes \cup {None}]
           /\ CopiesAfter(d.copies, b) \in [Paths -> Standings]
           /\ RowsAfter(d.rows, b) \in [Jobs -> Statuses]
           /\ Project(d, b) \in DbRec
           /\ Outcome(b).status \in Terminal /\ Outcome(b).missing \in SUBSET Paths
           /\ \A p \in PathsOf(b.items, "observed") : ObjectIn(b.items, p) \in Hashes
<1>0. /\ b.items \in Seq(Items) /\ Len(b.items) \in 1 .. Len(b.items)
      /\ Outcome(b) \in Items /\ Outcome(b).kind = "completed"
  BY EmptySeq DEF BatchRec, GoodItems, Outcome, Last
<1>1. Outcome(b).status \in Terminal /\ Outcome(b).missing \in SUBSET Paths
  BY <1>0, ItemFields
<1>2. ASSUME NEW p \in PathsOf(b.items, "observed")
      PROVE  ObjectIn(b.items, p) \in Hashes
  <2> DEFINE i == CHOOSE n \in DOMAIN b.items : /\ b.items[n].kind = "observed"
                                               /\ b.items[n].path = p
  <2>1. \E n \in DOMAIN b.items : b.items[n].kind = "observed" /\ b.items[n].path = p
    BY DEF PathsOf
  <2>2. i \in DOMAIN b.items /\ b.items[i].kind = "observed"
    BY <2>1
  <2>3. \A k \in DOMAIN b.items : b.items[k] \in Items
    BY <1>0
  <2>4. ObjectIn(b.items, p) = b.items[i].object
    BY DEF ObjectIn
  <2> HIDE DEF i
  <2> QED BY <2>2, <2>3, <2>4, ItemFields
<1>3. IdentAfter(d.ident, b) \in [Paths -> Hashes \cup {None}]
  BY <1>2 DEF IdentAfter, DbRec
<1>4. CopiesAfter(d.copies, b) \in [Paths -> Standings]
  BY DEF CopiesAfter, DbRec, Standings
<1>5. RowsAfter(d.rows, b) \in [Jobs -> Statuses]
  BY <1>1 DEF RowsAfter, DbRec, Statuses, Terminal
<1>6. Project(d, b) \in DbRec
  BY <1>3, <1>4, <1>5 DEF Project, DbRec
<1> QED BY <1>1, <1>2, <1>3, <1>4, <1>5, <1>6

\* A set of batches that is not empty has a newest one.
LEMMA NewestIs ==
    ASSUME NEW n \in Nat, NEW S \in SUBSET (1 .. n), S # {}
    PROVE  Newest(S) \in S /\ \A m \in S : m <= Newest(S)
<1> DEFINE T == {t \in Nat : \E m \in S : t = n - m}
<1>1. T \subseteq Nat /\ T # {}
  <2>1. PICK m \in S : TRUE
    OBVIOUS
  <2>2. n - m \in Nat
    OBVIOUS
  <2>3. n - m \in T
    BY <2>2
  <2> QED BY <2>3
<1>2. PICK t \in T : \A u \in T : ~ (<<u, t>> \in OpToRel(<, Nat))
  BY <1>1, NatLessThanWellFounded, WFMin
<1>3. PICK k \in S : t = n - k
  OBVIOUS
<1>4. \A m \in S : m <= k
  <2> SUFFICES ASSUME NEW m \in S, ~ (m <= k) PROVE FALSE
    OBVIOUS
  <2>1. n - m \in T /\ n - m \in Nat /\ t \in Nat /\ n - m < t
    BY <1>3
  <2> QED BY <1>2, <2>1 DEF OpToRel
<1> QED BY <1>4 DEF Newest

\* The outcome of a good batch.
LEMMA OutcomeType ==
    ASSUME NEW b \in BatchRec, GoodItems(b.items)
    PROVE  /\ Outcome(b).status \in Terminal /\ Outcome(b).missing \in SUBSET Paths
           /\ \A p \in PathsOf(b.items, "observed") : ObjectIn(b.items, p) \in Hashes
           /\ CopiesAfter(EmptyDb.copies, b) \in [Paths -> Standings]
<1> DEFINE d == EmptyDb
<1>0. d \in DbRec
  BY DEF EmptyDb, DbRec, Standings, Statuses
<1>1. CopiesAfter(d.copies, b) \in [Paths -> Standings]
  BY <1>0, ProjectType
<1> QED BY <1>0, <1>1, ProjectType

\* The batches of a well-typed log.
LEMMA Batches ==
    ASSUME TypeInv, LogInv, NEW n \in 1 .. Len(log)
    PROVE  /\ log[n] \in BatchRec /\ GoodItems(log[n].items) /\ Len(log) \in Nat
           /\ log[n].job \in Jobs \cup {None} /\ log[n].items \in Seq(Items)
<1>1. log[n] \in BatchRec /\ Len(log) \in Nat
  BY DEF TypeInv
<1>2. GoodItems(log[n].items)
  BY DEF LogInv
<1> QED BY <1>1, <1>2 DEF BatchRec

\* The batches that decide what a replay stores are batches of the log.
LEMMA NewestBatches ==
    ASSUME TypeInv, NEW n \in 0 .. Len(log)
    PROVE  /\ \A p \in Paths : Identifying(n, p) # {} =>
                 /\ Newest(Identifying(n, p)) \in 1 .. n
                 /\ p \in PathsOf(log[Newest(Identifying(n, p))].items, "observed")
                 /\ \A m \in Identifying(n, p) : m <= Newest(Identifying(n, p))
           /\ \A p \in Paths : Placing(n, p) # {} =>
                 /\ Newest(Placing(n, p)) \in 1 .. n
                 /\ Newest(Placing(n, p)) \in Placing(n, p)
                 /\ \A m \in Placing(n, p) : m <= Newest(Placing(n, p))
           /\ \A j : About(n, j) # {} =>
                 /\ Newest(About(n, j)) \in 1 .. n
                 /\ log[Newest(About(n, j))].job = j
                 /\ \A m \in About(n, j) : m <= Newest(About(n, j))
<1>0. n \in Nat
  BY DEF TypeInv
<1>1. ASSUME NEW p \in Paths, Identifying(n, p) # {}
      PROVE  /\ Newest(Identifying(n, p)) \in 1 .. n
             /\ p \in PathsOf(log[Newest(Identifying(n, p))].items, "observed")
             /\ \A m \in Identifying(n, p) : m <= Newest(Identifying(n, p))
  <2>1. Identifying(n, p) \in SUBSET (1 .. n)
    BY DEF Identifying
  <2>2. /\ Newest(Identifying(n, p)) \in Identifying(n, p)
        /\ \A m \in Identifying(n, p) : m <= Newest(Identifying(n, p))
    BY <1>0, <1>1, <2>1, NewestIs
  <2> QED BY <2>2 DEF Identifying
<1>2. ASSUME NEW p \in Paths, Placing(n, p) # {}
      PROVE  /\ Newest(Placing(n, p)) \in 1 .. n
             /\ Newest(Placing(n, p)) \in Placing(n, p)
             /\ \A m \in Placing(n, p) : m <= Newest(Placing(n, p))
  <2>1. Placing(n, p) \in SUBSET (1 .. n)
    BY DEF Placing
  <2>2. /\ Newest(Placing(n, p)) \in Placing(n, p)
        /\ \A m \in Placing(n, p) : m <= Newest(Placing(n, p))
    BY <1>0, <1>2, <2>1, NewestIs
  <2> QED BY <2>1, <2>2
<1>3. ASSUME NEW j, About(n, j) # {}
      PROVE  /\ Newest(About(n, j)) \in 1 .. n
             /\ log[Newest(About(n, j))].job = j
             /\ \A m \in About(n, j) : m <= Newest(About(n, j))
  <2>1. About(n, j) \in SUBSET (1 .. n)
    BY DEF About
  <2>2. /\ Newest(About(n, j)) \in About(n, j)
        /\ \A m \in About(n, j) : m <= Newest(About(n, j))
    BY <1>0, <1>3, <2>1, NewestIs
  <2> QED BY <2>2 DEF About
<1> QED BY <1>1, <1>2, <1>3

\* A rebuild gives a well-typed database.
LEMMA ReplayedType ==
    ASSUME TypeInv, LogInv, NEW n \in 0 .. Len(log)
    PROVE  Replayed(n) \in DbRec
<1>0. n \in Nat /\ Len(log) \in Nat
  BY DEF TypeInv
<1>1. ASSUME NEW p \in Paths
      PROVE  (IF Identifying(n, p) = {} THEN None
              ELSE ObjectIn(log[Newest(Identifying(n, p))].items, p)) \in Hashes \cup {None}
  <2>1. CASE Identifying(n, p) # {}
    <3>1. /\ Newest(Identifying(n, p)) \in 1 .. Len(log)
          /\ p \in PathsOf(log[Newest(Identifying(n, p))].items, "observed")
      BY <1>0, <2>1, NewestBatches
    <3> QED BY <2>1, <3>1, Batches, OutcomeType
  <2> QED BY <2>1
<1>2. ASSUME NEW p \in Paths
      PROVE  (IF Placing(n, p) = {} THEN "none"
              ELSE CopiesAfter(EmptyDb.copies, log[Newest(Placing(n, p))])[p]) \in Standings
  <2>1. CASE Placing(n, p) # {}
    <3>1. Newest(Placing(n, p)) \in 1 .. Len(log)
      BY <1>0, <2>1, NewestBatches
    <3>2. CopiesAfter(EmptyDb.copies, log[Newest(Placing(n, p))]) \in [Paths -> Standings]
      BY <3>1, Batches, OutcomeType
    <3> QED BY <2>1, <3>2
  <2> QED BY <2>1 DEF Standings
<1>3. ASSUME NEW j \in Jobs
      PROVE  (IF About(n, j) = {} THEN "none"
              ELSE Outcome(log[Newest(About(n, j))]).status) \in Statuses
  <2>1. CASE About(n, j) # {}
    <3>1. Newest(About(n, j)) \in 1 .. Len(log)
      BY <1>0, <2>1, NewestBatches
    <3>2. Outcome(log[Newest(About(n, j))]).status \in Terminal
      BY <3>1, Batches, OutcomeType
    <3> QED BY <2>1, <3>2 DEF Terminal, Statuses
  <2> QED BY <2>1 DEF Statuses
<1> QED BY <1>0, <1>1, <1>2, <1>3 DEF Replayed, DbRec

\* A busy process, its job and the files of that job.
LEMMA Busy ==
    ASSUME TypeInv, LockInv, NEW x \in Procs, proc[x].pc # "idle"
    PROVE  /\ proc[x] \in ProcRec /\ proc[x].job \in Jobs /\ proc[x].job # None
           /\ local[proc[x].job] \in FilesRec
           /\ local[proc[x].job].spool \in Seq(Items)
           /\ local[proc[x].job].checkpoint \in CheckpointRec
           /\ proc[x].items \in Seq(Items)
           /\ \A y \in Procs : y # x => proc[y].job # proc[x].job
<1>1. proc[x] \in ProcRec /\ proc[x].job # None
  BY DEF TypeInv, LockInv
<1>2. proc[x].job \in Jobs /\ proc[x].items \in Seq(Items)
  BY <1>1 DEF ProcRec
<1>3. local[proc[x].job] \in FilesRec
  BY <1>2 DEF TypeInv
<1> QED BY <1>1, <1>2, <1>3 DEF FilesRec, LockInv

\* Every step keeps the types.
LEMMA TypeStep ==
    ASSUME TypeInv, LockInv, LogInv, OrderInv, KeptInv, Next
    PROVE  TypeInv'
<1>0. /\ disk \in [Paths -> Hashes \cup {None}] /\ log \in Seq(BatchRec)
      /\ committed \in {Len(log) - 1, Len(log)} /\ db \in DbRec
      /\ local \in [Jobs -> FilesRec] /\ proc \in [Procs -> ProcRec]
      /\ starts \in Nat /\ edits \in Nat /\ Len(log) \in Nat
  BY DEF TypeInv
<1>1. ASSUME NEW x \in Procs, Settle(x) \/ Publish(x)
      PROVE  TypeInv'
  <2> DEFINE w == [proc[x] EXCEPT !.pc = "apply", !.next = db.cursor, !.target = Len(log)]
  <2>0. w \in ProcRec
    <3>1. proc[x] \in ProcRec /\ db.cursor \in Nat /\ Len(log) \in Nat
      BY <1>0 DEF DbRec
    <3> QED BY <3>1 DEF ProcRec, PCs
  <2>1. /\ proc' = [proc EXCEPT ![x] = w] /\ committed' = Len(log)
        /\ UNCHANGED <<disk, log, db, local, starts, edits>>
    BY <1>1 DEF Settle, Publish
  <2> HIDE DEF w
  <2>2. proc' \in [Procs -> ProcRec]
    BY <1>0, <2>0, <2>1
  <2> QED BY <1>0, <2>1, <2>2 DEF TypeInv
<1>2. ASSUME NEW x \in Procs, ApplyBatch(x)
      PROVE  TypeInv'
  <2> DEFINE n == proc[x].next + 1
             d == IF n > db.records THEN Project(db, log[n]) ELSE db
  <2>1. n \in 1 .. Len(log) /\ n \in Nat
    <3>1. proc[x] \in ProcRec
      BY <1>0
    <3>2. proc[x].next \in Nat
      BY <3>1 DEF ProcRec
    <3>3. proc[x].target \in Nat
      BY <3>1 DEF ProcRec
    <3>4. n <= proc[x].target /\ proc[x].target <= Len(log)
      BY <1>2 DEF ApplyBatch, OrderInv
    <3> QED BY <1>0, <3>2, <3>3, <3>4
  <2>2. d \in DbRec
    BY <1>0, <2>1, Batches, ProjectType
  <2>3. /\ db' = [d EXCEPT !.records = IF n > @ THEN n ELSE @, !.cursor = n]
        /\ proc' = [proc EXCEPT ![x].next = n]
        /\ UNCHANGED <<disk, log, committed, local, starts, edits>>
    BY <1>2 DEF ApplyBatch
  <2> HIDE DEF n, d
  <2>4. db' \in DbRec
    BY <2>1, <2>2, <2>3 DEF DbRec
  <2>5. proc' \in [Procs -> ProcRec]
    <3>1. [proc[x] EXCEPT !.next = n] \in ProcRec
      BY <1>0, <2>1 DEF ProcRec
    <3> QED BY <1>0, <2>3, <3>1
  <2> QED BY <1>0, <2>3, <2>4, <2>5 DEF TypeInv
<1>3. ASSUME NEW x \in Procs, ApplyEnd(x) \/ OpenFinished(x)
      PROVE  TypeInv'
  <2>1. proc' \in [Procs -> ProcRec]
    <3>1. CASE Leave(x)
      BY <1>0, <3>1, LeaveType
    <3>2. CASE proc' = [proc EXCEPT ![x].pc = "cleanup"] \/ proc' = [proc EXCEPT ![x].pc = "open"]
      <4>1. /\ [proc[x] EXCEPT !.pc = "cleanup"] \in ProcRec
            /\ [proc[x] EXCEPT !.pc = "open"] \in ProcRec
        BY <1>0 DEF ProcRec, PCs
      <4> QED BY <1>0, <3>2, <4>1
    <3> QED BY <1>3, <3>1, <3>2 DEF ApplyEnd, OpenFinished
  <2>2. UNCHANGED <<disk, log, committed, db, local, starts, edits>>
    BY <1>3 DEF ApplyEnd, OpenFinished
  <2> QED BY <1>0, <2>1, <2>2 DEF TypeInv
<1>4. ASSUME NEW x \in Procs, Open(x)
      PROVE  TypeInv'
  <2> DEFINE j == proc[x].job
             f == local[j]
  <2>1. j \in Jobs /\ f \in FilesRec /\ f.checkpoint \in CheckpointRec /\ f.spool \in Seq(Items)
    BY <1>4, Busy DEF Open
  <2>2. Checkpointed(f) \in Seq(Items)
    <3>1. f.checkpoint.len \in 0 .. Len(f.spool)
      BY <1>4, <2>1 DEF Open, SpoolOK, CheckpointRec
    <3> QED BY <2>1, <3>1, CutSpool DEF Checkpointed
  <2>3. <<Started>> \in Seq(Items) /\ Walked(j) \in SUBSET Paths
    BY ItemsMade, CatalogedPaths DEF Walked
  <2>4. db' \in DbRec
    BY <1>0, <1>4, <2>1 DEF Open, DbRec, Statuses
  <2>5. local' \in [Jobs -> FilesRec]
    <3>1. [f EXCEPT !.there = Range(JobFiles), !.spool = Checkpointed(f)] \in FilesRec
      BY <2>1, <2>2, JobFileNames DEF FilesRec
    <3> QED BY <1>0, <1>4, <2>1, <3>1 DEF Open
  <2>6. proc' \in [Procs -> ProcRec]
    <3> DEFINE items == IF NewJob(f) THEN <<Started>> ELSE Checkpointed(f)
               kept == {p \in Paths : disk[p] # None}
               w == [proc[x] EXCEPT !.pc = "checkpoint", !.after = "walk", !.items = items,
                        !.seen = f.checkpoint.seen, !.unchanged = f.checkpoint.unchanged,
                        !.errors = f.checkpoint.errors, !.todo = Walked(j), !.kept = kept]
    <3>1. /\ items \in Seq(Items) /\ kept \in SUBSET Paths /\ proc[x] \in ProcRec
          /\ f.checkpoint.seen \in SUBSET Paths
          /\ f.checkpoint.unchanged \in Nat /\ f.checkpoint.errors \in Nat
      BY <1>0, <2>1, <2>2, <2>3 DEF CheckpointRec
    <3>2. proc' = [proc EXCEPT ![x] = w]
      BY <1>4 DEF Open
    <3> HIDE DEF items, kept
    <3>3. w \in ProcRec
      BY <2>3, <3>1 DEF ProcRec, PCs
    <3> QED BY <1>0, <3>2, <3>3
  <2>7. UNCHANGED <<disk, log, committed, starts, edits>>
    BY <1>4 DEF Open
  <2> QED BY <1>0, <2>4, <2>5, <2>6, <2>7 DEF TypeInv
<1>5. ASSUME NEW x \in Procs, OpenRefused(x)
      PROVE  TypeInv'
  <2>1. proc[x].job \in Jobs
    BY <1>5, Busy DEF OpenRefused
  <2>2. db' \in DbRec
    BY <1>0, <1>5, <2>1 DEF OpenRefused, DbRec, Statuses
  <2>3. local' \in [Jobs -> FilesRec]
    <3>1. [local[proc[x].job] EXCEPT !.there = @ \cup {"config", "index"}] \in FilesRec
      BY <1>0, <2>1 DEF FilesRec, Files
    <3> QED BY <1>0, <1>5, <2>1, <3>1 DEF OpenRefused
  <2>4. proc' \in [Procs -> ProcRec]
    BY <1>0, <1>5, LeaveType DEF OpenRefused
  <2>5. UNCHANGED <<disk, log, committed, starts, edits>>
    BY <1>5 DEF OpenRefused
  <2> QED BY <1>0, <2>2, <2>3, <2>4, <2>5 DEF TypeInv
<1>6. ASSUME NEW x \in Procs, CancelJob(x)
      PROVE  TypeInv'
  <2>1. proc[x].job \in Jobs
    BY <1>6, Busy DEF CancelJob
  <2>2. db' \in DbRec
    <3>1. CASE UNCHANGED db
      BY <1>0, <3>1
    <3>2. CASE db' = [db EXCEPT !.rows[proc[x].job] = IF @ = "none" THEN @ ELSE "cancelled"]
      <4>1. [db.rows EXCEPT ![proc[x].job] = IF @ = "none" THEN @ ELSE "cancelled"]
              \in [Jobs -> Statuses]
        BY <1>0, <2>1 DEF DbRec, Statuses
      <4> QED BY <1>0, <3>2, <4>1 DEF DbRec
    <3> QED BY <1>6, <3>1, <3>2 DEF CancelJob
  <2>3. proc' \in [Procs -> ProcRec]
    <3>1. CASE Leave(x)
      BY <1>0, <3>1, LeaveType
    <3>2. CASE proc' = [proc EXCEPT ![x].pc = "cleanup"]
      <4>1. [proc[x] EXCEPT !.pc = "cleanup"] \in ProcRec
        BY <1>0 DEF ProcRec, PCs
      <4> QED BY <1>0, <3>2, <4>1
    <3> QED BY <1>6, <3>1, <3>2 DEF CancelJob
  <2>4. UNCHANGED <<disk, log, committed, local, starts, edits>>
    BY <1>6 DEF CancelJob
  <2> QED BY <1>0, <2>2, <2>3, <2>4 DEF TypeInv
<1>7. ASSUME NEW x \in Procs, Checkpoint(x)
      PROVE  TypeInv'
  <2>1. proc[x].job \in Jobs /\ proc[x] \in ProcRec /\ proc[x].items \in Seq(Items)
    BY <1>7, Busy DEF Checkpoint
  <2>2. Len(proc[x].items) \in Nat
    BY <2>1
  <2>3. local' \in [Jobs -> FilesRec]
    <3> DEFINE c == [len |-> Len(proc[x].items), seen |-> proc[x].seen,
                     unchanged |-> proc[x].unchanged, errors |-> proc[x].errors]
    <3>1. c \in CheckpointRec
      BY <2>1, <2>2 DEF CheckpointRec, ProcRec
    <3>2. local' = [local EXCEPT ![proc[x].job] =
                       [@ EXCEPT !.spool = proc[x].items, !.checkpoint = c]]
      BY <1>7 DEF Checkpoint
    <3> HIDE DEF c
    <3>3. [local[proc[x].job] EXCEPT !.spool = proc[x].items, !.checkpoint = c] \in FilesRec
      BY <1>0, <2>1, <3>1 DEF FilesRec
    <3> QED BY <1>0, <2>1, <3>2, <3>3
  <2>4. proc' \in [Procs -> ProcRec]
    <3>1. CASE Leave(x)
      BY <1>0, <3>1, LeaveType
    <3>2. CASE /\ proc' = [proc EXCEPT ![x] = [@ EXCEPT !.pc = proc[x].after, !.fresh = 0]]
               /\ proc[x].after # "paused"
      <4>1. proc[x].after \in {"walk", "finish"}
        BY <1>7, <2>1, <3>2 DEF KeptInv, Checkpoint, ProcRec
      <4>2. [proc[x] EXCEPT !.pc = proc[x].after, !.fresh = 0] \in ProcRec
        BY <2>1, <4>1 DEF ProcRec, PCs
      <4> QED BY <1>0, <3>2, <4>2
    <3> QED BY <1>7, <3>1, <3>2 DEF Checkpoint
  <2>5. UNCHANGED <<disk, log, committed, db, starts, edits>>
    BY <1>7 DEF Checkpoint
  <2> QED BY <1>0, <2>3, <2>4, <2>5 DEF TypeInv
<1>8. ASSUME NEW x \in Procs, NEW p \in Paths,
             Skip(x, p) \/ Unchanged(x, p) \/ Unreadable(x, p) \/ Read(x, p)
      PROVE  TypeInv'
  <2>1. proc[x] \in ProcRec
    BY <1>0
  <2>2. proc[x].pc = "walk" /\ UNCHANGED <<disk, log, committed, db, local, starts, edits>>
    BY <1>8 DEF Skip, Unchanged, Unreadable, Read, Decide, At
  <2>3. CASE Skip(x, p)
    <3>1. proc' \in [Procs -> ProcRec]
      <4>1. [proc[x] EXCEPT !.todo = proc[x].todo \ {p}] \in ProcRec
        BY <2>1 DEF ProcRec
      <4> QED BY <1>0, <2>3, <4>1 DEF Skip
    <3> QED BY <1>0, <2>2, <3>1 DEF TypeInv
  <2>4. ASSUME NEW w \in ProcRec, Decide(x, p, w)
        PROVE  TypeInv'
    <3>1. [w EXCEPT !.todo = @ \ {p}, !.seen = @ \cup {p}, !.fresh = @ + 1] \in ProcRec
      <4>1. w.todo \ {p} \in SUBSET Paths /\ w.seen \cup {p} \in SUBSET Paths /\ w.fresh + 1 \in Nat
        BY <2>4 DEF ProcRec
      <4> QED BY <4>1 DEF ProcRec
    <3>2. proc' \in [Procs -> ProcRec]
      BY <1>0, <2>4, <3>1 DEF Decide
    <3> QED BY <1>0, <2>2, <3>2 DEF TypeInv
  <2>5. [proc[x] EXCEPT !.unchanged = @ + 1] \in ProcRec
    BY <2>1, CountType
  <2>6. [proc[x] EXCEPT !.errors = @ + 1] \in ProcRec
    BY <2>1, CountType
  <2>7. CASE Read(x, p)
    <3>1. Verdict(proc[x].job, p) \in Items
      <4>1. disk[p] \in Hashes
        BY <1>0, <2>7 DEF Read, Decide
      <4> QED BY <4>1, ItemsMade DEF Verdict
    <3>2. [proc[x] EXCEPT !.items = Append(@, Verdict(proc[x].job, p))] \in ProcRec
      <4>1. Append(proc[x].items, Verdict(proc[x].job, p)) \in Seq(Items)
        BY <2>1, <3>1 DEF ProcRec
      <4> QED BY <2>1, <4>1 DEF ProcRec
    <3> QED BY <2>4, <2>7, <3>2 DEF Read
  <2>8. CASE Unchanged(x, p)
    BY <2>4, <2>5, <2>8 DEF Unchanged
  <2>9. CASE Unreadable(x, p)
    BY <2>4, <2>6, <2>9 DEF Unreadable
  <2> QED BY <1>8, <2>3, <2>7, <2>8, <2>9
<1>9. ASSUME NEW x \in Procs, CheckpointDue(x) \/ Pause(x) \/ (\E bad \in BOOLEAN : EndWalk(x, bad))
      PROVE  TypeInv'
  <2>1. proc' \in [Procs -> ProcRec]
    <3>0. proc[x] \in ProcRec
      BY <1>0
    <3>1. /\ [proc[x] EXCEPT !.pc = "checkpoint", !.after = "walk"] \in ProcRec
          /\ [proc[x] EXCEPT !.pc = "checkpoint", !.after = "paused"] \in ProcRec
      BY <3>0, ToCheckpointType
    <3>2. ASSUME NEW bad \in BOOLEAN
          PROVE  [proc[x] EXCEPT !.pc = "checkpoint", !.after = "finish", !.bad = bad] \in ProcRec
      BY <3>0, ToCheckpointType
    <3>3. CASE CheckpointDue(x)
      BY <1>0, <3>1, <3>3 DEF CheckpointDue
    <3>4. CASE Pause(x)
      BY <1>0, <3>1, <3>4 DEF Pause
    <3>5. ASSUME NEW bad \in BOOLEAN, EndWalk(x, bad)
          PROVE  proc' \in [Procs -> ProcRec]
      BY <1>0, <3>2, <3>5 DEF EndWalk
    <3> QED BY <1>9, <3>3, <3>4, <3>5
  <2>2. UNCHANGED <<disk, log, committed, db, local, starts, edits>>
    BY <1>9 DEF CheckpointDue, Pause, EndWalk
  <2> QED BY <1>0, <2>1, <2>2 DEF TypeInv
<1>10. ASSUME NEW x \in Procs, Finish(x)
       PROVE  TypeInv'
  <2> DEFINE w == proc[x]
             status == IF w.job \in ScanJobs /\ ~CompleteSafe(w) THEN "partial" ELSE "complete"
             all == Append(w.items, Completed(status, MissingCandidates(w)))
  <2>1. w.job \in Jobs /\ w \in ProcRec /\ w.items \in Seq(Items)
    BY <1>10, Busy DEF Finish
  <2>2. all \in Seq(Items)
    <3>1. status \in Terminal /\ MissingCandidates(w) \in SUBSET Paths
      BY DEF Terminal, MissingCandidates
    <3>2. Completed(status, MissingCandidates(w)) \in Items
      BY <3>1, ItemsMade
    <3> QED BY <2>1, <3>2
  <2>3. /\ local' = [local EXCEPT ![w.job].spool = all]
        /\ proc' = [proc EXCEPT ![x] = [@ EXCEPT !.pc = "append", !.items = all]]
        /\ UNCHANGED <<disk, log, committed, db, starts, edits>>
    BY <1>10 DEF Finish
  <2> HIDE DEF all
  <2>4. local' \in [Jobs -> FilesRec]
    BY <1>0, <2>1, <2>2, <2>3 DEF FilesRec
  <2>5. proc' \in [Procs -> ProcRec]
    <3>1. [proc[x] EXCEPT !.pc = "append", !.items = all] \in ProcRec
      BY <2>1, <2>2 DEF ProcRec, PCs
    <3> QED BY <1>0, <2>3, <3>1
  <2> QED BY <1>0, <2>3, <2>4, <2>5 DEF TypeInv
<1>11. ASSUME NEW x \in Procs, AppendBatch(x)
       PROVE  TypeInv'
  <2> DEFINE j == proc[x].job
             b == [job |-> j, items |-> local[j].spool]
             w == [IdleProc EXCEPT !.pc = "publish", !.job = j, !.after = "cleanup"]
  <2>1. j \in Jobs /\ local[j].spool \in Seq(Items)
    BY <1>11, Busy DEF AppendBatch
  <2>2. b \in BatchRec
    BY <2>1 DEF BatchRec
  <2>3. /\ log' = Append(log, b) /\ committed' = Len(log) /\ proc' = [proc EXCEPT ![x] = w]
        /\ UNCHANGED <<disk, db, local, starts, edits>>
    BY <1>11 DEF AppendBatch
  <2>4. log' \in Seq(BatchRec) /\ Len(log') = Len(log) + 1
    BY <1>0, <2>2, <2>3, AppendProperties
  <2>5. w \in ProcRec
    BY <2>1, IdleType DEF ProcRec, PCs
  <2>6. proc' \in [Procs -> ProcRec]
    BY <1>0, <2>3, <2>5
  <2> QED BY <1>0, <2>3, <2>4, <2>6 DEF TypeInv
<1>12. ASSUME NEW x \in Procs, Cleanup(x)
       PROVE  TypeInv'
  <2>1. proc[x].job \in Jobs
    BY <1>12, Busy DEF Cleanup
  <2>2. local' \in [Jobs -> FilesRec] /\ proc' \in [Procs -> ProcRec]
    <3>1. CASE Leave(x) /\ UNCHANGED local
      BY <1>0, <3>1, LeaveType
    <3>2. ASSUME NEW g, UNCHANGED proc,
                 local' = [local EXCEPT ![proc[x].job] =
                             [local[proc[x].job] EXCEPT
                                       !.there = @ \ {g},
                                       !.spool = IF g = "spool" THEN <<>> ELSE @,
                                       !.checkpoint = IF g = "index" THEN NoCheckpoint ELSE @]]
          PROVE  local' \in [Jobs -> FilesRec] /\ proc' \in [Procs -> ProcRec]
      <4> DEFINE f == local[proc[x].job]
                 spool == IF g = "spool" THEN <<>> ELSE f.spool
                 c == IF g = "index" THEN NoCheckpoint ELSE f.checkpoint
      <4>1. /\ f \in FilesRec /\ f.there \ {g} \in SUBSET Files
            /\ spool \in Seq(Items) /\ c \in CheckpointRec
        BY <1>0, <2>1 DEF FilesRec, NoCheckpoint, CheckpointRec
      <4>2. [f EXCEPT !.there = @ \ {g}, !.spool = IF g = "spool" THEN <<>> ELSE @,
                      !.checkpoint = IF g = "index" THEN NoCheckpoint ELSE @] \in FilesRec
        BY <4>1 DEF FilesRec
      <4> QED BY <1>0, <2>1, <3>2, <4>2
    <3> QED BY <1>12, <3>1, <3>2 DEF Cleanup
  <2>3. UNCHANGED <<disk, log, committed, db, starts, edits>>
    BY <1>12 DEF Cleanup
  <2> QED BY <1>0, <2>2, <2>3 DEF TypeInv
<1>13. ASSUME NEW x \in Procs, Crash(x)
       PROVE  TypeInv'
  <2>1. /\ proc[x].job \in Jobs /\ proc[x].items \in Seq(Items)
        /\ local[proc[x].job].spool \in Seq(Items)
    BY <1>13, Busy DEF Crash
  <2>2. local' \in [Jobs -> FilesRec]
    <3>1. CASE UNCHANGED local
      BY <1>0, <3>1
    <3>2. ASSUME NEW n \in Len(local[proc[x].job].spool) .. Len(proc[x].items),
                 local' = [local EXCEPT ![proc[x].job].spool = SubSeq(proc[x].items, 1, n)]
          PROVE  local' \in [Jobs -> FilesRec]
      <4>1. n \in 0 .. Len(proc[x].items)
        BY <2>1
      <4>2. SubSeq(proc[x].items, 1, n) \in Seq(Items)
        BY <2>1, <4>1, CutSpool
      <4> QED BY <1>0, <2>1, <3>2, <4>2 DEF FilesRec
    <3> QED BY <1>13, <3>1, <3>2 DEF Crash
  <2>3. proc' \in [Procs -> ProcRec]
    BY <1>0, <1>13, LeaveType DEF Crash
  <2>4. UNCHANGED <<disk, log, committed, db, starts, edits>>
    BY <1>13 DEF Crash
  <2> QED BY <1>0, <2>2, <2>3, <2>4 DEF TypeInv
<1>14. ASSUME NEW x \in Procs, NEW j \in Jobs, NEW c \in BOOLEAN, Start(x, j, c)
       PROVE  TypeInv'
  <2>1. [IdleProc EXCEPT !.pc = "settle", !.job = j, !.cancel = c] \in ProcRec
    BY IdleType DEF ProcRec, PCs
  <2> QED BY <1>0, <1>14, <2>1 DEF Start, TypeInv
<1>15. ASSUME NEW p \in Paths, NEW h \in Hashes \cup {None}, Edit(p, h)
       PROVE  TypeInv'
  <2>1. \A x \in Procs : [proc[x] EXCEPT !.kept = IF h = None THEN @ \ {p} ELSE @] \in ProcRec
    BY <1>0 DEF ProcRec
  <2> QED BY <1>0, <1>15, <2>1 DEF Edit, TypeInv
<1>16. CASE Rebuild
  <2>1. Len(log) \in 0 .. Len(log)
    BY <1>0
  <2>2. Replayed(Len(log)) \in DbRec
    BY <2>1, ReplayedType
  <2>3. db' \in DbRec /\ UNCHANGED <<disk, log, committed, local, proc, starts, edits>>
    BY <1>16, <2>2 DEF Rebuild
  <2> QED BY <1>0, <2>3 DEF TypeInv
<1> QED BY <1>1, <1>2, <1>3, <1>4, <1>5, <1>6, <1>7, <1>8, <1>9, <1>10, <1>11, <1>12, <1>13,
           <1>14, <1>15, <1>16 DEF Next, Step

-----------------------------------------------------------------------------
(* What a step of one process leaves alone.                                *)

\* The other processes and the files of the other jobs stay as they are; the
\* process itself ends or keeps its job.
LEMMA Frame ==
    ASSUME TypeInv, LockInv, KeptInv, NEW x \in Procs, Step(x) \/ Pause(x) \/ Crash(x)
    PROVE  /\ proc[x].pc # "idle"
           /\ \A y \in Procs \ {x} : proc'[y] = proc[y]
           /\ \A j \in Jobs \ {proc[x].job} : local'[j] = local[j]
           /\ \/ proc'[x] = IdleProc
              \/ proc'[x].pc # "idle" /\ proc'[x].job = proc[x].job
           /\ disk' = disk
<1>0. proc \in [Procs -> ProcRec] /\ local \in [Jobs -> FilesRec] /\ proc[x] \in ProcRec
  BY DEF TypeInv
<1> DEFINE Moved == /\ \A y \in Procs \ {x} : proc'[y] = proc[y]
                    /\ proc'[x].pc # "idle" /\ proc'[x].job = proc[x].job
           Ended == /\ \A y \in Procs \ {x} : proc'[y] = proc[y]
                    /\ proc'[x] = IdleProc
           Kept == \A j \in Jobs \ {proc[x].job} : local'[j] = local[j]
<1>1. Leave(x) => Ended
  BY <1>0 DEF Leave
<1>2. UNCHANGED local => Kept
  OBVIOUS
<1>3. \A a \in PCs \ {"idle"} : proc' = [proc EXCEPT ![x].pc = a] => Moved
  BY <1>0 DEF ProcRec
<1>4. CASE Settle(x) \/ Publish(x)
  <2>1. Moved
    BY <1>0, <1>4 DEF Settle, Publish, ProcRec
  <2> QED BY <1>4, <2>1 DEF Settle, Publish
<1>5. CASE ApplyBatch(x)
  <2>1. Moved
    BY <1>0, <1>5 DEF ApplyBatch, ProcRec
  <2> QED BY <1>5, <2>1 DEF ApplyBatch
<1>6. CASE ApplyEnd(x)
  <2>1. Moved \/ Ended
    BY <1>1, <1>3, <1>6 DEF ApplyEnd, PCs
  <2> QED BY <1>6, <2>1 DEF ApplyEnd
<1>7. CASE OpenFinished(x)
  <2>1. Moved \/ Ended
    BY <1>1, <1>3, <1>7 DEF OpenFinished, PCs
  <2> QED BY <1>7, <2>1 DEF OpenFinished
<1>8. CASE Open(x)
  <2>1. Moved
    BY <1>0, <1>8 DEF Open, ProcRec
  <2>2. Kept
    BY <1>0, <1>8 DEF Open
  <2> QED BY <1>8, <2>1, <2>2 DEF Open
<1>9. CASE OpenRefused(x)
  <2>1. Ended
    BY <1>1, <1>9 DEF OpenRefused
  <2>2. Kept
    BY <1>0, <1>9 DEF OpenRefused
  <2> QED BY <1>9, <2>1, <2>2 DEF OpenRefused
<1>10. CASE CancelJob(x)
  <2>1. Moved \/ Ended
    BY <1>1, <1>3, <1>10 DEF CancelJob, PCs
  <2> QED BY <1>10, <2>1 DEF CancelJob
<1>11. CASE Checkpoint(x)
  <2>1. Moved \/ Ended
    <3>1. CASE proc[x].after = "paused"
      BY <1>1, <1>11, <3>1 DEF Checkpoint
    <3>2. CASE proc[x].after # "paused"
      <4>1. proc[x].after \in {"walk", "finish"}
        BY <1>0, <1>11, <3>2 DEF KeptInv, Checkpoint, ProcRec
      <4> QED BY <1>0, <1>11, <3>2, <4>1 DEF Checkpoint, ProcRec
    <3> QED BY <3>1, <3>2
  <2>2. Kept
    BY <1>0, <1>11 DEF Checkpoint
  <2> QED BY <1>11, <2>1, <2>2 DEF Checkpoint
<1>12. CASE CheckpointDue(x) \/ Pause(x) \/ \E bad \in BOOLEAN : EndWalk(x, bad)
  <2>1. Moved
    <3>1. CASE CheckpointDue(x)
      BY <1>0, <3>1 DEF CheckpointDue, ProcRec
    <3>2. CASE Pause(x)
      BY <1>0, <3>2 DEF Pause, ProcRec
    <3>3. ASSUME NEW bad \in BOOLEAN, EndWalk(x, bad) PROVE Moved
      BY <1>0, <3>3 DEF EndWalk, ProcRec
    <3> QED BY <1>12, <3>1, <3>2, <3>3
  <2>2. proc[x].pc = "walk" /\ UNCHANGED <<disk, local>>
    BY <1>12 DEF CheckpointDue, Pause, EndWalk, At
  <2> QED BY <2>1, <2>2
<1>13. ASSUME NEW p \in Paths, Skip(x, p)
       PROVE  Moved /\ proc[x].pc = "walk" /\ UNCHANGED <<disk, local>>
  BY <1>0, <1>13 DEF Skip, At, ProcRec
<1>14. ASSUME NEW p \in Paths, Unchanged(x, p) \/ Unreadable(x, p) \/ Read(x, p)
       PROVE  Moved /\ proc[x].pc = "walk" /\ UNCHANGED <<disk, local>>
  <2>1. CASE Unchanged(x, p)
    BY <1>0, <2>1 DEF Unchanged, Decide, At, ProcRec
  <2>2. CASE Unreadable(x, p)
    BY <1>0, <2>2 DEF Unreadable, Decide, At, ProcRec
  <2>3. CASE Read(x, p)
    BY <1>0, <2>3 DEF Read, Decide, At, ProcRec
  <2> QED BY <1>14, <2>1, <2>2, <2>3
<1>15. CASE Finish(x)
  <2>1. Moved
    BY <1>0, <1>15 DEF Finish, ProcRec
  <2>2. Kept
    BY <1>0, <1>15 DEF Finish
  <2> QED BY <1>15, <2>1, <2>2 DEF Finish
<1>16. CASE AppendBatch(x)
  <2>1. Moved
    BY <1>0, <1>16 DEF AppendBatch, IdleProc
  <2> QED BY <1>16, <2>1 DEF AppendBatch
<1>17. CASE Cleanup(x)
  <2>1. Moved \/ Ended
    BY <1>1, <1>17 DEF Cleanup
  <2>2. Kept
    BY <1>0, <1>17 DEF Cleanup
  <2> QED BY <1>17, <2>1, <2>2 DEF Cleanup
<1>18. CASE Crash(x)
  <2>1. Ended
    BY <1>1, <1>18 DEF Crash
  <2>2. Kept
    BY <1>0, <1>18 DEF Crash
  <2> QED BY <1>18, <2>1, <2>2 DEF Crash
<1> QED BY <1>4, <1>5, <1>6, <1>7, <1>8, <1>9, <1>10, <1>11, <1>12, <1>13, <1>14, <1>15, <1>16,
           <1>17, <1>18 DEF Step

\* A lock is taken by a command that starts and kept until the process ends.
LEMMA LockStep ==
    ASSUME TypeInv, LockInv, KeptInv, Next
    PROVE  LockInv'
<1>0. proc \in [Procs -> ProcRec] /\ IdleProc.pc = "idle" /\ IdleProc.job = None
  BY DEF TypeInv, IdleProc
<1>1. ASSUME NEW x \in Procs, Step(x) \/ Pause(x) \/ Crash(x)
      PROVE  LockInv'
  BY <1>0, <1>1, Frame DEF LockInv
<1>2. ASSUME NEW x \in Procs, NEW j \in Jobs, NEW c \in BOOLEAN, Start(x, j, c)
      PROVE  LockInv'
  <2>1. /\ \A y \in Procs \ {x} : proc'[y] = proc[y] /\ proc[y].job # j
        /\ proc'[x].pc = "settle" /\ proc'[x].job = j
    BY <1>0, <1>2 DEF Start, Locked, IdleProc
  <2>2. j # None
    BY NoneIsNothing
  <2> QED BY <2>1, <2>2 DEF LockInv
<1>3. ASSUME NEW p \in Paths, NEW h \in Hashes \cup {None}, Edit(p, h)
      PROVE  LockInv'
  <2>1. \A x \in Procs : proc'[x].pc = proc[x].pc /\ proc'[x].job = proc[x].job
    BY <1>0, <1>3 DEF Edit, ProcRec
  <2> QED BY <2>1 DEF LockInv
<1>4. CASE Rebuild
  BY <1>4 DEF Rebuild, LockInv
<1> QED BY <1>1, <1>2, <1>3, <1>4 DEF Next

\* Which steps lead to the places where a process relies on something.
LEMMA Enters ==
    ASSUME TypeInv, KeptInv, NEW x \in Procs, Step(x) \/ Pause(x) \/ Crash(x)
    PROVE  /\ proc'[x].pc = "apply" => Settle(x) \/ Publish(x) \/ ApplyBatch(x)
           /\ proc'[x].pc = "open" => ApplyEnd(x)
           /\ proc'[x].pc = "checkpoint" =>
                 Open(x) \/ CheckpointDue(x) \/ Pause(x) \/ \E bad \in BOOLEAN : EndWalk(x, bad)
           /\ proc'[x].pc = "walk" =>
                 \/ Checkpoint(x)
                 \/ \E p \in Paths : Skip(x, p) \/ Unchanged(x, p) \/ Unreadable(x, p) \/ Read(x, p)
           /\ proc'[x].pc = "finish" => Checkpoint(x)
           /\ proc'[x].pc = "append" => Finish(x)
<1>0. proc \in [Procs -> ProcRec] /\ proc[x] \in ProcRec
  BY DEF TypeInv
<1>1. Leave(x) => proc'[x].pc = "idle"
  BY <1>0 DEF Leave, IdleProc
<1>2. \A a : proc' = [proc EXCEPT ![x].pc = a] => proc'[x].pc = a
  BY <1>0 DEF ProcRec
<1>3. Settle(x) \/ Publish(x) \/ ApplyBatch(x) => proc'[x].pc = "apply"
  <2>1. Settle(x) \/ Publish(x) => proc'[x].pc = "apply"
    BY <1>0 DEF Settle, Publish, ProcRec
  <2>2. ApplyBatch(x) => proc'[x].pc = "apply"
    BY <1>0 DEF ApplyBatch, ProcRec
  <2> QED BY <2>1, <2>2
<1>4. ApplyEnd(x) => proc'[x].pc \in {"idle", "open", "cleanup"}
  BY <1>1, <1>2 DEF ApplyEnd
<1>5. OpenFinished(x) \/ CancelJob(x) => proc'[x].pc \in {"idle", "cleanup"}
  BY <1>1, <1>2 DEF OpenFinished, CancelJob
<1>6. OpenRefused(x) \/ Crash(x) => proc'[x].pc = "idle"
  BY <1>1 DEF OpenRefused, Crash
<1>7. Checkpoint(x) => proc'[x].pc \in {"idle", "walk", "finish"}
  <2> SUFFICES ASSUME Checkpoint(x) PROVE proc'[x].pc \in {"idle", "walk", "finish"}
    OBVIOUS
  <2>1. CASE proc[x].after = "paused"
    BY <1>1, <2>1 DEF Checkpoint
  <2>2. CASE proc[x].after # "paused"
    <3>1. proc[x].after \in {"walk", "finish"}
      BY <1>0, <2>2 DEF KeptInv, Checkpoint, ProcRec
    <3>2. proc' = [proc EXCEPT ![x] = [@ EXCEPT !.pc = proc[x].after, !.fresh = 0]]
      BY <2>2 DEF Checkpoint
    <3> QED BY <1>0, <3>1, <3>2 DEF ProcRec
  <2> QED BY <2>1, <2>2
<1>8. Open(x) => proc'[x].pc = "checkpoint"
  BY <1>0 DEF Open, ProcRec
<1>9. CheckpointDue(x) => proc'[x].pc = "checkpoint"
  BY <1>0 DEF CheckpointDue, ProcRec
<1>10. Pause(x) => proc'[x].pc = "checkpoint"
  BY <1>0 DEF Pause, ProcRec
<1>11. ASSUME NEW bad \in BOOLEAN, EndWalk(x, bad)
       PROVE  proc'[x].pc = "checkpoint"
  BY <1>0, <1>11 DEF EndWalk, ProcRec
<1>12. ASSUME NEW p \in Paths, Skip(x, p)
       PROVE  proc'[x].pc = "walk"
  BY <1>0, <1>12 DEF Skip, At, ProcRec
<1>13. ASSUME NEW p \in Paths, Unchanged(x, p)
       PROVE  proc'[x].pc = "walk"
  BY <1>0, <1>13 DEF Unchanged, Decide, At, ProcRec
<1>14. ASSUME NEW p \in Paths, Unreadable(x, p)
       PROVE  proc'[x].pc = "walk"
  BY <1>0, <1>14 DEF Unreadable, Decide, At, ProcRec
<1>15. ASSUME NEW p \in Paths, Read(x, p)
       PROVE  proc'[x].pc = "walk"
  BY <1>0, <1>15 DEF Read, Decide, At, ProcRec
<1>16. Finish(x) => proc'[x].pc = "append"
  BY <1>0 DEF Finish, ProcRec
<1>17. AppendBatch(x) => proc'[x].pc = "publish"
  BY <1>0 DEF AppendBatch, IdleProc
<1>18. Cleanup(x) => proc'[x].pc \in {"idle", "cleanup"}
  BY <1>0, <1>1 DEF Cleanup
<1> QED BY <1>3, <1>4, <1>5, <1>6, <1>7, <1>8, <1>9, <1>10, <1>11, <1>12, <1>13, <1>14, <1>15,
           <1>16, <1>17, <1>18 DEF Step

\* The log grows by the step that publishes a job, and only then.
LEMMA LogGrows ==
    ASSUME NEW x \in Procs, Step(x) \/ Pause(x) \/ Crash(x)
    PROVE  AppendBatch(x) \/ log' = log
BY DEF Step, Pause, Crash, Settle, ApplyBatch, ApplyEnd, OpenFinished, Open, OpenRefused,
       CancelJob, Checkpoint, CheckpointDue, Skip, Unchanged, Unreadable, Read, Decide, EndWalk,
       Finish, Publish, Cleanup

\* The batch that a step appends.
LEMMA Appended ==
    ASSUME TypeInv, LockInv, NEW x \in Procs, AppendBatch(x)
    PROVE  LET b == [job |-> proc[x].job, items |-> local[proc[x].job].spool]
           IN  /\ log' = Append(log, b) /\ Len(log') = Len(log) + 1 /\ Len(log) \in Nat
               /\ \A n \in 1 .. Len(log) : log'[n] = log[n]
               /\ log'[Len(log) + 1] = b
               /\ log'[Len(log) + 1].job = proc[x].job
               /\ log'[Len(log) + 1].items = local[proc[x].job].spool
<1> DEFINE b == [job |-> proc[x].job, items |-> local[proc[x].job].spool]
<1>1. log' = Append(log, b)
  BY DEF AppendBatch
<1>2. b \in BatchRec /\ log \in Seq(BatchRec)
  <2>1. proc[x].job \in Jobs /\ local[proc[x].job].spool \in Seq(Items)
    BY Busy DEF AppendBatch
  <2> QED BY <2>1 DEF BatchRec, TypeInv
<1>3. /\ Len(log') = Len(log) + 1 /\ Len(log) \in Nat
      /\ \A n \in 1 .. Len(log) : log'[n] = log[n]
      /\ log'[Len(log) + 1] = b
  BY <1>1, <1>2, AppendProperties, LenProperties
<1> QED BY <1>1, <1>3

-----------------------------------------------------------------------------
(* The log holds finished spools.                                          *)

\* What a process appends is a finished spool, and the log keeps it.
LEMMA LogStep ==
    ASSUME TypeInv, LockInv, LogInv, FilesInv, KeptInv, Next
    PROVE  LogInv'
<1>0. proc \in [Procs -> ProcRec] /\ Len(log) \in Nat
  BY DEF TypeInv
<1>1. ASSUME NEW x \in Procs, Step(x) \/ Pause(x) \/ Crash(x)
      PROVE  LogInv'
  <2>1. \A n \in 1 .. Len(log') : GoodItems(log'[n].items)
    <3>1. CASE AppendBatch(x)
      <4>1. GoodItems(local[proc[x].job].spool)
        BY <3>1 DEF AppendBatch, LogInv
      <4>2. /\ Len(log') = Len(log) + 1
            /\ \A n \in 1 .. Len(log) : log'[n] = log[n]
            /\ log'[Len(log) + 1].items = local[proc[x].job].spool
        BY <3>1, Appended
      <4>3. \A n \in 1 .. Len(log) + 1 : n \in 1 .. Len(log) \/ n = Len(log) + 1
        BY <1>0
      <4> QED BY <4>1, <4>2, <4>3 DEF LogInv
    <3>2. CASE log' = log
      BY <3>2 DEF LogInv
    <3> QED BY <1>1, <3>1, <3>2, LogGrows
  <2>2. ASSUME NEW y \in Procs, y # x, proc'[y].pc = "append"
        PROVE  GoodItems(proc'[y].items) /\ local'[proc'[y].job].spool = proc'[y].items
    <3>1. proc'[y] = proc[y] /\ proc[y].pc = "append"
      BY <1>1, <2>2, Frame
    <3>2. proc[y].job \in Jobs \ {proc[x].job}
      BY <1>1, <2>2, <3>1, Busy, Frame
    <3>3. local'[proc[y].job] = local[proc[y].job]
      BY <1>1, <3>2, Frame
    <3> QED BY <3>1, <3>3 DEF LogInv
  <2>3. ASSUME proc'[x].pc = "append"
        PROVE  GoodItems(proc'[x].items) /\ local'[proc'[x].job].spool = proc'[x].items
    <3> DEFINE w == proc[x]
               status == IF w.job \in ScanJobs /\ ~CompleteSafe(w) THEN "partial" ELSE "complete"
               end == Completed(status, MissingCandidates(w))
               all == Append(w.items, end)
    <3>1. Finish(x)
      BY <1>1, <2>3, Enters
    <3>2. w.job \in Jobs /\ w \in ProcRec /\ w.items \in Seq(Items)
      BY <3>1, Busy DEF Finish
    <3>3. /\ end \in Items /\ end.kind = "completed"
          /\ end.missing = MissingCandidates(w)
      <4>1. status \in Terminal /\ MissingCandidates(w) \in SUBSET Paths
        BY DEF Terminal, MissingCandidates
      <4> QED BY <4>1, ItemsMade
    <3>4. /\ proc' = [proc EXCEPT ![x] = [@ EXCEPT !.pc = "append", !.items = all]]
          /\ local' = [local EXCEPT ![w.job].spool = all]
      BY <3>1 DEF Finish
    <3>5. DecidesOnce(w.items) /\ Decided(w.items) \subseteq w.seen
      BY <3>1 DEF FilesInv, WorkOK, Finish, Accounted
    <3> HIDE DEF end
    <3>6. DecidesOnce(all) /\ Decided(all) = Decided(w.items)
      BY <3>2, <3>3, <3>5, DecidedAppend DEF Decides
    <3>7. all # <<>> /\ Last(all) = end
      <4>1. Len(all) = Len(w.items) + 1 /\ all[Len(w.items) + 1] = end /\ Len(w.items) \in Nat
        BY <3>2, <3>3, AppendProperties, LenProperties
      <4> QED BY <4>1 DEF Last
    <3>8. MissingCandidates(w) \cap w.seen = {}
      BY DEF MissingCandidates
    <3>9. GoodItems(all)
      BY <3>3, <3>5, <3>6, <3>7, <3>8 DEF GoodItems
    <3> HIDE DEF all
    <3>10. proc'[x].items = all /\ proc'[x].job = w.job
      BY <1>0, <3>4 DEF ProcRec
    <3>11. local'[w.job].spool = all
      BY <3>2, <3>4 DEF TypeInv, FilesRec
    <3> QED BY <3>9, <3>10, <3>11
  <2> QED BY <2>1, <2>2, <2>3 DEF LogInv
<1>2. ASSUME NEW x \in Procs, NEW j \in Jobs, NEW c \in BOOLEAN, Start(x, j, c)
      PROVE  LogInv'
  <2>1. /\ \A y \in Procs \ {x} : proc'[y] = proc[y]
        /\ proc'[x].pc = "settle" /\ UNCHANGED <<log, local>>
    BY <1>0, <1>2 DEF Start, IdleProc
  <2> QED BY <2>1 DEF LogInv
<1>3. ASSUME NEW p \in Paths, NEW h \in Hashes \cup {None}, Edit(p, h)
      PROVE  LogInv'
  <2>1. /\ UNCHANGED <<log, local>>
        /\ \A x \in Procs : /\ proc'[x].pc = proc[x].pc /\ proc'[x].job = proc[x].job
                             /\ proc'[x].items = proc[x].items
    BY <1>0, <1>3 DEF Edit, ProcRec
  <2> QED BY <2>1 DEF LogInv
<1>4. CASE Rebuild
  BY <1>4 DEF Rebuild, LogInv
<1> QED BY <1>1, <1>2, <1>3, <1>4 DEF Next

-----------------------------------------------------------------------------
(* Cursor, records and log.                                                *)

\* What one transaction of apply does to the numbers and the rows.
LEMMA Applied ==
    ASSUME TypeInv, LogInv, OrderInv, NEW x \in Procs, ApplyBatch(x)
    PROVE  LET n == proc[x].next + 1
           IN  /\ n \in 1 .. Len(log) /\ n <= db.records + 1
               /\ db'.cursor = n /\ proc'[x].next = n
               /\ proc'[x].pc = "apply" /\ proc'[x].target = proc[x].target
               /\ proc'[x].job = proc[x].job
               /\ n <= db.records => /\ db'.records = db.records /\ db'.rows = db.rows
                                     /\ db'.ident = db.ident /\ db'.copies = db.copies
               /\ n = db.records + 1 =>
                     /\ db'.records = n /\ db'.rows = RowsAfter(db.rows, log[n])
                     /\ db'.ident = IdentAfter(db.ident, log[n])
                     /\ db'.copies = CopiesAfter(db.copies, log[n])
<1> DEFINE n == proc[x].next + 1
           d == IF n > db.records THEN Project(db, log[n]) ELSE db
<1>0. /\ proc \in [Procs -> ProcRec] /\ proc[x] \in ProcRec /\ db \in DbRec /\ Len(log) \in Nat
      /\ proc[x].next \in Nat /\ proc[x].target \in Nat /\ db.records \in Nat
  BY DEF TypeInv, ProcRec, DbRec
<1>1. n \in 1 .. Len(log) /\ n <= db.records + 1 /\ proc[x].pc = "apply"
  BY <1>0 DEF ApplyBatch, OrderInv
<1>2. /\ db' = [d EXCEPT !.records = IF n > @ THEN n ELSE @, !.cursor = n]
      /\ proc' = [proc EXCEPT ![x].next = n]
  BY DEF ApplyBatch
<1>3. /\ proc'[x].next = n /\ proc'[x].pc = "apply" /\ proc'[x].target = proc[x].target
      /\ proc'[x].job = proc[x].job
  BY <1>0, <1>1, <1>2 DEF ProcRec
<1>4. /\ n <= db.records => d = db
      /\ n = db.records + 1 => d = Project(db, log[n])
  BY <1>0, <1>1
<1>5. /\ Project(db, log[n]) \in DbRec
      /\ Project(db, log[n]).records = db.records
      /\ Project(db, log[n]).rows = RowsAfter(db.rows, log[n])
      /\ Project(db, log[n]).ident = IdentAfter(db.ident, log[n])
      /\ Project(db, log[n]).copies = CopiesAfter(db.copies, log[n])
  BY <1>0, <1>1, Batches, ProjectType DEF Project, DbRec
<1> HIDE DEF n, d
<1>6. n \in Nat /\ (n <= db.records \/ n = db.records + 1)
  BY <1>0, <1>1
<1>7. d \in DbRec /\ d.records = db.records
  BY <1>0, <1>4, <1>5, <1>6
<1>8. /\ db'.records = (IF n > db.records THEN n ELSE db.records) /\ db'.cursor = n
      /\ db'.rows = d.rows /\ db'.ident = d.ident /\ db'.copies = d.copies
  BY <1>2, <1>7 DEF DbRec
<1>9. n <= db.records => /\ db'.records = db.records /\ db'.rows = db.rows
                         /\ db'.ident = db.ident /\ db'.copies = db.copies
  BY <1>0, <1>4, <1>6, <1>8
<1>10. n = db.records + 1 =>
          /\ db'.records = n /\ db'.rows = RowsAfter(db.rows, log[n])
          /\ db'.ident = IdentAfter(db.ident, log[n])
          /\ db'.copies = CopiesAfter(db.copies, log[n])
  BY <1>0, <1>4, <1>5, <1>6, <1>8
<1> QED BY <1>1, <1>3, <1>8, <1>9, <1>10 DEF n

\* The database changes by apply, by the two commands that write a row of
\* their job, and by a rebuild.
LEMMA RowWritten ==
    ASSUME TypeInv, LockInv, NEW x \in Procs, Step(x) \/ Pause(x) \/ Crash(x), ~ApplyBatch(x)
    PROVE  /\ db'.records = db.records /\ db'.cursor = db.cursor
           /\ db'.ident = db.ident /\ db'.copies = db.copies
           /\ \A j \in Jobs \ {proc[x].job} : db'.rows[j] = db.rows[j]
           /\ \/ db' = db
              \/ /\ Open(x) \/ OpenRefused(x)
                 /\ db.rows[proc[x].job] \in {"none", "running"}
                 /\ db'.rows[proc[x].job] = "running"
              \/ /\ CancelJob(x)
                 /\ db.rows[proc[x].job] \in {"none", "running", "cancelled"}
                 /\ db'.rows[proc[x].job] \in {"none", "cancelled"}
                 /\ db.rows[proc[x].job] = "none" => db'.rows[proc[x].job] = "none"
<1>0. db \in DbRec
  BY DEF TypeInv
<1>1. CASE Open(x) \/ OpenRefused(x)
  <2>1. proc[x].job \in Jobs
    BY <1>1, Busy DEF Open, OpenRefused
  <2>2. \/ db' = db
        \/ /\ db' = [db EXCEPT !.rows[proc[x].job] = "running"]
           /\ db.rows[proc[x].job] \in {"none", "running"}
    BY <1>1 DEF Open, OpenRefused
  <2> QED BY <1>0, <1>1, <2>1, <2>2 DEF DbRec
<1>2. CASE CancelJob(x)
  <2>1. proc[x].job \in Jobs
    BY <1>2, Busy DEF CancelJob
  <2>2. \/ db' = db
        \/ /\ db.rows[proc[x].job] \in {"none", "running", "cancelled"}
           /\ db' = [db EXCEPT !.rows[proc[x].job] = IF @ = "none" THEN @ ELSE "cancelled"]
    BY <1>2 DEF CancelJob, Cancellable
  <2> QED BY <1>0, <1>2, <2>1, <2>2 DEF DbRec
<1>3. CASE db' = db
  BY <1>3
<1>4. \/ db' = db \/ Open(x) \/ OpenRefused(x) \/ CancelJob(x)
  BY DEF Step, Pause, Crash, Settle, ApplyEnd, OpenFinished, Checkpoint, CheckpointDue, Skip,
         Unchanged, Unreadable, Read, Decide, EndWalk, Finish, AppendBatch, Publish, Cleanup
<1> QED BY <1>1, <1>2, <1>3, <1>4

\* No process applies beyond the first batch that the database lacks.
LEMMA OrderStep ==
    ASSUME TypeInv, LockInv, LogInv, OrderInv, KeptInv, Next
    PROVE  OrderInv'
<1>0. /\ proc \in [Procs -> ProcRec] /\ Len(log) \in Nat
      /\ db.records \in Nat /\ db.cursor \in Nat
      /\ \A y \in Procs : proc[y].next \in Nat /\ proc[y].target \in Nat
  BY DEF TypeInv, ProcRec, DbRec
<1>1. ASSUME NEW x \in Procs, Step(x) \/ Pause(x) \/ Crash(x)
      PROVE  OrderInv'
  <2>1. CASE ApplyBatch(x)
    <3> DEFINE n == proc[x].next + 1
    <3>1. /\ n \in 1 .. Len(log) /\ n <= db.records + 1
          /\ db'.cursor = n /\ proc'[x].next = n /\ proc'[x].target = proc[x].target
          /\ n <= db.records => db'.records = db.records
          /\ n = db.records + 1 => db'.records = n
      BY <2>1, Applied
    <3>2. log' = log /\ proc[x].pc = "apply"
      BY <2>1 DEF ApplyBatch
    <3> HIDE DEF n
    <3>3. /\ db'.records >= db.records /\ db'.records <= Len(log') /\ db'.records \in Nat
          /\ n <= db'.records
      BY <1>0, <3>1, <3>2 DEF OrderInv
    <3>4. ASSUME NEW y \in Procs, proc'[y].pc = "apply"
          PROVE  proc'[y].next <= db'.records /\ proc'[y].target <= Len(log')
      <4>1. CASE y = x
        BY <3>1, <3>2, <3>3, <4>1 DEF OrderInv
      <4>2. CASE y # x
        <5>1. proc'[y] = proc[y]
          BY <1>1, <4>2, Frame
        <5> QED BY <1>0, <3>2, <3>3, <3>4, <5>1 DEF OrderInv
      <4> QED BY <4>1, <4>2
    <3> QED BY <3>1, <3>3, <3>4 DEF OrderInv
  <2>2. CASE ~ApplyBatch(x)
    <3>1. db'.records = db.records /\ db'.cursor = db.cursor
      BY <1>1, <2>2, RowWritten
    <3>2. Len(log') \in Nat /\ Len(log) <= Len(log')
      <4>1. CASE AppendBatch(x)
        <5>1. Len(log') = Len(log) + 1
          BY <4>1, Appended
        <5> QED BY <1>0, <5>1
      <4>2. CASE log' = log
        BY <1>0, <4>2
      <4> QED BY <1>1, <4>1, <4>2, LogGrows
    <3>3. ASSUME NEW y \in Procs, proc'[y].pc = "apply"
          PROVE  proc'[y].next <= db'.records /\ proc'[y].target <= Len(log')
      <4>1. CASE y = x
        <5>1. Settle(x) \/ Publish(x)
          BY <1>1, <2>2, <3>3, <4>1, Enters
        <5>2. proc'[x].next = db.cursor /\ proc'[x].target = Len(log)
          BY <1>0, <5>1 DEF Settle, Publish, ProcRec
        <5> QED BY <1>0, <3>1, <3>2, <4>1, <5>2 DEF OrderInv
      <4>2. CASE y # x
        <5>1. proc'[y] = proc[y]
          BY <1>1, <4>2, Frame
        <5> QED BY <1>0, <3>1, <3>2, <3>3, <5>1 DEF OrderInv
      <4> QED BY <4>1, <4>2
    <3> QED BY <1>0, <3>1, <3>2, <3>3 DEF OrderInv
  <2> QED BY <2>1, <2>2
<1>2. ASSUME NEW x \in Procs, NEW j \in Jobs, NEW c \in BOOLEAN, Start(x, j, c)
      PROVE  OrderInv'
  <2>1. /\ \A y \in Procs \ {x} : proc'[y] = proc[y]
        /\ proc'[x].pc = "settle" /\ UNCHANGED <<log, db>>
    BY <1>0, <1>2 DEF Start, IdleProc
  <2> QED BY <2>1 DEF OrderInv
<1>3. ASSUME NEW p \in Paths, NEW h \in Hashes \cup {None}, Edit(p, h)
      PROVE  OrderInv'
  <2>1. /\ UNCHANGED <<log, db>>
        /\ \A x \in Procs : /\ proc'[x].pc = proc[x].pc /\ proc'[x].next = proc[x].next
                             /\ proc'[x].target = proc[x].target
    BY <1>0, <1>3 DEF Edit, ProcRec
  <2> QED BY <2>1 DEF OrderInv
<1>4. CASE Rebuild
  <2>1. /\ db'.records = Len(log) /\ db'.cursor = Len(log) /\ UNCHANGED <<log, proc>>
        /\ \A x \in Procs : proc[x].pc = "idle"
    BY <1>4 DEF Rebuild, Replayed
  <2> QED BY <1>0, <2>1 DEF OrderInv
<1> QED BY <1>1, <1>2, <1>3, <1>4 DEF Next

-----------------------------------------------------------------------------
(* Rows and the log.                                                       *)

\* A process at work was at work before, or opens its job now.
LEMMA AtWork ==
    ASSUME TypeInv, LockInv, KeptInv, NEW x \in Procs, Step(x) \/ Pause(x) \/ Crash(x),
           proc'[x].pc \in {"checkpoint", "walk", "finish", "append"}, ~Open(x)
    PROVE  /\ proc[x].pc \in {"checkpoint", "walk", "finish"}
           /\ UNCHANGED <<db, log>> /\ proc'[x].job = proc[x].job
<1>1. \/ CheckpointDue(x) \/ Pause(x) \/ (\E bad \in BOOLEAN : EndWalk(x, bad))
      \/ Checkpoint(x) \/ Finish(x)
      \/ \E p \in Paths : Skip(x, p) \/ Unchanged(x, p) \/ Unreadable(x, p) \/ Read(x, p)
  BY Enters
<1>2. proc[x].pc \in {"checkpoint", "walk", "finish"} /\ UNCHANGED <<db, log>>
  BY <1>1 DEF CheckpointDue, Pause, EndWalk, Checkpoint, Finish, Skip, Unchanged, Unreadable,
              Read, Decide, At
<1>3. proc'[x].job = proc[x].job
  BY Frame DEF IdleProc
<1> QED BY <1>2, <1>3

\* A job whose row is not final has no batch among the applied ones; when it
\* is about to be opened or cancelled, it has none at all.
LEMMA OpenRow ==
    ASSUME TypeInv, LockInv, LogInv, OrderInv, RowsInv, NEW x \in Procs, proc[x].pc = "open",
           db.rows[proc[x].job] \notin Terminal
    PROVE  Unpublished(proc[x].job)
<1> SUFFICES ASSUME NEW n \in 1 .. Len(log), log[n].job = proc[x].job PROVE FALSE
  BY DEF Unpublished
<1>1. n <= db.records
  BY DEF RowsInv
<1>2. proc[x].job \in Jobs /\ db.records \in Nat /\ Len(log) \in Nat
  BY Busy DEF TypeInv, DbRec
<1>3. n \in 1 .. db.records
  BY <1>1, <1>2
<1> QED BY <1>2, <1>3 DEF RowsInv

\* Apply writes final rows, of published jobs only.
LEMMA RowsByApply ==
    ASSUME TypeInv, LogInv, OrderInv, NEW x \in Procs, ApplyBatch(x), NEW j \in Jobs
    PROVE  db'.rows[j] = db.rows[j] \/ (db'.rows[j] \in Terminal /\ ~Unpublished(j))
<1> DEFINE n == proc[x].next + 1
<1>1. /\ n \in 1 .. Len(log)
      /\ db'.rows = db.rows \/ db'.rows = RowsAfter(db.rows, log[n])
  <2>1. /\ n \in 1 .. Len(log) /\ n <= db.records + 1
        /\ n <= db.records => db'.rows = db.rows
        /\ n = db.records + 1 => db'.rows = RowsAfter(db.rows, log[n])
    BY Applied
  <2>2. db.records \in Nat /\ Len(log) \in Nat
    BY DEF TypeInv, DbRec
  <2> QED BY <2>1, <2>2
<1> HIDE DEF n
<1>2. Outcome(log[n]).status \in Terminal
  BY <1>1, Batches, OutcomeType
<1> QED BY <1>1, <1>2 DEF RowsAfter, Unpublished

\* What a step does to the rows of jobs that are not its own.
LEMMA OtherRows ==
    ASSUME TypeInv, LockInv, LogInv, OrderInv, NEW x \in Procs,
           Step(x) \/ Pause(x) \/ Crash(x), NEW j \in Jobs, j # proc[x].job
    PROVE  db'.rows[j] = db.rows[j] \/ (db'.rows[j] \in Terminal /\ ~Unpublished(j))
BY RowsByApply, RowWritten

\* Rows and batches agree after every step.
LEMMA RowsStep ==
    ASSUME TypeInv, LockInv, LogInv, OrderInv, RowsInv, KeptInv, Next
    PROVE  RowsInv'
<1>0. /\ proc \in [Procs -> ProcRec] /\ db \in DbRec /\ Len(log) \in Nat
      /\ db.records \in Nat /\ db.cursor \in Nat
      /\ \A y \in Procs : proc[y].next \in Nat /\ proc[y].target \in Nat
  BY DEF TypeInv, ProcRec, DbRec
<1>1. ASSUME NEW x \in Procs, Step(x) \/ Pause(x) \/ Crash(x)
      PROVE  RowsInv'
  <2>0. /\ proc[x].pc # "idle" /\ proc[x].job \in Jobs /\ proc[x].job # None
        /\ \A y \in Procs : y # x => proc[y].job # proc[x].job
    BY <1>1, Frame, Busy
  <2>1. /\ Len(log') \in Nat /\ Len(log) <= Len(log')
        /\ \A n \in 1 .. Len(log) : log'[n] = log[n]
        /\ \A n \in 1 .. Len(log') : n \in 1 .. Len(log) \/
              (AppendBatch(x) /\ n = Len(log) + 1 /\ log'[n].job = proc[x].job)
    <3>1. CASE AppendBatch(x)
      <4>1. /\ Len(log') = Len(log) + 1 /\ \A n \in 1 .. Len(log) : log'[n] = log[n]
            /\ log'[Len(log) + 1].job = proc[x].job
        BY <3>1, Appended
      <4> QED BY <1>0, <3>1, <4>1
    <3>2. CASE log' = log
      BY <1>0, <3>2
    <3> QED BY <1>1, <3>1, <3>2, LogGrows
  <2>2. AppendBatch(x) => /\ Unpublished(proc[x].job) /\ db.rows[proc[x].job] = "running"
                          /\ db' = db /\ proc'[x].pc = "publish"
    BY <1>0 DEF AppendBatch, RowsInv, IdleProc
  <2>3. db'.records \in Nat /\ db.records <= db'.records /\ db'.records <= Len(log)
    <3>1. CASE ApplyBatch(x)
      <4> DEFINE n == proc[x].next + 1
      <4>1. /\ n \in 1 .. Len(log) /\ n <= db.records + 1
            /\ n <= db.records => db'.records = db.records
            /\ n = db.records + 1 => db'.records = n
        BY <3>1, Applied
      <4> HIDE DEF n
      <4> QED BY <1>0, <4>1 DEF OrderInv
    <3>2. CASE ~ApplyBatch(x)
      <4>1. db'.records = db.records
        BY <1>1, <3>2, RowWritten
      <4> QED BY <1>0, <4>1 DEF OrderInv
    <3> QED BY <3>1, <3>2
  <2>4. \A m, n \in 1 .. Len(log') : log'[m].job = log'[n].job => m = n
    BY <1>0, <2>1, <2>2 DEF RowsInv, Unpublished
  <2>5. ASSUME NEW n \in 1 .. db'.records, log'[n].job \in Jobs
        PROVE  db'.rows[log'[n].job] \in Terminal
    <3>0. n \in 1 .. Len(log) /\ log'[n] = log[n]
      BY <1>0, <2>1, <2>3
    <3>1. CASE n <= db.records
      <4>1. db.rows[log[n].job] \in Terminal
        BY <1>0, <2>5, <3>0, <3>1 DEF RowsInv
      <4>2. CASE log[n].job # proc[x].job
        BY <1>1, <2>5, <3>0, <4>1, <4>2, OtherRows
      <4>3. CASE log[n].job = proc[x].job /\ ~ApplyBatch(x)
        BY <1>1, <3>0, <4>1, <4>3, RowWritten DEF Terminal
      <4>4. CASE ApplyBatch(x)
        BY <2>5, <3>0, <4>1, <4>4, RowsByApply
      <4> QED BY <4>2, <4>3, <4>4
    <3>2. CASE ~(n <= db.records)
      <4>1. ApplyBatch(x)
        BY <1>0, <1>1, <2>3, <3>2, RowWritten
      <4> DEFINE k == proc[x].next + 1
      <4>2. /\ k \in 1 .. Len(log) /\ k <= db.records + 1
            /\ k <= db.records => db'.records = db.records
            /\ k = db.records + 1 => db'.records = k /\ db'.rows = RowsAfter(db.rows, log[k])
        BY <4>1, Applied
      <4> HIDE DEF k
      <4>3. n = k /\ db'.rows = RowsAfter(db.rows, log[k])
        BY <1>0, <2>3, <3>2, <4>2
      <4>4. Outcome(log[k]).status \in Terminal
        BY <4>2, Batches, OutcomeType
      <4> QED BY <2>5, <3>0, <4>3, <4>4 DEF RowsAfter
    <3> QED BY <3>1, <3>2
  <2>6. ASSUME NEW j \in Jobs, db'.rows[j] = "cancelled"
        PROVE  Unpublished(j)'
    <3>1. Unpublished(j)
      <4>1. CASE db.rows[j] = "cancelled"
        BY <4>1 DEF RowsInv
      <4>2. CASE db.rows[j] # "cancelled"
        <5>1. j = proc[x].job /\ ~ApplyBatch(x)
          <6>1. j = proc[x].job
            BY <1>1, <2>6, <4>2, OtherRows DEF Terminal
          <6>2. ~ApplyBatch(x)
            BY <2>6, <4>2, RowsByApply DEF Terminal
          <6> QED BY <6>1, <6>2
        <5>2. /\ CancelJob(x)
              /\ db.rows[proc[x].job] \in {"none", "running", "cancelled"}
          BY <1>1, <2>6, <4>2, <5>1, RowWritten
        <5>3. proc[x].pc = "open"
          BY <5>2 DEF CancelJob
        <5> QED BY <5>1, <5>2, <5>3, OpenRow DEF Terminal
      <4> QED BY <4>1, <4>2
    <3>2. ~(AppendBatch(x) /\ j = proc[x].job)
      BY <2>2, <2>6
    <3> QED BY <2>1, <3>1, <3>2 DEF Unpublished
  <2>7. ASSUME NEW y \in Procs, NEW n \in 1 .. Len(log'), log'[n].job = proc'[y].job
        PROVE  /\ proc'[y].pc = "apply" => n <= proc'[y].target
               /\ proc'[y].pc = "open" => n <= db'.records
    <3>1. CASE y # x
      <4>1. proc'[y] = proc[y]
        BY <1>1, <3>1, Frame
      <4>2. n \in 1 .. Len(log) /\ log[n].job = proc[y].job
        BY <2>0, <2>1, <2>7, <3>1, <4>1
      <4> QED BY <1>0, <2>3, <4>1, <4>2 DEF RowsInv
    <3>2. CASE y = x /\ proc'[x].pc = "apply"
      <4>1. Settle(x) \/ Publish(x) \/ ApplyBatch(x)
        BY <1>1, <3>2, Enters
      <4>2. CASE Settle(x) \/ Publish(x)
        <5>1. proc'[x].target = Len(log) /\ log' = log
          BY <1>0, <4>2 DEF Settle, Publish, ProcRec
        <5> QED BY <1>0, <3>2, <5>1
      <4>3. CASE ApplyBatch(x)
        <5>1. /\ proc'[x].target = proc[x].target /\ proc'[x].job = proc[x].job
              /\ proc[x].pc = "apply" /\ log' = log
          BY <4>3, Applied DEF ApplyBatch
        <5> QED BY <2>7, <3>2, <5>1 DEF RowsInv
      <4> QED BY <4>1, <4>2, <4>3
    <3>3. CASE y = x /\ proc'[x].pc = "open"
      <4>1. ApplyEnd(x)
        BY <1>1, <3>3, Enters
      <4>2. /\ proc[x].pc = "apply" /\ log' = log /\ db' = db /\ ~Leave(x)
            /\ db.cursor = proc[x].target
        BY <1>0, <3>3, <4>1 DEF ApplyEnd, Leave, IdleProc
      <4>3. proc'[x].job = proc[x].job
        BY <1>1, <3>3, Frame DEF IdleProc
      <4>4. n <= proc[x].target
        BY <2>7, <3>3, <4>2, <4>3 DEF RowsInv
      <4> QED BY <1>0, <3>3, <4>2, <4>4 DEF OrderInv
    <3> QED BY <3>1, <3>2, <3>3
  <2>8. ASSUME NEW y \in Procs, proc'[y].pc \in {"checkpoint", "walk", "finish", "append"}
        PROVE  Unpublished(proc[y].job)' /\ db'.rows[proc'[y].job] = "running"
    <3>1. CASE y # x
      <4>1. proc'[y] = proc[y]
        BY <1>1, <3>1, Frame
      <4>2. Unpublished(proc[y].job) /\ db.rows[proc[y].job] = "running" /\ proc[y].job # proc[x].job
        BY <2>0, <2>8, <3>1, <4>1 DEF RowsInv
      <4>3. proc[y].job \in Jobs
        BY <2>8, <4>1, Busy
      <4>4. db'.rows[proc[y].job] = "running"
        BY <1>1, <4>2, <4>3, OtherRows
      <4> QED BY <2>1, <4>1, <4>2, <4>4 DEF Unpublished
    <3>2. CASE y = x /\ ~Open(x)
      <4>1. /\ proc[x].pc \in {"checkpoint", "walk", "finish"}
            /\ UNCHANGED <<db, log>> /\ proc'[x].job = proc[x].job
        BY <1>1, <2>8, <3>2, AtWork
      <4>2. Unpublished(proc[x].job) /\ db.rows[proc[x].job] = "running"
        BY <4>1 DEF RowsInv
      <4> QED BY <3>2, <4>1, <4>2 DEF Unpublished
    <3>3. CASE y = x /\ Open(x)
      <4>1. /\ proc[x].pc = "open" /\ db.rows[proc[x].job] \in {"none", "running"} /\ log' = log
            /\ db' = [db EXCEPT !.rows[proc[x].job] = "running"]
        BY <3>3 DEF Open
      <4>2. Unpublished(proc[x].job)
        BY <4>1, OpenRow DEF Terminal
      <4>3. proc'[x].job = proc[x].job
        BY <1>1, <2>8, <3>3, Frame DEF IdleProc
      <4>4. db'.rows[proc[x].job] = "running"
        BY <1>0, <2>0, <4>1 DEF DbRec
      <4> QED BY <3>3, <4>1, <4>2, <4>3, <4>4 DEF Unpublished
    <3> QED BY <3>1, <3>2, <3>3
  <2> QED BY <2>4, <2>5, <2>6, <2>7, <2>8 DEF RowsInv
<1>2. ASSUME NEW x \in Procs, NEW j \in Jobs, NEW c \in BOOLEAN, Start(x, j, c)
      PROVE  RowsInv'
  <2>1. /\ \A y \in Procs \ {x} : proc'[y] = proc[y]
        /\ proc'[x].pc = "settle" /\ UNCHANGED <<log, db>>
    BY <1>0, <1>2 DEF Start, IdleProc
  <2> QED BY <2>1 DEF RowsInv, Unpublished
<1>3. ASSUME NEW p \in Paths, NEW h \in Hashes \cup {None}, Edit(p, h)
      PROVE  RowsInv'
  <2>1. /\ UNCHANGED <<log, db>>
        /\ \A x \in Procs : /\ proc'[x].pc = proc[x].pc /\ proc'[x].job = proc[x].job
                             /\ proc'[x].target = proc[x].target
    BY <1>0, <1>3 DEF Edit, ProcRec
  <2> QED BY <2>1 DEF RowsInv, Unpublished
<1>4. CASE Rebuild
  <2>1. /\ db'.records = Len(log) /\ UNCHANGED <<log, proc>>
        /\ \A x \in Procs : proc[x].pc = "idle"
        /\ \A j \in Jobs : db'.rows[j] =
              IF About(Len(log), j) = {} THEN "none"
              ELSE Outcome(log[Newest(About(Len(log), j))]).status
    BY <1>4 DEF Rebuild, Replayed
  <2>2. ASSUME NEW j \in Jobs, About(Len(log), j) # {}
        PROVE  db'.rows[j] \in Terminal
    <3>0. Len(log) \in 0 .. Len(log)
      BY <1>0
    <3>1. Newest(About(Len(log), j)) \in 1 .. Len(log)
      BY <2>2, <3>0, NewestBatches
    <3> QED BY <2>1, <2>2, <3>1, Batches, OutcomeType
  <2>3. \A n \in 1 .. Len(log) : n \in About(Len(log), log[n].job)
    BY DEF About
  <2>4. \A n \in 1 .. db'.records : log'[n].job \in Jobs => db'.rows[log'[n].job] \in Terminal
    BY <2>1, <2>2, <2>3
  <2>5. \A j \in Jobs : db'.rows[j] # "cancelled"
    BY <2>1, <2>2 DEF Terminal
  <2>6. \A m, n \in 1 .. Len(log') : log'[m].job = log'[n].job => m = n
    BY <2>1 DEF RowsInv
  <2>7. \A x \in Procs : proc'[x].pc = "idle"
    BY <2>1
  <2> QED BY <2>4, <2>5, <2>6, <2>7 DEF RowsInv
<1> QED BY <1>1, <1>2, <1>3, <1>4 DEF Next

-----------------------------------------------------------------------------
(* The database and a replay of the log.                                   *)

\* Replayed, as a function of the log.
IdentifyingIn(l, n, p) == {m \in 1 .. n : p \in PathsOf(l[m].items, "observed")}
PlacingIn(l, n, p) ==
    {m \in 1 .. n : p \in UNION {PathsOf(l[m].items, "observed"),
                                PathsOf(l[m].items, "failed"), Activated(l[m])}}
AboutIn(l, n, j) == {m \in 1 .. n : l[m].job = j}

IdentOf(l, n, p) ==
    IF IdentifyingIn(l, n, p) = {} THEN None
    ELSE ObjectIn(l[Newest(IdentifyingIn(l, n, p))].items, p)
PlaceOf(l, n, p) ==
    IF PlacingIn(l, n, p) = {} THEN "none"
    ELSE CopiesAfter(EmptyDb.copies, l[Newest(PlacingIn(l, n, p))])[p]
RowOf(l, n, j) ==
    IF AboutIn(l, n, j) = {} THEN "none" ELSE Outcome(l[Newest(AboutIn(l, n, j))]).status

Exact(l, d) ==
    /\ d.ident = [p \in Paths |-> IdentOf(l, d.records, p)]
    /\ d.copies = [p \in Paths |-> PlaceOf(l, d.records, p)]
    /\ \A j \in Jobs : RowOf(l, d.records, j) # "none" => d.rows[j] = RowOf(l, d.records, j)

\* ReplayIsExact in these terms, before and after a step.
LEMMA ReplayMeans ==
    /\ ReplayIsExact <=> Exact(log, db)
    /\ ReplayIsExact' <=> Exact(log', db')
<1>1. ReplayIsExact <=> Exact(log, db)
  BY DEF ReplayIsExact, Exact, Replayed, IdentOf, PlaceOf, RowOf, Identifying, Placing, About,
         IdentifyingIn, PlacingIn, AboutIn
<1>2. ReplayIsExact' <=> Exact(log', db')
  BY DEF ReplayIsExact, Exact, Replayed, IdentOf, PlaceOf, RowOf, Identifying, Placing, About,
         IdentifyingIn, PlacingIn, AboutIn, Activated, Outcome
<1> QED BY <1>1, <1>2

\* A replay reads no batch beyond its end.
LEMMA SameReplay ==
    ASSUME NEW l, NEW k, NEW n \in Nat, \A m \in 1 .. n : k[m] = l[m]
    PROVE  /\ \A p \in Paths : IdentOf(k, n, p) = IdentOf(l, n, p) /\ PlaceOf(k, n, p) = PlaceOf(l, n, p)
           /\ \A j \in Jobs : RowOf(k, n, j) = RowOf(l, n, j)
<1>1. ASSUME NEW p \in Paths PROVE IdentOf(k, n, p) = IdentOf(l, n, p)
  <2> DEFINE S == IdentifyingIn(l, n, p)
  <2>1. IdentifyingIn(k, n, p) = S /\ S \in SUBSET (1 .. n)
    BY DEF IdentifyingIn
  <2> HIDE DEF S
  <2>2. S # {} => Newest(S) \in 1 .. n
    BY <2>1, NewestIs
  <2>3. S # {} => k[Newest(S)] = l[Newest(S)]
    BY <2>2
  <2> QED BY <2>1, <2>3 DEF IdentOf, S
<1>2. ASSUME NEW p \in Paths PROVE PlaceOf(k, n, p) = PlaceOf(l, n, p)
  <2> DEFINE S == PlacingIn(l, n, p)
  <2>1. PlacingIn(k, n, p) = S /\ S \in SUBSET (1 .. n)
    BY DEF PlacingIn
  <2> HIDE DEF S
  <2>2. S # {} => Newest(S) \in 1 .. n
    BY <2>1, NewestIs
  <2>3. S # {} => k[Newest(S)] = l[Newest(S)]
    BY <2>2
  <2> QED BY <2>1, <2>3 DEF PlaceOf, S
<1>3. ASSUME NEW j \in Jobs PROVE RowOf(k, n, j) = RowOf(l, n, j)
  <2> DEFINE S == AboutIn(l, n, j)
  <2>1. AboutIn(k, n, j) = S /\ S \in SUBSET (1 .. n)
    BY DEF AboutIn
  <2> HIDE DEF S
  <2>2. S # {} => Newest(S) \in 1 .. n
    BY <2>1, NewestIs
  <2>3. S # {} => k[Newest(S)] = l[Newest(S)]
    BY <2>2
  <2> QED BY <2>1, <2>3 DEF RowOf, S
<1> QED BY <1>1, <1>2, <1>3

\* The last batch is the newest of those it belongs to.
LEMMA NewestLast ==
    ASSUME NEW n \in Nat, NEW S \in SUBSET (1 .. n + 1), n + 1 \in S
    PROVE  Newest(S) = n + 1
<1>1. Newest(S) \in S /\ \A m \in S : m <= Newest(S)
  <2>1. n + 1 \in Nat /\ S # {}
    OBVIOUS
  <2> QED BY <2>1, NewestIs
<1>2. Newest(S) \in 1 .. n + 1 /\ n + 1 <= Newest(S)
  BY <1>1
<1> QED BY <1>2

\* One more batch changes a replay as the projection changes the database.
LEMMA OneMore ==
    ASSUME NEW l, NEW n \in Nat
    PROVE  LET b == l[n + 1]
           IN  /\ \A p \in Paths : IdentOf(l, n + 1, p) =
                     IF p \in PathsOf(b.items, "observed") THEN ObjectIn(b.items, p)
                     ELSE IdentOf(l, n, p)
               /\ \A p \in Paths : PlaceOf(l, n + 1, p) =
                     CASE p \in Activated(b) -> "missing"
                       [] p \in PathsOf(b.items, "failed") -> "corrupt"
                       [] p \in PathsOf(b.items, "observed") -> "present"
                       [] OTHER -> PlaceOf(l, n, p)
               /\ \A j \in Jobs : RowOf(l, n + 1, j) =
                     IF j = b.job THEN Outcome(b).status ELSE RowOf(l, n, j)
<1> DEFINE b == l[n + 1]
<1>0. 1 .. n + 1 = (1 .. n) \cup {n + 1} /\ n + 1 \in Nat
  OBVIOUS
<1>1. ASSUME NEW p \in Paths
      PROVE  IdentOf(l, n + 1, p) =
                 IF p \in PathsOf(b.items, "observed") THEN ObjectIn(b.items, p)
                 ELSE IdentOf(l, n, p)
  <2> DEFINE S == IdentifyingIn(l, n + 1, p)
  <2>1. S \in SUBSET (1 .. n + 1)
    BY DEF IdentifyingIn
  <2>2. CASE p \in PathsOf(b.items, "observed")
    <3>1. n + 1 \in S
      BY <1>0, <2>2 DEF IdentifyingIn
    <3> HIDE DEF S
    <3>2. Newest(S) = n + 1 /\ S # {}
      BY <2>1, <3>1, NewestLast
    <3> QED BY <2>2, <3>2 DEF IdentOf, S
  <2>3. CASE p \notin PathsOf(b.items, "observed")
    <3>1. S = IdentifyingIn(l, n, p)
      BY <1>0, <2>3 DEF IdentifyingIn
    <3> QED BY <2>3, <3>1 DEF IdentOf
  <2> QED BY <2>2, <2>3
<1>2. ASSUME NEW p \in Paths
      PROVE  PlaceOf(l, n + 1, p) =
                 CASE p \in Activated(b) -> "missing"
                   [] p \in PathsOf(b.items, "failed") -> "corrupt"
                   [] p \in PathsOf(b.items, "observed") -> "present"
                   [] OTHER -> PlaceOf(l, n, p)
  <2> DEFINE S == PlacingIn(l, n + 1, p)
             Placed == \/ p \in Activated(b) \/ p \in PathsOf(b.items, "failed")
                       \/ p \in PathsOf(b.items, "observed")
  <2>1. S \in SUBSET (1 .. n + 1)
    BY DEF PlacingIn
  <2>2. CASE Placed
    <3>1. n + 1 \in S
      BY <1>0, <2>2 DEF PlacingIn
    <3> HIDE DEF S
    <3>2. Newest(S) = n + 1 /\ S # {}
      BY <2>1, <3>1, NewestLast
    <3>3. PlaceOf(l, n + 1, p) = CopiesAfter(EmptyDb.copies, b)[p]
      BY <3>2 DEF PlaceOf, S
    <3> QED BY <2>2, <3>3 DEF CopiesAfter
  <2>3. CASE ~Placed
    <3>1. S = PlacingIn(l, n, p)
      BY <1>0, <2>3 DEF PlacingIn
    <3>2. PlaceOf(l, n + 1, p) = PlaceOf(l, n, p)
      BY <3>1 DEF PlaceOf
    <3> QED BY <2>3, <3>2
  <2> QED BY <2>2, <2>3
<1>3. ASSUME NEW j \in Jobs
      PROVE  RowOf(l, n + 1, j) = IF j = b.job THEN Outcome(b).status ELSE RowOf(l, n, j)
  <2> DEFINE S == AboutIn(l, n + 1, j)
  <2>1. S \in SUBSET (1 .. n + 1)
    BY DEF AboutIn
  <2>2. CASE j = b.job
    <3>1. n + 1 \in S
      BY <1>0, <2>2 DEF AboutIn
    <3> HIDE DEF S
    <3>2. Newest(S) = n + 1 /\ S # {}
      BY <2>1, <3>1, NewestLast
    <3> QED BY <2>2, <3>2 DEF RowOf, S
  <2>3. CASE j # b.job
    <3>1. S = AboutIn(l, n, j)
      BY <1>0, <2>3 DEF AboutIn
    <3> QED BY <2>3, <3>1 DEF RowOf
  <2> QED BY <2>2, <2>3
<1> QED BY <1>1, <1>2, <1>3

\* The projection of the next batch keeps the database exact.
LEMMA ProjectExact ==
    ASSUME NEW l, NEW d, NEW e, d.records \in Nat, Exact(l, d),
           e.records = d.records + 1,
           e.ident = IdentAfter(d.ident, l[d.records + 1]),
           e.copies = CopiesAfter(d.copies, l[d.records + 1]),
           e.rows = RowsAfter(d.rows, l[d.records + 1])
    PROVE  Exact(l, e)
<1> DEFINE n == d.records
           b == l[n + 1]
<1>0. n \in Nat
  OBVIOUS
<1>1. /\ \A p \in Paths : IdentOf(l, n + 1, p) =
             IF p \in PathsOf(b.items, "observed") THEN ObjectIn(b.items, p) ELSE IdentOf(l, n, p)
      /\ \A p \in Paths : PlaceOf(l, n + 1, p) =
             CASE p \in Activated(b) -> "missing"
               [] p \in PathsOf(b.items, "failed") -> "corrupt"
               [] p \in PathsOf(b.items, "observed") -> "present"
               [] OTHER -> PlaceOf(l, n, p)
      /\ \A j \in Jobs : RowOf(l, n + 1, j) =
             IF j = b.job THEN Outcome(b).status ELSE RowOf(l, n, j)
  BY <1>0, OneMore
<1>2. /\ d.ident = [p \in Paths |-> IdentOf(l, n, p)]
      /\ d.copies = [p \in Paths |-> PlaceOf(l, n, p)]
      /\ \A j \in Jobs : RowOf(l, n, j) # "none" => d.rows[j] = RowOf(l, n, j)
  BY DEF Exact
<1>3. e.ident = [p \in Paths |-> IdentOf(l, n + 1, p)]
  BY <1>1, <1>2 DEF IdentAfter
<1>4. e.copies = [p \in Paths |-> PlaceOf(l, n + 1, p)]
  BY <1>1, <1>2 DEF CopiesAfter
<1>5. \A j \in Jobs : RowOf(l, n + 1, j) # "none" => e.rows[j] = RowOf(l, n + 1, j)
  BY <1>1, <1>2 DEF RowsAfter
<1> QED BY <1>3, <1>4, <1>5 DEF Exact

\* The database stays what a replay gives.
LEMMA ReplayStep ==
    ASSUME TypeInv, LockInv, LogInv, OrderInv, RowsInv, KeptInv, ReplayIsExact, Next
    PROVE  ReplayIsExact'
<1>0. /\ db \in DbRec /\ Len(log) \in Nat /\ db.records \in Nat /\ db.records <= Len(log)
      /\ Exact(log, db)
  BY ReplayMeans DEF TypeInv, DbRec, OrderInv
<1>1. ASSUME NEW x \in Procs, Step(x) \/ Pause(x) \/ Crash(x)
      PROVE  ReplayIsExact'
  <2>1. CASE ApplyBatch(x)
    <3> DEFINE n == proc[x].next + 1
    <3>1. /\ n \in 1 .. Len(log) /\ n <= db.records + 1 /\ log' = log
          /\ n <= db.records => /\ db'.records = db.records /\ db'.rows = db.rows
                                /\ db'.ident = db.ident /\ db'.copies = db.copies
          /\ n = db.records + 1 =>
                /\ db'.records = n /\ db'.rows = RowsAfter(db.rows, log[n])
                /\ db'.ident = IdentAfter(db.ident, log[n])
                /\ db'.copies = CopiesAfter(db.copies, log[n])
      BY <2>1, Applied DEF ApplyBatch
    <3> HIDE DEF n
    <3>2. CASE n <= db.records
      <4>1. Exact(log', db')
        BY <1>0, <3>1, <3>2 DEF Exact
      <4> QED BY <4>1, ReplayMeans
    <3>3. CASE n = db.records + 1
      <4>1. Exact(log, db')
        BY <1>0, <3>1, <3>3, ProjectExact
      <4> QED BY <3>1, <4>1, ReplayMeans
    <3> QED BY <1>0, <3>1, <3>2, <3>3
  <2>2. CASE ~ApplyBatch(x)
    <3> DEFINE n == db.records
    <3>1. /\ db'.records = n /\ db'.ident = db.ident /\ db'.copies = db.copies
          /\ \A j \in Jobs \ {proc[x].job} : db'.rows[j] = db.rows[j]
          /\ db' = db \/ db.rows[proc[x].job] \in {"none", "running", "cancelled"}
      BY <1>1, <2>2, RowWritten
    <3>2. \A m \in 1 .. n : log'[m] = log[m]
      <4>1. \A m \in 1 .. n : m \in 1 .. Len(log)
        BY <1>0
      <4>2. CASE AppendBatch(x)
        BY <4>1, <4>2, Appended
      <4> QED BY <1>1, <4>2, LogGrows
    <3>3. /\ \A p \in Paths : IdentOf(log', n, p) = IdentOf(log, n, p)
                              /\ PlaceOf(log', n, p) = PlaceOf(log, n, p)
          /\ \A j \in Jobs : RowOf(log', n, j) = RowOf(log, n, j)
      BY <1>0, <3>2, SameReplay
    <3>4. ASSUME NEW j \in Jobs, RowOf(log, n, j) # "none"
          PROVE  db'.rows[j] = RowOf(log, n, j)
      <4>1. db.rows[j] = RowOf(log, n, j)
        BY <1>0, <3>4 DEF Exact
      <4>2. db.rows[j] \in Terminal
        <5>1. AboutIn(log, n, j) # {} /\ AboutIn(log, n, j) \in SUBSET (1 .. n)
          BY <3>4 DEF RowOf, AboutIn
        <5>2. PICK m \in 1 .. n : log[m].job = j
          BY <5>1 DEF AboutIn
        <5> QED BY <5>2 DEF RowsInv
      <4> QED BY <3>1, <4>1, <4>2 DEF Terminal
    <3> HIDE DEF n
    <3>5. Exact(log', db')
      <4>1. db'.ident = [p \in Paths |-> IdentOf(log', n, p)]
        BY <1>0, <3>1, <3>3 DEF Exact, n
      <4>2. db'.copies = [p \in Paths |-> PlaceOf(log', n, p)]
        BY <1>0, <3>1, <3>3 DEF Exact, n
      <4> QED BY <3>1, <3>3, <3>4, <4>1, <4>2 DEF Exact
    <3> QED BY <3>5, ReplayMeans
  <2> QED BY <2>1, <2>2
<1>2. ASSUME UNCHANGED <<log, db>>
      PROVE  ReplayIsExact'
  BY <1>0, <1>2, ReplayMeans
<1>3. CASE Rebuild
  <2>1. db' = Replayed(Len(log)) /\ log' = log
    BY <1>3 DEF Rebuild
  <2>2. Exact(log, Replayed(Len(log)))
    BY DEF Exact, Replayed, IdentOf, PlaceOf, RowOf, Identifying, Placing, About,
           IdentifyingIn, PlacingIn, AboutIn
  <2> QED BY <2>1, <2>2, ReplayMeans
<1> QED BY <1>1, <1>2, <1>3 DEF Next, Start, Edit

-----------------------------------------------------------------------------
(* Local files.                                                            *)

\* An empty spool accounts for an empty index.
LEMMA NothingDecided ==
    /\ <<>> \in Seq(Items) /\ <<Started>> \in Seq(Items)
    /\ Accounted(<<>>, {}, 0) /\ Accounted(<<Started>>, {}, 0)
    /\ Len(<<Started>>) = 1 /\ <<Started>> # <<>> /\ SubSeq(<<Started>>, 1, 0) = <<>>
<1>1. <<>> \in Seq(Items) /\ <<Started>> \in Seq(Items) /\ Started.kind = "started"
  BY ItemsMade
<1>2. Decided(<<>>) = {} /\ DecidesOnce(<<>>)
  BY DEF Decided, PathsOf, DecidesOnce
<1>3. Decided(<<Started>>) = {} /\ DecidesOnce(<<Started>>)
  BY <1>1 DEF Decided, PathsOf, DecidesOnce
<1>4. Accounted(<<>>, {}, 0) /\ Accounted(<<Started>>, {}, 0)
  BY <1>2, <1>3, FS_EmptySet DEF Accounted
<1>5. Len(<<Started>>) = 1 /\ <<Started>> # <<>>
  OBVIOUS
<1>6. SubSeq(<<Started>>, 1, 0) = <<>>
  <2>1. 0 \in 0 .. Len(<<Started>>)
    BY <1>5
  <2> QED BY <1>1, <2>1, CutSpool
<1> QED BY <1>1, <1>4, <1>5, <1>6

\* An index is finite.
LEMMA FiniteIndex ==
    ASSUME NEW S \in SUBSET Paths, NEW p \in Paths, p \notin S
    PROVE  Cardinality(S) \in Nat /\ Cardinality(S \cup {p}) = Cardinality(S) + 1
<1>1. IsFiniteSet(S)
  BY FinitelyManyPaths, FS_Subset
<1> QED BY <1>1, FS_CardinalityType, FS_AddElement

\* One more path in the index: with an outcome, or counted.
LEMMA AccountedFor ==
    ASSUME NEW items \in Seq(Items), NEW seen \in SUBSET Paths, NEW c \in Nat,
           Accounted(items, seen, c), NEW p \in Paths, p \notin seen
    PROVE  /\ Accounted(items, seen \cup {p}, c + 1)
           /\ \A i \in Items : Decides(i) /\ i.path = p =>
                 Accounted(Append(items, i), seen \cup {p}, c)
<1>1. /\ Decided(items) \in SUBSET Paths /\ p \notin Decided(items)
      /\ Decided(items) \subseteq seen /\ DecidesOnce(items)
  BY DEF Accounted
<1>2. /\ Cardinality(seen \cup {p}) = Cardinality(seen) + 1
      /\ Cardinality(Decided(items) \cup {p}) = Cardinality(Decided(items)) + 1
      /\ Cardinality(seen) \in Nat /\ Cardinality(Decided(items)) \in Nat
      /\ Cardinality(seen) = Cardinality(Decided(items)) + c
  BY <1>1, FiniteIndex DEF Accounted
<1>3. Accounted(items, seen \cup {p}, c + 1)
  BY <1>1, <1>2 DEF Accounted
<1>4. ASSUME NEW i \in Items, Decides(i), i.path = p
      PROVE  Accounted(Append(items, i), seen \cup {p}, c)
  <2>1. Decided(Append(items, i)) = Decided(items) \cup {p} /\ DecidesOnce(Append(items, i))
    BY <1>1, <1>4, DecidedAppend
  <2> QED BY <1>1, <1>2, <2>1 DEF Accounted
<1> QED BY <1>3, <1>4

\* A part of a spool that grows.
LEMMA CutAppend ==
    ASSUME NEW s \in Seq(Items), NEW i \in Items, NEW n \in 0 .. Len(s)
    PROVE  /\ SubSeq(Append(s, i), 1, n) = SubSeq(s, 1, n)
           /\ Append(s, i) \in Seq(Items) /\ Len(Append(s, i)) = Len(s) + 1
           /\ Append(s, i) # <<>>
<1> DEFINE t == Append(s, i)
<1>1. /\ t \in Seq(Items) /\ Len(t) = Len(s) + 1 /\ Len(s) \in Nat
      /\ \A k \in 1 .. Len(s) : t[k] = s[k]
  BY AppendProperties, LenProperties
<1> HIDE DEF t
<1>2. n \in 0 .. Len(t)
  BY <1>1
<1>3. /\ SubSeq(t, 1, n) \in Seq(Items) /\ Len(SubSeq(t, 1, n)) = n
      /\ \A k \in 1 .. n : SubSeq(t, 1, n)[k] = t[k]
  BY <1>1, <1>2, CutSpool
<1>4. /\ SubSeq(s, 1, n) \in Seq(Items) /\ Len(SubSeq(s, 1, n)) = n
      /\ \A k \in 1 .. n : SubSeq(s, 1, n)[k] = s[k]
  BY CutSpool
<1>5. \A k \in 1 .. n : SubSeq(t, 1, n)[k] = SubSeq(s, 1, n)[k]
  BY <1>1, <1>3, <1>4
<1>6. SubSeq(t, 1, n) = SubSeq(s, 1, n)
  BY <1>3, <1>4, <1>5, SeqEqual
<1>7. t # <<>>
  BY <1>1
<1> QED BY <1>1, <1>6, <1>7 DEF t

\* The types of a job's files.
LEMMA FilesFields ==
    ASSUME NEW f \in FilesRec
    PROVE  /\ f.spool \in Seq(Items) /\ Len(f.spool) \in Nat /\ f.checkpoint \in CheckpointRec
           /\ f.checkpoint.len \in Nat /\ f.checkpoint.seen \in SUBSET Paths
           /\ f.checkpoint.unchanged \in Nat /\ f.checkpoint.errors \in Nat
           /\ f.checkpoint.unchanged + f.checkpoint.errors \in Nat
           /\ SpoolOK(f) => f.checkpoint.len \in 0 .. Len(f.spool)
<1>1. f.spool \in Seq(Items) /\ f.checkpoint \in CheckpointRec
  BY DEF FilesRec
<1>2. /\ f.checkpoint.len \in Nat /\ f.checkpoint.seen \in SUBSET Paths
      /\ f.checkpoint.unchanged \in Nat /\ f.checkpoint.errors \in Nat /\ Len(f.spool) \in Nat
  BY <1>1 DEF CheckpointRec
<1> QED BY <1>1, <1>2 DEF SpoolOK

\* Opening a job cuts its spool back to the checkpoint.
LEMMA OpenFiles ==
    ASSUME NEW f \in FilesRec, FilesOK(f), SpoolOK(f), NEW g, NEW w,
           g.there = Files, g.spool = Checkpointed(f), g.checkpoint = f.checkpoint,
           w.pc = "checkpoint",
           w.items = (IF NewJob(f) THEN <<Started>> ELSE Checkpointed(f)),
           w.seen = f.checkpoint.seen, w.unchanged = f.checkpoint.unchanged,
           w.errors = f.checkpoint.errors
    PROVE  FilesOK(g) /\ WorkOK(w, g)
<1> DEFINE n == f.checkpoint.len
           kept == Checkpointed(f)
           counted == f.checkpoint.unchanged + f.checkpoint.errors
<1>1. f.spool \in Seq(Items) /\ n \in 0 .. Len(f.spool) /\ n \in Nat
  BY FilesFields
<1>2. /\ kept \in Seq(Items) /\ Len(kept) = n /\ (n = 0 => kept = <<>>)
      /\ SubSeq(kept, 1, n) = kept
  <2>1. kept = SubSeq(f.spool, 1, n)
    BY DEF Checkpointed
  <2>2. kept \in Seq(Items) /\ Len(kept) = n /\ (n = 0 => kept = <<>>)
    BY <1>1, <2>1, CutSpool
  <2>3. n \in 0 .. Len(kept)
    BY <1>1, <2>2
  <2> HIDE DEF kept
  <2> QED BY <2>2, <2>3, CutSpool
<1>3. Accounted(kept, f.checkpoint.seen, counted) /\ (n = 0 => f.checkpoint = NoCheckpoint)
  BY DEF FilesOK, NewJob
<1>4. Checkpointed(g) = kept /\ SpoolOK(g)
  BY <1>1, <1>2 DEF Checkpointed, SpoolOK
<1>5. FilesOK(g)
  BY <1>3, <1>4 DEF FilesOK, NewJob
<1> HIDE DEF kept
<1>6. g.spool = kept /\ g.checkpoint.len = n /\ g.checkpoint = f.checkpoint
  BY DEF kept
<1>7. CASE n = 0
  <2>1. w.items = <<Started>> /\ w.seen = {} /\ w.unchanged + w.errors = 0
    BY <1>3, <1>7 DEF NewJob, NoCheckpoint
  <2>2. Accounted(w.items, w.seen, w.unchanged + w.errors)
    BY <2>1, NothingDecided
  <2>3. Len(w.items) = 1 /\ w.items # <<>> /\ SubSeq(w.items, 1, 0) = <<>>
    BY <2>1, NothingDecided
  <2>4. g.spool = <<>> /\ Len(g.spool) = n /\ Len(g.spool) <= Len(w.items)
    BY <1>2, <1>7, <1>6, <2>3
  <2> QED BY <1>5, <1>7, <1>6, <2>2, <2>3, <2>4 DEF WorkOK
<1>8. CASE n # 0
  <2>1. w.items = kept /\ w.items # <<>>
    BY <1>2, <1>8 DEF NewJob, kept
  <2>2. Accounted(w.items, w.seen, w.unchanged + w.errors)
    BY <1>3, <2>1
  <2>3. Len(g.spool) = n /\ Len(g.spool) <= Len(w.items) /\ g.spool = SubSeq(w.items, 1, n)
    <3> HIDE DEF n
    <3>1. n <= n
      BY <1>1
    <3> QED BY <1>2, <1>6, <2>1, <3>1
  <2> QED BY <1>5, <1>6, <2>1, <2>2, <2>3 DEF WorkOK
<1> QED BY <1>7, <1>8

\* A checkpoint makes the files agree with the process.
LEMMA CheckpointFiles ==
    ASSUME NEW f \in FilesRec, NEW w \in ProcRec, w.pc = "checkpoint", WorkOK(w, f),
           NEW g, g.there = f.there, g.spool = w.items,
           g.checkpoint = [len |-> Len(w.items), seen |-> w.seen,
                           unchanged |-> w.unchanged, errors |-> w.errors]
    PROVE  /\ FilesOK(g)
           /\ \A v : /\ v.pc \in {"walk", "finish", "idle"} /\ v.items = w.items /\ v.seen = w.seen
                     /\ v.unchanged = w.unchanged /\ v.errors = w.errors
                     => WorkOK(v, g)
<1>1. w.items \in Seq(Items) /\ Len(w.items) \in Nat /\ w.items # <<>>
  BY DEF ProcRec, WorkOK
<1>2. Accounted(w.items, w.seen, w.unchanged + w.errors)
  BY DEF WorkOK
<1>3. SubSeq(w.items, 1, Len(w.items)) = w.items /\ Len(w.items) # 0
  <2>1. Len(w.items) \in 0 .. Len(w.items)
    BY <1>1
  <2> QED BY <1>1, <2>1, CutSpool, EmptySeq
<1>4. Checkpointed(g) = w.items /\ SpoolOK(g) /\ ~NewJob(g)
  BY <1>1, <1>3 DEF Checkpointed, SpoolOK, NewJob
<1>5. FilesOK(g)
  BY <1>2, <1>4 DEF FilesOK
<1>6. ASSUME NEW v, v.pc \in {"walk", "finish", "idle"}, v.items = w.items, v.seen = w.seen,
             v.unchanged = w.unchanged, v.errors = w.errors
      PROVE  WorkOK(v, g)
  BY <1>1, <1>2, <1>3, <1>6 DEF WorkOK
<1> QED BY <1>5, <1>6

\* What was spooled behind the checkpoint does not matter to it.
LEMMA LongerSpool ==
    ASSUME NEW f \in FilesRec, FilesOK(f), NEW g, g.there = f.there, g.checkpoint = f.checkpoint,
           g.spool \in Seq(Items), f.checkpoint.len \in 0 .. Len(g.spool), SpoolOK(f),
           Checkpointed(g) = Checkpointed(f)
    PROVE  FilesOK(g)
<1>1. SpoolOK(g)
  BY DEF SpoolOK
<1> QED BY <1>1 DEF FilesOK, NewJob

\* Removing the files of a job one by one.
LEMMA CleanupFiles ==
    ASSUME NEW f \in FilesRec, FilesOK(f), NEW r, NEW g,
           g.there = f.there \ {r}, g.spool = (IF r = "spool" THEN <<>> ELSE f.spool),
           g.checkpoint = (IF r = "index" THEN NoCheckpoint ELSE f.checkpoint)
    PROVE  FilesOK(g)
<1>1. /\ f.spool \in Seq(Items) /\ Len(f.spool) \in Nat /\ f.checkpoint.len \in Nat
      /\ Len(<<>>) = 0 /\ <<>> \in Seq(Items)
  BY FilesFields
<1>2. ASSUME NEW s \in Seq(Items) PROVE SubSeq(s, 1, 0) = <<>>
  <2>1. 0 \in 0 .. Len(s)
    OBVIOUS
  <2> QED BY <2>1, CutSpool
<1>3. NoCheckpoint.len = 0 /\ NoCheckpoint.seen = {} /\ NoCheckpoint.unchanged + NoCheckpoint.errors = 0
  BY DEF NoCheckpoint
<1>4. g.spool \in Seq(Items) /\ Len(g.spool) \in Nat
  BY <1>1
<1>5. CASE g.checkpoint = NoCheckpoint
  <2>1. Checkpointed(g) = <<>> /\ SpoolOK(g)
    BY <1>2, <1>3, <1>4, <1>5 DEF Checkpointed, SpoolOK
  <2> QED BY <1>3, <1>5, <2>1, NothingDecided DEF FilesOK
<1>6. CASE r = "spool" /\ g.checkpoint # NoCheckpoint
  <2>1. g.checkpoint = f.checkpoint /\ f.checkpoint.len # 0
    BY <1>6 DEF FilesOK, NewJob
  <2>2. ~SpoolOK(g) /\ ~NewJob(g)
    BY <1>1, <1>6, <2>1 DEF SpoolOK, NewJob
  <2> QED BY <1>6, <2>2 DEF FilesOK
<1>7. CASE r # "spool" /\ g.checkpoint # NoCheckpoint
  <2>1. g.spool = f.spool /\ g.checkpoint = f.checkpoint
    BY <1>7
  <2>2. Checkpointed(g) = Checkpointed(f) /\ SpoolOK(g) = SpoolOK(f) /\ NewJob(g) = NewJob(f)
    BY <2>1 DEF Checkpointed, SpoolOK, NewJob
  <2> QED BY <1>7, <2>1, <2>2 DEF FilesOK
<1> QED BY <1>5, <1>6, <1>7

\* A step of one process, as far as the files of its job are concerned.
LEMMA FilesOfJob ==
    ASSUME TypeInv, LockInv, FilesInv, KeptInv, NEW x \in Procs, Step(x) \/ Pause(x) \/ Crash(x)
    PROVE  FilesOK(local'[proc[x].job]) /\ WorkOK(proc'[x], local'[proc[x].job])
<1> DEFINE j == proc[x].job
           w == proc[x]
           f == local[j]
<1>0. /\ proc \in [Procs -> ProcRec] /\ local \in [Jobs -> FilesRec]
      /\ j \in Jobs /\ w \in ProcRec /\ f \in FilesRec /\ w.items \in Seq(Items)
      /\ f.spool \in Seq(Items) /\ w.pc # "idle"
  BY Frame, Busy DEF TypeInv
<1>1. FilesOK(f) /\ WorkOK(w, f)
  BY <1>0 DEF FilesInv
<1>2. /\ w.seen \in SUBSET Paths /\ w.unchanged \in Nat /\ w.errors \in Nat
      /\ w.unchanged + w.errors \in Nat
      /\ (w.unchanged + 1) + w.errors = (w.unchanged + w.errors) + 1
      /\ w.unchanged + (w.errors + 1) = (w.unchanged + w.errors) + 1
      /\ Len(w.items) \in Nat /\ Len(f.spool) \in Nat /\ f.checkpoint.len \in Nat
  <2>1. w.seen \in SUBSET Paths /\ w.unchanged \in Nat /\ w.errors \in Nat
    BY <1>0 DEF ProcRec
  <2> QED BY <1>0, <2>1, FilesFields
<1>3. ASSUME UNCHANGED local, proc'[x].pc \notin {"checkpoint", "walk", "finish"}
      PROVE  FilesOK(local'[j]) /\ WorkOK(proc'[x], local'[j])
  BY <1>1, <1>3 DEF WorkOK
<1>4. CASE Open(x)
  <2>1. SpoolOK(f)
    BY <1>4 DEF Open
  <2>2. /\ local'[j].there = Files /\ local'[j].spool = Checkpointed(f)
        /\ local'[j].checkpoint = f.checkpoint
    <3>1. local' = [local EXCEPT ![j] = [@ EXCEPT !.there = Range(JobFiles),
                                                  !.spool = Checkpointed(f)]]
      BY <1>4 DEF Open
    <3> QED BY <1>0, <3>1, JobFileNames DEF FilesRec
  <2>3. /\ proc'[x].pc = "checkpoint"
        /\ proc'[x].items = (IF NewJob(f) THEN <<Started>> ELSE Checkpointed(f))
        /\ proc'[x].seen = f.checkpoint.seen /\ proc'[x].unchanged = f.checkpoint.unchanged
        /\ proc'[x].errors = f.checkpoint.errors
    <3> DEFINE v == [w EXCEPT !.pc = "checkpoint", !.after = "walk",
                        !.items = IF NewJob(f) THEN <<Started>> ELSE Checkpointed(f),
                        !.seen = f.checkpoint.seen,
                        !.unchanged = f.checkpoint.unchanged,
                        !.errors = f.checkpoint.errors,
                        !.todo = Walked(j),
                        !.kept = {p \in Paths : disk[p] # None}]
    <3>1. proc' = [proc EXCEPT ![x] = v]
      BY <1>4 DEF Open
    <3>2. proc'[x] = v
      BY <1>0, <3>1
    <3> QED BY <1>0, <3>2 DEF ProcRec
  <2> QED BY <1>0, <1>1, <2>1, <2>2, <2>3, OpenFiles
<1>5. CASE OpenRefused(x)
  <2>1. proc'[x].pc = "idle"
    BY <1>0, <1>5 DEF OpenRefused, Leave, IdleProc
  <2>2. /\ local'[j].spool = f.spool /\ local'[j].checkpoint = f.checkpoint
        /\ "spool" \in local'[j].there => "spool" \in f.there
    <3>1. CASE UNCHANGED local
      BY <3>1
    <3>2. CASE local' = [local EXCEPT ![j].there = @ \cup {"config", "index"}]
      BY <1>0, <3>2 DEF FilesRec
    <3> QED BY <1>5, <3>1, <3>2 DEF OpenRefused
  <2>3. FilesOK(local'[j])
    BY <1>1, <2>2 DEF FilesOK, SpoolOK, NewJob, Checkpointed
  <2> QED BY <2>1, <2>3 DEF WorkOK
<1>6. CASE Checkpoint(x)
  <2> DEFINE c == [len |-> Len(w.items), seen |-> w.seen, unchanged |-> w.unchanged,
                   errors |-> w.errors]
  <2>1. /\ local'[j].there = f.there /\ local'[j].spool = w.items /\ local'[j].checkpoint = c
    <3>1. local' = [local EXCEPT ![j] = [@ EXCEPT !.spool = w.items, !.checkpoint = c]]
      BY <1>6 DEF Checkpoint
    <3> HIDE DEF c
    <3> QED BY <1>0, <3>1 DEF FilesRec
  <2>2. w.pc = "checkpoint"
    BY <1>6 DEF Checkpoint
  <2>3. /\ FilesOK(local'[j])
        /\ \A v : /\ v.pc \in {"walk", "finish", "idle"} /\ v.items = w.items /\ v.seen = w.seen
                  /\ v.unchanged = w.unchanged /\ v.errors = w.errors
                  => WorkOK(v, local'[j])
    BY <1>0, <1>1, <2>1, <2>2, CheckpointFiles
  <2>4. CASE w.after = "paused"
    <3>1. proc'[x].pc = "idle"
      BY <1>0, <1>6, <2>4 DEF Checkpoint, Leave, IdleProc
    <3> QED BY <2>3, <3>1 DEF WorkOK
  <2>5. CASE w.after # "paused"
    <3>1. w.after \in {"walk", "finish"}
      BY <1>0, <2>2, <2>5 DEF KeptInv, ProcRec
    <3>2. proc' = [proc EXCEPT ![x] = [@ EXCEPT !.pc = w.after, !.fresh = 0]]
      BY <1>6, <2>5 DEF Checkpoint
    <3>3. /\ proc'[x].pc = w.after /\ proc'[x].items = w.items /\ proc'[x].seen = w.seen
          /\ proc'[x].unchanged = w.unchanged /\ proc'[x].errors = w.errors
      BY <1>0, <3>2 DEF ProcRec
    <3> QED BY <2>3, <3>1, <3>3
  <2> QED BY <2>4, <2>5
<1>7. ASSUME w.pc = "walk", UNCHANGED local, proc'[x].pc \in {"walk", "checkpoint"},
             proc'[x].items = w.items, proc'[x].seen = w.seen,
             proc'[x].unchanged = w.unchanged, proc'[x].errors = w.errors
      PROVE  FilesOK(local'[j]) /\ WorkOK(proc'[x], local'[j])
  BY <1>1, <1>7 DEF WorkOK
<1>8. CASE CheckpointDue(x)
  <2>1. /\ w.pc = "walk" /\ UNCHANGED local /\ proc'[x].pc = "checkpoint"
        /\ proc'[x].items = w.items /\ proc'[x].seen = w.seen
        /\ proc'[x].unchanged = w.unchanged /\ proc'[x].errors = w.errors
    BY <1>0, <1>8 DEF CheckpointDue, ProcRec
  <2> QED BY <1>7, <2>1
<1>9. CASE Pause(x)
  <2>1. /\ w.pc = "walk" /\ UNCHANGED local /\ proc'[x].pc = "checkpoint"
        /\ proc'[x].items = w.items /\ proc'[x].seen = w.seen
        /\ proc'[x].unchanged = w.unchanged /\ proc'[x].errors = w.errors
    BY <1>0, <1>9 DEF Pause, At, ProcRec
  <2> QED BY <1>7, <2>1
<1>10. ASSUME NEW bad \in BOOLEAN, EndWalk(x, bad)
       PROVE  FilesOK(local'[j]) /\ WorkOK(proc'[x], local'[j])
  <2>1. /\ w.pc = "walk" /\ UNCHANGED local /\ proc'[x].pc = "checkpoint"
        /\ proc'[x].items = w.items /\ proc'[x].seen = w.seen
        /\ proc'[x].unchanged = w.unchanged /\ proc'[x].errors = w.errors
    BY <1>0, <1>10 DEF EndWalk, ProcRec
  <2> QED BY <1>7, <2>1
<1>11. ASSUME NEW p \in Paths, Skip(x, p)
       PROVE  FilesOK(local'[j]) /\ WorkOK(proc'[x], local'[j])
  <2>1. /\ w.pc = "walk" /\ UNCHANGED local /\ proc'[x].pc = "walk"
        /\ proc'[x].items = w.items /\ proc'[x].seen = w.seen
        /\ proc'[x].unchanged = w.unchanged /\ proc'[x].errors = w.errors
    BY <1>0, <1>11 DEF Skip, At, ProcRec
  <2> QED BY <1>7, <2>1
<1>12. ASSUME NEW p \in Paths, Unchanged(x, p) \/ Unreadable(x, p)
       PROVE  FilesOK(local'[j]) /\ WorkOK(proc'[x], local'[j])
  <2>1. /\ w.pc = "walk" /\ UNCHANGED local /\ p \notin w.seen
    BY <1>12 DEF Unchanged, Unreadable, Decide, At
  <2>2. /\ proc'[x].pc = "walk" /\ proc'[x].items = w.items /\ proc'[x].seen = w.seen \cup {p}
        /\ proc'[x].unchanged + proc'[x].errors = (w.unchanged + w.errors) + 1
    <3>1. CASE Unchanged(x, p)
      <4>1. /\ proc'[x].pc = "walk" /\ proc'[x].items = w.items /\ proc'[x].seen = w.seen \cup {p}
            /\ proc'[x].unchanged = w.unchanged + 1 /\ proc'[x].errors = w.errors
        BY <1>0, <2>1, <3>1 DEF Unchanged, Decide, ProcRec
      <4> QED BY <1>2, <4>1
    <3>2. CASE Unreadable(x, p)
      <4>1. /\ proc'[x].pc = "walk" /\ proc'[x].items = w.items /\ proc'[x].seen = w.seen \cup {p}
            /\ proc'[x].unchanged = w.unchanged /\ proc'[x].errors = w.errors + 1
        BY <1>0, <2>1, <3>2 DEF Unreadable, Decide, ProcRec
      <4> QED BY <1>2, <4>1
    <3> QED BY <1>12, <3>1, <3>2
  <2>3. Accounted(w.items, w.seen, w.unchanged + w.errors)
    BY <1>1, <2>1 DEF WorkOK
  <2>4. Accounted(w.items, w.seen \cup {p}, (w.unchanged + w.errors) + 1)
    BY <1>0, <1>2, <2>1, <2>3, AccountedFor
  <2> QED BY <1>1, <2>1, <2>2, <2>4 DEF WorkOK
<1>13. ASSUME NEW p \in Paths, Read(x, p)
       PROVE  FilesOK(local'[j]) /\ WorkOK(proc'[x], local'[j])
  <2> DEFINE i == Verdict(j, p)
             n == f.checkpoint.len
  <2>1. /\ w.pc = "walk" /\ UNCHANGED local /\ p \notin w.seen /\ disk[p] \in Hashes
    BY <1>13 DEF Read, Decide, At, TypeInv
  <2>2. i \in Items /\ Decides(i) /\ i.path = p
    BY <2>1, ItemsMade DEF Verdict, Decides
  <2>3. /\ proc'[x].pc = "walk" /\ proc'[x].items = Append(w.items, i)
        /\ proc'[x].seen = w.seen \cup {p}
        /\ proc'[x].unchanged = w.unchanged /\ proc'[x].errors = w.errors
    BY <1>0, <1>13, <2>1 DEF Read, Decide, ProcRec
  <2> HIDE DEF i
  <2>4. /\ Accounted(w.items, w.seen, w.unchanged + w.errors)
        /\ Len(f.spool) = n /\ n <= Len(w.items) /\ f.spool = SubSeq(w.items, 1, n)
    BY <1>1, <2>1 DEF WorkOK
  <2>5. Accounted(Append(w.items, i), w.seen \cup {p}, w.unchanged + w.errors)
    BY <1>0, <1>2, <2>1, <2>2, <2>4, AccountedFor
  <2>6. n \in 0 .. Len(w.items)
    BY <1>2, <2>4
  <2>7. /\ SubSeq(Append(w.items, i), 1, n) = f.spool
        /\ Len(Append(w.items, i)) = Len(w.items) + 1 /\ Append(w.items, i) # <<>>
    BY <1>0, <2>2, <2>4, <2>6, CutAppend
  <2>8. n <= Len(Append(w.items, i))
    BY <1>2, <2>4, <2>7
  <2> QED BY <1>1, <2>1, <2>3, <2>4, <2>5, <2>7, <2>8 DEF WorkOK
<1>14. CASE Finish(x)
  <2> DEFINE status == IF w.job \in ScanJobs /\ ~CompleteSafe(w) THEN "partial" ELSE "complete"
             end == Completed(status, MissingCandidates(w))
             n == Len(w.items)
  <2>1. end \in Items
    <3>1. status \in Terminal /\ MissingCandidates(w) \in SUBSET Paths
      BY DEF Terminal, MissingCandidates
    <3> QED BY <3>1, ItemsMade
  <2>2. /\ local' = [local EXCEPT ![j].spool = Append(w.items, end)]
        /\ w.pc = "finish" /\ proc'[x].pc = "append"
    BY <1>0, <1>14 DEF Finish, ProcRec
  <2> HIDE DEF end
  <2>3. /\ local'[j].there = f.there /\ local'[j].checkpoint = f.checkpoint
        /\ local'[j].spool = Append(w.items, end)
    BY <1>0, <2>2 DEF FilesRec
  <2>4. f.checkpoint.len = n /\ f.spool = w.items /\ SpoolOK(f)
    BY <1>1, <1>2, <2>2 DEF WorkOK, SpoolOK
  <2>5. n \in 0 .. Len(w.items)
    BY <1>2
  <2>6. /\ SubSeq(Append(w.items, end), 1, n) = SubSeq(w.items, 1, n)
        /\ Append(w.items, end) \in Seq(Items) /\ Len(Append(w.items, end)) = n + 1
    BY <1>0, <2>1, <2>5, CutAppend
  <2>7. n \in 0 .. Len(Append(w.items, end))
    BY <1>2, <2>6
  <2>8. Checkpointed(local'[j]) = Checkpointed(f)
    BY <2>3, <2>4, <2>6 DEF Checkpointed
  <2>9. FilesOK(local'[j])
    BY <1>0, <1>1, <2>3, <2>4, <2>6, <2>7, <2>8, LongerSpool
  <2> QED BY <2>2, <2>9 DEF WorkOK
<1>15. CASE Cleanup(x)
  <2>0. proc'[x].pc \in {"idle", "cleanup"}
    BY <1>0, <1>15 DEF Cleanup, Leave, IdleProc
  <2>1. CASE UNCHANGED local
    BY <1>3, <2>0, <2>1
  <2>2. ASSUME NEW r,
               local' = [local EXCEPT ![j] =
                   [local[j] EXCEPT !.there = @ \ {r},
                                    !.spool = IF r = "spool" THEN <<>> ELSE @,
                                    !.checkpoint = IF r = "index" THEN NoCheckpoint ELSE @]]
        PROVE  FilesOK(local'[j])
    <3>1. /\ local'[j].there = f.there \ {r}
          /\ local'[j].spool = (IF r = "spool" THEN <<>> ELSE f.spool)
          /\ local'[j].checkpoint = (IF r = "index" THEN NoCheckpoint ELSE f.checkpoint)
      BY <1>0, <2>2 DEF FilesRec
    <3> QED BY <1>0, <1>1, <3>1, CleanupFiles
  <2>3. CASE ~UNCHANGED local
    BY <1>15, <2>0, <2>2, <2>3 DEF Cleanup, WorkOK
  <2> QED BY <2>1, <2>3
<1>16. CASE Crash(x)
  <2>0. proc'[x].pc = "idle"
    BY <1>0, <1>16 DEF Crash, Leave, IdleProc
  <2>1. CASE UNCHANGED local
    BY <1>3, <2>0, <2>1
  <2>2. ASSUME NEW n \in Len(f.spool) .. Len(w.items), w.pc \in {"checkpoint", "walk"},
               local' = [local EXCEPT ![j].spool = SubSeq(w.items, 1, n)]
        PROVE  FilesOK(local'[j])
    <3> DEFINE m == f.checkpoint.len
    <3>1. /\ local'[j].there = f.there /\ local'[j].checkpoint = f.checkpoint
          /\ local'[j].spool = SubSeq(w.items, 1, n)
      BY <1>0, <2>2 DEF FilesRec
    <3>2. /\ Len(f.spool) = m /\ m <= Len(w.items) /\ f.spool = SubSeq(w.items, 1, m)
      BY <1>1, <2>2 DEF WorkOK
    <3>3. n \in 0 .. Len(w.items) /\ m \in 0 .. n /\ SpoolOK(f) /\ m \in 0 .. Len(f.spool)
      BY <1>2, <3>2 DEF SpoolOK
    <3>4. /\ SubSeq(w.items, 1, n) \in Seq(Items) /\ Len(SubSeq(w.items, 1, n)) = n
          /\ SubSeq(SubSeq(w.items, 1, n), 1, m) = SubSeq(w.items, 1, m)
      BY <1>0, <3>3, CutSpool, CutTwice
    <3>5. SubSeq(f.spool, 1, m) = f.spool
      BY <1>0, <3>2, <3>3, CutSpool
    <3>6. Checkpointed(local'[j]) = Checkpointed(f)
      BY <3>1, <3>2, <3>4, <3>5 DEF Checkpointed
    <3> QED BY <1>0, <1>1, <3>1, <3>3, <3>4, <3>6, LongerSpool
  <2>3. CASE ~UNCHANGED local
    BY <1>16, <2>0, <2>2, <2>3 DEF Crash, WorkOK
  <2> QED BY <2>1, <2>3
<1>17. CASE Settle(x) \/ Publish(x) \/ ApplyBatch(x)
  <2>1. UNCHANGED local /\ proc'[x].pc = "apply"
    <3>1. CASE Settle(x) \/ Publish(x)
      BY <1>0, <3>1 DEF Settle, Publish, ProcRec
    <3>2. CASE ApplyBatch(x)
      BY <1>0, <3>2 DEF ApplyBatch, ProcRec
    <3> QED BY <1>17, <3>1, <3>2
  <2> QED BY <1>3, <2>1
<1>18. CASE ApplyEnd(x) \/ OpenFinished(x) \/ CancelJob(x)
  <2>1. \A a : proc' = [proc EXCEPT ![x].pc = a] => proc'[x].pc = a
    BY <1>0 DEF ProcRec
  <2>2. Leave(x) => proc'[x].pc = "idle"
    BY <1>0 DEF Leave, IdleProc
  <2>3. UNCHANGED local /\ proc'[x].pc \in {"idle", "open", "cleanup"}
    BY <1>18, <2>1, <2>2 DEF ApplyEnd, OpenFinished, CancelJob
  <2> QED BY <1>3, <2>3
<1>19. CASE AppendBatch(x)
  <2>1. UNCHANGED local /\ proc'[x].pc = "publish"
    BY <1>0, <1>19 DEF AppendBatch, IdleProc
  <2> QED BY <1>3, <2>1
<1> QED BY <1>4, <1>5, <1>6, <1>8, <1>9, <1>10, <1>11, <1>12, <1>13, <1>14, <1>15, <1>16, <1>17,
           <1>18, <1>19 DEF Step

\* The local files stay consistent.
LEMMA FilesStep ==
    ASSUME TypeInv, LockInv, FilesInv, KeptInv, Next
    PROVE  FilesInv'
<1>0. proc \in [Procs -> ProcRec] /\ local \in [Jobs -> FilesRec]
  BY DEF TypeInv
<1>1. ASSUME NEW x \in Procs, Step(x) \/ Pause(x) \/ Crash(x)
      PROVE  FilesInv'
  <2>1. /\ proc[x].job \in Jobs
        /\ FilesOK(local'[proc[x].job]) /\ WorkOK(proc'[x], local'[proc[x].job])
    BY <1>1, FilesOfJob, Frame, Busy
  <2>2. ASSUME NEW j \in Jobs PROVE FilesOK(local'[j])
    BY <1>1, <2>1, Frame DEF FilesInv
  <2>3. WorkOK(proc'[x], local'[proc'[x].job])
    <3>1. CASE proc'[x].job = proc[x].job
      BY <2>1, <3>1
    <3>2. CASE proc'[x] = IdleProc
      BY <3>2 DEF WorkOK, IdleProc
    <3> QED BY <1>1, <3>1, <3>2, Frame
  <2>4. ASSUME NEW y \in Procs, y # x PROVE WorkOK(proc'[y], local'[proc'[y].job])
    <3>1. proc'[y] = proc[y]
      BY <1>1, <2>4, Frame
    <3>2. CASE proc[y].pc = "idle"
      BY <3>1, <3>2 DEF WorkOK
    <3>3. CASE proc[y].pc # "idle"
      <4>1. proc[y].job \in Jobs \ {proc[x].job}
        BY <1>1, <2>4, <3>3, Busy, Frame
      <4>2. local'[proc[y].job] = local[proc[y].job]
        BY <1>1, <4>1, Frame
      <4> QED BY <3>1, <4>2 DEF FilesInv
    <3> QED BY <3>2, <3>3
  <2> QED BY <2>2, <2>3, <2>4 DEF FilesInv
<1>2. ASSUME NEW x \in Procs, NEW j \in Jobs, NEW c \in BOOLEAN, Start(x, j, c)
      PROVE  FilesInv'
  <2>1. /\ \A y \in Procs \ {x} : proc'[y] = proc[y]
        /\ proc'[x].pc = "settle" /\ UNCHANGED local
    BY <1>0, <1>2 DEF Start, IdleProc
  <2>2. WorkOK(proc'[x], local'[proc'[x].job])
    BY <2>1 DEF WorkOK
  <2> QED BY <2>1, <2>2 DEF FilesInv
<1>3. ASSUME NEW p \in Paths, NEW h \in Hashes \cup {None}, Edit(p, h)
      PROVE  FilesInv'
  <2>1. /\ UNCHANGED local
        /\ \A x \in Procs : /\ proc'[x].pc = proc[x].pc /\ proc'[x].job = proc[x].job
                             /\ proc'[x].items = proc[x].items /\ proc'[x].seen = proc[x].seen
                             /\ proc'[x].unchanged = proc[x].unchanged
                             /\ proc'[x].errors = proc[x].errors
    BY <1>0, <1>3 DEF Edit, ProcRec
  <2> QED BY <2>1 DEF FilesInv, WorkOK
<1>4. CASE Rebuild
  BY <1>4 DEF Rebuild, FilesInv
<1> QED BY <1>1, <1>2, <1>3, <1>4 DEF Next

-----------------------------------------------------------------------------
(* Files that stay during a pass.                                          *)

\* KeptInv of one process.
KeptOK(w, d) ==
    /\ w.pc = "checkpoint" => w.after # "cleanup"
    /\ w.pc \in {"checkpoint", "walk", "finish"} =>
          /\ \A p \in w.kept : d[p] # None
          /\ w.job \notin AcceptJobs => w.kept \subseteq w.seen \cup w.todo
    /\ w.pc = "finish" \/ (w.pc = "checkpoint" /\ w.after = "finish") => w.todo = {}
    /\ w.pc = "append" => Last(w.items).missing \cap w.kept = {}

\* KeptInv is KeptOK of every process.
LEMMA KeptMeans ==
    /\ KeptInv <=> \A x \in Procs : KeptOK(proc[x], disk)
    /\ KeptInv' <=> \A x \in Procs : KeptOK(proc'[x], disk')
<1>1. KeptInv <=> \A x \in Procs : KeptOK(proc[x], disk)
  BY DEF KeptInv, KeptOK
<1>2. KeptInv' <=> \A x \in Procs : KeptOK(proc'[x], disk')
  BY DEF KeptInv, KeptOK
<1> QED BY <1>1, <1>2

\* A step of the process itself.
LEMMA KeptOfProc ==
    ASSUME TypeInv, LockInv, KeptInv, NEW x \in Procs, Step(x) \/ Pause(x) \/ Crash(x)
    PROVE  KeptOK(proc'[x], disk)
<1> DEFINE w == proc[x]
           v == proc'[x]
<1>0. /\ proc \in [Procs -> ProcRec] /\ w \in ProcRec /\ w.items \in Seq(Items)
      /\ KeptOK(w, disk)
  BY Frame, Busy, KeptMeans DEF TypeInv
<1>1. CASE v.pc \notin {"checkpoint", "walk", "finish", "append"}
  BY <1>1 DEF KeptOK
<1>2. CASE Open(x)
  <2> DEFINE f == local[w.job]
             u == [w EXCEPT !.pc = "checkpoint", !.after = "walk",
                        !.items = IF NewJob(f) THEN <<Started>> ELSE Checkpointed(f),
                        !.seen = f.checkpoint.seen,
                        !.unchanged = f.checkpoint.unchanged,
                        !.errors = f.checkpoint.errors,
                        !.todo = Walked(w.job),
                        !.kept = {p \in Paths : disk[p] # None}]
  <2>1. proc' = [proc EXCEPT ![x] = u]
    BY <1>2 DEF Open
  <2>2. v = u
    BY <1>0, <2>1
  <2>3. /\ v.pc = "checkpoint" /\ v.after = "walk" /\ v.job = w.job
        /\ v.todo = Walked(w.job) /\ v.kept = {p \in Paths : disk[p] # None}
    BY <1>0, <2>2 DEF ProcRec
  <2>4. \A p \in v.kept : disk[p] # None
    BY <2>3
  <2>5. v.job \notin AcceptJobs => v.kept \subseteq v.todo
    BY <2>3 DEF Walked
  <2> QED BY <2>3, <2>4, <2>5 DEF KeptOK
<1>3. CASE CheckpointDue(x)
  <2>1. /\ w.pc = "walk" /\ v.pc = "checkpoint" /\ v.after = "walk" /\ v.job = w.job
        /\ v.todo = w.todo /\ v.seen = w.seen /\ v.kept = w.kept
    BY <1>0, <1>3 DEF CheckpointDue, ProcRec
  <2> QED BY <1>0, <2>1 DEF KeptOK
<1>4. CASE Pause(x)
  <2>1. /\ w.pc = "walk" /\ v.pc = "checkpoint" /\ v.after = "paused" /\ v.job = w.job
        /\ v.todo = w.todo /\ v.seen = w.seen /\ v.kept = w.kept
    BY <1>0, <1>4 DEF Pause, At, ProcRec
  <2> QED BY <1>0, <2>1 DEF KeptOK
<1>5. ASSUME NEW bad \in BOOLEAN, EndWalk(x, bad)
      PROVE  KeptOK(v, disk)
  <2>1. /\ w.pc = "walk" /\ v.pc = "checkpoint" /\ v.after = "finish" /\ v.job = w.job
        /\ v.todo = w.todo /\ v.seen = w.seen /\ v.kept = w.kept /\ w.todo = {}
    BY <1>0, <1>5 DEF EndWalk, ProcRec
  <2> QED BY <1>0, <2>1 DEF KeptOK
<1>6. CASE Checkpoint(x) /\ v.pc \in {"walk", "finish"}
  <2>1. w.pc = "checkpoint" /\ w.after # "paused"
    BY <1>0, <1>6 DEF Checkpoint, Leave, IdleProc
  <2>2. proc' = [proc EXCEPT ![x] = [@ EXCEPT !.pc = w.after, !.fresh = 0]]
    BY <1>6, <2>1 DEF Checkpoint
  <2>3. /\ v.pc = w.after /\ v.job = w.job
        /\ v.todo = w.todo /\ v.seen = w.seen /\ v.kept = w.kept
    BY <1>0, <2>2 DEF ProcRec
  <2> QED BY <1>0, <1>6, <2>1, <2>3 DEF KeptOK
<1>7. ASSUME NEW p \in Paths, Skip(x, p)
      PROVE  KeptOK(v, disk)
  <2>1. /\ w.pc = "walk" /\ v.pc = "walk" /\ v.job = w.job
        /\ v.todo = w.todo \ {p} /\ v.seen = w.seen /\ v.kept = w.kept
        /\ disk[p] = None \/ p \in w.seen
    BY <1>0, <1>7 DEF Skip, At, ProcRec
  <2>2. p \in w.kept => p \in w.seen
    BY <1>0, <2>1 DEF KeptOK
  <2> QED BY <1>0, <2>1, <2>2 DEF KeptOK
<1>8. ASSUME NEW p \in Paths, Unchanged(x, p) \/ Unreadable(x, p) \/ Read(x, p)
      PROVE  KeptOK(v, disk)
  <2>0. w.pc = "walk"
    BY <1>8 DEF Unchanged, Unreadable, Read, Decide, At
  <2>1. /\ v.pc = "walk" /\ v.job = w.job
        /\ v.todo = w.todo \ {p} /\ v.seen = w.seen \cup {p} /\ v.kept = w.kept
    <3>1. CASE Unchanged(x, p)
      BY <1>0, <2>0, <3>1 DEF Unchanged, Decide, ProcRec
    <3>2. CASE Unreadable(x, p)
      BY <1>0, <2>0, <3>2 DEF Unreadable, Decide, ProcRec
    <3>3. CASE Read(x, p)
      BY <1>0, <2>0, <3>3 DEF Read, Decide, ProcRec
    <3> QED BY <1>8, <3>1, <3>2, <3>3
  <2> QED BY <1>0, <2>0, <2>1 DEF KeptOK
<1>9. CASE Finish(x)
  <2> DEFINE status == IF w.job \in ScanJobs /\ ~CompleteSafe(w) THEN "partial" ELSE "complete"
             end == Completed(status, MissingCandidates(w))
  <2>1. end \in Items /\ end.missing = MissingCandidates(w)
    <3>1. status \in Terminal /\ MissingCandidates(w) \in SUBSET Paths
      BY DEF Terminal, MissingCandidates
    <3> QED BY <3>1, ItemsMade
  <2>2. /\ w.pc = "finish"
        /\ proc' = [proc EXCEPT ![x] = [@ EXCEPT !.pc = "append", !.items = Append(w.items, end)]]
    BY <1>9 DEF Finish
  <2> HIDE DEF end
  <2>3. v.pc = "append" /\ v.items = Append(w.items, end) /\ v.kept = w.kept
    BY <1>0, <2>2 DEF ProcRec
  <2>4. Last(v.items) = end
    <3>1. /\ Len(Append(w.items, end)) = Len(w.items) + 1 /\ Len(w.items) \in Nat
          /\ Append(w.items, end)[Len(w.items) + 1] = end
      BY <1>0, <2>1, AppendProperties, LenProperties
    <3> QED BY <2>3, <3>1 DEF Last
  <2>5. w.job \in ScanJobs => w.kept \subseteq w.seen
    BY <1>0, <2>2, OneKindPerJob DEF KeptOK
  <2>6. MissingCandidates(w) \cap w.kept = {}
    BY <2>5 DEF MissingCandidates, CompleteSafe
  <2> QED BY <2>1, <2>3, <2>4, <2>6 DEF KeptOK
<1>10. \/ v.pc \notin {"checkpoint", "walk", "finish", "append"}
       \/ Open(x) \/ CheckpointDue(x) \/ Pause(x) \/ (\E bad \in BOOLEAN : EndWalk(x, bad))
       \/ Checkpoint(x) /\ v.pc \in {"walk", "finish"}
       \/ \E p \in Paths : Skip(x, p) \/ Unchanged(x, p) \/ Unreadable(x, p) \/ Read(x, p)
       \/ Finish(x)
  BY Enters
<1> QED BY <1>1, <1>2, <1>3, <1>4, <1>5, <1>6, <1>7, <1>8, <1>9, <1>10

\* What stayed is decided or still to be looked at, after every step.
LEMMA KeptStep ==
    ASSUME TypeInv, LockInv, KeptInv, Next
    PROVE  KeptInv'
<1>0. proc \in [Procs -> ProcRec] /\ \A x \in Procs : KeptOK(proc[x], disk)
  BY KeptMeans DEF TypeInv
<1>1. ASSUME NEW x \in Procs, Step(x) \/ Pause(x) \/ Crash(x)
      PROVE  KeptInv'
  <2>1. \A y \in Procs \ {x} : proc'[y] = proc[y]
    BY <1>1, Frame
  <2>2. disk' = disk
    BY <1>1, Frame
  <2>3. KeptOK(proc'[x], disk)
    BY <1>1, KeptOfProc
  <2>4. \A y \in Procs : KeptOK(proc'[y], disk')
    BY <1>0, <2>1, <2>2, <2>3
  <2> QED BY <2>4, KeptMeans
<1>2. ASSUME NEW x \in Procs, NEW j \in Jobs, NEW c \in BOOLEAN, Start(x, j, c)
      PROVE  KeptInv'
  <2>1. /\ \A y \in Procs \ {x} : proc'[y] = proc[y]
        /\ proc'[x].pc = "settle" /\ disk' = disk
    BY <1>0, <1>2 DEF Start, IdleProc
  <2>2. KeptOK(proc'[x], disk)
    BY <2>1 DEF KeptOK
  <2>3. \A y \in Procs : KeptOK(proc'[y], disk')
    BY <1>0, <2>1, <2>2
  <2> QED BY <2>3, KeptMeans
<1>3. ASSUME NEW p \in Paths, NEW h \in Hashes \cup {None}, Edit(p, h)
      PROVE  KeptInv'
  <2>1. ASSUME NEW x \in Procs PROVE KeptOK(proc'[x], disk')
    <3>1. /\ proc'[x].pc = proc[x].pc /\ proc'[x].job = proc[x].job
          /\ proc'[x].items = proc[x].items /\ proc'[x].seen = proc[x].seen
          /\ proc'[x].todo = proc[x].todo /\ proc'[x].after = proc[x].after
          /\ proc'[x].kept = (IF h = None THEN proc[x].kept \ {p} ELSE proc[x].kept)
      BY <1>0, <1>3 DEF Edit, ProcRec
    <3>2. disk' = [disk EXCEPT ![p] = h] /\ disk \in [Paths -> Hashes \cup {None}]
          /\ proc[x].kept \subseteq Paths
      BY <1>0, <1>3 DEF Edit, TypeInv, ProcRec
    <3>3. \A q \in proc'[x].kept : disk[q] # None => disk'[q] # None
      BY <3>1, <3>2
    <3>4. proc'[x].kept \subseteq proc[x].kept
      BY <3>1
    <3> QED BY <1>0, <3>1, <3>3, <3>4 DEF KeptOK
  <2> QED BY <2>1, KeptMeans
<1>4. CASE Rebuild
  <2>1. proc' = proc /\ disk' = disk
    BY <1>4 DEF Rebuild
  <2>2. \A y \in Procs : KeptOK(proc'[y], disk')
    BY <1>0, <2>1
  <2> QED BY <2>2, KeptMeans
<1> QED BY <1>1, <1>2, <1>3, <1>4 DEF Next

-----------------------------------------------------------------------------
(* The beginning.                                                          *)

\* The batch of the earlier add.
LEMMA Seed == SeedBatch \in BatchRec /\ GoodItems(SeedBatch.items) /\ SeedBatch.job = None
<1> DEFINE S == {Observed(p, Expected) : p \in Cataloged}
           s == SetToSeq(S)
           end == Completed("complete", {})
<1>1. IsFiniteSet(S)
  <2> DEFINE f == [p \in Cataloged |-> Observed(p, Expected)]
  <2>1. IsFiniteSet(Cataloged)
    BY FinitelyManyPaths, CatalogedPaths, FS_Subset
  <2>2. f \in Surjection(Cataloged, S)
    BY Fun_IsSurj
  <2> QED BY <2>1, <2>2, FS_Surjection DEF ExistsSurjection
<1>2. Cardinality(S) \in Nat /\ ExistsBijection(1 .. Cardinality(S), S)
  BY <1>1, FS_CardinalityType
<1>3. S \subseteq Items /\ \A i \in S : i = Observed(i.path, Expected)
  <2>1. \A p \in Cataloged : Observed(p, Expected) \in Items /\ Observed(p, Expected).path = p
    BY CatalogedPaths, ExpectedHash, ItemsMade
  <2> QED BY <2>1
<1> HIDE DEF S
<1>4. /\ s \in [1 .. Cardinality(S) -> S]
      /\ \A a, b \in 1 .. Cardinality(S) : s[a] = s[b] => a = b
  <2>1. PICK f : f \in Bijection(1 .. Cardinality(S), S)
    BY <1>2 DEF ExistsBijection
  <2>2. f \in [1 .. Cardinality(S) -> S] /\ \A a, b \in 1 .. Cardinality(S) : f[a] = f[b] => a = b
    BY <2>1, Fun_BijectionProperties
  <2>3. \E g \in [1 .. Cardinality(S) -> S] : IsInjective(g)
    BY <2>2 DEF IsInjective
  <2>4. s \in [1 .. Cardinality(S) -> S] /\ IsInjective(s)
    BY <2>3 DEF SetToSeq
  <2> HIDE DEF s
  <2> QED BY <2>4 DEF IsInjective
<1> HIDE DEF s
<1>5. s \in Seq(Items) /\ DOMAIN s = 1 .. Cardinality(S)
  BY <1>2, <1>3, <1>4
<1>6. DecidesOnce(s)
  <2>1. \A a \in DOMAIN s : s[a] = Observed(s[a].path, Expected)
    BY <1>3, <1>4
  <2> QED BY <1>4, <1>5, <2>1 DEF DecidesOnce
<1>7. end \in Items /\ end.kind = "completed" /\ end.missing = {}
  BY ItemsMade DEF Terminal
<1> HIDE DEF end
<1>8. DecidesOnce(Append(s, end))
  BY <1>5, <1>6, <1>7, DecidedAppend DEF Decides
<1>9. /\ Append(s, end) \in Seq(Items) /\ Append(s, end) # <<>> /\ Last(Append(s, end)) = end
  <2>1. /\ Append(s, end) \in Seq(Items) /\ Len(Append(s, end)) = Len(s) + 1 /\ Len(s) \in Nat
        /\ Append(s, end)[Len(s) + 1] = end
    BY <1>5, <1>7, AppendProperties, LenProperties
  <2> QED BY <2>1 DEF Last
<1>10. GoodItems(Append(s, end))
  BY <1>7, <1>8, <1>9 DEF GoodItems
<1>11. SeedBatch = [job |-> None, items |-> Append(s, end)]
  BY DEF SeedBatch, s, S, end
<1> QED BY <1>9, <1>10, <1>11 DEF BatchRec

\* The invariant holds in an archive where nothing has run yet.
LEMMA JobInit == Init => JobInv
<1> SUFFICES ASSUME Init PROVE JobInv
  OBVIOUS
<1>0. /\ SeedBatch \in BatchRec /\ GoodItems(SeedBatch.items) /\ SeedBatch.job = None
      /\ log = <<SeedBatch>> /\ Len(log) = 1 /\ log[1] = SeedBatch
  BY Seed DEF Init
<1>1. EmptyDb \in DbRec /\ EmptyDb.records = 0
  BY DEF EmptyDb, DbRec, Standings, Statuses
<1> DEFINE d == Project(EmptyDb, SeedBatch)
<1>2. /\ d \in DbRec /\ d.ident = IdentAfter(EmptyDb.ident, SeedBatch)
      /\ d.copies = CopiesAfter(EmptyDb.copies, SeedBatch)
      /\ d.rows = RowsAfter(EmptyDb.rows, SeedBatch)
  <2>1. d \in DbRec
    BY <1>0, <1>1, ProjectType
  <2> QED BY <1>1, <2>1 DEF Project, DbRec
<1>3. db = [d EXCEPT !.records = 1, !.cursor = 1]
  BY DEF Init
<1> HIDE DEF d
<1>4. /\ db \in DbRec /\ db.records = 1 /\ db.cursor = 1
      /\ db.ident = IdentAfter(EmptyDb.ident, SeedBatch)
      /\ db.copies = CopiesAfter(EmptyDb.copies, SeedBatch)
      /\ db.rows = RowsAfter(EmptyDb.rows, SeedBatch)
  BY <1>2, <1>3 DEF DbRec
<1>5. \A j \in Jobs : db.rows[j] = "none"
  <2>1. \A j \in Jobs : j # None
    BY NoneIsNothing
  <2> QED BY <1>0, <1>4, <2>1 DEF RowsAfter, EmptyDb
<1>6. /\ NoFiles \in FilesRec /\ FilesOK(NoFiles)
  <2>1. /\ NoFiles.spool = <<>> /\ NoFiles.checkpoint = NoCheckpoint /\ NoFiles.there = {}
        /\ NoCheckpoint.len = 0 /\ NoCheckpoint.seen = {}
        /\ NoCheckpoint.unchanged + NoCheckpoint.errors = 0
    BY DEF NoFiles, NoCheckpoint
  <2>2. NoFiles \in FilesRec
    BY NothingDecided DEF NoFiles, NoCheckpoint, FilesRec, CheckpointRec
  <2>3. SubSeq(<<>>, 1, 0) = <<>>
    OBVIOUS
  <2> QED BY <2>1, <2>2, <2>3, NothingDecided DEF FilesOK, Checkpointed
<1>7. /\ proc = [x \in Procs |-> IdleProc] /\ local = [j \in Jobs |-> NoFiles]
      /\ IdleProc.pc = "idle" /\ IdleProc.job = None
  BY DEF Init, IdleProc
<1>8. TypeInv
  <2>1. disk \in [Paths -> Hashes \cup {None}] /\ committed = 1 /\ starts = 0 /\ edits = 0
    BY ExpectedHash DEF Init
  <2>2. log \in Seq(BatchRec)
    BY <1>0
  <2> QED BY <1>0, <1>4, <1>6, <1>7, <2>1, <2>2, IdleType DEF TypeInv
<1>9. LockInv
  BY <1>7 DEF LockInv
<1>10. LogInv
  BY <1>0, <1>7 DEF LogInv
<1>11. OrderInv
  BY <1>0, <1>4, <1>7 DEF OrderInv
<1>12. RowsInv
  <2>1. \A n \in 1 .. Len(log) : n = 1 /\ log[n].job = None
    BY <1>0
  <2>2. None \notin Jobs
    BY NoneIsNothing
  <2>3. \A n \in 1 .. db.records : log[n].job \notin Jobs
    BY <1>0, <1>4, <2>2
  <2> QED BY <1>5, <1>7, <2>1, <2>3 DEF RowsInv
<1>13. FilesInv
  <2>1. \A x \in Procs : WorkOK(proc[x], local[proc[x].job])
    BY <1>7 DEF WorkOK
  <2> QED BY <1>6, <1>7, <2>1 DEF FilesInv
<1>14. KeptInv
  BY <1>7 DEF KeptInv
<1>15. ReplayIsExact
  <2>1. Exact(log, EmptyDb)
    <3>1. \A p : IdentOf(log, 0, p) = None /\ PlaceOf(log, 0, p) = "none" /\ RowOf(log, 0, p) = "none"
      BY DEF IdentOf, PlaceOf, RowOf, IdentifyingIn, PlacingIn, AboutIn
    <3> QED BY <3>1 DEF Exact, EmptyDb
  <2>2. Exact(log, db)
    BY <1>0, <1>1, <1>4, <2>1, ProjectExact
  <2> QED BY <2>2, ReplayMeans
<1> QED BY <1>8, <1>9, <1>10, <1>11, <1>12, <1>13, <1>14, <1>15 DEF JobInv

-----------------------------------------------------------------------------
(* Theorems.                                                               *)

\* JobInv is inductive.
LEMMA JobNext == JobInv /\ [Next]_vars => JobInv'
<1>1. ASSUME JobInv, Next PROVE JobInv'
  BY <1>1, TypeStep, LockStep, LogStep, OrderStep, RowsStep, FilesStep, KeptStep, ReplayStep
     DEF JobInv
<1>2. ASSUME JobInv, UNCHANGED vars PROVE JobInv'
  <2>1. ReplayIsExact'
    BY <1>2, ReplayMeans DEF JobInv, vars
  <2>2. FilesInv' /\ KeptInv'
    BY <1>2 DEF JobInv, FilesInv, KeptInv, vars
  <2>3. TypeInv' /\ LockInv' /\ LogInv' /\ OrderInv'
    BY <1>2 DEF JobInv, TypeInv, LockInv, LogInv, OrderInv, vars
  <2>4. RowsInv'
    BY <1>2 DEF JobInv, RowsInv, Unpublished, vars
  <2> QED BY <2>1, <2>2, <2>3, <2>4 DEF JobInv
<1> QED BY <1>1, <1>2

\* JobInv holds in every reachable state.
THEOREM JobInvariant == Spec => []JobInv
BY JobInit, JobNext, PTL DEF Spec

\* TypeOK: cursor, records, log and Git commit stay in order, and every field
\* of the database, of the local files and of a process keeps its range.
THEOREM TypeCorrect == Spec => []TypeOK
<1>1. ASSUME JobInv PROVE TypeOK
  <2>1. /\ disk \in [Paths -> Hashes \cup {None}] /\ committed \in {Len(log) - 1, Len(log)}
        /\ db.cursor <= db.records /\ db.records <= Len(log) /\ db \in DbRec
        /\ local \in [Jobs -> FilesRec] /\ proc \in [Procs -> ProcRec] /\ log \in Seq(BatchRec)
    BY <1>1 DEF JobInv, TypeInv, OrderInv
  <2>2. /\ db.ident \in [Paths -> Hashes \cup {None}] /\ db.copies \in [Paths -> Standings]
        /\ db.rows \in [Jobs -> Statuses]
    BY <2>1 DEF DbRec
  <2>3. \A n \in DOMAIN log : log[n].job \in Jobs \cup {None}
    <3>1. \A n \in DOMAIN log : log[n] \in BatchRec
      BY <2>1
    <3> QED BY <3>1 DEF BatchRec
  <2>4. \A j \in Jobs : local[j].there \subseteq Range(JobFiles)
    BY <2>1, JobFileNames DEF FilesRec
  <2>5. \A x \in Procs : proc[x].seen \subseteq Paths /\ proc[x].todo \subseteq Paths
    BY <2>1 DEF ProcRec
  <2> QED BY <2>1, <2>2, <2>3, <2>4, <2>5 DEF TypeOK, Standings
<1> QED BY <1>1, JobInvariant, PTL

\* PublishedOnce: a job has at most one batch in the log, and none once the
\* database calls it cancelled.
THEOREM OncePublished == Spec => []PublishedOnce
<1>1. ASSUME JobInv PROVE PublishedOnce
  <2>1. DOMAIN log = 1 .. Len(log)
    BY <1>1 DEF JobInv, TypeInv
  <2> QED BY <1>1, <2>1 DEF JobInv, RowsInv, Unpublished, PublishedOnce
<1> QED BY <1>1, JobInvariant, PTL

\* CheckpointIsConsistent: a spool reaches to its checkpoint and the index
\* holds exactly the outcomes up to there and the counted paths.
THEOREM CheckpointsConsistent == Spec => []CheckpointIsConsistent
<1>1. ASSUME JobInv PROVE CheckpointIsConsistent
  <2> SUFFICES ASSUME NEW j \in Jobs, {"config", "spool"} \subseteq local[j].there
               PROVE  LET c == local[j].checkpoint
                          upTo == SubSeq(local[j].spool, 1, c.len)
                          decided == PathsOf(upTo, "observed") \cup PathsOf(upTo, "failed")
                      IN  /\ Len(local[j].spool) >= c.len
                          /\ decided \subseteq c.seen
                          /\ Cardinality(c.seen) = Cardinality(decided) + c.unchanged + c.errors
    BY DEF CheckpointIsConsistent
  <2> DEFINE f == local[j]
             c == f.checkpoint
             S == Decided(Checkpointed(f))
  <2>1. f \in FilesRec /\ FilesOK(f) /\ "spool" \in f.there
    BY <1>1 DEF JobInv, TypeInv, FilesInv
  <2>2. SpoolOK(f) /\ Accounted(Checkpointed(f), c.seen, c.unchanged + c.errors)
    BY <2>1 DEF FilesOK
  <2>3. S \subseteq c.seen /\ Cardinality(c.seen) = Cardinality(S) + (c.unchanged + c.errors)
    BY <2>2 DEF Accounted
  <2>4. /\ c.unchanged \in Nat /\ c.errors \in Nat /\ c.seen \in SUBSET Paths
    BY <2>1, FilesFields
  <2>5. Cardinality(S) \in Nat
    <3>1. S \in SUBSET Paths
      BY <2>3, <2>4
    <3> QED BY <3>1, FinitelyManyPaths, FS_Subset, FS_CardinalityType
  <2>6. Cardinality(c.seen) = Cardinality(S) + c.unchanged + c.errors
    BY <2>3, <2>4, <2>5
  <2>7. S = PathsOf(SubSeq(f.spool, 1, c.len), "observed") \cup
            PathsOf(SubSeq(f.spool, 1, c.len), "failed")
    BY DEF Decided, Checkpointed
  <2>8. Len(f.spool) >= c.len
    BY <2>2 DEF SpoolOK
  <2> HIDE DEF S
  <2> QED BY <2>3, <2>6, <2>7, <2>8
<1> QED BY <1>1, JobInvariant, PTL

\* DecidedOnce: a batch says one thing of a path.
THEOREM PathsDecidedOnce == Spec => []DecidedOnce
<1>1. ASSUME JobInv PROVE DecidedOnce
  <2>1. DOMAIN log = 1 .. Len(log)
    BY <1>1 DEF JobInv, TypeInv
  <2>2. ASSUME NEW n \in DOMAIN log
        PROVE  LET items == log[n].items
                   decided == {i \in DOMAIN items : items[i].kind \in {"observed", "failed"}}
               IN  /\ \A i, k \in decided : items[i].path = items[k].path => i = k
                   /\ \A i \in decided : items[i].path \notin Outcome(log[n]).missing
    <3> DEFINE items == log[n].items
    <3>1. DecidesOnce(items) /\ Decided(items) \cap Last(items).missing = {}
      BY <1>1, <2>1, <2>2 DEF JobInv, LogInv, GoodItems
    <3>2. \A i \in DOMAIN items : Decides(items[i]) => items[i].path \in Decided(items)
      BY DEF Decides, Decided, PathsOf
    <3>3. \A i \in DOMAIN items : Decides(items[i]) => items[i].path \notin Outcome(log[n]).missing
      BY <3>1, <3>2 DEF Outcome
    <3> QED BY <3>1, <3>3 DEF DecidesOnce, Decides
  <2> QED BY <2>2 DEF DecidedOnce
<1> QED BY <1>1, JobInvariant, PTL

\* OutcomesOnce: over kills, resumes, cancellations and rebuilds, a job
\* decides each path once and publishes once.
THEOREM OutcomesAreOnce == Spec => []OutcomesOnce
BY OncePublished, PathsDecidedOnce, PTL DEF OutcomesOnce

\* MissingWasGone: a scan about to publish declares nothing missing that was
\* there during the whole of its last pass.
THEOREM MissingIsGone == Spec => []MissingWasGone
<1>1. ASSUME JobInv PROVE MissingWasGone
  BY <1>1 DEF JobInv, KeptInv, MissingWasGone
<1> QED BY <1>1, JobInvariant, PTL

\* ReplayIsExact: the database is what a rebuild from the applied batches gives,
\* but for the rows of unpublished jobs.
THEOREM ReplayExact == Spec => []ReplayIsExact
<1>1. ASSUME JobInv PROVE ReplayIsExact
  BY <1>1 DEF JobInv
<1> QED BY <1>1, JobInvariant, PTL

=============================================================================
