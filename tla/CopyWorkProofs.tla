---------------------------- MODULE CopyWorkProofs ----------------------------
(***************************************************************************)
(* Proofs about CopyWork: what verify, repair and copy leave at the slots, *)
(* that no outcome is recorded twice, and that verify stops, for every     *)
(* number of slots, jobs and processes.                                    *)
(*                                                                         *)
(* The argument has three layers.  The first says where each process is    *)
(* and that no two work on one job (RunInv).  On it rest the files         *)
(* (FilesInv) and the log with its projection (LogInv), which do not       *)
(* depend on each other.                                                   *)
(***************************************************************************)
EXTENDS CopyWork, TLAPS, FiniteSetTheorems, WellFoundedInduction

Kinds == {"started", "complete", "partial", "observed", "hash_mismatch", "read_error"}

WorkItem == [kind : Kinds, job : WorkJobs, slot : Slots \cup {Nothing},
             stat : Nat \cup {Nothing}, time : Nat]
PlanItem == [slot : Slots, source : Slots \cup {Nothing}, planned : Nat \cup {Nothing}]
Claim == [state : {"none", "present", "corrupt", "unknown"}, verified : Nat,
          result : Kinds \cup {"none", "ok"}, stat : Nat \cup {Nothing}]
Row == [status : Kinds \cup {"none", "running"}, asOf : Nat]

RepairPcs == {"next", "stage", "move", "place", "confirm"}
\* Where a process goes on after it has started its job or applied the log.
Afters == {"select", "read", "next", "copy", "failures", "finish", "leave"}
WorkPcs == Afters \cup RepairPcs \cup {"idle", "begin", "apply", "record", "publish", "readback"}

WorkerState ==
    [pc : WorkPcs, job : WorkJobs \cup {Nothing}, then : Afters \cup {"idle"}, asOf : Nat,
     plan : SUBSET PlanItem, cur : PlanItem \cup {Nothing}, todo : SUBSET Slots,
     found : SUBSET WorkItem, failed : BOOLEAN, attempted : SUBSET Slots, read : Nat,
     limit : Nat, more : BOOLEAN]

FilesTypeOK ==
    /\ dest \in [Slots -> File] /\ live \in [Slots -> File]
    /\ staged \in [RepairJobs -> [Slots -> File]]
    /\ quar \in [RepairJobs -> [Slots -> File]]

CopyDb == [claims : [Slots -> Claim], rows : [WorkJobs -> Row],
           outcomes : SUBSET (Kinds \X WorkJobs \X (Slots \cup {Nothing})),
           cursor : Nat, stuck : BOOLEAN]

DbTypeOK == copyLog \in Seq(SUBSET WorkItem) /\ copyDb \in CopyDb

RestTypeOK ==
    /\ ended \subseteq RepairJobs /\ moved \subseteq Slots
    /\ copyStarts \in Nat /\ kills \in Nat /\ outside \in Nat

CopyTypeOK ==
    /\ FilesTypeOK /\ DbTypeOK /\ RestTypeOK
    /\ worker \in [Workers -> WorkerState]

\* What holds of a process at each place.
WorkerGood(p) ==
    /\ p.pc = "idle" => p = IdleWorker
    /\ p.pc # "idle" => p.job \in WorkJobs
    /\ p.pc \in {"begin", "apply"} => p.then \in Afters
    /\ p.pc \in RepairPcs \/ (p.pc \in {"begin", "apply"} /\ p.then = "next")
         => p.job \in RepairJobs
    /\ p.pc \in RepairPcs \ {"next"} => p.cur \in PlanItem
    /\ \A i \in p.found : i.job = p.job
    /\ p.read <= CopyBatch * Cardinality(p.attempted)

OneWorkerPerJob ==
    \A x, y \in Workers : worker[x].job = worker[y].job /\ worker[x].job # Nothing => x = y

RunInv ==
    /\ CopyTypeOK
    /\ \A x \in Workers : WorkerGood(worker[x])
    /\ OneWorkerPerJob

\* What is staged was verified, and a file is moved out of the way only when
\* its replacement is staged.
FilesInv ==
    /\ NothingIsLost
    /\ \A j \in RepairJobs, s \in Slots : staged[j][s] # Nothing => IsGood(staged[j][s])
    /\ \A x \in Workers : worker[x].pc = "move" =>
         \/ quar[worker[x].job][worker[x].cur.slot] # Nothing
         \/ staged[worker[x].job][worker[x].cur.slot] # Nothing

\* A process that works on its job has applied all its job has in the log.
Working(p) == p.pc \notin {"idle", "begin", "apply"}

Settled(p, log, cursor) ==
    Working(p) => \A n \in DOMAIN log : (\E i \in log[n] : i.job = p.job) => n <= cursor

LogInv ==
    /\ OneOutcomePerKey
    /\ copyDb.cursor <= Len(copyLog)
    /\ copyDb.outcomes = UNION {Keys(copyLog[n]) : n \in 1..copyDb.cursor}
    /\ \A x \in Workers : Settled(worker[x], copyLog, copyDb.cursor)

CopyInv == RunInv /\ FilesInv /\ LogInv

-----------------------------------------------------------------------------
(* Least elements of finite sets.                                          *)

\* A set of naturals has a least element.
LEMMA LeastNatural ==
    ASSUME NEW S \in SUBSET Nat, S # {}
    PROVE  \E m \in S : \A k \in S : m <= k
<1> DEFINE Less == {ss \in Nat \X Nat : ss[1] < ss[2]}
<1>1. IsWellFoundedOn(Less, Nat)
  BY NatLessThanWellFounded DEF OpToRel
<1>2. PICK m \in S : \A k \in S : ~(<<k, m>> \in Less)
  <2> HIDE DEF Less
  <2> QED BY <1>1, WFMin
<1>3. \A k \in S : ~(k < m)
  BY <1>2
<1> QED BY <1>3

\* So has a finite set under a strict total order, given as a set of pairs.
LEMMA LeastOf ==
    ASSUME NEW S, IsFiniteSet(S), S # {}, NEW R,
           \A u \in S : <<u, u>> \notin R,
           \A u, v, t \in S : <<u, v>> \in R /\ <<v, t>> \in R => <<u, t>> \in R,
           \A u, v \in S : u # v => <<u, v>> \in R \/ <<v, u>> \in R
    PROVE  \E m \in S : \A u \in S \ {m} : <<m, u>> \in R
<1> DEFINE Below(t) == {u \in S : <<u, t>> \in R}
           Ranks == {Cardinality(Below(t)) : t \in S}
<1>1. \A t \in S : IsFiniteSet(Below(t)) /\ Cardinality(Below(t)) \in Nat
  BY FS_Subset, FS_CardinalityType
<1>2. Ranks \in SUBSET Nat /\ Ranks # {}
  <2> HIDE DEF Below
  <2> QED BY <1>1
<1>3. PICK r \in Ranks : \A k \in Ranks : r <= k
  BY <1>2, LeastNatural
<1>4. PICK m \in S : r = Cardinality(Below(m))
  OBVIOUS
<1>5. ASSUME NEW u \in S \ {m}, <<m, u>> \notin R PROVE FALSE
  <2>1. <<u, m>> \in R
    BY <1>5
  <2>2. Below(u) \in SUBSET Below(m) /\ u \in Below(m) /\ u \notin Below(u)
    BY <2>1
  <2>3. Cardinality(Below(u)) <= Cardinality(Below(m))
        /\ Cardinality(Below(u)) # Cardinality(Below(m))
    <3> HIDE DEF Below
    <3> QED BY <1>1, <2>2, FS_Subset
  <2>4. Cardinality(Below(m)) <= Cardinality(Below(u))
    <3>1. Cardinality(Below(u)) \in Ranks
      OBVIOUS
    <3> QED BY <1>3, <1>4, <3>1
  <2> HIDE DEF Below
  <2> QED BY <2>3, <2>4, <1>1
<1> QED BY <1>5

\* Slots are finitely many numbers.
LEMMA SlotsFinite ==
    /\ IsFiniteSet(Slots) /\ Cardinality(Slots) = NSlots
    /\ \A S \in SUBSET Slots : IsFiniteSet(S) /\ Cardinality(S) \in 0..NSlots
<1>1. IsFiniteSet(Slots) /\ Cardinality(Slots) = NSlots
  BY SlotsNamed, FS_Interval DEF Slots
<1>2. \A S \in SUBSET Slots : IsFiniteSet(S) /\ Cardinality(S) <= NSlots
  BY <1>1, FS_Subset
<1>3. \A S \in SUBSET Slots : Cardinality(S) \in Nat
  BY <1>2, FS_CardinalityType
<1> QED BY <1>1, <1>2, <1>3, SlotsNamed

\* Min of a set of slots is one of them.
LEMMA MinSlot ==
    ASSUME NEW S \in SUBSET Slots, S # {}
    PROVE  Min(S) \in S
<1>1. S \in SUBSET Nat
  BY SlotsNamed DEF Slots
<1>2. \E m \in S : \A k \in S : m <= k
  BY <1>1, LeastNatural
<1> QED BY <1>2 DEF Min

\* The last of some numbered items is one of them.
LEMMA LastIsOne ==
    ASSUME NEW n \in Nat, NEW V, NEW news \in SUBSET ((1..n) \X V), news # {}
    PROVE  /\ \E t \in news : LastOf(news) = t[2]
           /\ LastOf(news) \in V
<1> DEFINE Left == {n - t[1] : t \in news}
<1>1. Left \in SUBSET Nat /\ Left # {}
  OBVIOUS
<1>2. PICK l \in Left : \A k \in Left : l <= k
  BY <1>1, LeastNatural
<1>3. PICK t \in news : l = n - t[1]
  OBVIOUS
<1>4. \A u \in news : u[1] <= t[1]
  <2> TAKE u \in news
  <2>1. n - u[1] \in Left
    OBVIOUS
  <2>2. l <= n - u[1] /\ l = n - t[1]
    BY <2>1, <1>2, <1>3
  <2>3. u[1] \in Int /\ t[1] \in Int
    OBVIOUS
  <2> QED BY <2>2, <2>3
<1>5. LET c == CHOOSE v \in news : \A u \in news : u[1] <= v[1]
      IN  c \in news
  BY <1>4
<1> QED BY <1>5 DEF LastOf

-----------------------------------------------------------------------------
(* What the commands select.                                               *)

\* due_verification_targets returns at most as many copies as it is asked for.
LEMMA FirstDueBound ==
    ASSUME DbTypeOK, NEW asOf, NEW n \in Int
    PROVE  /\ FirstDue(asOf, n) \subseteq Slots
           /\ FirstDue(asOf, n) = {} \/ Cardinality(FirstDue(asOf, n)) <= n
<1> DEFINE F == FirstDue(asOf, n)
           B(s) == {t \in Due(asOf) : Before(t, s)}
           R == {ss \in Slots \X Slots : Before(ss[2], ss[1])}
<1>1. F \subseteq Slots /\ Due(asOf) \subseteq Slots
  BY DEF FirstDue, Due
<1>2. \A s \in Slots : copyDb.claims[s].verified \in Nat
  BY DEF DbTypeOK, CopyDb, Claim
<1>3. \A s \in Slots : s \in Nat
  BY SlotsNamed DEF Slots
<1>4. \A u, v \in Slots : <<u, v>> \in R <=> Before(v, u)
  OBVIOUS
<1>5. /\ \A u \in Slots : ~Before(u, u)
      /\ \A u, v, t \in Slots : Before(v, u) /\ Before(t, v) => Before(t, u)
      /\ \A u, v \in Slots : u # v => Before(v, u) \/ Before(u, v)
  BY <1>2, <1>3 DEF Before
<1>6. CASE F # {}
  <2>1. IsFiniteSet(F)
    BY <1>1, SlotsFinite
  <2>2. PICK m \in F : \A u \in F \ {m} : <<m, u>> \in R
    <3> HIDE DEF F, R
    <3>1. \A u \in F : <<u, u>> \notin R
      BY <1>1, <1>4, <1>5
    <3>2. \A u, v, t \in F : <<u, v>> \in R /\ <<v, t>> \in R => <<u, t>> \in R
      BY <1>1, <1>4, <1>5
    <3>3. \A u, v \in F : u # v => <<u, v>> \in R \/ <<v, u>> \in R
      BY <1>1, <1>4, <1>5
    <3> QED BY ONLY <1>6, <2>1, <3>1, <3>2, <3>3, LeastOf
  <2>3. F \ {m} \subseteq B(m)
    <3>1. \A u \in F \ {m} : Before(u, m)
      BY <2>2, <1>4, <1>1
    <3> QED BY <3>1 DEF FirstDue
  <2>4. Cardinality(B(m)) < n
    BY DEF FirstDue
  <2>5. IsFiniteSet(B(m)) /\ Cardinality(B(m)) \in Nat
    <3>1. B(m) \in SUBSET Slots
      BY <1>1
    <3> HIDE DEF B
    <3> QED BY <3>1, SlotsFinite, SlotsNamed
  <2>6. Cardinality(F \ {m}) <= Cardinality(B(m))
    <3> HIDE DEF F, B
    <3> QED BY <2>3, <2>5, FS_Subset
  <2>7. Cardinality(F) \in Nat /\ Cardinality(F \ {m}) = Cardinality(F) - 1
    <3> HIDE DEF F
    <3> QED BY <2>1, FS_RemoveElement, FS_CardinalityType
  <2> HIDE DEF F, B
  <2>8. Cardinality(F) <= n
    BY <2>4, <2>5, <2>6, <2>7
  <2> QED BY <2>8, <1>1 DEF F
<1> QED BY <1>1, <1>6

\* repair_source: a slot, or none.
LEMMA RepairSourceType ==
    ASSUME DbTypeOK, NEW s
    PROVE  RepairSource(s) \in Slots \cup {Nothing}
<1> DEFINE S == Sources(s)
           Better(t, u) ==
             \/ copyDb.claims[u].verified < copyDb.claims[t].verified
             \/ copyDb.claims[u].verified = copyDb.claims[t].verified /\ t < u
           R == {ss \in Slots \X Slots : Better(ss[1], ss[2])}
<1>1. S \subseteq Slots
  BY DEF Sources
<1>2. \A t \in Slots : copyDb.claims[t].verified \in Nat
  BY DEF DbTypeOK, CopyDb, Claim
<1>3. \A t \in Slots : t \in Nat
  BY SlotsNamed DEF Slots
<1>4. \A u, v \in Slots : <<u, v>> \in R <=> Better(u, v)
  OBVIOUS
<1>5. /\ \A u \in Slots : ~Better(u, u)
      /\ \A u, v, t \in Slots : Better(u, v) /\ Better(v, t) => Better(u, t)
      /\ \A u, v \in Slots : u # v => Better(u, v) \/ Better(v, u)
  BY <1>2, <1>3
<1>6. CASE S # {}
  <2>1. IsFiniteSet(S)
    BY <1>1, SlotsFinite
  <2>2. PICK m \in S : \A u \in S \ {m} : <<m, u>> \in R
    <3> HIDE DEF S, R, Better
    <3>1. \A u \in S : <<u, u>> \notin R
      BY <1>1, <1>4, <1>5
    <3>2. \A u, v, t \in S : <<u, v>> \in R /\ <<v, t>> \in R => <<u, t>> \in R
      BY <1>1, <1>4, <1>5
    <3>3. \A u, v \in S : u # v => <<u, v>> \in R \/ <<v, u>> \in R
      BY <1>1, <1>4, <1>5
    <3> QED BY ONLY <1>6, <2>1, <3>1, <3>2, <3>3, LeastOf
  <2>3. m \in S /\ \A u \in S \ {m} : Better(m, u)
    BY <2>2, <1>4, <1>1
  <2>4. RepairSource(s) = CHOOSE t \in S : \A u \in S \ {t} : Better(t, u)
    BY <1>6 DEF RepairSource
  <2>5. RepairSource(s) \in S
    <3> HIDE DEF S, Better
    <3> QED BY <2>3, <2>4
  <2> QED BY <2>5, <1>1
<1>7. CASE S = {}
  BY <1>7 DEF RepairSource
<1> QED BY <1>6, <1>7

\* The plan of a repair.
LEMMA RepairPlanType ==
    ASSUME DbTypeOK, FilesTypeOK, NEW j \in RepairJobs
    PROVE  RepairPlan(j) \subseteq PlanItem /\ PlanFailed(j) \in BOOLEAN
<1>1. \A s \in Slots : RepairSource(s) \in Slots \cup {Nothing}
  BY RepairSourceType
<1>2. \A s \in Slots : Repairable(j, s) /\ ~Resuming(j, s) => dest[s].stat \in Nat
  BY DEF Repairable, FilesTypeOK, File, SomeFile
<1>3. PlanFailed(j) \in BOOLEAN
  BY DEF PlanFailed
<1> QED BY <1>1, <1>2, <1>3 DEF RepairPlan, PlanItem

\* What hashing finds.
LEMMA OutcomeType ==
    ASSUME FilesTypeOK, NEW j \in WorkJobs, NEW s \in Slots
    PROVE  WorkOutcome(j, s) \in WorkItem /\ WorkOutcome(j, s).job = j
BY DEF WorkOutcome, Item, WorkItem, Kinds, FilesTypeOK, File, SomeFile, IsGood, Now

-----------------------------------------------------------------------------
(* The projection.                                                         *)

\* Max of a bounded set of naturals.
LEMMA MaxIsOne ==
    ASSUME NEW n \in Nat, NEW S \in SUBSET (0..n), S # {}
    PROVE  Max(S) \in S /\ \A k \in S : k <= Max(S)
<1> DEFINE Left == {n - k : k \in S}
<1>1. Left \in SUBSET Nat /\ Left # {}
  <2>1. \A k \in S : n - k \in Nat
    OBVIOUS
  <2> QED BY <2>1
<1>2. PICK l \in Left : \A k \in Left : l <= k
  BY <1>1, LeastNatural
<1>3. PICK m \in S : l = n - m
  OBVIOUS
<1>4. \A k \in S : m >= k
  <2> TAKE k \in S
  <2>1. n - k \in Left
    OBVIOUS
  <2>2. l <= n - k /\ l = n - m
    BY <2>1, <1>2, <1>3
  <2>3. k \in Int /\ m \in Int
    OBVIOUS
  <2> QED BY <2>2, <2>3
<1>5. Max(S) \in S /\ \A k \in S : Max(S) >= k
  BY <1>4 DEF Max
<1>6. \A k \in S : k \in Int
  OBVIOUS
<1> QED BY <1>5, <1>6

\* The claim and the job row that some items of the log make of one.
LEMMA ProjectedClaimType ==
    ASSUME NEW n \in Nat, NEW news \in SUBSET ((1..n) \X WorkItem), NEW claim \in Claim
    PROVE  ProjectedClaim(claim, news) \in Claim
<1> DEFINE observed == {t \in news : t[2].kind = "observed"}
           seen == IF observed = {} THEN claim ELSE ObservedClaim(LastOf(observed))
<1>1. seen \in Claim
  <2>1. CASE observed # {}
    <3>1. LastOf(observed) \in WorkItem
      BY <2>1, LastIsOne
    <3>2. seen = ObservedClaim(LastOf(observed))
      BY <2>1
    <3> QED BY <3>1, <3>2 DEF ObservedClaim, Claim, WorkItem
  <2> QED BY <2>1
<1> HIDE DEF seen
<1>2. CASE news = {}
  BY <1>1, <1>2 DEF ProjectedClaim, seen
<1>3. CASE news # {}
  <2>1. LastOf(news) \in WorkItem
    BY <1>3, LastIsOne
  <2>2. FailedClaim(seen, LastOf(news)) \in Claim
    BY <1>1, <2>1 DEF FailedClaim, Claim, WorkItem
  <2>3. ProjectedClaim(claim, news) \in {seen, FailedClaim(seen, LastOf(news))}
    BY DEF ProjectedClaim, seen
  <2> QED BY <1>1, <2>2, <2>3
<1> QED BY <1>2, <1>3

LEMMA ProjectedRowType ==
    ASSUME NEW n \in Nat, NEW news \in SUBSET ((1..n) \X WorkItem), NEW row \in Row
    PROVE  ProjectedRow(row, news) \in Row
<1> DEFINE started == {t \in news : t[2].kind = "started"}
           status == IF news = {} THEN row.status
                     ELSE IF LastOf(news).kind = "started" THEN "running"
                     ELSE LastOf(news).kind
           asOf == IF started = {} THEN row.asOf ELSE LastOf(started).time
<1>1. news # {} => LastOf(news) \in WorkItem
  BY LastIsOne
<1>2. started # {} => LastOf(started) \in WorkItem
  BY LastIsOne
<1>3. status \in Kinds \cup {"none", "running"}
  BY <1>1 DEF Row, WorkItem
<1>4. asOf \in Nat
  <2> HIDE DEF started
  <2> QED BY <1>2 DEF Row, WorkItem
<1>5. ProjectedRow(row, news) = [status |-> status, asOf |-> asOf]
  BY DEF ProjectedRow
<1> HIDE DEF status, asOf
<1> QED BY <1>3, <1>4, <1>5 DEF Row

\* Keys of items.
LEMMA KeyType ==
    ASSUME NEW batch \in SUBSET WorkItem
    PROVE  /\ Keys(batch) \subseteq Kinds \X WorkJobs \X (Slots \cup {Nothing})
           /\ \A k \in Keys(batch) : \E i \in batch : k = Key(i) /\ i.job = k[2]
BY DEF Keys, Key, WorkItem

\* What apply writes is a database.
LEMMA AppliedType ==
    ASSUME DbTypeOK
    PROVE  Applied(copyDb) \in CopyDb
<1> DEFINE d == copyDb
           batches == ProjectedBatches(d)
           news == UNION {{n} \X copyLog[n] : n \in batches}
           claims == [s \in Slots |-> ProjectedClaim(d.claims[s], {t \in news : t[2].slot = s})]
           rows == [j \in WorkJobs |->
                     ProjectedRow(d.rows[j], {t \in news : t[2].job = j /\ t[2].slot = Nothing})]
           outcomes == d.outcomes \cup UNION {Keys(copyLog[n]) : n \in batches}
           cursor == Max(batches \cup {d.cursor})
<1>1. d.cursor \in Nat /\ Len(copyLog) \in Nat /\ d.claims \in [Slots -> Claim]
      /\ d.rows \in [WorkJobs -> Row]
      /\ d.outcomes \subseteq Kinds \X WorkJobs \X (Slots \cup {Nothing})
  BY DEF DbTypeOK, CopyDb
<1>2. batches \subseteq 1..Len(copyLog)
  BY <1>1 DEF ProjectedBatches
<1>3. \A n \in batches : copyLog[n] \in SUBSET WorkItem
  BY <1>2 DEF DbTypeOK
<1>4. news \in SUBSET ((1..Len(copyLog)) \X WorkItem)
  BY <1>2, <1>3
<1> HIDE DEF news
<1>5. claims \in [Slots -> Claim]
  <2>1. ASSUME NEW s \in Slots
        PROVE  ProjectedClaim(d.claims[s], {t \in news : t[2].slot = s}) \in Claim
    <3>1. {t \in news : t[2].slot = s} \in SUBSET ((1..Len(copyLog)) \X WorkItem)
      BY <1>4
    <3> QED BY <3>1, <1>1, ProjectedClaimType
  <2> QED BY <2>1
<1>6. rows \in [WorkJobs -> Row]
  <2>1. ASSUME NEW j \in WorkJobs
        PROVE  ProjectedRow(d.rows[j], {t \in news : t[2].job = j /\ t[2].slot = Nothing}) \in Row
    <3>1. {t \in news : t[2].job = j /\ t[2].slot = Nothing}
            \in SUBSET ((1..Len(copyLog)) \X WorkItem)
      BY <1>4
    <3> QED BY <3>1, <1>1, ProjectedRowType
  <2> QED BY <2>1
<1>7. outcomes \subseteq Kinds \X WorkJobs \X (Slots \cup {Nothing})
  <2>1. \A n \in batches :
          Keys(copyLog[n]) \subseteq Kinds \X WorkJobs \X (Slots \cup {Nothing})
    BY <1>3, KeyType
  <2> QED BY <1>1, <2>1
<1>8. cursor \in Nat
  <2>1. batches \cup {d.cursor} \in SUBSET (0..(d.cursor + Len(copyLog)))
    BY <1>1, <1>2
  <2>2. cursor \in batches \cup {d.cursor}
    <3>1. d.cursor + Len(copyLog) \in Nat /\ batches \cup {d.cursor} # {}
      BY <1>1
    <3> QED BY ONLY <2>1, <3>1, MaxIsOne
  <2> QED BY <2>1, <2>2, <1>1
<1>9. Applied(d) = [claims |-> claims, rows |-> rows, outcomes |-> outcomes,
                    cursor |-> cursor, stuck |-> batches # d.cursor + 1..Len(copyLog)]
  BY DEF Applied, news
<1> HIDE DEF claims, rows, outcomes, cursor
<1> QED BY <1>5, <1>6, <1>7, <1>8, <1>9 DEF CopyDb

\* Where no key is there twice, apply projects the whole log.
LEMMA AppliedAll ==
    ASSUME DbTypeOK, OneOutcomePerKey, copyDb.cursor <= Len(copyLog),
           copyDb.outcomes = UNION {Keys(copyLog[n]) : n \in 1..copyDb.cursor}
    PROVE  /\ ~Applied(copyDb).stuck
           /\ Applied(copyDb).cursor = Len(copyLog)
           /\ Applied(copyDb).outcomes = UNION {Keys(copyLog[n]) : n \in 1..Len(copyLog)}
<1> DEFINE d == copyDb
           L == Len(copyLog)
<1>1. d.cursor \in Nat /\ L \in Nat /\ DOMAIN copyLog = 1..L
  BY DEF DbTypeOK, CopyDb
<1>2. \A m, n \in 1..L : m # n => Keys(copyLog[m]) \cap Keys(copyLog[n]) = {}
  BY <1>1 DEF OneOutcomePerKey, Keys
<1>3. \A n \in d.cursor + 1..L : ~Conflicts(d, n)
  <2> TAKE n \in d.cursor + 1..L
  <2>1. \A m \in 1..n - 1 : Keys(copyLog[m]) \cap Keys(copyLog[n]) = {}
    BY <1>1, <1>2
  <2>2. Keys(copyLog[n]) \cap d.outcomes = {}
    BY <1>1, <2>1
  <2> QED BY <1>1, <2>1, <2>2 DEF Conflicts
<1>4. ProjectedBatches(d) = d.cursor + 1..L
  BY <1>1, <1>3 DEF ProjectedBatches
<1>5. Max(ProjectedBatches(d) \cup {d.cursor}) = L
  <2>1. ProjectedBatches(d) \cup {d.cursor} = d.cursor..L
    BY <1>1, <1>4
  <2>2. Max(d.cursor..L) \in d.cursor..L /\ \A k \in d.cursor..L : k <= Max(d.cursor..L)
    <3>1. d.cursor..L \in SUBSET (0..L) /\ d.cursor..L # {}
      BY <1>1
    <3> QED BY ONLY <1>1, <3>1, MaxIsOne
  <2>3. L \in d.cursor..L
    BY <1>1
  <2>4. Max(d.cursor..L) = L
    BY ONLY <1>1, <2>2, <2>3
  <2> QED BY <2>1, <2>4
<1>6. d.outcomes \cup UNION {Keys(copyLog[n]) : n \in d.cursor + 1..L}
        = UNION {Keys(copyLog[n]) : n \in 1..L}
  <2>1. 1..L = (1..d.cursor) \cup (d.cursor + 1..L)
    BY <1>1
  <2> QED BY <2>1
<1> QED BY <1>4, <1>5, <1>6 DEF Applied

-----------------------------------------------------------------------------
(* The processes.                                                          *)

LEMMA IdleIsGood == IdleWorker \in WorkerState /\ WorkerGood(IdleWorker)
<1>1. Cardinality({}) = 0
  BY FS_EmptySet
<1>2. IdleWorker \in WorkerState
  BY DEF IdleWorker, WorkerState, WorkPcs, Afters
<1>3. 0 <= CopyBatch * 0
  BY PositiveLimits
<1> QED BY <1>1, <1>2, <1>3 DEF WorkerGood, IdleWorker, RepairPcs, Afters

\* A step of one process.
LEMMA Turn ==
    ASSUME RunInv, NEW x \in Workers, NEW r \in WorkerState, WorkerGood(r),
           worker' = [worker EXCEPT ![x] = r],
           r.job = Nothing \/ \A y \in Workers \ {x} : worker[y].job # r.job,
           FilesTypeOK', DbTypeOK', RestTypeOK'
    PROVE  RunInv'
<1>1. worker \in [Workers -> WorkerState]
  BY DEF RunInv, CopyTypeOK
<1>2. worker' \in [Workers -> WorkerState]
  BY <1>1
<1>3. \A y \in Workers : worker'[y] = IF y = x THEN r ELSE worker[y]
  BY <1>1
<1>4. \A y \in Workers : WorkerGood(worker'[y])
  BY <1>3 DEF RunInv
<1>5. OneWorkerPerJob'
  BY <1>3 DEF RunInv, OneWorkerPerJob
<1> QED BY <1>2, <1>4, <1>5 DEF RunInv, CopyTypeOK

\* What the invariant says of the process that moves.
LEMMA Mover ==
    ASSUME RunInv, NEW x \in Workers
    PROVE  /\ worker[x] \in WorkerState /\ WorkerGood(worker[x])
           /\ worker[x].pc # "idle" =>
                /\ worker[x].job \in WorkJobs
                /\ \A y \in Workers \ {x} : worker[y].job # worker[x].job
           /\ FilesTypeOK /\ DbTypeOK /\ RestTypeOK
<1>1. worker[x] \in WorkerState /\ WorkerGood(worker[x])
  BY DEF RunInv, CopyTypeOK
<1>2. worker[x].pc # "idle" => worker[x].job \in WorkJobs
  BY <1>1 DEF WorkerGood
<1> QED BY <1>1, <1>2, NothingIsApart DEF RunInv, CopyTypeOK, OneWorkerPerJob

\* A process that goes on with its job.
LEMMA GoesOn ==
    ASSUME RunInv, NEW x \in Workers, worker[x].pc # "idle",
           NEW r \in WorkerState, WorkerGood(r), Set(x, r), r.job = worker[x].job,
           FilesTypeOK', DbTypeOK', RestTypeOK'
    PROVE  RunInv'
<1>1. \A y \in Workers \ {x} : worker[y].job # r.job
  BY Mover
<1> QED BY <1>1, Turn DEF Set

\* A process that ends, or is killed.
LEMMA Leaves ==
    ASSUME RunInv, NEW x \in Workers, Set(x, IdleWorker),
           FilesTypeOK', DbTypeOK', RestTypeOK'
    PROVE  RunInv'
<1>1. IdleWorker.job = Nothing
  BY DEF IdleWorker
<1> QED BY <1>1, IdleIsGood, Turn DEF Set

\* The types of what a step leaves alone.
LEMMA FilesTypeSame ==
    ASSUME FilesTypeOK, UNCHANGED <<files, live>> PROVE FilesTypeOK'
BY DEF FilesTypeOK, files

LEMMA DbTypeSame ==
    ASSUME DbTypeOK, UNCHANGED <<copyLog, copyDb>> PROVE DbTypeOK'
BY DEF DbTypeOK

LEMMA RestTypeSame ==
    ASSUME RestTypeOK, UNCHANGED <<moved, copyStarts, kills>>,
           ended' \subseteq RepairJobs, outside' \in Nat
    PROVE  RestTypeOK'
BY DEF RestTypeOK

LEMMA ExitType ==
    ASSUME RestTypeOK, NEW x, Exit(x)
    PROVE  Set(x, IdleWorker) /\ ended' \subseteq RepairJobs
BY DEF RestTypeOK, Exit

LEMMA RunInvInit == CopyInit => RunInv
<1> SUFFICES ASSUME CopyInit PROVE RunInv
  OBVIOUS
<1>1. FilesTypeOK
  BY DEF CopyInit, FilesTypeOK, File, SomeFile, FirstFile, Good, Bad
<1>2. DbTypeOK
  <2>1. \A s \in Slots : FirstClaim(s) \in Claim
    BY DEF FirstClaim, Claim, NoClaim, ObservedClaim, FailedClaim, Item, Kinds
  <2> QED BY <2>1 DEF CopyInit, DbTypeOK, CopyDb, Row
<1>3. RestTypeOK
  BY DEF CopyInit, RestTypeOK
<1>4. \A x \in Workers : worker[x] = IdleWorker
  BY DEF CopyInit
<1>5. worker \in [Workers -> WorkerState] /\ OneWorkerPerJob
  BY <1>4, IdleIsGood DEF CopyInit, OneWorkerPerJob, IdleWorker
<1> QED BY <1>1, <1>2, <1>3, <1>4, <1>5, IdleIsGood DEF RunInv, CopyTypeOK

\* The start of a command.
LEMMA BeginRuns ==
    ASSUME RunInv, NEW x \in Workers, NEW j \in WorkJobs, Startable(x, j),
           NEW state \in WorkerState, Begin(x, j, state), state.then \in Afters,
           state.then = "next" => j \in RepairJobs,
           state.found = {}, state.read = 0, state.attempted = {}
    PROVE  RunInv'
<1> DEFINE r == [state EXCEPT !.pc = "begin", !.job = j]
<1>1. r \in WorkerState
  BY DEF WorkerState, WorkPcs
<1>2. Cardinality({}) = 0 /\ 0 <= CopyBatch * 0
  BY FS_EmptySet, PositiveLimits
<1>3. /\ r.pc = "begin" /\ r.job = j /\ r.then = state.then
      /\ r.found = {} /\ r.read = 0 /\ r.attempted = {}
  BY DEF WorkerState
<1>4. WorkerGood(r)
  <2> HIDE DEF r
  <2> QED BY <1>2, <1>3 DEF WorkerGood, RepairPcs
<1>5. \A y \in Workers : worker[y].job # j
  BY DEF Startable
<1>6. FilesTypeOK /\ DbTypeOK /\ RestTypeOK
  BY Mover
<1>7. FilesTypeOK' /\ DbTypeOK'
  BY <1>6, FilesTypeSame, DbTypeSame DEF Begin
<1>8. RestTypeOK'
  BY <1>6 DEF RestTypeOK, Begin
<1>9. worker' = [worker EXCEPT ![x] = r]
  BY DEF Begin, Set
<1> HIDE DEF r
<1> QED BY <1>1, <1>3, <1>4, <1>5, <1>7, <1>8, <1>9, Turn

\* The selection time of a job.
LEMMA AsOfType ==
    ASSUME DbTypeOK, NEW j \in WorkJobs
    PROVE  AsOf(j) \subseteq Nat
BY PositiveLimits DEF AsOf, Now, DbTypeOK, CopyDb, Row

\* Every start.
LEMMA StartRuns ==
    ASSUME RunInv, NEW x \in Workers, StartWork(x)
    PROVE  RunInv'
<1>1. PICK j \in WorkJobs : \/ StartVerify(x, j) \/ StartBackground(x, j)
                            \/ StartRepair(x, j) \/ StartCopy(x, j)
  BY DEF StartWork
<1>2. FilesTypeOK /\ DbTypeOK /\ RestTypeOK
  BY Mover
<1>3. IdleWorker \in WorkerState
  BY IdleIsGood
<1>4. CASE StartVerify(x, j)
  <2>1. PICK asOf \in AsOf(j), limit \in MaxItems :
          Begin(x, j, [IdleWorker EXCEPT !.asOf = asOf, !.limit = limit, !.then = "select"])
    BY <1>4 DEF StartVerify
  <2> DEFINE state == [IdleWorker EXCEPT !.asOf = asOf, !.limit = limit, !.then = "select"]
  <2>2. asOf \in Nat /\ limit \in Nat
    BY <1>2, AsOfType, PositiveLimits
  <2>3. state \in WorkerState /\ state.then = "select" /\ state.found = {}
        /\ state.read = 0 /\ state.attempted = {}
    BY <2>2, <1>3 DEF IdleWorker, WorkerState, Afters
  <2>4. Startable(x, j)
    BY <1>4 DEF StartVerify
  <2> HIDE DEF state
  <2> QED BY <2>1, <2>3, <2>4, BeginRuns DEF Afters, state
<1>5. CASE StartBackground(x, j)
  <2>1. PICK asOf \in AsOf(j) :
          Begin(x, j, [IdleWorker EXCEPT
                    !.asOf = asOf, !.todo = FirstDue(asOf, BackgroundItems),
                    !.more = Cardinality(FirstDue(asOf, BackgroundItems + 1)) > BackgroundItems,
                    !.then = "read"])
    BY <1>5 DEF StartBackground
  <2> DEFINE more == Cardinality(FirstDue(asOf, BackgroundItems + 1)) > BackgroundItems
             todo == FirstDue(asOf, BackgroundItems)
             state == [IdleWorker EXCEPT !.asOf = asOf, !.todo = todo, !.more = more,
                                         !.then = "read"]
  <2>2. asOf \in Nat /\ todo \subseteq Slots
    BY <1>2, AsOfType, PositiveLimits, FirstDueBound
  <2>3. more \in BOOLEAN
    OBVIOUS
  <2>4. Startable(x, j) /\ Begin(x, j, state)
    BY <1>5, <2>1 DEF StartBackground
  <2> HIDE DEF more, todo
  <2>5. state \in WorkerState /\ state.then = "read" /\ state.found = {}
        /\ state.read = 0 /\ state.attempted = {}
    BY <2>2, <2>3, <1>3 DEF IdleWorker, WorkerState, Afters
  <2> HIDE DEF state
  <2> QED BY <2>4, <2>5, BeginRuns DEF Afters
<1>6. CASE StartRepair(x, j)
  <2>1. CASE RepairPlan(j) = {}
    <3>1. UNCHANGED worker
      BY <1>6, <2>1 DEF StartRepair
    <3>2. FilesTypeOK' /\ DbTypeOK'
      BY <1>2, <1>6, <2>1, FilesTypeSame, DbTypeSame DEF StartRepair
    <3>3. RestTypeOK'
      BY <1>2, <1>6, <2>1 DEF StartRepair, RestTypeOK
    <3> QED BY <3>1, <3>2, <3>3 DEF RunInv, CopyTypeOK, OneWorkerPerJob
  <2>2. CASE RepairPlan(j) # {}
    <3> DEFINE plan == RepairPlan(j)
               failed == PlanFailed(j)
               state == [IdleWorker EXCEPT !.plan = plan, !.failed = failed, !.then = "next"]
    <3>1. j \in RepairJobs /\ Startable(x, j) /\ Begin(x, j, state)
      BY <1>6, <2>2 DEF StartRepair
    <3>2. plan \subseteq PlanItem /\ failed \in BOOLEAN
      BY <3>1, <1>2, RepairPlanType
    <3> HIDE DEF plan, failed
    <3>3. state \in WorkerState /\ state.then = "next" /\ state.found = {}
          /\ state.read = 0 /\ state.attempted = {}
      BY <3>2, <1>3 DEF IdleWorker, WorkerState, Afters
    <3> HIDE DEF state
    <3> QED BY <3>1, <3>3, BeginRuns DEF Afters
  <2> QED BY <2>1, <2>2
<1>7. CASE StartCopy(x, j)
  <2> DEFINE state == [IdleWorker EXCEPT !.then = "copy"]
  <2>1. Startable(x, j) /\ Begin(x, j, state)
    BY <1>7 DEF StartCopy
  <2>2. state \in WorkerState /\ state.then = "copy" /\ state.found = {}
        /\ state.read = 0 /\ state.attempted = {}
    BY <1>3 DEF IdleWorker, WorkerState, Afters
  <2> HIDE DEF state
  <2> QED BY <2>1, <2>2, BeginRuns DEF Afters
<1> QED BY <1>1, <1>4, <1>5, <1>6, <1>7

\* A process that only goes on to another place.
LEMMA JumpRuns ==
    ASSUME RunInv, NEW x \in Workers, worker[x].pc # "idle",
           NEW to \in WorkPcs, to \notin {"idle", "begin"}, Jump(x, to),
           to = "apply" => worker[x].then \in Afters,
           to \in RepairPcs \/ (to = "apply" /\ worker[x].then = "next")
             => worker[x].job \in RepairJobs,
           to \in RepairPcs \ {"next"} => worker[x].cur \in PlanItem,
           FilesTypeOK', DbTypeOK', RestTypeOK'
    PROVE  RunInv'
<1> DEFINE r == [worker[x] EXCEPT !.pc = to]
<1>1. worker[x] \in WorkerState /\ WorkerGood(worker[x])
  BY Mover
<1>2. r \in WorkerState
  BY <1>1 DEF WorkerState
<1>3. /\ r.pc = to /\ r.job = worker[x].job /\ r.then = worker[x].then
      /\ r.cur = worker[x].cur /\ r.found = worker[x].found /\ r.read = worker[x].read
      /\ r.attempted = worker[x].attempted
  BY <1>1 DEF WorkerState
<1>4. WorkerGood(r)
  <2> HIDE DEF r
  <2> QED BY <1>1, <1>3 DEF WorkerGood
<1>5. Set(x, r)
  BY DEF Jump
<1> HIDE DEF r
<1> QED BY <1>2, <1>3, <1>4, <1>5, GoesOn

\* What a process that returns from an apply goes on with.
LEMMA ThenRuns ==
    ASSUME RunInv, NEW x \in Workers, worker[x].pc \in {"begin", "apply"},
           Jump(x, worker[x].then), FilesTypeOK', DbTypeOK', RestTypeOK'
    PROVE  RunInv'
<1>1. worker[x] \in WorkerState /\ WorkerGood(worker[x])
  BY Mover
<1>2. /\ worker[x].then \in Afters
      /\ worker[x].then = "next" => worker[x].job \in RepairJobs
  BY <1>1 DEF WorkerGood
<1> DEFINE to == worker[x].then
<1>3. to \in WorkPcs /\ to \notin {"idle", "begin", "apply"}
      /\ (to \in RepairPcs => to = "next")
  BY <1>2 DEF WorkPcs, Afters, RepairPcs
<1> QED BY <1>2, <1>3, JumpRuns

\* The log grows by the items of a batch.
LEMMA LogGrows ==
    ASSUME DbTypeOK, NEW items \in SUBSET WorkItem, AppendOutcomes(items),
           copyDb' \in CopyDb
    PROVE  DbTypeOK'
BY DEF DbTypeOK, AppendOutcomes

LEMMA EnsureStartedRuns ==
    ASSUME RunInv, NEW x \in Workers, EnsureStarted(x)
    PROVE  RunInv'
<1> DEFINE p == worker[x]
           started == Item("started", p.job, Nothing, Nothing, p.asOf)
<1>1. p \in WorkerState /\ WorkerGood(p) /\ p.pc = "begin" /\ p.job \in WorkJobs
      /\ FilesTypeOK /\ DbTypeOK /\ RestTypeOK
  BY Mover DEF EnsureStarted
<1>2. FilesTypeOK' /\ copyDb' \in CopyDb
  BY <1>1, FilesTypeSame, AppliedType DEF EnsureStarted
<1>3. ended' \subseteq RepairJobs
  BY <1>1 DEF EnsureStarted, Exit, RestTypeOK
<1>4. RestTypeOK'
  BY <1>1, <1>3 DEF EnsureStarted, RestTypeOK
<1>5. started \in WorkItem
  BY <1>1 DEF Item, WorkItem, Kinds, WorkerState
<1>6. DbTypeOK'
  <2>1. UNCHANGED copyLog \/ AppendOutcomes({started})
    BY DEF EnsureStarted
  <2>2. CASE UNCHANGED copyLog
    BY <2>2, <1>1, <1>2 DEF DbTypeOK
  <2>3. CASE AppendOutcomes({started})
    BY <2>3, <1>1, <1>2, <1>5, LogGrows
  <2> QED BY <2>1, <2>2, <2>3
<1>7. Exit(x) \/ Jump(x, p.then) \/ Jump(x, "apply")
  BY DEF EnsureStarted
<1>8. CASE Exit(x)
  BY <1>8, <1>2, <1>4, <1>6, Leaves DEF Exit
<1>9. CASE Jump(x, p.then)
  BY <1>9, <1>1, <1>2, <1>4, <1>6, ThenRuns
<1>10. CASE Jump(x, "apply")
  <2>1. /\ p.then \in Afters
        /\ p.then = "next" => p.job \in RepairJobs
    BY <1>1 DEF WorkerGood
  <2> QED BY <2>1, <1>10, <1>1, <1>2, <1>4, <1>6, JumpRuns DEF WorkPcs, RepairPcs
<1> QED BY <1>7, <1>8, <1>9, <1>10

LEMMA ApplyRuns ==
    ASSUME RunInv, NEW x \in Workers, Apply(x)
    PROVE  RunInv'
<1>1. worker[x].pc = "apply" /\ FilesTypeOK /\ DbTypeOK /\ RestTypeOK
  BY Mover DEF Apply
<1>2. FilesTypeOK' /\ DbTypeOK'
  BY <1>1, FilesTypeSame, AppliedType DEF Apply, DbTypeOK
<1>3. RestTypeOK'
  BY <1>1 DEF Apply, Exit, RestTypeOK
<1>4. Exit(x) \/ Jump(x, worker[x].then)
  BY DEF Apply
<1> QED BY <1>1, <1>2, <1>3, <1>4, ThenRuns, Leaves DEF Exit

\* record_placements, for either kind of outcomes.
LEMMA RecordRuns ==
    ASSUME RunInv, NEW x \in Workers, NEW pc \in {"record", "failures"}, NEW kinds,
           NEW then \in {"failures", "finish", "select"}, Record(x, pc, kinds, then)
    PROVE  RunInv'
<1> DEFINE p == worker[x]
           items == Unrecorded({i \in p.found : i.kind \in kinds})
           r == [p EXCEPT !.pc = IF items = {} THEN then ELSE "apply", !.then = then]
<1>1. p \in WorkerState /\ WorkerGood(p) /\ p.pc = pc /\ p.job \in WorkJobs
      /\ FilesTypeOK /\ DbTypeOK /\ RestTypeOK
  BY Mover DEF Record
<1>2. items \in SUBSET WorkItem
  BY <1>1 DEF Unrecorded, WorkerState
<1>3. AppendOutcomes(items) /\ Set(x, r)
      /\ UNCHANGED <<files, copyDb, live, ended, moved, copyStarts, kills, outside>>
  BY DEF Record
<1> HIDE DEF items
<1>4. FilesTypeOK' /\ DbTypeOK' /\ RestTypeOK'
  <2>1. copyDb' \in CopyDb
    BY <1>1, <1>3 DEF DbTypeOK
  <2> QED BY <1>1, <1>2, <1>3, <2>1, FilesTypeSame, LogGrows DEF RestTypeOK
<1>5. r \in WorkerState
  BY <1>1 DEF WorkerState, WorkPcs, Afters
<1>6. /\ r.pc \in {then, "apply"} /\ r.job = p.job /\ r.then = then
      /\ r.found = p.found /\ r.read = p.read /\ r.attempted = p.attempted
  BY <1>1 DEF WorkerState
<1> HIDE DEF r
<1>7. WorkerGood(r)
  BY <1>1, <1>6 DEF WorkerGood, RepairPcs, Afters
<1> QED BY <1>1, <1>3, <1>4, <1>5, <1>6, <1>7, GoesOn

LEMMA FinishRuns ==
    ASSUME RunInv, NEW x \in Workers, FinishWork(x)
    PROVE  RunInv'
<1> DEFINE p == worker[x]
           item == Item(Status(p), p.job, Nothing, Nothing, Now)
           r == [p EXCEPT !.pc = "apply", !.then = "leave"]
<1>1. p \in WorkerState /\ WorkerGood(p) /\ p.pc = "finish" /\ p.job \in WorkJobs
      /\ FilesTypeOK /\ DbTypeOK /\ RestTypeOK
  BY Mover DEF FinishWork
<1>2. FilesTypeOK' /\ copyDb' \in CopyDb
  BY <1>1, FilesTypeSame, AppliedType DEF FinishWork, DbTypeOK
<1>3. RestTypeOK'
  BY <1>1 DEF FinishWork, Exit, RestTypeOK
<1>4. item \in WorkItem
  BY <1>1 DEF Item, WorkItem, Kinds, Status, Now
<1>5. \/ Exit(x) /\ UNCHANGED copyLog
      \/ AppendOutcomes({item}) /\ Set(x, r)
  BY DEF FinishWork
<1>6. CASE Exit(x) /\ UNCHANGED copyLog
  <2>1. DbTypeOK'
    BY <1>6, <1>1, <1>2 DEF DbTypeOK
  <2> QED BY <2>1, <1>6, <1>2, <1>3, Leaves DEF Exit
<1>7. CASE AppendOutcomes({item}) /\ Set(x, r)
  <2>1. DbTypeOK'
    BY <1>7, <1>1, <1>2, <1>4, LogGrows
  <2>2. r \in WorkerState
    BY <1>1 DEF WorkerState, WorkPcs, Afters
  <2>3. /\ r.pc = "apply" /\ r.job = p.job /\ r.then = "leave"
        /\ r.found = p.found /\ r.read = p.read /\ r.attempted = p.attempted
    BY <1>1 DEF WorkerState
  <2> HIDE DEF r
  <2>4. WorkerGood(r)
    BY <1>1, <2>3 DEF WorkerGood, RepairPcs, Afters
  <2> QED BY <1>1, <1>2, <1>3, <1>7, <2>1, <2>2, <2>3, <2>4, GoesOn
<1> QED BY <1>5, <1>6, <1>7

\* A run of verify reads at most a batch for every copy it attempts.
LEMMA SelectRuns ==
    ASSUME RunInv, NEW x \in Workers, SelectDue(x)
    PROVE  RunInv'
<1> DEFINE p == worker[x]
           budget == p.limit - p.read
           n == Min({CopyBatch, budget})
           targets == FirstDue(p.asOf, n)
           more == Attempted(p, targets)
           total == p.read + Cardinality(targets)
           r == [p EXCEPT !.pc = "read", !.todo = targets, !.found = {},
                          !.attempted = more, !.read = total]
<1>1. p \in WorkerState /\ WorkerGood(p) /\ p.pc = "select" /\ p.job \in WorkJobs
      /\ FilesTypeOK /\ DbTypeOK /\ RestTypeOK
  BY Mover DEF SelectDue
<1>2. FilesTypeOK' /\ DbTypeOK' /\ RestTypeOK'
  BY <1>1, FilesTypeSame, DbTypeSame DEF SelectDue, RestTypeOK
<1>3. \/ Jump(x, "finish") \/ Jump(x, "leave")
      \/ ~(targets \subseteq p.attempted) /\ Set(x, r)
  BY DEF SelectDue, Jump
<1>4. CASE Jump(x, "finish") \/ Jump(x, "leave")
  BY <1>1, <1>2, <1>4, JumpRuns DEF WorkPcs, Afters, RepairPcs
<1>5. CASE ~(targets \subseteq p.attempted) /\ Set(x, r)
  <2>1. p.read \in Nat /\ p.limit \in Nat /\ p.attempted \subseteq Slots /\ CopyBatch \in Nat
    BY <1>1, PositiveLimits DEF WorkerState
  <2>2. n \in Int /\ n <= CopyBatch
    BY <2>1 DEF Min
  <2>3. targets \subseteq Slots /\ (targets = {} \/ Cardinality(targets) <= n)
    <3> HIDE DEF n
    <3> QED BY <1>1, <2>2, FirstDueBound
  <2>4. targets # {}
    BY <1>5
  <2>5. Cardinality(targets) \in Nat /\ Cardinality(targets) <= CopyBatch
    <3>1. Cardinality(targets) \in 0..NSlots
      BY <2>3, SlotsFinite
    <3> HIDE DEF targets, n
    <3> QED BY <2>1, <2>2, <2>3, <2>4, <3>1, SlotsNamed
  <2> HIDE DEF targets
  <2>6. PICK s \in Slots : s \notin p.attempted /\ more = p.attempted \cup {s}
    <3>1. targets \ p.attempted \in SUBSET Slots /\ targets \ p.attempted # {}
      BY <2>3, <1>5
    <3>2. Min(targets \ p.attempted) \in targets \ p.attempted
      BY <3>1, MinSlot
    <3> QED BY <3>1, <3>2, <1>5 DEF Attempted
  <2>7. more \subseteq Slots
    BY <2>1, <2>6
  <2>8. Cardinality(p.attempted) \in Nat /\ Cardinality(more) = Cardinality(p.attempted) + 1
    <3>1. IsFiniteSet(p.attempted) /\ Cardinality(p.attempted) \in Nat
      BY <2>1, SlotsFinite, SlotsNamed
    <3> QED BY <3>1, <2>6, FS_AddElement
  <2> HIDE DEF more
  <2>9. p.read + Cardinality(targets) <= CopyBatch * Cardinality(more)
    <3>1. p.read <= CopyBatch * Cardinality(p.attempted)
      BY <1>1 DEF WorkerGood
    <3>2. \A c \in Nat : CopyBatch * (c + 1) = CopyBatch * c + CopyBatch /\ CopyBatch * c \in Nat
      BY <2>1
    <3> DEFINE c == Cardinality(p.attempted)
               k == Cardinality(targets)
               m == Cardinality(more)
               a == CopyBatch * c
               b == CopyBatch * m
    <3>3. b = a + CopyBatch /\ a \in Nat /\ p.read <= a /\ k \in Nat /\ k <= CopyBatch
      BY <3>1, <3>2, <2>5, <2>8
    <3> HIDE DEF a, b, c, k, m
    <3>4. p.read + k <= b
      BY ONLY <3>3, <2>1
    <3> QED BY <3>4 DEF b, k, m
  <2>10. r \in WorkerState
    <3>1. total \in Nat
      BY <2>1, <2>5
    <3> HIDE DEF total
    <3> QED BY <1>1, <2>3, <2>7, <3>1 DEF WorkerState, WorkPcs, Afters
  <2>11. /\ r.pc = "read" /\ r.job = p.job /\ r.found = {}
         /\ r.read = p.read + Cardinality(targets) /\ r.attempted = more
    BY <1>1 DEF WorkerState
  <2> HIDE DEF r
  <2>12. WorkerGood(r)
    BY <1>1, <2>9, <2>11 DEF WorkerGood, RepairPcs
  <2> QED BY <1>1, <1>2, <1>5, <2>10, <2>11, <2>12, GoesOn
<1> QED BY <1>3, <1>4, <1>5

LEMMA ReadRuns ==
    ASSUME RunInv, NEW x \in Workers, ReadTarget(x)
    PROVE  RunInv'
<1> DEFINE p == worker[x]
<1>1. p \in WorkerState /\ WorkerGood(p) /\ p.pc = "read" /\ p.job \in WorkJobs
      /\ FilesTypeOK /\ DbTypeOK /\ RestTypeOK
  BY Mover DEF ReadTarget
<1>2. FilesTypeOK' /\ DbTypeOK' /\ RestTypeOK'
  BY <1>1, FilesTypeSame, DbTypeSame DEF ReadTarget, RestTypeOK
<1>3. CASE p.todo = {}
  BY <1>1, <1>2, <1>3, JumpRuns DEF ReadTarget, WorkPcs, RepairPcs
<1>4. CASE p.todo # {}
  <2>1. Min(p.todo) \in Slots
    BY <1>1, <1>4, MinSlot DEF WorkerState
  <2>2. PICK item \in {WorkOutcome(p.job, Min(p.todo)),
                       Item("read_error", p.job, Min(p.todo), Nothing, Now)} : Found(x, item)
    BY <1>4 DEF ReadTarget
  <2>3. item \in WorkItem /\ item.job = p.job
    <3>1. /\ Item("read_error", p.job, Min(p.todo), Nothing, Now) \in WorkItem
          /\ Item("read_error", p.job, Min(p.todo), Nothing, Now).job = p.job
      BY <1>1, <2>1 DEF Item, WorkItem, Kinds, Now
    <3> QED BY <1>1, <2>1, <2>2, <3>1, OutcomeType
  <2> DEFINE r == [p EXCEPT !.todo = p.todo \ {Min(p.todo)}, !.found = p.found \cup {item}]
  <2>4. r \in WorkerState
    BY <1>1, <2>3 DEF WorkerState
  <2>5. /\ r.pc = "read" /\ r.job = p.job /\ r.found = p.found \cup {item}
        /\ r.read = p.read /\ r.attempted = p.attempted
    BY <1>1 DEF WorkerState
  <2>6. Set(x, r)
    BY <2>2 DEF Found
  <2> HIDE DEF r
  <2>7. WorkerGood(r)
    BY <1>1, <2>3, <2>5 DEF WorkerGood, RepairPcs
  <2> QED BY <1>1, <1>2, <2>4, <2>5, <2>6, <2>7, GoesOn
<1> QED BY <1>3, <1>4

LEMMA NextRepairRuns ==
    ASSUME RunInv, NEW x \in Workers, NextRepair(x)
    PROVE  RunInv'
<1> DEFINE p == worker[x]
           first == CHOOSE t \in p.plan : \A u \in p.plan : t.slot <= u.slot
           r == [p EXCEPT !.pc = "stage", !.cur = first, !.plan = p.plan \ {first}]
<1>1. p \in WorkerState /\ WorkerGood(p) /\ p.pc = "next" /\ p.job \in WorkJobs
      /\ FilesTypeOK /\ DbTypeOK /\ RestTypeOK
  BY Mover DEF NextRepair
<1>2. FilesTypeOK' /\ DbTypeOK' /\ RestTypeOK'
  BY <1>1, FilesTypeSame, DbTypeSame DEF NextRepair, RestTypeOK
<1>3. CASE p.plan = {}
  BY <1>1, <1>2, <1>3, JumpRuns DEF NextRepair, WorkPcs, RepairPcs
<1>4. CASE p.plan # {}
  <2>1. p.plan \subseteq PlanItem
    BY <1>1 DEF WorkerState
  <2> DEFINE S == {t.slot : t \in p.plan}
  <2>2. S \in SUBSET Nat /\ S # {}
    BY <2>1, <1>4, SlotsNamed DEF PlanItem, Slots
  <2>3. PICK s \in S : \A k \in S : s <= k
    BY <2>2, LeastNatural
  <2>4. PICK t \in p.plan : t.slot = s
    OBVIOUS
  <2>5. \A u \in p.plan : t.slot <= u.slot
    BY <2>3, <2>4
  <2>6. first \in p.plan
    BY <2>5
  <2>7. Set(x, r)
    BY <1>4 DEF NextRepair
  <2> HIDE DEF first, S
  <2>8. r \in WorkerState
    BY <1>1, <2>1, <2>6 DEF WorkerState, WorkPcs, RepairPcs
  <2>9. /\ r.pc = "stage" /\ r.job = p.job /\ r.cur = first /\ r.found = p.found
        /\ r.read = p.read /\ r.attempted = p.attempted
    BY <1>1 DEF WorkerState
  <2> HIDE DEF r
  <2>10. WorkerGood(r)
    BY <1>1, <2>1, <2>6, <2>9 DEF WorkerGood, RepairPcs
  <2> QED BY <1>1, <1>2, <2>7, <2>8, <2>9, <2>10, GoesOn
<1> QED BY <1>3, <1>4

\* The outcome of one repair.
LEMMA RepairedRuns ==
    ASSUME RunInv, NEW x \in Workers, worker[x].pc \in RepairPcs \ {"next"},
           Set(x, Repaired(x)) \/ Set(x, RepairFailed(x)),
           FilesTypeOK', DbTypeOK', RestTypeOK'
    PROVE  RunInv'
<1> DEFINE p == worker[x]
           item == WorkOutcome(p.job, Cur(x))
<1>1. p \in WorkerState /\ WorkerGood(p) /\ p.pc # "idle" /\ FilesTypeOK
  BY Mover DEF RepairPcs
<1>2. p.job \in RepairJobs /\ p.job \in WorkJobs /\ p.cur \in PlanItem
  BY <1>1 DEF WorkerGood
<1>3. item \in WorkItem /\ item.job = p.job
  <2>1. Cur(x) \in Slots
    BY <1>2 DEF Cur, PlanItem
  <2> QED BY <1>1, <1>2, <2>1, OutcomeType
<1> HIDE DEF item
<1> DEFINE good == [p EXCEPT !.pc = "next", !.found = p.found \cup {item}]
           bad == [p EXCEPT !.pc = "next", !.failed = TRUE]
<1>4. PICK r \in {good, bad} : Set(x, r)
  BY DEF Repaired, RepairFailed, item
<1>5. r \in WorkerState
  <2>1. good \in WorkerState
    BY <1>1, <1>3 DEF WorkerState, WorkPcs, RepairPcs
  <2>2. bad \in WorkerState
    BY <1>1 DEF WorkerState, WorkPcs, RepairPcs
  <2> QED BY <2>1, <2>2
<1>6. /\ r.pc = "next" /\ r.job = p.job /\ r.found \subseteq p.found \cup {item}
      /\ r.read = p.read /\ r.attempted = p.attempted
  BY <1>1 DEF WorkerState
<1>7. WorkerGood(r)
  BY <1>1, <1>2, <1>3, <1>6 DEF WorkerGood, RepairPcs
<1> QED BY <1>1, <1>4, <1>5, <1>6, <1>7, GoesOn

\* Files keep their types when one of them is a file.
LEMMA SlotWritten ==
    ASSUME NEW f \in [Slots -> File], NEW s \in Slots, NEW g \in File
    PROVE  [f EXCEPT ![s] = g] \in [Slots -> File]
OBVIOUS

LEMMA AreaWritten ==
    ASSUME NEW f \in [RepairJobs -> [Slots -> File]], NEW j \in RepairJobs, NEW s \in Slots,
           NEW g \in File
    PROVE  [f EXCEPT ![j][s] = g] \in [RepairJobs -> [Slots -> File]]
OBVIOUS

\* The process of a repair and the slot it works on.
LEMMA Repairer ==
    ASSUME RunInv, NEW x \in Workers, worker[x].pc \in RepairPcs \ {"next"}
    PROVE  worker[x].job \in RepairJobs /\ Cur(x) \in Slots /\ worker[x].cur \in PlanItem
<1>1. worker[x] \in WorkerState /\ WorkerGood(worker[x])
  BY Mover
<1>2. worker[x].job \in RepairJobs /\ worker[x].cur \in PlanItem
  BY <1>1 DEF WorkerGood
<1> QED BY <1>2 DEF Cur, PlanItem

LEMMA StageRuns ==
    ASSUME RunInv, NEW x \in Workers, Stage(x)
    PROVE  RunInv'
<1> DEFINE j == worker[x].job
           s == Cur(x)
<1>1. worker[x].pc = "stage" /\ FilesTypeOK /\ DbTypeOK /\ RestTypeOK
  BY Mover DEF Stage
<1>2. j \in RepairJobs /\ s \in Slots /\ worker[x].cur \in PlanItem
  BY <1>1, Repairer DEF RepairPcs
<1>3. DbTypeOK' /\ RestTypeOK'
  BY <1>1, DbTypeSame DEF Stage, RestTypeOK
<1>4. FilesTypeOK'
  <2>1. \/ UNCHANGED files
        \/ /\ dest[s] # Nothing /\ UNCHANGED <<dest, quar>>
           /\ staged' = [staged EXCEPT ![j][s] = Good(dest[s].stat)]
    BY DEF Stage, files
  <2>2. UNCHANGED live
    BY DEF Stage
  <2>3. CASE UNCHANGED files
    BY <2>2, <2>3, <1>1, FilesTypeSame
  <2>4. CASE /\ dest[s] # Nothing /\ UNCHANGED <<dest, quar>>
             /\ staged' = [staged EXCEPT ![j][s] = Good(dest[s].stat)]
    <3>1. Good(dest[s].stat) \in File
      BY <2>4, <1>1, <1>2 DEF FilesTypeOK, File, SomeFile, Good
    <3> HIDE DEF s, j
    <3> QED BY <2>2, <2>4, <3>1, <1>1, <1>2, AreaWritten DEF FilesTypeOK
  <2> QED BY <2>1, <2>3, <2>4
<1>5. Set(x, Repaired(x)) \/ Set(x, RepairFailed(x)) \/ Jump(x, "move")
  BY DEF Stage
<1>6. CASE Jump(x, "move")
  BY <1>1, <1>2, <1>3, <1>4, <1>6, JumpRuns DEF WorkPcs, RepairPcs
<1>7. CASE Set(x, Repaired(x)) \/ Set(x, RepairFailed(x))
  BY <1>1, <1>3, <1>4, <1>7, RepairedRuns DEF RepairPcs
<1> QED BY <1>5, <1>6, <1>7

LEMMA QuarantineRuns ==
    ASSUME RunInv, NEW x \in Workers, Quarantine(x)
    PROVE  RunInv'
<1> DEFINE j == worker[x].job
           s == Cur(x)
<1>1. worker[x].pc = "move" /\ FilesTypeOK /\ DbTypeOK /\ RestTypeOK
  BY Mover DEF Quarantine
<1>2. j \in RepairJobs /\ s \in Slots /\ worker[x].cur \in PlanItem
  BY <1>1, Repairer DEF RepairPcs
<1>3. DbTypeOK'
  BY <1>1, DbTypeSame DEF Quarantine
<1>4. RestTypeOK'
  <2>1. moved' \subseteq moved \cup {s}
    BY DEF Quarantine
  <2> QED BY <1>1, <1>2, <2>1 DEF Quarantine, RestTypeOK
<1>5. FilesTypeOK'
  <2>1. \/ UNCHANGED files
        \/ staged' = [staged EXCEPT ![j][s] = Nothing] /\ UNCHANGED <<dest, quar>>
        \/ /\ quar' = [quar EXCEPT ![j][s] = dest[s]]
           /\ dest' = [dest EXCEPT ![s] = Nothing]
           /\ UNCHANGED staged
    BY DEF Quarantine, files
  <2>2. UNCHANGED live
    BY DEF Quarantine
  <2>3. CASE UNCHANGED files
    BY <2>2, <2>3, <1>1, FilesTypeSame
  <2>4. Nothing \in File
    BY DEF File
  <2>5. dest[s] \in File
    BY <1>1, <1>2 DEF FilesTypeOK
  <2>6. CASE staged' = [staged EXCEPT ![j][s] = Nothing] /\ UNCHANGED <<dest, quar>>
    <3> HIDE DEF s, j
    <3> QED BY <2>2, <2>4, <2>6, <1>1, <1>2, AreaWritten DEF FilesTypeOK
  <2>7. CASE /\ quar' = [quar EXCEPT ![j][s] = dest[s]]
             /\ dest' = [dest EXCEPT ![s] = Nothing]
             /\ UNCHANGED staged
    <3> HIDE DEF s, j
    <3> QED BY <2>2, <2>4, <2>5, <2>7, <1>1, <1>2, AreaWritten, SlotWritten DEF FilesTypeOK
  <2> QED BY <2>1, <2>3, <2>6, <2>7
<1>6. Set(x, RepairFailed(x)) \/ Jump(x, "place")
  BY DEF Quarantine
<1>7. CASE Jump(x, "place")
  BY <1>1, <1>2, <1>3, <1>4, <1>5, <1>7, JumpRuns DEF WorkPcs, RepairPcs
<1>8. CASE Set(x, RepairFailed(x))
  BY <1>1, <1>3, <1>4, <1>5, <1>8, RepairedRuns DEF RepairPcs
<1> QED BY <1>6, <1>7, <1>8

LEMMA PlaceRuns ==
    ASSUME RunInv, NEW x \in Workers, Place(x)
    PROVE  RunInv'
<1> DEFINE j == worker[x].job
           s == Cur(x)
<1>1. worker[x].pc = "place" /\ FilesTypeOK /\ DbTypeOK /\ RestTypeOK
  BY Mover DEF Place
<1>2. j \in RepairJobs /\ s \in Slots /\ worker[x].cur \in PlanItem
  BY <1>1, Repairer DEF RepairPcs
<1>3. DbTypeOK' /\ RestTypeOK'
  BY <1>1, DbTypeSame DEF Place, RestTypeOK
<1>4. FilesTypeOK'
  <2>1. \/ UNCHANGED <<dest, staged>>
        \/ /\ dest' = [dest EXCEPT ![s] = staged[j][s]]
           /\ staged' = [staged EXCEPT ![j][s] = Nothing]
    BY DEF Place
  <2>2. UNCHANGED <<live, quar>>
    BY DEF Place
  <2>3. Nothing \in File /\ staged[j][s] \in File
    BY <1>1, <1>2 DEF FilesTypeOK, File
  <2>4. CASE UNCHANGED <<dest, staged>>
    BY <2>2, <2>4, <1>1 DEF FilesTypeOK
  <2>5. CASE /\ dest' = [dest EXCEPT ![s] = staged[j][s]]
             /\ staged' = [staged EXCEPT ![j][s] = Nothing]
    <3> HIDE DEF s, j
    <3> QED BY <2>2, <2>3, <2>5, <1>1, <1>2, AreaWritten, SlotWritten DEF FilesTypeOK
  <2> QED BY <2>1, <2>4, <2>5
<1>5. Jump(x, "confirm")
  BY DEF Place
<1> QED BY <1>1, <1>2, <1>3, <1>4, <1>5, JumpRuns DEF WorkPcs, RepairPcs

LEMMA ConfirmRuns ==
    ASSUME RunInv, NEW x \in Workers, Confirm(x)
    PROVE  RunInv'
<1>1. worker[x].pc = "confirm" /\ FilesTypeOK /\ DbTypeOK /\ RestTypeOK
  BY Mover DEF Confirm
<1>2. FilesTypeOK' /\ DbTypeOK' /\ RestTypeOK'
  BY <1>1, FilesTypeSame, DbTypeSame DEF Confirm, RestTypeOK
<1>3. Set(x, Repaired(x)) \/ Set(x, RepairFailed(x))
  BY DEF Confirm
<1> QED BY <1>1, <1>2, <1>3, RepairedRuns DEF RepairPcs

\* A copy that was read is to be recorded.
LEMMA CopyFound ==
    ASSUME RunInv, NEW x \in Workers, worker[x].pc # "idle",
           Set(x, [worker[x] EXCEPT !.pc = "record",
                                    !.found = {WorkOutcome(worker[x].job, CopyTo)}]),
           FilesTypeOK', DbTypeOK', RestTypeOK'
    PROVE  RunInv'
<1> DEFINE p == worker[x]
           item == WorkOutcome(p.job, CopyTo)
           r == [p EXCEPT !.pc = "record", !.found = {item}]
<1>1. p \in WorkerState /\ WorkerGood(p) /\ p.job \in WorkJobs /\ FilesTypeOK
  BY Mover
<1>2. item \in WorkItem /\ item.job = p.job
  BY <1>1, OutcomeType, CopyHasTwoEnds
<1>3. Set(x, r)
  OBVIOUS
<1> HIDE DEF item
<1>4. r \in WorkerState
  BY <1>1, <1>2 DEF WorkerState, WorkPcs
<1>5. /\ r.pc = "record" /\ r.job = p.job /\ r.found = {item}
      /\ r.read = p.read /\ r.attempted = p.attempted
  BY <1>1 DEF WorkerState
<1> HIDE DEF r
<1>6. WorkerGood(r)
  BY <1>1, <1>2, <1>5 DEF WorkerGood, RepairPcs
<1> QED BY <1>1, <1>3, <1>4, <1>5, <1>6, GoesOn

LEMMA CopyItemRuns ==
    ASSUME RunInv, NEW x \in Workers, CopyItem(x)
    PROVE  RunInv'
<1>1. worker[x].pc = "copy" /\ FilesTypeOK /\ DbTypeOK /\ RestTypeOK
  BY Mover DEF CopyItem
<1>2. FilesTypeOK' /\ DbTypeOK'
  BY <1>1, FilesTypeSame, DbTypeSame DEF CopyItem
<1>3. RestTypeOK'
  BY <1>1 DEF CopyItem, RestTypeOK, Exit
<1>4. \/ Jump(x, "finish") \/ Jump(x, "publish") \/ Exit(x)
      \/ Set(x, [worker[x] EXCEPT !.pc = "record",
                                  !.found = {WorkOutcome(worker[x].job, CopyTo)}])
  BY DEF CopyItem
<1>5. CASE Jump(x, "finish") \/ Jump(x, "publish")
  BY <1>1, <1>2, <1>3, <1>5, JumpRuns DEF WorkPcs, RepairPcs, Afters
<1>6. CASE Exit(x)
  BY <1>2, <1>3, <1>6, Leaves DEF Exit
<1>7. CASE Set(x, [worker[x] EXCEPT !.pc = "record",
                                    !.found = {WorkOutcome(worker[x].job, CopyTo)}])
  BY <1>1, <1>2, <1>3, <1>7, CopyFound
<1> QED BY <1>4, <1>5, <1>6, <1>7

LEMMA PublishRuns ==
    ASSUME RunInv, NEW x \in Workers, PublishCopy(x)
    PROVE  RunInv'
<1>1. worker[x].pc = "publish" /\ FilesTypeOK /\ DbTypeOK /\ RestTypeOK
  BY Mover DEF PublishCopy
<1>2. DbTypeOK'
  BY <1>1, DbTypeSame DEF PublishCopy
<1>3. RestTypeOK'
  BY <1>1 DEF PublishCopy, RestTypeOK, Exit
<1>4. FilesTypeOK'
  <2>1. Good(Now) \in File /\ CopyTo \in Slots
    BY CopyHasTwoEnds DEF Good, Now, File, SomeFile
  <2>2. UNCHANGED dest \/ dest' = [dest EXCEPT ![CopyTo] = Good(Now)]
    BY DEF PublishCopy
  <2>3. UNCHANGED <<staged, quar, live>>
    BY DEF PublishCopy
  <2> QED BY <1>1, <2>1, <2>2, <2>3, SlotWritten DEF FilesTypeOK
<1>5. Exit(x) \/ Jump(x, "readback")
  BY DEF PublishCopy
<1> QED BY <1>1, <1>2, <1>3, <1>4, <1>5, JumpRuns, Leaves DEF Exit, WorkPcs, RepairPcs

LEMMA ReadBackRuns ==
    ASSUME RunInv, NEW x \in Workers, ReadBack(x)
    PROVE  RunInv'
<1>1. worker[x].pc = "readback" /\ FilesTypeOK /\ DbTypeOK /\ RestTypeOK
  BY Mover DEF ReadBack
<1>2. FilesTypeOK' /\ DbTypeOK'
  BY <1>1, FilesTypeSame, DbTypeSame DEF ReadBack
<1>3. RestTypeOK'
  BY <1>1 DEF ReadBack, RestTypeOK, Exit
<1>4. \/ Exit(x)
      \/ Set(x, [worker[x] EXCEPT !.pc = "record",
                                  !.found = {WorkOutcome(worker[x].job, CopyTo)}])
  BY DEF ReadBack
<1> QED BY <1>1, <1>2, <1>3, <1>4, CopyFound, Leaves DEF Exit

\* A process that is done, or killed.
LEMMA EndRuns ==
    ASSUME RunInv, NEW x \in Workers, LeaveWork(x) \/ Kill(x)
    PROVE  RunInv'
<1>1. FilesTypeOK /\ DbTypeOK /\ RestTypeOK
  BY Mover
<1>2. FilesTypeOK' /\ DbTypeOK'
  BY <1>1, FilesTypeSame, DbTypeSame DEF LeaveWork, Kill
<1>3. RestTypeOK'
  BY <1>1 DEF LeaveWork, Kill, RestTypeOK, Exit
<1>4. Set(x, IdleWorker)
  BY DEF LeaveWork, Kill, Exit
<1> QED BY <1>2, <1>3, <1>4, Leaves

LEMMA ChangeRuns ==
    ASSUME RunInv, NEW s \in Slots, EditFile(s) \/ Decay(s)
    PROVE  /\ RunInv'
           /\ \E file \in SomeFile : Change(s, file)
<1>1. FilesTypeOK /\ DbTypeOK /\ RestTypeOK
  BY DEF RunInv, CopyTypeOK
<1>2. PICK file \in SomeFile : Change(s, file)
  <2>1. [bytes |-> "edit", stat |-> 10 + outside] \in SomeFile
    BY <1>1 DEF SomeFile, RestTypeOK
  <2>2. IsGood(dest[s]) => Bad(dest[s].stat) \in SomeFile
    BY <1>1 DEF FilesTypeOK, File, SomeFile, IsGood, Bad
  <2> QED BY <2>1, <2>2 DEF EditFile, Decay
<1>3. FilesTypeOK'
  <2>1. file \in File
    BY DEF File
  <2> QED BY <1>1, <1>2, <2>1, SlotWritten DEF Change, FilesTypeOK
<1>4. DbTypeOK' /\ RestTypeOK'
  BY <1>1, <1>2, DbTypeSame DEF Change, RestTypeOK
<1>5. UNCHANGED worker
  BY <1>2 DEF Change
<1> QED BY <1>2, <1>3, <1>4, <1>5 DEF RunInv, CopyTypeOK, OneWorkerPerJob

\* Where the processes are, and that each works on a job of its own, is
\* preserved by every step.
LEMMA RunInvNext == RunInv /\ [CopyNext]_copyVars => RunInv'
<1> SUFFICES ASSUME RunInv, [CopyNext]_copyVars PROVE RunInv'
  OBVIOUS
<1>1. CASE UNCHANGED copyVars
  <2>1. UNCHANGED <<files, live, copyLog, copyDb, ended, moved, copyStarts, kills, outside,
                    worker>>
    BY <1>1 DEF copyVars, files
  <2> QED BY <2>1 DEF RunInv, CopyTypeOK, OneWorkerPerJob, FilesTypeOK, DbTypeOK,
                      RestTypeOK, files
<1>2. ASSUME NEW x \in Workers, WorkStep(x) PROVE RunInv'
  <2>1. RecordPlacements(x) => RunInv'
    BY RecordRuns DEF RecordPlacements
  <2>2. RecordFailures(x) => RunInv'
    BY RecordRuns DEF RecordFailures
  <2> QED BY <1>2, <2>1, <2>2, EnsureStartedRuns, ApplyRuns, FinishRuns, EndRuns, SelectRuns,
             ReadRuns, NextRepairRuns, StageRuns, QuarantineRuns, PlaceRuns, ConfirmRuns,
             CopyItemRuns, PublishRuns, ReadBackRuns DEF WorkStep
<1> QED BY <1>1, <1>2, StartRuns, EndRuns, ChangeRuns DEF CopyNext

-----------------------------------------------------------------------------
(* The files.                                                              *)

\* What FilesInv says of one process.
MoveReady(p, q, st) ==
    p.pc = "move" => \/ q[p.job][p.cur.slot] # Nothing
                     \/ st[p.job][p.cur.slot] # Nothing

LEMMA FilesInvInit == CopyInit => FilesInv
<1> SUFFICES ASSUME CopyInit PROVE FilesInv
  OBVIOUS
<1>1. \A s \in Slots : live[s] # Nothing => dest[s] = live[s]
  BY SlotsNamed DEF CopyInit, FirstFile
<1>2. \A s \in Claimed : dest[s] # Nothing
  BY SlotsNamed, NothingIsApart DEF CopyInit, FirstFile, Good, Bad, SomeFile
<1>3. \A j \in RepairJobs, s \in Slots : staged[j][s] = Nothing
  BY DEF CopyInit
<1>4. \A x \in Workers : worker[x].pc = "idle"
  BY DEF CopyInit, IdleWorker
<1> QED BY <1>1, <1>2, <1>3, <1>4 DEF FilesInv, NothingIsLost

\* A step that touches no file, and leaves its process anywhere but about to
\* move one.
LEMMA FilesKept ==
    ASSUME RunInv, FilesInv, UNCHANGED <<files, live>>,
           UNCHANGED worker \/ \E x \in Workers : \E r : Set(x, r) /\ r.pc # "move"
    PROVE  FilesInv'
<1>1. worker \in [Workers -> WorkerState]
  BY DEF RunInv, CopyTypeOK
<1>2. UNCHANGED <<dest, staged, quar, live>>
  BY DEF files
<1>3. NothingIsLost' /\ \A j \in RepairJobs, s \in Slots :
                            staged'[j][s] # Nothing => IsGood(staged'[j][s])
  BY <1>2 DEF FilesInv, NothingIsLost
<1>4. \A y \in Workers : worker'[y].pc = "move" => worker'[y] = worker[y]
  BY <1>1 DEF Set
<1>5. \A y \in Workers : worker'[y].pc = "move" =>
         \/ quar'[worker'[y].job][worker'[y].cur.slot] # Nothing
         \/ staged'[worker'[y].job][worker'[y].cur.slot] # Nothing
  BY <1>2, <1>4 DEF FilesInv
<1> QED BY <1>3, <1>5 DEF FilesInv

\* A repair that writes in its own area: the other processes are not concerned.
LEMMA AreaOfOne ==
    ASSUME RunInv, FilesInv, NEW x \in Workers, NEW r, Set(x, r),
           worker[x].job \in RepairJobs,
           \A j \in RepairJobs \ {worker[x].job} : staged'[j] = staged[j] /\ quar'[j] = quar[j],
           worker[x].pc # "idle", MoveReady(r, quar', staged')
    PROVE  \A y \in Workers : MoveReady(worker'[y], quar', staged')
<1> TAKE y \in Workers
<1>1. worker \in [Workers -> WorkerState]
  BY DEF RunInv, CopyTypeOK
<1>2. CASE y = x
  <2>1. worker'[y] = r
    BY <1>1, <1>2 DEF Set
  <2> QED BY <2>1 DEF MoveReady
<1>3. CASE y # x
  <2>1. worker'[y] = worker[y]
    BY <1>1, <1>3 DEF Set
  <2>2. worker[y].job # worker[x].job
    BY <1>3, Mover
  <2>3. worker[y].pc = "move" => worker[y].job \in RepairJobs
    BY Repairer DEF RepairPcs
  <2> QED BY <2>1, <2>2, <2>3 DEF FilesInv, MoveReady
<1> QED BY <1>2, <1>3

\* repair_one stages its replacement: a file is moved only after that.
LEMMA StageFiles ==
    ASSUME RunInv, FilesInv, NEW x \in Workers, Stage(x)
    PROVE  FilesInv'
<1> DEFINE j == worker[x].job
           s == Cur(x)
<1>1. worker[x].pc = "stage" /\ FilesTypeOK /\ worker[x] \in WorkerState
  BY Mover DEF Stage
<1>2. j \in RepairJobs /\ s \in Slots /\ worker[x].cur.slot = s
  BY <1>1, Repairer DEF RepairPcs, Cur
<1>3. UNCHANGED <<dest, quar, live>>
  BY DEF Stage, files
<1>4. PICK r : Set(x, r) /\ (r.pc = "move" => r = [worker[x] EXCEPT !.pc = "move"])
  <2>1. Repaired(x).pc = "next" /\ RepairFailed(x).pc = "next"
    BY <1>1 DEF Repaired, RepairFailed, WorkerState
  <2>2. Set(x, Repaired(x)) \/ Set(x, RepairFailed(x)) \/ Jump(x, "move")
    BY DEF Stage
  <2> QED BY <2>1, <2>2 DEF Jump
<1>5. CASE UNCHANGED staged /\ r.pc # "move"
  BY <1>3, <1>4, <1>5, FilesKept DEF files
<1>6. CASE UNCHANGED staged /\ r.pc = "move"
  <2>1. r = [worker[x] EXCEPT !.pc = "move"] /\ r.job = j /\ r.cur = worker[x].cur
    BY <1>1, <1>4, <1>6 DEF WorkerState
  <2>2. Resuming(j, s)
    <3>1. worker' = [worker EXCEPT ![x] = r]
      BY <1>4 DEF Set
    <3>2. worker \in [Workers -> WorkerState]
      BY DEF RunInv, CopyTypeOK
    <3>3. worker'[x].pc = "move"
      BY <3>1, <3>2, <1>6
    <3>4. Repaired(x).pc = "next" /\ RepairFailed(x).pc = "next"
      BY <1>1 DEF Repaired, RepairFailed, WorkerState
    <3>5. ~Set(x, Repaired(x)) /\ ~Set(x, RepairFailed(x))
      BY <3>2, <3>3, <3>4 DEF Set
    <3>6. CASE ~Resuming(j, s)
      <4>1. /\ dest[s] # Nothing
            /\ staged' = [staged EXCEPT ![j][s] = Good(dest[s].stat)]
        BY <3>5, <3>6 DEF Stage
      <4>2. staged'[j][s] = Good(dest[s].stat)
        BY <4>1, <1>1, <1>2 DEF FilesTypeOK
      <4>3. Good(dest[s].stat) \in SomeFile
        BY <4>1, <1>1, <1>2 DEF FilesTypeOK, File, SomeFile, Good
      <4>4. staged[j][s] # Nothing
        BY <4>2, <4>3, <1>6, NothingIsApart
      <4> QED BY <4>4 DEF Resuming
    <3> QED BY <3>6
  <2>3. MoveReady(r, quar', staged')
    BY <2>1, <2>2, <1>2, <1>3, <1>6 DEF MoveReady, Resuming
  <2>4. \A y \in Workers : MoveReady(worker'[y], quar', staged')
    BY <2>3, <1>1, <1>2, <1>3, <1>4, <1>6, AreaOfOne
  <2>5. NothingIsLost' /\ \A k \in RepairJobs, t \in Slots :
                              staged'[k][t] # Nothing => IsGood(staged'[k][t])
    BY <1>3, <1>6 DEF FilesInv, NothingIsLost
  <2> QED BY <2>4, <2>5 DEF FilesInv, MoveReady
<1>7. CASE /\ dest[s] # Nothing
           /\ staged' = [staged EXCEPT ![j][s] = Good(dest[s].stat)]
           /\ Jump(x, "move")
  <2> DEFINE g == Good(dest[s].stat)
             r1 == [worker[x] EXCEPT !.pc = "move"]
  <2>1. g \in SomeFile /\ IsGood(g) /\ g # Nothing
    BY <1>1, <1>2, <1>7, NothingIsApart DEF FilesTypeOK, File, SomeFile, Good, IsGood
  <2>2. staged \in [RepairJobs -> [Slots -> File]]
    BY <1>1 DEF FilesTypeOK
  <2> HIDE DEF g
  <2>3. \A k \in RepairJobs, t \in Slots :
          staged'[k][t] = IF k = j /\ t = s THEN g ELSE staged[k][t]
    BY <1>7, <2>2 DEF g
  <2>4. \A k \in RepairJobs \ {j} : staged'[k] = staged[k] /\ quar'[k] = quar[k]
    BY <1>3, <1>7, <2>2
  <2>5. \A k \in RepairJobs, t \in Slots : staged'[k][t] # Nothing => IsGood(staged'[k][t])
    BY <2>1, <2>3 DEF FilesInv
  <2>6. NothingIsLost'
    <3>1. \A t \in Slots : live'[t] # Nothing =>
            dest'[t] = live'[t] \/ \E k \in RepairJobs : quar'[k][t] = live'[t]
      BY <1>3 DEF FilesInv, NothingIsLost
    <3>2. ASSUME NEW t \in Claimed, dest'[t] = Nothing
          PROVE  \E k \in RepairJobs : quar'[k][t] # Nothing /\ IsGood(staged'[k][t])
      <4>1. PICK k \in RepairJobs : quar[k][t] # Nothing /\ IsGood(staged[k][t])
        BY <3>2, <1>3 DEF FilesInv, NothingIsLost
      <4>2. IsGood(staged'[k][t])
        BY <4>1, <2>1, <2>3, SlotsNamed
      <4> QED BY <4>1, <4>2, <1>3
    <3> QED BY <3>1, <3>2 DEF NothingIsLost
  <2>7. r1.job = j /\ r1.cur.slot = s /\ r1.pc = "move" /\ Set(x, r1)
    BY <1>1, <1>2, <1>7 DEF WorkerState, Jump
  <2>8. MoveReady(r1, quar', staged')
    BY <1>2, <2>1, <2>3, <2>7 DEF MoveReady
  <2>9. \A y \in Workers : MoveReady(worker'[y], quar', staged')
    BY <1>1, <1>2, <2>4, <2>7, <2>8, AreaOfOne
  <2> QED BY <2>5, <2>6, <2>9 DEF FilesInv, MoveReady
<1>8. UNCHANGED staged \/ /\ dest[s] # Nothing
                          /\ staged' = [staged EXCEPT ![j][s] = Good(dest[s].stat)]
                          /\ Jump(x, "move")
  BY DEF Stage, files
<1> QED BY <1>5, <1>6, <1>7, <1>8

\* What is in quarantine stays there, and a slot is emptied only into it.
LEMMA QuarantineFiles ==
    ASSUME RunInv, FilesInv, NEW x \in Workers, Quarantine(x)
    PROVE  FilesInv'
<1> DEFINE j == worker[x].job
           s == Cur(x)
<1>1. worker[x].pc = "move" /\ FilesTypeOK /\ worker[x] \in WorkerState
  BY Mover DEF Quarantine
<1>2. j \in RepairJobs /\ s \in Slots /\ worker[x].cur.slot = s
  BY <1>1, Repairer DEF RepairPcs, Cur
<1>3. UNCHANGED live
  BY DEF Quarantine
<1>4. PICK r : Set(x, r) /\ r.pc # "move"
  <2>1. RepairFailed(x).pc = "next" /\ [worker[x] EXCEPT !.pc = "place"].pc = "place"
    BY <1>1 DEF RepairFailed, WorkerState
  <2>2. Set(x, RepairFailed(x)) \/ Jump(x, "place")
    BY DEF Quarantine
  <2> QED BY <2>1, <2>2 DEF Jump
<1>5. CASE UNCHANGED files
  BY <1>3, <1>4, <1>5, FilesKept
<1>6. CASE /\ dest[s] # Nothing /\ UNCHANGED <<dest, quar>>
           /\ staged' = [staged EXCEPT ![j][s] = Nothing]
  <2>1. staged \in [RepairJobs -> [Slots -> File]]
    BY <1>1 DEF FilesTypeOK
  <2>2. \A k \in RepairJobs, t \in Slots :
          staged'[k][t] = IF k = j /\ t = s THEN Nothing ELSE staged[k][t]
    BY <1>6, <2>1
  <2>3. \A k \in RepairJobs \ {j} : staged'[k] = staged[k] /\ quar'[k] = quar[k]
    BY <1>6, <2>1
  <2>4. \A k \in RepairJobs, t \in Slots : staged'[k][t] # Nothing => IsGood(staged'[k][t])
    BY <2>2 DEF FilesInv
  <2>5. NothingIsLost'
    <3>1. \A t \in Slots : live'[t] # Nothing =>
            dest'[t] = live'[t] \/ \E k \in RepairJobs : quar'[k][t] = live'[t]
      BY <1>3, <1>6 DEF FilesInv, NothingIsLost
    <3>2. ASSUME NEW t \in Claimed, dest'[t] = Nothing
          PROVE  \E k \in RepairJobs : quar'[k][t] # Nothing /\ IsGood(staged'[k][t])
      <4>1. PICK k \in RepairJobs : quar[k][t] # Nothing /\ IsGood(staged[k][t])
        BY <3>2, <1>6 DEF FilesInv, NothingIsLost
      <4>2. t # s
        BY <3>2, <1>6
      <4>3. staged'[k][t] = staged[k][t]
        BY <4>2, <2>2, SlotsNamed
      <4> QED BY <4>1, <4>3, <1>6
    <3> QED BY <3>1, <3>2 DEF NothingIsLost
  <2>6. \A y \in Workers : MoveReady(worker'[y], quar', staged')
    BY <1>1, <1>2, <1>4, <2>3, AreaOfOne DEF MoveReady
  <2> QED BY <2>4, <2>5, <2>6 DEF FilesInv, MoveReady
<1>7. CASE /\ quar[j][s] = Nothing /\ dest[s] # Nothing /\ UNCHANGED staged
           /\ quar' = [quar EXCEPT ![j][s] = dest[s]]
           /\ dest' = [dest EXCEPT ![s] = Nothing]
  <2>1. quar \in [RepairJobs -> [Slots -> File]] /\ dest \in [Slots -> File]
    BY <1>1 DEF FilesTypeOK
  <2>2. \A k \in RepairJobs, t \in Slots :
          quar'[k][t] = IF k = j /\ t = s THEN dest[s] ELSE quar[k][t]
    BY <1>7, <2>1
  <2>3. \A t \in Slots : dest'[t] = IF t = s THEN Nothing ELSE dest[t]
    BY <1>7, <2>1
  <2>4. \A k \in RepairJobs \ {j} : staged'[k] = staged[k] /\ quar'[k] = quar[k]
    BY <1>7, <2>1
  <2>5. IsGood(staged[j][s])
    BY <1>1, <1>2, <1>7 DEF FilesInv
  <2>6. NothingIsLost'
    <3>1. ASSUME NEW t \in Slots, live'[t] # Nothing
          PROVE  dest'[t] = live'[t] \/ \E k \in RepairJobs : quar'[k][t] = live'[t]
      <4>1. dest[t] = live[t] \/ \E k \in RepairJobs : quar[k][t] = live[t]
        BY <3>1, <1>3 DEF FilesInv, NothingIsLost
      <4>2. CASE dest[t] = live[t]
        BY <4>2, <1>2, <1>3, <2>2, <2>3
      <4>3. ASSUME NEW k \in RepairJobs, quar[k][t] = live[t]
            PROVE  quar'[k][t] = live'[t]
        BY <4>3, <3>1, <1>3, <1>7, <2>2
      <4> QED BY <4>1, <4>2, <4>3
    <3>2. ASSUME NEW t \in Claimed, dest'[t] = Nothing
          PROVE  \E k \in RepairJobs : quar'[k][t] # Nothing /\ IsGood(staged'[k][t])
      <4>1. t \in Slots
        BY SlotsNamed
      <4>2. CASE t = s
        BY <4>2, <1>2, <1>7, <2>2, <2>5
      <4>3. CASE t # s
        <5>1. PICK k \in RepairJobs : quar[k][t] # Nothing /\ IsGood(staged[k][t])
          BY <3>2, <4>1, <4>3, <2>3 DEF FilesInv, NothingIsLost
        <5> QED BY <5>1, <4>1, <4>3, <2>2, <1>7
      <4> QED BY <4>2, <4>3
    <3> QED BY <3>1, <3>2 DEF NothingIsLost
  <2>7. \A k \in RepairJobs, t \in Slots : staged'[k][t] # Nothing => IsGood(staged'[k][t])
    BY <1>7 DEF FilesInv
  <2>8. \A y \in Workers : MoveReady(worker'[y], quar', staged')
    BY <1>1, <1>2, <1>4, <2>4, AreaOfOne DEF MoveReady
  <2> QED BY <2>6, <2>7, <2>8 DEF FilesInv, MoveReady
<1> QED BY <1>5, <1>6, <1>7 DEF Quarantine, files

\* place_no_replace fills an empty slot only.
LEMMA PlaceFiles ==
    ASSUME RunInv, FilesInv, NEW x \in Workers, Place(x)
    PROVE  FilesInv'
<1> DEFINE j == worker[x].job
           s == Cur(x)
           r == [worker[x] EXCEPT !.pc = "confirm"]
<1>1. worker[x].pc = "place" /\ FilesTypeOK /\ worker[x] \in WorkerState
  BY Mover DEF Place
<1>2. j \in RepairJobs /\ s \in Slots
  BY <1>1, Repairer DEF RepairPcs
<1>3. UNCHANGED <<live, quar>> /\ Set(x, r)
  BY DEF Place, Jump
<1>4. r.pc # "move"
  BY <1>1 DEF WorkerState
<1> HIDE DEF r
<1>5. CASE UNCHANGED <<dest, staged>>
  BY <1>3, <1>4, <1>5, FilesKept DEF files
<1>6. CASE /\ staged[j][s] # Nothing /\ dest[s] = Nothing
           /\ dest' = [dest EXCEPT ![s] = staged[j][s]]
           /\ staged' = [staged EXCEPT ![j][s] = Nothing]
  <2>1. staged \in [RepairJobs -> [Slots -> File]] /\ dest \in [Slots -> File]
    BY <1>1 DEF FilesTypeOK
  <2>2. \A k \in RepairJobs, t \in Slots :
          staged'[k][t] = IF k = j /\ t = s THEN Nothing ELSE staged[k][t]
    BY <1>6, <2>1
  <2>3. \A t \in Slots : dest'[t] = IF t = s THEN staged[j][s] ELSE dest[t]
    BY <1>6, <2>1
  <2>4. \A k \in RepairJobs \ {j} : staged'[k] = staged[k] /\ quar'[k] = quar[k]
    BY <1>3, <1>6, <2>1
  <2>5. \A k \in RepairJobs, t \in Slots : staged'[k][t] # Nothing => IsGood(staged'[k][t])
    BY <2>2 DEF FilesInv
  <2>6. NothingIsLost'
    <3>1. \A t \in Slots : live'[t] # Nothing =>
            dest'[t] = live'[t] \/ \E k \in RepairJobs : quar'[k][t] = live'[t]
      BY <1>3, <1>6, <2>3 DEF FilesInv, NothingIsLost
    <3>2. ASSUME NEW t \in Claimed, dest'[t] = Nothing
          PROVE  \E k \in RepairJobs : quar'[k][t] # Nothing /\ IsGood(staged'[k][t])
      <4>1. t \in Slots /\ t # s
        BY <3>2, <1>6, <2>3, SlotsNamed
      <4>2. PICK k \in RepairJobs : quar[k][t] # Nothing /\ IsGood(staged[k][t])
        BY <3>2, <4>1, <2>3 DEF FilesInv, NothingIsLost
      <4> QED BY <4>1, <4>2, <2>2, <1>3
    <3> QED BY <3>1, <3>2 DEF NothingIsLost
  <2>7. \A y \in Workers : MoveReady(worker'[y], quar', staged')
    BY <1>1, <1>2, <1>3, <1>4, <2>4, AreaOfOne DEF MoveReady
  <2> QED BY <2>5, <2>6, <2>7 DEF FilesInv, MoveReady
<1> QED BY <1>5, <1>6 DEF Place

\* A slot gets a file from outside the repairs: the copy of an empty one, or
\* what the owner, or decay, leaves there.
LEMMA SlotFilled ==
    ASSUME RunInv, FilesInv, NEW s \in Slots, NEW g \in SomeFile,
           dest' = [dest EXCEPT ![s] = g],
           \/ dest[s] = Nothing /\ UNCHANGED live
           \/ live' = [live EXCEPT ![s] = g],
           UNCHANGED <<staged, quar>>,
           UNCHANGED worker \/ \E x \in Workers : \E r : Set(x, r) /\ r.pc # "move"
    PROVE  FilesInv'
<1>1. dest \in [Slots -> File] /\ live \in [Slots -> File]
      /\ worker \in [Workers -> WorkerState]
  BY DEF RunInv, CopyTypeOK, FilesTypeOK
<1>2. \A t \in Slots : dest'[t] = IF t = s THEN g ELSE dest[t]
  BY <1>1
<1>3. \A t \in Slots : live'[t] = live[t] \/ (t = s /\ live'[t] = g)
  BY <1>1
<1>4. ASSUME NEW t \in Slots, live'[t] # Nothing
      PROVE  dest'[t] = live'[t] \/ \E k \in RepairJobs : quar'[k][t] = live'[t]
  <2>1. CASE t = s /\ live'[t] = g
    BY <2>1, <1>2
  <2>2. CASE live'[t] = live[t] /\ t # s
    BY <2>2, <1>2, <1>4 DEF FilesInv, NothingIsLost
  <2>3. CASE live'[t] = live[t] /\ t = s /\ live'[t] # g
    <3>1. dest[s] = Nothing
      BY <2>3, <1>1
    <3> QED BY <2>3, <3>1, <1>4 DEF FilesInv, NothingIsLost
  <2> QED BY <2>1, <2>2, <2>3, <1>3
<1>5. \A t \in Claimed : dest'[t] = Nothing =>
        \E k \in RepairJobs : quar'[k][t] # Nothing /\ IsGood(staged'[k][t])
  BY <1>2, SlotsNamed, NothingIsApart DEF FilesInv, NothingIsLost
<1>6. \A y \in Workers : worker'[y].pc = "move" => worker'[y] = worker[y]
  BY <1>1 DEF Set
<1>7. \A y \in Workers : worker'[y].pc = "move" =>
         \/ quar'[worker'[y].job][worker'[y].cur.slot] # Nothing
         \/ staged'[worker'[y].job][worker'[y].cur.slot] # Nothing
  BY <1>6 DEF FilesInv
<1>8. \A j \in RepairJobs, t \in Slots : staged'[j][t] # Nothing => IsGood(staged'[j][t])
  BY DEF FilesInv
<1> QED BY <1>4, <1>5, <1>7, <1>8 DEF FilesInv, NothingIsLost

LEMMA PublishFiles ==
    ASSUME RunInv, FilesInv, NEW x \in Workers, PublishCopy(x)
    PROVE  FilesInv'
<1>1. worker[x] \in WorkerState
  BY Mover
<1>2. PICK r : Set(x, r) /\ r.pc # "move"
  <2>1. IdleWorker.pc = "idle" /\ [worker[x] EXCEPT !.pc = "readback"].pc = "readback"
    BY <1>1 DEF IdleWorker, WorkerState
  <2>2. Set(x, IdleWorker) \/ Jump(x, "readback")
    BY DEF PublishCopy, Exit
  <2> QED BY <2>1, <2>2 DEF Jump
<1>3. UNCHANGED <<staged, quar, live>>
  BY DEF PublishCopy
<1>4. CASE UNCHANGED dest
  BY <1>2, <1>3, <1>4, FilesKept DEF files
<1>5. CASE dest[CopyTo] = Nothing /\ dest' = [dest EXCEPT ![CopyTo] = Good(Now)]
  <2>1. Good(Now) \in SomeFile /\ CopyTo \in Slots
    BY CopyHasTwoEnds DEF Good, SomeFile, Now
  <2> QED BY <1>2, <1>3, <1>5, <2>1, SlotFilled
<1> QED BY <1>4, <1>5 DEF PublishCopy

\* A step of a process that touches no file.
LEMMA OtherFiles ==
    ASSUME RunInv, FilesInv, NEW x \in Workers,
           \/ EnsureStarted(x) \/ Apply(x) \/ FinishWork(x) \/ LeaveWork(x)
           \/ RecordPlacements(x) \/ RecordFailures(x)
           \/ SelectDue(x) \/ ReadTarget(x) \/ NextRepair(x) \/ Confirm(x)
           \/ CopyItem(x) \/ ReadBack(x) \/ StartWork(x) \/ Kill(x)
    PROVE  FilesInv'
<1> DEFINE Quiet == UNCHANGED worker \/ \E r : Set(x, r) /\ r.pc # "move"
<1>1. worker[x] \in WorkerState /\ WorkerGood(worker[x]) /\ IdleWorker \in WorkerState
  BY Mover, IdleIsGood
<1>2. IdleWorker.pc = "idle"
  BY DEF IdleWorker
<1>3. \A to : [worker[x] EXCEPT !.pc = to].pc = to
  BY <1>1 DEF WorkerState
<1>4. Set(x, IdleWorker) => Quiet
  BY <1>2
<1>5. \A to : to # "move" /\ Jump(x, to) => Quiet
  BY <1>3 DEF Jump
<1>6. EnsureStarted(x) \/ Apply(x) => Quiet
  <2>1. worker[x].pc \in {"begin", "apply"} => worker[x].then # "move"
    BY <1>1 DEF WorkerGood, Afters
  <2> QED BY <2>1, <1>4, <1>5 DEF EnsureStarted, Apply, Exit
<1>7. FinishWork(x) => Quiet
  <2>1. [worker[x] EXCEPT !.pc = "apply", !.then = "leave"].pc = "apply"
    BY <1>1 DEF WorkerState
  <2> QED BY <2>1, <1>4 DEF FinishWork, Exit
<1>8. LeaveWork(x) \/ Kill(x) => Quiet
  BY <1>4 DEF LeaveWork, Kill, Exit
<1>9. ASSUME NEW pc, NEW kinds, NEW then, then # "move", Record(x, pc, kinds, then)
      PROVE  Quiet
  <2> DEFINE to == IF Unrecorded({i \in worker[x].found : i.kind \in kinds}) = {}
                   THEN then ELSE "apply"
  <2>1. to # "move"
    BY <1>9
  <2>2. Set(x, [worker[x] EXCEPT !.pc = to, !.then = then])
    BY <1>9 DEF Record
  <2> HIDE DEF to
  <2>3. [worker[x] EXCEPT !.pc = to, !.then = then].pc = to
    BY <1>1 DEF WorkerState
  <2> QED BY <2>1, <2>2, <2>3
<1>10. RecordPlacements(x) \/ RecordFailures(x) => Quiet
  BY <1>9 DEF RecordPlacements, RecordFailures
<1>11. SelectDue(x) => Quiet
  <2> DEFINE p == worker[x]
             targets == FirstDue(p.asOf, Min({CopyBatch, p.limit - p.read}))
             more == Attempted(p, targets)
             total == p.read + Cardinality(targets)
             r == [p EXCEPT !.pc = "read", !.todo = targets, !.found = {},
                            !.attempted = more, !.read = total]
  <2>1. SelectDue(x) => Jump(x, "finish") \/ Jump(x, "leave") \/ Set(x, r)
    BY DEF SelectDue, Jump
  <2> HIDE DEF targets, more, total
  <2>2. r.pc = "read"
    BY <1>1 DEF WorkerState
  <2> HIDE DEF r
  <2>3. Set(x, r) => Quiet
    BY <2>2
  <2> QED BY <2>1, <2>3, <1>5
<1>12. ReadTarget(x) => Quiet
  <2>1. ASSUME NEW item, worker[x].pc = "read", Found(x, item) PROVE Quiet
    <3> DEFINE todo == worker[x].todo \ {Min(worker[x].todo)}
               found == worker[x].found \cup {item}
               r == [worker[x] EXCEPT !.todo = todo, !.found = found]
    <3>1. Set(x, r)
      BY <2>1 DEF Found
    <3> HIDE DEF todo, found
    <3>2. r.pc = "read"
      BY <1>1, <2>1 DEF WorkerState
    <3> HIDE DEF r
    <3> QED BY <3>1, <3>2
  <2>2. ReadTarget(x) => worker[x].pc = "read" /\ (Jump(x, "record") \/ \E item : Found(x, item))
    BY DEF ReadTarget
  <2> QED BY <2>1, <2>2, <1>5
<1>13. NextRepair(x) => Quiet
  <2>1. \A a, b : [worker[x] EXCEPT !.pc = "stage", !.cur = a, !.plan = b].pc = "stage"
    BY <1>1 DEF WorkerState
  <2> QED BY <2>1, <1>5 DEF NextRepair
<1>14. Confirm(x) => Quiet
  <2>1. Repaired(x).pc = "next" /\ RepairFailed(x).pc = "next"
    BY <1>1 DEF Repaired, RepairFailed, WorkerState
  <2> QED BY <2>1 DEF Confirm
<1>15. CopyItem(x) \/ ReadBack(x) => Quiet
  <2>1. \A a : [worker[x] EXCEPT !.pc = "record", !.found = a].pc = "record"
    BY <1>1 DEF WorkerState
  <2> QED BY <2>1, <1>4, <1>5 DEF CopyItem, ReadBack, Exit
<1>16. StartWork(x) => Quiet
  <2>1. ASSUME NEW j, NEW state, Begin(x, j, state), DOMAIN state = DOMAIN IdleWorker
        PROVE  Quiet
    <3>1. [state EXCEPT !.pc = "begin", !.job = j].pc = "begin"
      BY <2>1 DEF IdleWorker
    <3> QED BY <3>1, <2>1 DEF Begin
  <2>2. ASSUME NEW j, StartVerify(x, j) PROVE Quiet
    <3>1. PICK a, b : Begin(x, j, [IdleWorker EXCEPT !.asOf = a, !.limit = b, !.then = "select"])
      BY <2>2 DEF StartVerify
    <3> QED BY <3>1, <2>1
  <2>3. ASSUME NEW j, StartBackground(x, j) PROVE Quiet
    <3>1. PICK a, b, c : Begin(x, j, [IdleWorker EXCEPT !.asOf = a, !.todo = b, !.more = c,
                                                        !.then = "read"])
      BY <2>3 DEF StartBackground
    <3> QED BY <3>1, <2>1
  <2>4. ASSUME NEW j, StartRepair(x, j) PROVE Quiet
    <3>1. UNCHANGED worker \/ \E a, b : Begin(x, j, [IdleWorker EXCEPT !.plan = a, !.failed = b,
                                                                       !.then = "next"])
      BY <2>4 DEF StartRepair
    <3>2. ASSUME NEW a, NEW b,
                 Begin(x, j, [IdleWorker EXCEPT !.plan = a, !.failed = b, !.then = "next"])
          PROVE  Quiet
      BY <3>2, <2>1
    <3> QED BY <3>1, <3>2
  <2>5. ASSUME NEW j, StartCopy(x, j) PROVE Quiet
    BY <2>5, <2>1 DEF StartCopy
  <2> HIDE DEF Quiet
  <2> QED BY <2>2, <2>3, <2>4, <2>5 DEF StartWork
<1>17. Quiet
  BY <1>6, <1>7, <1>8, <1>10, <1>11, <1>12, <1>13, <1>14, <1>15, <1>16
<1>18. UNCHANGED <<files, live>>
  BY DEF EnsureStarted, Apply, FinishWork, LeaveWork, RecordPlacements, RecordFailures, Record,
         SelectDue, ReadTarget, NextRepair, Confirm, CopyItem, ReadBack, StartWork,
         StartVerify, StartBackground, StartRepair, StartCopy, Begin, Kill
<1> QED BY <1>17, <1>18, FilesKept

LEMMA FilesInvNext == RunInv /\ FilesInv /\ [CopyNext]_copyVars => FilesInv'
<1> SUFFICES ASSUME RunInv, FilesInv, [CopyNext]_copyVars PROVE FilesInv'
  OBVIOUS
<1>1. CASE UNCHANGED copyVars
  BY <1>1, FilesKept DEF copyVars, files
<1>2. ASSUME NEW x \in Workers, WorkStep(x) \/ StartWork(x) \/ Kill(x) PROVE FilesInv'
  BY <1>2, OtherFiles, StageFiles, QuarantineFiles, PlaceFiles, PublishFiles DEF WorkStep
<1>3. ASSUME NEW s \in Slots, EditFile(s) \/ Decay(s) PROVE FilesInv'
  <2>1. PICK g \in SomeFile : Change(s, g)
    BY <1>3, ChangeRuns
  <2> QED BY <2>1, SlotFilled DEF Change
<1> QED BY <1>1, <1>2, <1>3 DEF CopyNext

-----------------------------------------------------------------------------
(* The log and its projection.                                             *)

LEMMA LogInvInit == CopyInit => LogInv
<1> SUFFICES ASSUME CopyInit PROVE LogInv
  OBVIOUS
<1>1. copyLog = <<>> /\ copyDb.cursor = 0 /\ copyDb.outcomes = {} /\ copyDb.stuck = FALSE
  BY DEF CopyInit
<1>2. \A x \in Workers : worker[x].pc = "idle"
  BY DEF CopyInit, IdleWorker
<1> QED BY <1>1, <1>2 DEF LogInv, OneOutcomePerKey, Settled, Working

\* The database stays, or apply brings it to the end of the log.
LEMMA DbFollows ==
    ASSUME DbTypeOK, LogInv, UNCHANGED copyDb \/ copyDb' = Applied(copyDb)
    PROVE  /\ copyDb.cursor \in Nat /\ copyDb'.cursor \in Nat
           /\ copyDb.cursor <= copyDb'.cursor /\ copyDb'.cursor <= Len(copyLog)
           /\ copyDb' = Applied(copyDb) => copyDb'.cursor = Len(copyLog)
           /\ copyDb'.outcomes = UNION {Keys(copyLog[n]) : n \in 1..copyDb'.cursor}
           /\ ~copyDb'.stuck
<1>1. copyDb.cursor \in Nat /\ Len(copyLog) \in Nat
  BY DEF DbTypeOK, CopyDb
<1>2. /\ ~Applied(copyDb).stuck /\ Applied(copyDb).cursor = Len(copyLog)
      /\ Applied(copyDb).outcomes = UNION {Keys(copyLog[n]) : n \in 1..Len(copyLog)}
  BY AppliedAll DEF LogInv
<1>3. CASE copyDb' = Applied(copyDb)
  BY <1>1, <1>2, <1>3 DEF LogInv
<1>4. CASE UNCHANGED copyDb /\ copyDb' # Applied(copyDb)
  BY <1>1, <1>4 DEF LogInv, OneOutcomePerKey
<1> QED BY <1>3, <1>4

\* A step of a process: it may bring the database up to date and append items
\* of its own job whose keys are new; then it has to apply the log.
LEMMA LogStep ==
    ASSUME RunInv, LogInv, NEW x \in Workers, NEW r, Set(x, r),
           UNCHANGED copyDb \/ copyDb' = Applied(copyDb),
           NEW items \in SUBSET WorkItem, AppendOutcomes(items),
           \A i \in items : i.job = worker[x].job,
           \A n \in DOMAIN copyLog : Keys(items) \cap Keys(copyLog[n]) = {},
           items # {} => worker[x].pc # "idle",
           Working(r) => /\ items = {}
                         /\ \/ copyDb' = Applied(copyDb)
                            \/ Working(worker[x]) /\ r.job = worker[x].job
    PROVE  LogInv'
<1> DEFINE L == Len(copyLog)
           c == copyDb'.cursor
<1>1. /\ DbTypeOK /\ worker \in [Workers -> WorkerState] /\ L \in Nat
      /\ copyLog \in Seq(SUBSET WorkItem) /\ DOMAIN copyLog = 1..L
  BY DEF RunInv, CopyTypeOK, DbTypeOK
<1>2. /\ copyDb.cursor \in Nat /\ c \in Nat /\ copyDb.cursor <= c /\ c <= L
      /\ copyDb' = Applied(copyDb) => c = L
      /\ copyDb'.outcomes = UNION {Keys(copyLog[n]) : n \in 1..c}
      /\ ~copyDb'.stuck
  BY <1>1, DbFollows
<1>3. /\ \A n \in 1..L : copyLog'[n] = copyLog[n]
      /\ \/ copyLog' = copyLog /\ items = {}
         \/ DOMAIN copyLog' = 1..L + 1 /\ Len(copyLog') = L + 1 /\ copyLog'[L + 1] = items
  <2>1. CASE items = {}
    BY <2>1 DEF AppendOutcomes
  <2>2. CASE items # {}
    <3>1. copyLog' = Append(copyLog, items)
      BY <2>2 DEF AppendOutcomes
    <3>2. Len(copyLog') = L + 1 /\ copyLog' \in Seq(SUBSET WorkItem)
      BY <3>1, <1>1
    <3>3. /\ \A n \in 1..L : copyLog'[n] = copyLog[n]
          /\ copyLog'[L + 1] = items
      BY <3>1, <1>1
    <3>4. DOMAIN copyLog' = 1..L + 1
      BY <3>2
    <3> QED BY <3>2, <3>3, <3>4
  <2> QED BY <2>1, <2>2
<1>4. copyDb'.outcomes = UNION {Keys(copyLog'[n]) : n \in 1..c}
  BY <1>1, <1>2, <1>3
<1>5. c <= Len(copyLog')
  BY <1>1, <1>2, <1>3
<1>6. OneOutcomePerKey'
  <2>1. \A m, n \in 1..L : m # n => Keys(copyLog[m]) \cap Keys(copyLog[n]) = {}
    BY <1>1 DEF LogInv, OneOutcomePerKey, Keys
  <2>2. \A m, n \in DOMAIN copyLog' : m # n => Keys(copyLog'[m]) \cap Keys(copyLog'[n]) = {}
    <3>1. CASE copyLog' = copyLog
      BY <3>1, <2>1, <1>1
    <3>2. CASE /\ DOMAIN copyLog' = 1..L + 1 /\ copyLog'[L + 1] = items
      <4>1. \A n \in 1..L : Keys(items) \cap Keys(copyLog'[n]) = {}
        BY <1>1, <1>3
      <4>2. \A m, n \in 1..L : m # n => Keys(copyLog'[m]) \cap Keys(copyLog'[n]) = {}
        BY <1>3, <2>1
      <4>3. \A n \in 1..L + 1 : n \in 1..L \/ n = L + 1
        BY <1>1
      <4> QED BY <3>2, <4>1, <4>2, <4>3
    <3> QED BY <1>3, <3>1, <3>2
  <2> QED BY <2>2, <1>2 DEF OneOutcomePerKey, Keys
<1>7. ASSUME NEW y \in Workers
      PROVE  Settled(worker'[y], copyLog', c)
  <2>1. CASE y = x
    <3>1. worker'[y] = r
      BY <1>1, <2>1 DEF Set
    <3>2. CASE Working(r) /\ copyDb' = Applied(copyDb)
      <4>1. copyLog' = copyLog /\ c = L
        BY <3>2, <1>2 DEF AppendOutcomes
      <4> QED BY <4>1, <1>1 DEF Settled
    <3>3. CASE Working(r) /\ Working(worker[x]) /\ r.job = worker[x].job
      <4>1. copyLog' = copyLog
        BY <3>3 DEF AppendOutcomes
      <4>2. Settled(worker[x], copyLog, copyDb.cursor)
        BY DEF LogInv
      <4> QED BY <4>1, <4>2, <3>1, <3>3, <1>1, <1>2 DEF Settled
    <3> QED BY <3>1, <3>2, <3>3 DEF Settled
  <2>2. CASE y # x
    <3>1. worker'[y] = worker[y] /\ Settled(worker[y], copyLog, copyDb.cursor)
      BY <1>1, <2>2 DEF Set, LogInv
    <3>2. ASSUME Working(worker[y]), NEW n \in DOMAIN copyLog', NEW i \in copyLog'[n],
                 i.job = worker[y].job
          PROVE  n <= c
      <4>1. CASE n \in 1..L
        <5>1. n <= copyDb.cursor
          BY <3>1, <3>2, <4>1, <1>1, <1>3 DEF Settled
        <5> QED BY <5>1, <4>1, <1>1, <1>2
      <4>2. CASE n \notin 1..L
        <5>1. i \in items
          BY <3>2, <4>2, <1>1, <1>3
        <5>2. worker[x].job = worker[y].job /\ worker[x].pc # "idle"
          BY <5>1, <3>2
        <5> QED BY <5>2, <2>2, Mover
      <4> QED BY <4>1, <4>2
    <3> QED BY <3>1, <3>2 DEF Settled
  <2> QED BY <2>1, <2>2
<1> QED BY <1>4, <1>5, <1>6, <1>7 DEF LogInv

\* A step that appends nothing.
LEMMA QuietLog ==
    ASSUME RunInv, LogInv, NEW x \in Workers, NEW r, Set(x, r), UNCHANGED copyLog,
           UNCHANGED copyDb \/ copyDb' = Applied(copyDb),
           Working(r) => \/ copyDb' = Applied(copyDb)
                         \/ Working(worker[x]) /\ r.job = worker[x].job
    PROVE  LogInv'
<1>1. AppendOutcomes({}) /\ Keys({}) = {} /\ {} \in SUBSET WorkItem
  BY DEF AppendOutcomes, Keys
<1> QED BY <1>1, LogStep

\* ensure_v2_job_started and finish_v2_job append after an apply, so a key that
\* the database lacks is in no batch.
LEMMA NewKey ==
    ASSUME DbTypeOK, LogInv, NEW item \in WorkItem, Key(item) \notin Applied(copyDb).outcomes
    PROVE  \A n \in DOMAIN copyLog : Keys({item}) \cap Keys(copyLog[n]) = {}
<1>1. Applied(copyDb).outcomes = UNION {Keys(copyLog[n]) : n \in 1..Len(copyLog)}
  BY AppliedAll DEF LogInv
<1>2. DOMAIN copyLog = 1..Len(copyLog)
  BY DEF DbTypeOK
<1>3. Keys({item}) = {Key(item)}
  BY DEF Keys
<1> QED BY <1>1, <1>2, <1>3

LEMMA EnsureStartedLog ==
    ASSUME RunInv, LogInv, NEW x \in Workers, EnsureStarted(x)
    PROVE  LogInv'
<1> DEFINE p == worker[x]
           d == Applied(copyDb)
           started == Item("started", p.job, Nothing, Nothing, p.asOf)
           r == [p EXCEPT !.pc = "apply"]
<1>1. p \in WorkerState /\ p.pc = "begin" /\ p.job \in WorkJobs /\ DbTypeOK
  BY Mover DEF EnsureStarted
<1>2. started \in WorkItem /\ started.job = p.job
  BY <1>1 DEF Item, WorkItem, Kinds, WorkerState
<1>3. copyDb' = d
  BY DEF EnsureStarted
<1>4. \/ UNCHANGED copyLog /\ (Exit(x) \/ Jump(x, p.then))
      \/ Key(started) \notin d.outcomes /\ AppendOutcomes({started}) /\ Set(x, r)
  BY DEF EnsureStarted, Jump
<1>5. CASE UNCHANGED copyLog /\ (Exit(x) \/ Jump(x, p.then))
  <2>1. \E q : Set(x, q)
    BY <1>5 DEF Exit, Jump
  <2> QED BY <2>1, <1>3, <1>5, QuietLog
<1>6. CASE Key(started) \notin d.outcomes /\ AppendOutcomes({started}) /\ Set(x, r)
  <2>1. \A n \in DOMAIN copyLog : Keys({started}) \cap Keys(copyLog[n]) = {}
    BY <1>1, <1>2, <1>6, NewKey
  <2>2. ~Working(r)
    BY <1>1 DEF Working, WorkerState
  <2> HIDE DEF started, r
  <2> QED BY <1>1, <1>2, <1>3, <1>6, <2>1, <2>2, LogStep
<1> QED BY <1>4, <1>5, <1>6

LEMMA FinishLog ==
    ASSUME RunInv, LogInv, NEW x \in Workers, FinishWork(x)
    PROVE  LogInv'
<1> DEFINE p == worker[x]
           d == Applied(copyDb)
           item == Item(Status(p), p.job, Nothing, Nothing, Now)
           r == [p EXCEPT !.pc = "apply", !.then = "leave"]
<1>1. p \in WorkerState /\ p.pc = "finish" /\ p.job \in WorkJobs /\ DbTypeOK
  BY Mover DEF FinishWork
<1>2. item \in WorkItem /\ item.job = p.job
  BY <1>1 DEF Item, WorkItem, Kinds, Status, Now
<1>3. UNCHANGED copyDb \/ copyDb' = d
  BY DEF FinishWork
<1>4. \/ UNCHANGED copyLog /\ Exit(x)
      \/ Key(item) \notin d.outcomes /\ AppendOutcomes({item}) /\ Set(x, r)
  BY DEF FinishWork
<1>5. CASE UNCHANGED copyLog /\ Exit(x)
  <2>1. Set(x, IdleWorker) /\ ~Working(IdleWorker)
    BY <1>5 DEF Exit, Working, IdleWorker
  <2> QED BY <2>1, <1>3, <1>5, QuietLog
<1>6. CASE Key(item) \notin d.outcomes /\ AppendOutcomes({item}) /\ Set(x, r)
  <2>1. \A n \in DOMAIN copyLog : Keys({item}) \cap Keys(copyLog[n]) = {}
    BY <1>1, <1>2, <1>6, NewKey
  <2>2. ~Working(r)
    BY <1>1 DEF Working, WorkerState
  <2> HIDE DEF item, r
  <2> QED BY <1>1, <1>2, <1>3, <1>6, <2>1, <2>2, LogStep
<1> QED BY <1>4, <1>5, <1>6

\* record_placements does not apply first: the keys of its own job that are in
\* the log are all in the database already.
LEMMA RecordLog ==
    ASSUME RunInv, LogInv, NEW x \in Workers, NEW pc \in {"record", "failures"}, NEW kinds,
           NEW then, Record(x, pc, kinds, then)
    PROVE  LogInv'
<1> DEFINE p == worker[x]
           items == Unrecorded({i \in p.found : i.kind \in kinds})
           to == IF items = {} THEN then ELSE "apply"
           r == [p EXCEPT !.pc = to, !.then = then]
<1>1. p \in WorkerState /\ WorkerGood(p) /\ p.pc = pc /\ p.job \in WorkJobs /\ DbTypeOK
  BY Mover DEF Record
<1>2. Working(p)
  BY <1>1 DEF Working
<1>3. items \in SUBSET WorkItem /\ \A i \in items : i.job = p.job /\ Key(i) \notin copyDb.outcomes
  BY <1>1 DEF Unrecorded, WorkerState, WorkerGood
<1>4. AppendOutcomes(items) /\ Set(x, r) /\ UNCHANGED copyDb
  BY DEF Record
<1> HIDE DEF items
<1>5. ASSUME NEW n \in DOMAIN copyLog PROVE Keys(items) \cap Keys(copyLog[n]) = {}
  <2> SUFFICES ASSUME NEW i \in items, NEW k \in copyLog[n], Key(i) = Key(k) PROVE FALSE
    BY DEF Keys
  <2>1. k.job = p.job
    BY <1>3 DEF Key
  <2>2. n <= copyDb.cursor
    BY <2>1, <1>2 DEF LogInv, Settled
  <2>3. n \in 1..copyDb.cursor
    BY <2>2, <1>1 DEF DbTypeOK, CopyDb
  <2>4. Key(k) \in Keys(copyLog[n])
    BY DEF Keys
  <2>5. Key(k) \in copyDb.outcomes
    BY <2>3, <2>4 DEF LogInv
  <2> QED BY <2>5, <1>3
<1>6. r.job = p.job /\ r.pc = to
  BY <1>1 DEF WorkerState
<1>7. Working(r) => items = {}
  BY <1>6 DEF Working
<1> HIDE DEF r
<1> QED BY <1>1, <1>2, <1>3, <1>4, <1>5, <1>6, <1>7, LogStep DEF Working

LEMMA ApplyLog ==
    ASSUME RunInv, LogInv, NEW x \in Workers, Apply(x)
    PROVE  LogInv'
<1>1. copyDb' = Applied(copyDb) /\ UNCHANGED copyLog /\ \E r : Set(x, r)
  BY DEF Apply, Exit, Jump
<1> QED BY <1>1, QuietLog

\* The other steps of a process, which neither append nor apply: it ends, or it
\* starts, or it keeps its job.
LEMMA OtherLog ==
    ASSUME RunInv, LogInv, NEW x \in Workers,
           \/ LeaveWork(x) \/ SelectDue(x) \/ ReadTarget(x) \/ NextRepair(x) \/ Stage(x)
           \/ Quarantine(x) \/ Place(x) \/ Confirm(x) \/ CopyItem(x) \/ PublishCopy(x)
           \/ ReadBack(x) \/ Kill(x)
    PROVE  LogInv'
<1> DEFINE Keeps == \E r : Set(x, r) /\ (Working(r) => Working(worker[x]) /\ r.job = worker[x].job)
<1>1. worker[x] \in WorkerState
  BY Mover
<1>2. Set(x, IdleWorker) => Keeps
  BY DEF Working, IdleWorker
<1>3. ASSUME NEW to, Working(worker[x]), Jump(x, to) PROVE Keeps
  <2>1. [worker[x] EXCEPT !.pc = to].job = worker[x].job
    BY <1>1 DEF WorkerState
  <2> QED BY <2>1, <1>3 DEF Jump
<1>4. LeaveWork(x) \/ Kill(x) => Keeps
  BY <1>2 DEF LeaveWork, Kill, Exit
<1>5. SelectDue(x) => Keeps
  <2> DEFINE p == worker[x]
             targets == FirstDue(p.asOf, Min({CopyBatch, p.limit - p.read}))
             more == Attempted(p, targets)
             total == p.read + Cardinality(targets)
             r == [p EXCEPT !.pc = "read", !.todo = targets, !.found = {},
                            !.attempted = more, !.read = total]
  <2>1. SelectDue(x) => p.pc = "select" /\ (Jump(x, "finish") \/ Jump(x, "leave") \/ Set(x, r))
    BY DEF SelectDue, Jump
  <2> HIDE DEF targets, more, total
  <2>2. r.job = p.job
    BY <1>1 DEF WorkerState
  <2> HIDE DEF r
  <2>3. p.pc = "select" => Working(p)
    BY DEF Working
  <2> QED BY <2>1, <2>2, <2>3, <1>3
<1>6. ReadTarget(x) => Keeps
  <2>1. ASSUME NEW item, worker[x].pc = "read", Found(x, item) PROVE Keeps
    <3> DEFINE todo == worker[x].todo \ {Min(worker[x].todo)}
               found == worker[x].found \cup {item}
               r == [worker[x] EXCEPT !.todo = todo, !.found = found]
    <3>1. Set(x, r)
      BY <2>1 DEF Found
    <3> HIDE DEF todo, found
    <3>2. r.job = worker[x].job
      BY <1>1 DEF WorkerState
    <3> HIDE DEF r
    <3> QED BY <2>1, <3>1, <3>2 DEF Working
  <2>2. ReadTarget(x) => worker[x].pc = "read" /\ (Jump(x, "record") \/ \E item : Found(x, item))
    BY DEF ReadTarget
  <2>3. worker[x].pc = "read" => Working(worker[x])
    BY DEF Working
  <2> QED BY <2>1, <2>2, <2>3, <1>3
<1>7. NextRepair(x) => Keeps
  <2>1. \A a, b : [worker[x] EXCEPT !.pc = "stage", !.cur = a, !.plan = b].job = worker[x].job
    BY <1>1 DEF WorkerState
  <2>2. NextRepair(x) => Working(worker[x])
    BY DEF NextRepair, Working
  <2>3. NextRepair(x) => \/ Jump(x, "record")
                         \/ \E a, b : Set(x, [worker[x] EXCEPT !.pc = "stage", !.cur = a, !.plan = b])
    BY DEF NextRepair
  <2> QED BY <2>1, <2>2, <2>3, <1>3
<1>8. ASSUME Working(worker[x]), Set(x, Repaired(x)) \/ Set(x, RepairFailed(x)) PROVE Keeps
  <2>1. Repaired(x).job = worker[x].job /\ RepairFailed(x).job = worker[x].job
    BY <1>1 DEF Repaired, RepairFailed, WorkerState
  <2> QED BY <2>1, <1>8
<1>9. Stage(x) \/ Quarantine(x) \/ Place(x) \/ Confirm(x) => Keeps
  <2>1. Stage(x) \/ Quarantine(x) \/ Place(x) \/ Confirm(x) => Working(worker[x])
    BY DEF Stage, Quarantine, Place, Confirm, Working
  <2>2. Stage(x) \/ Quarantine(x) \/ Place(x) \/ Confirm(x) =>
          \/ Set(x, Repaired(x)) \/ Set(x, RepairFailed(x))
          \/ \E to : Jump(x, to)
    BY DEF Stage, Quarantine, Place, Confirm
  <2> QED BY <2>1, <2>2, <1>3, <1>8
<1>10. CopyItem(x) \/ PublishCopy(x) \/ ReadBack(x) => Keeps
  <2>1. \A a : [worker[x] EXCEPT !.pc = "record", !.found = a].job = worker[x].job
    BY <1>1 DEF WorkerState
  <2>2. CopyItem(x) \/ PublishCopy(x) \/ ReadBack(x) => Working(worker[x])
    BY DEF CopyItem, PublishCopy, ReadBack, Working
  <2>3. CopyItem(x) \/ PublishCopy(x) \/ ReadBack(x) =>
          \/ Set(x, IdleWorker) \/ \E to : Jump(x, to)
          \/ \E a : Set(x, [worker[x] EXCEPT !.pc = "record", !.found = a])
    BY DEF CopyItem, PublishCopy, ReadBack, Exit
  <2> QED BY <2>1, <2>2, <2>3, <1>2, <1>3
<1>11. Keeps
  BY <1>4, <1>5, <1>6, <1>7, <1>9, <1>10
<1>12. UNCHANGED <<copyLog, copyDb>>
  BY DEF LeaveWork, SelectDue, ReadTarget, NextRepair, Stage, Quarantine, Place, Confirm,
         CopyItem, PublishCopy, ReadBack, Kill
<1> QED BY <1>11, <1>12, QuietLog

LEMMA StartLog ==
    ASSUME RunInv, LogInv, NEW x \in Workers, StartWork(x)
    PROVE  LogInv'
<1>1. UNCHANGED <<copyLog, copyDb>>
  BY DEF StartWork, StartVerify, StartBackground, StartRepair, StartCopy, Begin
<1>2. ASSUME NEW j, NEW state, Begin(x, j, state), DOMAIN state = DOMAIN IdleWorker
      PROVE  LogInv'
  <2> DEFINE r == [state EXCEPT !.pc = "begin", !.job = j]
  <2>1. Set(x, r) /\ ~Working(r)
    BY <1>2 DEF Begin, Working, IdleWorker
  <2> HIDE DEF r
  <2> QED BY <2>1, <1>1, QuietLog
<1>3. ASSUME NEW j, StartVerify(x, j) PROVE LogInv'
  <2>1. PICK a, b : Begin(x, j, [IdleWorker EXCEPT !.asOf = a, !.limit = b, !.then = "select"])
    BY <1>3 DEF StartVerify
  <2> DEFINE s == [IdleWorker EXCEPT !.asOf = a, !.limit = b, !.then = "select"]
  <2>2. Begin(x, j, s) /\ DOMAIN s = DOMAIN IdleWorker
    BY <2>1
  <2> HIDE DEF s
  <2> QED BY <2>2, <1>2
<1>4. ASSUME NEW j, StartBackground(x, j) PROVE LogInv'
  <2>1. PICK a, b, c : Begin(x, j, [IdleWorker EXCEPT !.asOf = a, !.todo = b, !.more = c,
                                                      !.then = "read"])
    BY <1>4 DEF StartBackground
  <2> DEFINE s == [IdleWorker EXCEPT !.asOf = a, !.todo = b, !.more = c, !.then = "read"]
  <2>2. Begin(x, j, s) /\ DOMAIN s = DOMAIN IdleWorker
    BY <2>1
  <2> HIDE DEF s
  <2> QED BY <2>2, <1>2
<1>5. ASSUME NEW j, StartRepair(x, j) PROVE LogInv'
  <2>1. CASE RepairPlan(j) = {}
    <3>1. UNCHANGED worker
      BY <1>5, <2>1 DEF StartRepair
    <3> QED BY <1>1, <3>1 DEF LogInv, OneOutcomePerKey
  <2>2. CASE RepairPlan(j) # {}
    <3> DEFINE s == [IdleWorker EXCEPT !.plan = RepairPlan(j), !.failed = PlanFailed(j),
                                       !.then = "next"]
    <3>1. Begin(x, j, s) /\ DOMAIN s = DOMAIN IdleWorker
      BY <1>5, <2>2 DEF StartRepair
    <3> HIDE DEF s
    <3> QED BY <3>1, <1>2
  <2> QED BY <2>1, <2>2
<1>6. ASSUME NEW j, StartCopy(x, j) PROVE LogInv'
  <2> DEFINE s == [IdleWorker EXCEPT !.then = "copy"]
  <2>1. Begin(x, j, s) /\ DOMAIN s = DOMAIN IdleWorker
    BY <1>6 DEF StartCopy
  <2> HIDE DEF s
  <2> QED BY <2>1, <1>2
<1> QED BY <1>3, <1>4, <1>5, <1>6 DEF StartWork

LEMMA LogInvNext == RunInv /\ LogInv /\ [CopyNext]_copyVars => LogInv'
<1> SUFFICES ASSUME RunInv, LogInv, [CopyNext]_copyVars PROVE LogInv'
  OBVIOUS
<1>1. CASE UNCHANGED <<copyLog, copyDb, worker>>
  BY <1>1 DEF LogInv, OneOutcomePerKey
<1>2. ASSUME NEW x \in Workers, WorkStep(x) PROVE LogInv'
  <2>1. RecordPlacements(x) \/ RecordFailures(x) => LogInv'
    BY RecordLog DEF RecordPlacements, RecordFailures
  <2> QED BY <1>2, <2>1, EnsureStartedLog, FinishLog, ApplyLog, OtherLog DEF WorkStep
<1>3. UNCHANGED copyVars => UNCHANGED <<copyLog, copyDb, worker>>
  BY DEF copyVars
<1>4. \A s \in Slots : EditFile(s) \/ Decay(s) => UNCHANGED <<copyLog, copyDb, worker>>
  BY DEF EditFile, Decay, Change
<1> QED BY <1>1, <1>2, <1>3, <1>4, StartLog, OtherLog DEF CopyNext

-----------------------------------------------------------------------------
(* The theorems.                                                           *)

\* The inductive invariant of verify, repair and copy.
THEOREM CopyInvariant == CopySpec => []CopyInv
<1>1. CopyInit => CopyInv
  BY RunInvInit, FilesInvInit, LogInvInit DEF CopyInv
<1>2. CopyInv /\ [CopyNext]_copyVars => CopyInv'
  BY RunInvNext, FilesInvNext, LogInvNext DEF CopyInv
<1> QED BY <1>1, <1>2, PTL DEF CopySpec

\* The types of the files, the log, the database and the processes.
THEOREM CopyTypes == CopySpec => []CopyTypeOK
<1>1. CopyInv => CopyTypeOK
  BY DEF CopyInv, RunInv
<1> QED BY <1>1, CopyInvariant, PTL

\* Whatever commands run, are killed and resumed: what the owner, or decay, left
\* at a path is still there or in quarantine, and a path that a repair has
\* emptied has its verified replacement staged (repair_one, place_no_replace).
THEOREM OwnersBytesStay == CopySpec => []NothingIsLost
<1>1. CopyInv => NothingIsLost
  BY DEF CopyInv, FilesInv
<1> QED BY <1>1, CopyInvariant, PTL

\* No operation key is in the log twice, so the projection never stops at one
\* (record_placements, ensure_v2_job_started, finish_v2_job); and a run of verify
\* reads at most one batch for every copy (execute_v2_verify).
THEOREM RecordedOnce == CopySpec => []RecordsOnceAndStops
<1>1. ASSUME CopyInv, NEW x \in Workers PROVE worker[x].read <= CopyBatch * NSlots
  <2>1. worker[x] \in WorkerState /\ WorkerGood(worker[x])
    BY <1>1, Mover DEF CopyInv
  <2> DEFINE c == Cardinality(worker[x].attempted)
  <2>2. c \in Nat /\ c <= NSlots /\ NSlots \in Nat /\ CopyBatch \in Nat
    BY <2>1, SlotsFinite, SlotsNamed, PositiveLimits DEF WorkerState
  <2>3. worker[x].read \in Nat /\ worker[x].read <= CopyBatch * c
    BY <2>1 DEF WorkerState, WorkerGood
  <2> HIDE DEF c
  <2>4. CopyBatch * c <= CopyBatch * NSlots
    BY <2>2
  <2>5. CopyBatch * c \in Nat /\ CopyBatch * NSlots \in Nat
    BY <2>2
  <2> DEFINE a == CopyBatch * c
             b == CopyBatch * NSlots
  <2> HIDE DEF a, b
  <2>6. worker[x].read <= a /\ a <= b /\ a \in Nat /\ b \in Nat
    BY <2>3, <2>4, <2>5 DEF a, b
  <2>7. worker[x].read <= b
    BY ONLY <2>6, <2>3
  <2> QED BY <2>7 DEF b
<1>2. CopyInv => RecordsOnceAndStops
  BY <1>1 DEF RecordsOnceAndStops, VerifyStops, CopyInv, LogInv
<1> QED BY <1>2, CopyInvariant, PTL

\* What a command puts into an empty slot has been verified, although its source
\* may have changed since it was chosen (copy_verified_no_replace, repair_one).
THEOREM PlacedIsVerified == CopySpec => OnlyGoodBytesArePlaced
<1> DEFINE Placed == \A s \in Slots : dest[s] = Nothing /\ dest'[s] # Nothing /\ outside' = outside
                                       => IsGood(dest'[s])
<1>1. ASSUME CopyInv, CopyNext PROVE Placed
  <2>1. FilesTypeOK /\ RestTypeOK
    BY <1>1 DEF CopyInv, RunInv, CopyTypeOK
  <2>2. UNCHANGED dest => Placed
    OBVIOUS
  <2>3. ASSUME NEW x \in Workers, Stage(x) \/ Quarantine(x) PROVE Placed
    <3>1. Stage(x) => UNCHANGED dest
      BY DEF Stage, files
    <3>2. Quarantine(x) => UNCHANGED dest \/ dest' = [dest EXCEPT ![Cur(x)] = Nothing]
      BY DEF Quarantine, files
    <3> QED BY <2>1, <2>3, <3>1, <3>2 DEF FilesTypeOK
  <2>4. ASSUME NEW x \in Workers, Place(x) PROVE Placed
    <3>1. worker[x].job \in RepairJobs /\ Cur(x) \in Slots
      BY <1>1, <2>4, Repairer DEF CopyInv, Place, RepairPcs
    <3>2. CASE /\ staged[worker[x].job][Cur(x)] # Nothing
               /\ dest' = [dest EXCEPT ![Cur(x)] = staged[worker[x].job][Cur(x)]]
      <4>1. IsGood(staged[worker[x].job][Cur(x)])
        BY <1>1, <3>1, <3>2 DEF CopyInv, FilesInv
      <4> QED BY <2>1, <3>2, <4>1 DEF FilesTypeOK
    <3> QED BY <2>2, <2>4, <3>2 DEF Place
  <2>5. ASSUME NEW x \in Workers, PublishCopy(x) PROVE Placed
    <3>1. IsGood(Good(Now))
      BY NothingIsApart DEF IsGood, Good, Now, SomeFile
    <3> QED BY <2>1, <2>5, <3>1 DEF PublishCopy, FilesTypeOK
  <2>6. ASSUME NEW x \in Workers,
               \/ EnsureStarted(x) \/ Apply(x) \/ FinishWork(x) \/ LeaveWork(x)
               \/ RecordPlacements(x) \/ RecordFailures(x)
               \/ SelectDue(x) \/ ReadTarget(x) \/ NextRepair(x) \/ Confirm(x)
               \/ CopyItem(x) \/ ReadBack(x) \/ StartWork(x) \/ Kill(x)
        PROVE  UNCHANGED dest
    BY <2>6 DEF EnsureStarted, Apply, FinishWork, LeaveWork, RecordPlacements, RecordFailures,
         Record, SelectDue, ReadTarget, NextRepair, Confirm, CopyItem, ReadBack, StartWork,
         StartVerify, StartBackground, StartRepair, StartCopy, Begin, Kill, files
  <2>7. ASSUME NEW s \in Slots, EditFile(s) \/ Decay(s) PROVE outside' # outside
    BY <2>1, <2>7 DEF EditFile, Decay, Change, RestTypeOK
  <2> HIDE DEF Placed
  <2>8. ASSUME NEW x \in Workers, WorkStep(x) \/ StartWork(x) \/ Kill(x) PROVE Placed
    BY <2>2, <2>3, <2>4, <2>5, <2>6, <2>8 DEF WorkStep
  <2>9. outside' # outside => Placed
    BY DEF Placed
  <2> QED BY <1>1, <2>7, <2>8, <2>9 DEF CopyNext
<1>2. CopyInv /\ [CopyNext]_copyVars => [Placed]_copyVars
  BY <1>1
<1> QED BY <1>2, CopyInvariant, PTL DEF CopySpec, OnlyGoodBytesArePlaced

=============================================================================
