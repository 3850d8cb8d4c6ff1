---------------------------- MODULE CatalogProofs ----------------------------
(***************************************************************************)
(* Proofs about Catalog and CatalogCli.                                    *)
(*                                                                         *)
(* First the catalog, for every set of Collections, Paths, Locations,      *)
(* hashes, jobs and keys and every bound: type correctness, that a         *)
(* verified copy is current, and what the writers do to the database over  *)
(* time: coverage stays in scope, the history table explains the copies,   *)
(* a removal keeps a replica, checks never go back, damage outlives        *)
(* sightings, retired scopes gain nothing, the revision covers the         *)
(* content, and only complete scans declare missing.                       *)
(*                                                                         *)
(* The invariants speak of the committed database and of the open          *)
(* transaction's view, so each operation needs one lemma about a database  *)
(* value, used for either.  A batch changes `work` in many steps and the   *)
(* database in one: what the commit does to the database follows from      *)
(* OpenBatch, the invariant that relates the two while the batch is open.  *)
(*                                                                         *)
(* Then the invocations of CatalogCli, for every file tree, any number of  *)
(* processes, jobs, edits and starts: a recorded checksum was read where   *)
(* it is recorded, the program replaces no file, and, when no job is       *)
(* worked on by two processes at a time, a complete scan declares only     *)
(* files missing that were absent at some moment of its pass.              *)
(*                                                                         *)
(* The catalog is shared, so a process relies on what the transactions of  *)
(* the others leave alone.  QuietStep says what all of them leave alone;   *)
(* two transactions do more, an observation and the reset of a coverage.   *)
(***************************************************************************)
EXTENDS CatalogCli, TLAPS

-----------------------------------------------------------------------------
(* The catalog.                                                            *)

\* The catalog SqliteCatalog::create leaves behind is well typed.
LEMMA InitialType == EmptyCatalog \in Database
BY BoundsAreNaturals
   DEF EmptyCatalog, Database, NoFileRow, FileRow, NoAuditRow, AuditRow,
       NoChangeRow, ChangeRow, JobStatus, NoRequest

\* Advancing the revision keeps a database well typed.
LEMMA RevisedType ==
    ASSUME NEW d \in Database, d.revision < MaxRevision
    PROVE  Revised(d) \in Database
BY BoundsAreNaturals DEF Revised, Database

\* An observation names a file, a location and a collection of the catalog.
LEMMA ObservationNames ==
    ASSUME NEW ob \in Observation
    PROVE  ObjectOf(ob) \in Objects /\ CopyOf(ob) \in Copies
BY DEF Observation, ObjectOf, CopyOf, Objects, Copies

\* What an observation leaves as expected checksum is a checksum or none.
LEMMA ExpectedType ==
    ASSUME NEW d \in Database, NEW ob \in Inputs
    PROVE  ExpectedAfter(d, ob) \in Hashes \cup {None}
<1>1. ObjectOf(ob) \in Objects
  BY ObservationNames DEF Inputs
<1>2. d.expected[ObjectOf(ob)] \in Hashes \cup {None}
  BY <1>1 DEF Database
<1> QED
  BY <1>2 DEF ExpectedAfter, Inputs, Observation

\* A check ends verified or damaged, never in another state.
LEMMA CheckResultType ==
    ASSUME NEW ob \in Inputs, NEW expected \in Hashes \cup {None}, IsCheck(ob)
    PROVE  CheckResult(ob, expected) \in {"ok", "mismatch", "missing", "read_error"}
BY DEF CheckResult, IsCheck, Inputs, Observation, ResultKinds

\* Each arm of the upsert yields a well-typed file row.
LEMMA UpsertType ==
    ASSUME NEW row \in FileRow, NEW ob \in Inputs,
           NEW expected \in Hashes \cup {None}
    PROVE  Upsert(row, ob, expected) \in FileRow
<1>0. /\ ob \in Observation
      /\ ob.time \in Times
      /\ ob.result \in ResultKinds
  BY DEF Inputs, Observation
<1>1. CASE ob.result = "metadata_unknown"
  BY <1>1 DEF Upsert, UpsertUnknown, FileRow
<1>2. CASE ob.result = "metadata_present"
  BY <1>2 DEF Upsert, UpsertPresent, FileRow
<1>3. CASE IsCheck(ob)
  <2>1. Upsert(row, ob, expected) = UpsertCheck(row, ob, expected)
    BY <1>3 DEF Upsert, IsCheck
  <2>2. CheckResult(ob, expected) \in {"ok", "mismatch", "missing", "read_error"}
    BY <1>3, CheckResultType
  <2>3. ob.hash \in Hashes \cup {None}
    BY <1>0 DEF Observation
  <2>4. UpsertCheck(row, ob, expected) \in FileRow
    BY <1>0, <2>2, <2>3 DEF UpsertCheck, FileRow
  <2> QED BY <2>1, <2>4
<1> QED
  BY <1>0, <1>1, <1>2, <1>3 DEF IsCheck, ResultKinds

\* Withdrawing evidence before the upsert keeps the rows well typed.
LEMMA BaseFilesType ==
    ASSUME NEW d \in Database, NEW ob \in Inputs
    PROVE  FilesBeforeUpsert(d, ob) \in [Copies -> FileRow]
<1>1. \A row \in FileRow : Withdrawn(row) \in FileRow
  BY DEF Withdrawn, FileRow
<1>2. d.files \in [Copies -> FileRow]
  BY DEF Database
<1> QED
  BY <1>1, <1>2 DEF FilesBeforeUpsert

\* One observation takes a well-typed database to a well-typed one.
LEMMA ObserveType ==
    ASSUME NEW d \in Database, NEW ob \in Inputs
    PROVE  ObserveInTransaction(d, ob) \in Database
<1> DEFINE o == ObjectOf(ob)
           c == CopyOf(ob)
           e == ExpectedAfter(d, ob)
           base == FilesBeforeUpsert(d, ob)
           row == Upsert(base[c], ob, e)
           audit == [kind |-> "file_checked", time |-> ob.time,
                     result |-> CheckResult(ob, e), expected |-> e]
           change == [old |-> d.expected[o], new |-> ob.hash]
<1>1. ob \in Observation /\ o \in Objects /\ c \in Copies
  BY ObservationNames DEF Inputs
<1>2. e \in Hashes \cup {None}
  BY ExpectedType
<1>3. base \in [Copies -> FileRow]
  BY BaseFilesType
<1>4. row \in FileRow
  BY <1>1, <1>2, <1>3, UpsertType
<1>5. IsCheck(ob) => audit \in AuditRow
  BY <1>1, <1>2, CheckResultType DEF AuditRow, CheckKinds, Observation
<1>6. change \in ChangeRow
  BY <1>1 DEF ChangeRow, Database, Observation
<1>7. /\ WithJobObject(d.seen, ob) \in [Jobs -> SUBSET Objects]
      /\ WithJobObject(d.items, ob) \in [Jobs -> SUBSET Objects]
  BY <1>1 DEF WithJobObject, Database
<1> HIDE DEF o, c, e, base, row, audit, change
<1>8. [d.expected EXCEPT ![o] = e] \in [Objects -> Hashes \cup {None}]
  BY <1>2 DEF Database
<1>9. [base EXCEPT ![c] = row] \in [Copies -> FileRow]
  BY <1>3, <1>4
<1>10. (IF IsCheck(ob) THEN [d.audit EXCEPT ![c] = audit] ELSE d.audit)
          \in [Copies -> AuditRow]
  BY <1>5 DEF Database
<1>11. ChangesAfter(d, ob) \in [Objects -> ChangeRow]
  BY <1>6 DEF Database, ChangesAfter, o, change
<1>12. d.objects \cup {o} \in SUBSET Objects
  BY <1>1 DEF Database
<1> DEFINE d1 == [d EXCEPT !.objects = d.objects \cup {o}]
           d2 == [d1 EXCEPT !.expected = [d.expected EXCEPT ![o] = e]]
           d3 == [d2 EXCEPT !.files = [base EXCEPT ![c] = row]]
           d4 == [d3 EXCEPT !.audit = IF IsCheck(ob)
                                      THEN [d.audit EXCEPT ![c] = audit]
                                      ELSE d.audit]
           d5 == [d4 EXCEPT !.changes = ChangesAfter(d, ob)]
           d6 == [d5 EXCEPT !.seen = WithJobObject(d.seen, ob)]
           d7 == [d6 EXCEPT !.items = WithJobObject(d.items, ob)]
<1>13. ObserveInTransaction(d, ob) = d7
  BY Zenon DEF ObserveInTransaction, o, c, e, base, row, audit, change
<1>21. d1 \in Database BY <1>12 DEF Database
<1> HIDE DEF d1
<1>22. d2 \in Database BY <1>21, <1>8 DEF Database
<1> HIDE DEF d2
<1>23. d3 \in Database BY <1>22, <1>9 DEF Database
<1> HIDE DEF d3
<1>24. d4 \in Database BY <1>23, <1>10 DEF Database
<1> HIDE DEF d4
<1>25. d5 \in Database BY <1>24, <1>11 DEF Database
<1> HIDE DEF d5
<1>26. d6 \in Database BY <1>25, <1>7 DEF Database
<1> HIDE DEF d6
<1>27. d7 \in Database BY <1>26, <1>7 DEF Database
<1> QED
  BY <1>13, <1>27

-----------------------------------------------------------------------------
(* The fields an observation leaves in the evidence.                       *)

\* What one observation writes, field by field.
LEMMA ObserveFields ==
    ASSUME NEW d \in Database, NEW ob \in Inputs
    PROVE  LET n == ObserveInTransaction(d, ob)
               base == FilesBeforeUpsert(d, ob)
           IN  /\ n.expected = [d.expected EXCEPT ![ObjectOf(ob)] = ExpectedAfter(d, ob)]
               /\ n.files = [base EXCEPT ![CopyOf(ob)] =
                               Upsert(base[CopyOf(ob)], ob, ExpectedAfter(d, ob))]
               /\ n.requests = d.requests
               /\ n.revision = d.revision
BY DEF ObserveInTransaction, Database

SameEvidence(a, b) ==
    /\ a.presence = b.presence
    /\ a.integrity = b.integrity
    /\ a.checkTime = b.checkTime
    /\ a.result = b.result
    /\ a.observed = b.observed
    /\ a.success = b.success

\* What the two sightings and a check can leave behind as "verified".
LEMMA VerifiedAfterUpsert ==
    ASSUME NEW row \in FileRow, NEW ob \in Inputs,
           NEW expected \in Hashes \cup {None},
           Upsert(row, ob, expected).integrity = "verified"
    PROVE  LET new == Upsert(row, ob, expected)
           IN  \/ /\ ob.result # "checksum"
                  /\ row.integrity = "verified"
                  /\ row.presence = "present" => SameEvidence(new, row)
               \/ /\ new.presence = "present"
                  /\ new.result = "ok"
                  /\ new.observed = expected
                  /\ new.success = new.checkTime
                  /\ new.success # None
                  /\ expected # None
<1>0. /\ ob \in Observation
      /\ ob.result \in ResultKinds
      /\ ob.time \in Times /\ ob.time # None
  BY NoneIsNoNumber, BoundsAreNaturals DEF Inputs, Observation, Times
<1>1. CASE ob.result = "metadata_unknown"
  <2>1. Upsert(row, ob, expected) = UpsertUnknown(row)
    BY <1>1 DEF Upsert
  <2> QED BY <1>1, <2>1 DEF UpsertUnknown, SameEvidence, FileRow
<1>2. CASE ob.result = "metadata_present"
  <2>1. Upsert(row, ob, expected) = UpsertPresent(row)
    BY <1>2 DEF Upsert
  <2> QED BY <1>2, <2>1 DEF UpsertPresent, SameEvidence, FileRow
<1>3. CASE IsCheck(ob)
  <2>1. Upsert(row, ob, expected) = UpsertCheck(row, ob, expected)
    BY <1>3 DEF Upsert, IsCheck
  <2>2. CheckResult(ob, expected) \in {"ok", "mismatch", "missing", "read_error"}
    BY <1>3, CheckResultType
  <2>3. CheckResult(ob, expected) = "ok"
    BY <2>1, <2>2 DEF UpsertCheck
  <2>4. ob.result = "checksum" /\ ob.hash = expected
    BY <1>0, <1>3, <2>3 DEF CheckResult, IsCheck, ResultKinds
  <2>5. expected # None
    BY <2>4 DEF Inputs
  <2> QED
    BY <1>0, <2>1, <2>3, <2>4, <2>5 DEF UpsertCheck
<1> QED
  BY <1>0, <1>1, <1>2, <1>3 DEF IsCheck, ResultKinds

\* An observation leaves every verified copy current.
LEMMA ObserveEvidence ==
    ASSUME NEW d \in Database, NEW ob \in Inputs, EvidenceIsCurrent(d)
    PROVE  EvidenceIsCurrent(ObserveInTransaction(d, ob))
<1> DEFINE n == ObserveInTransaction(d, ob)
           o == ObjectOf(ob)
           x == CopyOf(ob)
           e == ExpectedAfter(d, ob)
           base == FilesBeforeUpsert(d, ob)
<1> SUFFICES ASSUME NEW c \in Copies, n.files[c].integrity = "verified"
             PROVE  /\ n.files[c].presence = "present"
                    /\ n.files[c].result = "ok"
                    /\ n.expected[c[1]] # None
                    /\ n.files[c].observed = n.expected[c[1]]
                    /\ n.files[c].success = n.files[c].checkTime
                    /\ n.files[c].success # None
  BY DEF EvidenceIsCurrent
<1>1. ob \in Observation /\ o \in Objects /\ x \in Copies /\ x[1] = o
  BY ObservationNames DEF Inputs, CopyOf
<1>2. /\ n.expected = [d.expected EXCEPT ![o] = e]
      /\ n.files = [base EXCEPT ![x] = Upsert(base[x], ob, e)]
  BY ObserveFields
<1>3. base \in [Copies -> FileRow] /\ e \in Hashes \cup {None}
  BY BaseFilesType, ExpectedType
<1>4. d.expected \in [Objects -> Hashes \cup {None}] /\ d.files \in [Copies -> FileRow]
  BY DEF Database
<1>5. c[1] \in Objects
  BY DEF Copies
<1>6. ob.result # "checksum" => e = d.expected[o] /\ base = d.files
  BY <1>4 DEF ExpectedAfter, Establishes, AcceptsChange, FilesBeforeUpsert
<1>7. CASE c = x
  <2>1. n.files[c] = Upsert(base[x], ob, e) /\ n.expected[c[1]] = e
    BY <1>1, <1>2, <1>3, <1>4, <1>7
  <2>2. base[x] \in FileRow
    BY <1>1, <1>3
  <2>3. CASE /\ ob.result # "checksum"
             /\ base[x].integrity = "verified"
             /\ base[x].presence = "present" => SameEvidence(n.files[c], base[x])
    BY <1>1, <1>6, <2>1, <2>3 DEF EvidenceIsCurrent, SameEvidence
  <2> QED
    BY <1>3, <2>1, <2>2, <2>3, VerifiedAfterUpsert
<1>8. CASE c # x
  <2>1. n.files[c] = base[c]
    BY <1>1, <1>2, <1>3, <1>8
  <2>2. ~(AcceptsChange(d, ob) /\ c[1] = o)
    BY <1>4, <2>1 DEF FilesBeforeUpsert, Withdrawn, FileRow
  <2>3. n.files[c] = d.files[c]
    BY <2>1, <2>2 DEF FilesBeforeUpsert
  <2>4. d.expected[c[1]] # None /\ d.files[c].integrity = "verified"
    BY <2>3 DEF EvidenceIsCurrent
  <2>5. n.expected[c[1]] = d.expected[c[1]]
    BY <1>1, <1>2, <1>4, <1>5, <2>2, <2>4 DEF ExpectedAfter, Establishes
  <2> QED
    BY <2>3, <2>4, <2>5 DEF EvidenceIsCurrent
<1> QED
  BY <1>7, <1>8

-----------------------------------------------------------------------------
(* The other writers.                                                      *)

\* Finishing a job keeps a database well typed.
LEMMA JobFinishedType ==
    ASSUME NEW d \in Database, NEW j \in Jobs, NEW status \in JobStatus
    PROVE  JobFinished(d, j, status) \in Database
<1> DEFINE d1 == [d EXCEPT !.status = [d.status EXCEPT ![j] = status]]
           d2 == [d1 EXCEPT !.progress = [d.progress EXCEPT ![j] = "summary"]]
           d3 == [d2 EXCEPT !.seen = [d.seen EXCEPT ![j] = {}]]
           d4 == [d3 EXCEPT !.items = [d.items EXCEPT ![j] = {}]]
<1>1. JobFinished(d, j, status) = d4
  BY Zenon DEF JobFinished
<1>2. d1 \in Database BY DEF Database
<1>3. d2 \in Database BY <1>2 DEF Database
<1>4. d3 \in Database BY <1>3 DEF Database
<1>5. d4 \in Database BY <1>4 DEF Database
<1> QED BY <1>1, <1>5

\* A row declared missing is a file row.
LEMMA MissingRowType ==
    ASSUME NEW row \in FileRow, NEW t \in Times
    PROVE  /\ MissingRow(row, t) \in FileRow
           /\ MissingRow(row, t).integrity = "unverified"
           /\ [row EXCEPT !.observed = None] \in FileRow
           /\ [row EXCEPT !.observed = None].integrity = row.integrity
<1>1. MissingRow(row, t) \in FileRow
  BY DEF MissingRow, FileRow
<1>2. MissingRow(row, t).integrity = "unverified"
  BY DEF MissingRow, FileRow
<1>3. [row EXCEPT !.observed = None] \in FileRow
  BY DEF FileRow
<1>4. [row EXCEPT !.observed = None].integrity = row.integrity
  BY DEF FileRow
<1> QED BY <1>1, <1>2, <1>3, <1>4

\* Declaring a set of copies missing keeps a database well typed.
LEMMA MarkedMissingType ==
    ASSUME NEW d \in Database, NEW copies \in SUBSET Copies, NEW t \in Times,
           NEW kind \in CheckKinds
    PROVE  MarkedMissing(d, copies, t, kind) \in Database
<1> DEFINE files == [c \in Copies |-> IF c \in copies
                                      THEN MissingRow(d.files[c], t) ELSE d.files[c]]
           audit == [c \in Copies |-> IF c \in copies
                                      THEN [kind |-> kind, time |-> t,
                                            result |-> "missing",
                                            expected |-> d.expected[c[1]]]
                                      ELSE d.audit[c]]
           d1 == [d EXCEPT !.files = files]
           d2 == [d1 EXCEPT !.audit = audit]
<1>1. files \in [Copies -> FileRow]
  <2>1. d.files \in [Copies -> FileRow] BY DEF Database
  <2> QED BY <2>1, MissingRowType
<1>2. audit \in [Copies -> AuditRow]
  <2>1. \A c \in Copies : d.expected[c[1]] \in Hashes \cup {None}
    BY DEF Database, Copies
  <2> QED BY <2>1 DEF Database, AuditRow
<1>3. MarkedMissing(d, copies, t, kind) = d2
  BY Zenon DEF MarkedMissing
<1> HIDE DEF files, audit
<1>4. d1 \in Database BY <1>1 DEF Database
<1>5. d2 \in Database BY <1>2, <1>4 DEF Database
<1> QED BY <1>3, <1>5

\* The end of a complete scan keeps a database well typed.
LEMMA ScanMissingType ==
    ASSUME NEW d \in Database, NEW copies \in SUBSET Copies, NEW t \in Times
    PROVE  ScanMissing(d, copies, t) \in Database
<1> DEFINE marked == MarkedMissing(d, copies, t, "scan_missing")
           files == [c \in Copies |-> IF c \in copies
                                      THEN [marked.files[c] EXCEPT !.observed = None]
                                      ELSE marked.files[c]]
<1>1. marked \in Database
  BY MarkedMissingType DEF CheckKinds
<1>2. ScanMissing(d, copies, t) = [marked EXCEPT !.files = files]
  BY Zenon DEF ScanMissing
<1> HIDE DEF marked
<1>3. files \in [Copies -> FileRow]
  <2>1. marked.files \in [Copies -> FileRow] BY <1>1 DEF Database
  <2> QED BY <2>1, MissingRowType
<1> HIDE DEF files
<1>4. [marked EXCEPT !.files = files] \in Database
  BY <1>1, <1>3 DEF Database
<1> QED BY <1>2, <1>4

\* Declaring copies missing takes evidence away and adds none.
LEMMA MissingEvidence ==
    ASSUME NEW d \in Database, NEW copies \in SUBSET Copies, NEW t \in Times,
           NEW kind \in CheckKinds, EvidenceIsCurrent(d)
    PROVE  /\ EvidenceIsCurrent(MarkedMissing(d, copies, t, kind))
           /\ EvidenceIsCurrent(ScanMissing(d, copies, t))
<1>1. ASSUME NEW k \in CheckKinds
      PROVE  LET m == MarkedMissing(d, copies, t, k)
             IN  /\ m.expected = d.expected
                 /\ \A c \in Copies :
                       IF c \in copies THEN m.files[c].integrity = "unverified"
                                       ELSE m.files[c] = d.files[c]
  <2>1. d.files \in [Copies -> FileRow] BY DEF Database
  <2>2. MarkedMissing(d, copies, t, k).expected = d.expected
    BY DEF MarkedMissing, Database
  <2>3. MarkedMissing(d, copies, t, k).files =
          [c \in Copies |-> IF c \in copies THEN MissingRow(d.files[c], t)
                                            ELSE d.files[c]]
    BY DEF MarkedMissing, Database
  <2>4. ASSUME NEW c \in copies
        PROVE  MarkedMissing(d, copies, t, k).files[c].integrity = "unverified"
    <3>1. c \in Copies /\ d.files[c] \in FileRow
      BY <2>1
    <3>2. MarkedMissing(d, copies, t, k).files[c] = MissingRow(d.files[c], t)
      BY <2>3, <3>1
    <3> QED BY <3>1, <3>2, MissingRowType
  <2>5. \A c \in Copies \ copies : MarkedMissing(d, copies, t, k).files[c] = d.files[c]
    BY <2>3
  <2> QED BY <2>2, <2>4, <2>5
<1>2. LET s == ScanMissing(d, copies, t)
          m == MarkedMissing(d, copies, t, "scan_missing")
      IN  /\ s.expected = m.expected
          /\ \A c \in Copies :
                IF c \in copies THEN s.files[c].integrity = m.files[c].integrity
                                ELSE s.files[c] = m.files[c]
  <2> DEFINE m == MarkedMissing(d, copies, t, "scan_missing")
  <2>1. m \in Database BY MarkedMissingType DEF CheckKinds
  <2>2. ScanMissing(d, copies, t) =
          [m EXCEPT !.files = [c \in Copies |-> IF c \in copies
                                 THEN [m.files[c] EXCEPT !.observed = None]
                                 ELSE m.files[c]]]
    BY Zenon DEF ScanMissing
  <2> HIDE DEF m
  <2>3. m.files \in [Copies -> FileRow] BY <2>1 DEF Database
  <2>4. ScanMissing(d, copies, t).expected = m.expected
    BY <2>1, <2>2 DEF Database
  <2>5. ScanMissing(d, copies, t).files =
          [c \in Copies |-> IF c \in copies
                            THEN [m.files[c] EXCEPT !.observed = None]
                            ELSE m.files[c]]
    BY <2>1, <2>2 DEF Database
  <2>6. \A c \in Copies :
          IF c \in copies THEN ScanMissing(d, copies, t).files[c].integrity = m.files[c].integrity
                          ELSE ScanMissing(d, copies, t).files[c] = m.files[c]
    BY <2>3, <2>5 DEF FileRow
  <2> QED BY <2>4, <2>6 DEF m
<1>3. EvidenceIsCurrent(MarkedMissing(d, copies, t, kind))
  BY <1>1 DEF EvidenceIsCurrent
<1>4. EvidenceIsCurrent(ScanMissing(d, copies, t))
  BY <1>1, <1>2 DEF EvidenceIsCurrent, CheckKinds
<1> QED BY <1>3, <1>4

\* Replacing one table by a well-typed one keeps a database well typed.
LEMMA SingleFieldTypes ==
    ASSUME NEW d \in Database
    PROVE  /\ \A j \in Jobs, p \in JobParams :
                 [d EXCEPT !.status = [d.status EXCEPT ![j] = "running"],
                           !.params = [d.params EXCEPT ![j] = p]] \in Database
           /\ \A j \in Jobs : [d EXCEPT !.seen = [d.seen EXCEPT ![j] = {}]] \in Database
           /\ \A j \in Jobs :
                 [d EXCEPT !.progress = [d.progress EXCEPT ![j] = "checkpoint"]] \in Database
           /\ \A c \in Collections, s \in {"active", "retired"} :
                 [d EXCEPT !.collections = [d.collections EXCEPT ![c] = s]] \in Database
           /\ \A l \in Locations, s \in {"active", "retired"} :
                 [d EXCEPT !.locations = [d.locations EXCEPT ![l] = s]] \in Database
<1>1. ASSUME NEW j \in Jobs, NEW p \in JobParams
      PROVE  [d EXCEPT !.status = [d.status EXCEPT ![j] = "running"],
                       !.params = [d.params EXCEPT ![j] = p]] \in Database
  BY DEF Database, JobStatus
<1>2. ASSUME NEW j \in Jobs
      PROVE  [d EXCEPT !.seen = [d.seen EXCEPT ![j] = {}]] \in Database
  BY DEF Database
<1>3. ASSUME NEW j \in Jobs
      PROVE  [d EXCEPT !.progress = [d.progress EXCEPT ![j] = "checkpoint"]] \in Database
  BY DEF Database
<1>4. ASSUME NEW c \in Collections, NEW s \in {"active", "retired"}
      PROVE  [d EXCEPT !.collections = [d.collections EXCEPT ![c] = s]] \in Database
  BY DEF Database
<1>5. ASSUME NEW l \in Locations, NEW s \in {"active", "retired"}
      PROVE  [d EXCEPT !.locations = [d.locations EXCEPT ![l] = s]] \in Database
  BY DEF Database
<1> QED BY <1>1, <1>2, <1>3, <1>4, <1>5

\* Writes that touch neither the copies nor the expected checksums.
LEMMA EvidenceUnchanged ==
    ASSUME NEW d, NEW n, EvidenceIsCurrent(d),
           n.files = d.files, n.expected = d.expected
    PROVE  EvidenceIsCurrent(n)
BY DEF EvidenceIsCurrent

-----------------------------------------------------------------------------
(* Both invariants together: the second needs the first.                   *)

CatalogInv == TypeOK /\ VerifiedIsCurrent

\* A transaction that is one action and commits a well-typed database whose
\* evidence is current keeps the invariant.
LEMMA CommitKeepsInv ==
    ASSUME CatalogInv, NEW d \in Database, EvidenceIsCurrent(d), Commit(d)
    PROVE  CatalogInv'
BY DEF CatalogInv, TypeOK, VerifiedIsCurrent, Commit, Idle

\* The same for a transaction that also advances the revision.
LEMMA CommitRevisedKeepsInv ==
    ASSUME CatalogInv, NEW d \in Database, EvidenceIsCurrent(d),
           d.revision = db.revision, CommitRevised(d)
    PROVE  CatalogInv'
<1>1. Revised(d) \in Database
  BY RevisedType DEF CommitRevised
<1>2. EvidenceIsCurrent(Revised(d))
  <2>1. Revised(d).files = d.files /\ Revised(d).expected = d.expected
    BY DEF Revised, Database
  <2> QED BY <2>1, EvidenceUnchanged
<1> QED
  BY <1>1, <1>2, CommitKeepsInv DEF CommitRevised

\* A new catalog satisfies the invariant.
LEMMA InitInv == Init => CatalogInv
<1> SUFFICES ASSUME Init PROVE CatalogInv
  OBVIOUS
<1>1. TypeOK
  BY InitialType DEF Init, TypeOK, Idle
<1>2. EvidenceIsCurrent(EmptyCatalog)
  BY DEF EvidenceIsCurrent, EmptyCatalog, NoFileRow
<1> QED
  BY <1>1, <1>2 DEF Init, CatalogInv, VerifiedIsCurrent

\* Every step of observe_batch preserves the invariant.
LEMMA BatchKeepsInv ==
    ASSUME CatalogInv,
           \/ BatchBegin
           \/ \E ob \in Inputs : BatchObserve(ob)
           \/ \E k \in Keys : work.requests[k] # NoRequest /\ BatchReplay(work.requests[k])
           \/ BatchCommit
           \/ BatchRollback
    PROVE  CatalogInv'
<1> USE DEF CatalogInv, VerifiedIsCurrent
<1>0. /\ TypeOK /\ db \in Database /\ work \in Database
      /\ batch \in (0 .. MaxBatch) \cup {None}
  BY DEF TypeOK
<1>1. CASE BatchBegin
  BY <1>0, <1>1, BoundsAreNaturals DEF BatchBegin, TypeOK, Idle
<1>2. ASSUME NEW ob \in Inputs, BatchObserve(ob)
      PROVE  CatalogInv'
  <2> DEFINE n == ObserveInTransaction(work, ob)
             r == [k \in Keys |-> IF k = ob.key THEN ob ELSE n.requests[k]]
  <2>1. n \in Database
    BY <1>0, ObserveType
  <2>2. EvidenceIsCurrent(n)
    BY <1>0, ObserveEvidence
  <2>3. work' = [n EXCEPT !.requests = r]
    BY <1>2, Zenon DEF BatchObserve
  <2> HIDE DEF n
  <2>4. r \in [Keys -> Observation \cup {NoRequest}]
    BY <2>1 DEF Database, Inputs
  <2> HIDE DEF r
  <2>5. [n EXCEPT !.requests = r] \in Database
    BY <2>1, <2>4 DEF Database
  <2>6. /\ [n EXCEPT !.requests = r].files = n.files
        /\ [n EXCEPT !.requests = r].expected = n.expected
    BY <2>1 DEF Database
  <2>7. work' \in Database /\ EvidenceIsCurrent(work')
    BY <2>2, <2>3, <2>5, <2>6, EvidenceUnchanged
  <2>8. /\ db' = db /\ changed' = TRUE
        /\ batch' \in 0 .. MaxBatch
        /\ batch' # None
    <3>1. batch \in 0 .. MaxBatch /\ batch < MaxBatch /\ batch' = batch + 1
      BY <1>0, <1>2 DEF BatchObserve, Idle
    <3>2. batch' \in Nat /\ None \notin Nat
      BY <3>1, BoundsAreNaturals, NoneIsNoNumber
    <3> QED
      BY <1>2, <3>1, <3>2, BoundsAreNaturals DEF BatchObserve
  <2> QED
    BY <1>0, <2>7, <2>8 DEF TypeOK, Idle
<1>3. ASSUME NEW k \in Keys, work.requests[k] # NoRequest,
             BatchReplay(work.requests[k])
      PROVE  CatalogInv'
  <2> DEFINE ob == work.requests[k]
             w == WithJobObject(work.seen, ob)
  <2>1. ob \in Observation
    BY <1>0, <1>3 DEF Database
  <2>2. w \in [Jobs -> SUBSET Objects]
    BY <1>0, <2>1, ObservationNames DEF WithJobObject, Database
  <2>3. work' = [work EXCEPT !.seen = w]
    BY <1>3, Zenon DEF BatchReplay
  <2> HIDE DEF w
  <2>4. [work EXCEPT !.seen = w] \in Database
    BY <1>0, <2>2 DEF Database
  <2>5. /\ [work EXCEPT !.seen = w].files = work.files
        /\ [work EXCEPT !.seen = w].expected = work.expected
    BY <1>0 DEF Database
  <2>6. work' \in Database /\ EvidenceIsCurrent(work')
    BY <2>3, <2>4, <2>5, EvidenceUnchanged
  <2>7. /\ db' = db /\ changed' = changed
        /\ batch' \in 0 .. MaxBatch
        /\ batch' # None
    <3>1. batch \in 0 .. MaxBatch /\ batch < MaxBatch /\ batch' = batch + 1
      BY <1>0, <1>3 DEF BatchReplay, Idle
    <3>2. batch' \in Nat /\ None \notin Nat
      BY <3>1, BoundsAreNaturals, NoneIsNoNumber
    <3> QED
      BY <1>3, <3>1, <3>2, BoundsAreNaturals DEF BatchReplay
  <2> QED
    BY <1>0, <2>6, <2>7 DEF TypeOK, Idle
<1>4. CASE BatchCommit
  <2> DEFINE n == IF changed THEN Revised(work) ELSE work
  <2>1. n \in Database
    BY <1>0, <1>4, RevisedType DEF BatchCommit
  <2>2. EvidenceIsCurrent(n)
    <3>1. Revised(work).files = work.files /\ Revised(work).expected = work.expected
      BY <1>0 DEF Revised, Database
    <3> QED BY <3>1, EvidenceUnchanged
  <2>3. db' = n /\ work' = n /\ batch' = None /\ changed' = FALSE
    BY <1>4 DEF BatchCommit
  <2> HIDE DEF n
  <2> QED
    BY <2>1, <2>2, <2>3 DEF TypeOK, Idle
<1>5. CASE BatchRollback
  BY <1>0, <1>5 DEF BatchRollback, TypeOK, Idle
<1> QED
  BY <1>1, <1>2, <1>3, <1>4, <1>5

\* Every job operation preserves the invariant.
LEMMA JobsKeepInv ==
    ASSUME CatalogInv,
           \/ \E j \in Jobs, p \in JobParams : BeginJob(j, p)
           \/ \E j \in Jobs : ResetScanCoverage(j)
           \/ \E j \in Jobs : CheckpointJob(j)
           \/ \E j \in Jobs, complete \in BOOLEAN, t \in Times : FinishScan(j, complete, t)
           \/ \E j \in Jobs, s \in {"complete", "partial", "cancelled"} : FinishJob(j, s)
    PROVE  CatalogInv'
<1>0. db \in Database /\ EvidenceIsCurrent(db)
  BY DEF CatalogInv, TypeOK, VerifiedIsCurrent
<1>1. ASSUME NEW j \in Jobs, NEW p \in JobParams, BeginJob(j, p)
      PROVE  CatalogInv'
  <2> DEFINE n == [db EXCEPT !.status = [db.status EXCEPT ![j] = "running"],
                             !.params = [db.params EXCEPT ![j] = p]]
  <2>1. n \in Database
    BY <1>0, SingleFieldTypes
  <2>2. n.files = db.files /\ n.expected = db.expected /\ n.revision = db.revision
    BY <1>0 DEF Database
  <2>3. CommitRevised(n)
    BY <1>1, Zenon DEF BeginJob
  <2> HIDE DEF n
  <2> QED BY <1>0, <2>1, <2>2, <2>3, EvidenceUnchanged, CommitRevisedKeepsInv
<1>2. ASSUME NEW j \in Jobs, ResetScanCoverage(j)
      PROVE  CatalogInv'
  <2> DEFINE n == [db EXCEPT !.seen = [db.seen EXCEPT ![j] = {}]]
  <2>1. n \in Database
    BY <1>0, SingleFieldTypes
  <2>2. n.files = db.files /\ n.expected = db.expected
    BY <1>0 DEF Database
  <2>3. Commit(n)
    BY <1>2, Zenon DEF ResetScanCoverage
  <2> HIDE DEF n
  <2> QED BY <1>0, <2>1, <2>2, <2>3, EvidenceUnchanged, CommitKeepsInv
<1>3. ASSUME NEW j \in Jobs, CheckpointJob(j)
      PROVE  CatalogInv'
  <2> DEFINE n == [db EXCEPT !.progress = [db.progress EXCEPT ![j] = "checkpoint"]]
  <2>1. n \in Database
    BY <1>0, SingleFieldTypes
  <2>2. n.files = db.files /\ n.expected = db.expected
    BY <1>0 DEF Database
  <2>3. Commit(n)
    BY <1>3, Zenon DEF CheckpointJob
  <2> HIDE DEF n
  <2> QED BY <1>0, <2>1, <2>2, <2>3, EvidenceUnchanged, CommitKeepsInv
<1>4. ASSUME NEW j \in Jobs, NEW d \in Database, EvidenceIsCurrent(d),
             d.revision = db.revision,
             NEW s \in JobStatus, CommitRevised(JobFinished(d, j, s))
      PROVE  CatalogInv'
  <2>1. JobFinished(d, j, s) \in Database
    BY JobFinishedType
  <2>2. /\ JobFinished(d, j, s).files = d.files
        /\ JobFinished(d, j, s).expected = d.expected
        /\ JobFinished(d, j, s).revision = d.revision
    BY DEF JobFinished, Database
  <2> QED BY <1>4, <2>1, <2>2, EvidenceUnchanged, CommitRevisedKeepsInv
<1>5. ASSUME NEW j \in Jobs, NEW complete \in BOOLEAN, NEW t \in Times,
             FinishScan(j, complete, t)
      PROVE  CatalogInv'
  <2> DEFINE m == ScanMissing(db, Uncovered(db, j), t)
  <2>1. Uncovered(db, j) \in SUBSET Copies
    BY DEF Uncovered
  <2>2. m \in Database /\ EvidenceIsCurrent(m)
    BY <1>0, <2>1, ScanMissingType, MissingEvidence DEF CheckKinds
  <2>3. m.revision = db.revision
    BY <1>0 DEF ScanMissing, MarkedMissing, Database
  <2>4. \/ CommitRevised(JobFinished(m, j, "complete"))
        \/ CommitRevised(JobFinished(db, j, "partial"))
    BY <1>5 DEF FinishScan
  <2> HIDE DEF m
  <2> QED BY <1>0, <1>4, <2>2, <2>3, <2>4 DEF JobStatus
<1>6. ASSUME NEW j \in Jobs, NEW s \in {"complete", "partial", "cancelled"},
             FinishJob(j, s)
      PROVE  CatalogInv'
  BY <1>0, <1>4, <1>6 DEF FinishJob, JobStatus
<1> QED
  BY <1>1, <1>2, <1>3, <1>5, <1>6

\* Recording copies as removed preserves the invariant.
LEMMA RemovalKeepsInv ==
    ASSUME CatalogInv, NEW selected \in SUBSET Objects, NEW target \in Locations,
           NEW t \in Times, RemoveSelected(selected, target, t)
    PROVE  CatalogInv'
<1> DEFINE copies == Affected(db, selected, target)
           n == MarkedMissing(db, copies, t, "file_removed")
<1>0. db \in Database /\ EvidenceIsCurrent(db)
  BY DEF CatalogInv, TypeOK, VerifiedIsCurrent
<1>1. copies \in SUBSET Copies
  BY DEF Affected, Copies
<1>2. n \in Database /\ EvidenceIsCurrent(n)
  BY <1>0, <1>1, MarkedMissingType, MissingEvidence DEF CheckKinds
<1>3. n.revision = db.revision
  BY <1>0 DEF MarkedMissing, Database
<1>4. CommitRevised(n)
  BY DEF RemoveSelected
<1> HIDE DEF n
<1> QED BY <1>2, <1>3, <1>4, CommitRevisedKeepsInv

\* Every step of the catalog preserves the invariant.
LEMMA NextKeepsInv == CatalogInv /\ [Next]_vars => CatalogInv'
<1> SUFFICES ASSUME CatalogInv, [Next]_vars PROVE CatalogInv'
  OBVIOUS
<1>0. db \in Database /\ EvidenceIsCurrent(db) /\ db.objects \subseteq Objects
  BY DEF CatalogInv, TypeOK, VerifiedIsCurrent, Database
<1>1. ASSUME NEW p \in Paths, NEW cs, NEW l \in Locations, NEW t \in Times,
             RemovePath(p, cs, l, t)
      PROVE  CatalogInv'
  BY <1>0, <1>1, RemovalKeepsInv DEF RemovePath, PathSelection
<1>2. ASSUME NEW l \in Locations, NEW w, NEW others, NEW t \in Times,
             RemoveGroups(l, w, others, t)
      PROVE  CatalogInv'
  BY <1>0, <1>2, RemovalKeepsInv DEF RemoveGroups, GroupSelection
<1>3. ASSUME NEW c \in Collections, NEW s \in {"active", "retired"},
             SetCollectionStatus(c, s)
      PROVE  CatalogInv'
  <2> DEFINE n == [db EXCEPT !.collections = [db.collections EXCEPT ![c] = s]]
  <2>1. n \in Database
    BY <1>0, SingleFieldTypes
  <2>2. n.files = db.files /\ n.expected = db.expected /\ n.revision = db.revision
    BY <1>0 DEF Database
  <2>3. CommitRevised(n)
    BY <1>3, Zenon DEF SetCollectionStatus
  <2> HIDE DEF n
  <2> QED BY <1>0, <2>1, <2>2, <2>3, EvidenceUnchanged, CommitRevisedKeepsInv
<1>4. ASSUME NEW l \in Locations, NEW s \in {"active", "retired"},
             SetLocationStatus(l, s)
      PROVE  CatalogInv'
  <2> DEFINE n == [db EXCEPT !.locations = [db.locations EXCEPT ![l] = s]]
  <2>1. n \in Database
    BY <1>0, SingleFieldTypes
  <2>2. n.files = db.files /\ n.expected = db.expected /\ n.revision = db.revision
    BY <1>0 DEF Database
  <2>3. CommitRevised(n)
    BY <1>4, Zenon DEF SetLocationStatus
  <2> HIDE DEF n
  <2> QED BY <1>0, <2>1, <2>2, <2>3, EvidenceUnchanged, CommitRevisedKeepsInv
<1>5. CASE UNCHANGED vars
  BY <1>5 DEF vars, CatalogInv, TypeOK, VerifiedIsCurrent, Idle
<1> QED
  BY <1>1, <1>2, <1>3, <1>4, <1>5, BatchKeepsInv, JobsKeepInv DEF Next

\* Every reachable state of the catalog is well typed, and no write
\* transaction outlives its commit or rollback: with no batch open the
\* working view is the committed database.
THEOREM TypeCorrect == Spec => []TypeOK
<1>1. CatalogInv => TypeOK
  BY DEF CatalogInv
<1> QED
  BY <1>1, InitInv, NextKeepsInv, PTL DEF Spec

\* observe_in_transaction, finish_catalog_scan, mark_removed: in every
\* reachable catalog a copy marked verified is present, its last check is the
\* successful one, and that check read the bytes expected now.
THEOREM VerifiedCopiesAreCurrent == Spec => []VerifiedIsCurrent
<1>1. CatalogInv => VerifiedIsCurrent
  BY DEF CatalogInv
<1> QED
  BY <1>1, InitInv, NextKeepsInv, PTL DEF Spec

-----------------------------------------------------------------------------
(* What the writers do to the database over time.                          *)

\* The registry, job and revision columns that no observation writes.
SameFrame(d, n) ==
    /\ n.collections = d.collections
    /\ n.locations = d.locations
    /\ n.status = d.status
    /\ n.params = d.params
    /\ n.revision = d.revision

\* No check of a copy moves back.
TimesAdvance(d, n) ==
    \A c \in Copies :
        d.files[c].checkTime # None =>
            n.files[c].checkTime # None /\ n.files[c].checkTime >= d.files[c].checkTime

RowsStay(d, n) == \A c \in Copies : HasRow(d, c) => HasRow(n, c)

\* A history row that is new is one of an observed check.
OnlyChecked(d, n) ==
    \A c \in Copies : n.audit[c] = d.audit[c] \/ n.audit[c].kind = "file_checked"

Retired(d, c) ==
    d.collections[c[1][1]] = "retired" \/ d.locations[c[2]] = "retired"

NothingGained(d, n) ==
    \A c \in Copies : Retired(d, c) /\ Healthy(n, c) => Healthy(d, c)

DamageKept(d, n) ==
    \A c \in Copies :
        d.files[c].integrity = "damaged" /\ n.files[c].integrity # "damaged" =>
            \/ n.files[c].result \in {"ok", "missing"}
            \/ n.expected[c[1]] # d.expected[c[1]]

\* Every stored request is about a copy that has a row.
RequestsHaveRows(d) ==
    \A k \in Keys : d.requests[k] # NoRequest => HasRow(d, CopyOf(d.requests[k]))

\* A job that was begun has the parameters it was begun with.
JobsHaveParams(d) == \A j \in Jobs : d.status[j] # "none" => d.params[j] \in JobParams

\* What the transaction of an open batch has done to the database so far.
OpenBatch ==
    /\ SameFrame(db, work)
    /\ TimesAdvance(db, work)
    /\ OnlyChecked(db, work)
    /\ NothingGained(db, work)
    /\ ~changed => Content(work) = Content(db)

HistoryInv ==
    /\ CatalogInv
    /\ CoverageInScope
    /\ AuditExplainsCopies
    /\ RequestsHaveRows(db) /\ RequestsHaveRows(work)
    /\ JobsHaveParams(db)
    /\ OpenBatch

-----------------------------------------------------------------------------
(* One observation.                                                        *)

\* What one observation writes beside the evidence.
LEMMA ObserveFrame ==
    ASSUME NEW d \in Database, NEW ob \in Inputs
    PROVE  LET n == ObserveInTransaction(d, ob)
           IN  /\ SameFrame(d, n)
               /\ n.seen = WithJobObject(d.seen, ob)
               /\ n.items = WithJobObject(d.items, ob)
               /\ n.changes = ChangesAfter(d, ob)
               /\ n.audit = IF IsCheck(ob)
                            THEN [d.audit EXCEPT ![CopyOf(ob)] =
                                    [kind |-> "file_checked", time |-> ob.time,
                                     result |-> CheckResult(ob, ExpectedAfter(d, ob)),
                                     expected |-> ExpectedAfter(d, ob)]]
                            ELSE d.audit
BY DEF ObserveInTransaction, Database, SameFrame

\* What the two sightings leave of a row.
LEMMA SightingKeeps ==
    ASSUME NEW row \in FileRow, NEW ob \in Inputs, NEW e \in Hashes \cup {None},
           ~IsCheck(ob)
    PROVE  LET new == Upsert(row, ob, e)
           IN  /\ new.presence # "norow"
               /\ new.checkTime = row.checkTime
               /\ new.result = row.result
               /\ row.integrity = "damaged" => new.integrity = "damaged"
               /\ new.integrity = "verified" => row.integrity = "verified"
<1>1. CASE ob.result = "metadata_unknown"
  <2>1. Upsert(row, ob, e) = UpsertUnknown(row)
    BY <1>1 DEF Upsert
  <2> QED BY <2>1 DEF UpsertUnknown, FileRow
<1>2. CASE ob.result = "metadata_present"
  <2>1. Upsert(row, ob, e) = UpsertPresent(row)
    BY <1>2 DEF Upsert
  <2> QED BY <2>1 DEF UpsertPresent, FileRow
<1> QED
  BY <1>1, <1>2 DEF IsCheck

\* What a check leaves in a row.
LEMMA CheckReplaces ==
    ASSUME NEW row \in FileRow, NEW ob \in Inputs, NEW e \in Hashes \cup {None},
           IsCheck(ob)
    PROVE  LET new == Upsert(row, ob, e)
           IN  /\ new.presence # "norow"
               /\ new.checkTime = ob.time
               /\ new.result = CheckResult(ob, e)
               /\ (row.integrity = "damaged" /\ new.integrity # "damaged") =>
                      new.result \in {"ok", "missing"}
<1>1. Upsert(row, ob, e) = UpsertCheck(row, ob, e)
  BY DEF Upsert, IsCheck
<1>2. CheckResult(ob, e) \in {"ok", "mismatch", "missing", "read_error"}
  BY CheckResultType
<1> QED
  BY <1>1, <1>2 DEF UpsertCheck

\* The rows before the upsert: only the integrity and the success of the
\* copies of an object with an accepted change differ.
LEMMA BaseKeeps ==
    ASSUME NEW d \in Database, NEW ob \in Inputs, NEW c \in Copies
    PROVE  LET base == FilesBeforeUpsert(d, ob)
           IN  /\ base[c].presence = d.files[c].presence
               /\ base[c].checkTime = d.files[c].checkTime
               /\ base[c].result = d.files[c].result
               /\ \/ base[c] = d.files[c]
                  \/ /\ AcceptsChange(d, ob) /\ c[1] = ObjectOf(ob)
                     /\ base[c].integrity = "unverified"
<1>1. d.files[c] \in FileRow
  BY DEF Database
<1> QED
  BY <1>1 DEF FilesBeforeUpsert, Withdrawn, FileRow

\* An accepted observation moves no check back, removes no row, writes no
\* history row but a check's, keeps damage unless a check or an accepted
\* change ends it, and gives a retired scope no healthy copy.
LEMMA ObserveEffects ==
    ASSUME NEW d \in Database, NEW ob \in Inputs, EvidenceIsCurrent(d),
           ObservationAccepted(d, ob)
    PROVE  LET n == ObserveInTransaction(d, ob)
           IN  /\ TimesAdvance(d, n)
               /\ RowsStay(d, n)
               /\ HasRow(n, CopyOf(ob))
               /\ OnlyChecked(d, n)
               /\ DamageKept(d, n)
               /\ NothingGained(d, n)
               /\ Explained(d) => Explained(n)
<1> DEFINE n == ObserveInTransaction(d, ob)
           o == ObjectOf(ob)
           x == CopyOf(ob)
           e == ExpectedAfter(d, ob)
           base == FilesBeforeUpsert(d, ob)
           new == Upsert(base[x], ob, e)
<1>1. /\ ob \in Observation /\ o \in Objects /\ x \in Copies /\ x[1] = o
      /\ x[1][1] = ob.collection /\ x[2] = ob.location
  BY ObservationNames DEF Inputs, CopyOf, ObjectOf
<1>2. /\ n.expected = [d.expected EXCEPT ![o] = e]
      /\ n.files = [base EXCEPT ![x] = new]
  BY ObserveFields
<1>3. /\ base \in [Copies -> FileRow] /\ e \in Hashes \cup {None}
      /\ base[x] \in FileRow
  BY <1>1, BaseFilesType, ExpectedType
<1>4. /\ d.expected \in [Objects -> Hashes \cup {None}]
      /\ d.files \in [Copies -> FileRow]
      /\ d.audit \in [Copies -> AuditRow]
      /\ d.changes \in [Objects -> ChangeRow]
  BY DEF Database
<1>5. /\ n.files[x] = new
      /\ \A c \in Copies \ {x} : n.files[c] = base[c]
      /\ n.expected[o] = e
      /\ \A a \in Objects \ {o} : n.expected[a] = d.expected[a]
      /\ \A c \in Copies : c[1] \in Objects
  BY <1>1, <1>2, <1>3, <1>4 DEF Copies
<1>6. /\ new.presence # "norow"
      /\ ~IsCheck(ob) => /\ new.checkTime = base[x].checkTime
                         /\ new.result = base[x].result
                         /\ base[x].integrity = "damaged" => new.integrity = "damaged"
                         /\ new.integrity = "verified" => base[x].integrity = "verified"
      /\ IsCheck(ob) => /\ new.checkTime = ob.time
                        /\ new.result = CheckResult(ob, e)
                        /\ (base[x].integrity = "damaged" /\ new.integrity # "damaged")
                               => new.result \in {"ok", "missing"}
  BY <1>3, SightingKeeps, CheckReplaces
<1>7. ~IsCheck(ob) => e = d.expected[o] /\ ~AcceptsChange(d, ob)
  BY DEF IsCheck, ExpectedAfter, Establishes, AcceptsChange
<1>8. AcceptsChange(d, ob) => e # d.expected[o]
  BY DEF AcceptsChange, ExpectedAfter
<1>9. \A c \in Copies :
         /\ base[c].presence = d.files[c].presence
         /\ base[c].checkTime = d.files[c].checkTime
         /\ base[c].result = d.files[c].result
         /\ \/ base[c] = d.files[c]
            \/ /\ AcceptsChange(d, ob) /\ c[1] = o
               /\ base[c].integrity = "unverified"
  BY BaseKeeps
<1>10. n.audit = IF IsCheck(ob)
                 THEN [d.audit EXCEPT ![x] =
                         [kind |-> "file_checked", time |-> ob.time,
                          result |-> CheckResult(ob, e), expected |-> e]]
                 ELSE d.audit
  BY ObserveFrame
<1>11. n.changes = ChangesAfter(d, ob)
  BY ObserveFrame
<1> HIDE DEF n, o, x, e, base, new
<1>20. TimesAdvance(d, n)
  <2> SUFFICES ASSUME NEW c \in Copies, d.files[c].checkTime # None
               PROVE  /\ n.files[c].checkTime # None
                      /\ n.files[c].checkTime >= d.files[c].checkTime
    BY DEF TimesAdvance
  <2>0. d.files[c].checkTime \in Times /\ ob.time \in Times /\ None \notin Times
    BY <1>1, <1>4, BoundsAreNaturals, NoneIsNoNumber DEF FileRow, Observation, Times
  <2>1. CASE c = x /\ IsCheck(ob)
    <3>1. d.files[x].checkTime <= ob.time
      BY <2>1 DEF ObservationAccepted, x
    <3> QED BY <1>5, <1>6, <2>0, <2>1, <3>1, BoundsAreNaturals DEF Times
  <2>2. CASE ~(c = x /\ IsCheck(ob))
    <3>1. n.files[c].checkTime = d.files[c].checkTime
      BY <1>5, <1>6, <1>9, <2>2
    <3> QED BY <2>0, <3>1, BoundsAreNaturals DEF Times
  <2> QED BY <2>1, <2>2
<1>21. RowsStay(d, n) /\ HasRow(n, x)
  BY <1>5, <1>6, <1>9 DEF RowsStay, HasRow
<1>22. OnlyChecked(d, n)
  BY <1>1, <1>4, <1>10 DEF OnlyChecked
<1>23. DamageKept(d, n)
  <2> SUFFICES ASSUME NEW c \in Copies, d.files[c].integrity = "damaged",
                      n.files[c].integrity # "damaged"
               PROVE  \/ n.files[c].result \in {"ok", "missing"}
                      \/ n.expected[c[1]] # d.expected[c[1]]
    BY DEF DamageKept
  <2>1. CASE base[c] = d.files[c]
    BY <1>5, <1>6, <2>1
  <2>2. CASE AcceptsChange(d, ob) /\ c[1] = o
    BY <1>5, <1>8, <2>2
  <2> QED BY <1>9, <2>1, <2>2
<1>24. NothingGained(d, n)
  <2> SUFFICES ASSUME NEW c \in Copies, Retired(d, c), Healthy(n, c)
               PROVE  Healthy(d, c)
    BY DEF NothingGained
  <2>1. c # x
    BY <1>1 DEF Retired, ObservationAccepted
  <2>2. n.files[c] = base[c]
    BY <1>5, <2>1
  <2>3. n.files[c] = d.files[c] /\ d.files[c].integrity = "verified"
        /\ ~(AcceptsChange(d, ob) /\ c[1] = o)
    <3>1. ASSUME AcceptsChange(d, ob), c[1] = o
          PROVE  n.files[c].integrity = "unverified"
      <4>1. base[c] = Withdrawn(d.files[c])
        BY <3>1 DEF base, FilesBeforeUpsert, o
      <4>2. d.files[c] \in FileRow BY <1>4
      <4> QED BY <2>2, <4>1, <4>2 DEF Withdrawn, FileRow
    <3> QED BY <1>9, <2>2, <3>1 DEF Healthy
  <2>4. d.expected[c[1]] # None
    BY <2>3 DEF EvidenceIsCurrent
  <2>5. n.expected[c[1]] = d.expected[c[1]]
    BY <1>5, <2>3, <2>4 DEF e, o, ExpectedAfter, Establishes
  <2> QED BY <2>3, <2>5 DEF Healthy
<1>25. ASSUME Explained(d)
       PROVE  Explained(n)
  <2>1. ASSUME NEW c \in Copies
        PROVE  n.audit[c].time = n.files[c].checkTime /\ n.audit[c].result = n.files[c].result
    <3>1. CASE c = x /\ IsCheck(ob)
      BY <1>4, <1>5, <1>6, <1>10, <3>1
    <3>2. CASE ~(c = x /\ IsCheck(ob))
      <4>1. n.audit[c] = d.audit[c]
        BY <1>4, <1>10, <3>2
      <4> QED BY <1>5, <1>6, <1>9, <1>25, <3>2, <4>1 DEF Explained
    <3> QED BY <3>1, <3>2
  <2>2. ASSUME NEW c \in Copies, n.files[c].integrity = "verified"
        PROVE  n.audit[c].expected = n.expected[c[1]]
    <3>1. CASE c = x /\ IsCheck(ob)
      BY <1>1, <1>4, <1>5, <1>10, <3>1
    <3>2. CASE ~(c = x /\ IsCheck(ob))
      <4>1. n.audit[c] = d.audit[c]
        BY <1>4, <1>10, <3>2
      <4>2. base[c].integrity = "verified"
        BY <1>5, <1>6, <2>2, <3>2
      <4>3. base[c] = d.files[c]
        BY <1>9, <4>2
      <4>4. d.expected[c[1]] # None /\ d.audit[c].expected = d.expected[c[1]]
        BY <1>25, <4>2, <4>3 DEF EvidenceIsCurrent, Explained
      <4>5. ~(AcceptsChange(d, ob) /\ c[1] = o)
        <5>1. d.files[c] \in FileRow BY <1>4
        <5> QED BY <4>2, <5>1 DEF base, FilesBeforeUpsert, Withdrawn, FileRow, o
      <4>6. n.expected[c[1]] = d.expected[c[1]]
        BY <1>5, <4>4, <4>5 DEF e, o, ExpectedAfter, Establishes
      <4> QED BY <4>1, <4>4, <4>6
    <3> QED BY <3>1, <3>2
  <2>3. ASSUME NEW a \in Objects, n.changes[a].new # None
        PROVE  n.expected[a] = n.changes[a].new
    <3>1. CASE AcceptsChange(d, ob) /\ a = o
      <4>1. n.changes[a].new = ob.hash
        BY <1>1, <1>4, <1>11, <3>1 DEF ChangesAfter, o
      <4>2. e = ob.hash
        BY <3>1 DEF e, ExpectedAfter
      <4> QED BY <1>5, <3>1, <4>1, <4>2
    <3>2. CASE ~(AcceptsChange(d, ob) /\ a = o)
      <4>1. n.changes[a] = d.changes[a]
        BY <1>4, <1>11, <3>2 DEF ChangesAfter, o
      <4>2. d.expected[a] = d.changes[a].new /\ d.expected[a] # None
        BY <1>25, <2>3, <4>1 DEF Explained
      <4>3. n.expected[a] = d.expected[a]
        BY <1>5, <3>2, <4>2 DEF e, o, ExpectedAfter, Establishes
      <4> QED BY <4>1, <4>2, <4>3
    <3> QED BY <3>1, <3>2
  <2> QED BY <2>1, <2>2, <2>3 DEF Explained
<1> QED
  BY <1>20, <1>21, <1>22, <1>23, <1>24, <1>25 DEF n, x

-----------------------------------------------------------------------------
(* Declaring copies missing.                                               *)

\* A write that leaves every field alone but these may change.
SameCoverage(d, n) ==
    n.seen = d.seen /\ n.items = d.items /\ n.requests = d.requests

\* The health of a copy is never the work of a removal or of a scan's end.
HealthOnlyLost(d, n) == \A c \in Copies : Healthy(n, c) => Healthy(d, c)

\* History rows change for some copies only, and to one kind.
RowsOfKind(d, n, copies, kind) ==
    \A c \in Copies : \/ n.audit[c] = d.audit[c]
                      \/ c \in copies /\ n.audit[c].kind = kind

MissingWrite(d, n, copies, kind) ==
    /\ SameFrame(d, n) /\ SameCoverage(d, n)
    /\ TimesAdvance(d, n) /\ RowsStay(d, n) /\ DamageKept(d, n)
    /\ HealthOnlyLost(d, n) /\ RowsOfKind(d, n, copies, kind)
    /\ Explained(d) => Explained(n)

\* mark_removed and the end of a complete scan: copies are declared missing
\* no earlier than they were last checked.
LEMMA MissingEffects ==
    ASSUME NEW d \in Database, NEW copies \in SUBSET Copies, NEW t \in Times,
           NEW kind \in CheckKinds,
           \A c \in copies : d.files[c].checkTime # None => d.files[c].checkTime <= t
    PROVE  /\ MissingWrite(d, MarkedMissing(d, copies, t, kind), copies, kind)
           /\ MissingWrite(d, ScanMissing(d, copies, t), copies, "scan_missing")
<1>1. /\ d.files \in [Copies -> FileRow] /\ d.audit \in [Copies -> AuditRow]
      /\ None \notin Times
  BY BoundsAreNaturals, NoneIsNoNumber DEF Database, Times
<1>2. ASSUME NEW k \in CheckKinds, NEW n,
             SameFrame(d, n), SameCoverage(d, n),
             n.expected = d.expected, n.changes = d.changes,
             n.audit = [c \in Copies |-> IF c \in copies
                                         THEN [kind |-> k, time |-> t,
                                               result |-> "missing",
                                               expected |-> d.expected[c[1]]]
                                         ELSE d.audit[c]],
             \A c \in Copies \ copies : n.files[c] = d.files[c],
             \A c \in copies : /\ n.files[c].presence = "missing"
                               /\ n.files[c].integrity = "unverified"
                               /\ n.files[c].checkTime = t
                               /\ n.files[c].result = "missing"
      PROVE  MissingWrite(d, n, copies, k)
  <2>1. TimesAdvance(d, n)
    <3>1. \A c \in Copies : d.files[c].checkTime # None => d.files[c].checkTime \in Times
      BY <1>1 DEF FileRow
    <3> QED BY <1>1, <1>2, <3>1, BoundsAreNaturals DEF TimesAdvance, Times
  <2>2. RowsStay(d, n) /\ DamageKept(d, n) /\ HealthOnlyLost(d, n)
    BY <1>2 DEF RowsStay, DamageKept, HealthOnlyLost, Healthy, HasRow
  <2>3. RowsOfKind(d, n, copies, k)
    BY <1>2 DEF RowsOfKind
  <2>4. Explained(d) => Explained(n)
    BY <1>2 DEF Explained
  <2> QED BY <1>2, <2>1, <2>2, <2>3, <2>4 DEF MissingWrite
<1>3. ASSUME NEW k \in CheckKinds
      PROVE  LET m == MarkedMissing(d, copies, t, k)
             IN  /\ m \in Database
                 /\ SameFrame(d, m) /\ SameCoverage(d, m)
                 /\ m.expected = d.expected /\ m.changes = d.changes
                 /\ m.files = [c \in Copies |-> IF c \in copies
                                                 THEN MissingRow(d.files[c], t)
                                                 ELSE d.files[c]]
                 /\ m.audit = [c \in Copies |-> IF c \in copies
                                         THEN [kind |-> k, time |-> t,
                                               result |-> "missing",
                                               expected |-> d.expected[c[1]]]
                                         ELSE d.audit[c]]
  <2> DEFINE m == MarkedMissing(d, copies, t, k)
             files == [c \in Copies |-> IF c \in copies
                                        THEN MissingRow(d.files[c], t) ELSE d.files[c]]
             audit == [c \in Copies |-> IF c \in copies
                                        THEN [kind |-> k, time |-> t, result |-> "missing",
                                              expected |-> d.expected[c[1]]]
                                        ELSE d.audit[c]]
  <2>1. m = [d EXCEPT !.files = files, !.audit = audit]
    BY Zenon DEF MarkedMissing
  <2>2. m \in Database
    BY <1>3, MarkedMissingType
  <2>3. m.files = files /\ m.audit = audit /\ SameFrame(d, m) /\ SameCoverage(d, m)
        /\ m.expected = d.expected /\ m.changes = d.changes
    <3> HIDE DEF m, files, audit
    <3> QED BY <2>1 DEF Database, SameFrame, SameCoverage
  <2> QED BY <2>2, <2>3
<1>4. \A c \in copies : LET r == MissingRow(d.files[c], t)
                        IN  /\ r.presence = "missing" /\ r.integrity = "unverified"
                            /\ r.checkTime = t /\ r.result = "missing"
                            /\ r \in FileRow
  <2> SUFFICES ASSUME NEW c \in copies
               PROVE  LET r == MissingRow(d.files[c], t)
                      IN  /\ r.presence = "missing" /\ r.integrity = "unverified"
                          /\ r.checkTime = t /\ r.result = "missing"
                          /\ r \in FileRow
    OBVIOUS
  <2>1. d.files[c] \in FileRow
    BY <1>1
  <2>2. MissingRow(d.files[c], t) \in FileRow
    BY <2>1, MissingRowType
  <2> QED BY <2>1, <2>2 DEF MissingRow, FileRow
<1>5. MissingWrite(d, MarkedMissing(d, copies, t, kind), copies, kind)
  <2> DEFINE m == MarkedMissing(d, copies, t, kind)
  <2>0. /\ m \in Database /\ SameFrame(d, m) /\ SameCoverage(d, m)
        /\ m.expected = d.expected /\ m.changes = d.changes
        /\ m.files = [c \in Copies |-> IF c \in copies
                                        THEN MissingRow(d.files[c], t) ELSE d.files[c]]
        /\ m.audit = [c \in Copies |-> IF c \in copies
                                         THEN [kind |-> kind, time |-> t,
                                               result |-> "missing",
                                               expected |-> d.expected[c[1]]]
                                         ELSE d.audit[c]]
    BY <1>3, Zenon
  <2> HIDE DEF m
  <2>1. /\ \A c \in Copies \ copies : m.files[c] = d.files[c]
        /\ \A c \in copies : m.files[c] = MissingRow(d.files[c], t)
    BY <2>0
  <2>2. \A c \in copies : /\ m.files[c].presence = "missing"
                          /\ m.files[c].integrity = "unverified"
                          /\ m.files[c].checkTime = t
                          /\ m.files[c].result = "missing"
    BY <2>1, <1>4, Zenon
  <2>3. MissingWrite(d, m, copies, kind)
    BY <1>2, <2>0, <2>1, <2>2, Zenon
  <2> QED BY <2>3 DEF m
<1>6. MissingWrite(d, ScanMissing(d, copies, t), copies, "scan_missing")
  <2> DEFINE m == MarkedMissing(d, copies, t, "scan_missing")
             s == ScanMissing(d, copies, t)
             files == [c \in Copies |-> IF c \in copies
                                        THEN [m.files[c] EXCEPT !.observed = None]
                                        ELSE m.files[c]]
  <2>0. "scan_missing" \in CheckKinds
    BY DEF CheckKinds
  <2>1. s = [m EXCEPT !.files = files]
    BY Zenon DEF ScanMissing
  <2>2. /\ m \in Database /\ SameFrame(d, m) /\ SameCoverage(d, m)
        /\ m.expected = d.expected /\ m.changes = d.changes
        /\ \A c \in Copies \ copies : m.files[c] = d.files[c]
        /\ \A c \in copies : m.files[c] = MissingRow(d.files[c], t)
        /\ m.audit = [c \in Copies |-> IF c \in copies
                                         THEN [kind |-> "scan_missing", time |-> t,
                                               result |-> "missing",
                                               expected |-> d.expected[c[1]]]
                                         ELSE d.audit[c]]
    BY <1>3, <2>0
  <2> HIDE DEF m
  <2>3. /\ SameFrame(m, s) /\ SameCoverage(m, s) /\ s.files = files
        /\ s.expected = m.expected /\ s.changes = m.changes /\ s.audit = m.audit
    <3> HIDE DEF files
    <3> QED BY <2>1, <2>2 DEF Database, SameFrame, SameCoverage
  <2>4. \A c \in Copies \ copies : s.files[c] = d.files[c]
    BY <2>2, <2>3
  <2>5. ASSUME NEW c \in copies
        PROVE  /\ s.files[c].presence = "missing" /\ s.files[c].integrity = "unverified"
               /\ s.files[c].checkTime = t /\ s.files[c].result = "missing"
    <3>1. s.files[c] = [m.files[c] EXCEPT !.observed = None]
      BY <2>3
    <3> QED BY <1>4, <2>2, <3>1 DEF FileRow
  <2>6. SameFrame(d, s) /\ SameCoverage(d, s)
    BY <2>2, <2>3 DEF SameFrame, SameCoverage
  <2> QED BY <1>2, <2>0, <2>2, <2>3, <2>4, <2>5, <2>6, Zenon
<1> QED BY <1>5, <1>6

-----------------------------------------------------------------------------
(* Transactions that are one action.                                       *)

Ended == {"complete", "partial", "cancelled"}

\* Jobs that ended stay as they are.
EndedStays(d, n) ==
    \A j \in Jobs : d.status[j] \in Ended =>
        n.status[j] = d.status[j] /\ n.params[j] = d.params[j]

\* A scan_missing row appears when a scan of its copy completes without it.
MissingByScans(d, n) ==
    \A c \in Copies :
        n.audit[c] # d.audit[c] /\ n.audit[c].kind = "scan_missing" =>
            \E j \in Jobs :
                /\ d.status[j] = "running" /\ n.status[j] = "complete"
                /\ d.params[j].collection = c[1][1]
                /\ d.params[j].location = c[2]
                /\ c[1] \notin d.seen[j]

RevisionSteps(d, n) ==
    /\ Content(n) # Content(d) => n.revision = d.revision + 1
    /\ n.revision \in {d.revision, d.revision + 1}

\* What a step does to the database.
DatabaseStep(d, n) ==
    /\ TimesAdvance(d, n) /\ NothingGained(d, n)
    /\ EndedStays(d, n) /\ MissingByScans(d, n) /\ RevisionSteps(d, n)

StepKeeps ==
    /\ DatabaseStep(db, db')
    /\ WithinTransaction => DamageKept(work, work')

\* What a transaction has to do so that the invariant survives it.
GoodWrite(d, n) ==
    /\ TimesAdvance(d, n) /\ NothingGained(d, n) /\ DamageKept(d, n)
    /\ EndedStays(d, n) /\ MissingByScans(d, n)
    /\ CoverageIn(n) /\ Explained(n) /\ RequestsHaveRows(n) /\ JobsHaveParams(n)

\* Leaving the database alone is a good step.
LEMMA NoWrite ==
    ASSUME NEW d \in Database
    PROVE  /\ TimesAdvance(d, d) /\ NothingGained(d, d) /\ DamageKept(d, d)
           /\ OnlyChecked(d, d) /\ SameFrame(d, d) /\ DatabaseStep(d, d)
<1>1. TimesAdvance(d, d)
  <2>1. \A c \in Copies : d.files[c].checkTime # None => d.files[c].checkTime \in Nat
    <3>1. d.files \in [Copies -> FileRow] BY DEF Database
    <3> QED BY <3>1, BoundsAreNaturals DEF FileRow, Times
  <2> QED BY <2>1 DEF TimesAdvance
<1>2. NothingGained(d, d) /\ DamageKept(d, d) /\ OnlyChecked(d, d) /\ SameFrame(d, d)
  BY DEF NothingGained, DamageKept, OnlyChecked, SameFrame
<1>3. EndedStays(d, d) /\ MissingByScans(d, d) /\ RevisionSteps(d, d)
  BY DEF EndedStays, MissingByScans, RevisionSteps
<1> QED BY <1>1, <1>2, <1>3 DEF DatabaseStep

\* The fields that advancing the revision leaves alone.
LEMMA RevisedFields ==
    ASSUME NEW d \in Database
    PROVE  LET n == Revised(d)
           IN  /\ n.files = d.files /\ n.expected = d.expected /\ n.audit = d.audit
               /\ n.changes = d.changes /\ n.collections = d.collections
               /\ n.locations = d.locations /\ n.status = d.status
               /\ n.params = d.params /\ n.objects = d.objects
               /\ n.seen = d.seen /\ n.items = d.items /\ n.requests = d.requests
               /\ n.revision = d.revision + 1
BY DEF Revised, Database

\* A good write is good with the revision it advances.
LEMMA RevisedGoodWrite ==
    ASSUME NEW d \in Database, NEW n \in Database, GoodWrite(d, n)
    PROVE  GoodWrite(d, Revised(n))
<1>1. /\ TimesAdvance(d, Revised(n)) /\ DamageKept(d, Revised(n))
      /\ NothingGained(d, Revised(n))
  BY RevisedFields
     DEF GoodWrite, TimesAdvance, DamageKept, NothingGained, Healthy
<1>2. EndedStays(d, Revised(n)) /\ MissingByScans(d, Revised(n))
  BY RevisedFields DEF GoodWrite, EndedStays, MissingByScans
<1>3. /\ CoverageIn(Revised(n)) /\ Explained(Revised(n))
      /\ RequestsHaveRows(Revised(n)) /\ JobsHaveParams(Revised(n))
  BY RevisedFields
     DEF GoodWrite, CoverageIn, Explained, RequestsHaveRows, JobsHaveParams, HasRow
<1> QED BY <1>1, <1>2, <1>3 DEF GoodWrite

\* A transaction that commits a good write keeps the invariant.
LEMMA CommitKeepsHistory ==
    ASSUME HistoryInv, CatalogInv', NEW n \in Database, GoodWrite(db, n),
           RevisionSteps(db, n), Commit(n)
    PROVE  HistoryInv' /\ StepKeeps
<1>1. db' = n /\ work' = n /\ changed' = FALSE /\ work = db
  BY DEF Commit, HistoryInv, CatalogInv, TypeOK
<1>2. OpenBatch'
  BY <1>1, NoWrite DEF OpenBatch
<1>3. CoverageInScope' /\ AuditExplainsCopies'
  BY <1>1 DEF GoodWrite, CoverageInScope, AuditExplainsCopies
<1>4. RequestsHaveRows(db') /\ RequestsHaveRows(work') /\ JobsHaveParams(db')
  BY <1>1 DEF GoodWrite
<1>5. StepKeeps
  BY <1>1 DEF StepKeeps, DatabaseStep, GoodWrite
<1> QED BY <1>2, <1>3, <1>4, <1>5 DEF HistoryInv

\* The same for a transaction that advances the revision.
LEMMA CommitRevisedKeepsHistory ==
    ASSUME HistoryInv, CatalogInv', NEW n \in Database, GoodWrite(db, n),
           n.revision = db.revision, CommitRevised(n)
    PROVE  HistoryInv' /\ StepKeeps
<1>1. db \in Database /\ Revised(n) \in Database
  BY RevisedType DEF CommitRevised, HistoryInv, CatalogInv, TypeOK
<1>2. GoodWrite(db, Revised(n))
  BY <1>1, RevisedGoodWrite
<1>3. RevisionSteps(db, Revised(n))
  BY RevisedFields DEF RevisionSteps
<1> QED BY <1>1, <1>2, <1>3, CommitKeepsHistory DEF CommitRevised

\* A write that touches no copy, no checksum and no history row.
LEMMA QuietWrite ==
    ASSUME NEW d \in Database, NEW n, Explained(d), RequestsHaveRows(d),
           n.files = d.files, n.expected = d.expected, n.audit = d.audit,
           n.changes = d.changes, n.requests = d.requests,
           EndedStays(d, n), CoverageIn(n), JobsHaveParams(n)
    PROVE  GoodWrite(d, n)
<1>1. TimesAdvance(d, n) /\ DamageKept(d, n) /\ NothingGained(d, n)
  BY NoWrite DEF TimesAdvance, DamageKept, NothingGained, Healthy
<1>2. MissingByScans(d, n)
  BY DEF MissingByScans
<1>3. Explained(n) /\ RequestsHaveRows(n)
  BY DEF Explained, RequestsHaveRows, HasRow
<1> QED BY <1>1, <1>2, <1>3 DEF GoodWrite

\* The end of a job leaves its coverage empty and everybody else's alone.
LEMMA JobFinishedFields ==
    ASSUME NEW d \in Database, NEW j \in Jobs, NEW s \in JobStatus
    PROVE  LET n == JobFinished(d, j, s)
           IN  /\ n.files = d.files /\ n.expected = d.expected /\ n.audit = d.audit
               /\ n.changes = d.changes /\ n.requests = d.requests
               /\ n.collections = d.collections /\ n.locations = d.locations
               /\ n.params = d.params /\ n.revision = d.revision
               /\ n.status = [d.status EXCEPT ![j] = s]
               /\ n.seen = [d.seen EXCEPT ![j] = {}]
               /\ n.items = [d.items EXCEPT ![j] = {}]
<1> DEFINE a == [d.status EXCEPT ![j] = s]
           b == [d.progress EXCEPT ![j] = "summary"]
           e == [d.seen EXCEPT ![j] = {}]
           f == [d.items EXCEPT ![j] = {}]
<1>1. JobFinished(d, j, s) = [d EXCEPT !.status = a, !.progress = b, !.seen = e, !.items = f]
  BY Zenon DEF JobFinished
<1> HIDE DEF a, b, e, f
<1>2. LET n == JobFinished(d, j, s)
      IN  /\ n.files = d.files /\ n.expected = d.expected /\ n.audit = d.audit
          /\ n.changes = d.changes /\ n.requests = d.requests
          /\ n.collections = d.collections /\ n.locations = d.locations
          /\ n.params = d.params /\ n.revision = d.revision
          /\ n.status = a /\ n.seen = e /\ n.items = f
  BY <1>1 DEF Database
<1> QED BY <1>2 DEF a, e, f

\* Ending a running job: its rows go, the rows of other jobs stay in scope.
LEMMA JobFinishedCoverage ==
    ASSUME NEW d \in Database, NEW n, NEW j \in Jobs, NEW s \in JobStatus,
           CoverageIn(d), JobsHaveParams(d), RowsStay(d, n), n.params = d.params,
           n.status = [d.status EXCEPT ![j] = s],
           n.seen = [d.seen EXCEPT ![j] = {}], n.items = [d.items EXCEPT ![j] = {}]
    PROVE  CoverageIn(n)
<1> SUFFICES ASSUME NEW k \in Jobs, NEW o \in n.seen[k] \cup n.items[k]
             PROVE  /\ n.status[k] = "running"
                    /\ o[1] = n.params[k].collection
                    /\ HasRow(n, <<o, n.params[k].location>>)
  BY DEF CoverageIn
<1>1. /\ d.seen \in [Jobs -> SUBSET Objects] /\ d.items \in [Jobs -> SUBSET Objects]
      /\ d.status \in [Jobs -> JobStatus] /\ d.params \in [Jobs -> JobParams \cup {None}]
      /\ d.files \in [Copies -> FileRow]
  BY DEF Database
<1>2. k # j /\ o \in d.seen[k] \cup d.items[k] /\ n.status[k] = d.status[k]
  BY <1>1
<1>3. /\ d.status[k] = "running" /\ o[1] = d.params[k].collection
      /\ HasRow(d, <<o, d.params[k].location>>)
  BY <1>2 DEF CoverageIn
<1>4. d.params[k].location \in Locations
  BY <1>3 DEF JobsHaveParams, JobParams
<1>5. <<o, d.params[k].location>> \in Copies
  BY <1>1, <1>2, <1>4 DEF Copies
<1> QED BY <1>2, <1>3, <1>5 DEF RowsStay

\* begin_catalog_job, reset_scan_coverage, checkpoint_job, the end of a scan
\* and finish_catalog_job keep the invariant.
LEMMA JobsKeepHistory ==
    ASSUME HistoryInv, CatalogInv',
           \/ \E j \in Jobs, p \in JobParams : BeginJob(j, p)
           \/ \E j \in Jobs : ResetScanCoverage(j)
           \/ \E j \in Jobs : CheckpointJob(j)
           \/ \E j \in Jobs, complete \in BOOLEAN, t \in Times : FinishScan(j, complete, t)
           \/ \E j \in Jobs, s \in {"complete", "partial", "cancelled"} : FinishJob(j, s)
    PROVE  HistoryInv' /\ StepKeeps
<1>0. /\ db \in Database /\ CoverageIn(db) /\ Explained(db) /\ RequestsHaveRows(db)
      /\ JobsHaveParams(db)
  BY DEF HistoryInv, CatalogInv, TypeOK, CoverageInScope, AuditExplainsCopies
<1>00. /\ db.seen \in [Jobs -> SUBSET Objects] /\ db.items \in [Jobs -> SUBSET Objects]
       /\ db.status \in [Jobs -> JobStatus] /\ db.params \in [Jobs -> JobParams \cup {None}]
  BY <1>0 DEF Database
<1>1. ASSUME NEW j \in Jobs, NEW p \in JobParams, BeginJob(j, p)
      PROVE  HistoryInv' /\ StepKeeps
  <2> DEFINE st == [db.status EXCEPT ![j] = "running"]
             pa == [db.params EXCEPT ![j] = p]
             n == [db EXCEPT !.status = st, !.params = pa]
  <2>1. n \in Database
    BY <1>0, SingleFieldTypes
  <2>2. CommitRevised(n) /\ db.status[j] = "none"
    BY <1>1, Zenon DEF BeginJob
  <2> HIDE DEF st, pa
  <2>3. /\ n.files = db.files /\ n.expected = db.expected /\ n.audit = db.audit
        /\ n.changes = db.changes /\ n.requests = db.requests
        /\ n.seen = db.seen /\ n.items = db.items
        /\ n.revision = db.revision /\ n.status = st /\ n.params = pa
    BY <1>0 DEF Database
  <2> HIDE DEF n
  <2>4. EndedStays(db, n) /\ JobsHaveParams(n)
    BY <1>0, <1>00, <2>2, <2>3 DEF EndedStays, JobsHaveParams, Ended, st, pa
  <2>5. CoverageIn(n)
    <3> SUFFICES ASSUME NEW k \in Jobs, NEW o \in n.seen[k] \cup n.items[k]
                 PROVE  /\ n.status[k] = "running"
                        /\ o[1] = n.params[k].collection
                        /\ HasRow(n, <<o, n.params[k].location>>)
      BY DEF CoverageIn
    <3>1. o \in db.seen[k] \cup db.items[k]
      BY <2>3
    <3>2. /\ db.status[k] = "running" /\ o[1] = db.params[k].collection
          /\ HasRow(db, <<o, db.params[k].location>>)
      BY <1>0, <3>1 DEF CoverageIn
    <3>3. n.status[k] = db.status[k] /\ n.params[k] = db.params[k]
      BY <1>00, <2>2, <2>3, <3>2 DEF st, pa
    <3> QED BY <2>3, <3>2, <3>3 DEF HasRow
  <2> QED BY <1>0, <2>1, <2>2, <2>3, <2>4, <2>5, QuietWrite, CommitRevisedKeepsHistory
<1>2. ASSUME NEW j \in Jobs, ResetScanCoverage(j)
      PROVE  HistoryInv' /\ StepKeeps
  <2> DEFINE se == [db.seen EXCEPT ![j] = {}]
             n == [db EXCEPT !.seen = se]
  <2>1. n \in Database
    BY <1>0, SingleFieldTypes
  <2>2. Commit(n)
    BY <1>2, Zenon DEF ResetScanCoverage
  <2> HIDE DEF se
  <2>3. /\ n.files = db.files /\ n.expected = db.expected /\ n.audit = db.audit
        /\ n.changes = db.changes /\ n.requests = db.requests
        /\ n.seen = se /\ n.items = db.items /\ n.status = db.status
        /\ n.params = db.params /\ n.revision = db.revision /\ Content(n) = Content(db)
    BY <1>0 DEF Database, Content
  <2> HIDE DEF n
  <2>4. EndedStays(db, n) /\ JobsHaveParams(n) /\ RevisionSteps(db, n)
    BY <1>0, <2>3 DEF EndedStays, JobsHaveParams, RevisionSteps
  <2>5. CoverageIn(n)
    BY <1>0, <1>00, <2>3 DEF CoverageIn, HasRow, se
  <2> QED BY <1>0, <2>1, <2>2, <2>3, <2>4, <2>5, QuietWrite, CommitKeepsHistory
<1>3. ASSUME NEW j \in Jobs, CheckpointJob(j)
      PROVE  HistoryInv' /\ StepKeeps
  <2> DEFINE pr == [db.progress EXCEPT ![j] = "checkpoint"]
             n == [db EXCEPT !.progress = pr]
  <2>1. n \in Database
    BY <1>0, SingleFieldTypes
  <2>2. Commit(n)
    BY <1>3, Zenon DEF CheckpointJob
  <2> HIDE DEF pr
  <2>3. /\ n.files = db.files /\ n.expected = db.expected /\ n.audit = db.audit
        /\ n.changes = db.changes /\ n.requests = db.requests
        /\ n.seen = db.seen /\ n.items = db.items /\ n.status = db.status
        /\ n.params = db.params /\ n.revision = db.revision /\ Content(n) = Content(db)
    BY <1>0 DEF Database, Content
  <2> HIDE DEF n
  <2>4. EndedStays(db, n) /\ JobsHaveParams(n) /\ RevisionSteps(db, n) /\ CoverageIn(n)
    BY <1>0, <2>3 DEF EndedStays, JobsHaveParams, RevisionSteps, CoverageIn, HasRow
  <2> QED BY <1>0, <2>1, <2>2, <2>3, <2>4, QuietWrite, CommitKeepsHistory
<1>4. ASSUME NEW j \in Jobs, NEW s \in Ended, JobRunning(db, j),
             CommitRevised(JobFinished(db, j, s))
      PROVE  HistoryInv' /\ StepKeeps
  <2> DEFINE n == JobFinished(db, j, s)
  <2>0. s \in JobStatus
    BY DEF Ended, JobStatus
  <2>1. n \in Database
    BY <1>0, <2>0, JobFinishedType
  <2>3. /\ n.files = db.files /\ n.expected = db.expected /\ n.audit = db.audit
        /\ n.changes = db.changes /\ n.requests = db.requests
        /\ n.params = db.params /\ n.revision = db.revision
        /\ n.status = [db.status EXCEPT ![j] = s]
        /\ n.seen = [db.seen EXCEPT ![j] = {}] /\ n.items = [db.items EXCEPT ![j] = {}]
    BY <1>0, <2>0, JobFinishedFields
  <2>4. CommitRevised(n)
    BY <1>4
  <2> HIDE DEF n
  <2>5. EndedStays(db, n) /\ JobsHaveParams(n)
    BY <1>0, <1>00, <1>4, <2>3 DEF EndedStays, JobsHaveParams, JobRunning, Ended
  <2>6. CoverageIn(n)
    <3>1. RowsStay(db, n) BY <2>3 DEF RowsStay, HasRow
    <3> QED BY <1>0, <2>0, <2>3, <3>1, JobFinishedCoverage
  <2> QED BY <1>0, <2>1, <2>3, <2>4, <2>5, <2>6, QuietWrite, CommitRevisedKeepsHistory
<1>5. ASSUME NEW j \in Jobs, NEW t \in Times, JobRunning(db, j), NoNewerCheck(db, j, t),
             CommitRevised(JobFinished(ScanMissing(db, Uncovered(db, j), t), j, "complete"))
      PROVE  HistoryInv' /\ StepKeeps
  <2> DEFINE gone == Uncovered(db, j)
             m == ScanMissing(db, gone, t)
             n == JobFinished(m, j, "complete")
  <2>0. gone \in SUBSET Copies /\ "complete" \in JobStatus
    BY DEF Uncovered, JobStatus
  <2>1. m \in Database /\ n \in Database
    BY <1>0, <2>0, ScanMissingType, JobFinishedType
  <2>2. \A c \in gone : db.files[c].checkTime # None => db.files[c].checkTime <= t
    BY <1>5 DEF Uncovered, NoNewerCheck
  <2>3. MissingWrite(db, m, gone, "scan_missing")
    BY <1>0, <2>0, <2>2, MissingEffects DEF CheckKinds
  <2>4. CommitRevised(n)
    BY <1>5
  <2>5. /\ n.files = m.files /\ n.expected = m.expected /\ n.audit = m.audit
        /\ n.changes = m.changes /\ n.requests = m.requests
        /\ n.collections = m.collections /\ n.locations = m.locations
        /\ n.params = m.params /\ n.revision = m.revision
        /\ n.status = [m.status EXCEPT ![j] = "complete"]
        /\ n.seen = [m.seen EXCEPT ![j] = {}] /\ n.items = [m.items EXCEPT ![j] = {}]
    BY <2>0, <2>1, JobFinishedFields
  <2> HIDE DEF n, m
  <2>6. /\ n.requests = db.requests /\ n.params = db.params /\ n.revision = db.revision
        /\ n.status = [db.status EXCEPT ![j] = "complete"]
        /\ n.seen = [db.seen EXCEPT ![j] = {}] /\ n.items = [db.items EXCEPT ![j] = {}]
    BY <2>3, <2>5 DEF MissingWrite, SameFrame, SameCoverage
  <2>7. /\ TimesAdvance(db, n) /\ DamageKept(db, n) /\ NothingGained(db, n)
        /\ RowsStay(db, n)
    BY <2>3, <2>5 DEF MissingWrite, TimesAdvance, DamageKept, HealthOnlyLost,
                      NothingGained, Healthy, RowsStay, HasRow
  <2>8. EndedStays(db, n) /\ JobsHaveParams(n)
    BY <1>0, <1>00, <1>5, <2>6 DEF EndedStays, JobsHaveParams, JobRunning, Ended
  <2>9. MissingByScans(db, n)
    <3> SUFFICES ASSUME NEW c \in Copies, n.audit[c] # db.audit[c]
                 PROVE  /\ db.status[j] = "running" /\ n.status[j] = "complete"
                        /\ db.params[j].collection = c[1][1]
                        /\ db.params[j].location = c[2]
                        /\ c[1] \notin db.seen[j]
      BY DEF MissingByScans
    <3>1. c \in gone
      BY <2>3, <2>5 DEF MissingWrite, RowsOfKind
    <3> QED BY <1>00, <1>5, <2>6, <3>1 DEF Uncovered, JobRunning
  <2>10. CoverageIn(n)
    BY <1>0, <2>0, <2>6, <2>7, JobFinishedCoverage
  <2>11. Explained(n)
    BY <1>0, <2>3, <2>5 DEF MissingWrite, Explained
  <2>12. RequestsHaveRows(n)
    <3> SUFFICES ASSUME NEW k \in Keys, db.requests[k] # NoRequest
                 PROVE  HasRow(n, CopyOf(db.requests[k]))
      BY <2>6 DEF RequestsHaveRows
    <3>1. db.requests[k] \in Observation
      BY <1>0 DEF Database
    <3> QED BY <1>0, <2>7, <3>1, ObservationNames DEF RequestsHaveRows, RowsStay
  <2>13. GoodWrite(db, n)
    BY <2>7, <2>8, <2>9, <2>10, <2>11, <2>12 DEF GoodWrite
  <2> QED BY <2>1, <2>4, <2>6, <2>13, CommitRevisedKeepsHistory
<1>6. ASSUME NEW j \in Jobs, NEW complete \in BOOLEAN, NEW t \in Times,
             FinishScan(j, complete, t)
      PROVE  HistoryInv' /\ StepKeeps
  BY <1>4, <1>5, <1>6 DEF FinishScan, Ended
<1>7. ASSUME NEW j \in Jobs, NEW s \in {"complete", "partial", "cancelled"},
             FinishJob(j, s)
      PROVE  HistoryInv' /\ StepKeeps
  BY <1>4, <1>7 DEF FinishJob, Ended
<1> QED
  BY <1>1, <1>2, <1>3, <1>6, <1>7

\* mark_removed keeps the invariant.
LEMMA RemovalKeepsHistory ==
    ASSUME HistoryInv, CatalogInv', NEW selected \in SUBSET Objects,
           NEW target \in Locations, NEW t \in Times,
           RemoveSelected(selected, target, t)
    PROVE  HistoryInv' /\ StepKeeps
<1> DEFINE gone == Affected(db, selected, target)
           n == MarkedMissing(db, gone, t, "file_removed")
<1>0. /\ db \in Database /\ CoverageIn(db) /\ Explained(db) /\ RequestsHaveRows(db)
      /\ JobsHaveParams(db)
  BY DEF HistoryInv, CatalogInv, TypeOK, CoverageInScope, AuditExplainsCopies
<1>1. gone \in SUBSET Copies /\ "file_removed" \in CheckKinds
  BY DEF Affected, Copies, CheckKinds
<1>2. n \in Database
  BY <1>0, <1>1, MarkedMissingType
<1>3. MissingWrite(db, n, gone, "file_removed")
  <2>1. \A c \in gone : db.files[c].checkTime # None => db.files[c].checkTime <= t
    BY DEF RemoveSelected
  <2> QED BY <1>0, <1>1, <2>1, MissingEffects
<1>4. CommitRevised(n)
  BY DEF RemoveSelected
<1> HIDE DEF n, gone
<1>5. /\ TimesAdvance(db, n) /\ DamageKept(db, n) /\ NothingGained(db, n)
      /\ RowsStay(db, n) /\ Explained(n) /\ n.revision = db.revision
      /\ EndedStays(db, n) /\ JobsHaveParams(n)
  BY <1>0, <1>3 DEF MissingWrite, HealthOnlyLost, NothingGained, SameFrame, EndedStays,
                    JobsHaveParams
<1>6. MissingByScans(db, n)
  BY <1>3 DEF MissingByScans, MissingWrite, RowsOfKind
<1>7. CoverageIn(n)
  <2> SUFFICES ASSUME NEW k \in Jobs, NEW o \in db.seen[k] \cup db.items[k]
               PROVE  /\ db.status[k] = "running"
                      /\ o[1] = db.params[k].collection
                      /\ HasRow(n, <<o, db.params[k].location>>)
    BY <1>3 DEF CoverageIn, MissingWrite, SameFrame, SameCoverage
  <2>1. /\ db.status[k] = "running" /\ o[1] = db.params[k].collection
        /\ HasRow(db, <<o, db.params[k].location>>)
    BY <1>0 DEF CoverageIn
  <2>2. db.params[k].location \in Locations /\ o \in Objects
    BY <1>0, <2>1 DEF JobsHaveParams, JobParams, Database
  <2>3. <<o, db.params[k].location>> \in Copies
    BY <2>2 DEF Copies
  <2> QED BY <1>5, <2>1, <2>3 DEF RowsStay
<1>8. RequestsHaveRows(n)
  <2> SUFFICES ASSUME NEW k \in Keys, db.requests[k] # NoRequest
               PROVE  HasRow(n, CopyOf(db.requests[k]))
    BY <1>3 DEF RequestsHaveRows, MissingWrite, SameCoverage
  <2>1. db.requests[k] \in Observation
    BY <1>0 DEF Database
  <2> QED BY <1>0, <1>5, <2>1, ObservationNames DEF RequestsHaveRows, RowsStay
<1>9. GoodWrite(db, n)
  BY <1>5, <1>6, <1>7, <1>8 DEF GoodWrite
<1> QED BY <1>2, <1>4, <1>5, <1>9, CommitRevisedKeepsHistory

\* Retiring and reactivating a Collection or a Location keep the invariant.
LEMMA RegistryKeepsHistory ==
    ASSUME HistoryInv, CatalogInv', NEW s \in {"active", "retired"},
           \/ \E c \in Collections : SetCollectionStatus(c, s)
           \/ \E l \in Locations : SetLocationStatus(l, s)
    PROVE  HistoryInv' /\ StepKeeps
<1>0. /\ db \in Database /\ CoverageIn(db) /\ Explained(db) /\ RequestsHaveRows(db)
      /\ JobsHaveParams(db)
  BY DEF HistoryInv, CatalogInv, TypeOK, CoverageInScope, AuditExplainsCopies
<1>1. ASSUME NEW n \in Database, CommitRevised(n),
             n.files = db.files, n.expected = db.expected, n.audit = db.audit,
             n.changes = db.changes, n.requests = db.requests, n.seen = db.seen,
             n.items = db.items, n.status = db.status, n.params = db.params,
             n.revision = db.revision
      PROVE  HistoryInv' /\ StepKeeps
  <2>1. EndedStays(db, n) /\ JobsHaveParams(n) /\ CoverageIn(n)
    BY <1>0, <1>1 DEF EndedStays, JobsHaveParams, CoverageIn, HasRow
  <2> QED BY <1>0, <1>1, <2>1, QuietWrite, CommitRevisedKeepsHistory
<1>2. ASSUME NEW c \in Collections, SetCollectionStatus(c, s)
      PROVE  HistoryInv' /\ StepKeeps
  <2> DEFINE new == [db.collections EXCEPT ![c] = s]
             n == [db EXCEPT !.collections = new]
  <2>1. n \in Database
    BY <1>0, SingleFieldTypes
  <2>2. CommitRevised(n)
    BY <1>2, Zenon DEF SetCollectionStatus
  <2> HIDE DEF new
  <2> QED BY <1>0, <1>1, <2>1, <2>2 DEF Database
<1>3. ASSUME NEW l \in Locations, SetLocationStatus(l, s)
      PROVE  HistoryInv' /\ StepKeeps
  <2> DEFINE new == [db.locations EXCEPT ![l] = s]
             n == [db EXCEPT !.locations = new]
  <2>1. n \in Database
    BY <1>0, SingleFieldTypes
  <2>2. CommitRevised(n)
    BY <1>3, Zenon DEF SetLocationStatus
  <2> HIDE DEF new
  <2> QED BY <1>0, <1>1, <2>1, <2>2 DEF Database
<1> QED BY <1>2, <1>3

-----------------------------------------------------------------------------
(* Batches.                                                                *)

\* A running job of the right scope gains an object that has a row there.
LEMMA CoverageGrows ==
    ASSUME NEW d \in Database, NEW n, NEW ob \in Observation,
           CoverageIn(d), JobsHaveParams(d), RowsStay(d, n),
           n.status = d.status, n.params = d.params,
           n.seen = WithJobObject(d.seen, ob),
           n.items \in {d.items, WithJobObject(d.items, ob)},
           ObservationJobOK(d, ob), HasRow(n, CopyOf(ob))
    PROVE  CoverageIn(n)
<1> SUFFICES ASSUME NEW k \in Jobs, NEW o \in n.seen[k] \cup n.items[k]
             PROVE  /\ n.status[k] = "running"
                    /\ o[1] = n.params[k].collection
                    /\ HasRow(n, <<o, n.params[k].location>>)
  BY DEF CoverageIn
<1>1. \/ o \in d.seen[k] \cup d.items[k]
      \/ k = ob.job /\ o = ObjectOf(ob)
  BY DEF WithJobObject
<1>2. CASE o \in d.seen[k] \cup d.items[k]
  <2>1. /\ d.status[k] = "running" /\ o[1] = d.params[k].collection
        /\ HasRow(d, <<o, d.params[k].location>>)
    BY <1>2 DEF CoverageIn
  <2>2. d.params[k].location \in Locations /\ o \in Objects
    BY <1>2, <2>1 DEF JobsHaveParams, JobParams, Database
  <2>3. <<o, d.params[k].location>> \in Copies
    BY <2>2 DEF Copies
  <2> QED BY <2>1, <2>3 DEF RowsStay
<1>3. CASE k = ob.job /\ o = ObjectOf(ob)
  <2>1. ob.job # None
    BY <1>3, NoneIsNoValue
  <2>2. /\ d.status[k] = "running" /\ d.params[k].collection = ob.collection
        /\ d.params[k].location = ob.location
    BY <1>3, <2>1 DEF ObservationJobOK, JobRunning
  <2> QED BY <1>3, <2>2 DEF CopyOf, ObjectOf
<1> QED BY <1>1, <1>2, <1>3

\* Two writes in a row move no check back.
LEMMA TimesTransitive ==
    ASSUME NEW a \in Database, NEW b \in Database, NEW c \in Database,
           TimesAdvance(a, b), TimesAdvance(b, c)
    PROVE  TimesAdvance(a, c)
<1> SUFFICES ASSUME NEW x \in Copies, a.files[x].checkTime # None
             PROVE  /\ c.files[x].checkTime # None
                    /\ c.files[x].checkTime >= a.files[x].checkTime
  BY DEF TimesAdvance
<1>1. /\ a.files \in [Copies -> FileRow] /\ b.files \in [Copies -> FileRow]
      /\ c.files \in [Copies -> FileRow]
  BY DEF Database
<1>2. /\ b.files[x].checkTime # None /\ b.files[x].checkTime >= a.files[x].checkTime
      /\ c.files[x].checkTime # None /\ c.files[x].checkTime >= b.files[x].checkTime
  BY DEF TimesAdvance
<1>3. /\ a.files[x].checkTime \in Int /\ b.files[x].checkTime \in Int
      /\ c.files[x].checkTime \in Int
  BY <1>1, <1>2, BoundsAreNaturals DEF FileRow, Times
<1> QED BY <1>2, <1>3

\* An applied observation keeps the invariant.
LEMMA ObserveKeepsHistory ==
    ASSUME HistoryInv, CatalogInv', NEW ob \in Inputs, BatchObserve(ob)
    PROVE  HistoryInv' /\ StepKeeps
<1> DEFINE n == ObserveInTransaction(work, ob)
           r == [k \in Keys |-> IF k = ob.key THEN ob ELSE n.requests[k]]
<1>0. /\ db \in Database /\ work \in Database /\ EvidenceIsCurrent(work)
      /\ CoverageIn(db) /\ Explained(db) /\ RequestsHaveRows(db) /\ JobsHaveParams(db)
      /\ CoverageIn(work) /\ Explained(work) /\ RequestsHaveRows(work)
      /\ OpenBatch /\ SameFrame(db, work)
  BY DEF HistoryInv, CatalogInv, TypeOK, CoverageInScope, AuditExplainsCopies, OpenBatch,
         VerifiedIsCurrent
<1>1. n \in Database /\ work' \in Database
  BY <1>0, ObserveType DEF CatalogInv, TypeOK
<1>2. work' = [n EXCEPT !.requests = r]
  BY Zenon DEF BatchObserve
<1>3. db' = db /\ changed' = TRUE /\ ObservationAccepted(work, ob)
  BY DEF BatchObserve
<1>4. /\ TimesAdvance(work, n) /\ RowsStay(work, n) /\ HasRow(n, CopyOf(ob))
      /\ OnlyChecked(work, n) /\ DamageKept(work, n) /\ NothingGained(work, n)
      /\ Explained(n)
  BY <1>0, <1>3, ObserveEffects
<1>5. /\ SameFrame(work, n) /\ n.seen = WithJobObject(work.seen, ob)
      /\ n.items = WithJobObject(work.items, ob) /\ n.requests = work.requests
  BY <1>0, ObserveFrame, ObserveFields
<1> HIDE DEF n
<1>6. /\ work'.files = n.files /\ work'.expected = n.expected /\ work'.audit = n.audit
      /\ work'.changes = n.changes /\ work'.seen = n.seen /\ work'.items = n.items
      /\ work'.requests = r /\ SameFrame(n, work')
  <2> HIDE DEF r
  <2> QED BY <1>1, <1>2 DEF Database, SameFrame
<1>7. /\ TimesAdvance(work, work') /\ RowsStay(work, work') /\ HasRow(work', CopyOf(ob))
      /\ OnlyChecked(work, work') /\ DamageKept(work, work') /\ Explained(work')
  BY <1>4, <1>6 DEF TimesAdvance, RowsStay, HasRow, OnlyChecked, DamageKept, Explained
<1>8. NothingGained(work, work')
  BY <1>4, <1>6 DEF NothingGained, Healthy
<1>9. SameFrame(work, work') /\ SameFrame(db, work')
  BY <1>0, <1>5, <1>6 DEF SameFrame
<1>10. OpenBatch'
  <2>1. TimesAdvance(db, work')
    BY <1>0, <1>1, <1>7, TimesTransitive DEF OpenBatch
  <2>2. OnlyChecked(db, work')
    BY <1>0, <1>7 DEF OnlyChecked, OpenBatch
  <2>3. NothingGained(db, work')
    BY <1>0, <1>8 DEF NothingGained, OpenBatch, SameFrame, Retired
  <2> QED BY <1>3, <1>9, <2>1, <2>2, <2>3 DEF OpenBatch
<1>11. CoverageIn(work')
  <2>1. JobsHaveParams(work)
    BY <1>0 DEF JobsHaveParams, SameFrame
  <2> QED BY <1>0, <1>3, <1>5, <1>6, <1>7, <1>9, <2>1, CoverageGrows
          DEF Inputs, ObservationAccepted, SameFrame
<1>12. RequestsHaveRows(work')
  <2> SUFFICES ASSUME NEW k \in Keys, r[k] # NoRequest
               PROVE  HasRow(work', CopyOf(r[k]))
    BY <1>6 DEF RequestsHaveRows
  <2>1. CASE k = ob.key
    BY <1>7, <2>1
  <2>2. CASE k # ob.key
    <3>1. r[k] = work.requests[k]
      BY <1>5, <2>2
    <3>2. work.requests[k] \in Observation
      BY <1>0, <3>1 DEF Database
    <3> QED BY <1>0, <1>7, <3>1, <3>2, ObservationNames DEF RequestsHaveRows, RowsStay
  <2> QED BY <2>1, <2>2
<1>13. HistoryInv'
  BY <1>0, <1>3, <1>7, <1>10, <1>11, <1>12
     DEF HistoryInv, CoverageInScope, AuditExplainsCopies
<1>14. StepKeeps
  BY <1>0, <1>3, <1>7, NoWrite DEF StepKeeps
<1> QED BY <1>13, <1>14

\* Repeating a stored request keeps the invariant.
LEMMA ReplayKeepsHistory ==
    ASSUME HistoryInv, CatalogInv', NEW k \in Keys, work.requests[k] # NoRequest,
           BatchReplay(work.requests[k])
    PROVE  HistoryInv' /\ StepKeeps
<1> DEFINE ob == work.requests[k]
           w == WithJobObject(work.seen, ob)
<1>0. /\ db \in Database /\ work \in Database
      /\ CoverageIn(db) /\ Explained(db) /\ RequestsHaveRows(db) /\ JobsHaveParams(db)
      /\ CoverageIn(work) /\ Explained(work) /\ RequestsHaveRows(work)
      /\ OpenBatch /\ SameFrame(db, work)
  BY DEF HistoryInv, CatalogInv, TypeOK, CoverageInScope, AuditExplainsCopies, OpenBatch
<1>1. ob \in Observation
  BY <1>0 DEF Database
<1>2. work' = [work EXCEPT !.seen = w]
  BY Zenon DEF BatchReplay
<1>3. db' = db /\ changed' = changed /\ ObservationJobOK(work, ob)
  BY DEF BatchReplay
<1>4. /\ work'.files = work.files /\ work'.expected = work.expected
      /\ work'.audit = work.audit /\ work'.changes = work.changes
      /\ work'.seen = w /\ work'.items = work.items
      /\ work'.requests = work.requests /\ SameFrame(work, work')
      /\ Content(work') = Content(work)
  <2> HIDE DEF w
  <2> QED BY <1>0, <1>2 DEF Database, SameFrame, Content
<1>5. RowsStay(work, work') /\ HasRow(work', CopyOf(ob))
  BY <1>0, <1>4 DEF RowsStay, HasRow, RequestsHaveRows
<1>6. CoverageIn(work')
  <2>1. JobsHaveParams(work)
    BY <1>0 DEF JobsHaveParams, SameFrame
  <2> QED BY <1>0, <1>1, <1>3, <1>4, <1>5, <2>1, CoverageGrows DEF SameFrame
<1>7. Explained(work') /\ RequestsHaveRows(work')
  BY <1>0, <1>4 DEF Explained, RequestsHaveRows, HasRow
<1>8. OpenBatch'
  BY <1>0, <1>3, <1>4 DEF OpenBatch, SameFrame, TimesAdvance, OnlyChecked, NothingGained,
                          Healthy
<1>9. DamageKept(work, work')
  BY <1>4 DEF DamageKept
<1> QED BY <1>0, <1>3, <1>6, <1>7, <1>8, <1>9, NoWrite
        DEF HistoryInv, CoverageInScope, AuditExplainsCopies, StepKeeps

\* Opening, committing and rolling back a batch keep the invariant.
LEMMA BatchEndsKeepHistory ==
    ASSUME HistoryInv, CatalogInv', BatchBegin \/ BatchCommit \/ BatchRollback
    PROVE  HistoryInv' /\ StepKeeps
<1>0. /\ db \in Database /\ work \in Database
      /\ CoverageIn(db) /\ Explained(db) /\ RequestsHaveRows(db) /\ JobsHaveParams(db)
      /\ CoverageIn(work) /\ Explained(work) /\ RequestsHaveRows(work)
      /\ OpenBatch /\ SameFrame(db, work) /\ changed \in BOOLEAN
      /\ Idle => work = db
  BY DEF HistoryInv, CatalogInv, TypeOK, CoverageInScope, AuditExplainsCopies, OpenBatch
<1>1. CASE BatchBegin \/ BatchRollback
  <2>1. db' = db /\ work' = db
    BY <1>1 DEF BatchBegin, BatchRollback
  <2>2. OpenBatch'
    BY <1>0, <2>1, NoWrite DEF OpenBatch
  <2>3. WithinTransaction => work = db
    BY <1>0, <1>1 DEF BatchBegin, BatchRollback, WithinTransaction
  <2> QED BY <1>0, <2>1, <2>2, <2>3, NoWrite
          DEF HistoryInv, CoverageInScope, AuditExplainsCopies, StepKeeps
<1>2. CASE BatchCommit
  <2> DEFINE n == IF changed THEN Revised(work) ELSE work
  <2>1. db' = n /\ work' = n /\ changed' = FALSE /\ n \in Database
    BY <1>2 DEF BatchCommit, CatalogInv, TypeOK
  <2>2. /\ n.files = work.files /\ n.expected = work.expected /\ n.audit = work.audit
        /\ n.changes = work.changes /\ n.collections = work.collections
        /\ n.locations = work.locations /\ n.status = work.status
        /\ n.params = work.params /\ n.objects = work.objects
        /\ n.seen = work.seen /\ n.items = work.items /\ n.requests = work.requests
        /\ n.revision = IF changed THEN work.revision + 1 ELSE work.revision
    BY <1>0, RevisedFields
  <2> HIDE DEF n
  <2>3. CoverageIn(n) /\ Explained(n) /\ RequestsHaveRows(n) /\ JobsHaveParams(n)
    BY <1>0, <2>2 DEF CoverageIn, Explained, RequestsHaveRows, HasRow, JobsHaveParams,
                      SameFrame
  <2>4. OpenBatch'
    BY <2>1, NoWrite DEF OpenBatch
  <2>5. TimesAdvance(db, n) /\ NothingGained(db, n)
    BY <1>0, <2>2 DEF OpenBatch, TimesAdvance, NothingGained, Healthy
  <2>6. EndedStays(db, n) /\ MissingByScans(db, n)
    BY <1>0, <2>2 DEF OpenBatch, SameFrame, EndedStays, MissingByScans, OnlyChecked
  <2>7. RevisionSteps(db, n)
    <3>1. Content(n) = Content(work)
      BY <2>2 DEF Content
    <3> QED BY <1>0, <2>2, <3>1 DEF OpenBatch, SameFrame, RevisionSteps
  <2>8. ~WithinTransaction
    BY <1>2 DEF BatchCommit, WithinTransaction
  <2> QED BY <2>1, <2>3, <2>4, <2>5, <2>6, <2>7, <2>8
          DEF HistoryInv, CoverageInScope, AuditExplainsCopies, StepKeeps, DatabaseStep
<1> QED BY <1>1, <1>2

-----------------------------------------------------------------------------
(* The theorems.                                                           *)

\* A new catalog satisfies the invariant.
LEMMA InitHistory == Init => HistoryInv
<1> SUFFICES ASSUME Init PROVE HistoryInv
  OBVIOUS
<1>1. CatalogInv
  BY InitInv
<1>2. EmptyCatalog \in Database
  BY InitialType
<1>3. CoverageIn(EmptyCatalog) /\ RequestsHaveRows(EmptyCatalog)
      /\ JobsHaveParams(EmptyCatalog)
  BY DEF EmptyCatalog, CoverageIn, RequestsHaveRows, JobsHaveParams
<1>4. Explained(EmptyCatalog)
  BY DEF EmptyCatalog, Explained, NoFileRow, NoAuditRow, NoChangeRow
<1>5. OpenBatch
  BY <1>2, NoWrite DEF Init, OpenBatch
<1> QED BY <1>1, <1>3, <1>4, <1>5
        DEF Init, HistoryInv, CoverageInScope, AuditExplainsCopies

\* Every step of the catalog keeps the invariant and is a good one.
LEMMA NextKeepsHistory == HistoryInv /\ [Next]_vars => HistoryInv' /\ StepKeeps
<1> SUFFICES ASSUME HistoryInv, [Next]_vars PROVE HistoryInv' /\ StepKeeps
  OBVIOUS
<1>0. CatalogInv' /\ db \in Database /\ work \in Database /\ db.objects \subseteq Objects
  BY NextKeepsInv DEF HistoryInv, CatalogInv, TypeOK, Database
<1>1. ASSUME NEW p \in Paths, NEW cs, NEW l \in Locations, NEW t \in Times,
             RemovePath(p, cs, l, t)
      PROVE  HistoryInv' /\ StepKeeps
  BY <1>0, <1>1, RemovalKeepsHistory DEF RemovePath, PathSelection
<1>2. ASSUME NEW l \in Locations, NEW w, NEW others, NEW t \in Times,
             RemoveGroups(l, w, others, t)
      PROVE  HistoryInv' /\ StepKeeps
  BY <1>0, <1>2, RemovalKeepsHistory DEF RemoveGroups, GroupSelection
<1>3. CASE UNCHANGED vars
  <2>1. db' = db /\ work' = work /\ batch' = batch /\ changed' = changed
    BY <1>3 DEF vars
  <2>2. HistoryInv'
    BY <1>0, <2>1 DEF HistoryInv, CoverageInScope, AuditExplainsCopies, OpenBatch
  <2> QED BY <1>0, <2>1, <2>2, NoWrite DEF StepKeeps
<1> QED
  BY <1>0, <1>1, <1>2, <1>3, JobsKeepHistory, RegistryKeepsHistory, ObserveKeepsHistory,
     ReplayKeepsHistory, BatchEndsKeepHistory DEF Next

\* Every step of every behaviour is a good one.
LEMMA StepsKeep == Spec => [][StepKeeps]_vars
<1>1. HistoryInv /\ [Next]_vars => [StepKeeps]_vars
  BY NextKeepsHistory
<1> QED BY <1>1, InitHistory, NextKeepsHistory, PTL DEF Spec

\* finish_job, reset_scan_coverage, observe_batch: coverage rows belong to
\* running jobs and to copies of their scope, whoever replays what.
THEOREM CoverageStaysInScope == Spec => []CoverageInScope
<1>1. HistoryInv => CoverageInScope
  BY DEF HistoryInv
<1> QED BY <1>1, InitHistory, NextKeepsHistory, PTL DEF Spec

\* The newest history rows explain every copy and every expected checksum,
\* in the database and inside every transaction.
THEOREM HistoryExplainsCopies == Spec => []AuditExplainsCopies
<1>1. HistoryInv => AuditExplainsCopies
  BY DEF HistoryInv
<1> QED BY <1>1, InitHistory, NextKeepsHistory, PTL DEF Spec

\* observe_in_transaction and the removal and scan guards: the last check of
\* a copy never moves back, however the clocks of the writers are ordered.
THEOREM ChecksOnlyAdvance == Spec => ChecksNeverGoBack
<1>1. StepKeeps => \A c \in Copies :
          db.files[c].checkTime # None =>
              /\ db'.files[c].checkTime # None
              /\ db'.files[c].checkTime >= db.files[c].checkTime
  BY DEF StepKeeps, DatabaseStep, TimesAdvance
<1> QED BY <1>1, StepsKeep, PTL DEF ChecksNeverGoBack

\* upsert_file: only a check, a declared absence or an accepted change ends
\* damage; a sighting or a failed read never does.
THEOREM DamageIsSticky == Spec => DamageOutlivesSightings
<1>1. StepKeeps => (WithinTransaction => \A c \in Copies :
          (/\ work.files[c].integrity = "damaged"
           /\ work'.files[c].integrity # "damaged")
          => \/ work'.files[c].result \in {"ok", "missing"}
             \/ work'.expected[c[1]] # work.expected[c[1]])
  BY DEF StepKeeps, DamageKept
<1> QED BY <1>1, StepsKeep, PTL DEF DamageOutlivesSightings

\* Whatever was open when a Collection or Location was retired, it gains no
\* healthy copy.
THEOREM RetiredGainsNothing == Spec => RetiredScopeGainsNothing
<1>1. StepKeeps => \A c \in Copies :
          (/\ \/ db.collections[c[1][1]] = "retired"
              \/ db.locations[c[2]] = "retired"
           /\ Healthy(db', c))
          => Healthy(db, c)
  BY DEF StepKeeps, DatabaseStep, NothingGained, Retired
<1> QED BY <1>1, StepsKeep, PTL DEF RetiredScopeGainsNothing

\* bump_revision: the revision advances by one with everything a query can
\* return, and otherwise stays.
THEOREM RevisionIdentifiesContent == Spec => RevisionCoversContent
<1>1. StepKeeps => /\ Content(db') # Content(db) => db'.revision = db.revision + 1
                   /\ db'.revision \in {db.revision, db.revision + 1}
  BY DEF StepKeeps, DatabaseStep, RevisionSteps
<1> QED BY <1>1, StepsKeep, PTL DEF RevisionCoversContent

\* finish_catalog_scan: terminal jobs stay, and a scan_missing row is written
\* only by a scan of that scope that completes without having seen the copy.
THEOREM MissingNeedsACompleteScan == Spec => OnlyCompleteScansDeclareMissing
<1>1. StepKeeps =>
        /\ \A j \in Jobs :
             db.status[j] \in {"complete", "partial", "cancelled"} =>
                db'.status[j] = db.status[j] /\ db'.params[j] = db.params[j]
        /\ \A c \in Copies :
             (/\ db'.audit[c] # db.audit[c]
              /\ db'.audit[c].kind = "scan_missing")
             => \E j \in Jobs :
                   /\ db.status[j] = "running"
                   /\ db'.status[j] = "complete"
                   /\ db.params[j].collection = c[1][1]
                   /\ db.params[j].location = c[2]
                   /\ c[1] \notin db.seen[j]
  BY DEF StepKeeps, DatabaseStep, EndedStays, MissingByScans, Ended
<1> QED BY <1>1, StepsKeep, PTL DEF OnlyCompleteScansDeclareMissing

\* mark_removed with a positive group that does not list its target: every
\* object it declares missing there keeps a healthy copy in that group.
THEOREM ReplicaSurvivesRemoval == Spec => []RemovalKeepsAReplica
<1>1. TypeOK => RemovalKeepsAReplica
  <2> SUFFICES ASSUME TypeOK, NEW target \in Locations, NEW t \in Times,
                      NEW others \in SUBSET (Locations \ {target}) \ {{}}
               PROVE  LET group == [negated |-> FALSE, locations |-> others,
                                    within |-> None]
                          selected == GroupSelection(db, {group}, t)
                          after == MarkedMissing(db, Affected(db, selected, target), t,
                                                 "file_removed")
                      IN  \A c \in Affected(db, selected, target) :
                              \E l \in others : Healthy(after, <<c[1], l>>)
    BY DEF RemovalKeepsAReplica
  <2> DEFINE group == [negated |-> FALSE, locations |-> others, within |-> None]
             selected == GroupSelection(db, {group}, t)
             gone == Affected(db, selected, target)
             after == MarkedMissing(db, gone, t, "file_removed")
             files == [c \in Copies |-> IF c \in gone THEN MissingRow(db.files[c], t)
                                                     ELSE db.files[c]]
  <2> SUFFICES ASSUME NEW c \in gone
               PROVE  \E l \in others : Healthy(after, <<c[1], l>>)
    BY Zenon
  <2>1. db \in Database /\ db.objects \subseteq Objects
    BY DEF TypeOK, Database
  <2>2. c[1] \in selected /\ c[1] \in Objects
    BY <2>1 DEF Affected, GroupSelection
  <2>3. \A g \in {group} : GroupHolds(db, c[1], g, t)
    BY <2>2 DEF GroupSelection
  <2>4. GroupHolds(db, c[1], group, t)
    BY <2>3
  <2>5. PICK l \in others : Healthy(db, <<c[1], l>>)
    BY <2>4 DEF GroupHolds
  <2>6. <<c[1], l>> \in Copies /\ <<c[1], l>> \notin gone
    BY <2>2 DEF Copies, Affected
  <2>7. after.files = files /\ after.expected = db.expected
    <3> DEFINE audit == [x \in Copies |-> IF x \in gone
                                          THEN [kind |-> "file_removed", time |-> t,
                                                result |-> "missing",
                                                expected |-> db.expected[x[1]]]
                                          ELSE db.audit[x]]
    <3>1. after = [db EXCEPT !.files = files, !.audit = audit]
      BY Zenon DEF MarkedMissing
    <3> HIDE DEF after, files, audit
    <3> QED BY <2>1, <3>1 DEF Database
  <2>8. after.files[<<c[1], l>>] = db.files[<<c[1], l>>]
    BY <2>6, <2>7
  <2> HIDE DEF after, gone
  <2> QED BY <2>5, <2>7, <2>8 DEF Healthy
<1> QED BY <1>1, TypeCorrect, PTL

-----------------------------------------------------------------------------
(* What the transactions do to the columns the processes rely on.          *)

ScanPcs == {"walk", "flush", "finish"}
CopyPcs == {"copy", "place", "readback", "flushcopy"}
FlushPcs == {"flush", "flushcheck", "flushcopy"}
PagePcs == {"select", "check", "flushcheck"} \cup CopyPcs

\* A job that was begun stays begun and no ended one runs again.
JobsAge(d, n) ==
    \A j \in Jobs : d.status[j] # "none" =>
        /\ n.status[j] # "none"
        /\ n.status[j] = "running" => d.status[j] = "running"

\* The coverage of a job that runs before and after has not shrunk.
CoverageKept(d, n, j) ==
    d.status[j] = "running" /\ n.status[j] = "running" => d.seen[j] \subseteq n.seen[j]

ObservedKept(d, n, c) == n.files[c].observed \in {None, d.files[c].observed}

QuietStep(d, n) ==
    /\ JobsAge(d, n)
    /\ \A j \in Jobs : CoverageKept(d, n, j)
    /\ \A c \in Copies : ObservedKept(d, n, c)

\* What a process remembers.
ProcStates ==
    [pc: {"idle", "reset", "open", "walk", "flush", "finish", "select", "check",
          "flushcheck", "copy", "place", "readback", "flushcopy"},
     job: Jobs \cup {None},
     left: SUBSET Paths,
     frames: SUBSET {"root", "sub"},
     unread: SUBSET {"sub"},
     touched: SUBSET {"root", "sub"},
     clean: BOOLEAN,
     cursor: Nat,
     want: [Paths -> Hashes \cup {None}],
     item: Paths \cup {None},
     pend: Inputs \cup {NoObservation},
     absent: SUBSET Paths]

Places == Paths \X Locations

CliTypeOK ==
    /\ disk \in [Places -> Hashes \cup {None}]
    /\ held \in [Places -> SUBSET (Hashes \cup {None})]
    /\ now \in Times
    /\ edits \in Nat
    /\ runs \in Nat
    /\ proc \in [Procs -> ProcStates]

\* What a path holds is among what it ever held.
DiskIsHeld == \A pl \in Places : disk[pl] \in held[pl]

\* A process q is consistent with itself, and what it is about to record was
\* read at Target (h is `held`).
ProcGood(q, h) ==
    /\ q.pc = "idle" <=> q.job = None
    /\ q.pc \in FlushPcs <=> q.pend # NoObservation
    /\ q.pc \in PagePcs => q.job \in Verifies \cup Copiers
    /\ q.pc \in CopyPcs => \A p \in q.left : q.want[p] \in Hashes
    /\ q.pc \in {"place", "readback"} => q.item \in Paths /\ q.want[q.item] \in Hashes
    /\ q.pend # NoObservation =>
         /\ q.pend.collection = Coll
         /\ q.pend.location = Target
         /\ q.pend.job = q.job
         /\ q.pend.hash # None => q.pend.hash \in h[<<q.pend.path, Target>>]

ProcsGood == \A x \in Procs : ProcGood(proc[x], held)

CliInv ==
    /\ CatalogInv
    /\ Idle
    /\ CliTypeOK
    /\ DiskIsHeld
    /\ ProcsGood
    /\ RecordedBytesWereThere

\* A path that was there during the whole pass of q so far (f is `disk`) is
\* still to be read, about to be recorded, or in the coverage of q's job.
PassGood(q, f, d) ==
    /\ q.pc \in ScanPcs => \A p \in q.left : DirOf(p) \in q.frames
    /\ q.pc = "finish" => q.left = {} /\ q.unread = {}
    /\ q.pc \in ScanPcs => \A p \in Paths : f[<<p, Target>>] = None => p \in q.absent
    /\ q.pc # "idle" => d.status[q.job] # "none"
    /\ (q.pc \in ScanPcs /\ q.clean /\ d.status[q.job] = "running") =>
         \A p \in Paths \ q.absent :
            \/ p \in q.left
            \/ DirOf(p) \in q.unread
            \/ q.pc = "flush" /\ q.pend.path = p
            \/ Object(p) \in d.seen[q.job]

PassesGood == \A x \in Procs : PassGood(proc[x], disk, db)

JobsAreDistinct ==
    \A x, y \in Procs : x # y /\ proc[x].pc # "idle" => proc[x].job # proc[y].job

ScanInv == PassesGood /\ JobsAreDistinct

-----------------------------------------------------------------------------
(* Each transaction, by its effect on those columns.                       *)

\* Writing nothing is quiet.
LEMMA NothingWritten ==
    ASSUME CatalogInv, Idle, UNCHANGED vars
    PROVE  CatalogInv' /\ Idle' /\ QuietStep(db, db')
<1>1. CatalogInv' /\ Idle'
  BY DEF vars, CatalogInv, TypeOK, VerifiedIsCurrent, Idle
<1>2. db' = db
  BY DEF vars
<1> QED BY <1>1, <1>2 DEF QuietStep, JobsAge, CoverageKept, ObservedKept

\* A row after an upsert has its old observed checksum, none, or the one of
\* the observation.
LEMMA UpsertObserves ==
    ASSUME NEW row \in FileRow, NEW ob \in Inputs, NEW e \in Hashes \cup {None}
    PROVE  Upsert(row, ob, e).observed \in {None, row.observed, ob.hash}
<1>1. CASE ob.result = "metadata_unknown"
  <2>1. Upsert(row, ob, e) = UpsertUnknown(row)
    BY <1>1 DEF Upsert
  <2> QED BY <2>1 DEF UpsertUnknown, FileRow
<1>2. CASE ob.result = "metadata_present"
  <2>1. Upsert(row, ob, e) = UpsertPresent(row)
    BY <1>2 DEF Upsert
  <2> QED BY <2>1 DEF UpsertPresent, FileRow
<1>3. CASE ob.result \notin {"metadata_unknown", "metadata_present"}
  <2>1. Upsert(row, ob, e) = UpsertCheck(row, ob, e)
    BY <1>3 DEF Upsert
  <2> QED BY <2>1 DEF UpsertCheck
<1> QED BY <1>1, <1>2, <1>3

\* What observe_in_transaction does to a database, apart from the revision.
LEMMA ObserveWrites ==
    ASSUME NEW d \in Database, NEW ob \in Inputs
    PROVE  LET n == ObserveInTransaction(d, ob)
           IN  /\ n.status = d.status
               /\ \A j \in Jobs : d.seen[j] \subseteq n.seen[j]
               /\ ob.job \in Jobs => ObjectOf(ob) \in n.seen[ob.job]
               /\ \A c \in Copies : \/ ObservedKept(d, n, c)
                                    \/ c = CopyOf(ob) /\ n.files[c].observed = ob.hash
<1> DEFINE n == ObserveInTransaction(d, ob)
           base == FilesBeforeUpsert(d, ob)
           row == Upsert(base[CopyOf(ob)], ob, ExpectedAfter(d, ob))
<1>1. n.status = d.status /\ n.seen = WithJobObject(d.seen, ob)
  BY ObserveFrame DEF SameFrame
<1>2. /\ \A j \in Jobs : d.seen[j] \subseteq n.seen[j]
      /\ ob.job \in Jobs => ObjectOf(ob) \in n.seen[ob.job]
  BY <1>1 DEF WithJobObject
<1>3. n.files = [base EXCEPT ![CopyOf(ob)] = row]
  BY ObserveFields
<1>4. base \in [Copies -> FileRow] /\ CopyOf(ob) \in Copies
      /\ ExpectedAfter(d, ob) \in Hashes \cup {None} /\ d.files \in [Copies -> FileRow]
  BY BaseFilesType, ObservationNames, ExpectedType DEF Inputs, Database
<1>5. row.observed \in {None, base[CopyOf(ob)].observed, ob.hash}
  BY <1>4, UpsertObserves
<1>6. \A c \in Copies : base[c].observed = d.files[c].observed
  <2> SUFFICES ASSUME NEW c \in Copies
               PROVE  base[c].observed = d.files[c].observed
    OBVIOUS
  <2>1. d.files[c] \in FileRow
    BY <1>4
  <2>2. base[c] \in {d.files[c], Withdrawn(d.files[c])}
    BY DEF FilesBeforeUpsert
  <2>3. Withdrawn(d.files[c]).observed = d.files[c].observed
    BY <2>1 DEF Withdrawn, FileRow
  <2> QED BY <2>2, <2>3
<1>7. \A c \in Copies : n.files[c] = IF c = CopyOf(ob) THEN row ELSE base[c]
  BY <1>3, <1>4
<1>8. \A c \in Copies : \/ ObservedKept(d, n, c)
                        \/ c = CopyOf(ob) /\ n.files[c].observed = ob.hash
  <2> HIDE DEF n, row, base
  <2> QED BY <1>4, <1>5, <1>6, <1>7 DEF ObservedKept
<1> QED BY <1>1, <1>2, <1>8

\* A committed observation: coverage grows, and only the observed copy can get
\* another checksum, that of the observation.
LEMMA ObservationCommitted ==
    ASSUME CatalogInv, Idle, NEW ob \in Inputs,
           CommitRevised(ObserveInTransaction(db, ob))
    PROVE  /\ CatalogInv' /\ Idle'
           /\ JobsAge(db, db')
           /\ \A j \in Jobs : CoverageKept(db, db', j)
           /\ ob.job \in Jobs => ObjectOf(ob) \in db'.seen[ob.job]
           /\ \A c \in Copies : \/ ObservedKept(db, db', c)
                                \/ c = CopyOf(ob) /\ db'.files[c].observed = ob.hash
<1> DEFINE n == ObserveInTransaction(db, ob)
<1>0. db \in Database /\ EvidenceIsCurrent(db)
  BY DEF CatalogInv, TypeOK, VerifiedIsCurrent
<1>1. n \in Database /\ EvidenceIsCurrent(n) /\ n.revision = db.revision
  BY <1>0, ObserveType, ObserveEvidence, ObserveFields
<1>2. CatalogInv'
  BY <1>1, CommitRevisedKeepsInv
<1>3. Idle' /\ db' = Revised(n)
  BY DEF CommitRevised, Commit, Idle
<1>4. Revised(n).files = n.files /\ Revised(n).status = n.status /\ Revised(n).seen = n.seen
  BY <1>1 DEF Revised, Database
<1>5. /\ n.status = db.status
      /\ \A j \in Jobs : db.seen[j] \subseteq n.seen[j]
      /\ ob.job \in Jobs => ObjectOf(ob) \in n.seen[ob.job]
      /\ \A c \in Copies : \/ ObservedKept(db, n, c)
                           \/ c = CopyOf(ob) /\ n.files[c].observed = ob.hash
  BY <1>0, ObserveWrites
<1> HIDE DEF n
<1> QED BY <1>2, <1>3, <1>4, <1>5 DEF JobsAge, CoverageKept, ObservedKept

\* reset_scan_coverage forgets the coverage of its own job only.
LEMMA CoverageReset ==
    ASSUME CatalogInv, Idle, NEW j \in Jobs, ResetScanCoverage(j)
    PROVE  /\ CatalogInv' /\ Idle'
           /\ JobsAge(db, db')
           /\ \A k \in Jobs \ {j} : CoverageKept(db, db', k)
           /\ \A c \in Copies : ObservedKept(db, db', c)
<1> DEFINE s == [db.seen EXCEPT ![j] = {}]
<1>1. CatalogInv'
  BY JobsKeepInv
<1>2. db' = [db EXCEPT !.seen = s] /\ Idle'
  BY Zenon DEF ResetScanCoverage, Commit, Idle
<1>3. db \in Database
  BY DEF CatalogInv, TypeOK
<1>4. \A k \in Jobs \ {j} : s[k] = db.seen[k]
  BY <1>3 DEF Database
<1> HIDE DEF s
<1>5. db'.seen = s /\ db'.files = db.files /\ db'.status = db.status
  BY <1>2, <1>3 DEF Database
<1> QED BY <1>1, <1>2, <1>4, <1>5 DEF JobsAge, CoverageKept, ObservedKept

\* The beginning of a job, a checkpoint, the end of a job.
LEMMA JobWritesAreQuiet ==
    ASSUME CatalogInv, Idle, NEW j \in Jobs,
           \/ \E p \in JobParams : BeginJob(j, p)
           \/ CheckpointJob(j)
           \/ \E s \in {"complete", "partial", "cancelled"} : FinishJob(j, s)
    PROVE  CatalogInv' /\ Idle' /\ QuietStep(db, db')
<1>0. db \in Database /\ db.status \in [Jobs -> JobStatus]
      /\ db.seen \in [Jobs -> SUBSET Objects]
  BY DEF CatalogInv, TypeOK, Database
<1>1. CatalogInv'
  BY JobsKeepInv
<1>2. ASSUME NEW p \in JobParams, BeginJob(j, p)
      PROVE  Idle' /\ QuietStep(db, db')
  <2> DEFINE a == [db.status EXCEPT ![j] = "running"]
             b == [db.params EXCEPT ![j] = p]
             n == [db EXCEPT !.status = a, !.params = b]
  <2>1. db' = Revised(n) /\ Idle' /\ db.status[j] = "none"
    BY <1>2, Zenon DEF BeginJob, CommitRevised, Commit, Idle
  <2>2. \A k \in Jobs \ {j} : a[k] = db.status[k]
    BY <1>0
  <2> HIDE DEF a, b
  <2>3. db'.status = a /\ db'.seen = db.seen /\ db'.files = db.files
    BY <1>0, <2>1 DEF Revised, Database
  <2>4. \A k \in Jobs : db.status[k] # "none" => db'.status[k] = db.status[k]
    BY <2>1, <2>2, <2>3
  <2> QED BY <2>1, <2>3, <2>4 DEF QuietStep, JobsAge, CoverageKept, ObservedKept
<1>3. CASE CheckpointJob(j)
  <2> DEFINE a == [db.progress EXCEPT ![j] = "checkpoint"]
  <2>1. db' = [db EXCEPT !.progress = a] /\ Idle'
    BY <1>3, Zenon DEF CheckpointJob, Commit, Idle
  <2> HIDE DEF a
  <2>2. db'.status = db.status /\ db'.seen = db.seen /\ db'.files = db.files
    BY <1>0, <2>1 DEF Database
  <2> QED BY <1>1, <2>1, <2>2 DEF QuietStep, JobsAge, CoverageKept, ObservedKept
<1>4. ASSUME NEW s \in {"complete", "partial", "cancelled"}, FinishJob(j, s)
      PROVE  Idle' /\ QuietStep(db, db')
  <2> DEFINE n == JobFinished(db, j, s)
  <2>1. db' = Revised(n) /\ Idle'
    BY <1>4 DEF FinishJob, CommitRevised, Commit, Idle
  <2>0. s \in JobStatus
    BY DEF JobStatus
  <2>5. n \in Database
    BY <1>0, <2>0, JobFinishedType
  <2>2. /\ n.files = db.files /\ n.expected = db.expected /\ n.audit = db.audit
        /\ n.changes = db.changes /\ n.requests = db.requests
        /\ n.collections = db.collections /\ n.locations = db.locations
        /\ n.params = db.params /\ n.revision = db.revision
        /\ n.status = [db.status EXCEPT ![j] = s]
        /\ n.seen = [db.seen EXCEPT ![j] = {}]
        /\ n.items = [db.items EXCEPT ![j] = {}]
    <3>1. db \in Database /\ j \in Jobs
      BY <1>0
    <3> QED BY ONLY <2>0, <3>1, JobFinishedFields
  <2> HIDE DEF n
  <2>3. db'.files = n.files /\ db'.status = n.status /\ db'.seen = n.seen
    BY <2>1, <2>5 DEF Revised, Database
  <2>4. /\ \A k \in Jobs \ {j} : db'.status[k] = db.status[k] /\ db'.seen[k] = db.seen[k]
        /\ db'.status[j] = s /\ s \notin {"none", "running"}
    BY <1>0, <2>2, <2>3
  <2> QED BY <2>1, <2>2, <2>3, <2>4 DEF QuietStep, JobsAge, CoverageKept, ObservedKept
<1> QED BY <1>1, <1>2, <1>3, <1>4

\* The end of a scan is quiet too, and declares only uncovered copies missing,
\* and only when it is complete.
LEMMA ScanEndIsQuiet ==
    ASSUME CatalogInv, Idle, NEW j \in Jobs, NEW complete \in BOOLEAN,
           NEW t \in Times, FinishScan(j, complete, t)
    PROVE  /\ CatalogInv' /\ Idle' /\ QuietStep(db, db')
           /\ \A c \in Copies :
                 db'.files[c].presence # db.files[c].presence =>
                     complete /\ c[1] \notin db.seen[j]
<1>0. db \in Database /\ db.status \in [Jobs -> JobStatus]
      /\ db.seen \in [Jobs -> SUBSET Objects] /\ db.files \in [Copies -> FileRow]
  BY DEF CatalogInv, TypeOK, Database
<1> DEFINE gone == Uncovered(db, j)
           m == IF complete THEN ScanMissing(db, gone, t) ELSE db
           s == IF complete THEN "complete" ELSE "partial"
           n == JobFinished(m, j, s)
<1>1. CatalogInv'
  BY JobsKeepInv
<1>2. db' = Revised(n) /\ Idle'
  BY DEF FinishScan, CommitRevised, Commit, Idle
<1>3. gone \in SUBSET Copies /\ \A c \in gone : c[1] \notin db.seen[j]
  BY DEF Uncovered
<1>4. /\ m \in Database /\ m.status = db.status /\ m.seen = db.seen
      /\ \A c \in Copies : ObservedKept(db, m, c)
      /\ \A c \in Copies : m.files[c].presence # db.files[c].presence =>
                              complete /\ c[1] \notin db.seen[j]
  <2>1. CASE ~complete
    BY <1>0, <2>1 DEF ObservedKept
  <2>2. CASE complete
    <3> DEFINE k == MarkedMissing(db, gone, t, "scan_missing")
               f == [c \in Copies |-> IF c \in gone
                                      THEN MissingRow(db.files[c], t) ELSE db.files[c]]
               a == [c \in Copies |-> IF c \in gone
                                      THEN [kind |-> "scan_missing", time |-> t,
                                            result |-> "missing",
                                            expected |-> db.expected[c[1]]]
                                      ELSE db.audit[c]]
               g == [c \in Copies |-> IF c \in gone
                                      THEN [k.files[c] EXCEPT !.observed = None]
                                      ELSE k.files[c]]
    <3>1. k = [db EXCEPT !.files = f, !.audit = a]
      BY Zenon DEF MarkedMissing
    <3>2. m = [k EXCEPT !.files = g]
      BY <2>2, Zenon DEF ScanMissing
    <3>3. k \in Database /\ m \in Database
      BY <1>0, <1>3, <2>2, MarkedMissingType, ScanMissingType DEF CheckKinds
    <3>4. k.files = f /\ k.status = db.status /\ k.seen = db.seen
      <4> HIDE DEF k, f, a
      <4> QED BY <1>0, <3>1 DEF Database
    <3>5. m.files = g /\ m.status = k.status /\ m.seen = k.seen
      <4> HIDE DEF m, k, g
      <4> QED BY <3>2, <3>3 DEF Database
    <3>6. \A c \in gone : g[c].observed = None
      <4>1. \A c \in gone : k.files[c] \in FileRow
        BY <1>3, <3>3 DEF Database
      <4> QED BY <1>3, <4>1 DEF FileRow
    <3>7. \A c \in Copies \ gone : g[c] = db.files[c]
      BY <3>4
    <3> HIDE DEF m, k, g, f, a, gone
    <3> QED BY <1>3, <2>2, <3>3, <3>4, <3>5, <3>6, <3>7 DEF ObservedKept
  <2> QED BY <2>1, <2>2
<1>5. s \in JobStatus /\ s \notin {"none", "running"}
  BY DEF JobStatus
<1> HIDE DEF m, s, gone
<1>9. n \in Database
  BY <1>4, <1>5, JobFinishedType
<1>6. /\ n.files = m.files /\ n.expected = m.expected /\ n.audit = m.audit
      /\ n.changes = m.changes /\ n.requests = m.requests
      /\ n.collections = m.collections /\ n.locations = m.locations
      /\ n.params = m.params /\ n.revision = m.revision
      /\ n.status = [m.status EXCEPT ![j] = s]
      /\ n.seen = [m.seen EXCEPT ![j] = {}]
      /\ n.items = [m.items EXCEPT ![j] = {}]
  BY <1>4, <1>5, JobFinishedFields
<1> HIDE DEF n
<1>7. db'.files = n.files /\ db'.status = n.status /\ db'.seen = n.seen
  BY <1>2, <1>9 DEF Revised, Database
<1>8. /\ \A k \in Jobs \ {j} : db'.status[k] = db.status[k] /\ db'.seen[k] = db.seen[k]
      /\ db'.status[j] = s
  BY <1>0, <1>4, <1>6, <1>7
<1> QED
  BY <1>1, <1>2, <1>4, <1>5, <1>6, <1>7, <1>8
     DEF QuietStep, JobsAge, CoverageKept, ObservedKept

-----------------------------------------------------------------------------
(* The processes.                                                          *)

\* The names the model is built from.
LEMMA Names ==
    /\ Coll \in Collections
    /\ \A p \in Paths : Object(p) \in Objects
    /\ \A p \in Paths, l \in Locations : Copy(p, l) \in Copies /\ <<p, l>> \in Places
    /\ Source \in Locations /\ Target \in Locations /\ Source # Target
    /\ Scans \cup Verifies \cup Copiers \subseteq Jobs
    /\ None \notin Jobs /\ None \notin Hashes
    /\ Rank \in [Paths -> Nat \ {0}]
<1>1. Coll \in Collections
  BY SomethingToSurvey DEF Coll
<1>2. \A p \in Paths : Object(p) \in Objects
  BY <1>1 DEF Object, Objects
<1>3. \A p \in Paths, l \in Locations : Copy(p, l) \in Copies /\ <<p, l>> \in Places
  BY <1>2 DEF Copy, Copies, Places
<1> QED BY <1>1, <1>2, <1>3, CliAssumption, NoneIsNoValue

\* A process that does nothing has nothing to break.
LEMMA IdleIsGood ==
    /\ IdleProc \in ProcStates /\ IdleProc.pc = "idle"
    /\ \A h : ProcGood(IdleProc, h)
    /\ \A f, d : PassGood(IdleProc, f, d)
<1>1. IdleProc \in ProcStates /\ IdleProc.pc = "idle" /\ IdleProc.job = None
      /\ IdleProc.pend = NoObservation
  BY DEF IdleProc, ProcStates
<1>2. \A h : ProcGood(IdleProc, h)
  BY <1>1 DEF ProcGood, FlushPcs, PagePcs, CopyPcs
<1>3. \A f, d : PassGood(IdleProc, f, d)
  BY <1>1 DEF PassGood, ScanPcs
<1> QED BY <1>1, <1>2, <1>3

\* An observation has other fields than the empty one.
LEMMA InputIsObservation ==
    ASSUME NEW ob \in Inputs
    PROVE  ob # NoObservation
<1>1. ob \in Observation
  BY DEF Inputs
<1>2. ob.result \in ResultKinds /\ "path" \in DOMAIN ob
  BY <1>1 DEF Observation
<1>3. DOMAIN NoObservation = {"result"}
  BY DEF NoObservation
<1> QED BY <1>2, <1>3

\* What a process has read stays good while `held` grows.
LEMMA GoodGrows ==
    ASSUME NEW q \in ProcStates, NEW h, NEW g, ProcGood(q, h),
           \A pl \in Places : h[pl] \subseteq g[pl]
    PROVE  ProcGood(q, g)
<1>1. q.pend # NoObservation => q.pend.path \in Paths
  BY DEF ProcStates, Inputs, Observation
<1>2. q.pend # NoObservation => <<q.pend.path, Target>> \in Places
  BY <1>1, Names
<1> QED BY <1>2 DEF ProcGood

\* A pass stays good while jobs age and its coverage is kept.
LEMMA PassStays ==
    ASSUME NEW q \in ProcStates, NEW f, NEW d, NEW n, PassGood(q, f, d),
           q.pc # "idle" => q.job \in Jobs,
           JobsAge(d, n), q.pc # "idle" => CoverageKept(d, n, q.job)
    PROVE  PassGood(q, f, n)
<1>1. CASE q.pc = "idle"
  BY <1>1 DEF PassGood, ScanPcs
<1>2. CASE q.pc # "idle"
  <2>1. /\ n.status[q.job] # "none"
        /\ n.status[q.job] = "running" => d.status[q.job] = "running"
                                          /\ d.seen[q.job] \subseteq n.seen[q.job]
    BY <1>2 DEF PassGood, JobsAge, CoverageKept
  <2> QED BY <2>1 DEF PassGood
<1> QED BY <1>1, <1>2

\* Recorded checksums were held, as long as transactions only keep or drop
\* them and `held` grows.
LEMMA RecordedKept ==
    ASSUME CliInv, \A c \in Copies : ObservedKept(db, db', c),
           \A pl \in Places : held[pl] \subseteq held'[pl]
    PROVE  RecordedBytesWereThere'
<1> SUFFICES ASSUME NEW p \in Paths, NEW l \in {Source, Target},
                    db'.files[Copy(p, l)].observed # None
             PROVE  db'.files[Copy(p, l)].observed \in held'[<<p, l>>]
  BY DEF RecordedBytesWereThere, Copy, Object, Coll
<1>1. Copy(p, l) \in Copies /\ <<p, l>> \in Places
  BY Names
<1>2. db.files[Copy(p, l)].observed = db'.files[Copy(p, l)].observed
  BY <1>1 DEF ObservedKept
<1>3. db.files[Copy(p, l)].observed \in held[<<p, l>>]
  BY <1>2 DEF CliInv, RecordedBytesWereThere
<1> QED BY <1>1, <1>2, <1>3

\* What a step has to keep.
Keeps == CliInv' /\ (OneRunner /\ ScanInv => ScanInv')

\* A step of process x that leaves the files alone, makes it r, and whose
\* transaction respects the coverage of every other job.
LEMMA ProcMoves ==
    ASSUME CliInv, NEW x \in Procs, NEW r \in ProcStates,
           proc' = [proc EXCEPT ![x] = r], ProcGood(r, held),
           UNCHANGED <<disk, now, edits, held>>, runs' \in Nat,
           CatalogInv', Idle', RecordedBytesWereThere', JobsAge(db, db'),
           \A j \in Jobs : j # proc[x].job => CoverageKept(db, db', j),
           \/ r.pc = "idle"
           \/ proc[x].pc # "idle" /\ r.job = proc[x].job
           \/ OneRunner => \A y \in Procs : proc[y].job # r.job,
           ScanInv => PassGood(r, disk, db')
    PROVE  Keeps
<1>1. /\ proc \in [Procs -> ProcStates] /\ CliTypeOK /\ DiskIsHeld /\ ProcsGood
      /\ None \notin Jobs
  BY Names DEF CliInv, CliTypeOK
<1>2. proc' \in [Procs -> ProcStates] /\ proc'[x] = r
      /\ \A y \in Procs \ {x} : proc'[y] = proc[y]
  BY <1>1
<1>3. CliTypeOK'
  BY <1>1, <1>2 DEF CliTypeOK
<1>4. DiskIsHeld'
  BY <1>1 DEF DiskIsHeld
<1>5. ProcsGood'
  BY <1>1, <1>2 DEF ProcsGood
<1>6. CliInv'
  BY <1>3, <1>4, <1>5 DEF CliInv
<1>7. ASSUME OneRunner, ScanInv PROVE ScanInv'
  <2>1. \A y \in Procs : /\ proc[y].pc = "idle" <=> proc[y].job = None
                         /\ proc[y].job \in Jobs \cup {None}
                         /\ proc[y].pc # "idle" => proc[y].job \in Jobs
    BY <1>1 DEF ProcsGood, ProcGood, ProcStates
  <2>2. r.pc = "idle" <=> r.job = None
    BY DEF ProcGood
  <2>3. JobsAreDistinct'
    <3> SUFFICES ASSUME NEW y \in Procs, NEW z \in Procs, y # z, proc'[y].pc # "idle"
                 PROVE  proc'[y].job # proc'[z].job
      BY DEF JobsAreDistinct
    <3>1. CASE y = x
      BY <1>2, <1>7, <2>1, <2>2, <3>1 DEF ScanInv, JobsAreDistinct
    <3>2. CASE z = x
      BY <1>2, <1>7, <2>1, <2>2, <3>2 DEF ScanInv, JobsAreDistinct
    <3>3. CASE y # x /\ z # x
      BY <1>2, <1>7, <3>3 DEF ScanInv, JobsAreDistinct
    <3> QED BY <3>1, <3>2, <3>3
  <2>4. PassesGood'
    <3> SUFFICES ASSUME NEW y \in Procs
                 PROVE  PassGood(proc'[y], disk', db')
      BY DEF PassesGood
    <3>1. CASE y = x
      BY <1>2, <1>7, <3>1
    <3>2. CASE y # x
      <4>1. PassGood(proc[y], disk, db) /\ proc[y] \in ProcStates
        BY <1>1, <1>7 DEF ScanInv, PassesGood
      <4>2. proc[y].pc # "idle" => proc[y].job # proc[x].job
        BY <1>7, <3>2 DEF ScanInv, JobsAreDistinct
      <4>3. PassGood(proc[y], disk, db')
        BY <2>1, <4>1, <4>2, PassStays
      <4> QED BY <1>2, <3>2, <4>3
    <3> QED BY <3>1, <3>2
  <2> QED BY <2>3, <2>4 DEF ScanInv
<1> QED BY <1>6, <1>7 DEF Keeps

\* The same for a quiet transaction.
LEMMA QuietMove ==
    ASSUME CliInv, NEW x \in Procs, NEW r \in ProcStates,
           proc' = [proc EXCEPT ![x] = r], ProcGood(r, held),
           UNCHANGED <<disk, now, edits, held>>, runs' \in Nat,
           CatalogInv', Idle', QuietStep(db, db'),
           \/ r.pc = "idle"
           \/ proc[x].pc # "idle" /\ r.job = proc[x].job
           \/ OneRunner => \A y \in Procs : proc[y].job # r.job,
           ScanInv => PassGood(r, disk, db')
    PROVE  Keeps
<1>1. RecordedBytesWereThere'
  <2>1. \A pl \in Places : held[pl] \subseteq held'[pl]
    OBVIOUS
  <2> QED BY <2>1, RecordedKept DEF QuietStep
<1> QED BY <1>1, ProcMoves DEF QuietStep

\* A process that ends, after a quiet transaction.
LEMMA QuietExit ==
    ASSUME CliInv, NEW x \in Procs, Exit(x), WorldUntouched,
           CatalogInv', Idle', QuietStep(db, db')
    PROVE  Keeps
<1>1. proc' = [proc EXCEPT ![x] = IdleProc]
  BY DEF Exit
<1>2. runs' \in Nat /\ UNCHANGED <<disk, now, edits, held>>
  BY DEF WorldUntouched, CliInv, CliTypeOK
<1> QED BY <1>1, <1>2, IdleIsGood, QuietMove

\* A step in which a process only reads: the catalog stays as it is.
LEMMA ReadMove ==
    ASSUME CliInv, NEW x \in Procs, NEW r \in ProcStates,
           proc' = [proc EXCEPT ![x] = r], ProcGood(r, held), WorldUntouched,
           UNCHANGED vars,
           r.pc = "idle" \/ (proc[x].pc # "idle" /\ r.job = proc[x].job),
           ScanInv => PassGood(r, disk, db)
    PROVE  Keeps
<1>1. CatalogInv' /\ Idle' /\ QuietStep(db, db')
  BY NothingWritten DEF CliInv
<1>2. runs' \in Nat /\ UNCHANGED <<disk, now, edits, held>> /\ db' = db
  BY DEF WorldUntouched, CliInv, CliTypeOK, vars
<1> QED BY <1>1, <1>2, QuietMove

-----------------------------------------------------------------------------
(* One lemma per action.                                                   *)

\* What the invariant says of the process that moves.
LEMMA Mover ==
    ASSUME CliInv, NEW x \in Procs
    PROVE  /\ proc \in [Procs -> ProcStates]
           /\ proc[x] \in ProcStates
           /\ ProcGood(proc[x], held)
           /\ ScanInv => PassGood(proc[x], disk, db)
BY DEF CliInv, CliTypeOK, ProcsGood, ScanInv, PassesGood

\* begin_catalog_job: the process takes a job that runs from now on, one that
\* nobody works on when OneRunner.
LEMMA StartKeeps ==
    ASSUME CliInv, NEW x \in Procs, NEW j \in Scans \cup Verifies \cup Copiers, Start(x, j)
    PROVE  Keeps
<1> DEFINE r == [IdleProc EXCEPT !.pc = IF j \in Scans THEN "reset" ELSE "select",
                                 !.job = j]
<1>1. j \in Jobs /\ j # None
  BY Names
<1>2. proc' = [proc EXCEPT ![x] = r]
  BY DEF Start
<1>3. /\ r \in ProcStates /\ r.pc = IF j \in Scans THEN "reset" ELSE "select"
      /\ r.job = j /\ r.pend = NoObservation
  BY <1>1 DEF IdleProc, ProcStates
<1>4. ProcGood(r, held)
  BY <1>1, <1>3 DEF ProcGood, FlushPcs, PagePcs, CopyPcs
<1>5. CatalogInv' /\ Idle' /\ QuietStep(db, db') /\ db'.status[j] = "running"
  <2>1. CASE BeginJob(j, ParamsOf(j))
    <3>1. ParamsOf(j) \in JobParams
      BY CliAssumption, Names DEF ParamsOf, JobParams, Kind
    <3>2. db'.status[j] = "running"
      <4> DEFINE a == [db.status EXCEPT ![j] = "running"]
                 b == [db.params EXCEPT ![j] = ParamsOf(j)]
                 n == [db EXCEPT !.status = a, !.params = b]
      <4>1. db' = Revised(n)
        BY <2>1, Zenon DEF BeginJob, CommitRevised, Commit
      <4>2. db \in Database /\ a[j] = "running"
        BY <1>1 DEF CliInv, CatalogInv, TypeOK, Database
      <4> HIDE DEF a, b
      <4>3. db'.status = a
        BY <4>1, <4>2 DEF Revised, Database
      <4> QED BY <4>2, <4>3
    <3> QED BY <1>1, <2>1, <3>1, <3>2, JobWritesAreQuiet DEF CliInv
  <2>2. CASE JobRunning(db, j) /\ UNCHANGED vars
    BY <2>2, NothingWritten DEF CliInv, JobRunning, vars
  <2> QED BY <2>1, <2>2 DEF Start
<1>6. OneRunner => \A y \in Procs : proc[y].job # r.job
  BY <1>3 DEF Start
<1>7. PassGood(r, disk, db')
  BY <1>3, <1>5 DEF PassGood, ScanPcs
<1>8. runs' \in Nat /\ UNCHANGED <<disk, now, edits, held>>
  BY DEF Start, CliInv, CliTypeOK
<1> HIDE DEF r
<1> QED BY <1>2, <1>3, <1>4, <1>5, <1>6, <1>7, <1>8, QuietMove

\* A killed process.
LEMMA CrashKeeps ==
    ASSUME CliInv, NEW x \in Procs, Crash(x)
    PROVE  Keeps
BY NothingWritten, QuietExit DEF Crash, CliInv

\* A pause checkpoints a job that still runs.
LEMMA PauseKeeps ==
    ASSUME CliInv, NEW x \in Procs, Pause(x)
    PROVE  Keeps
<1>1. CASE CheckpointJob(proc[x].job)
  <2>1. proc[x].job \in Jobs
    BY Mover DEF Pause, ProcGood, ProcStates
  <2> QED BY <1>1, <2>1, JobWritesAreQuiet, QuietExit DEF Pause, CliInv
<1>2. CASE UNCHANGED vars
  BY <1>2, NothingWritten, QuietExit DEF Pause, CliInv
<1> QED BY <1>1, <1>2 DEF Pause

\* reset_scan_coverage: only the resetting process can work on that job, and
\* its pass has not begun.
LEMMA ResetKeeps ==
    ASSUME CliInv, NEW x \in Procs, ResetScan(x)
    PROVE  Keeps
<1> DEFINE q == proc[x]
           j == proc[x].job
           r == [q EXCEPT !.pc = "open"]
<1>1. q \in ProcStates /\ ProcGood(q, held) /\ (ScanInv => PassGood(q, disk, db))
  BY Mover
<1>2. q.pc = "reset" /\ j \in Jobs
  BY <1>1 DEF ResetScan, ProcGood, ProcStates
<1>3. CASE ~JobRunning(db, j)
  BY <1>3, NothingWritten, QuietExit DEF ResetScan, CliInv
<1>4. CASE JobRunning(db, j)
  <2>1. /\ CatalogInv' /\ Idle' /\ JobsAge(db, db')
        /\ \A k \in Jobs \ {j} : CoverageKept(db, db', k)
        /\ \A c \in Copies : ObservedKept(db, db', c)
    BY <1>2, <1>4, CoverageReset DEF ResetScan, CliInv
  <2>2. proc' = [proc EXCEPT ![x] = r]
    BY <1>4 DEF ResetScan
  <2>3. r \in ProcStates /\ r.pc = "open" /\ r.job = q.job /\ r.pend = q.pend
    BY <1>1 DEF ProcStates
  <2>4. UNCHANGED <<disk, now, edits, held>> /\ runs' \in Nat
    BY DEF ResetScan, WorldUntouched, CliInv, CliTypeOK
  <2>5. RecordedBytesWereThere'
    BY <2>1, <2>4, RecordedKept
  <2> HIDE DEF q, r
  <2>6. ProcGood(r, held)
    BY <1>1, <1>2, <2>3 DEF ProcGood, FlushPcs, PagePcs, CopyPcs
  <2>7. ScanInv => PassGood(r, disk, db')
    BY <1>1, <1>2, <2>1, <2>3 DEF PassGood, ScanPcs, JobsAge, q
  <2> QED BY <1>2, <2>1, <2>2, <2>3, <2>4, <2>5, <2>6, <2>7, ProcMoves DEF q
<1> QED BY <1>3, <1>4

\* The root's entries are listed: what is not there is absent, and the
\* subdirectory is still to come.
LEMMA OpenRootKeeps ==
    ASSUME CliInv, NEW x \in Procs, OpenRoot(x)
    PROVE  Keeps
<1> DEFINE q == proc[x]
           e == EntriesOf("root")
           a == {p \in Paths : disk[<<p, Target>>] = None}
           r == [q EXCEPT !.pc = "walk", !.frames = {"root"}, !.unread = {"sub"},
                          !.left = e, !.absent = a]
<1>1. q \in ProcStates /\ ProcGood(q, held) /\ (ScanInv => PassGood(q, disk, db))
      /\ proc \in [Procs -> ProcStates]
  BY Mover
<1>2. q.pc = "open" /\ UNCHANGED vars /\ WorldUntouched
  BY DEF OpenRoot
<1>3. proc' = [proc EXCEPT ![x] = r]
  BY <1>1 DEF OpenRoot, ProcStates
<1>4. /\ e \in SUBSET Paths /\ a \in SUBSET Paths
      /\ \A p \in e : DirOf(p) = "root"
      /\ \A p \in Paths \ a : p \in e \/ DirOf(p) = "sub"
  BY DEF EntriesOf, DirOf
<1> HIDE DEF e
<1>5. /\ r \in ProcStates /\ r.pc = "walk" /\ r.job = q.job /\ r.pend = q.pend
      /\ r.frames = {"root"} /\ r.unread = {"sub"} /\ r.left = e /\ r.absent = a
  BY <1>1, <1>4 DEF ProcStates
<1> HIDE DEF q, r
<1>6. ProcGood(r, held)
  BY <1>1, <1>2, <1>5 DEF ProcGood, FlushPcs, PagePcs, CopyPcs
<1>7. ScanInv => PassGood(r, disk, db)
  <2>1. \A p \in r.left : DirOf(p) \in r.frames
    BY <1>4, <1>5
  <2>2. \A p \in Paths : disk[<<p, Target>>] = None => p \in r.absent
    BY <1>5
  <2>3. \A p \in Paths \ r.absent : p \in r.left \/ DirOf(p) \in r.unread
    <3> HIDE DEF a
    <3> QED BY <1>4, <1>5
  <2>4. ScanInv => db.status[r.job] # "none"
    BY <1>1, <1>2, <1>5 DEF PassGood
  <2> QED BY <1>5, <2>1, <2>2, <2>3, <2>4 DEF PassGood
<1> QED BY <1>2, <1>3, <1>5, <1>6, <1>7, ReadMove DEF q

\* The subdirectory is listed, or the pass is not clean any more.
LEMMA OpenSubKeeps ==
    ASSUME CliInv, NEW x \in Procs, OpenSub(x)
    PROVE  Keeps
<1> DEFINE q == proc[x]
           e == EntriesOf("sub")
           r == [q EXCEPT !.unread = {}, !.frames = q.frames \cup {"sub"},
                          !.left = q.left \cup e]
           s == [q EXCEPT !.unread = {}, !.clean = FALSE]
<1>1. q \in ProcStates /\ ProcGood(q, held) /\ (ScanInv => PassGood(q, disk, db))
      /\ proc \in [Procs -> ProcStates]
  BY Mover
<1>2. q.pc = "walk" /\ UNCHANGED vars /\ WorldUntouched /\ q.unread = {"sub"}
  BY <1>1 DEF OpenSub, ProcStates
<1>3. proc' = [proc EXCEPT ![x] = r] \/ proc' = [proc EXCEPT ![x] = s]
  BY <1>1 DEF OpenSub, ProcStates
<1>4. /\ e \in SUBSET Paths
      /\ \A p \in e : DirOf(p) = "sub"
      /\ \A p \in Paths : disk[<<p, Target>>] = None \/ p \in e \/ DirOf(p) # "sub"
  BY DEF EntriesOf, DirOf
<1> HIDE DEF e
<1>5. /\ r \in ProcStates /\ r.pc = q.pc /\ r.job = q.job /\ r.pend = q.pend
      /\ r.frames = q.frames \cup {"sub"} /\ r.unread = {} /\ r.left = q.left \cup e
      /\ r.absent = q.absent /\ r.clean = q.clean
  BY <1>1, <1>4 DEF ProcStates
<1>6. /\ s \in ProcStates /\ s.pc = q.pc /\ s.job = q.job /\ s.pend = q.pend
      /\ s.frames = q.frames /\ s.unread = {} /\ s.left = q.left
      /\ s.absent = q.absent /\ s.clean = FALSE
  BY <1>1 DEF ProcStates
<1> HIDE DEF q, r, s
<1>7. ProcGood(r, held) /\ ProcGood(s, held)
  BY <1>1, <1>2, <1>5, <1>6 DEF ProcGood, FlushPcs, PagePcs, CopyPcs
<1>8. ASSUME ScanInv PROVE PassGood(r, disk, db)
  <2>0. PassGood(q, disk, db) /\ q.pc \in ScanPcs
    BY <1>1, <1>2, <1>8 DEF ScanPcs
  <2>1. \A p \in r.left : DirOf(p) \in r.frames
    BY <1>4, <1>5, <2>0 DEF PassGood
  <2>2. \A p \in Paths : disk[<<p, Target>>] = None => p \in r.absent
    BY <1>5, <2>0 DEF PassGood
  <2>3. \A p \in Paths \ r.absent : DirOf(p) \in q.unread => p \in r.left
    <3> SUFFICES ASSUME NEW p \in Paths, p \notin r.absent, DirOf(p) \in q.unread
                 PROVE  p \in r.left
      OBVIOUS
    <3>1. disk[<<p, Target>>] # None
      BY <2>2
    <3>2. DirOf(p) = "sub"
      BY <1>2
    <3>3. p \in e
      BY <1>4, <3>1, <3>2
    <3> QED BY <1>5, <3>3
  <2> QED BY <1>2, <1>5, <2>0, <2>1, <2>2, <2>3 DEF PassGood
<1>9. ScanInv => PassGood(s, disk, db)
  BY <1>1, <1>2, <1>6 DEF PassGood, ScanPcs
<1> QED BY <1>2, <1>3, <1>5, <1>6, <1>7, <1>8, <1>9, ReadMove DEF q

\* An observation of l is an input of the catalog, stamped with the clock.
LEMMA ObserveIsInput ==
    ASSUME CliInv, NEW p \in Paths, NEW l \in Locations, NEW j \in Jobs \cup {None},
           NEW result \in {"checksum", "read_error", "missing"},
           NEW hash \in Hashes \cup {None}, hash # None <=> result = "checksum"
    PROVE  LET ob == Observe(p, l, result, hash, j)
           IN  /\ ob \in Inputs /\ ob # NoObservation
               /\ ob.collection = Coll /\ ob.path = p /\ ob.location = l
               /\ ob.job = j /\ ob.hash = hash
<1> DEFINE ob == Observe(p, l, result, hash, j)
<1>1. now \in Times /\ Coll \in Collections
  BY Names DEF CliInv, CliTypeOK
<1>2. ob \in Observation
  BY <1>1 DEF Observe, Observation, ResultKinds
<1>3. ob \in Inputs
  BY <1>2 DEF Inputs, Observe
<1>4. ob # NoObservation
  BY <1>3, InputIsObservation
<1> QED BY <1>3, <1>4 DEF Observe

\* What is on disk at Target has been held there.
LEMMA TargetIsHeld ==
    ASSUME CliInv, NEW p \in Paths, NEW l \in Locations
    PROVE  /\ disk[<<p, l>>] \in Hashes \cup {None}
           /\ disk[<<p, l>>] \in held[<<p, l>>]
BY Names DEF CliInv, CliTypeOK, DiskIsHeld

\* An entry that was there is about to be recorded; one that is gone was absent.
LEMMA ReadEntryKeeps ==
    ASSUME CliInv, NEW x \in Procs, NEW p \in Paths,
           NEW found \in {"checksum", "read_error", "missing", "error"},
           ReadEntry(x, p, found)
    PROVE  Keeps
<1> DEFINE q == proc[x]
           hash == IF found = "checksum" THEN disk[<<p, Target>>] ELSE None
           ob == Observe(p, Target, found, hash, q.job)
           left == q.left \ {p}
           clean == q.clean /\ found \notin {"read_error", "error"}
           w == [q EXCEPT !.left = left, !.clean = clean]
           r == [w EXCEPT !.pc = "flush", !.pend = ob]
<1>1. q \in ProcStates /\ ProcGood(q, held) /\ (ScanInv => PassGood(q, disk, db))
  BY Mover
<1>2. /\ q.pc = "walk" /\ p \in q.left /\ UNCHANGED vars /\ WorldUntouched
      /\ disk[<<p, Target>>] = None <=> found \in {"missing", "error"}
  BY DEF ReadEntry
<1>3. proc' = [proc EXCEPT ![x] = IF found = "error" THEN w ELSE r]
  BY Zenon DEF ReadEntry
<1>4. left \in SUBSET Paths /\ clean \in BOOLEAN /\ q.job \in Jobs
      /\ q.pend = NoObservation
  BY <1>1, <1>2 DEF ProcStates, ProcGood, FlushPcs
<1>5. hash \in Hashes \cup {None} /\ (hash # None <=> found = "checksum")
      /\ (hash # None => hash \in held[<<p, Target>>])
  BY <1>2, TargetIsHeld, Names
<1>6. found # "error" =>
         /\ ob \in Inputs /\ ob # NoObservation
         /\ ob.collection = Coll /\ ob.path = p /\ ob.location = Target
         /\ ob.job = q.job /\ ob.hash = hash
  <2> SUFFICES ASSUME found # "error"
               PROVE  /\ ob \in Inputs /\ ob # NoObservation
                      /\ ob.collection = Coll /\ ob.path = p /\ ob.location = Target
                      /\ ob.job = q.job /\ ob.hash = hash
    OBVIOUS
  <2>1. found \in {"checksum", "read_error", "missing"} /\ Target \in Locations
    BY Names
  <2> HIDE DEF hash, q
  <2> QED BY <1>4, <1>5, <2>1, ObserveIsInput
<1>7. left = q.left \ {p} /\ (clean => q.clean)
  OBVIOUS
<1> HIDE DEF hash, ob, left, clean
<1>8. /\ w \in ProcStates /\ w.pc = "walk" /\ w.job = q.job /\ w.pend = q.pend
      /\ w.frames = q.frames /\ w.unread = q.unread /\ w.left = left
      /\ w.absent = q.absent /\ w.clean = clean
  BY <1>1, <1>2, <1>4 DEF ProcStates
<1> HIDE DEF q, w
<1>9. found # "error" =>
        /\ r \in ProcStates /\ r.pc = "flush" /\ r.job = q.job /\ r.pend = ob
        /\ r.frames = q.frames /\ r.unread = q.unread /\ r.left = left
        /\ r.absent = q.absent /\ r.clean = clean
  BY <1>6, <1>8 DEF ProcStates
<1> HIDE DEF r
<1>10. CASE found = "error"
  <2>1. ProcGood(w, held)
    BY <1>1, <1>2, <1>4, <1>8 DEF ProcGood, FlushPcs, PagePcs, CopyPcs
  <2>2. ASSUME ScanInv PROVE PassGood(w, disk, db)
    <3>1. PassGood(q, disk, db) /\ q.pc \in ScanPcs /\ q.pc # "flush"
      BY <1>1, <1>2, <2>2 DEF ScanPcs
    <3>2. p \in q.absent
      BY <1>2, <1>10, <3>1 DEF PassGood
    <3> QED BY <1>2, <1>7, <1>8, <3>1, <3>2 DEF PassGood
  <2> QED BY <1>2, <1>3, <1>8, <1>10, <2>1, <2>2, ReadMove DEF q
<1>11. CASE found # "error"
  <2>1. ProcGood(r, held)
    BY <1>1, <1>2, <1>4, <1>5, <1>6, <1>9, <1>11 DEF ProcGood, FlushPcs, PagePcs, CopyPcs
  <2>2. ASSUME ScanInv PROVE PassGood(r, disk, db)
    <3>1. PassGood(q, disk, db) /\ q.pc \in ScanPcs /\ q.pc # "flush"
      BY <1>1, <1>2, <2>2 DEF ScanPcs
    <3>2. r.pend.path = p
      BY <1>6, <1>9, <1>11
    <3> QED BY <1>2, <1>7, <1>9, <1>11, <3>1, <3>2 DEF PassGood
  <2> QED BY <1>2, <1>3, <1>9, <1>11, <2>1, <2>2, ReadMove DEF q
<1> QED BY <1>10, <1>11

\* flush_inventory and its kin: the pending observation is committed and its
\* Object is covered from now on, or the process ends.
LEMMA FlushKeeps ==
    ASSUME CliInv, NEW x \in Procs, NEW next, Flush(x, next),
           \/ proc[x].pc = "flush" /\ next = "walk"
           \/ proc[x].pc = "flushcheck" /\ next \in {"select", "check"}
           \/ proc[x].pc = "flushcopy" /\ next \in {"select", "copy"}
    PROVE  Keeps
<1> DEFINE q == proc[x]
           ob == q.pend
           r == [q EXCEPT !.pc = next, !.pend = NoObservation]
<1>1. q \in ProcStates /\ ProcGood(q, held) /\ (ScanInv => PassGood(q, disk, db))
      /\ proc \in [Procs -> ProcStates]
  BY Mover
<1>2. CASE ~ObservationAccepted(db, ob)
  BY <1>2, NothingWritten, QuietExit DEF Flush, CliInv
<1>3. CASE ObservationAccepted(db, ob)
  <2>1. /\ CommitRevised(ObserveInTransaction(db, ob)) /\ WorldUntouched
        /\ ob # NoObservation
        /\ proc' = [proc EXCEPT ![x] = r]
    BY <1>1, <1>3 DEF Flush, ProcStates
  <2>2. ob \in Inputs /\ q.job \in Jobs /\ ob.job = q.job /\ ob.location = Target
        /\ ob.collection = Coll /\ ob.path \in Paths
        /\ (ob.hash # None => ob.hash \in held[<<ob.path, Target>>])
    BY <1>1, <2>1 DEF ProcStates, ProcGood, Inputs, Observation, FlushPcs
  <2>3. /\ CatalogInv' /\ Idle' /\ JobsAge(db, db')
        /\ \A j \in Jobs : CoverageKept(db, db', j)
        /\ ObjectOf(ob) \in db'.seen[ob.job]
        /\ \A c \in Copies : \/ ObservedKept(db, db', c)
                             \/ c = CopyOf(ob) /\ db'.files[c].observed = ob.hash
    <3> HIDE DEF q
    <3> QED BY <2>1, <2>2, ObservationCommitted DEF CliInv
  <2>4. /\ r \in ProcStates /\ r.pc = next /\ r.job = q.job /\ r.pend = NoObservation
        /\ r.frames = q.frames /\ r.unread = q.unread /\ r.left = q.left
        /\ r.absent = q.absent /\ r.clean = q.clean /\ r.want = q.want
    BY <1>1 DEF ProcStates
  <2>5. UNCHANGED <<disk, now, edits, held>> /\ runs' \in Nat
    BY <2>1 DEF WorldUntouched, CliInv, CliTypeOK
  <2>6. CopyOf(ob) = Copy(ob.path, Target) /\ ObjectOf(ob) = Object(ob.path)
    BY <2>2 DEF CopyOf, ObjectOf, Copy, Object
  <2>7. RecordedBytesWereThere'
    <3> SUFFICES ASSUME NEW p \in Paths, NEW l \in {Source, Target},
                        db'.files[Copy(p, l)].observed # None
                 PROVE  db'.files[Copy(p, l)].observed \in held[<<p, l>>]
      BY <2>5 DEF RecordedBytesWereThere, Copy, Object, Coll
    <3>1. Copy(p, l) \in Copies
      BY Names
    <3>2. CASE ObservedKept(db, db', Copy(p, l))
      BY <3>2 DEF ObservedKept, CliInv, RecordedBytesWereThere
    <3>3. CASE Copy(p, l) = CopyOf(ob) /\ db'.files[Copy(p, l)].observed = ob.hash
      <4>1. p = ob.path /\ l = Target
        BY <2>6, <3>3 DEF Copy, Object
      <4> QED BY <2>2, <3>3, <4>1
    <3> QED BY <2>3, <3>1, <3>2, <3>3
  <2> HIDE DEF r, ob
  <2>8. ProcGood(r, held)
    BY <1>1, <2>4 DEF ProcGood, FlushPcs, PagePcs, CopyPcs
  <2>9. ASSUME ScanInv PROVE PassGood(r, disk, db')
    <3>1. PassGood(q, disk, db)
      BY <1>1, <2>9
    <3>2. PassGood(q, disk, db')
      BY <1>1, <2>2, <2>3, <3>1, PassStays
    <3>3. CASE q.pc = "flush" /\ next = "walk"
      <4>1. q.pend.path = ob.path
        BY DEF ob
      <4>2. Object(q.pend.path) \in db'.seen[q.job]
        BY <2>2, <2>3, <2>6, <4>1
      <4> HIDE DEF q
      <4> QED BY <2>4, <3>2, <3>3, <4>2 DEF PassGood, ScanPcs
    <3>4. CASE next \notin ScanPcs
      BY <2>2, <2>4, <3>2, <3>4 DEF PassGood, ScanPcs
    <3> QED BY <3>3, <3>4 DEF ScanPcs
  <2> QED BY <1>1, <2>1, <2>2, <2>3, <2>4, <2>5, <2>7, <2>8, <2>9, ProcMoves
<1> QED BY <1>2, <1>3

\* A frame is popped only when its entries are read; the last one when nothing
\* is left.
LEMMA PopFrameKeeps ==
    ASSUME CliInv, NEW x \in Procs, NEW dir \in {"root", "sub"}, PopFrame(x, dir)
    PROVE  Keeps
<1> DEFINE q == proc[x]
           frames == q.frames \ {dir}
           clean == q.clean /\ dir \notin q.touched
           pc == IF dir = "root" THEN "finish" ELSE "walk"
           r == [q EXCEPT !.frames = frames, !.clean = clean, !.pc = pc]
<1>1. q \in ProcStates /\ ProcGood(q, held) /\ (ScanInv => PassGood(q, disk, db))
      /\ proc \in [Procs -> ProcStates]
  BY Mover
<1>2. /\ q.pc = "walk" /\ UNCHANGED vars /\ WorldUntouched
      /\ \A p \in q.left : DirOf(p) # dir
      /\ dir = "root" => q.frames = {"root"} /\ q.unread = {}
  BY DEF PopFrame, Exhausted
<1>3. proc' = [proc EXCEPT ![x] = r]
  BY <1>1 DEF PopFrame, ProcStates
<1>4. /\ frames \in SUBSET {"root", "sub"} /\ clean \in BOOLEAN
      /\ pc \in {"finish", "walk"} /\ (pc = "finish" => dir = "root") /\ (clean => q.clean)
  BY <1>1 DEF ProcStates
<1>5. frames = q.frames \ {dir}
  OBVIOUS
<1> HIDE DEF frames, clean, pc
<1>6. /\ r \in ProcStates /\ r.pc = pc /\ r.job = q.job /\ r.pend = q.pend
      /\ r.frames = frames /\ r.unread = q.unread /\ r.left = q.left
      /\ r.absent = q.absent /\ r.clean = clean
  BY <1>1, <1>4 DEF ProcStates
<1> HIDE DEF q, r
<1>7. ProcGood(r, held)
  BY <1>1, <1>2, <1>4, <1>6 DEF ProcGood, FlushPcs, PagePcs, CopyPcs
<1>8. ASSUME ScanInv PROVE PassGood(r, disk, db)
  <2>1. PassGood(q, disk, db) /\ q.pc \in ScanPcs /\ q.pc # "flush" /\ r.pc \in ScanPcs
        /\ r.pc # "flush"
    BY <1>1, <1>2, <1>4, <1>6, <1>8 DEF ScanPcs
  <2>2. \A p \in r.left : DirOf(p) \in r.frames
    BY <1>2, <1>5, <1>6, <2>1 DEF PassGood
  <2>3. r.pc = "finish" => r.left = {} /\ r.unread = {}
    BY <1>2, <1>4, <1>5, <1>6, <2>2
  <2>4. \A p \in Paths : disk[<<p, Target>>] = None => p \in r.absent
    BY <1>6, <2>1 DEF PassGood
  <2>5. q.pc # "idle" /\ db.status[r.job] # "none"
    BY <1>2, <1>6, <2>1 DEF PassGood
  <2>6. (r.clean /\ db.status[r.job] = "running") =>
           \A p \in Paths \ r.absent : \/ p \in r.left
                                       \/ DirOf(p) \in r.unread
                                       \/ Object(p) \in db.seen[r.job]
    BY <1>4, <1>6, <2>1 DEF PassGood
  <2> QED BY <2>1, <2>2, <2>3, <2>4, <2>5, <2>6 DEF PassGood
<1> QED BY <1>2, <1>3, <1>4, <1>6, <1>7, <1>8, ReadMove DEF q

\* finish_catalog_scan, or the job is not running any more.
LEMMA FinishInventoryKeeps ==
    ASSUME CliInv, NEW x \in Procs, FinishInventory(x)
    PROVE  Keeps
<1>1. proc[x].job \in Jobs /\ proc[x].clean \in BOOLEAN /\ now \in Times
  BY Mover DEF FinishInventory, ProcGood, ProcStates, CliInv, CliTypeOK
<1>2. CASE FinishScan(proc[x].job, proc[x].clean, now)
  BY <1>1, <1>2, ScanEndIsQuiet, QuietExit DEF FinishInventory, CliInv
<1>3. CASE UNCHANGED vars
  BY <1>3, NothingWritten, QuietExit DEF FinishInventory, CliInv
<1> QED BY <1>2, <1>3 DEF FinishInventory

\* A healthy copy has an expected checksum, so a page of `copy` wants one.
LEMMA SelectKeeps ==
    ASSUME CliInv, NEW x \in Procs, Select(x)
    PROVE  Keeps
<1> DEFINE q == proc[x]
           j == q.job
           rows == IF j \in Verifies THEN Due(x) ELSE Wanted(x)
           first == {p \in rows : \A o \in rows : Rank[p] <= Rank[o]}
           left == IF j \in Verifies THEN first ELSE rows
           want == [p \in Paths |-> IF p \in rows /\ j \in Copiers
                                    THEN db.expected[Object(p)] ELSE None]
           pc == IF j \in Verifies THEN "check" ELSE "copy"
           r == [q EXCEPT !.left = left, !.want = want, !.pc = pc]
<1>1. q \in ProcStates /\ ProcGood(q, held) /\ (ScanInv => PassGood(q, disk, db))
      /\ proc \in [Procs -> ProcStates]
  BY Mover
<1>2. q.pc = "select" /\ WorldUntouched /\ j \in Jobs /\ j \in Verifies \cup Copiers
  BY <1>1 DEF Select, ProcGood, ProcStates, PagePcs
<1>3. CASE rows = {}
  <2>1. CASE FinishJob(j, "complete")
    BY <1>2, <1>3, <2>1, JobWritesAreQuiet, QuietExit DEF Select, CliInv
  <2>2. CASE UNCHANGED vars
    BY <1>2, <1>3, <2>2, NothingWritten, QuietExit DEF Select, CliInv
  <2> QED BY <1>3, <2>1, <2>2 DEF Select
<1>4. CASE rows # {}
  <2>1. proc' = [proc EXCEPT ![x] = r] /\ UNCHANGED vars
    <3>1. /\ proc' = [proc EXCEPT ![x].left = left, ![x].want = want, ![x].pc = pc]
          /\ UNCHANGED vars
      BY <1>4, Zenon DEF Select
    <3> HIDE DEF left, want, pc
    <3> QED BY <1>1, <3>1 DEF ProcStates
  <2>2. rows \in SUBSET Paths /\ left \in SUBSET Paths
    BY DEF Due, Wanted
  <2>3. \A p \in Paths : db.expected[Object(p)] \in Hashes \cup {None}
    BY Names DEF CliInv, CatalogInv, TypeOK, Database
  <2>4. want \in [Paths -> Hashes \cup {None}]
    <3> HIDE DEF rows, j
    <3> QED BY <2>3
  <2>5. pc \in {"check", "copy"} /\ (pc = "copy" => j \notin Verifies)
    OBVIOUS
  <2>6. pc = "copy" => \A p \in left : want[p] \in Hashes
    <3> SUFFICES ASSUME pc = "copy", NEW p \in left
                 PROVE  want[p] \in Hashes
      OBVIOUS
    <3>1. j \notin Verifies /\ j \in Copiers /\ p \in Wanted(x) /\ p \in Paths
      BY <1>2, <2>2, <2>5
    <3>2. want[p] = db.expected[Object(p)]
      BY <3>1
    <3>3. Copy(p, Source) \in Copies /\ Copy(p, Source)[1] = Object(p)
      BY <3>1, Names DEF Copy
    <3>4. db.files[Copy(p, Source)].integrity = "verified"
      BY <3>1 DEF Wanted, Healthy
    <3>5. EvidenceIsCurrent(db)
      BY DEF CliInv, CatalogInv, VerifiedIsCurrent
    <3>6. db.expected[Object(p)] # None
      BY <3>3, <3>4, <3>5 DEF EvidenceIsCurrent
    <3> QED BY <2>3, <3>1, <3>2, <3>6
  <2> HIDE DEF left, want, pc, rows
  <2>7. /\ r \in ProcStates /\ r.pc = pc /\ r.job = q.job /\ r.pend = q.pend
        /\ r.left = left /\ r.want = want
    BY <1>1, <2>2, <2>4, <2>5 DEF ProcStates
  <2> HIDE DEF r
  <2>8. ProcGood(r, held)
    BY <1>1, <1>2, <2>5, <2>6, <2>7 DEF ProcGood, FlushPcs, PagePcs, CopyPcs
  <2>9. ScanInv => PassGood(r, disk, db)
    BY <1>1, <1>2, <2>5, <2>7 DEF PassGood, ScanPcs
  <2> QED BY <1>2, <2>1, <2>5, <2>7, <2>8, <2>9, ReadMove
<1> QED BY <1>3, <1>4

\* `verify` read its row at Target.
LEMMA VerifyEntryKeeps ==
    ASSUME CliInv, NEW x \in Procs, NEW p \in Paths,
           NEW found \in {"checksum", "read_error", "missing"}, VerifyEntry(x, p, found)
    PROVE  Keeps
<1> DEFINE q == proc[x]
           hash == IF found = "checksum" THEN disk[<<p, Target>>] ELSE None
           ob == Observe(p, Target, found, hash, q.job)
           left == q.left \ {p}
           r == [q EXCEPT !.pc = "flushcheck", !.left = left, !.cursor = Rank[p], !.pend = ob]
<1>1. q \in ProcStates /\ ProcGood(q, held) /\ (ScanInv => PassGood(q, disk, db))
      /\ proc \in [Procs -> ProcStates]
  BY Mover
<1>2. /\ q.pc = "check" /\ UNCHANGED vars /\ WorldUntouched
      /\ disk[<<p, Target>>] = None <=> found = "missing"
  BY DEF VerifyEntry
<1>3. proc' = [proc EXCEPT ![x] = r]
  <2>1. proc' = [proc EXCEPT ![x].pc = "flushcheck", ![x].left = left,
                             ![x].cursor = Rank[p], ![x].pend = ob]
    BY Zenon DEF VerifyEntry
  <2> HIDE DEF left, ob
  <2> QED BY <1>1, <2>1 DEF ProcStates
<1>4. left \in SUBSET Paths /\ q.job \in Jobs /\ Rank[p] \in Nat /\ Target \in Locations
  BY <1>1, <1>2, Names DEF ProcStates, ProcGood
<1>5. hash \in Hashes \cup {None} /\ (hash # None <=> found = "checksum")
      /\ (hash # None => hash \in held[<<p, Target>>])
  BY <1>2, TargetIsHeld, Names
<1>6. /\ ob \in Inputs /\ ob # NoObservation
      /\ ob.collection = Coll /\ ob.path = p /\ ob.location = Target
      /\ ob.job = q.job /\ ob.hash = hash
  <2> HIDE DEF hash, q
  <2> QED BY <1>4, <1>5, ObserveIsInput
<1> HIDE DEF hash, ob, left
<1>7. /\ r \in ProcStates /\ r.pc = "flushcheck" /\ r.job = q.job /\ r.pend = ob
  BY <1>1, <1>4, <1>6 DEF ProcStates
<1> HIDE DEF q, r
<1>8. ProcGood(r, held)
  BY <1>1, <1>2, <1>4, <1>5, <1>6, <1>7 DEF ProcGood, FlushPcs, PagePcs, CopyPcs
<1>9. ScanInv => PassGood(r, disk, db)
  BY <1>1, <1>2, <1>7 DEF PassGood, ScanPcs
<1> QED BY <1>2, <1>3, <1>7, <1>8, <1>9, ReadMove DEF q

\* copy_verified_no_replace: the wanted bytes were read at Target, are about to
\* be placed there, or the process ends.
LEMMA CopyEntryKeeps ==
    ASSUME CliInv, NEW x \in Procs, NEW p \in Paths, CopyEntry(x, p)
    PROVE  Keeps
<1> DEFINE q == proc[x]
           there == disk[<<p, Target>>]
           want == q.want[p]
           ob == Observe(p, Target, "checksum", want, q.job)
           left == q.left \ {p}
           w == [q EXCEPT !.left = left, !.cursor = Rank[p]]
           r == [w EXCEPT !.pc = "flushcopy", !.pend = ob]
           s == [w EXCEPT !.pc = "place", !.item = p]
<1>1. q \in ProcStates /\ ProcGood(q, held) /\ (ScanInv => PassGood(q, disk, db))
      /\ proc \in [Procs -> ProcStates]
  BY Mover
<1>2. q.pc = "copy" /\ p \in q.left /\ UNCHANGED vars /\ WorldUntouched
  BY DEF CopyEntry, NextRow
<1>3. proc' = [proc EXCEPT ![x] =
                 IF there = want THEN r
                 ELSE IF there = None /\ disk[<<p, Source>>] = want THEN s
                 ELSE IdleProc]
  BY Zenon DEF CopyEntry
<1>4. left \in SUBSET Paths /\ q.job \in Jobs /\ Rank[p] \in Nat /\ Target \in Locations
      /\ want \in Hashes /\ want # None /\ q.pend = NoObservation
      /\ q.job \in Verifies \cup Copiers /\ q.job # None
  BY <1>1, <1>2, Names DEF ProcStates, ProcGood, PagePcs, CopyPcs, FlushPcs
<1>5. \A o \in left : q.want[o] \in Hashes
  BY <1>1, <1>2 DEF ProcGood, CopyPcs
<1>6. /\ ob \in Inputs /\ ob # NoObservation
      /\ ob.collection = Coll /\ ob.path = p /\ ob.location = Target
      /\ ob.job = q.job /\ ob.hash = want
  <2> HIDE DEF want, q
  <2> QED BY <1>4, ObserveIsInput
<1>7. there = want => want \in held[<<p, Target>>]
  BY <1>4, TargetIsHeld
<1>8. want = q.want[p]
  OBVIOUS
<1> HIDE DEF ob, left, there, want
<1>9. /\ w \in ProcStates /\ w.pc = "copy" /\ w.job = q.job /\ w.pend = q.pend
      /\ w.left = left /\ w.want = q.want
  BY <1>1, <1>2, <1>4 DEF ProcStates
<1> HIDE DEF q, w
<1>10. /\ r \in ProcStates /\ r.pc = "flushcopy" /\ r.job = q.job /\ r.pend = ob
       /\ r.left = left /\ r.want = q.want
  BY <1>6, <1>9 DEF ProcStates
<1>11. /\ s \in ProcStates /\ s.pc = "place" /\ s.job = q.job /\ s.pend = q.pend
       /\ s.left = left /\ s.want = q.want /\ s.item = p
  BY <1>9 DEF ProcStates
<1> HIDE DEF r, s
<1>12. CASE there = want
  <2>1. ProcGood(r, held)
    BY <1>4, <1>5, <1>6, <1>7, <1>10, <1>12 DEF ProcGood, FlushPcs, PagePcs, CopyPcs
  <2>2. ScanInv => PassGood(r, disk, db)
    BY <1>1, <1>2, <1>10 DEF PassGood, ScanPcs
  <2> QED BY <1>2, <1>3, <1>10, <1>12, <2>1, <2>2, ReadMove DEF q
<1>13. CASE there # want /\ there = None /\ disk[<<p, Source>>] = want
  <2>1. ProcGood(s, held)
    BY <1>4, <1>5, <1>8, <1>11 DEF ProcGood, FlushPcs, PagePcs, CopyPcs
  <2>2. ScanInv => PassGood(s, disk, db)
    BY <1>1, <1>2, <1>11 DEF PassGood, ScanPcs
  <2> QED BY <1>2, <1>3, <1>11, <1>13, <2>1, <2>2, ReadMove DEF q
<1>14. CASE there # want /\ ~(there = None /\ disk[<<p, Source>>] = want)
  BY <1>2, <1>3, <1>14, NothingWritten, QuietExit DEF Exit, CliInv
<1> QED BY <1>12, <1>13, <1>14

\* The placed file was read back at Target.
LEMMA ReadBackKeeps ==
    ASSUME CliInv, NEW x \in Procs, ReadBack(x)
    PROVE  Keeps
<1> DEFINE q == proc[x]
           p == q.item
           want == q.want[p]
           ob == Observe(p, Target, "checksum", want, q.job)
           r == [q EXCEPT !.pc = "flushcopy", !.item = None, !.pend = ob]
<1>1. q \in ProcStates /\ ProcGood(q, held) /\ (ScanInv => PassGood(q, disk, db))
  BY Mover
<1>2. q.pc = "readback" /\ UNCHANGED vars /\ WorldUntouched
  BY DEF ReadBack
<1>3. proc' = [proc EXCEPT ![x] = IF disk[<<p, Target>>] = want THEN r ELSE IdleProc]
  BY Zenon DEF ReadBack
<1>4. p \in Paths /\ q.job \in Jobs /\ Target \in Locations
      /\ want \in Hashes /\ want # None /\ q.job \in Verifies \cup Copiers
      /\ q.job # None
  BY <1>1, <1>2, Names DEF ProcStates, ProcGood, PagePcs, CopyPcs
<1>5. \A o \in q.left : q.want[o] \in Hashes
  BY <1>1, <1>2 DEF ProcGood, CopyPcs
<1>6. /\ ob \in Inputs /\ ob # NoObservation
      /\ ob.collection = Coll /\ ob.path = p /\ ob.location = Target
      /\ ob.job = q.job /\ ob.hash = want
  <2> HIDE DEF want, q, p
  <2> QED BY <1>4, ObserveIsInput
<1>7. disk[<<p, Target>>] = want => want \in held[<<p, Target>>]
  BY <1>4, TargetIsHeld
<1> HIDE DEF ob, want, p
<1>8. /\ r \in ProcStates /\ r.pc = "flushcopy" /\ r.job = q.job /\ r.pend = ob
      /\ r.left = q.left /\ r.want = q.want
  BY <1>1, <1>6 DEF ProcStates
<1> HIDE DEF q, r
<1>9. CASE disk[<<p, Target>>] = want
  <2>1. ProcGood(r, held)
    BY <1>4, <1>5, <1>6, <1>7, <1>8, <1>9 DEF ProcGood, FlushPcs, PagePcs, CopyPcs
  <2>2. ScanInv => PassGood(r, disk, db)
    BY <1>1, <1>2, <1>8 DEF PassGood, ScanPcs
  <2> QED BY <1>2, <1>3, <1>8, <1>9, <2>1, <2>2, ReadMove DEF q
<1>10. CASE disk[<<p, Target>>] # want
  BY <1>2, <1>3, <1>10, NothingWritten, QuietExit DEF Exit, CliInv
<1> QED BY <1>9, <1>10

\* A process next to a file that changes: an entry that goes is absent from the
\* pass that is under way.
LEMMA NoticingKeeps ==
    ASSUME CliInv, NEW y \in Procs, NEW p \in Paths, NEW l \in Locations,
           NEW content \in Hashes \cup {None}, EntryChanged(p, l, content)
    PROVE  LET r == Noticing(proc[y], p, l, content)
           IN  /\ r \in ProcStates /\ r.pc = proc[y].pc /\ r.job = proc[y].job
               /\ ProcGood(r, held')
               /\ ScanInv => PassGood(r, disk', db)
<1> DEFINE q == proc[y]
           r == Noticing(q, p, l, content)
<1>1. q \in ProcStates /\ ProcGood(q, held) /\ (ScanInv => PassGood(q, disk, db))
  BY Mover
<1>2. /\ disk \in [Places -> Hashes \cup {None}]
      /\ held \in [Places -> SUBSET (Hashes \cup {None})]
      /\ <<p, l>> \in Places
      /\ \A o \in Paths : <<o, Target>> \in Places
  BY Names DEF CliInv, CliTypeOK
<1>3. /\ \A pl \in Places : disk'[pl] = IF pl = <<p, l>> THEN content ELSE disk[pl]
      /\ \A pl \in Places : held[pl] \subseteq held'[pl]
  BY <1>2 DEF EntryChanged
<1>4. /\ r \in ProcStates /\ r.pc = q.pc /\ r.job = q.job /\ r.pend = q.pend
      /\ r.left = q.left /\ r.want = q.want /\ r.item = q.item
      /\ r.frames = q.frames /\ r.unread = q.unread /\ r.clean = q.clean
      /\ q.absent \subseteq r.absent
      /\ (/\ q.pc \in ScanPcs /\ l = Target /\ content = None
          /\ disk[<<p, l>>] # None) => p \in r.absent
  <2> DEFINE t == q.touched \cup ({DirOf(p)} \cap q.frames)
             a == IF content = None THEN q.absent \cup {p} ELSE q.absent
             n == [q EXCEPT !.touched = t, !.absent = a]
             cond == /\ q.pc \in {"walk", "flush", "finish"} /\ l = Target
                     /\ (disk[<<p, l>>] = None) # (content = None)
  <2>1. r = IF cond THEN n ELSE q
    BY Zenon DEF Noticing
  <2>2. t \in SUBSET {"root", "sub"} /\ a \in SUBSET Paths /\ q.absent \subseteq a
        /\ (content = None => p \in a)
    BY <1>1 DEF ProcStates
  <2>3. (/\ q.pc \in ScanPcs /\ l = Target /\ content = None
         /\ disk[<<p, l>>] # None) => cond
    BY DEF ScanPcs
  <2> HIDE DEF t, a, cond, r
  <2>4. /\ n \in ProcStates /\ n.pc = q.pc /\ n.job = q.job /\ n.pend = q.pend
        /\ n.left = q.left /\ n.want = q.want /\ n.item = q.item
        /\ n.frames = q.frames /\ n.unread = q.unread /\ n.clean = q.clean
        /\ n.absent = a
    BY <1>1, <2>2 DEF ProcStates
  <2> HIDE DEF n, q
  <2> QED BY <1>1, <2>1, <2>2, <2>3, <2>4
<1> HIDE DEF q, r
<1>5. ProcGood(r, held')
  <2>1. ProcGood(r, held)
    BY <1>1, <1>4 DEF ProcGood
  <2> QED BY <1>3, <1>4, <2>1, GoodGrows
<1>6. ASSUME ScanInv PROVE PassGood(r, disk', db)
  <2>1. PassGood(q, disk, db)
    BY <1>1, <1>6
  <2>2. r.pc \in ScanPcs => \A o \in Paths : disk'[<<o, Target>>] = None => o \in r.absent
    <3> SUFFICES ASSUME q.pc \in ScanPcs, NEW o \in Paths, disk'[<<o, Target>>] = None
                 PROVE  o \in r.absent
      BY <1>4
    <3>1. CASE <<o, Target>> = <<p, l>> /\ disk[<<p, l>>] # None
      <4>1. o = p /\ l = Target /\ content = None
        BY <1>2, <1>3, <3>1
      <4> QED BY <1>4, <3>1, <4>1
    <3>2. CASE <<o, Target>> # <<p, l>> \/ disk[<<p, l>>] = None
      <4>1. disk[<<o, Target>>] = None
        BY <1>2, <1>3, <3>2
      <4> QED BY <1>4, <2>1, <4>1 DEF PassGood
    <3> QED BY <3>1, <3>2
  <2> QED BY <1>4, <2>1, <2>2 DEF PassGood
<1> QED BY <1>4, <1>5, <1>6 DEF q, r

\* A step that changes one entry and leaves the processes where they are.
LEMMA FilesMove ==
    ASSUME CliInv, NEW p \in Paths, NEW l \in Locations,
           NEW content \in Hashes \cup {None}, EntryChanged(p, l, content),
           UNCHANGED vars, now' = now, edits' \in Nat, runs' \in Nat,
           proc' \in [Procs -> ProcStates],
           \A y \in Procs : /\ proc'[y].pc = "idle" <=> proc[y].pc = "idle"
                            /\ proc'[y].job = proc[y].job
                            /\ ProcGood(proc'[y], held')
                            /\ ScanInv => PassGood(proc'[y], disk', db)
    PROVE  Keeps
<1>1. CatalogInv' /\ Idle' /\ QuietStep(db, db') /\ db' = db
  BY NothingWritten DEF CliInv, vars
<1>2. /\ disk \in [Places -> Hashes \cup {None}]
      /\ held \in [Places -> SUBSET (Hashes \cup {None})]
      /\ now \in Times /\ <<p, l>> \in Places /\ DiskIsHeld
  BY Names DEF CliInv, CliTypeOK
<1>3. /\ \A pl \in Places : disk'[pl] = IF pl = <<p, l>> THEN content ELSE disk[pl]
      /\ \A pl \in Places : held'[pl] = IF pl = <<p, l>> THEN held[pl] \cup {content}
                                                         ELSE held[pl]
  BY <1>2 DEF EntryChanged
<1>4. CliTypeOK'
  <2>1. disk' \in [Places -> Hashes \cup {None}]
    BY <1>2 DEF EntryChanged
  <2>2. held' \in [Places -> SUBSET (Hashes \cup {None})]
    BY <1>2 DEF EntryChanged
  <2> QED BY <1>2, <2>1, <2>2 DEF CliTypeOK
<1>5. DiskIsHeld'
  BY <1>2, <1>3 DEF DiskIsHeld
<1>6. RecordedBytesWereThere'
  <2>1. \A pl \in Places : held[pl] \subseteq held'[pl]
    BY <1>3
  <2> QED BY <1>1, <2>1, RecordedKept DEF QuietStep
<1>7. CliInv'
  BY <1>1, <1>4, <1>5, <1>6 DEF CliInv, ProcsGood
<1>8. ScanInv => ScanInv'
  BY <1>1 DEF ScanInv, PassesGood, JobsAreDistinct
<1> QED BY <1>7, <1>8 DEF Keeps

\* Somebody else's change.
LEMMA EditKeeps ==
    ASSUME CliInv, NEW p \in Paths, NEW l \in Locations,
           NEW content \in Hashes \cup {None}, Edit(p, l, content)
    PROVE  Keeps
<1>1. /\ EntryChanged(p, l, content) /\ UNCHANGED vars /\ now' = now
      /\ edits' \in Nat /\ runs' \in Nat
      /\ proc' = [x \in Procs |-> Noticing(proc[x], p, l, content)]
  BY DEF Edit, CliInv, CliTypeOK
<1>2. \A y \in Procs : /\ proc'[y] \in ProcStates
                       /\ proc'[y].pc = proc[y].pc /\ proc'[y].job = proc[y].job
                       /\ ProcGood(proc'[y], held')
                       /\ ScanInv => PassGood(proc'[y], disk', db)
  BY <1>1, NoticingKeeps
<1>3. proc' \in [Procs -> ProcStates]
  BY <1>1, <1>2
<1> QED BY <1>1, <1>2, <1>3, FilesMove

\* place_no_replace: an absent destination gets the wanted bytes.
LEMMA PlaceKeeps ==
    ASSUME CliInv, NEW x \in Procs, Place(x)
    PROVE  Keeps
<1> DEFINE q == proc[x]
           p == q.item
           want == q.want[p]
           r == [q EXCEPT !.pc = "readback"]
<1>1. q \in ProcStates /\ ProcGood(q, held) /\ (ScanInv => PassGood(q, disk, db))
  BY Mover
<1>2. q.pc = "place" /\ UNCHANGED vars /\ UNCHANGED <<now, edits, runs>>
  BY DEF Place
<1>3. CASE disk[<<p, Target>>] # None
  BY <1>2, <1>3, NothingWritten, QuietExit DEF Place, WorldUntouched, CliInv
<1>4. CASE disk[<<p, Target>>] = None
  <2>1. /\ EntryChanged(p, Target, want)
        /\ proc' = [y \in Procs |-> IF y = x THEN r
                                    ELSE Noticing(proc[y], p, Target, want)]
    BY <1>4 DEF Place, PlacedBy
  <2>2. p \in Paths /\ want \in Hashes \cup {None} /\ Target \in Locations
    BY <1>1, <1>2, Names DEF ProcGood
  <2>3. /\ r \in ProcStates /\ r.pc = "readback" /\ r.job = q.job /\ r.pend = q.pend
        /\ r.left = q.left /\ r.want = q.want /\ r.item = q.item
    BY <1>1 DEF ProcStates
  <2>4. \A pl \in Places : held[pl] \subseteq held'[pl]
    BY <2>1 DEF EntryChanged, CliInv, CliTypeOK
  <2> HIDE DEF q, p, want, r
  <2>5. ProcGood(r, held')
    <3>1. ProcGood(r, held)
      BY <1>1, <1>2, <2>3 DEF ProcGood, FlushPcs, PagePcs, CopyPcs
    <3> QED BY <2>3, <2>4, <3>1, GoodGrows
  <2>6. ScanInv => PassGood(r, disk', db)
    BY <1>1, <1>2, <2>3 DEF PassGood, ScanPcs
  <2>7. \A y \in Procs : /\ proc'[y] \in ProcStates
                         /\ proc'[y].pc = "idle" <=> proc[y].pc = "idle"
                         /\ proc'[y].job = proc[y].job
                         /\ ProcGood(proc'[y], held')
                         /\ ScanInv => PassGood(proc'[y], disk', db)
    <3> SUFFICES ASSUME NEW y \in Procs
                 PROVE  /\ proc'[y] \in ProcStates
                        /\ proc'[y].pc = "idle" <=> proc[y].pc = "idle"
                        /\ proc'[y].job = proc[y].job
                        /\ ProcGood(proc'[y], held')
                        /\ ScanInv => PassGood(proc'[y], disk', db)
      OBVIOUS
    <3>1. CASE y = x
      BY <1>2, <2>1, <2>3, <2>5, <2>6, <3>1 DEF q
    <3>2. CASE y # x
      BY <2>1, <2>2, <3>2, NoticingKeeps
    <3> QED BY <3>1, <3>2
  <2>8. proc' \in [Procs -> ProcStates]
    BY <2>1, <2>7
  <2>9. now' = now /\ edits' \in Nat /\ runs' \in Nat
    BY <1>2 DEF CliInv, CliTypeOK
  <2> QED BY <1>2, <2>1, <2>2, <2>7, <2>8, <2>9, FilesMove
<1> QED BY <1>3, <1>4

\* A step that moves no process and no file.
LEMMA CatalogMoves ==
    ASSUME CliInv, UNCHANGED <<proc, disk, held, edits, runs>>, now' \in Times,
           CatalogInv', Idle', RecordedBytesWereThere', JobsAge(db, db'),
           \A j \in Jobs : CoverageKept(db, db', j)
    PROVE  Keeps
<1>1. CliInv'
  BY DEF CliInv, CliTypeOK, DiskIsHeld, ProcsGood
<1>2. ASSUME ScanInv PROVE ScanInv'
  <2>1. ASSUME NEW y \in Procs PROVE PassGood(proc[y], disk, db')
    <3>1. PassGood(proc[y], disk, db) /\ proc[y] \in ProcStates /\ ProcGood(proc[y], held)
      BY <1>2, Mover
    <3>2. proc[y].pc # "idle" => proc[y].job \in Jobs
      BY <3>1 DEF ProcGood, ProcStates
    <3> QED BY <3>1, <3>2, PassStays
  <2> QED BY <1>2, <2>1 DEF ScanInv, PassesGood, JobsAreDistinct
<1> QED BY <1>1, <1>2 DEF Keeps

\* `job cancel` and the clock.
LEMMA CancelAndTickKeep ==
    ASSUME CliInv, Tick \/ \E j \in Jobs : Cancel(j)
    PROVE  Keeps
<1>1. CASE Tick
  <2>1. CatalogInv' /\ Idle' /\ QuietStep(db, db')
    BY <1>1, NothingWritten DEF Tick, CliInv
  <2>2. UNCHANGED <<proc, disk, held, edits, runs>> /\ now' \in Times
    BY <1>1, BoundsAreNaturals DEF Tick, CliInv, CliTypeOK, Times
  <2>3. RecordedBytesWereThere'
    BY <2>1, <2>2, RecordedKept DEF QuietStep
  <2> QED BY <2>1, <2>2, <2>3, CatalogMoves DEF QuietStep
<1>2. ASSUME NEW j \in Jobs, Cancel(j) PROVE Keeps
  <2>1. CatalogInv' /\ Idle' /\ QuietStep(db, db')
    BY <1>2, JobWritesAreQuiet DEF Cancel, CliInv
  <2>2. UNCHANGED <<proc, disk, held, edits, runs>> /\ now' \in Times
    BY <1>2 DEF Cancel, cliVars, CliInv, CliTypeOK
  <2>3. RecordedBytesWereThere'
    BY <2>1, <2>2, RecordedKept DEF QuietStep
  <2> QED BY <2>1, <2>2, <2>3, CatalogMoves DEF QuietStep
<1> QED BY <1>1, <1>2

\* `collection add --accept-changes` records what Source holds.
LEMMA AcceptChangeKeeps ==
    ASSUME CliInv, NEW p \in Paths, AcceptChange(p)
    PROVE  Keeps
<1> DEFINE hash == disk[<<p, Source>>]
           base == Observe(p, Source, "checksum", hash, None)
           ob == [base EXCEPT !.accept = TRUE]
<1>1. /\ hash # None /\ CommitRevised(ObserveInTransaction(db, ob)) /\ UNCHANGED cliVars
  BY Zenon DEF AcceptChange
<1>2. hash \in Hashes /\ hash \in held[<<p, Source>>] /\ Source \in Locations
  BY <1>1, TargetIsHeld, Names
<1>3. ob \in Inputs /\ ob.collection = Coll /\ ob.path = p /\ ob.location = Source
      /\ ob.hash = hash
  <2>1. /\ base \in Inputs /\ base.collection = Coll /\ base.path = p
        /\ base.location = Source /\ base.hash = hash
    <3> HIDE DEF hash
    <3> QED BY <1>1, <1>2, ObserveIsInput
  <2> HIDE DEF base
  <2> QED BY <2>1 DEF Inputs, Observation
<1> HIDE DEF ob
<1>4. /\ CatalogInv' /\ Idle' /\ JobsAge(db, db')
      /\ \A j \in Jobs : CoverageKept(db, db', j)
      /\ \A c \in Copies : \/ ObservedKept(db, db', c)
                           \/ c = CopyOf(ob) /\ db'.files[c].observed = ob.hash
  BY <1>1, <1>3, ObservationCommitted DEF CliInv
<1>5. UNCHANGED <<proc, disk, held, edits, runs>> /\ now' \in Times
  BY <1>1 DEF cliVars, CliInv, CliTypeOK
<1>6. RecordedBytesWereThere'
  <2> SUFFICES ASSUME NEW o \in Paths, NEW l \in {Source, Target},
                      db'.files[Copy(o, l)].observed # None
               PROVE  db'.files[Copy(o, l)].observed \in held[<<o, l>>]
    BY <1>5 DEF RecordedBytesWereThere, Copy, Object, Coll
  <2>1. Copy(o, l) \in Copies
    BY Names
  <2>2. CASE ObservedKept(db, db', Copy(o, l))
    BY <2>2 DEF ObservedKept, CliInv, RecordedBytesWereThere
  <2>3. CASE Copy(o, l) = CopyOf(ob) /\ db'.files[Copy(o, l)].observed = ob.hash
    <3>1. o = p /\ l = Source
      BY <1>3, <2>3 DEF Copy, Object, CopyOf, ObjectOf
    <3> QED BY <1>2, <1>3, <2>3, <3>1
  <2> QED BY <1>4, <2>1, <2>2, <2>3
<1> QED BY <1>4, <1>5, <1>6, CatalogMoves

-----------------------------------------------------------------------------
(* The invariants and the theorems.                                        *)

\* Every step keeps both invariants, the second one when OneRunner.
LEMMA CliStep ==
    ASSUME CliInv, CliNext
    PROVE  Keeps
<1>1. ASSUME NEW x \in Procs, Step(x) PROVE Keeps
  <2>1. CASE ResetScan(x) BY <2>1, ResetKeeps
  <2>2. CASE OpenRoot(x) BY <2>2, OpenRootKeeps
  <2>3. CASE OpenSub(x) BY <2>3, OpenSubKeeps
  <2>4. ASSUME NEW p \in Paths, NEW found \in {"checksum", "read_error", "missing", "error"},
               ReadEntry(x, p, found)
        PROVE  Keeps
    BY <2>4, ReadEntryKeeps
  <2>5. CASE FlushInventory(x)
    BY <2>5, FlushKeeps DEF FlushInventory
  <2>6. ASSUME NEW dir \in {"root", "sub"}, PopFrame(x, dir) PROVE Keeps
    BY <2>6, PopFrameKeeps
  <2>7. CASE FinishInventory(x) BY <2>7, FinishInventoryKeeps
  <2>8. CASE Select(x) BY <2>8, SelectKeeps
  <2>9. ASSUME NEW p \in Paths, NEW found \in {"checksum", "read_error", "missing"},
               VerifyEntry(x, p, found)
        PROVE  Keeps
    BY <2>9, VerifyEntryKeeps
  <2>10. CASE FlushVerify(x)
    BY <2>10, FlushKeeps DEF FlushVerify, AfterRow
  <2>11. ASSUME NEW p \in Paths, CopyEntry(x, p) PROVE Keeps
    BY <2>11, CopyEntryKeeps
  <2>12. CASE Place(x) BY <2>12, PlaceKeeps
  <2>13. CASE ReadBack(x) BY <2>13, ReadBackKeeps
  <2>14. CASE FlushCopy(x)
    BY <2>14, FlushKeeps DEF FlushCopy, AfterRow
  <2> QED
    BY <1>1, <2>1, <2>2, <2>3, <2>4, <2>5, <2>6, <2>7, <2>8, <2>9, <2>10, <2>11,
       <2>12, <2>13, <2>14
       DEF Step
<1>2. ASSUME NEW x \in Procs, NEW j \in Scans \cup Verifies \cup Copiers, Start(x, j)
      PROVE  Keeps
  BY <1>2, StartKeeps
<1>3. ASSUME NEW x \in Procs, Crash(x) \/ Pause(x) PROVE Keeps
  BY <1>3, CrashKeeps, PauseKeeps
<1>4. ASSUME NEW p \in Paths, NEW l \in Locations, NEW h \in Hashes \cup {None}, Edit(p, l, h)
      PROVE  Keeps
  BY <1>4, EditKeeps
<1>5. ASSUME NEW p \in Paths, AcceptChange(p) PROVE Keeps
  BY <1>5, AcceptChangeKeeps
<1> QED
  BY <1>1, <1>2, <1>3, <1>4, <1>5, CancelAndTickKeep DEF CliNext

\* Stuttering keeps them too.
LEMMA CliStutter ==
    ASSUME CliInv, UNCHANGED allVars
    PROVE  Keeps
<1>1. UNCHANGED vars /\ UNCHANGED <<proc, disk, held, edits, runs>> /\ now' \in Times
  BY DEF allVars, cliVars, CliInv, CliTypeOK
<1>2. CatalogInv' /\ Idle' /\ QuietStep(db, db')
  BY <1>1, NothingWritten DEF CliInv
<1>3. RecordedBytesWereThere'
  BY <1>1, <1>2, RecordedKept DEF QuietStep
<1> QED BY <1>1, <1>2, <1>3, CatalogMoves DEF QuietStep

\* The surveyed catalog is a catalog whose evidence is current, of bytes that
\* are on disk.
LEMMA SurveyedIsGood ==
    ASSUME NEW known \in SUBSET Paths, NEW h \in Hashes
    PROVE  LET d == Surveyed(known, h)
           IN  /\ d \in Database
               /\ EvidenceIsCurrent(d)
               /\ \A c \in Copies : d.files[c].observed # None =>
                     /\ d.files[c].observed = h
                     /\ \/ \E p \in Paths : c = Copy(p, Source)
                        \/ \E p \in known : c = Copy(p, Target)
<1> DEFINE good == [presence |-> "present", integrity |-> "verified",
                    checkTime |-> 0, result |-> "ok", observed |-> h, success |-> 0]
           row == [kind |-> "file_checked", time |-> 0, result |-> "ok", expected |-> h]
           copies == {Copy(p, Source) : p \in Paths} \cup {Copy(p, Target) : p \in known}
           objects == {Object(p) : p \in Paths}
           expected == [o \in Objects |-> IF o[1] = Coll THEN h ELSE None]
           files == [c \in Copies |-> IF c \in copies THEN good ELSE NoFileRow]
           audit == [c \in Copies |-> IF c \in copies THEN row ELSE NoAuditRow]
           d == [EmptyCatalog EXCEPT !.objects = objects, !.expected = expected,
                                     !.files = files, !.audit = audit]
<1>1. Surveyed(known, h) = d
  BY Zenon DEF Surveyed
<1>2. 0 \in Times /\ 0 # None
  BY BoundsAreNaturals, NoneIsNoNumber DEF Times
<1>3. good \in FileRow /\ NoFileRow \in FileRow /\ row \in AuditRow /\ NoAuditRow \in AuditRow
  BY <1>2 DEF FileRow, AuditRow, NoFileRow, NoAuditRow, CheckKinds
<1>4. /\ \A c \in Copies : files[c] = IF c \in copies THEN good ELSE NoFileRow
      /\ \A c \in copies : c[1][1] = Coll
      /\ \A c \in copies : \/ \E p \in Paths : c = Copy(p, Source)
                           \/ \E p \in known : c = Copy(p, Target)
  BY DEF Copy, Object
<1>5. objects \in SUBSET Objects
  BY Names
<1>6. expected \in [Objects -> Hashes \cup {None}]
      /\ files \in [Copies -> FileRow] /\ audit \in [Copies -> AuditRow]
  <2> HIDE DEF good, row, copies
  <2> QED BY <1>3
<1>7. \A c \in copies \cap Copies : expected[c[1]] = h
  BY <1>4 DEF Copies
<1>8. h # None
  BY Names
<1>9. /\ good.integrity = "verified" /\ good.presence = "present" /\ good.result = "ok"
      /\ good.observed = h /\ good.success = 0 /\ good.checkTime = 0
      /\ NoFileRow.integrity = "unverified" /\ NoFileRow.observed = None
  BY DEF NoFileRow
<1> HIDE DEF good, row, copies, objects, expected, files, audit
<1>10. d \in Database
  BY <1>5, <1>6, InitialType DEF Database
<1>11. d.files = files /\ d.expected = expected
  BY InitialType DEF Database
<1> HIDE DEF d
<1>12. EvidenceIsCurrent(d)
  BY <1>2, <1>4, <1>7, <1>8, <1>9, <1>11 DEF EvidenceIsCurrent
<1>13. \A c \in Copies : d.files[c].observed # None =>
          /\ d.files[c].observed = h
          /\ \/ \E p \in Paths : c = Copy(p, Source)
             \/ \E p \in known : c = Copy(p, Target)
  BY <1>4, <1>9, <1>11
<1> QED BY <1>1, <1>10, <1>12, <1>13

\* The initial states.
LEMMA CliInitGood == CliInit => CliInv /\ ScanInv
<1> SUFFICES ASSUME CliInit PROVE CliInv /\ ScanInv
  OBVIOUS
<1> DEFINE h == CHOOSE x \in Hashes : TRUE
<1>1. PICK known \in SUBSET Paths :
         /\ db = Surveyed(known, h)
         /\ work = db /\ batch = None /\ changed = FALSE
         /\ disk = [pl \in Paths \X Locations |->
                      IF pl[2] = Source \/ (pl[2] = Target /\ pl[1] \in known)
                      THEN h ELSE None]
         /\ now = 0 /\ proc = [x \in Procs |-> IdleProc] /\ edits = 0 /\ runs = 0
         /\ held = [pl \in Paths \X Locations |-> {disk[pl]}]
  BY Zenon DEF CliInit
<1>2. h \in Hashes
  BY SomethingToSurvey
<1> HIDE DEF h
<1>3. /\ db \in Database /\ EvidenceIsCurrent(db)
      /\ \A c \in Copies : db.files[c].observed # None =>
            /\ db.files[c].observed = h
            /\ \/ \E p \in Paths : c = Copy(p, Source)
               \/ \E p \in known : c = Copy(p, Target)
  BY <1>1, <1>2, SurveyedIsGood
<1>4. CatalogInv /\ Idle
  BY <1>1, <1>3 DEF CatalogInv, TypeOK, VerifiedIsCurrent, Idle
<1>5. CliTypeOK
  BY <1>1, <1>2, IdleIsGood, BoundsAreNaturals DEF CliTypeOK, Places, Times
<1>6. DiskIsHeld
  BY <1>1 DEF DiskIsHeld, Places
<1>7. ProcsGood
  BY <1>1, IdleIsGood DEF ProcsGood
<1>8. RecordedBytesWereThere
  <2> SUFFICES ASSUME NEW p \in Paths, NEW l \in {Source, Target},
                      db.files[Copy(p, l)].observed # None
               PROVE  db.files[Copy(p, l)].observed \in held[<<p, l>>]
    BY DEF RecordedBytesWereThere
  <2>1. Copy(p, l) \in Copies /\ <<p, l>> \in Paths \X Locations
    BY Names DEF Places
  <2>2. /\ db.files[Copy(p, l)].observed = h
        /\ \/ \E o \in Paths : Copy(p, l) = Copy(o, Source)
           \/ \E o \in known : Copy(p, l) = Copy(o, Target)
    BY <1>3, <2>1
  <2>3. l = Source \/ (l = Target /\ p \in known)
    BY <2>2 DEF Copy, Object
  <2>4. disk[<<p, l>>] = h
    BY <1>1, <2>1, <2>3
  <2> QED BY <1>1, <2>1, <2>2, <2>4
<1>9. ScanInv
  BY <1>1, IdleIsGood DEF ScanInv, PassesGood, JobsAreDistinct
<1> QED BY <1>4, <1>5, <1>6, <1>7, <1>8, <1>9 DEF CliInv

\* The invariant of all invocations.
THEOREM CliInvariant == CliSpec => []CliInv
<1>1. CliInit => CliInv
  BY CliInitGood
<1>2. CliInv /\ [CliNext]_allVars => CliInv'
  BY CliStep, CliStutter DEF Keeps
<1> QED BY <1>1, <1>2, PTL DEF CliSpec

\* RecordedBytesWereThere: whatever is edited, killed, resumed or run beside
\* it, scan, verify, copy and --accept-changes record for a copy only a
\* checksum its path held at that Location.
THEOREM RecordedWasThere == CliSpec => []RecordedBytesWereThere
<1>1. CliInv => RecordedBytesWereThere
  BY DEF CliInv
<1> QED BY <1>1, CliInvariant, PTL

\* ContentOnlyChangesByOthers: place_no_replace is the only write to the files,
\* and it writes an absent one.
THEOREM NothingIsReplaced == CliSpec => ContentOnlyChangesByOthers
<1> DEFINE Kept == \A pl \in Paths \X Locations :
                      (disk[pl] # None /\ disk'[pl] # disk[pl]) => edits' = edits + 1
<1>1. CliInv /\ CliNext => Kept
  <2> SUFFICES ASSUME CliInv, CliNext, disk' # disk,
                      NEW pl \in Paths \X Locations, disk[pl] # None, disk'[pl] # disk[pl]
               PROVE  edits' = edits + 1
    OBVIOUS
  <2>1. ASSUME NEW x \in Procs, Place(x), disk[<<proc[x].item, Target>>] = None
        PROVE  FALSE
    <3>1. disk' = [disk EXCEPT ![<<proc[x].item, Target>>] = proc[x].want[proc[x].item]]
      BY <2>1 DEF Place, PlacedBy, EntryChanged
    <3>2. disk \in [Places -> Hashes \cup {None}]
      BY DEF CliInv, CliTypeOK
    <3>3. pl = <<proc[x].item, Target>>
      BY <3>1, <3>2 DEF Places
    <3> QED BY <2>1, <3>3
  <2>2. ASSUME NEW p \in Paths, NEW l \in Locations, NEW h \in Hashes \cup {None},
               Edit(p, l, h)
        PROVE  edits' = edits + 1
    BY <2>2 DEF Edit
  <2>3. ASSUME NEW x \in Procs, Step(x)
        PROVE  Place(x) /\ disk[<<proc[x].item, Target>>] = None
    BY <2>3 DEF Step, ResetScan, OpenRoot, OpenSub, ReadEntry, FlushInventory, Flush,
                PopFrame, FinishInventory, Select, VerifyEntry, FlushVerify, CopyEntry,
                Place, ReadBack, FlushCopy, WorldUntouched
  <2>4. ASSUME NEW x \in Procs, NEW j \in Scans \cup Verifies \cup Copiers, Start(x, j)
        PROVE  FALSE
    BY <2>4 DEF Start
  <2>5. ASSUME NEW x \in Procs, Crash(x) \/ Pause(x) PROVE FALSE
    BY <2>5 DEF Crash, Pause, WorldUntouched
  <2>6. ASSUME Tick \/ (\E j \in Jobs : Cancel(j)) \/ (\E p \in Paths : AcceptChange(p))
        PROVE  FALSE
    BY <2>6 DEF Tick, Cancel, AcceptChange, cliVars
  <2> QED BY <2>1, <2>2, <2>3, <2>4, <2>5, <2>6 DEF CliNext
<1>2. CliInv /\ [CliNext]_allVars => [Kept]_allVars
  BY <1>1
<1>3. ContentOnlyChangesByOthers <=> [][Kept]_allVars
  BY DEF ContentOnlyChangesByOthers
<1> HIDE DEF Kept
<1> QED BY <1>2, <1>3, CliInvariant, PTL DEF CliSpec

\* The invariant of the passes, when no job is worked on by two processes at a
\* time.
THEOREM PassesInvariant ==
    ASSUME OneRunner
    PROVE  CliSpec => [](CliInv /\ ScanInv)
<1>1. CliInit => CliInv /\ ScanInv
  BY CliInitGood
<1>2. CliInv /\ ScanInv /\ [CliNext]_allVars => (CliInv /\ ScanInv)'
  BY CliStep, CliStutter DEF Keeps
<1> QED BY <1>1, <1>2, PTL DEF CliSpec

\* NoFalseMissing: finish_catalog_scan declares a copy missing only when its
\* path was absent at some moment of the finishing pass.  OneRunner is needed:
\* `job resume` of a scan that still runs resets the coverage of the other pass.
THEOREM MissingWasAbsent ==
    ASSUME OneRunner
    PROVE  CliSpec => NoFalseMissing
<1> DEFINE Told == \A x \in Procs : \A p \in Paths :
                      (/\ FinishInventory(x)
                       /\ db.files[Copy(p, Target)].presence # "missing"
                       /\ db'.files[Copy(p, Target)].presence = "missing")
                      => p \in proc[x].absent
<1>1. CliInv /\ ScanInv => Told
  <2> SUFFICES ASSUME CliInv, ScanInv, NEW x \in Procs, NEW p \in Paths,
                      FinishInventory(x),
                      db.files[Copy(p, Target)].presence # "missing",
                      db'.files[Copy(p, Target)].presence = "missing"
               PROVE  p \in proc[x].absent
    OBVIOUS
  <2> DEFINE q == proc[x]
  <2>1. q \in ProcStates /\ ProcGood(q, held) /\ PassGood(q, disk, db) /\ q.pc = "finish"
    BY Mover DEF FinishInventory
  <2>2. q.job \in Jobs /\ q.clean \in BOOLEAN /\ now \in Times /\ CatalogInv /\ Idle
    BY <2>1 DEF ProcGood, ProcStates, CliInv, CliTypeOK
  <2>3. Copy(p, Target) \in Copies /\ Copy(p, Target)[1] = Object(p)
    BY Names DEF Copy
  <2>4. db' # db
    OBVIOUS
  <2>5. FinishScan(q.job, q.clean, now) /\ JobRunning(db, q.job)
    BY <2>4 DEF FinishInventory, vars
  <2>6. q.clean /\ Object(p) \notin db.seen[q.job]
    <3>1. \A c \in Copies : db'.files[c].presence # db.files[c].presence =>
                               q.clean /\ c[1] \notin db.seen[q.job]
      <4> HIDE DEF q
      <4> QED BY <2>2, <2>5, ScanEndIsQuiet
    <3> QED BY <2>3, <3>1
  <2>7. q.left = {} /\ q.unread = {} /\ q.pc \in ScanPcs /\ q.pc # "flush"
    BY <2>1 DEF PassGood, ScanPcs
  <2> HIDE DEF q
  <2>8. p \in q.absent
    BY <2>1, <2>5, <2>6, <2>7 DEF PassGood, JobRunning
  <2> QED BY <2>8 DEF q
<1>2. CliInv /\ ScanInv /\ [CliNext]_allVars => [Told]_allVars
  BY <1>1
<1>3. NoFalseMissing <=> [][Told]_allVars
  BY DEF NoFalseMissing
<1> HIDE DEF Told
<1> QED BY <1>2, <1>3, PassesInvariant, PTL DEF CliSpec

==============================================================================
