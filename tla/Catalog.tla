------------------------------- MODULE Catalog -------------------------------
(***************************************************************************)
(* The authoritative SQLite catalog of an archive: the tables of           *)
(* sqlite_catalog.sql and every transaction that writes the copy evidence  *)
(* in them (sqlite_writes.rs, sqlite_removed.rs) together with the two     *)
(* registry columns those transactions read (sqlite_registry.rs).          *)
(*                                                                         *)
(* Every write is one Immediate transaction, so at most one writer is      *)
(* inside the database.  observe_batch processes a list of observations    *)
(* inside its transaction; it is modelled step by step on a working copy   *)
(* `work` of the database that is committed or rolled back as a whole.     *)
(* The other writers read and write their rows in one statement sequence   *)
(* with no call in between and are one action each.                        *)
(*                                                                         *)
(* Data that no transaction branches on is left out: sizes, display names, *)
(* JSON details, progress contents.  Of the append-only history table the  *)
(* model keeps the newest check row of every copy and the newest identity  *)
(* row of every object: what a reader uses to explain the current state.   *)
(***************************************************************************)
EXTENDS Integers

CONSTANTS
    Collections,  \* collection ids
    Paths,        \* normalized relative paths
    Locations,    \* location ids
    Hashes,       \* BLAKE3 values
    Jobs,         \* job ids
    Kinds,        \* kinds of catalog jobs
    Keys,         \* operation keys of deduplicated writes
    None,         \* SQL NULL
    MaxTime,      \* bound on millisecond timestamps
    MaxRevision,  \* bound on the catalog revision
    MaxBatch      \* bound on the observations of one batch

ASSUME NoneIsNoValue ==
    /\ None \notin Hashes
    /\ None \notin Jobs
    /\ None \notin Keys

ASSUME NoneIsNoNumber == None \notin Nat

ASSUME BoundsAreNaturals ==
    /\ MaxTime \in Nat
    /\ MaxRevision \in Nat
    /\ MaxBatch \in Nat

Times == 0 .. MaxTime
Objects == Collections \X Paths
Copies == Objects \X Locations

-----------------------------------------------------------------------------
(* Rows.  A copy without a row in `files` has presence "norow".            *)

FileRow ==
    [presence: {"norow", "present", "missing", "unknown"},
     integrity: {"unverified", "verified", "damaged"},
     checkTime: Times \cup {None},
     result: {"ok", "mismatch", "missing", "read_error", None},
     observed: Hashes \cup {None},
     success: Times \cup {None}]

NoFileRow ==
    [presence |-> "norow", integrity |-> "unverified", checkTime |-> None,
     result |-> None, observed |-> None, success |-> None]

CheckKinds == {"file_checked", "scan_missing", "file_removed"}

\* Newest check row of a copy in the history table.
AuditRow ==
    [kind: CheckKinds \cup {None},
     time: Times \cup {None},
     result: {"ok", "mismatch", "missing", "read_error", None},
     expected: Hashes \cup {None}]

NoAuditRow ==
    [kind |-> None, time |-> None, result |-> None, expected |-> None]

\* Newest expected_checksum_changed row of an object.
ChangeRow == [old: Hashes \cup {None}, new: Hashes \cup {None}]
NoChangeRow == [old |-> None, new |-> None]

JobParams == [kind: Kinds, collection: Collections, location: Locations]

JobStatus == {"none", "running", "complete", "partial", "cancelled"}

ResultKinds == {"metadata_present", "metadata_unknown", "rejected_checksum",
                "checksum", "read_error", "missing"}

\* ObservationResult: only the two checksum results carry a hash.
Observation ==
    [collection: Collections, path: Paths, location: Locations, time: Times,
     result: ResultKinds, hash: Hashes \cup {None}, accept: BOOLEAN,
     key: Keys \cup {None}, job: Jobs \cup {None}]

NoRequest == [result |-> None]

Database ==
    [objects: SUBSET Objects,
     expected: [Objects -> Hashes \cup {None}],
     files: [Copies -> FileRow],
     audit: [Copies -> AuditRow],
     changes: [Objects -> ChangeRow],
     collections: [Collections -> {"active", "retired"}],
     locations: [Locations -> {"active", "retired"}],
     status: [Jobs -> JobStatus],
     params: [Jobs -> JobParams \cup {None}],
     progress: [Jobs -> {"initial", "checkpoint", "summary"}],
     seen: [Jobs -> SUBSET Objects],
     items: [Jobs -> SUBSET Objects],
     requests: [Keys -> Observation \cup {NoRequest}],
     revision: 0 .. MaxRevision]

VARIABLES
    db,       \* the committed database
    work,     \* what the open write transaction sees (= db when none is open)
    batch,    \* None, or the number of observations processed so far
    changed   \* did the open batch apply a new observation?

vars == <<db, work, batch, changed>>

Idle == batch = None

\* A registered catalog: setup has created its Collections and Locations.
EmptyCatalog ==
    [objects |-> {},
     expected |-> [o \in Objects |-> None],
     files |-> [c \in Copies |-> NoFileRow],
     audit |-> [c \in Copies |-> NoAuditRow],
     changes |-> [o \in Objects |-> NoChangeRow],
     collections |-> [c \in Collections |-> "active"],
     locations |-> [l \in Locations |-> "active"],
     status |-> [j \in Jobs |-> "none"],
     params |-> [j \in Jobs |-> None],
     progress |-> [j \in Jobs |-> "initial"],
     seen |-> [j \in Jobs |-> {}],
     items |-> [j \in Jobs |-> {}],
     requests |-> [k \in Keys |-> NoRequest],
     revision |-> 0]

Init ==
    /\ db = EmptyCatalog
    /\ work = EmptyCatalog
    /\ batch = None
    /\ changed = FALSE

Revised(d) == [d EXCEPT !.revision = @ + 1]

-----------------------------------------------------------------------------
(* observe_in_transaction                                                  *)

ObjectOf(ob) == <<ob.collection, ob.path>>
CopyOf(ob) == <<ObjectOf(ob), ob.location>>

HasRow(d, c) == d.files[c].presence # "norow"

\* require_running_job and require_observation_job.
JobRunning(d, j) == d.status[j] = "running"

ObservationJobOK(d, ob) ==
    ob.job # None =>
        /\ JobRunning(d, ob.job)
        /\ d.params[ob.job].collection = ob.collection
        /\ d.params[ob.job].location = ob.location

\* Fault: late results are applied.
ObservationAcceptedLate(d, ob) ==
    /\ ob.accept => ob.result = "checksum"
    /\ d.collections[ob.collection] = "active"
    /\ d.locations[ob.location] = "active"
    /\ ObservationJobOK(d, ob)

\* Fault: the Location's status is not looked at.
ObservationAcceptedRetired(d, ob) ==
    /\ ob.accept => ob.result = "checksum"
    /\ d.collections[ob.collection] = "active"
    /\ ObservationJobOK(d, ob)
    /\ LET prior == d.files[CopyOf(ob)].checkTime
       IN  prior # None => prior <= ob.time

\* The early returns of observe_in_transaction, in their order.
ObservationAccepted(d, ob) ==
    /\ ob.accept => ob.result = "checksum"
    /\ d.collections[ob.collection] = "active"
    /\ d.locations[ob.location] = "active"
    /\ ObservationJobOK(d, ob)
    /\ LET prior == d.files[CopyOf(ob)].checkTime
       IN  prior # None => prior <= ob.time

Establishes(d, ob) ==
    ob.result = "checksum" /\ d.expected[ObjectOf(ob)] = None

AcceptsChange(d, ob) ==
    /\ ob.result = "checksum"
    /\ ob.accept
    /\ d.expected[ObjectOf(ob)] \notin {None, ob.hash}

ExpectedAfter(d, ob) ==
    IF Establishes(d, ob) \/ AcceptsChange(d, ob)
    THEN ob.hash
    ELSE d.expected[ObjectOf(ob)]

CheckResult(ob, expected) ==
    CASE ob.result = "checksum" ->
           IF ob.hash = expected THEN "ok" ELSE "mismatch"
      [] ob.result = "rejected_checksum" -> "mismatch"
      [] ob.result = "read_error" -> "read_error"
      [] ob.result = "missing" -> "missing"

IsCheck(ob) == ob.result \notin {"metadata_present", "metadata_unknown"}

\* INSERT OR IGNORE of a copy whose presence nobody looked at.
UpsertUnknown(row) ==
    IF row.presence = "norow" THEN [row EXCEPT !.presence = "unknown"] ELSE row

\* Fault: damage is forgotten with an unknown presence.
UpsertPresentForgets(row) ==
    [row EXCEPT
        !.presence = "present",
        !.integrity = IF row.presence = "present" THEN row.integrity
                                                  ELSE "unverified"]

\* A sighting: damage is kept, integrity survives only while present.
UpsertPresent(row) ==
    [row EXCEPT
        !.presence = "present",
        !.integrity = IF row.integrity = "damaged" \/ row.presence = "present"
                      THEN row.integrity
                      ELSE "unverified"]

\* A check: everything but the last success is replaced; a read error
\* keeps damage.
UpsertCheck(row, ob, expected) ==
    LET result == CheckResult(ob, expected)
    IN  [presence |-> CASE result = "missing" -> "missing"
                        [] result = "read_error" -> "unknown"
                        [] OTHER -> "present",
         integrity |-> CASE result = "ok" -> "verified"
                         [] result = "mismatch" -> "damaged"
                         [] result = "read_error" ->
                              IF row.integrity = "damaged"
                              THEN "damaged" ELSE "unverified"
                         [] OTHER -> "unverified",
         checkTime |-> ob.time,
         result |-> result,
         observed |-> IF result \in {"ok", "mismatch"} THEN ob.hash ELSE None,
         success |-> IF result = "ok" THEN ob.time ELSE row.success]

Upsert(row, ob, expected) ==
    CASE ob.result = "metadata_unknown" -> UpsertUnknown(row)
      [] ob.result = "metadata_present" -> UpsertPresent(row)
      [] OTHER -> UpsertCheck(row, ob, expected)

\* Accepting a change withdraws the evidence of every copy of the object.
Withdrawn(row) == [row EXCEPT !.integrity = "unverified", !.success = None]

\* Fault: only the copy that was read loses its evidence.
FilesBeforeUpsertOneCopy(d, ob) ==
    [c \in Copies |-> IF AcceptsChange(d, ob) /\ c = CopyOf(ob)
                      THEN Withdrawn(d.files[c])
                      ELSE d.files[c]]

FilesBeforeUpsert(d, ob) ==
    [c \in Copies |-> IF AcceptsChange(d, ob) /\ c[1] = ObjectOf(ob)
                      THEN Withdrawn(d.files[c])
                      ELSE d.files[c]]

\* The expected_checksum_changed row of an accepted change.
ChangesAfter(d, ob) ==
    IF AcceptsChange(d, ob)
    THEN [d.changes EXCEPT ![ObjectOf(ob)] =
            [old |-> d.expected[ObjectOf(ob)], new |-> ob.hash]]
    ELSE d.changes

WithJobObject(sets, ob) ==
    [j \in Jobs |-> IF j = ob.job THEN sets[j] \cup {ObjectOf(ob)} ELSE sets[j]]

ObserveInTransaction(d, ob) ==
    LET o == ObjectOf(ob)
        expected == ExpectedAfter(d, ob)
        base == FilesBeforeUpsert(d, ob)
    IN  [d EXCEPT
           !.objects = @ \cup {o},
           !.expected = [@ EXCEPT ![o] = expected],
           !.files = [base EXCEPT ![CopyOf(ob)] =
                        Upsert(base[CopyOf(ob)], ob, expected)],
           !.audit = IF IsCheck(ob)
                     THEN [@ EXCEPT ![CopyOf(ob)] =
                             [kind |-> "file_checked", time |-> ob.time,
                              result |-> CheckResult(ob, expected),
                              expected |-> expected]]
                     ELSE @,
           !.changes = ChangesAfter(d, ob),
           !.seen = WithJobObject(@, ob),
           !.items = WithJobObject(@, ob)]

-----------------------------------------------------------------------------
(* observe_batch                                                           *)

BatchBegin ==
    /\ Idle
    /\ batch' = 0
    /\ work' = db
    /\ UNCHANGED <<db, changed>>

\* A new observation: it has no operation key, or its key is unused.
BatchObserve(ob) ==
    /\ ~Idle
    /\ batch < MaxBatch
    /\ ob.key # None => work.requests[ob.key] = NoRequest
    /\ ObservationAccepted(work, ob)
    /\ LET applied == ObserveInTransaction(work, ob)
       IN  work' = [applied EXCEPT
                      !.requests = [k \in Keys |-> IF k = ob.key
                                                   THEN ob ELSE @[k]]]
    /\ batch' = batch + 1
    /\ changed' = TRUE
    /\ UNCHANGED db

\* Fault: a replayed request falls through to the observation.
BatchReplayAgain(ob) ==
    /\ ~Idle
    /\ batch < MaxBatch
    /\ ob.key # None
    /\ work.requests[ob.key] = ob
    /\ ObservationAccepted(work, ob)
    /\ work' = ObserveInTransaction(work, ob)
    /\ batch' = batch + 1
    /\ UNCHANGED <<db, changed>>

\* The key was used for this very request: only the coverage marker is
\* written again, the stored outcome is returned.
BatchReplay(ob) ==
    /\ ~Idle
    /\ batch < MaxBatch
    /\ ob.key # None
    /\ work.requests[ob.key] = ob
    /\ ObservationJobOK(work, ob)
    /\ work' = [work EXCEPT !.seen = WithJobObject(@, ob)]
    /\ batch' = batch + 1
    /\ UNCHANGED <<db, changed>>

BatchCommit ==
    /\ ~Idle
    /\ batch > 0
    /\ changed => work.revision < MaxRevision
    /\ LET committed == IF changed THEN Revised(work) ELSE work
       IN  db' = committed /\ work' = committed
    /\ batch' = None
    /\ changed' = FALSE

\* An invalid observation, a reused key, an I/O error or a killed process:
\* the transaction is dropped and SQLite rolls it back.
BatchRollback ==
    /\ ~Idle
    /\ work' = db
    /\ batch' = None
    /\ changed' = FALSE
    /\ UNCHANGED db

-----------------------------------------------------------------------------
(* Transactions that are one action.                                       *)

\* Commits d as the whole effect of one Immediate transaction.
Commit(d) ==
    /\ Idle
    /\ db' = d
    /\ work' = d
    /\ UNCHANGED <<batch, changed>>

CommitRevised(d) ==
    /\ db.revision < MaxRevision
    /\ Commit(Revised(d))

\* begin_catalog_job for an id that has no row.  For a known id it only
\* returns the status (or refuses other parameters) and writes nothing.
BeginJob(j, p) ==
    /\ db.status[j] = "none"
    /\ CommitRevised([db EXCEPT !.status = [@ EXCEPT ![j] = "running"],
                                !.params = [@ EXCEPT ![j] = p]])

ResetScanCoverage(j) ==
    /\ JobRunning(db, j)
    /\ Commit([db EXCEPT !.seen = [@ EXCEPT ![j] = {}]])

CheckpointJob(j) ==
    /\ JobRunning(db, j)
    /\ Commit([db EXCEPT !.progress = [@ EXCEPT ![j] = "checkpoint"]])

\* Fault: the coverage rows of a finished job are kept.
JobFinishedKeepsRows(d, j, status) ==
    [d EXCEPT !.status = [@ EXCEPT ![j] = status],
              !.progress = [@ EXCEPT ![j] = "summary"]]

\* finish_job: the terminal status is written and the job's rows are deleted.
JobFinished(d, j, status) ==
    [d EXCEPT !.status = [@ EXCEPT ![j] = status],
              !.progress = [@ EXCEPT ![j] = "summary"],
              !.seen = [@ EXCEPT ![j] = {}],
              !.items = [@ EXCEPT ![j] = {}]]

\* Copies a complete scan of p by job j declares missing.
Uncovered(d, j) ==
    {c \in Copies :
        /\ c[1][1] = d.params[j].collection
        /\ c[2] = d.params[j].location
        /\ d.files[c].presence \notin {"norow", "missing"}
        /\ c[1] \notin d.seen[j]}

MissingRow(row, t) ==
    [row EXCEPT !.presence = "missing", !.integrity = "unverified",
                !.checkTime = t, !.result = "missing"]

\* Fault: no history row.
MarkedMissingSilently(d, copies, t, kind) ==
    [d EXCEPT
       !.files = [c \in Copies |-> IF c \in copies
                                   THEN MissingRow(@[c], t) ELSE @[c]]]

\* Fault: the update is not limited to the target Location.
MarkedMissingEverywhere(d, copies, t, kind) ==
    LET all == {c \in Copies : HasRow(d, c) /\ \E x \in copies : x[1] = c[1]}
    IN  [d EXCEPT
           !.files = [c \in Copies |-> IF c \in all
                                       THEN MissingRow(@[c], t) ELSE @[c]],
           !.audit = [c \in Copies |-> IF c \in all
                                       THEN [kind |-> kind, time |-> t,
                                             result |-> "missing",
                                             expected |-> d.expected[c[1]]]
                                       ELSE @[c]]]

MarkedMissing(d, copies, t, kind) ==
    [d EXCEPT
       !.files = [c \in Copies |-> IF c \in copies
                                   THEN MissingRow(@[c], t) ELSE @[c]],
       !.audit = [c \in Copies |-> IF c \in copies
                                   THEN [kind |-> kind, time |-> t,
                                         result |-> "missing",
                                         expected |-> d.expected[c[1]]]
                                   ELSE @[c]]]

\* The scan also clears the observed hash; a removal keeps it.
ScanMissing(d, copies, t) ==
    LET marked == MarkedMissing(d, copies, t, "scan_missing")
    IN  [marked EXCEPT
           !.files = [c \in Copies |-> IF c \in copies
                                       THEN [@[c] EXCEPT !.observed = None]
                                       ELSE @[c]]]

\* "scan finalization predates current checks"
NoNewerCheck(d, j, t) ==
    \A c \in Copies :
        (/\ c[1][1] = d.params[j].collection
         /\ c[2] = d.params[j].location
         /\ d.files[c].checkTime # None)
        => d.files[c].checkTime <= t

\* Fault: partial coverage declares copies missing too.
FinishScanPartialMisses(j, complete, t) ==
    /\ JobRunning(db, j)
    /\ NoNewerCheck(db, j, t)
    /\ CommitRevised(JobFinished(ScanMissing(db, Uncovered(db, j), t), j,
                                 IF complete THEN "complete" ELSE "partial"))

FinishScan(j, complete, t) ==
    /\ JobRunning(db, j)
    /\ complete => NoNewerCheck(db, j, t)
    /\ CommitRevised(
         IF complete
         THEN JobFinished(ScanMissing(db, Uncovered(db, j), t), j, "complete")
         ELSE JobFinished(db, j, "partial"))

\* finish_catalog_job; repeating the recorded status is a no-op.
FinishJob(j, status) ==
    /\ JobRunning(db, j)
    /\ CommitRevised(JobFinished(db, j, status))

-----------------------------------------------------------------------------
(* Selection and catalog-only removal.                                     *)

\* The shared health rule of selection_predicate.
Healthy(d, c) ==
    /\ d.files[c].presence = "present"
    /\ d.files[c].integrity = "verified"
    /\ d.files[c].result = "ok"
    /\ d.files[c].observed = d.expected[c[1]]
    /\ d.files[c].success # None

\* A Location group: some listed Location holds a healthy copy, checked
\* successfully within the group's age window when it has one.
Group == [negated: BOOLEAN, locations: SUBSET Locations \ {{}},
          within: Times \cup {None}]

GroupHolds(d, o, g, asOf) ==
    LET holds == \E l \in g.locations :
                    /\ Healthy(d, <<o, l>>)
                    /\ g.within # None =>
                         /\ d.files[<<o, l>>].success >= asOf - g.within
                         /\ d.files[<<o, l>>].success <= asOf
    IN  IF g.negated THEN ~holds ELSE holds

GroupSelection(d, groups, asOf) ==
    {o \in d.objects :
        /\ d.expected[o] # None
        /\ \A g \in groups : GroupHolds(d, o, g, asOf)}

PathSelection(d, p, collections, target) ==
    {o \in d.objects :
        o[2] = p /\ o[1] \in collections /\ HasRow(d, <<o, target>>)}

\* The rows of the target Location a removal changes.
Affected(d, selected, target) ==
    {c \in selected \X {target} : d.files[c].presence \notin {"norow", "missing"}}

\* mark_removed on frozen ids; an empty selection commits nothing.
RemoveSelected(selected, target, t) ==
    LET copies == Affected(db, selected, target)
    IN  /\ db.locations[target] = "active"
        /\ copies # {}
        /\ \A c \in copies :
              db.files[c].checkTime # None => db.files[c].checkTime <= t
        /\ CommitRevised(MarkedMissing(db, copies, t, "file_removed"))

\* The path form must not be ambiguous between Collections.
RemovePath(p, collections, target, t) ==
    LET selected == PathSelection(db, p, collections, target)
    IN  /\ \A o1, o2 \in selected : o1 = o2
        /\ RemoveSelected(selected, target, t)

\* The group form: its first group is the target alone, not negated.
RemoveGroups(target, within, others, t) ==
    LET first == [negated |-> FALSE, locations |-> {target}, within |-> within]
    IN  RemoveSelected(GroupSelection(db, others \cup {first}, t), target, t)

-----------------------------------------------------------------------------
(* Registry writes: Retire and Update (which reactivates).                 *)

SetCollectionStatus(c, status) ==
    CommitRevised([db EXCEPT !.collections = [@ EXCEPT ![c] = status]])

SetLocationStatus(l, status) ==
    CommitRevised([db EXCEPT !.locations = [@ EXCEPT ![l] = status]])

-----------------------------------------------------------------------------
\* What a caller can pass: a hash exactly with the checksum results.
Inputs ==
    {ob \in Observation :
        (ob.hash # None) <=> (ob.result \in {"checksum", "rejected_checksum"})}

Next ==
    \/ BatchBegin
    \/ \E ob \in Inputs : BatchObserve(ob)
    \/ \E k \in Keys : work.requests[k] # NoRequest /\ BatchReplay(work.requests[k])
    \/ BatchCommit
    \/ BatchRollback
    \/ \E j \in Jobs, p \in JobParams : BeginJob(j, p)
    \/ \E j \in Jobs : ResetScanCoverage(j)
    \/ \E j \in Jobs : CheckpointJob(j)
    \/ \E j \in Jobs, complete \in BOOLEAN, t \in Times : FinishScan(j, complete, t)
    \/ \E j \in Jobs, s \in {"complete", "partial", "cancelled"} : FinishJob(j, s)
    \/ \E p \in Paths, cs \in {{c} : c \in Collections} \cup {Collections},
          l \in Locations, t \in Times : RemovePath(p, cs, l, t)
    \/ \E l \in Locations, w \in Times \cup {None}, t \in Times,
          others \in {{}} \cup {{g} : g \in Group} : RemoveGroups(l, w, others, t)
    \/ \E c \in Collections, s \in {"active", "retired"} : SetCollectionStatus(c, s)
    \/ \E l \in Locations, s \in {"active", "retired"} : SetLocationStatus(l, s)

Spec == Init /\ [][Next]_vars

-----------------------------------------------------------------------------
(* Properties                                                              *)

\* Type correctness of the committed database, of the open transaction's
\* view and of the batch counter; with no transaction open the view is the
\* committed database.
TypeOK ==
    /\ db \in Database
    /\ work \in Database
    /\ batch \in (0 .. MaxBatch) \cup {None}
    /\ changed \in BOOLEAN
    /\ Idle => work = db /\ ~changed

\* observe_in_transaction, finish_catalog_scan and mark_removed: whatever the
\* interleaving of checks, sightings, accepted changes, scans and removals, a
\* copy marked verified is present, was last checked with result ok, and the
\* bytes of that check are the ones its object is expected to have now.
EvidenceIsCurrent(d) ==
    \A c \in Copies :
        d.files[c].integrity = "verified" =>
            /\ d.files[c].presence = "present"
            /\ d.files[c].result = "ok"
            /\ d.expected[c[1]] # None
            /\ d.files[c].observed = d.expected[c[1]]
            /\ d.files[c].success = d.files[c].checkTime
            /\ d.files[c].success # None

VerifiedIsCurrent == EvidenceIsCurrent(db) /\ EvidenceIsCurrent(work)

\* The rows catalog_scan_seen and catalog_job_items of a job exist only while
\* it runs, and only for objects of its Collection that have a copy row at its
\* Location: coverage can neither leak into a later job nor vouch for a copy
\* outside the scope of the scan, in the database and inside a batch.
CoverageIn(d) ==
    \A j \in Jobs : \A o \in d.seen[j] \cup d.items[j] :
        /\ d.status[j] = "running"
        /\ o[1] = d.params[j].collection
        /\ HasRow(d, <<o, d.params[j].location>>)

CoverageInScope == CoverageIn(db) /\ CoverageIn(work)

\* The history table explains the current state: the newest check row of a
\* copy has the time and the result stored with the copy, the newest identity
\* row of an object names its expected checksum, and a verified copy was
\* judged against that checksum and not against an older one, in the database
\* and inside every transaction.
Explained(d) ==
    /\ \A c \in Copies :
          /\ d.audit[c].time = d.files[c].checkTime
          /\ d.audit[c].result = d.files[c].result
          /\ d.files[c].integrity = "verified" =>
                d.audit[c].expected = d.expected[c[1]]
    /\ \A o \in Objects :
          d.changes[o].new # None => d.expected[o] = d.changes[o].new

AuditExplainsCopies == Explained(db) /\ Explained(work)

\* mark_removed with a second, positive group that does not list the target:
\* whatever the catalog holds, every object whose copy the removal declares
\* missing still has a healthy copy at a Location of that group afterwards.
RemovalKeepsAReplica ==
    \A target \in Locations, t \in Times :
        \A others \in SUBSET (Locations \ {target}) \ {{}} :
            LET group == [negated |-> FALSE, locations |-> others, within |-> None]
                selected == GroupSelection(db, {group}, t)
                after == MarkedMissing(db, Affected(db, selected, target), t,
                                       "file_removed")
            IN  \A c \in Affected(db, selected, target) :
                    \E l \in others : Healthy(after, <<c[1], l>>)

\* A step that is not the end (commit or rollback) of a batch.
WithinTransaction == Idle \/ batch' # None

\* Damage is sticky: a copy stops being damaged only through a check of that
\* copy that read good bytes or found it missing, through a scan or a removal
\* that declares it missing, or because a changed checksum was accepted for
\* its object; never through a sighting or a failed read.
DamageOutlivesSightings ==
    [][WithinTransaction =>
        \A c \in Copies :
            (/\ work.files[c].integrity = "damaged"
             /\ work'.files[c].integrity # "damaged")
            => \/ work'.files[c].result \in {"ok", "missing"}
               \/ work'.expected[c[1]] # work.expected[c[1]]]_vars

\* No write moves the last check of a copy back in time, however the clocks
\* of the writers are ordered: late results are refused, not applied.
ChecksNeverGoBack ==
    [][\A c \in Copies :
          db.files[c].checkTime # None =>
              /\ db'.files[c].checkTime # None
              /\ db'.files[c].checkTime >= db.files[c].checkTime]_vars

\* A retired Collection or Location gains no healthy copy: a scan that was
\* running when it was retired can still declare copies missing, nothing else.
RetiredScopeGainsNothing ==
    [][\A c \in Copies :
          (/\ \/ db.collections[c[1][1]] = "retired"
              \/ db.locations[c[2]] = "retired"
           /\ Healthy(db', c))
          => Healthy(db, c)]_vars

\* What a query can return.
Content(d) == <<d.objects, d.expected, d.files, d.audit, d.changes,
                d.collections, d.locations, d.status, d.params>>

\* The revision identifies the content: a step that changes anything a query
\* can return advances it by exactly one, and it never goes back.  Replayed
\* keyed writes, coverage resets and checkpoints change nothing a query
\* returns and leave it alone.
RevisionCoversContent ==
    [][/\ Content(db') # Content(db) => db'.revision = db.revision + 1
       /\ db'.revision \in {db.revision, db.revision + 1}]_vars

\* Terminal jobs stay as they finished, and a copy gets a scan_missing row only
\* in the step in which a job of its scope goes from running to complete
\* without having seen it: partial and cancelled scans declare nothing missing.
OnlyCompleteScansDeclareMissing ==
    [][/\ \A j \in Jobs :
             db.status[j] \in {"complete", "partial", "cancelled"} =>
                db'.status[j] = db.status[j] /\ db'.params[j] = db.params[j]
       /\ \A c \in Copies :
             (/\ db'.audit[c] # db.audit[c]
              /\ db'.audit[c].kind = "scan_missing")
             => \E j \in Jobs :
                   /\ db.status[j] = "running"
                   /\ db'.status[j] = "complete"
                   /\ db.params[j].collection = c[1][1]
                   /\ db.params[j].location = c[2]
                   /\ c[1] \notin db.seen[j]]_vars
=============================================================================
