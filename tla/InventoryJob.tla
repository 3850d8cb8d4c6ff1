----------------------------- MODULE InventoryJob -----------------------------
(***************************************************************************)
(* Location scans and collection adds on one installation of an Archive    *)
(* with canonical records (v2_inventory.rs add_files and cancel_job,       *)
(* job.rs, and the projection of what they publish).                       *)
(*                                                                         *)
(* A job keeps three kinds of local files: its configuration, the spool of *)
(* outcomes to publish and the index of paths it has decided, with the     *)
(* checkpoint that ties the index to a length of the spool.  It publishes  *)
(* everything in one batch when the walk is over, projects the batch into  *)
(* the catalog database and removes its files.  Any number of processes    *)
(* start, resume and cancel jobs and are killed anywhere.                  *)
(*                                                                         *)
(* One Location, one Collection, ordinary files; a batch is one element of *)
(* the log (how it gets there is OriginStore's subject) and is projected   *)
(* in one transaction.                                                     *)
(***************************************************************************)
EXTENDS Integers, Sequences, FiniteSets, SequencesExt

CONSTANTS
    Paths, Hashes,
    Cataloged,   \* the paths that an earlier add has cataloged
    Expected,    \* and the content it found in them
    ScanJobs,    \* `location scan`: complete mode
    AddJobs,     \* `collection add`
    AcceptJobs,  \* `collection add --accept-changes` of every cataloged path
    Procs,
    None,
    BatchEntries, \* decisions between two checkpoints
    MaxStarts,    \* bound on commands started
    MaxEdits      \* bound on changes to the files

Jobs == ScanJobs \cup AddJobs \cup AcceptJobs

ASSUME FinitelyManyPaths == IsFiniteSet(Paths)
ASSUME OneKindPerJob ==
    /\ ScanJobs \cap AddJobs = {} /\ ScanJobs \cap AcceptJobs = {}
    /\ AddJobs \cap AcceptJobs = {}
ASSUME CatalogedPaths == Cataloged \subseteq Paths
ASSUME ExpectedHash == Expected \in Hashes
ASSUME NoneIsNothing == None \notin Paths \cup Hashes \cup Jobs
ASSUME PositiveBatches == BatchEntries \in Nat \ {0}

VARIABLES
    disk,      \* content of every file of the Location
    log,       \* accepted batches
    committed, \* how many of them Git has committed
    db,        \* the catalog database
    local,     \* the local files of every job
    proc,      \* the running commands
    starts, edits

vars == <<disk, log, committed, db, local, proc, starts, edits>>

Terminal == {"complete", "partial"}

-----------------------------------------------------------------------------
(* The projection.                                                         *)

Started == [kind |-> "started"]
Observed(p, h) == [kind |-> "observed", path |-> p, object |-> h]
Failed(p) == [kind |-> "failed", path |-> p]
Completed(status, missing) ==
    [kind |-> "completed", status |-> status, missing |-> missing]

\* The paths that outcomes of one kind are about.
PathsOf(items, kind) ==
    {items[i].path : i \in {n \in DOMAIN items : items[n].kind = kind}}

ObjectIn(items, p) ==
    LET i == CHOOSE n \in DOMAIN items : /\ items[n].kind = "observed"
                                         /\ items[n].path = p
    IN  items[i].object

Outcome(batch) == Last(batch.items)

\* The candidates of a complete scan take effect when its batch is complete.
Activated(batch) == Outcome(batch).missing

\* A content observation gives the File at its path its expected content.
IdentAfter(ident, batch) ==
    [p \in Paths |-> IF p \in PathsOf(batch.items, "observed")
                     THEN ObjectIn(batch.items, p) ELSE ident[p]]

\* It makes the Copy present; a failed check makes it corrupt.
CopiesAfter(copies, batch) ==
    [p \in Paths |-> CASE p \in Activated(batch) -> "missing"
                       [] p \in PathsOf(batch.items, "failed") -> "corrupt"
                       [] p \in PathsOf(batch.items, "observed") -> "present"
                       [] OTHER -> copies[p]]

RowsAfter(rows, batch) ==
    [j \in Jobs |-> IF j = batch.job THEN Outcome(batch).status ELSE rows[j]]

Project(d, batch) ==
    [d EXCEPT !.ident = IdentAfter(@, batch), !.copies = CopiesAfter(@, batch),
              !.rows = RowsAfter(@, batch)]

EmptyDb ==
    [ident |-> [p \in Paths |-> None], copies |-> [p \in Paths |-> "none"],
     rows |-> [j \in Jobs |-> "none"], records |-> 0, cursor |-> 0]

\* The newest of a set of batches.
Newest(batches) == CHOOSE n \in batches : \A m \in batches : m <= n

\* The first n batches that give a path its content, that say where its Copy
\* stands, and that are about a job.
Identifying(n, p) == {m \in 1 .. n : p \in PathsOf(log[m].items, "observed")}
Placing(n, p) ==
    {m \in 1 .. n : p \in UNION {PathsOf(log[m].items, "observed"),
                                PathsOf(log[m].items, "failed"), Activated(log[m])}}
About(n, j) == {m \in 1 .. n : log[m].job = j}

\* What create_from_store builds from the first n batches: it projects them in
\* order into an empty database, so the newest batch that speaks of a path or
\* of a job decides what is stored for it.
Replayed(n) ==
    [ident |-> [p \in Paths |->
        IF Identifying(n, p) = {} THEN None
        ELSE ObjectIn(log[Newest(Identifying(n, p))].items, p)],
     copies |-> [p \in Paths |->
        IF Placing(n, p) = {} THEN "none"
        ELSE CopiesAfter(EmptyDb.copies, log[Newest(Placing(n, p))])[p]],
     rows |-> [j \in Jobs |->
        IF About(n, j) = {} THEN "none" ELSE Outcome(log[Newest(About(n, j))]).status],
     records |-> n, cursor |-> n]

Present(p) == db.copies[p] \in {"present", "corrupt"}

-----------------------------------------------------------------------------
(* Local files and processes.                                              *)

NoCheckpoint == [len |-> 0, seen |-> {}, unchanged |-> 0, errors |-> 0]
NoFiles == [there |-> {}, spool |-> <<>>, checkpoint |-> NoCheckpoint]

\* The order in which cleanup removes the files of a job.
JobFiles == <<"config", "spool", "index">>

IdleProc ==
    [pc |-> "idle", job |-> None, cancel |-> FALSE, next |-> 0, target |-> 0,
     items |-> <<>>, seen |-> {}, unchanged |-> 0, errors |-> 0,
     todo |-> {}, fresh |-> 0, after |-> "walk", bad |-> FALSE, kept |-> {}]

\* An archive whose cataloged files were added once; nothing has run since.
SeedBatch ==
    [job |-> None,
     items |-> Append(SetToSeq({Observed(p, Expected) : p \in Cataloged}),
                      Completed("complete", {}))]

Init ==
    /\ disk = [p \in Paths |-> Expected]
    /\ log = <<SeedBatch>> /\ committed = 1
    /\ db = [Project(EmptyDb, SeedBatch) EXCEPT !.records = 1, !.cursor = 1]
    /\ local = [j \in Jobs |-> NoFiles]
    /\ proc = [x \in Procs |-> IdleProc]
    /\ starts = 0 /\ edits = 0

Leave(x) == proc' = [proc EXCEPT ![x] = IdleProc]

\* The lock file of a job is held as long as its process lives.
Locked(j) == \E x \in Procs : proc[x].job = j

\* append.lock: between the new HEAD and its Git commit.
Appending == \E x \in Procs : proc[x].pc = "publish"

Unfinished(k) ==
    \/ db.rows[k] = "running"
    \/ db.rows[k] = "none" /\ "config" \in local[k].there

\* `location scan`, `collection add`, `job resume` or `job cancel`.
Start(x, j, cancel) ==
    /\ proc[x].pc = "idle"
    /\ starts < MaxStarts
    /\ j \in ScanJobs /\ ~cancel => \A k \in ScanJobs \ {j} : ~Unfinished(k)
    /\ ~Locked(j)
    /\ proc' = [proc EXCEPT ![x] = [IdleProc EXCEPT !.pc = "settle", !.job = j,
                                                    !.cancel = cancel]]
    /\ starts' = starts + 1
    /\ UNCHANGED <<disk, log, committed, db, local, edits>>

\* Fault: a job is cancelled on a row that the log has overtaken.
SettleForCancel(x) ==
    /\ proc[x].pc = "settle"
    /\ ~Appending
    /\ committed' = Len(log)
    /\ proc' = [proc EXCEPT ![x] =
          [@ EXCEPT !.pc = IF proc[x].cancel THEN "apply" ELSE "open",
                    !.next = db.cursor, !.target = Len(log)]]
    /\ UNCHANGED <<disk, log, db, local, starts, edits>>

\* recover_pending_publication finishes an interrupted publication; apply
\* then reads the cursor and the accepted frontier.
Settle(x) ==
    /\ proc[x].pc = "settle"
    /\ ~Appending
    /\ committed' = Len(log)
    /\ proc' = [proc EXCEPT ![x] = [@ EXCEPT !.pc = "apply", !.next = db.cursor,
                                             !.target = Len(log)]]
    /\ UNCHANGED <<disk, log, db, local, starts, edits>>

-----------------------------------------------------------------------------
(* V2ProjectionDb::apply                                                   *)

\* Fault: a batch is projected again when the cursor was moved back.
ApplyBatchAgain(x) ==
    LET n == proc[x].next + 1
    IN  /\ proc[x].pc = "apply"
        /\ n <= proc[x].target
        /\ db' = [Project(db, log[n])
                     EXCEPT !.records = IF n > @ THEN n ELSE @, !.cursor = n]
        /\ proc' = [proc EXCEPT ![x].next = n]
        /\ UNCHANGED <<disk, log, committed, local, starts, edits>>

\* A batch whose records are there already changes nothing but the cursor,
\* which another process may have moved further.
ApplyBatch(x) ==
    LET n == proc[x].next + 1
    IN  /\ proc[x].pc = "apply"
        /\ n <= proc[x].target
        /\ db' = [(IF n > db.records THEN Project(db, log[n]) ELSE db)
                     EXCEPT !.records = IF n > @ THEN n ELSE @, !.cursor = n]
        /\ proc' = [proc EXCEPT ![x].next = n]
        /\ UNCHANGED <<disk, log, committed, local, starts, edits>>

\* The cursor must be where this process left it.
ApplyEnd(x) ==
    /\ proc[x].pc = "apply"
    /\ proc[x].next = proc[x].target
    /\ IF db.cursor = proc[x].target
       THEN proc' = [proc EXCEPT ![x].pc =
                        IF proc[x].after = "cleanup" THEN "cleanup" ELSE "open"]
       ELSE Leave(x)
    /\ UNCHANGED <<disk, log, committed, db, local, starts, edits>>

-----------------------------------------------------------------------------
(* add_files: opening the job                                              *)

\* Paths that a job walks, and the ones it refuses to start without.
Walked(j) == IF j \in AcceptJobs THEN Cataloged ELSE Paths
Selectable(j) == j \in AcceptJobs =>
    \A p \in Cataloged : disk[p] # None /\ db.ident[p] # None

\* recover_inventory_checkpoint: everything behind the checkpoint goes.
Checkpointed(f) == SubSeq(f.spool, 1, f.checkpoint.len)
SpoolOK(f) == Len(f.spool) >= f.checkpoint.len
NewJob(f) == f.checkpoint.len = 0

\* Cancelled jobs are refused, published ones only cleaned up.
OpenFinished(x) ==
    LET j == proc[x].job
    IN  /\ proc[x].pc = "open" /\ ~proc[x].cancel
        /\ db.rows[j] \in Terminal \cup {"cancelled"}
        /\ IF db.rows[j] = "cancelled" THEN Leave(x)
           ELSE proc' = [proc EXCEPT ![x].pc = "cleanup"]
        /\ UNCHANGED <<disk, log, committed, db, local, starts, edits>>

\* The configuration and the row are written, the spool is cut back to its
\* checkpoint and the index holds what the checkpoint says.
Open(x) ==
    LET j == proc[x].job
        f == local[j]
        kept == Checkpointed(f)
    IN  /\ proc[x].pc = "open" /\ ~proc[x].cancel
        /\ db.rows[j] \in {"none", "running"}
        /\ Selectable(j)
        /\ SpoolOK(f)
        /\ db' = [db EXCEPT !.rows[j] = "running"]
        /\ local' = [local EXCEPT ![j] = [@ EXCEPT !.there = Range(JobFiles),
                                                    !.spool = kept]]
        /\ proc' = [proc EXCEPT ![x] =
              [@ EXCEPT !.pc = "checkpoint", !.after = "walk",
                        !.items = IF NewJob(f) THEN <<Started>> ELSE kept,
                        !.seen = f.checkpoint.seen,
                        !.unchanged = f.checkpoint.unchanged,
                        !.errors = f.checkpoint.errors,
                        !.todo = Walked(j),
                        !.kept = {p \in Paths : disk[p] # None}]]
        /\ UNCHANGED <<disk, log, committed, starts, edits>>

\* A selected file that is not there stops the job before it writes; a spool
\* that is shorter than its checkpoint stops it afterwards.
OpenRefused(x) ==
    LET j == proc[x].job
    IN  /\ proc[x].pc = "open" /\ ~proc[x].cancel
        /\ db.rows[j] \in {"none", "running"}
        /\ \/ /\ ~Selectable(j)
              /\ UNCHANGED <<db, local>>
           \/ /\ Selectable(j) /\ ~SpoolOK(local[j])
              /\ db' = [db EXCEPT !.rows[j] = "running"]
              /\ local' = [local EXCEPT ![j].there = @ \cup {"config", "index"}]
        /\ Leave(x)
        /\ UNCHANGED <<disk, log, committed, starts, edits>>

-----------------------------------------------------------------------------
(* add_files: the walk                                                     *)

\* Fault: the index is committed and the spool is left to the page cache.
CheckpointUnsynced(x) ==
    LET j == proc[x].job
        w == proc[x]
    IN  /\ w.pc = "checkpoint"
        /\ local' = [local EXCEPT
              ![j].checkpoint = [len |-> Len(w.items), seen |-> w.seen,
                                 unchanged |-> w.unchanged, errors |-> w.errors]]
        /\ IF w.after = "paused" THEN Leave(x)
           ELSE proc' = [proc EXCEPT ![x] = [@ EXCEPT !.pc = w.after, !.fresh = 0]]
        /\ UNCHANGED <<disk, log, committed, db, starts, edits>>

\* checkpoint_inventory: the spool is synced, then index, spool length and
\* counters are committed together.  (A crash in between leaves a spool that
\* is longer than the checkpoint, as Crash does.)
Checkpoint(x) ==
    LET j == proc[x].job
        w == proc[x]
    IN  /\ w.pc = "checkpoint"
        /\ local' = [local EXCEPT ![j] = [@ EXCEPT !.spool = w.items,
              !.checkpoint = [len |-> Len(w.items), seen |-> w.seen,
                              unchanged |-> w.unchanged, errors |-> w.errors]]]
        /\ IF w.after = "paused" THEN Leave(x)
           ELSE proc' = [proc EXCEPT ![x] = [@ EXCEPT !.pc = w.after, !.fresh = 0]]
        /\ UNCHANGED <<disk, log, committed, db, starts, edits>>

\* The next entry of the walk; after BatchEntries decisions a checkpoint
\* comes first.
At(x, p) ==
    /\ proc[x].pc = "walk"
    /\ p \in proc[x].todo
    /\ proc[x].fresh < BatchEntries

\* A decided path is in the index; w carries what else the decision changes.
Decide(x, p, w) ==
    /\ At(x, p)
    /\ disk[p] # None
    /\ p \notin proc[x].seen
    /\ proc' = [proc EXCEPT ![x] =
          [w EXCEPT !.todo = @ \ {p}, !.seen = @ \cup {p}, !.fresh = @ + 1]]
    /\ UNCHANGED <<disk, log, committed, db, local, starts, edits>>

\* Not there, or decided before the job was interrupted.  (A selected file
\* that has gone is an error return, which Crash stands for.)
Skip(x, p) ==
    /\ At(x, p)
    /\ \/ disk[p] = None /\ proc[x].job \notin AcceptJobs
       \/ p \in proc[x].seen
    /\ proc' = [proc EXCEPT ![x].todo = @ \ {p}]
    /\ UNCHANGED <<disk, log, committed, db, local, starts, edits>>

\* copy_unchanged: size and time are those of a good copy, so it is not read.
Unchanged(x, p) ==
    /\ proc[x].job \notin AcceptJobs
    /\ db.copies[p] = "present" /\ db.ident[p] = disk[p]
    /\ Decide(x, p, [proc[x] EXCEPT !.unchanged = @ + 1])

\* The file cannot be read, or changes while it is hashed.
Unreadable(x, p) == Decide(x, p, [proc[x] EXCEPT !.errors = @ + 1])

\* Content of a new path, the expected content, or an accepted change is an
\* observation; other content of a known path is a failed check.
Verdict(j, p) ==
    IF db.ident[p] \in {None, disk[p]} \/ j \in AcceptJobs
    THEN Observed(p, disk[p]) ELSE Failed(p)

Read(x, p) ==
    Decide(x, p, [proc[x] EXCEPT !.items = Append(@, Verdict(proc[x].job, p))])

CheckpointDue(x) ==
    /\ proc[x].pc = "walk"
    /\ proc[x].fresh >= BatchEntries
    /\ proc' = [proc EXCEPT ![x] = [@ EXCEPT !.pc = "checkpoint", !.after = "walk"]]
    /\ UNCHANGED <<disk, log, committed, db, local, starts, edits>>

\* max_items stops the pass at the next undecided file.
Pause(x) ==
    /\ \E p \in Paths : At(x, p) /\ disk[p] # None /\ p \notin proc[x].seen
    /\ proc' = [proc EXCEPT ![x] = [@ EXCEPT !.pc = "checkpoint", !.after = "paused"]]
    /\ UNCHANGED <<disk, log, committed, db, local, starts, edits>>

\* The walk is over; it met errors or changing directories, or not.
EndWalk(x, bad) ==
    /\ proc[x].pc = "walk"
    /\ proc[x].todo = {}
    /\ proc' = [proc EXCEPT ![x] = [@ EXCEPT !.pc = "checkpoint", !.after = "finish",
                                             !.bad = bad]]
    /\ UNCHANGED <<disk, log, committed, db, local, starts, edits>>

-----------------------------------------------------------------------------
(* add_files: publication                                                  *)

CompleteSafe(w) == w.job \in ScanJobs /\ w.errors = 0 /\ ~w.bad

\* Fault: the spooled outcomes are compared instead of the index.
MissingFromSpool(w) ==
    IF CompleteSafe(w)
    THEN {p \in Paths : Present(p) /\ p \notin PathsOf(w.items, "observed")} ELSE {}

MissingCandidates(w) ==
    IF CompleteSafe(w) THEN {p \in Paths : Present(p) /\ p \notin w.seen} ELSE {}

\* Missing candidates and the completion are spooled, behind the checkpoint.
Finish(x) ==
    LET w == proc[x]
        status == IF w.job \in ScanJobs /\ ~CompleteSafe(w) THEN "partial"
                  ELSE "complete"
        all == Append(w.items, Completed(status, MissingCandidates(w)))
    IN  /\ w.pc = "finish"
        /\ local' = [local EXCEPT ![w.job].spool = all]
        /\ proc' = [proc EXCEPT ![x] = [@ EXCEPT !.pc = "append", !.items = all]]
        /\ UNCHANGED <<disk, log, committed, db, starts, edits>>

\* The spool becomes a batch; an interrupted publication goes first.
AppendBatch(x) ==
    LET j == proc[x].job
    IN  /\ proc[x].pc = "append"
        /\ ~Appending
        /\ committed' = Len(log)
        /\ log' = Append(log, [job |-> j, items |-> local[j].spool])
        /\ proc' = [proc EXCEPT ![x] = [IdleProc EXCEPT !.pc = "publish", !.job = j,
                                                        !.after = "cleanup"]]
        /\ UNCHANGED <<disk, db, local, starts, edits>>

\* The Git commit; then apply starts again.
Publish(x) ==
    /\ proc[x].pc = "publish"
    /\ committed' = Len(log)
    /\ proc' = [proc EXCEPT ![x] = [@ EXCEPT !.pc = "apply", !.next = db.cursor,
                                             !.target = Len(log)]]
    /\ UNCHANGED <<disk, log, db, local, starts, edits>>

\* One file at a time.
Cleanup(x) ==
    LET j == proc[x].job
        left == SelectSeq(JobFiles, LAMBDA f : f \in local[j].there)
    IN  /\ proc[x].pc = "cleanup"
        /\ IF left = <<>> THEN Leave(x) /\ UNCHANGED local
           ELSE /\ local' = [local EXCEPT ![j] =
                       [local[j] EXCEPT
                           !.there = @ \ {Head(left)},
                           !.spool = IF Head(left) = "spool" THEN <<>> ELSE @,
                           !.checkpoint = IF Head(left) = "index" THEN NoCheckpoint
                                          ELSE @]]
                /\ UNCHANGED proc
        /\ UNCHANGED <<disk, log, committed, db, starts, edits>>

-----------------------------------------------------------------------------
(* cancel_job, db rebuild, and what happens to processes and files         *)

\* A job without a row is known by its configuration.
Cancellable(j) ==
    \/ db.rows[j] = "none" /\ "config" \in local[j].there
    \/ db.rows[j] = "running"
    \/ db.rows[j] = "cancelled" /\ local[j].there # {}

CancelJob(x) ==
    LET j == proc[x].job
    IN  /\ proc[x].pc = "open" /\ proc[x].cancel
        /\ IF Cancellable(j)
           THEN /\ db' = [db EXCEPT !.rows[j] = IF @ = "none" THEN @ ELSE "cancelled"]
                /\ proc' = [proc EXCEPT ![x].pc = "cleanup"]
           ELSE Leave(x) /\ UNCHANGED db
        /\ UNCHANGED <<disk, log, committed, local, starts, edits>>

\* Run while no job is active; rows of unpublished jobs are not rebuilt.
Rebuild ==
    /\ \A x \in Procs : proc[x].pc = "idle"
    /\ db # Replayed(Len(log))
    /\ db' = Replayed(Len(log))
    /\ UNCHANGED <<disk, log, committed, local, proc, starts, edits>>

\* Killed, or an error return.  Of what was written behind the last sync of
\* the spool any part may have reached the file.
Crash(x) ==
    LET w == proc[x]
    IN  /\ w.pc # "idle"
        /\ Leave(x)
        /\ IF w.pc \in {"checkpoint", "walk"}
           THEN \E n \in Len(local[w.job].spool) .. Len(w.items) :
                    local' = [local EXCEPT ![w.job].spool = SubSeq(w.items, 1, n)]
           ELSE UNCHANGED local
        /\ UNCHANGED <<disk, log, committed, db, starts, edits>>

\* Somebody changes, creates or deletes a file.
Edit(p, h) ==
    /\ edits < MaxEdits
    /\ h # disk[p]
    /\ disk' = [disk EXCEPT ![p] = h]
    /\ proc' = [x \in Procs |-> [proc[x] EXCEPT !.kept = IF h = None THEN @ \ {p} ELSE @]]
    /\ edits' = edits + 1
    /\ UNCHANGED <<log, committed, db, local, starts>>

Step(x) ==
    \/ Settle(x) \/ ApplyBatch(x) \/ ApplyEnd(x)
    \/ OpenFinished(x) \/ Open(x) \/ OpenRefused(x) \/ CancelJob(x)
    \/ Checkpoint(x) \/ CheckpointDue(x)
    \/ \E p \in Paths : Skip(x, p) \/ Unchanged(x, p) \/ Unreadable(x, p) \/ Read(x, p)
    \/ \E bad \in BOOLEAN : EndWalk(x, bad)
    \/ Finish(x) \/ AppendBatch(x) \/ Publish(x) \/ Cleanup(x)

Next ==
    \/ \E x \in Procs : \/ Step(x) \/ Pause(x) \/ Crash(x)
                        \/ \E j \in Jobs, c \in BOOLEAN : Start(x, j, c)
    \/ \E p \in Paths, h \in Hashes \cup {None} : Edit(p, h)
    \/ Rebuild

Spec == Init /\ [][Next]_vars
-----------------------------------------------------------------------------
(* Properties                                                              *)

Statuses == {"none", "running", "complete", "partial", "cancelled"}

\* Types; the cursor never runs ahead of the records, nor the records ahead
\* of the log, and at most one accepted batch waits for its Git commit.
TypeOK ==
    /\ disk \in [Paths -> Hashes \cup {None}]
    /\ \A n \in DOMAIN log : log[n].job \in Jobs \cup {None}
    /\ db.ident \in [Paths -> Hashes \cup {None}]
    /\ db.copies \in [Paths -> {"none", "present", "corrupt", "missing"}]
    /\ db.rows \in [Jobs -> Statuses]
    /\ db.cursor <= db.records /\ db.records <= Len(log)
    /\ committed \in {Len(log) - 1, Len(log)}
    /\ \A j \in Jobs : local[j].there \subseteq Range(JobFiles)
    /\ \A x \in Procs : proc[x].seen \subseteq Paths /\ proc[x].todo \subseteq Paths

\* A job's outcomes enter the log once, however often it is killed, resumed,
\* cancelled or forgotten by a rebuild: the log does not compare operation
\* keys, and a second batch could never be projected.  A job that the database
\* calls cancelled has none ("this job had published nothing to catalog
\* history").
PublishedOnce ==
    /\ \A m, n \in DOMAIN log : log[m].job = log[n].job => m = n
    /\ \A j \in Jobs : db.rows[j] = "cancelled" => \A n \in DOMAIN log : log[n].job # j

\* Whatever a crash leaves, the spool reaches to its checkpoint, and the
\* paths of the index are exactly the outcomes up to there and the counted
\* paths without one: nothing is called decided whose outcome is lost.
CheckpointIsConsistent ==
    \A j \in Jobs :
        LET c == local[j].checkpoint
            upTo == SubSeq(local[j].spool, 1, c.len)
            decided == PathsOf(upTo, "observed") \cup PathsOf(upTo, "failed")
        IN  {"config", "spool"} \subseteq local[j].there =>
                /\ Len(local[j].spool) >= c.len
                /\ decided \subseteq c.seen
                /\ Cardinality(c.seen) = Cardinality(decided) + c.unchanged + c.errors

\* A batch says one thing of a path: two outcomes have the same operation
\* key, which the projection refuses for good, and a path that was decided
\* is not missing.
DecidedOnce ==
    \A n \in DOMAIN log :
        LET items == log[n].items
            decided == {i \in DOMAIN items : items[i].kind \in {"observed", "failed"}}
        IN  /\ \A i, k \in decided : items[i].path = items[k].path => i = k
            /\ \A i \in decided : items[i].path \notin Outcome(log[n]).missing

\* What a job found out is decided once and published once
\* (v2_inventory.rs recover_published_job, truncation to the checkpoint).
OutcomesOnce == PublishedOnce /\ DecidedOnce

\* However applies interleave and are cut short, the database is what a
\* rebuild from the same batches gives, but for the rows of unpublished jobs.
ReplayIsExact ==
    LET r == Replayed(db.records)
    IN  /\ db.ident = r.ident /\ db.copies = r.copies
        /\ \A j \in Jobs : r.rows[j] # "none" => db.rows[j] = r.rows[j]

\* A scan about to publish declares nothing missing that was there during
\* the whole of its last pass.
MissingWasGone ==
    \A x \in Procs : proc[x].pc = "append" =>
        Last(proc[x].items).missing \cap proc[x].kept = {}

\* "It never silently emits a replacement content_observed for differing
\* bytes": the expected content of a File changes by an accepted change only.
\* TLC refutes it: README, "Met while modelling".
ImmutableByDefault ==
    [][\A p \in Paths : db.ident[p] # None /\ db'.ident[p] # db.ident[p] =>
           log[db'.records].job \in AcceptJobs]_vars

=============================================================================
