------------------------------ MODULE CatalogCli ------------------------------
(***************************************************************************)
(* Command invocations working on one SQLite catalog and on the file       *)
(* systems behind its Locations: `location scan` (run_inventory over       *)
(* FileDiscovery), `verify --all` (run_verify), `copy` (run_copy over      *)
(* copy_verified_no_replace), `collection add --accept-changes`, `job      *)
(* resume` and `job cancel`.  An invocation is an operating system         *)
(* process: it can be killed between any two steps, several run at once,   *)
(* and nothing but SQLite's write lock orders them.                        *)
(*                                                                         *)
(* A Location is a root directory with one subdirectory (SubPaths live in  *)
(* it).  FileDiscovery keeps the root's frame on its stack during the      *)
(* whole walk and the subdirectory's frame while it enumerates it; it      *)
(* compares a directory's metadata only when it pops that directory's      *)
(* frame.  A batch holds one observation (--batch-entries 1), so an        *)
(* observation is read from disk and stamped in one step and committed in  *)
(* a later one.                                                            *)
(***************************************************************************)
EXTENDS Catalog

CONSTANTS
    Procs,      \* concurrent invocations
    SubPaths,   \* paths inside the subdirectory
    Scans,      \* jobs used by `location scan`
    Verifies,   \* jobs used by `verify`
    Copiers,    \* jobs used by `copy`
    Source,     \* Location that copies read from
    Target,     \* Location that is scanned, verified and copied to
    Rank,       \* order of the object ids of the paths
    OneRunner,  \* is every job worked on by at most one process at a time?
    MaxEdits,   \* bound on file system changes by the user
    MaxRuns     \* bound on invocations

\* Setup has registered a Collection; without checksums nothing was scanned.
ASSUME SomethingToSurvey == Collections # {} /\ Hashes # {}

ASSUME CliAssumption ==
    /\ SubPaths \subseteq Paths
    /\ Scans \cup Verifies \cup Copiers \subseteq Jobs
    /\ {"inventory", "verify", "copy"} \subseteq Kinds
    /\ {Source, Target} \subseteq Locations /\ Source # Target
    /\ Rank \in [Paths -> Nat \ {0}]
    /\ \A p, q \in Paths : Rank[p] = Rank[q] => p = q
    /\ OneRunner \in BOOLEAN
    /\ MaxEdits \in Nat /\ MaxRuns \in Nat

VARIABLES
    disk,    \* what each path holds at each Location
    now,     \* wall clock
    proc,    \* state of every invocation
    edits,   \* user changes so far
    runs,    \* invocations so far
    held     \* every content a path ever held at a Location

cliVars == <<disk, now, proc, edits, runs, held>>
allVars == <<vars, cliVars>>

Coll == CHOOSE c \in Collections : TRUE
Object(p) == <<Coll, p>>
Copy(p, l) == <<Object(p), l>>
DirOf(p) == IF p \in SubPaths THEN "sub" ELSE "root"

NoObservation == [result |-> None]

\* left: entries or rows still to handle; want: the checksums a page of
\* `copy` was selected with; item: the path being placed.  The properties
\* also read absent, the paths absent from Target at some moment of the pass.
IdleProc ==
    [pc |-> "idle", job |-> None, left |-> {}, frames |-> {}, unread |-> {},
     touched |-> {}, clean |-> TRUE, cursor |-> 0,
     want |-> [p \in Paths |-> None], item |-> None, pend |-> NoObservation,
     absent |-> {}]

Kind(j) == CASE j \in Scans -> "inventory"
             [] j \in Verifies -> "verify"
             [] j \in Copiers -> "copy"

ParamsOf(j) == [kind |-> Kind(j), collection |-> Coll, location |-> Target]

\* The catalog after Source was scanned completely, and Target when it held
\* the paths `known`.
Surveyed(known, h) ==
    LET good == [presence |-> "present", integrity |-> "verified",
                 checkTime |-> 0, result |-> "ok", observed |-> h, success |-> 0]
        row == [kind |-> "file_checked", time |-> 0, result |-> "ok", expected |-> h]
        copies == {Copy(p, Source) : p \in Paths} \cup {Copy(p, Target) : p \in known}
    IN  [EmptyCatalog EXCEPT
           !.objects = {Object(p) : p \in Paths},
           !.expected = [o \in Objects |-> IF o[1] = Coll THEN h ELSE None],
           !.files = [c \in Copies |-> IF c \in copies THEN good ELSE NoFileRow],
           !.audit = [c \in Copies |-> IF c \in copies THEN row ELSE NoAuditRow]]

CliInit ==
    \E known \in SUBSET Paths :
        LET h == CHOOSE x \in Hashes : TRUE
        IN  /\ db = Surveyed(known, h)
            /\ work = db
            /\ batch = None
            /\ changed = FALSE
            /\ disk = [pl \in Paths \X Locations |->
                         IF pl[2] = Source \/ (pl[2] = Target /\ pl[1] \in known)
                         THEN h ELSE None]
            /\ now = 0
            /\ proc = [x \in Procs |-> IdleProc]
            /\ edits = 0
            /\ runs = 0
            /\ held = [pl \in Paths \X Locations |-> {disk[pl]}]

Observe(p, l, result, hash, j) ==
    [collection |-> Coll, path |-> p, location |-> l, time |-> now,
     result |-> result, hash |-> hash, accept |-> FALSE, key |-> None, job |-> j]

Exit(x) == proc' = [proc EXCEPT ![x] = IdleProc]

\* Nothing outside the catalog and the processes changes.
WorldUntouched == UNCHANGED <<disk, now, edits, runs, held>>

-----------------------------------------------------------------------------
(* Starting, resuming, stopping                                            *)

\* begin_catalog_job: a new id gets a row; a running job is continued by
\* whoever names it; a finished one ends the invocation at once.
Start(x, j) ==
    /\ proc[x].pc = "idle"
    /\ runs < MaxRuns
    /\ OneRunner => \A y \in Procs : proc[y].job # j
    /\ runs' = runs + 1
    /\ \/ BeginJob(j, ParamsOf(j))
       \/ JobRunning(db, j) /\ UNCHANGED vars
    /\ proc' = [proc EXCEPT ![x] =
                  [IdleProc EXCEPT !.pc = IF j \in Scans THEN "reset" ELSE "select",
                                   !.job = j]]
    /\ UNCHANGED <<disk, now, edits, held>>

\* The process is killed: its job keeps running, uncommitted work is lost.
Crash(x) ==
    /\ proc[x].pc # "idle"
    /\ Exit(x)
    /\ UNCHANGED vars /\ WorldUntouched

\* --max-items is reached: progress is saved and the job keeps running.
Pause(x) ==
    /\ proc[x].pc \in {"walk", "check", "copy"}
    /\ proc[x].left # {}
    /\ IF JobRunning(db, proc[x].job) THEN CheckpointJob(proc[x].job)
                                      ELSE UNCHANGED vars
    /\ Exit(x)
    /\ WorldUntouched

\* `job cancel`
Cancel(j) ==
    /\ FinishJob(j, "cancelled")
    /\ UNCHANGED cliVars

-----------------------------------------------------------------------------
(* `location scan`                                                         *)

EntriesOf(dir) ==
    {p \in Paths : DirOf(p) = dir /\ disk[<<p, Target>>] # None}

\* reset_scan_coverage.
ResetScan(x) ==
    /\ proc[x].pc = "reset"
    /\ IF JobRunning(db, proc[x].job)
       THEN /\ ResetScanCoverage(proc[x].job)
            /\ proc' = [proc EXCEPT ![x].pc = "open"]
       ELSE Exit(x) /\ UNCHANGED vars
    /\ WorldUntouched

\* FileDiscovery::with_exclusions opens the root.
OpenRoot(x) ==
    /\ proc[x].pc = "open"
    /\ proc' = [proc EXCEPT ![x].pc = "walk",
                            ![x].frames = {"root"},
                            ![x].unread = {"sub"},
                            ![x].left = EntriesOf("root"),
                            ![x].absent = {p \in Paths : disk[<<p, Target>>] = None}]
    /\ UNCHANGED vars /\ WorldUntouched

\* The subdirectory comes up in the root's listing and its frame is pushed,
\* or it cannot be enumerated.
OpenSub(x) ==
    /\ proc[x].pc = "walk"
    /\ "sub" \in proc[x].unread
    /\ \/ proc' = [proc EXCEPT ![x].unread = {},
                               ![x].frames = @ \cup {"sub"},
                               ![x].left = @ \cup EntriesOf("sub")]
       \/ proc' = [proc EXCEPT ![x].unread = {}, ![x].clean = FALSE]
    /\ UNCHANGED vars /\ WorldUntouched

\* The top frame yields an entry.  hash_catalog_file reads it, the stamped
\* observation is pushed on the batch; an entry that is gone when its
\* metadata is read is a traversal error and yields no observation.
ReadEntry(x, p, found) ==
    /\ proc[x].pc = "walk"
    /\ p \in proc[x].left
    /\ "sub" \in proc[x].frames => DirOf(p) = "sub"
    /\ disk[<<p, Target>>] = None <=> found \in {"missing", "error"}
    /\ LET hash == IF found = "checksum" THEN disk[<<p, Target>>] ELSE None
           walking == [proc[x] EXCEPT
                         !.left = @ \ {p},
                         !.clean = @ /\ found \notin {"read_error", "error"}]
       IN  proc' = [proc EXCEPT ![x] =
             IF found = "error" THEN walking
             ELSE [walking EXCEPT !.pc = "flush",
                                  !.pend = Observe(p, Target, found, hash, proc[x].job)]]
    /\ UNCHANGED vars /\ WorldUntouched

\* flush_inventory and observe: a refused observation ends the invocation.
Flush(x, next) ==
    /\ proc[x].pend # NoObservation
    /\ IF ObservationAccepted(db, proc[x].pend)
       THEN /\ CommitRevised(ObserveInTransaction(db, proc[x].pend))
            /\ proc' = [proc EXCEPT ![x].pc = next, ![x].pend = NoObservation]
       ELSE Exit(x) /\ UNCHANGED vars
    /\ WorldUntouched

FlushInventory(x) == proc[x].pc = "flush" /\ Flush(x, "walk")

\* The exhausted top frame.
Exhausted(x, dir) ==
    /\ proc[x].pc = "walk"
    /\ dir \in proc[x].frames
    /\ \A p \in proc[x].left : DirOf(p) # dir
    /\ dir = "root" => proc[x].frames = {"root"} /\ proc[x].unread = {}

\* The frame of an exhausted directory is popped and the directory's
\* metadata compared with what it was when the frame was pushed.
PopFrame(x, dir) ==
    /\ Exhausted(x, dir)
    /\ proc' = [proc EXCEPT ![x].frames = @ \ {dir},
                            ![x].clean = @ /\ dir \notin proc[x].touched,
                            ![x].pc = IF dir = "root" THEN "finish" ELSE "walk"]
    /\ UNCHANGED vars /\ WorldUntouched

\* Fault: the summary's read errors and traversal errors are ignored.
FinishInventoryAlwaysClean(x) ==
    /\ proc[x].pc = "finish"
    /\ LET j == proc[x].job
       IN  IF JobRunning(db, j) /\ NoNewerCheck(db, j, now)
           THEN FinishScan(j, TRUE, now)
           ELSE UNCHANGED vars
    /\ Exit(x)
    /\ WorldUntouched

FinishInventory(x) ==
    /\ proc[x].pc = "finish"
    /\ LET j == proc[x].job
       IN  IF JobRunning(db, j) /\ (proc[x].clean => NoNewerCheck(db, j, now))
           THEN FinishScan(j, proc[x].clean, now)
           ELSE UNCHANGED vars
    /\ Exit(x)
    /\ WorldUntouched

-----------------------------------------------------------------------------
(* `verify --all` and `copy`: pages of rows after a cursor.                *)

\* Fault: neither the cursor nor the job's items exclude a row.
DueAgain(x) == {p \in Paths : HasRow(db, Copy(p, Target))}

\* The page query of run_verify.
Due(x) ==
    {p \in Paths : /\ HasRow(db, Copy(p, Target))
                   /\ Rank[p] > proc[x].cursor
                   /\ Object(p) \notin db.items[proc[x].job]}

\* The page query of run_copy.
Wanted(x) ==
    {p \in Paths : /\ Healthy(db, Copy(p, Source))
                   /\ Rank[p] > proc[x].cursor
                   /\ ~Healthy(db, Copy(p, Target))}

\* One page; an exhausted query finishes the job.  `verify` pages are as
\* long as its batches, `copy` pages are longer.
Select(x) ==
    /\ proc[x].pc = "select"
    /\ LET j == proc[x].job
           rows == IF j \in Verifies THEN Due(x) ELSE Wanted(x)
           first == {p \in rows : \A q \in rows : Rank[p] <= Rank[q]}
       IN  IF rows = {}
           THEN /\ \/ FinishJob(j, "complete")
                   \/ ~JobRunning(db, j) /\ UNCHANGED vars
                /\ Exit(x)
           ELSE /\ proc' = [proc EXCEPT
                             ![x].left = IF j \in Verifies THEN first ELSE rows,
                             ![x].want = [p \in Paths |-> IF p \in rows /\ j \in Copiers
                                            THEN db.expected[Object(p)] ELSE None],
                             ![x].pc = IF j \in Verifies THEN "check" ELSE "copy"]
                /\ UNCHANGED vars
    /\ WorldUntouched

\* The row of the page that is handled next.
NextRow(x, p) ==
    /\ p \in proc[x].left
    /\ \A q \in proc[x].left : Rank[p] <= Rank[q]

VerifyEntry(x, p, found) ==
    /\ proc[x].pc = "check"
    /\ NextRow(x, p)
    /\ disk[<<p, Target>>] = None <=> found = "missing"
    /\ LET hash == IF found = "checksum" THEN disk[<<p, Target>>] ELSE None
       IN  proc' = [proc EXCEPT
                      ![x].pc = "flushcheck",
                      ![x].left = @ \ {p},
                      ![x].cursor = Rank[p],
                      ![x].pend = Observe(p, Target, found, hash, proc[x].job)]
    /\ UNCHANGED vars /\ WorldUntouched

AfterRow(x, page) == IF proc[x].left = {} THEN "select" ELSE page

FlushVerify(x) == proc[x].pc = "flushcheck" /\ Flush(x, AfterRow(x, "check"))

\* An entry of a Location changes.  A walk that holds its directory open will
\* notice when it came or went.
EntryChanged(p, l, content) ==
    /\ disk' = [disk EXCEPT ![<<p, l>>] = content]
    /\ held' = [held EXCEPT ![<<p, l>>] = @ \cup {content}]

Noticing(walk, p, l, content) ==
    IF /\ walk.pc \in {"walk", "flush", "finish"}
       /\ l = Target
       /\ (disk[<<p, l>>] = None) # (content = None)
    THEN [walk EXCEPT !.touched = @ \cup ({DirOf(p)} \cap walk.frames),
                      !.absent = IF content = None THEN @ \cup {p} ELSE @]
    ELSE walk

\* Fault: an existing destination is taken for the copy without being read.
CopyEntryTrusting(x, p) ==
    /\ proc[x].pc = "copy"
    /\ NextRow(x, p)
    /\ LET there == disk[<<p, Target>>]
           want == proc[x].want[p]
           taken == [proc[x] EXCEPT !.left = @ \ {p}, !.cursor = Rank[p]]
       IN  proc' = [proc EXCEPT ![x] =
             IF there # None
             THEN [taken EXCEPT !.pc = "flushcopy",
                                !.pend = Observe(p, Target, "checksum", want, proc[x].job)]
             ELSE IF disk[<<p, Source>>] = want
             THEN [taken EXCEPT !.pc = "place", !.item = p]
             ELSE IdleProc]
    /\ UNCHANGED vars /\ WorldUntouched

\* An existing destination is read and must have the wanted checksum.  For
\* an absent one the source is read into a temporary file, whose bytes must
\* have it.
CopyEntry(x, p) ==
    /\ proc[x].pc = "copy"
    /\ NextRow(x, p)
    /\ LET there == disk[<<p, Target>>]
           want == proc[x].want[p]
           taken == [proc[x] EXCEPT !.left = @ \ {p}, !.cursor = Rank[p]]
       IN  proc' = [proc EXCEPT ![x] =
             IF there = want
             THEN [taken EXCEPT !.pc = "flushcopy",
                                !.pend = Observe(p, Target, "checksum", want, proc[x].job)]
             ELSE IF there = None /\ disk[<<p, Source>>] = want
             THEN [taken EXCEPT !.pc = "place", !.item = p]
             ELSE IdleProc]
    /\ UNCHANGED vars /\ WorldUntouched

PlacedBy(x, p, content) ==
    /\ proc' = [y \in Procs |->
                  IF y = x THEN [proc[x] EXCEPT !.pc = "readback"]
                  ELSE Noticing(proc[y], p, Target, content)]
    /\ EntryChanged(p, Target, content)

\* Fault: the rename replaces a destination that appeared meanwhile.
PlaceReplacing(x) ==
    /\ proc[x].pc = "place"
    /\ PlacedBy(x, proc[x].item, proc[x].want[proc[x].item])
    /\ UNCHANGED vars
    /\ UNCHANGED <<now, edits, runs>>

\* place_no_replace
Place(x) ==
    /\ proc[x].pc = "place"
    /\ LET p == proc[x].item
       IN  IF disk[<<p, Target>>] = None
           THEN PlacedBy(x, p, proc[x].want[p])
           ELSE Exit(x) /\ UNCHANGED <<disk, held>>
    /\ UNCHANGED vars
    /\ UNCHANGED <<now, edits, runs>>

\* The placed file is read back before it is recorded.
ReadBack(x) ==
    /\ proc[x].pc = "readback"
    /\ LET p == proc[x].item
           want == proc[x].want[p]
       IN  proc' = [proc EXCEPT ![x] =
             IF disk[<<p, Target>>] = want
             THEN [proc[x] EXCEPT !.pc = "flushcopy", !.item = None,
                                  !.pend = Observe(p, Target, "checksum", want, proc[x].job)]
             ELSE IdleProc]
    /\ UNCHANGED vars /\ WorldUntouched

FlushCopy(x) == proc[x].pc = "flushcopy" /\ Flush(x, AfterRow(x, "copy"))

-----------------------------------------------------------------------------
(* The world                                                               *)

\* Something else changes, adds or deletes a file.
Edit(p, l, content) ==
    /\ edits < MaxEdits
    /\ edits' = edits + 1
    /\ disk[<<p, l>>] # content
    /\ EntryChanged(p, l, content)
    /\ proc' = [x \in Procs |-> Noticing(proc[x], p, l, content)]
    /\ UNCHANGED vars
    /\ UNCHANGED <<now, runs>>

\* `collection add --accept-changes` of a changed file at Source, as a whole.
AcceptChange(p) ==
    /\ disk[<<p, Source>>] \notin {None, db.expected[Object(p)]}
    /\ LET ob == [Observe(p, Source, "checksum", disk[<<p, Source>>], None)
                     EXCEPT !.accept = TRUE]
       IN  /\ ObservationAccepted(db, ob)
           /\ CommitRevised(ObserveInTransaction(db, ob))
    /\ UNCHANGED cliVars

Tick ==
    /\ now < MaxTime
    /\ now' = now + 1
    /\ UNCHANGED vars
    /\ UNCHANGED <<disk, proc, edits, runs, held>>

Step(x) ==
    \/ ResetScan(x) \/ OpenRoot(x) \/ OpenSub(x)
    \/ \E p \in Paths, found \in {"checksum", "read_error", "missing", "error"} :
          ReadEntry(x, p, found)
    \/ FlushInventory(x)
    \/ \E dir \in {"root", "sub"} : PopFrame(x, dir)
    \/ FinishInventory(x)
    \/ Select(x)
    \/ \E p \in Paths, found \in {"checksum", "read_error", "missing"} :
          VerifyEntry(x, p, found)
    \/ FlushVerify(x)
    \/ \E p \in Paths : CopyEntry(x, p)
    \/ Place(x) \/ ReadBack(x) \/ FlushCopy(x)

CliNext ==
    \/ \E x \in Procs : Step(x)
    \/ \E x \in Procs, j \in Scans \cup Verifies \cup Copiers : Start(x, j)
    \/ \E x \in Procs : Crash(x) \/ Pause(x)
    \/ \E j \in Jobs : Cancel(j)
    \/ \E p \in Paths, l \in Locations, h \in Hashes \cup {None} : Edit(p, l, h)
    \/ \E p \in Paths : AcceptChange(p)
    \/ Tick

\* A process that is running is scheduled; users, clocks and crashes owe
\* nobody anything.
CliSpec == CliInit /\ [][CliNext]_allVars /\ \A x \in Procs : WF_allVars(Step(x))

-----------------------------------------------------------------------------
(* Properties                                                              *)

\* A scan declares a copy missing (finish_catalog_scan) only when the path
\* was absent at some moment of the pass that finishes: a file that was there
\* during the whole pass, which therefore enumerated and recorded it, is
\* never declared missing, whatever crashed, was resumed or ran beside it.
NoFalseMissing ==
    [][\A x \in Procs : \A p \in Paths :
         (/\ FinishInventory(x)
          /\ db.files[Copy(p, Target)].presence # "missing"
          /\ db'.files[Copy(p, Target)].presence = "missing")
         => p \in proc[x].absent]_allVars

\* Every checksum recorded for a copy is one the path really held at that
\* Location: `copy` records the wanted checksum only after reading it there.
RecordedBytesWereThere ==
    \A p \in Paths, l \in {Source, Target} :
        db.files[Copy(p, l)].observed # None =>
            db.files[Copy(p, l)].observed \in held[<<p, l>>]

\* The program never changes a file that exists: whatever races with `copy`,
\* only somebody else's edit replaces or deletes content.
ContentOnlyChangesByOthers ==
    [][\A pl \in Paths \X Locations :
         (disk[pl] # None /\ disk'[pl] # disk[pl]) => edits' = edits + 1]_allVars

\* Every invocation ends: pages behind a cursor run out, a job cancelled or
\* finished by somebody else stops the ones that work on it.
EveryRunEnds ==
    \A x \in Procs : (proc[x].pc # "idle") ~> (proc[x].pc = "idle")
=============================================================================
