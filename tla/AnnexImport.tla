------------------------------ MODULE AnnexImport ------------------------------
(***************************************************************************)
(* Imports of a git-annex repository into an Archive with canonical        *)
(* records (annex.rs V2AnnexImporter, the projection of its items in       *)
(* compact_projection.rs, and the commands that start, resume and cancel   *)
(* an import).                                                             *)
(*                                                                         *)
(* An import walks the Git index and looks at every entry's place in the   *)
(* worktree and, for a locked entry, at the annex object its link names.   *)
(* Its items go to a spool with checkpoints, and to the log in one batch   *)
(* when the walk is over.  Nothing protects the repository meanwhile: the  *)
(* import compares a fingerprint of HEAD, the git-annex branch, the index  *)
(* and the metadata of the worktree entries before and after.  The         *)
(* fingerprint does not reach the annex objects.                           *)
(*                                                                         *)
(* As in the command line the worktree and the annex objects are one       *)
(* Location.                                                               *)
(***************************************************************************)
EXTENDS Integers, Sequences, FiniteSets, SequencesExt

CONSTANTS
    KeyOf,          \* the annex key of every index entry, NoKey for another file
    NoKey,
    Imports,        \* jobs that read content
    Inventories,    \* jobs of --inventory-only
    Importers,      \* processes
    ImportBatch,    \* batch_entries
    MaxCommands,    \* bound on commands started
    MaxDisturbances \* bound on changes to the repository, kills and rebuilds

ASSUME AnnexBatches == ImportBatch \in Nat \ {0}

ImportJobs == Imports \cup Inventories
Entries == DOMAIN KeyOf
AnnexKeys == {KeyOf[e] : e \in Entries} \ {NoKey}
AnnexEntries == {e \in Entries : KeyOf[e] # NoKey}

VARIABLES
    repo,      \* the source: index modes, worktree, objects, fingerprint
    published, \* batches of the log
    imported,       \* the catalog database, with the number of batches applied
    files,     \* the local files of every job
    importer,  \* the running commands
    commands, disturbances

annexVars == <<repo, published, imported, files, importer, commands, disturbances>>

-----------------------------------------------------------------------------
(* What an import looks at                                                 *)

\* stable_id of Location and physical path: an object's path is its key's.
CasClaim(k) == <<"object", k>>
PathClaim(e) == <<"path", e>>
Claims == {CasClaim(k) : k \in AnnexKeys} \cup {PathClaim(e) : e \in AnnexEntries}
ClaimKey(c) == IF c[1] = "object" THEN c[2] ELSE KeyOf[c[2]]

\* What a key says of its bytes: a hash the importer can check, nothing it
\* can check, or the name of an unknown backend.
KeyKinds == {"hash", "no_hash", "unsupported"}

Bytes == {"good", "bad", "unreadable"}

\* Where there are no bytes of an entry's own.
Gone(c) == IF c[1] = "object" THEN repo.object[c[2]] = "none"
           ELSE repo.work[c[2]] \notin Bytes

Hashed(bytes) ==
    CASE bytes = "good" -> "present" [] bytes = "bad" -> "mismatch" [] OTHER -> "read_error"

\* Items record what was seen: whether the path exists and whether bytes of
\* the entry were found.  `at` and `gone` are kept for the properties: the
\* fingerprint and the claims without bytes at the moment of the look.
EntryItem(e, representation, category, bytes, claim) ==
    [entry |-> e, representation |-> representation, category |-> category,
     basis |-> "observed_bytes", claim |-> claim, path |-> repo.work[e] # "none",
     bytes |-> bytes, at |-> repo.stamp, gone |-> {c \in Claims : Gone(c)}]

NoClaim == <<"none", NoKey>>

KindOf(e) == repo.kind[KeyOf[e]]

\* Metadata of the worktree path; every entry claims the place to look at.
Inventoried(e) ==
    LET category == IF KindOf(e) = "unsupported" THEN "unsupported" ELSE "unchecked"
        item == IF repo.mode[e] = "locked"
                THEN EntryItem(e, "annex_locked_symlink", category, FALSE, CasClaim(KeyOf[e]))
                ELSE EntryItem(e, "annex_unlocked_file", category, FALSE, PathClaim(e))
    IN  [item EXCEPT !.basis = "source_metadata"]

\* An entry that is as the index says: a key without a hash is not read, and
\* claims no copy.
Found(e, representation, bytes, claim) ==
    CASE KindOf(e) = "unsupported" ->
           EntryItem(e, representation, "unsupported", bytes # "none", NoClaim)
      [] KindOf(e) # "unsupported" /\ bytes = "none" ->
           EntryItem(e, representation, "absent", FALSE, NoClaim)
      [] KindOf(e) = "no_hash" /\ bytes # "none" ->
           EntryItem(e, representation, "supported_unresolved", TRUE, NoClaim)
      [] OTHER -> EntryItem(e, representation, Hashed(bytes), TRUE, claim)

\* An unlocked file small enough for a pointer is read to tell them apart.
Inspected(e) ==
    LET work == repo.work[e]
        locked == repo.mode[e] = "locked"
        object == repo.object[KeyOf[e]]
        opaque == work = "unreadable" /\ repo.small
    IN  CASE work = "none" -> Found(e, "missing_worktree_entry", "none", NoClaim)
          [] locked /\ work = "link" /\ object # "hidden" ->
               Found(e, "annex_locked_symlink", object, CasClaim(KeyOf[e]))
          [] ~locked /\ work = "pointer" -> Found(e, "annex_pointer_file", "none", NoClaim)
          [] ~locked /\ work \in Bytes /\ ~opaque ->
               Found(e, "annex_unlocked_file", work, PathClaim(e))
          [] OTHER -> EntryItem(e, "annex_unreadable", "read_error", FALSE, PathClaim(e))

Look(j, e) == IF j \in Inventories THEN Inventoried(e) ELSE Inspected(e)

-----------------------------------------------------------------------------
(* The projection of one item                                              *)

NoCopy == [state |-> "none", basis |-> "none", owner |-> 0]
NoBinding == [representation |-> "none", copy |-> NoClaim, present |-> FALSE]

\* copy_state of an item with a claim
CopyState(i) ==
    CASE i.basis = "source_metadata" -> "unknown"
      [] i.category = "present" -> "present"
      [] i.category = "mismatch" -> "corrupt"
      [] OTHER -> "unknown"

\* local_availability
Availability(i) ==
    IF i.basis = "source_metadata" THEN "unknown" ELSE IF i.bytes THEN "present" ELSE "missing"

\* An absence: no bytes, and no result of reading any.
IsAbsence(i) ==
    /\ i.basis # "source_metadata" /\ ~i.bytes
    /\ i.category \notin {"present", "mismatch", "read_error"}

\* The identity of a key, and of a file with that key: bytes that the key
\* names settle it for good.
Identified(d, i) ==
    LET k == KeyOf[i.entry]
        new == IF i.category = "present" THEN "resolved"
               ELSE IF repo.kind[k] = "unsupported" THEN "unsupported" ELSE "unresolved"
        now == IF d.identity[k] = "none" \/ i.category = "present" THEN new ELSE d.identity[k]
    IN  [d EXCEPT !.identity[k] = now,
                  !.file[i.entry] = IF now = "unsupported" THEN "unknown" ELSE now]

CasRepresentations == {"annex_content", "annex_locked_symlink"}
Standing == {"present", "corrupt", "unknown"}

\* The copies that an absent entry speaks for: those of its key which a
\* locked entry owns, or the file's own worktree copy.
AbsentCopies(d, i) ==
    IF i.representation = "annex_locked_symlink"
    THEN {c \in Claims :
            /\ ClaimKey(c) = KeyOf[i.entry]
            /\ d.copies[c].state \in Standing
            /\ d.copies[c].basis # "source_metadata"
            /\ d.bound[d.copies[c].owner].representation \in CasRepresentations}
    ELSE {c \in Claims :
            /\ d.bound[i.entry].copy = c
            /\ d.copies[c].state \in Standing
            /\ d.copies[c].basis # "source_metadata"
            /\ d.bound[i.entry].representation \notin CasRepresentations}

HintKept(copies, k) ==
    \E c \in Claims : ClaimKey(c) = k /\ copies[c].state \in {"present", "corrupt"}

\* project_annex_absence: an absence adds no binding and no negative hint.
ProjectAbsence(d, i) ==
    LET lost == AbsentCopies(d, i)
        copies == [c \in Claims |-> IF c \in lost THEN [d.copies[c] EXCEPT !.state = "missing"]
                                    ELSE d.copies[c]]
        k == KeyOf[i.entry]
    IN  [d EXCEPT
           !.copies = copies,
           !.bound = [e \in Entries |-> [@[e] EXCEPT !.present = @ /\ d.bound[e].copy \notin lost]],
           !.hint[k] = IF HintKept(copies, k) THEN @ ELSE "none"]

\* The upsert of a copy: the owner of a claim never changes, and metadata
\* never replaces a row.
Upserted(row, i) ==
    IF row.state = "none"
    THEN [state |-> CopyState(i), basis |-> i.basis, owner |-> i.entry]
    ELSE IF i.basis = "source_metadata" THEN row
    ELSE [row EXCEPT !.state = CopyState(i), !.basis = i.basis]

\* An item without a claim leaves the binding's copy what it was.
ProjectFound(d, i) ==
    LET k == KeyOf[i.entry]
        claims == i.claim # NoClaim
    IN  [d EXCEPT
           !.copies = IF claims THEN [@ EXCEPT ![i.claim] = Upserted(@, i)] ELSE @,
           !.bound[i.entry] = [representation |-> i.representation,
                               copy |-> IF claims THEN i.claim ELSE @.copy,
                               present |-> i.path],
           !.hint[k] = IF @ # "none" /\ Availability(i) = "unknown" THEN @
                       ELSE Availability(i)]

ProjectItem(d, i) ==
    IF IsAbsence(i) THEN ProjectAbsence(Identified(d, i), i)
    ELSE ProjectFound(Identified(d, i), i)

ProjectItems(d, items) ==
    LET after[n \in 0 .. Len(items)] ==
            IF n = 0 THEN d ELSE ProjectItem(after[n - 1], items[n])
    IN  after[Len(items)]

\* job_finished makes the row of the job complete.
ProjectImport(d, batch) ==
    [ProjectItems(d, batch.items) EXCEPT
        !.rows[batch.job] = [status |-> "complete", snapshot |-> batch.snapshot],
        !.applied = @ + 1]

\* apply: every batch that the catalog does not have, in order.
CaughtUp(d) ==
    LET after[n \in d.applied .. Len(published)] ==
            IF n = d.applied THEN d ELSE ProjectImport(after[n - 1], published[n])
    IN  after[Len(published)]

NoJobRow == [status |-> "none", snapshot |-> 0]

EmptyCatalog ==
    [copies |-> [c \in Claims |-> NoCopy], bound |-> [e \in Entries |-> NoBinding],
     hint |-> [k \in AnnexKeys |-> "none"], identity |-> [k \in AnnexKeys |-> "none"],
     file |-> [e \in Entries |-> "none"], rows |-> [j \in ImportJobs |-> NoJobRow],
     applied |-> 0]

-----------------------------------------------------------------------------
(* Commands                                                                *)

\* A configuration names the fingerprint the import started from; 0: no file.
NoJobFiles == [config |-> 0, spool |-> <<>>, checkpoint |-> <<>>]

NoImporter == [pc |-> "idle", job |-> NoKey, snapshot |-> 0, items |-> <<>>, seen |-> 0]

AnnexInit ==
    /\ \E kind \in [AnnexKeys -> KeyKinds], small \in BOOLEAN :
          repo = [mode |-> [e \in Entries |-> "locked"], work |-> [e \in Entries |-> "link"],
                  object |-> [k \in AnnexKeys |-> "good"], kind |-> kind, small |-> small,
                  stamp |-> 1, owed |-> FALSE]
    /\ published = <<>> /\ imported = EmptyCatalog
    /\ files = [j \in ImportJobs |-> NoJobFiles]
    /\ importer = [x \in Importers |-> NoImporter]
    /\ commands = 0 /\ disturbances = 0

JobIsLocked(j) == \E x \in Importers : importer[x].job = j

\* refuse_v2_unfinished_annex_import: a running row, or a configuration
\* without a row.
UnfinishedImport(j) ==
    \/ imported.rows[j].status = "running"
    \/ imported.rows[j].status = "none" /\ files[j].config # 0

StartCommand(x, j, pc) ==
    /\ importer[x].pc = "idle" /\ commands < MaxCommands /\ ~JobIsLocked(j)
    /\ importer' = [importer EXCEPT ![x] = [NoImporter EXCEPT !.pc = pc, !.job = j]]
    /\ commands' = commands + 1
    /\ UNCHANGED <<repo, published, imported, files, disturbances>>

Quit(x) == importer' = [importer EXCEPT ![x] = NoImporter]

\* `collection init --import-annex`, `location import-annex`: a new job.  After
\* a completed import only with --reimport.
StartImport(x, j, reimport) ==
    /\ files[j] = NoJobFiles /\ imported.rows[j] = NoJobRow
    /\ \A n \in DOMAIN published : published[n].job # j
    /\ \A other \in ImportJobs : ~UnfinishedImport(other)
    /\ reimport \/ \A other \in ImportJobs : imported.rows[other].status # "complete"
    /\ StartCommand(x, j, "capture")

\* `job resume`
ResumeImport(x, j) == UnfinishedImport(j) /\ StartCommand(x, j, "capture")

\* The lock, the settled publication, and the first fingerprint.
Capture(x) ==
    LET j == importer[x].job
    IN  /\ importer[x].pc = "capture"
        /\ IF imported.rows[j].status = "cancelled"
           THEN Quit(x) /\ UNCHANGED imported
           ELSE /\ imported' = CaughtUp(imported)
                /\ importer' = [importer EXCEPT ![x].pc = "configure",
                                                ![x].snapshot = repo.stamp]
        /\ UNCHANGED <<repo, published, files, commands, disturbances>>

\* A mutant: a resume that does not compare fingerprints.
Bug_Configure(x) ==
    LET j == importer[x].job
    IN  /\ importer[x].pc = "configure"
        /\ files' = [files EXCEPT ![j].config = IF @ = 0 THEN importer[x].snapshot ELSE @]
        /\ importer' = [importer EXCEPT ![x].pc = "row"]
        /\ UNCHANGED <<repo, published, imported, commands, disturbances>>

\* Changed since started: refused, whatever the job has done.
Configure(x) ==
    LET j == importer[x].job
        w == importer[x]
    IN  /\ w.pc = "configure"
        /\ IF files[j].config \notin {0, w.snapshot}
           THEN Quit(x) /\ UNCHANGED files
           ELSE /\ files' = [files EXCEPT ![j].config = w.snapshot]
                /\ importer' = [importer EXCEPT ![x].pc = "row"]
        /\ UNCHANGED <<repo, published, imported, commands, disturbances>>

JobRow(x) ==
    LET j == importer[x].job
        w == importer[x]
        row == IF imported.rows[j] = NoJobRow THEN [status |-> "running", snapshot |-> w.snapshot]
               ELSE imported.rows[j]
    IN  /\ w.pc = "row"
        /\ imported' = [imported EXCEPT !.rows[j] = row]
        /\ CASE row.snapshot # w.snapshot -> Quit(x)
             [] row.snapshot = w.snapshot /\ row.status = "complete" ->
                   importer' = [importer EXCEPT ![x].pc = "cleanup"]
             [] OTHER -> importer' = [importer EXCEPT ![x].pc = "spool"]
        /\ UNCHANGED <<repo, published, files, commands, disturbances>>

\* set_len to the checkpoint: a shorter spool is filled up with zeros.
Zeros == [entry |-> 0]

Truncated(spool, length) ==
    [n \in 1 .. length |-> IF n <= Len(spool) THEN spool[n] ELSE Zeros]

Checkpoint(seen, spool) == <<[seen |-> seen, length |-> Len(spool)]>>

\* A fresh job starts from a checkpoint of nothing.
OpenSpool(x) ==
    LET j == importer[x].job
        saved == IF files[j].checkpoint = <<>> THEN Checkpoint(0, <<>>)[1]
                 ELSE files[j].checkpoint[1]
        spool == Truncated(files[j].spool, saved.length)
    IN  /\ importer[x].pc = "spool"
        /\ files' = [files EXCEPT ![j].spool = spool, ![j].checkpoint = <<saved>>]
        /\ importer' = [importer EXCEPT ![x].pc = "walk", ![x].items = spool,
                                        ![x].seen = saved.seen]
        /\ UNCHANGED <<repo, published, imported, commands, disturbances>>

\* The next entry of the index; every batch_entries entries a checkpoint.
ReadEntry(x) ==
    LET j == importer[x].job
        e == importer[x].seen + 1
    IN  /\ importer[x].pc = "walk" /\ e \in Entries
        /\ \E items \in IF KeyOf[e] = NoKey THEN {importer[x].items}
                        ELSE {Append(importer[x].items, Look(j, e))} :
             /\ importer' = [importer EXCEPT ![x].items = items, ![x].seen = e]
             /\ files' = IF e % ImportBatch = 0
                         THEN [files EXCEPT ![j].spool = items,
                                            ![j].checkpoint = Checkpoint(e, items)]
                         ELSE files
        /\ UNCHANGED <<repo, published, imported, commands, disturbances>>

Unsaved(x) == Len(files[importer[x].job].spool) .. Len(importer[x].items)

\* An error closes the spool: what was buffered is written.
Abandon(x) ==
    /\ files' = [files EXCEPT ![importer[x].job].spool = importer[x].items]
    /\ Quit(x)

SourceUnchanged(x) == importer[x].snapshot = repo.stamp

\* --max-items is reached: the progress made is kept if the source is the same.
PauseImport(x) ==
    LET j == importer[x].job
        w == importer[x]
    IN  /\ w.pc = "walk" /\ w.seen + 1 \in Entries
        /\ IF SourceUnchanged(x)
           THEN /\ files' = [files EXCEPT ![j].spool = w.items,
                                          ![j].checkpoint = Checkpoint(w.seen, w.items)]
                /\ Quit(x)
           ELSE Abandon(x)
        /\ UNCHANGED <<repo, published, imported, commands, disturbances>>

\* The index is read, the source rechecked and the spool synchronised.
EndImport(x) ==
    LET j == importer[x].job
        w == importer[x]
    IN  /\ w.pc = "walk" /\ w.seen + 1 \notin Entries
        /\ IF SourceUnchanged(x)
           THEN /\ files' = [files EXCEPT ![j].spool = w.items]
                /\ importer' = [importer EXCEPT ![x].pc = "append"]
           ELSE Abandon(x)
        /\ UNCHANGED <<repo, published, imported, commands, disturbances>>

\* One batch; a spool with zeros is refused.
AppendImport(x) ==
    LET w == importer[x]
    IN  /\ w.pc = "append"
        /\ IF Zeros \in ToSet(w.items)
           THEN Quit(x) /\ UNCHANGED published
           ELSE /\ published' = Append(published, [job |-> w.job, snapshot |-> w.snapshot,
                                                   items |-> w.items])
                /\ importer' = [importer EXCEPT ![x].pc = "apply"]
        /\ UNCHANGED <<repo, imported, files, commands, disturbances>>

ApplyImport(x) ==
    /\ importer[x].pc = "apply"
    /\ imported' = CaughtUp(imported)
    /\ importer' = [importer EXCEPT ![x].pc = "cleanup"]
    /\ UNCHANGED <<repo, published, files, commands, disturbances>>

\* ANNEX_JOB_FILES, one after the other, the configuration last.
CleanUp(x) ==
    LET j == importer[x].job
        f == files[j]
    IN  /\ importer[x].pc = "cleanup"
        /\ files' = [files EXCEPT ![j] =
                       CASE f.spool # <<>> -> [f EXCEPT !.spool = <<>>]
                         [] f.spool = <<>> /\ f.checkpoint # <<>> ->
                              [f EXCEPT !.checkpoint = <<>>]
                         [] OTHER -> NoJobFiles]
        /\ IF f.spool = <<>> /\ f.checkpoint = <<>> THEN Quit(x) ELSE UNCHANGED importer
        /\ UNCHANGED <<repo, published, imported, commands, disturbances>>

\* `job cancel`: a publication that was interrupted is settled first.
CancelImport(x, j) ==
    /\ \/ UnfinishedImport(j)
       \/ imported.rows[j].status = "cancelled" /\ files[j] # NoJobFiles
    /\ StartCommand(x, j, "cancel")

MarkCancelled(x) ==
    LET j == importer[x].job
        d == CaughtUp(imported)
    IN  /\ importer[x].pc = "cancel"
        /\ imported' = IF d.rows[j].status = "running"
                       THEN [d EXCEPT !.rows[j].status = "cancelled"] ELSE d
        /\ IF d.rows[j].status = "complete" THEN Quit(x)
           ELSE importer' = [importer EXCEPT ![x].pc = "cleanup"]
        /\ UNCHANGED <<repo, published, files, commands, disturbances>>

Disturb == disturbances < MaxDisturbances /\ disturbances' = disturbances + 1

\* A process dies: of what it buffered any part may be in the spool.
KillImport(x) ==
    /\ importer[x].pc # "idle" /\ Disturb
    /\ Quit(x)
    /\ IF importer[x].pc = "walk"
       THEN \E n \in Unsaved(x) :
              files' = [files EXCEPT ![importer[x].job].spool =
                                         SubSeq(importer[x].items, 1, n)]
       ELSE UNCHANGED files
    /\ UNCHANGED <<repo, published, imported, commands>>

\* `db rebuild` forgets the rows of what was never published.
RebuildCatalog ==
    /\ \A x \in Importers : importer[x].pc = "idle"
    /\ imported # CaughtUp(EmptyCatalog) /\ Disturb
    /\ imported' = CaughtUp(EmptyCatalog)
    /\ UNCHANGED <<repo, published, files, importer, commands>>

-----------------------------------------------------------------------------
(* git and git-annex at work in the repository                             *)

Changed(r, by) ==
    /\ Disturb
    /\ repo' = [r EXCEPT !.stamp = @ + by]
    /\ UNCHANGED <<published, imported, files, importer, commands>>

\* `git annex unlock` and `lock` change the index and the worktree.
Unlock(e) ==
    /\ repo.mode[e] = "locked" /\ repo.work[e] = "link"
    /\ repo.object[KeyOf[e]] \notin {"unreadable", "hidden"}
    /\ Changed([repo EXCEPT !.mode[e] = "unlocked",
                            !.work[e] = IF repo.object[KeyOf[e]] = "none" THEN "pointer"
                                        ELSE repo.object[KeyOf[e]]], 1)

Lock(e) ==
    /\ repo.mode[e] = "unlocked" /\ repo.work[e] \in {"good", "pointer"}
    /\ Changed([repo EXCEPT !.mode[e] = "locked", !.work[e] = "link"], 1)

\* A link or an unlocked file is removed or replaced by hand.
Overwrite(e, w) ==
    /\ repo.work[e] # "none" /\ w # repo.work[e]
    /\ Changed([repo EXCEPT !.work[e] = w], 1)

\* `git annex drop` and `get` move the object first; the fingerprint sees it
\* in the worktree of unlocked files, and in the git-annex branch when the
\* command commits its journal.
Users(k, w) == {e \in AnnexEntries : KeyOf[e] = k /\ repo.mode[e] = "unlocked" /\ repo.work[e] = w}

MoveObject(k, object, from, to) ==
    /\ repo.object[k] # object
    /\ Changed([repo EXCEPT !.object[k] = object,
                            !.work = [e \in Entries |-> IF e \in Users(k, from) THEN to ELSE @[e]],
                            !.owed = TRUE],
               IF Users(k, from) = {} THEN 0 ELSE 1)

Drop(k) == MoveObject(k, "none", "good", "pointer")
Get(k) == MoveObject(k, "good", "pointer", "good")

CommitJournal ==
    /\ repo.owed
    /\ repo' = [repo EXCEPT !.owed = FALSE, !.stamp = @ + 1]
    /\ UNCHANGED <<published, imported, files, importer, commands, disturbances>>

\* An object loses its bytes or their value with nobody noticing.
Decay(k, object) ==
    /\ repo.object[k] = "good"
    /\ Changed([repo EXCEPT !.object[k] = object], 0)

RepoStep ==
    \/ \E e \in AnnexEntries : Unlock(e) \/ Lock(e)
                               \/ \E w \in {"none", "bad", "unreadable"} : Overwrite(e, w)
    \/ \E k \in AnnexKeys : Drop(k) \/ Get(k)
                            \/ \E o \in {"none", "bad", "unreadable", "hidden"} : Decay(k, o)
    \/ CommitJournal

AnnexNext ==
    \/ \E x \in Importers :
          \/ \E j \in ImportJobs :
                \/ \E reimport \in BOOLEAN : StartImport(x, j, reimport)
                \/ ResumeImport(x, j) \/ CancelImport(x, j)
          \/ Capture(x) \/ Configure(x) \/ JobRow(x) \/ OpenSpool(x) \/ ReadEntry(x)
          \/ PauseImport(x) \/ EndImport(x) \/ AppendImport(x) \/ ApplyImport(x)
          \/ CleanUp(x) \/ MarkCancelled(x) \/ KillImport(x)
    \/ RebuildCatalog
    \/ RepoStep

AnnexSpec == AnnexInit /\ [][AnnexNext]_annexVars

-----------------------------------------------------------------------------
(* Properties                                                              *)

\* Everything a published import says was seen while the repository had the
\* fingerprint the import is recorded with, over every pause, kill and resume
\* (annex.rs, "Rechecking source metadata" and the configuration's
\* source_fingerprint).
ImportIsOneSnapshot ==
    \A n \in DOMAIN published : \A i \in DOMAIN published[n].items :
        published[n].items[i].at = published[n].snapshot

\* A published import has one item for every annex entry of the index, in
\* order, and no import is published twice, wherever its runs stopped
\* (annex.rs, AnnexLocalCheckpoint: entries_seen and spool_len).
ImportIsWhole ==
    /\ \A n \in DOMAIN published :
          [i \in DOMAIN published[n].items |-> published[n].items[i].entry]
            = SelectSeq([e \in Entries |-> e], LAMBDA e : KeyOf[e] # NoKey)
    /\ \A m, n \in DOMAIN published : published[m].job = published[n].job => m = n

\* A copy is missing only where an import found no bytes at its own place: a
\* deleted link does not lose the shared object, nor a lost object the
\* unlocked files (compact_projection.rs, project_annex_absence).
MissingWasLookedFor ==
    \A c \in Claims : imported.copies[c].state = "missing" =>
        \E n \in 1 .. imported.applied : \E i \in DOMAIN published[n].items :
            c \in published[n].items[i].gone

\* "Do not retain a stale positive hint" (compact_projection.rs,
\* ANNEX_REMOVE_AVAILABILITY): a key said to be available has a copy that no
\* import has found missing, if the importer can check the key's bytes.
HintHasACopy ==
    \A k \in AnnexKeys : repo.kind[k] = "hash" /\ imported.hint[k] = "present" =>
        \E c \in Claims : ClaimKey(c) = k /\ imported.copies[c].state \in Standing

\* Applying nothing but inventories changes no copy whose bytes an import has
\* looked at (compact_projection.rs copy, WHERE excluded.basis!=...).
InventoryKeepsEvidence ==
    (/\ imported'.applied > imported.applied
     /\ \A n \in imported.applied + 1 .. imported'.applied : published'[n].job \in Inventories) =>
        \A c \in Claims : imported.copies[c].basis = "observed_bytes" =>
            imported'.copies[c] = imported.copies[c]

\* A key whose bytes an import has read stays identified, and a file counts as
\* identified only by such a key, over inventories, damage, absences and
\* rebuilds (compact_projection.rs, the upsert of source_identities).
IdentityIsKept ==
    /\ \A k \in AnnexKeys :
          imported.identity[k] = "resolved" => imported'.identity[k] = "resolved"
    /\ \A e \in AnnexEntries : imported'.file[e] = "resolved" =>
          \E n \in 1 .. imported'.applied : \E i \in DOMAIN published'[n].items :
             /\ KeyOf[published'[n].items[i].entry] = KeyOf[e]
             /\ published'[n].items[i].category = "present"

\* What git-annex imports and inventories leave in the history and the catalog
\* is sound after every step of any of them.
AnnexIsSound ==
    [][/\ InventoryKeepsEvidence /\ IdentityIsKept
       /\ (ImportIsOneSnapshot /\ ImportIsWhole)'
       /\ (MissingWasLookedFor /\ HintHasACopy)']_annexVars

\* "CAS copies are shared by aliases" (compact_projection.rs): once an import
\* that followed a link to a key's object and found it gone is projected, the
\* object's copy is not present.
\* TLC refutes it: README, "Met while modelling".
AbsenceIsRecorded ==
    \A k \in AnnexKeys :
        (/\ imported.applied > 0
         /\ \E i \in DOMAIN published[imported.applied].items :
               LET item == published[imported.applied].items[i]
               IN  /\ KeyOf[item.entry] = k /\ IsAbsence(item)
                   /\ item.representation = "annex_locked_symlink"
         /\ \A i \in DOMAIN published[imported.applied].items :
               CasClaim(k) \in published[imported.applied].items[i].gone)
        => imported.copies[CasClaim(k)].state # "present"
=============================================================================
