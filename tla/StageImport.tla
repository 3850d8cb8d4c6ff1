----------------------------- MODULE StageImport -----------------------------
(***************************************************************************)
(* `archive stage` and `archive stage import` (stage.rs, main.rs and       *)
(* sqlite_stage_cli.rs).                                                   *)
(*                                                                         *)
(* An audit hashes the files of a source directory into a manifest beside  *)
(* them, under a new generation, and reports whether the source may be     *)
(* removed.  An import freezes the files of one generation that the        *)
(* catalog does not know, copies them into a temporary tree, publishes the *)
(* tree by one rename and only then records what it holds.  An import is   *)
(* killed anywhere and resumed by its job id; the owner changes the source *)
(* and the published tree, and audits again, at any moment.                *)
(*                                                                         *)
(* A file is its bytes and its stat (size, times and inode: every change   *)
(* makes a new one).  Recording a page is one step here: CopyWork has the  *)
(* window between appending and applying.                                  *)
(***************************************************************************)
EXTENDS Integers, FiniteSets, FiniteSetsExt

CONSTANTS
    NPaths,         \* paths 1..NPaths below the source, in the order of the walk
    StageContents, None,
    Backends,       \* subset of {"v2", "sqlite"}
    Jobs, Runners,  \* import jobs, the processes that run them
    BatchFiles,     \* DEFAULT_BATCH_FILES
    Page,           \* candidates in a page
    MaxItems,       \* the limits --max-items may give a run
    MaxAudits, MaxStarts, MaxKills, MaxEdits \* bounds

StagePaths == 1..NPaths

ASSUME LimitsPositive == {NPaths, BatchFiles, Page} \subseteq Nat \ {0} /\ MaxItems \subseteq Nat

\* A file of the source, a tree below a destination, the selection of a job.
SourceFile == [bytes : StageContents, stat : Nat]
Trees == [StagePaths -> StageContents \cup {None}]
Selection == [gen : Nat, paths : SUBSET StagePaths]

ASSUME NoneIsApart == None \notin Jobs \cup StageContents \cup SourceFile \cup Trees \cup Selection

VARIABLES
    backend,  \* the catalog of the installation
    src,      \* the source directory
    man,      \* the manifest
    cat,      \* contents the catalog knows
    expect,   \* checksum a Collection path is expected to have (sqlite)
    job,      \* status of the import jobs
    recs,     \* copies recorded by an import
    temp,     \* the temporary tree of every job
    pub,      \* the tree at the destination
    aud,      \* the audit
    proc,     \* the import processes
    touched,  \* history: paths changed since the audit began
    reviewed, \* history: the checksums a job selected
    held,     \* history: what a job has last read in its tree
    audits, starts, kills, edits

stageDisk == <<src, temp, pub>>
catalog == <<cat, expect, job, recs>>
hist == <<touched, reviewed, held>>
stageBounds == <<audits, starts, kills, edits>>
stageVars == <<backend, stageDisk, man, catalog, aud, proc, hist, stageBounds>>

NoRow == [gen |-> 0, stat |-> 0, hash |-> None, state |-> "none"]
NoTree == [p \in StagePaths |-> None]
IdleAudit == [pc |-> "idle", gen |-> 0, next |-> 1, stat |-> 0,
              rows |-> [p \in StagePaths |-> NoRow], clean |-> TRUE, ready |-> FALSE]
IdleProc == [pc |-> "idle", job |-> None, resuming |-> FALSE, gen |-> 0,
             eligible |-> 0, published |-> FALSE, keep |-> FALSE,
             cursor |-> 0, page |-> {}, limit |-> 0]

\* initialize_manifest, and a source nobody has audited.
StageInit ==
    /\ backend \in Backends
    /\ src \in [StagePaths -> {[bytes |-> c, stat |-> 0] : c \in StageContents}]
    /\ man = [gen |-> 0, status |-> "none", rows |-> [p \in StagePaths |-> NoRow],
              sel |-> [j \in Jobs |-> None]]
    /\ cat = {} /\ expect = [p \in StagePaths |-> None]
    /\ job = [j \in Jobs |-> "none"] /\ recs = {}
    /\ temp = [j \in Jobs |-> None] /\ pub = None
    /\ aud = IdleAudit /\ proc = [x \in Runners |-> IdleProc]
    /\ touched = {} /\ reviewed = [j \in Jobs |-> NoTree] /\ held = reviewed
    /\ audits = 0 /\ starts = 0 /\ kills = 0 /\ edits = 0

-----------------------------------------------------------------------------
(* The audit.                                                              *)

Audit(a) == aud' = a

\* A batch of the audit is open from BEGIN IMMEDIATE to COMMIT; what the import
\* writes to the manifest waits for it, and gives up.
Unlocked == aud.pc \notin {"walk", "hash"}

\* The generation and the status "running" are committed before the walk.
AuditBegin ==
    /\ aud.pc = "idle" /\ audits < MaxAudits
    /\ audits' = audits + 1
    /\ man' = [man EXCEPT !.gen = audits', !.status = "running"]
    /\ Audit([IdleAudit EXCEPT !.pc = "begin", !.gen = audits'])
    /\ touched' = {}
    /\ UNCHANGED <<backend, stageDisk, catalog, proc, reviewed, held, starts, kills, edits>>

AuditBatch ==
    /\ aud.pc = "begin"
    /\ Audit([aud EXCEPT !.pc = "walk"])
    /\ UNCHANGED <<backend, stageDisk, man, catalog, proc, hist, stageBounds>>

Pending == {p \in StagePaths : aud.rows[p].state # "none"}
Walking == aud.pc = "walk" /\ aud.next \in StagePaths /\ Cardinality(Pending) < BatchFiles

\* cached_checksum: a stable row, of any generation, with the same fingerprint.
Cached(p, stat) == man.rows[p].state = "stable" /\ man.rows[p].stat = stat

\* upsert_staged_file; a file that is not stable makes the audit partial.
Upsert(stat, hash, state) ==
    [aud EXCEPT !.pc = "walk",
                !.rows[aud.next] = [gen |-> aud.gen, stat |-> stat, hash |-> hash,
                                    state |-> state],
                !.clean = @ /\ state = "stable",
                !.next = @ + 1]

\* The walk comes to a path: it is gone, its checksum is cached, or it is opened.
AuditFingerprint ==
    LET p == aud.next
        f == src[p]
    IN  /\ Walking
        /\ Audit(IF f = None THEN [aud EXCEPT !.next = @ + 1]
                 ELSE IF Cached(p, f.stat) THEN Upsert(f.stat, man.rows[p].hash, "stable")
                 ELSE [aud EXCEPT !.pc = "hash", !.stat = f.stat])
        /\ UNCHANGED <<backend, stageDisk, man, catalog, proc, hist, stageBounds>>

\* A file that goes between its discovery and its fingerprint ends the audit.
AuditVanished ==
    /\ Walking /\ src[aud.next] = None
    /\ Audit(IdleAudit)
    /\ UNCHANGED <<backend, stageDisk, man, catalog, proc, hist, stageBounds>>

\* hash_stable: the fingerprint afterwards must be the one before.
AuditHash ==
    LET f == src[aud.next]
    IN  /\ aud.pc = "hash"
        /\ Audit(IF f = None THEN Upsert(aud.stat, None, "read_error")
                 ELSE IF f.stat # aud.stat THEN Upsert(aud.stat, None, "unstable")
                 ELSE Upsert(f.stat, f.bytes, "stable"))
        /\ UNCHANGED <<backend, stageDisk, man, catalog, proc, hist, stageBounds>>

\* A full batch, or the last one, is committed.
AuditCommit ==
    /\ aud.pc = "walk" /\ ~Walking
    /\ man' = [man EXCEPT !.rows = [p \in StagePaths |->
                                    IF p \in Pending THEN aud.rows[p] ELSE man.rows[p]]]
    /\ Audit([aud EXCEPT !.pc = IF aud.next \in StagePaths THEN "begin" ELSE "prune",
                         !.rows = IdleAudit.rows])
    /\ UNCHANGED <<backend, stageDisk, catalog, proc, hist, stageBounds>>

\* Rows of earlier generations go when nothing went wrong.
AuditPrune ==
    /\ aud.pc = "prune"
    /\ man' = IF aud.clean
              THEN [man EXCEPT !.rows = [p \in StagePaths |->
                                       IF man.rows[p].gen = aud.gen THEN man.rows[p] ELSE NoRow]]
              ELSE man
    /\ Audit([aud EXCEPT !.pc = "classify"])
    /\ UNCHANGED <<backend, stageDisk, catalog, proc, hist, stageBounds>>

\* The stable files of a generation.
Stable(gen) == {p \in StagePaths : man.rows[p].gen = gen /\ man.rows[p].state = "stable"}

\* source_removal_ready; a policy is taken to be satisfied by what is cataloged.
Ready(clean, gen) ==
    /\ backend = "v2"
    /\ clean
    /\ \A p \in Stable(gen) : man.rows[p].hash \in cat

\* The status is written and the report made.
AuditReport ==
    /\ aud.pc = "classify"
    /\ man' = [man EXCEPT !.status = IF aud.clean THEN "complete" ELSE "partial"]
    /\ Audit([IdleAudit EXCEPT !.ready = Ready(aud.clean, aud.gen)])
    /\ UNCHANGED <<backend, stageDisk, catalog, proc, hist, stageBounds>>

AuditKilled ==
    /\ aud.pc # "idle" /\ kills < MaxKills
    /\ kills' = kills + 1
    /\ Audit(IdleAudit)
    /\ UNCHANGED <<backend, stageDisk, man, catalog, proc, hist, audits, starts, edits>>

-----------------------------------------------------------------------------
(* The import.                                                             *)

Set(x, r) == proc' = [proc EXCEPT ![x] = r]

\* TemporaryImportTree is dropped when a run ends by itself.
TreeDropped(p) == IF p.keep \/ p.published THEN temp ELSE [temp EXCEPT ![p.job] = None]

Exit(x, p) == Set(x, IdleProc) /\ temp' = TreeDropped(p)

NotCataloged(gen) == {p \in Stable(gen) : man.rows[p].hash \notin cat}

\* prepare_stage_import_at and the checks before the confirmation.
Prepare(x, j) ==
    LET resuming == job[j] # "none"
    IN  /\ proc[x].pc = "idle" /\ starts < MaxStarts
        /\ \A y \in Runners : proc[y].job # j
        /\ job[j] \in {"none", "running"}
        /\ Unlocked /\ man.status \in {"complete", "partial"}
        /\ ~resuming => pub = None /\ NotCataloged(man.gen) # {}
        /\ backend = "sqlite" =>
             \A p \in NotCataloged(man.gen) : expect[p] \in {None, man.rows[p].hash}
        /\ starts' = starts + 1
        /\ \E limit \in MaxItems :
             Set(x, [IdleProc EXCEPT !.pc = "select", !.job = j, !.resuming = resuming,
                                     !.gen = man.gen, !.limit = limit])
        /\ UNCHANGED <<backend, stageDisk, man, catalog, aud, hist, audits, kills, edits>>

\* The rows whose paths a job has selected, whatever their generation.
Selected(m, j) == {p \in m.sel[j].paths : m.rows[p].state # "none"}

\* select_stage_import_at: the paths are frozen with the first run of the job.
Select(x) ==
    LET p == proc[x]
        fresh == [gen |-> p.gen, paths |-> NotCataloged(p.gen)]
    IN  /\ p.pc = "select" /\ Unlocked
        /\ IF man.sel[p.job] = None
           THEN man' = [man EXCEPT !.sel[p.job] = fresh] ELSE man' = man
        /\ reviewed' = IF man.sel[p.job] # None THEN reviewed
                       ELSE [reviewed EXCEPT ![p.job] =
                               [q \in StagePaths |-> IF q \in fresh.paths THEN man.rows[q].hash ELSE None]]
        /\ IF man'.sel[p.job].gen = p.gen
           THEN Set(x, [p EXCEPT !.pc = "start",
                                 !.eligible = Cardinality(Selected(man', p.job))])
           ELSE Set(x, IdleProc)
        /\ UNCHANGED <<backend, stageDisk, catalog, aud, touched, held, stageBounds>>

\* ensure_v2_job_started or begin_catalog_job.
StartJob(x) ==
    /\ proc[x].pc = "start"
    /\ job' = [job EXCEPT ![proc[x].job] = "running"]
    /\ Set(x, [proc[x] EXCEPT !.pc = "open"])
    /\ UNCHANGED <<backend, stageDisk, man, cat, expect, recs, aud, hist, stageBounds>>

\* A tree that is already published is taken up by a resumed job alone.
MayOpen(p) == (temp[p.job] # None => pub = None) /\ (pub # None => p.resuming)

OpenTree(x) ==
    LET p == proc[x]
    IN  /\ p.pc = "open"
        /\ IF MayOpen(p)
           THEN /\ temp' = [temp EXCEPT ![p.job] = IF @ = None /\ pub = None THEN NoTree ELSE @]
                /\ Set(x, [p EXCEPT !.pc = "page", !.published = pub # None,
                                    !.keep = temp[p.job] # None])
           ELSE Set(x, IdleProc) /\ UNCHANGED temp
        /\ UNCHANGED <<backend, src, pub, man, catalog, aud, hist, stageBounds>>

\* stage_import_candidates_at: selected paths of the planned generation.
ImportCandidates(p) ==
    {q \in Stable(p.gen) \cap man.sel[p.job].paths : q > p.cursor}
NextPage(p) ==
    {q \in ImportCandidates(p) : Cardinality({r \in ImportCandidates(p) : r <= q}) <= Page}

\* The cursor of the next page, when there are more candidates than this one holds.
NextCursor(p) == IF ImportCandidates(p) = NextPage(p) THEN NPaths ELSE Max(NextPage(p))

\* A page holds the checksums as well: the manifest is not read again for it.
ReadPage(x) ==
    LET p == proc[x]
    IN  /\ p.pc \in {"page", "records"}
        /\ Set(x, [p EXCEPT !.pc = IF p.pc = "page" THEN "copy" ELSE "record",
                            !.page = {[path |-> q, hash |-> man.rows[q].hash] : q \in NextPage(p)},
                            !.cursor = NextCursor(p)])
        /\ UNCHANGED <<backend, stageDisk, man, catalog, aud, hist, stageBounds>>

Tree(p) == IF ~p.published THEN temp[p.job] ELSE IF pub = None THEN NoTree ELSE pub

AcceptedExisting(found, hash) == TRUE

\* verify_existing_file: the bytes that are there have the reviewed checksum.
VerifiedExisting(found, hash) == found = hash

\* copy_verified_no_replace: what was read from the source has it.
VerifiedCopy(f, hash) == f # None /\ f.bytes = hash

\* One candidate: an existing file is verified, a missing one copied, unless the
\* tree is published already.
CopyFile(x) ==
    LET p == proc[x]
        c == CHOOSE d \in p.page : \A e \in p.page : d.path <= e.path
        found == Tree(p)[c.path]
        kept == p.keep \/ found # None
        ok == IF found # None THEN VerifiedExisting(found, c.hash)
              ELSE ~p.published /\ VerifiedCopy(src[c.path], c.hash)
    IN  /\ p.pc = "copy" /\ p.page # {} /\ p.limit > 0
        /\ IF ok
           THEN /\ Set(x, [p EXCEPT !.page = @ \ {c}, !.limit = @ - 1, !.keep = kept])
                /\ temp' = IF found # None THEN temp
                           ELSE [temp EXCEPT ![p.job][c.path] = src[c.path].bytes]
                /\ held' = [held EXCEPT ![p.job][c.path] =
                               IF found # None THEN found ELSE src[c.path].bytes]
           ELSE Exit(x, [p EXCEPT !.keep = kept]) /\ UNCHANGED held
        /\ UNCHANGED <<backend, src, pub, man, catalog, aud, touched, reviewed, stageBounds>>

\* --max-items: the tree is kept for the next run.
Interrupt(x) ==
    /\ proc[x].pc = "copy" /\ proc[x].page # {} /\ proc[x].limit = 0
    /\ Exit(x, [proc[x] EXCEPT !.keep = TRUE])
    /\ UNCHANGED <<backend, src, pub, man, catalog, aud, hist, stageBounds>>

PageDone(x) ==
    /\ proc[x].pc = "copy" /\ proc[x].page = {}
    /\ Set(x, [proc[x] EXCEPT !.pc = IF proc[x].cursor < NPaths THEN "page" ELSE "validate"])
    /\ UNCHANGED <<backend, stageDisk, man, catalog, aud, hist, stageBounds>>

Files(tree) == {p \in StagePaths : tree[p] # None}

\* validate_import_tree counts the files; a tree that fails is kept.
Validate(x) ==
    LET p == proc[x]
    IN  /\ p.pc = "validate"
        /\ IF (p.published => pub # None) /\ Cardinality(Files(Tree(p))) = p.eligible
           THEN Set(x, [p EXCEPT !.pc = IF p.published THEN "records" ELSE "publish",
                                 !.cursor = 0]) /\ UNCHANGED temp
           ELSE Exit(x, [p EXCEPT !.keep = TRUE])
        /\ UNCHANGED <<backend, src, pub, man, catalog, aud, hist, stageBounds>>

\* place_no_replace moves the directory.
Renamed(j) == [temp EXCEPT ![j] = None]

\* place_directory_no_replace; a run may be told to stop behind it.
Publish(x) ==
    LET p == proc[x]
    IN  /\ p.pc = "publish"
        /\ IF pub # None THEN Exit(x, p) /\ UNCHANGED pub
           ELSE /\ pub' = temp[p.job]
                /\ temp' = Renamed(p.job)
                /\ \/ Set(x, [p EXCEPT !.pc = "records", !.keep = TRUE])
                   \/ Set(x, IdleProc)
        /\ UNCHANGED <<backend, src, man, catalog, aud, hist, stageBounds>>

\* record_placements of the SQLite catalog: a path that is expected to have
\* another checksum is recorded as a mismatch and ends the run.
Refused(p) ==
    {c \in p.page : backend = "sqlite" /\ expect[c.path] \notin {None, c.hash}}

AfterRecord(p) == IF p.cursor < NPaths THEN "records" ELSE "finish"

\* The page is recorded from the manifest; the files are not read again.
Record(x) ==
    LET p == proc[x]
        new == p.page \ Refused(p)
    IN  /\ p.pc = "record"
        /\ recs' = recs \cup {<<p.job, c.path, c.hash>> : c \in new}
        /\ cat' = cat \cup {c.hash : c \in new}
        /\ expect' = IF backend = "v2" THEN expect
                     ELSE [q \in StagePaths |-> IF \E c \in new : c.path = q
                                                THEN (CHOOSE c \in new : c.path = q).hash ELSE expect[q]]
        /\ IF Refused(p) # {} THEN Set(x, IdleProc)
           ELSE Set(x, [p EXCEPT !.pc = AfterRecord(p)])
        /\ UNCHANGED <<backend, stageDisk, job, man, aud, hist, stageBounds>>

Finish(x) ==
    /\ proc[x].pc = "finish"
    /\ job' = [job EXCEPT ![proc[x].job] = "complete"]
    /\ Set(x, IdleProc)
    /\ UNCHANGED <<backend, stageDisk, man, cat, expect, recs, aud, hist, stageBounds>>

ImportKilled(x) ==
    /\ proc[x].pc # "idle" /\ kills < MaxKills
    /\ kills' = kills + 1
    /\ Set(x, IdleProc)
    /\ UNCHANGED <<backend, stageDisk, man, catalog, aud, hist, audits, starts, edits>>

-----------------------------------------------------------------------------
(* The owner, and other commands on the same catalog.                      *)

EditSource(p) ==
    /\ edits < MaxEdits /\ edits' = edits + 1
    /\ \E c \in StageContents \cup {None} :
         src' = [src EXCEPT ![p] = IF c = None THEN None ELSE [bytes |-> c, stat |-> edits']]
    /\ touched' = touched \cup {p}
    /\ UNCHANGED <<backend, temp, pub, man, catalog, aud, proc, reviewed, held, audits, starts, kills>>

EditPublished ==
    /\ pub # None
    /\ edits < MaxEdits /\ edits' = edits + 1
    /\ \/ \E p \in StagePaths, c \in StageContents \cup {None} : pub' = [pub EXCEPT ![p] = c]
       \/ pub' = None
    /\ UNCHANGED <<backend, src, temp, man, catalog, aud, proc, hist, audits, starts, kills>>

\* A scan of the destination.
Scan(p) ==
    /\ pub # None /\ pub[p] # None
    /\ cat' = cat \cup {pub[p]}
    /\ expect' = IF backend = "sqlite" /\ expect[p] = None
                 THEN [expect EXCEPT ![p] = pub[p]] ELSE expect
    /\ UNCHANGED <<backend, stageDisk, job, recs, man, aud, proc, hist, stageBounds>>

AuditNext ==
    \/ AuditBegin \/ AuditBatch \/ AuditFingerprint \/ AuditVanished \/ AuditHash
    \/ AuditCommit \/ AuditPrune \/ AuditReport \/ AuditKilled

ImportNext(x) ==
    \/ \E j \in Jobs : Prepare(x, j)
    \/ Select(x) \/ StartJob(x) \/ OpenTree(x) \/ ReadPage(x) \/ CopyFile(x)
    \/ Interrupt(x) \/ PageDone(x) \/ Validate(x) \/ Publish(x) \/ Record(x)
    \/ Finish(x) \/ ImportKilled(x)

StageNext ==
    \/ AuditNext
    \/ \E x \in Runners : ImportNext(x)
    \/ \E p \in StagePaths : EditSource(p) \/ Scan(p)
    \/ EditPublished

StageSpec == StageInit /\ [][StageNext]_stageVars

-----------------------------------------------------------------------------
\* Nothing is recorded that the job has not read, with the reviewed checksum,
\* in its own tree: the records come from the manifest, which audits rewrite
\* while the import runs (execute_v2_stage_import).
RecordedWasVerified ==
    \A r \in recs : held[r[1]][r[2]] = r[3] /\ reviewed[r[1]][r[2]] = r[3]

\* A temporary tree always belongs to a job that can be resumed: no end of a run
\* leaves one behind that nothing will pick up (TemporaryImportTree).
TreeHasAJob == \A j \in Jobs : temp[j] # None => job[j] = "running"

\* A finished import has recorded every file it selected, through any number of
\* runs, pages and limits, as long as the source has not been audited again
\* (stage_import_candidates_at).
CompleteRecordsSelection ==
    \A j \in Jobs : job[j] = "complete" /\ man.sel[j].gen = man.gen =>
        \A p \in man.sel[j].paths : <<j, p, reviewed[j][p]>> \in recs

\* "A resumed job therefore processes exactly the paths reviewed when that job
\* started": a finished import has recorded every file it selected.
\* TLC refutes it: README, "Met while modelling".
ProcessesReviewedPaths ==
    \A j \in Jobs : job[j] = "complete" =>
        \A p \in man.sel[j].paths : <<j, p, reviewed[j][p]>> \in recs

\* The tree appears whole at the destination and holds reviewed bytes alone,
\* whatever happened to the source since (copy_verified_no_replace).
PublishedIsReviewed ==
    pub = None /\ pub' # None =>
      \E j \in Jobs : /\ temp[j] = pub'
                      /\ \A p \in Files(pub') : pub'[p] = reviewed[j][p]

\* An audit that says the source may be removed has seen every file that was not
\* changed under it, and the catalog knows their bytes (source_removal_ready).
ReadyIsTrue ==
    aud.pc = "classify" /\ aud'.ready =>
      \A p \in StagePaths \ touched : src[p] # None => src[p].bytes \in cat

\* No step of an audit or an import lets unverified bytes count: not in the
\* published tree, not in the records, not in the permission to remove the
\* source; and none strands a tree or forgets a selected file.
ImportIsSafe ==
    [][/\ PublishedIsReviewed /\ ReadyIsTrue
       /\ (RecordedWasVerified /\ TreeHasAJob /\ CompleteRecordsSelection)']_stageVars
=============================================================================
