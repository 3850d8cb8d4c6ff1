-------------------------------- MODULE ScanV1 --------------------------------
(***************************************************************************)
(* The scan of a Location in a version 1 Archive (scan.rs) and the         *)
(* projection of its events (projection.rs).                               *)
(*                                                                         *)
(* A scan walks the Location, spools what it finds in a temporary file,    *)
(* publishes the spool to the event log, proposes as missing what it has   *)
(* not seen, walks the Location a second time and completes.  Its owner    *)
(* changes the files meanwhile; `--max-items`, a signal or a power failure *)
(* stops it anywhere, and it is run again with the same scan id.  No lock  *)
(* covers a run: other scans, and verifications, append between its steps. *)
(*                                                                         *)
(* A path is an ordinary file or an entry that an annex import recorded.   *)
(* What is on disk at a path is a number: 0 for no entry, 1..MaxVersion    *)
(* for bytes with their size and modification time, Dangling for an annex  *)
(* entry without content and Escaping for one whose target is refused.     *)
(* Hashing a file is one step, and so is projecting the log, which is      *)
(* read in one batch.  All scans are of one Collection at one Location.    *)
(***************************************************************************)
EXTENDS Integers, Sequences, FiniteSets, TLC

CONSTANTS
    Ordinary,   \* paths of ordinary files
    Catalogued, \* those an earlier scan has recorded
    Annex,      \* paths an annex import has recorded
    Sha256,     \* those whose key is a SHA256 of the content
    Scans, ScanMode, NoScan,
    ScanProcs,
    Runs,       \* which process may run which scan
    MaxVersion, MaxRuns,
    MaxUpsets   \* bounds the changes to files, kills, errors and verifications

Paths == Ordinary \cup Annex
Dangling == MaxVersion + 1
Escaping == MaxVersion + 2
Contents == 1..MaxVersion
ScanKinds == {"path", "copy", "old"}

ASSUME PathsAreNamed == Catalogued \subseteq Ordinary /\ Sha256 \subseteq Annex
                        /\ Ordinary \cap Annex = {}
ASSUME ScansAreModes == ScanMode \in [Scans -> {"add", "complete"}] /\ NoScan \notin Scans
                        /\ Runs \subseteq ScanProcs \X Scans

VARIABLES
    disk,   \* what is at every path
    sdb,    \* the projection
    refused, \* the log holds an event that the projection refuses
    items,  \* scan_seen rows of job_items, by scan
    sp,     \* the processes
    gone,   \* history: targets absent at some moment since candidates were generated
    was,    \* history: paths present at some moment since then
    steady, \* history: paths unchanged since the scan's current run began
    begun, upsets

scanVars == <<disk, sdb, refused, items, sp, gone, was, steady, begun, upsets>>

-----------------------------------------------------------------------------
(* What the projection holds of a path.  "path" is the observation, "copy" *)
(* the claim at the path that holds the bytes, and "old" the claim that an *)
(* earlier import made for the same annex object relative to the object    *)
(* store.                                                                  *)

States(path, copy, old) == [path |-> path, copy |-> copy, old |-> old]

PathRow(p) ==
    [st    |-> IF p \in Annex THEN States("present", "none", IF p \in Sha256 THEN "present" ELSE "none")
               ELSE IF p \in Catalogued THEN States("present", "present", "none")
               ELSE States("none", "none", "none"),
     seq   |-> [k \in ScanKinds |-> 0],
     first |-> 0,
     by    |-> NoScan,
     meta  |-> IF p \in Catalogued \cup Annex THEN 1 ELSE 0,
     rep   |-> IF p \in Annex THEN "link" ELSE "file",
     avail |-> IF p \in Annex THEN "present" ELSE "none",
     comp  |-> NoScan]

EmptyScanDb ==
    [row   |-> [p \in Paths |-> PathRow(p)],
     scan  |-> [s \in Scans |-> "none"],
     start |-> [s \in Scans |-> 0],
     cand  |-> [s \in Scans |-> [p \in Paths |-> [k \in ScanKinds |-> 0]]],
     mixed |-> {},   \* scans with another scan's observation since their start
     keys  |-> {},   \* operation_outcomes
     n     |-> 0,
     bad   |-> FALSE]

Held == {"present", "corrupt", "unknown"}

Effective(d, s, p, k) == d.cand[s][p][k] > d.row[p].seq[k]

(* The copy of an annex entry lies in the object store, not at its path,   *)
(* so the manifest counts ordinary copies only.                            *)
Covered(d, s) ==
    LET old(p) == d.row[p].first <= d.start[s] \/ d.row[p].by = s
    IN  {t \in {"path", "copy"} \X Paths :
            /\ old(t[2])
            /\ ~Effective(d, s, t[2], t[1])
            /\ \/ t[1] = "path" /\ d.row[t[2]].st.path = "present"
               \/ t[1] = "copy" /\ t[2] \in Ordinary /\ d.row[t[2]].st.copy \in Held}

Candidates(d, s) ==
    {t \in ScanKinds \X Paths : d.cand[s][t[2]][t[1]] # 0}

scan_completion_manifest(d, s) ==
    [covered |-> Covered(d, s), candidates |-> Candidates(d, s)]

NoManifest == [covered |-> {}, candidates |-> {}]

-----------------------------------------------------------------------------
(* The projection of one event.                                            *)

CandEvents == {"cand path", "cand copy", "cand old"}

OperationKey(e) ==
    CASE e.k = "verified" -> {}
      [] e.k \in {"start", "done"} -> {<<e.s, e.k>>}
      [] OTHER -> {<<e.s, e.k, e.p>>}

Note(d, e, k, st) == [d.row[e.p] EXCEPT !.st[k] = st, !.seq[k] = d.n + 1]

Mixes(d, e) == {s \in Scans : d.scan[s] = "running" /\ s # e.s}

project_path_observation(d, e) ==
    [d EXCEPT !.row[e.p] = [Note(d, e, "path", "present") EXCEPT
                               !.meta = e.meta, !.rep = e.rep, !.by = e.s,
                               !.first = IF d.row[e.p].st.path = "none" THEN d.n + 1 ELSE @],
              !.mixed = @ \cup Mixes(d, e)]

(* copy_observed with the copy_verified that follows it                    *)
project_copy_claim(d, e) ==
    [d EXCEPT !.row[e.p] = Note(d, e, e.kind, e.st),
              !.mixed = @ \cup Mixes(d, e)]

project_external_availability(d, e) == [d EXCEPT !.row[e.p].avail = e.st]

(* A verification changes a claim only where there is one.                 *)
project_copy_verification(d, e) ==
    IF d.row[e.p].st.copy = "none" THEN d ELSE [d EXCEPT !.row[e.p] = Note(d, e, "copy", e.st)]

project_scan_started(d, e) ==
    [d EXCEPT !.scan[e.s] = "running", !.start[e.s] = d.n + 1]

project_scan_missing_candidate(d, e) == [d EXCEPT !.cand[e.s][e.p][e.kind] = d.n + 1]

Activate(d, s) ==
    [p \in Paths |->
        LET lost == {k \in ScanKinds : Effective(d, s, p, k)}
            r == d.row[p]
        IN  [r EXCEPT !.st = [k \in ScanKinds |-> IF k \in lost THEN "missing" ELSE r.st[k]],
                      !.seq = [k \in ScanKinds |-> IF k \in lost THEN d.cand[s][p][k] ELSE r.seq[k]],
                      !.by = IF "path" \in lost THEN s ELSE @,
                      !.comp = IF r.st.path = "present" /\ "path" \notin lost THEN s ELSE @]]

Downgraded(d, e) == e.status = "complete" /\ ScanMode[e.s] = "complete" /\ e.s \in d.mixed

project_incomplete_scan(d, e, status) == [d EXCEPT !.scan[e.s] = status]

project_scan_completed(d, e) ==
    IF Downgraded(d, e) THEN project_incomplete_scan(d, e, "partial")
    ELSE IF e.status # "complete" \/ ScanMode[e.s] = "add"
    THEN project_incomplete_scan(d, e, e.status)
    ELSE [d EXCEPT !.row = Activate(d, e.s), !.scan[e.s] = "complete"]

Accepts(d, e) ==
    /\ OperationKey(e) \cap d.keys = {}
    /\ e.k = "start" => d.scan[e.s] = "none"
    /\ e.k \in CandEvents => d.scan[e.s] = "running" /\ ScanMode[e.s] = "complete"
    /\ e.k = "done" =>
          /\ d.scan[e.s] = "running"
          /\ \/ Downgraded(d, e)
             \/ (e.status # "complete" \/ ScanMode[e.s] = "add") /\ e.man = NoManifest
             \/ e.status = "complete" /\ e.man = scan_completion_manifest(d, e.s)

project_semantic_event(d, e) ==
    CASE e.k = "start" -> project_scan_started(d, e)
      [] e.k = "path" -> project_path_observation(d, e)
      [] e.k \in {"copy", "old"} -> project_copy_claim(d, e)
      [] e.k = "avail" -> project_external_availability(d, e)
      [] e.k = "verified" -> project_copy_verification(d, e)
      [] e.k \in CandEvents -> project_scan_missing_candidate(d, e)
      [] e.k = "done" -> project_scan_completed(d, e)

apply_events(d, events) ==
    LET after[i \in 0..Len(events)] ==
            IF i = 0 THEN d
            ELSE LET before == after[i - 1]
                     e == events[i]
                 IN  IF before.bad \/ ~Accepts(before, e) THEN [before EXCEPT !.bad = TRUE]
                     ELSE [project_semantic_event(before, e) EXCEPT
                              !.n = before.n + 1, !.keys = before.keys \cup OperationKey(e)]
    IN  after[Len(events)]

-----------------------------------------------------------------------------
(* What the walk makes of one path: its events and the paths it has seen.  *)
(* `res` is how reading went: "ok" or "error".                             *)

PathEvent(s, p, meta, rep) == [k |-> "path", s |-> s, p |-> p, meta |-> meta, rep |-> rep]
CopyEvent(s, p, kind, st) == [k |-> kind, s |-> s, p |-> p, kind |-> kind, st |-> st]

imported_annex_availability_event(d, s, p, st) ==
    IF (st = "missing" /\ ScanMode[s] = "add") \/ d.row[p].avail = st THEN <<>>
    ELSE <<[k |-> "avail", s |-> s, p |-> p, st |-> st]>>

Unchanged(d, s, p, v) ==
    /\ d.row[p].st.path = "present"
    /\ d.row[p].meta = v
    /\ ~Effective(d, s, p, "path")
    /\ ~Effective(d, s, p, "copy")

positive_events(s, p, v, res) ==
    <<PathEvent(s, p, v, "file"),
      CopyEvent(s, p, "copy", IF res = "ok" THEN "present" ELSE "unknown")>>

events_for_file(d, s, p, v, res) ==
    [events |-> IF Unchanged(d, s, p, v) /\ d.row[p].st.copy \in Held THEN <<>>
                ELSE positive_events(s, p, v, res),
     seen   |-> {<<"path", p>>, <<"copy", p>>}]

imported_annex_absent_events(d, s, p) ==
    [events |-> (IF d.row[p].st.path = "present" /\ d.row[p].rep = "link" THEN <<>>
                 ELSE <<PathEvent(s, p, 0, "link")>>)
                \o imported_annex_availability_event(d, s, p, "missing"),
     seen   |-> {<<"path", p>>}]

imported_annex_read_error_events(d, s, p, rep, copies) ==
    [events |-> <<PathEvent(s, p, 0, rep)>>
                \o imported_annex_availability_event(d, s, p, "unknown")
                \o copies,
     seen   |-> {<<"path", p>>} \cup (IF copies = <<>> THEN {} ELSE {<<"copy", p>>})]

imported_annex_superseded_copy_event(d, s, p) ==
    IF d.row[p].st.copy = "none" /\ d.row[p].st.old \notin {"none", "superseded"}
    THEN <<CopyEvent(s, p, "old", "superseded")>>
    ELSE <<>>

imported_annex_content_events(d, s, p, v) ==
    <<PathEvent(s, p, v, "link")>>
    \o imported_annex_availability_event(d, s, p, "present")
    \o <<CopyEvent(s, p, "copy", IF v = 1 THEN "present" ELSE "corrupt")>>
    \o imported_annex_superseded_copy_event(d, s, p)

events_for_imported_annex_content(d, s, p, v, res) ==
    IF p \notin Sha256
    THEN [events |-> <<PathEvent(s, p, v, "link")>>
                     \o imported_annex_availability_event(d, s, p, "present"),
          seen   |-> {<<"path", p>>}]
    ELSE IF Unchanged(d, s, p, v) /\ d.row[p].st.copy = "present"
    THEN [events |-> imported_annex_availability_event(d, s, p, "present"),
          seen   |-> {<<"path", p>>, <<"copy", p>>}]
    ELSE IF res = "error"
    THEN imported_annex_read_error_events(d, s, p, "link", <<CopyEvent(s, p, "copy", "unknown")>>)
    ELSE [events |-> imported_annex_content_events(d, s, p, v),
          seen   |-> {<<"path", p>>, <<"copy", p>>}]

events_for_imported_annex_symlink(d, s, p, v, res) ==
    CASE v = Dangling -> imported_annex_absent_events(d, s, p)
      [] v = Escaping -> imported_annex_read_error_events(d, s, p, "unreadable", <<>>)
      [] OTHER -> events_for_imported_annex_content(d, s, p, v, res)

EventsFor(d, s, p, v, res) ==
    IF p \in Annex THEN events_for_imported_annex_symlink(d, s, p, v, res)
    ELSE events_for_file(d, s, p, v, res)

(* Claims and observations of the scope that this run has not seen and     *)
(* that no run of this scan has proposed before.                           *)
scan_missing_targets(d, s, seen) ==
    {t \in ScanKinds \X Paths :
        /\ t \notin seen
        /\ d.cand[s][t[2]][t[1]] = 0
        /\ IF t[1] = "path" THEN d.row[t[2]].st.path = "present"
           ELSE d.row[t[2]].st[t[1]] \in Held}

missing_candidate_event(s, t) ==
    [k |-> CASE t[1] = "path" -> "cand path" [] t[1] = "copy" -> "cand copy" [] OTHER -> "cand old",
     s |-> s, p |-> t[2], kind |-> t[1]]

scan_completed_event(s, status, man) == [k |-> "done", s |-> s, status |-> status, man |-> man]

-----------------------------------------------------------------------------
(* A command appends and then projects; nothing else reads the log, so the *)
(* two are one step.  The projection stops at an event that it refuses,    *)
(* and from then on every command fails when it starts.                    *)

publish(events) ==
    \E d \in {apply_events(sdb, events)} :
        IF refused \/ d.bad
        THEN refused' = TRUE /\ UNCHANGED sdb
        ELSE sdb' = d /\ UNCHANGED refused

NoRun == [pc |-> "idle", s |-> NoScan, todo |-> {}, spool |-> <<>>,
          ns |-> [p \in Paths |-> 0], partial |-> FALSE, man |-> NoManifest]

ScanInit ==
    /\ disk = [p \in Paths |-> IF p \in Catalogued \cup Annex THEN 1 ELSE 0]
    /\ sdb = EmptyScanDb
    /\ refused = FALSE
    /\ items = [s \in Scans |-> {}]
    /\ sp = [q \in ScanProcs |-> NoRun]
    /\ gone = [s \in Scans |-> {}]
    /\ was = [s \in Scans |-> {}]
    /\ steady = [s \in Scans |-> {}]
    /\ begun = 0 /\ upsets = 0

history == <<gone, was, steady>>
bounds == <<begun, upsets>>
Upset == upsets < MaxUpsets /\ upsets' = upsets + 1

ensure_scan_scope_available(s) ==
    \A t \in Scans \ {s} : ~(sdb.scan[t] = "running" /\ ScanMode[t] = ScanMode[s])

(* The process ends; what history recorded for its run is not needed.      *)
Ends(q) ==
    LET s == sp[q].s
    IN  /\ sp' = [sp EXCEPT ![q] = NoRun]
        /\ gone' = [gone EXCEPT ![s] = {}]
        /\ was' = [was EXCEPT ![s] = {}]
        /\ steady' = [steady EXCEPT ![s] = {}]

(* The process goes on to `next` unless the projection has stopped.        *)
Proceeds(q, next) ==
    IF refused' THEN Ends(q) ELSE sp' = [sp EXCEPT ![q] = next] /\ UNCHANGED history

(* A scan whose status is final is not run again.                          *)
Begin(q, s) ==
    /\ <<q, s>> \in Runs /\ sp[q].pc = "idle" /\ ~refused
    /\ begun < MaxRuns
    /\ ensure_scan_scope_available(s)
    /\ sdb.scan[s] \in {"none", "running"}
    /\ sp' = [sp EXCEPT ![q] = [NoRun EXCEPT
                  !.s = s, !.pc = IF <<s, "start">> \in sdb.keys THEN "ready" ELSE "start"]]
    /\ begun' = begun + 1
    /\ UNCHANGED <<disk, sdb, refused, items, history, upsets>>

scan_started(q) ==
    /\ sp[q].pc = "start"
    /\ publish(<<[k |-> "start", s |-> sp[q].s]>>)
    /\ Proceeds(q, [sp[q] EXCEPT !.pc = "ready"])
    /\ UNCHANGED <<disk, items, bounds>>

(* Mutant: a resumed run keeps the seen rows of the run before it.         *)
Bug_clear_scan_seen(q) ==
    LET s == sp[q].s
    IN  /\ sp[q].pc = "ready"
        /\ IF refused \/ sdb.scan[s] # "running" THEN Ends(q)
           ELSE /\ steady' = [steady EXCEPT ![s] = Paths]
                /\ sp' = [sp EXCEPT ![q].pc = "walk", ![q].todo = Paths]
                /\ UNCHANGED <<gone, was>>
        /\ UNCHANGED <<disk, sdb, refused, items, bounds>>

(* The run clears what an earlier run has marked as seen.                  *)
clear_scan_seen(q) ==
    LET s == sp[q].s
    IN  /\ sp[q].pc = "ready"
        /\ IF refused \/ sdb.scan[s] # "running"
           THEN Ends(q) /\ UNCHANGED items
           ELSE /\ items' = [items EXCEPT ![s] = {}]
                /\ steady' = [steady EXCEPT ![s] = Paths]
                /\ sp' = [sp EXCEPT ![q].pc = "walk", ![q].todo = Paths]
                /\ UNCHANGED <<gone, was>>
        /\ UNCHANGED <<disk, sdb, refused, bounds>>

(* A walk takes the paths in one order.                                    *)
NextPath(todo) == CHOOSE p \in todo : TRUE

(* flush_to_spool: the seen rows go to the database at once, the events    *)
(* wait in the spool.                                                      *)
Visit(q) ==
    LET s == sp[q].s
        p == NextPath(sp[q].todo)
    IN  /\ sp[q].pc = "walk" /\ sp[q].todo # {}
        /\ \E res \in {"ok", "error"} :
              /\ IF res = "ok" THEN UNCHANGED upsets ELSE Upset
              /\ \E found \in {IF disk[p] = 0 THEN [events |-> <<>>, seen |-> {}]
                             ELSE EventsFor(sdb, s, p, disk[p], res)} :
                  /\ items' = [items EXCEPT ![s] = @ \cup found.seen]
                  /\ sp' = [sp EXCEPT ![q].todo = @ \ {p}, ![q].ns[p] = disk[p],
                                      ![q].spool = @ \o found.events]
        /\ UNCHANGED <<disk, sdb, refused, history, begun>>

(* The file or its directory changed under the walk, or cannot be listed.  *)
Disturbed(q) ==
    /\ sp[q].pc \in {"walk", "confirm"} /\ sp[q].todo # {}
    /\ Upset
    /\ sp' = [sp EXCEPT ![q].todo = @ \ {NextPath(@)}, ![q].partial = TRUE]
    /\ UNCHANGED <<disk, sdb, refused, items, history, begun>>

(* --max-items                                                             *)
run_at_most(q) ==
    /\ sp[q].pc = "walk" /\ sp[q].todo # {}
    /\ publish(sp[q].spool)
    /\ Ends(q)
    /\ UNCHANGED <<disk, items, bounds>>

EndWalk(q) ==
    /\ sp[q].pc = "walk" /\ sp[q].todo = {}
    /\ publish(sp[q].spool)
    /\ Proceeds(q, [sp[q] EXCEPT
          !.spool = <<>>,
          !.pc = IF sp[q].partial \/ ScanMode[sp[q].s] = "add" THEN "complete" ELSE "generate"])
    /\ UNCHANGED <<disk, items, bounds>>

(* Nothing ever is at the path that an "old" claim names.                  *)
Absent(k, p) ==
    CASE k = "path" -> disk'[p] = 0
      [] k = "copy" -> disk'[p] \notin Contents
      [] OTHER -> TRUE

Order(T) ==
    LET seqs == {f \in [1..Cardinality(T) -> T] : \A i, j \in 1..Cardinality(T) : f[i] = f[j] => i = j}
    IN  CHOOSE f \in seqs : TRUE

generate_missing_candidates(q) ==
    LET s == sp[q].s
        targets == scan_missing_targets(sdb, s, items[s])
        order == Order(targets)
    IN  /\ sp[q].pc = "generate"
        /\ UNCHANGED disk
        /\ publish([i \in DOMAIN order |-> missing_candidate_event(s, order[i])])
        /\ IF refused' THEN Ends(q)
           ELSE /\ sp' = [sp EXCEPT ![q].pc = "manifest"]
                /\ gone' = [gone EXCEPT ![s] = {t \in ScanKinds \X Paths : Absent(t[1], t[2])}]
                /\ was' = [was EXCEPT ![s] = {p \in Paths : disk[p] # 0}]
                /\ UNCHANGED steady
        /\ UNCHANGED <<items, bounds>>

(* The manifest, and whether another scan has observed a path meanwhile.   *)
preflight_scan_completion(q) ==
    LET s == sp[q].s
    IN  /\ sp[q].pc = "manifest"
        /\ IF sdb.scan[s] # "running" THEN Ends(q)
           ELSE /\ sp' = [sp EXCEPT ![q].pc = "confirm", ![q].todo = Paths,
                              ![q].man = scan_completion_manifest(sdb, s),
                              ![q].partial = s \in sdb.mixed]
                /\ UNCHANGED history
        /\ UNCHANGED <<disk, sdb, refused, items, bounds>>

confirm_source_unchanged(q) ==
    LET p == NextPath(sp[q].todo)
    IN  /\ sp[q].pc = "confirm" /\ sp[q].todo # {}
        /\ sp' = [sp EXCEPT ![q].todo = @ \ {p},
                            ![q].partial = @ \/ disk[p] # sp[q].ns[p]]
        /\ UNCHANGED <<disk, sdb, refused, items, history, bounds>>

(* The status is chosen by the walk; finish_scan_job drops the seen rows.  *)
complete_scan(q) ==
    LET s == sp[q].s
        status == IF sp[q].pc = "cancel" THEN "cancelled"
                  ELSE IF sp[q].partial THEN "partial" ELSE "complete"
    IN  /\ sp[q].pc \in {"complete", "confirm", "cancel"} /\ (sp[q].pc = "confirm" => sp[q].todo = {})
        /\ publish(<<scan_completed_event(s, status,
                        IF status = "complete" THEN sp[q].man ELSE NoManifest)>>)
        /\ items' = IF refused' THEN items ELSE [items EXCEPT ![s] = {}]
        /\ Ends(q)
        /\ UNCHANGED <<disk, bounds>>

cancel(q, s) ==
    /\ <<q, s>> \in Runs /\ sp[q].pc = "idle" /\ ~refused
    /\ begun < MaxRuns
    /\ ensure_scan_scope_available(s)
    /\ sdb.scan[s] = "running"
    /\ sp' = [sp EXCEPT ![q] = [NoRun EXCEPT !.s = s, !.pc = "cancel"]]
    /\ begun' = begun + 1
    /\ UNCHANGED <<disk, sdb, refused, items, history, upsets>>

(* The spool file dies with the process; a publication may be cut short.   *)
Killed(q) ==
    /\ sp[q].pc # "idle" /\ Upset
    /\ Ends(q)
    /\ \/ UNCHANGED <<sdb, refused>>
       \/ /\ sp[q].pc = "walk"
          /\ \E n \in 1..Len(sp[q].spool) : publish(SubSeq(sp[q].spool, 1, n))
    /\ UNCHANGED <<disk, items, begun>>

-----------------------------------------------------------------------------
(* The owner of the files, and `archive verify`.                           *)

Generated == {sp[q].s : q \in {r \in ScanProcs : sp[r].pc \in {"manifest", "confirm"}}}

Change(p) ==
    /\ Upset
    /\ \E v \in (0..MaxVersion) \cup (IF p \in Annex THEN {Dangling, Escaping} ELSE {}) :
          /\ v # disk[p]
          /\ disk' = [disk EXCEPT ![p] = v]
    /\ gone' = [s \in Generated |-> gone[s] \cup {t \in ScanKinds \X {p} : Absent(t[1], t[2])}]
                @@ gone
    /\ was' = [s \in Generated |-> IF disk'[p] = 0 THEN was[s] ELSE was[s] \cup {p}] @@ was
    /\ steady' = [s \in Scans |-> steady[s] \ {p}]
    /\ UNCHANGED <<sdb, refused, items, sp, begun>>

copy_verified(p) ==
    /\ ~refused /\ Upset
    /\ sdb.row[p].st.copy \in Held
    /\ publish(<<[k |-> "verified", p |-> p,
                  st |-> IF disk[p] \notin Contents THEN "unknown"
                         ELSE IF disk[p] = (IF p \in Annex THEN 1 ELSE sdb.row[p].meta)
                         THEN "present" ELSE "corrupt"]>>)
    /\ UNCHANGED <<disk, items, sp, history, begun>>

ScanNext ==
    \/ \E q \in ScanProcs :
          \/ \E s \in Scans : Begin(q, s) \/ cancel(q, s)
          \/ scan_started(q) \/ clear_scan_seen(q)
          \/ Visit(q) \/ Disturbed(q) \/ confirm_source_unchanged(q)
          \/ run_at_most(q) \/ EndWalk(q)
          \/ generate_missing_candidates(q) \/ preflight_scan_completion(q)
          \/ complete_scan(q) \/ Killed(q)
    \/ \E p \in Paths : Change(p) \/ copy_verified(p)

ScanSpec == ScanInit /\ [][ScanNext]_scanVars

-----------------------------------------------------------------------------
(* Properties.                                                             *)

Completes(s) == sdb.scan[s] = "running" /\ sdb'.scan[s] = "complete" /\ ScanMode[s] = "complete"

(* What a scan declares missing was absent at some moment after the scan   *)
(* had decided to propose it, whatever runs, kills and other writers came  *)
(* between (confirm_source_unchanged, project_scan_completed).  A path of  *)
(* an annex entry is left out: see AnnexPathsWereGone.                     *)
MissingWasGone ==
    \A p \in Paths, k \in ScanKinds :
       /\ sdb.row[p].st[k] # "missing" /\ sdb'.row[p].st[k] = "missing"
       /\ ~(k = "path" /\ p \in Annex)
       => \E s \in Scans : Completes(s) /\ <<k, p>> \in gone[s]

(* The same of an annex entry whose content is absent.                     *)
\* TLC refutes it: README, "Met while modelling".
AnnexPathsWereGone ==
    [][\A p \in Annex :
          sdb.row[p].st.path # "missing" /\ sdb'.row[p].st.path = "missing"
          => \E s \in Scans : Completes(s) /\ <<"path", p>> \in gone[s]]_scanVars

(* A path that a complete scan confirms (last_complete_scan_id) was there  *)
(* at some moment since the candidates were generated, unless an earlier   *)
(* run of the same scan had proposed it as missing.                        *)
CoverageIsTrue ==
    \A s \in Scans, p \in Paths :
       Completes(s) /\ sdb'.row[p].comp = s /\ sdb.cand[s][p].path = 0
       => p \in was[s]

(* The same without the exception.                                         *)
\* TLC refutes it: README, "Met while modelling".
ConfirmedWasThere ==
    [][\A s \in Scans, p \in Paths :
          Completes(s) /\ sdb'.row[p].comp = s => p \in was[s]]_scanVars

(* A complete scan leaves nothing out: an ordinary file that has stood     *)
(* unchanged since the run began is recorded as it is, although its events *)
(* waited in a spool that a kill discards while the rows that mark it as   *)
(* seen are kept (flush_to_spool, clear_scan_seen).                        *)
CompleteSeesAll ==
    \A s \in Scans, p \in Ordinary :
       Completes(s) /\ p \in steady[s] /\ disk[p] # 0
       => sdb'.row[p].st.path = "present" /\ sdb'.row[p].meta = disk[p]

(* What a scan that completes says of missing, confirmed and recorded files *)
(* is true, over every pause, kill and resume.                              *)
ScansAreTrue == [][MissingWasGone /\ CoverageIsTrue /\ CompleteSeesAll]_scanVars

(* Every event a scan or a verification appends is one the projection      *)
(* takes, so the catalog can always be brought up to date.                 *)
\* TLC refutes it: README, "Met while modelling".
ScanEventsProject == ~refused

=============================================================================
