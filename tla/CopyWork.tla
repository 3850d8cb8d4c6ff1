------------------------------- MODULE CopyWork -------------------------------
(***************************************************************************)
(* `archive verify`, `background run`, `repair` and `copy` on one          *)
(* installation (main.rs), with the batches they append, the projection    *)
(* that reads them and the files they move (safe_copy.rs).                 *)
(*                                                                         *)
(* These commands hold no job lock.  Each reads its targets from the       *)
(* catalog database, works on files that their owner changes at the same   *)
(* time, appends what it found and applies the log.  Any of them is killed *)
(* anywhere and resumed by its job id.                                     *)
(*                                                                         *)
(* There is one Object; a slot is one path at one Location where a copy of *)
(* it is, or is to be.  A file is its bytes and its stat (the size and the *)
(* modification time that the commands compare).  Hashing a file is one    *)
(* step, and so is projecting the log.                                     *)
(***************************************************************************)
EXTENDS Integers, Sequences, FiniteSets, FiniteSetsExt

CONSTANTS
    NSlots,         \* slots 1..NSlots, in the order of their claim ids
    Claimed,        \* the slots whose copy an earlier job has recorded
    Corrupt,        \* and those where a later one has found other bytes
    VerifyJobs, BackgroundJobs, RepairJobs, CopyJobs,
    IncludeChanged, \* the repairs started with --include-changed
    CopyFrom, CopyTo,
    Workers, Nothing,
    CopyBatch,   \* --batch-entries of verify
    MaxItems,       \* the --max-items a run of verify may be given
    BackgroundItems, \* the limit of the background runner
    SetBack,        \* how far the clock may be set back after a job has started
    MaxCopyStarts, MaxKills, MaxOutside \* bounds

Slots == 1..NSlots
WorkJobs == VerifyJobs \cup BackgroundJobs \cup RepairJobs \cup CopyJobs

ASSUME SlotsNamed == NSlots \in Nat /\ Corrupt \subseteq Claimed /\ Claimed \subseteq Slots
ASSUME PositiveLimits == SetBack \in Nat /\ CopyBatch \in Nat \ {0} /\ MaxItems \subseteq Nat \ {0}
                         /\ BackgroundItems \in Nat \ {0}
ASSUME CopyHasTwoEnds == {CopyFrom, CopyTo} \subseteq Slots /\ CopyFrom # CopyTo

\* A path at a Location holds a file, or nothing.
SomeFile == [bytes : {"good", "bad", "edit"}, stat : Nat]
File == SomeFile \cup {Nothing}

ASSUME NothingIsApart == Nothing \notin WorkJobs \cup Slots /\ Nothing \notin SomeFile

VARIABLES
    dest,   \* the file at every slot
    staged, \* verified bytes in the quarantine area of a repair job
    quar,   \* files a repair job has moved out of the way
    copyLog,    \* accepted batches, each a set of items
    copyDb,     \* the catalog database
    worker,
    live,   \* history: what the owner, or decay, last left at a slot
    ended,  \* history: repair jobs whose last run returned by itself
    moved,  \* history: slots whose file changed between planning and the move
    copyStarts, kills, outside

copyVars == <<dest, staged, quar, copyLog, copyDb, worker, live, ended, moved,
              copyStarts, kills, outside>>
files == <<dest, staged, quar>>

-----------------------------------------------------------------------------
(* The projection.                                                         *)

Good(stat) == [bytes |-> "good", stat |-> stat]
Bad(stat) == [bytes |-> "bad", stat |-> stat]
IsGood(f) == f # Nothing /\ f.bytes = "good"

Item(kind, j, s, stat, time) ==
    [kind |-> kind, job |-> j, slot |-> s, stat |-> stat, time |-> time]

\* operation_key: the job, the claim and the outcome.
Key(item) == <<item.kind, item.job, item.slot>>

NoClaim == [state |-> "none", verified |-> 0, result |-> "none", stat |-> 0]

ObservedClaim(item) ==
    [state |-> "present", verified |-> item.time, result |-> "ok", stat |-> item.stat]

\* A failed check leaves the metadata of the last good observation in place.
FailedClaim(claim, item) ==
    [claim EXCEPT !.state = IF item.kind = "hash_mismatch" THEN "corrupt" ELSE "unknown",
                  !.verified = item.time, !.result = item.kind]

Keys(batch) == {Key(i) : i \in batch}

\* operation_outcomes refuses a key it has; the batch is then not projected.
Conflicts(d, n) ==
    \/ Keys(copyLog[n]) \cap d.outcomes # {}
    \/ \E m \in d.cursor + 1..n - 1 : Keys(copyLog[m]) \cap Keys(copyLog[n]) # {}

\* The batches after the cursor, up to the first that is refused.  (The code commits
\* groups of records, and a refused batch takes those of its group back with it;
\* RecordsOnceAndStops says that none is refused.)
ProjectedBatches(d) ==
    {n \in d.cursor + 1..Len(copyLog) : \A m \in d.cursor + 1..n : ~Conflicts(d, m)}

\* The items of a set of <<batch number, item>> are projected in the order of
\* their batches: the last one counts.
LastOf(news) == (CHOOSE t \in news : \A u \in news : u[1] <= t[1])[2]

ProjectedClaim(claim, news) ==
    LET observed == {t \in news : t[2].kind = "observed"}
        seen == IF observed = {} THEN claim ELSE ObservedClaim(LastOf(observed))
    IN  IF news = {} \/ LastOf(news).kind = "observed" THEN seen
        ELSE FailedClaim(seen, LastOf(news))

ProjectedRow(row, news) ==
    LET started == {t \in news : t[2].kind = "started"}
    IN  [status |-> IF news = {} THEN row.status
                    ELSE IF LastOf(news).kind = "started" THEN "running"
                    ELSE LastOf(news).kind,
         asOf   |-> IF started = {} THEN row.asOf ELSE LastOf(started).time]

\* apply: every batch up to the tail or to the first that is refused.
Applied(d) ==
    LET batches == ProjectedBatches(d)
        news == UNION {{n} \X copyLog[n] : n \in batches}
    IN  [claims   |-> [s \in Slots |->
                        ProjectedClaim(d.claims[s], {t \in news : t[2].slot = s})],
         rows     |-> [j \in WorkJobs |->
                        ProjectedRow(d.rows[j], {t \in news : t[2].job = j /\ t[2].slot = Nothing})],
         outcomes |-> d.outcomes \cup UNION {Keys(copyLog[n]) : n \in batches},
         cursor   |-> Max(batches \cup {d.cursor}),
         stuck    |-> batches # d.cursor + 1..Len(copyLog)]

-----------------------------------------------------------------------------
(* What the commands select.                                               *)

Running(j) == copyDb.rows[j].status \in {"running", "partial"}

\* DUE_COPIES_SQL with --all.
Due(asOf) ==
    {s \in Slots : /\ copyDb.claims[s].state \in {"present", "corrupt", "unknown"}
                   /\ copyDb.claims[s].verified < asOf}

\* ORDER BY last verified, claim id LIMIT n.
Before(s, t) ==
    \/ copyDb.claims[s].verified < copyDb.claims[t].verified
    \/ copyDb.claims[s].verified = copyDb.claims[t].verified /\ s < t

FirstDue(asOf, n) ==
    {s \in Due(asOf) : Cardinality({t \in Due(asOf) : Before(t, s)}) < n}

\* The most recently verified good copy elsewhere that looks whole.
Sources(s) ==
    {t \in Slots \ {s} : /\ copyDb.claims[t].state = "present" /\ copyDb.claims[t].result = "ok"
                         /\ dest[t] # Nothing}

RepairSource(s) ==
    IF Sources(s) = {} THEN Nothing
    ELSE CHOOSE t \in Sources(s) :
           \A u \in Sources(s) \ {t} :
             \/ copyDb.claims[u].verified < copyDb.claims[t].verified
             \/ copyDb.claims[u].verified = copyDb.claims[t].verified /\ t < u

\* A job finds its own files of an earlier run in its quarantine area.
Resuming(j, s) == quar[j][s] # Nothing \/ staged[j][s] # Nothing

Edited(s) == dest[s].stat # copyDb.claims[s].stat

\* The plan: corrupt copies that are still files, not edited, with a source.
Repairable(j, s) ==
    /\ copyDb.claims[s].state = "corrupt"
    /\ \/ Resuming(j, s)
       \/ /\ dest[s] # Nothing
          /\ Edited(s) => j \in IncludeChanged
          /\ RepairSource(s) # Nothing

RepairPlan(j) ==
    {[slot |-> s, source |-> RepairSource(s),
      planned |-> IF Resuming(j, s) THEN Nothing ELSE dest[s].stat] :
        s \in {t \in Slots : Repairable(j, t)}}

\* The corrupt copies the plan leaves out as failed make the job partial.
PlanFailed(j) ==
    \E s \in Slots : /\ copyDb.claims[s].state = "corrupt"
                     /\ ~Resuming(j, s) /\ dest[s] = Nothing

\* visit_v2_copy_items and the checks before anything is written.
CopySourceOK ==
    /\ copyDb.claims[CopyFrom].state = "present" /\ copyDb.claims[CopyFrom].result = "ok"
CopyPlanned ==
    /\ CopySourceOK /\ dest[CopyFrom] # Nothing
    /\ copyDb.claims[CopyTo].state # "present"
    /\ dest[CopyTo] # Nothing => IsGood(dest[CopyTo])

-----------------------------------------------------------------------------
IdleWorker ==
    [pc |-> "idle", job |-> Nothing, then |-> "idle", asOf |-> 0, plan |-> {},
     cur |-> Nothing, todo |-> {}, found |-> {}, failed |-> FALSE,
     attempted |-> {}, read |-> 0, limit |-> 0, more |-> FALSE]

FirstClaim(s) ==
    IF s \notin Claimed THEN NoClaim
    ELSE LET seen == ObservedClaim(Item("observed", Nothing, s, 0, 1))
         IN  IF s \in Corrupt
             THEN FailedClaim(seen, Item("hash_mismatch", Nothing, s, Nothing, 1)) ELSE seen

FirstFile(s) ==
    CASE s \notin Claimed -> Nothing
      [] s \in Corrupt -> Bad(0)
      [] OTHER -> Good(0)

CopyInit ==
    /\ dest = [s \in Slots |-> FirstFile(s)]
    /\ staged = [j \in RepairJobs |-> [s \in Slots |-> Nothing]]
    /\ quar = [j \in RepairJobs |-> [s \in Slots |-> Nothing]]
    /\ copyLog = <<>>
    /\ copyDb = [claims |-> [s \in Slots |-> FirstClaim(s)],
                 rows |-> [j \in WorkJobs |-> [status |-> "none", asOf |-> 0]],
                 outcomes |-> {}, cursor |-> 0, stuck |-> FALSE]
    /\ worker = [x \in Workers |-> IdleWorker]
    /\ live = [s \in Slots |-> IF s \in Corrupt THEN Bad(0) ELSE Nothing]
    /\ ended = {} /\ moved = {}
    /\ copyStarts = 0 /\ kills = 0 /\ outside = 0

Set(x, r) == worker' = [worker EXCEPT ![x] = r]
Jump(x, pc) == Set(x, [worker[x] EXCEPT !.pc = pc])

\* A command that ends by itself.
Exit(x) ==
    /\ Set(x, IdleWorker)
    /\ ended' = ended \cup ({worker[x].job} \cap RepairJobs)

\* `job resume`, or a command that makes a job of its own.
New(j) == copyDb.rows[j].status = "none" /\ \A n \in DOMAIN copyLog : \A i \in copyLog[n] : i.job # j

Startable(x, j) ==
    /\ worker[x].pc = "idle"
    /\ copyStarts < MaxCopyStarts
    /\ \A y \in Workers : worker[y].job # j
    /\ New(j) \/ Running(j)

Begin(x, j, state) ==
    /\ copyStarts' = copyStarts + 1
    /\ ended' = ended \ {j}
    /\ Set(x, [state EXCEPT !.pc = "begin", !.job = j])
    /\ UNCHANGED <<files, copyLog, copyDb, live, moved, kills, outside>>

\* The time of the records is Now; a new job may have read a later one before
\* the clock was set back.
Now == 2
AsOf(j) == IF New(j) THEN Now..Now + SetBack ELSE {copyDb.rows[j].asOf}

StartVerify(x, j) ==
    /\ j \in VerifyJobs /\ Startable(x, j)
    /\ \E asOf \in AsOf(j), limit \in MaxItems :
         /\ Due(asOf) # {} \/ ~New(j)
         /\ Begin(x, j, [IdleWorker EXCEPT !.asOf = asOf, !.limit = limit,
                                            !.then = "select"])

\* The background runner selects before it starts its job, one more than it reads.
StartBackground(x, j) ==
    /\ j \in BackgroundJobs /\ Startable(x, j)
    /\ \E asOf \in AsOf(j) :
         LET due == FirstDue(asOf, BackgroundItems + 1)
         IN  /\ due # {} \/ ~New(j)
             /\ Begin(x, j, [IdleWorker EXCEPT
                    !.asOf = asOf, !.todo = FirstDue(asOf, BackgroundItems),
                    !.more = Cardinality(due) > BackgroundItems, !.then = "read"])

\* A repair without a plan returns before it starts or finishes its job.
StartRepair(x, j) ==
    /\ j \in RepairJobs /\ Startable(x, j)
    /\ IF RepairPlan(j) = {}
       THEN /\ ~New(j)
            /\ ended' = ended \cup {j}
            /\ copyStarts' = copyStarts + 1
            /\ UNCHANGED <<files, copyLog, copyDb, worker, live, moved, kills, outside>>
       ELSE Begin(x, j, [IdleWorker EXCEPT !.plan = RepairPlan(j),
                                            !.failed = PlanFailed(j), !.then = "next"])

StartCopy(x, j) ==
    /\ j \in CopyJobs /\ Startable(x, j)
    /\ CopyPlanned
    /\ Begin(x, j, [IdleWorker EXCEPT !.then = "copy"])

-----------------------------------------------------------------------------
(* Appending and applying.                                                 *)

AppendOutcomes(items) == copyLog' = IF items = {} THEN copyLog ELSE Append(copyLog, items)

\* ensure_v2_job_started applies the log, then appends the start of a new job.
EnsureStarted(x) ==
    LET p == worker[x]
        d == Applied(copyDb)
        started == Item("started", p.job, Nothing, Nothing, p.asOf)
    IN  /\ p.pc = "begin"
        /\ copyDb' = d
        /\ IF d.stuck THEN Exit(x) /\ UNCHANGED copyLog
           ELSE IF Key(started) \in d.outcomes
           THEN Jump(x, p.then) /\ UNCHANGED <<copyLog, ended>>
           ELSE /\ AppendOutcomes({started})
                /\ Jump(x, "apply") /\ UNCHANGED ended
        /\ UNCHANGED <<files, live, moved, copyStarts, kills, outside>>

\* A process that cannot apply what it has appended stops with an error.
Apply(x) ==
    /\ worker[x].pc = "apply"
    /\ copyDb' = Applied(copyDb)
    /\ IF copyDb'.stuck THEN Exit(x) ELSE Jump(x, worker[x].then) /\ UNCHANGED ended
    /\ UNCHANGED <<files, copyLog, live, moved, copyStarts, kills, outside>>

AllOutcomes(items) == items

\* record_placements: the outcomes not yet projected, in one batch.
Unrecorded(items) == {i \in items : Key(i) \notin copyDb.outcomes}

Record(x, pc, kinds, then) ==
    LET items == Unrecorded({i \in worker[x].found : i.kind \in kinds})
    IN  /\ worker[x].pc = pc
        /\ AppendOutcomes(items)
        /\ Set(x, [worker[x] EXCEPT !.pc = IF items = {} THEN then ELSE "apply",
                                    !.then = then])
        /\ UNCHANGED <<files, copyDb, live, ended, moved, copyStarts, kills, outside>>

RecordPlacements(x) ==
    Record(x, "record", {"observed"},
           IF worker[x].job \in VerifyJobs \cup BackgroundJobs THEN "failures" ELSE "finish")
RecordFailures(x) ==
    Record(x, "failures", {"hash_mismatch", "read_error"},
           IF worker[x].job \in VerifyJobs THEN "select" ELSE "finish")

Status(p) == IF p.job \in RepairJobs /\ p.failed THEN "partial" ELSE "complete"

\* finish_v2_job applies the log and appends the end of the job once; a
\* background run that left copies for the next one does not call it.
FinishWork(x) ==
    LET p == worker[x]
        d == Applied(copyDb)
        item == Item(Status(p), p.job, Nothing, Nothing, Now)
    IN  /\ p.pc = "finish"
        /\ copyDb' = IF p.more THEN copyDb ELSE d
        /\ IF p.more \/ d.stuck \/ Key(item) \in d.outcomes
           THEN Exit(x) /\ UNCHANGED copyLog
           ELSE /\ AppendOutcomes({item})
                /\ Set(x, [p EXCEPT !.pc = "apply", !.then = "leave"])
                /\ UNCHANGED ended
        /\ UNCHANGED <<files, live, moved, copyStarts, kills, outside>>

LeaveWork(x) ==
    /\ worker[x].pc = "leave"
    /\ Exit(x)
    /\ UNCHANGED <<files, copyLog, copyDb, live, moved, copyStarts, kills, outside>>

-----------------------------------------------------------------------------
(* verify and the background runner.                                       *)

\* The first of the targets that this run has not attempted, if any.
Attempted(p, targets) ==
    IF targets \subseteq p.attempted THEN p.attempted
    ELSE p.attempted \cup {Min(targets \ p.attempted)}

SelectDue(x) ==
    LET p == worker[x]
        budget == p.limit - p.read
        targets == FirstDue(p.asOf, Min({CopyBatch, budget}))
    IN  /\ p.pc = "select"
        /\ IF budget = 0
           THEN Set(x, [p EXCEPT !.pc = IF Due(p.asOf) = {} THEN "finish" ELSE "leave"])
           ELSE IF targets \subseteq p.attempted
           THEN Jump(x, "finish")
           ELSE Set(x, [p EXCEPT !.pc = "read", !.todo = targets, !.found = {},
                                 !.attempted = Attempted(p, targets),
                                 !.read = @ + Cardinality(targets)])
        /\ UNCHANGED <<files, copyLog, copyDb, live, ended, moved, copyStarts, kills, outside>>

\* What hashing the file at a slot finds.
WorkOutcome(j, s) ==
    CASE dest[s] = Nothing -> Item("read_error", j, s, Nothing, Now)
      [] IsGood(dest[s]) -> Item("observed", j, s, dest[s].stat, Now)
      [] OTHER -> Item("hash_mismatch", j, s, Nothing, Now)

Found(x, item) ==
    Set(x, [worker[x] EXCEPT !.todo = @ \ {Min(@)}, !.found = @ \cup {item}])

\* A file that changes while it is read, or a medium that fails, is an error.
ReadTarget(x) ==
    LET p == worker[x]
    IN  /\ p.pc = "read"
        /\ \/ /\ p.todo = {}
              /\ Jump(x, "record") /\ UNCHANGED outside
           \/ /\ p.todo # {}
              /\ Found(x, WorkOutcome(p.job, Min(p.todo))) /\ UNCHANGED outside
           \/ /\ p.todo # {} /\ outside < MaxOutside
              /\ Found(x, Item("read_error", p.job, Min(p.todo), Nothing, Now))
              /\ outside' = outside + 1
        /\ UNCHANGED <<files, copyLog, copyDb, live, ended, moved, copyStarts, kills>>

-----------------------------------------------------------------------------
(* repair_one, one step per change to the files.                           *)

Cur(x) == worker[x].cur.slot

NextRepair(x) ==
    LET p == worker[x]
        first == CHOOSE t \in p.plan : \A u \in p.plan : t.slot <= u.slot
    IN  /\ p.pc = "next"
        /\ IF p.plan = {} THEN Jump(x, "record")
           ELSE Set(x, [p EXCEPT !.pc = "stage", !.cur = first, !.plan = @ \ {first}])
        /\ UNCHANGED <<files, copyLog, copyDb, live, ended, moved, copyStarts, kills, outside>>

Repaired(x) ==
    [worker[x] EXCEPT !.pc = "next",
                      !.found = @ \cup {WorkOutcome(worker[x].job, Cur(x))}]
RepairFailed(x) == [worker[x] EXCEPT !.pc = "next", !.failed = TRUE]

\* Bytes that are good already are kept; otherwise verified bytes are staged.
Stage(x) ==
    LET j == worker[x].job
        s == Cur(x)
        source == worker[x].cur.source
    IN  /\ worker[x].pc = "stage"
        /\ \/ /\ ~Resuming(j, s) /\ IsGood(dest[s])
              /\ Set(x, Repaired(x)) /\ UNCHANGED files
           \/ /\ ~Resuming(j, s) /\ ~IsGood(dest[s])
              /\ IF source # Nothing /\ dest[s] # Nothing /\ IsGood(dest[source])
                 THEN /\ staged' = [staged EXCEPT ![j][s] = Good(dest[s].stat)]
                      /\ Jump(x, "move")
                 ELSE Set(x, RepairFailed(x)) /\ UNCHANGED staged
              /\ UNCHANGED <<dest, quar>>
           \/ /\ Resuming(j, s)
              /\ IF staged[j][s] # Nothing /\ ~IsGood(staged[j][s])
                 THEN Set(x, RepairFailed(x)) ELSE Jump(x, "move")
              /\ UNCHANGED files
        /\ UNCHANGED <<copyLog, copyDb, live, ended, moved, copyStarts, kills, outside>>

PlanIsStale(x) ==
    LET c == worker[x].cur IN c.planned # Nothing /\ dest[c.slot].stat # c.planned

\* The corrupt file moves into quarantine, unless it is not what was planned.
Quarantine(x) ==
    LET j == worker[x].job
        s == Cur(x)
    IN  /\ worker[x].pc = "move"
        /\ IF quar[j][s] # Nothing
           THEN Jump(x, "place") /\ UNCHANGED <<files, moved>>
           ELSE IF dest[s] = Nothing
           THEN Set(x, RepairFailed(x)) /\ UNCHANGED <<files, moved>>
           ELSE IF PlanIsStale(x)
           THEN /\ staged' = [staged EXCEPT ![j][s] = Nothing]
                /\ Set(x, RepairFailed(x))
                /\ UNCHANGED <<dest, quar, moved>>
           ELSE /\ quar' = [quar EXCEPT ![j][s] = dest[s]]
                /\ dest' = [dest EXCEPT ![s] = Nothing]
                /\ moved' = moved \cup
                     IF dest[s].bytes = "edit" /\ j \notin IncludeChanged THEN {s} ELSE {}
                /\ Jump(x, "place") /\ UNCHANGED staged
        /\ UNCHANGED <<copyLog, copyDb, live, ended, copyStarts, kills, outside>>

PlaceOver(x) ==
    LET j == worker[x].job
        s == Cur(x)
    IN  /\ worker[x].pc = "place"
        /\ IF staged[j][s] # Nothing
           THEN /\ dest' = [dest EXCEPT ![s] = staged[j][s]]
                /\ staged' = [staged EXCEPT ![j][s] = Nothing]
           ELSE UNCHANGED <<dest, staged>>
        /\ Jump(x, "confirm")
        /\ UNCHANGED <<quar, copyLog, copyDb, live, ended, moved, copyStarts, kills, outside>>

\* The staged file moves to the slot if nothing is there.
Place(x) ==
    LET j == worker[x].job
        s == Cur(x)
    IN  /\ worker[x].pc = "place"
        /\ IF staged[j][s] # Nothing /\ dest[s] = Nothing
           THEN /\ dest' = [dest EXCEPT ![s] = staged[j][s]]
                /\ staged' = [staged EXCEPT ![j][s] = Nothing]
           ELSE UNCHANGED <<dest, staged>>
        /\ Jump(x, "confirm")
        /\ UNCHANGED <<quar, copyLog, copyDb, live, ended, moved, copyStarts, kills, outside>>

\* The file at the slot is read back.
Confirm(x) ==
    /\ worker[x].pc = "confirm"
    /\ Set(x, IF IsGood(dest[Cur(x)]) THEN Repaired(x) ELSE RepairFailed(x))
    /\ UNCHANGED <<files, copyLog, copyDb, live, ended, moved, copyStarts, kills, outside>>

-----------------------------------------------------------------------------
(* copy.                                                                   *)

\* The items are selected again; a file already there is read instead.
CopyItem(x) ==
    LET p == worker[x]
        item == WorkOutcome(p.job, CopyTo)
    IN  /\ p.pc = "copy"
        /\ \/ /\ CopySourceOK /\ copyDb.claims[CopyTo].state = "present"
              /\ Jump(x, "finish") /\ UNCHANGED ended
           \/ /\ CopySourceOK /\ copyDb.claims[CopyTo].state # "present"
              /\ dest[CopyTo] # Nothing /\ IsGood(dest[CopyTo])
              /\ Set(x, [p EXCEPT !.pc = "record", !.found = {item}])
              /\ UNCHANGED ended
           \/ /\ CopySourceOK /\ copyDb.claims[CopyTo].state # "present"
              /\ dest[CopyTo] = Nothing /\ IsGood(dest[CopyFrom])
              /\ Jump(x, "publish") /\ UNCHANGED ended
           \/ /\ \/ ~CopySourceOK
                 \/ /\ copyDb.claims[CopyTo].state # "present"
                    /\ IF dest[CopyTo] # Nothing THEN ~IsGood(dest[CopyTo])
                                                 ELSE ~IsGood(dest[CopyFrom])
              /\ Exit(x)
        /\ UNCHANGED <<files, copyLog, copyDb, live, moved, copyStarts, kills, outside>>

CopyAfterHashing(x) ==
    /\ worker[x].pc = "publish"
    /\ IF dest[CopyTo] = Nothing /\ dest[CopyFrom] # Nothing
       THEN /\ dest' = [dest EXCEPT ![CopyTo] = dest[CopyFrom]]
            /\ Jump(x, "readback") /\ UNCHANGED ended
       ELSE Exit(x) /\ UNCHANGED dest
    /\ UNCHANGED <<staged, quar, copyLog, copyDb, live, moved, copyStarts, kills, outside>>

\* The hashed temporary file takes its name unless the name is taken.
PublishCopy(x) ==
    /\ worker[x].pc = "publish"
    /\ IF dest[CopyTo] = Nothing
       THEN /\ dest' = [dest EXCEPT ![CopyTo] = Good(Now)]
            /\ Jump(x, "readback") /\ UNCHANGED ended
       ELSE Exit(x) /\ UNCHANGED dest
    /\ UNCHANGED <<staged, quar, copyLog, copyDb, live, moved, copyStarts, kills, outside>>

ReadBack(x) ==
    /\ worker[x].pc = "readback"
    /\ IF IsGood(dest[CopyTo])
       THEN /\ Set(x, [worker[x] EXCEPT !.pc = "record",
                                        !.found = {WorkOutcome(worker[x].job, CopyTo)}])
            /\ UNCHANGED ended
       ELSE Exit(x)
    /\ UNCHANGED <<files, copyLog, copyDb, live, moved, copyStarts, kills, outside>>

-----------------------------------------------------------------------------
(* The surroundings.                                                       *)

Kill(x) ==
    /\ worker[x].pc # "idle" /\ kills < MaxKills
    /\ Set(x, IdleWorker)
    /\ kills' = kills + 1
    /\ UNCHANGED <<files, copyLog, copyDb, live, ended, moved, copyStarts, outside>>

\* The owner writes a file (a new stat), or the medium decays (the same stat).
Change(s, file) ==
    /\ outside < MaxOutside
    /\ dest' = [dest EXCEPT ![s] = file]
    /\ live' = [live EXCEPT ![s] = file]
    /\ outside' = outside + 1
    /\ UNCHANGED <<staged, quar, copyLog, copyDb, worker, ended, moved, copyStarts, kills>>

EditFile(s) == Change(s, [bytes |-> "edit", stat |-> 10 + outside])
Decay(s) == IsGood(dest[s]) /\ Change(s, Bad(dest[s].stat))

WorkStep(x) ==
    \/ EnsureStarted(x) \/ Apply(x) \/ FinishWork(x) \/ LeaveWork(x)
    \/ RecordPlacements(x) \/ RecordFailures(x)
    \/ SelectDue(x) \/ ReadTarget(x)
    \/ NextRepair(x) \/ Stage(x) \/ Quarantine(x) \/ Place(x) \/ Confirm(x)
    \/ CopyItem(x) \/ PublishCopy(x) \/ ReadBack(x)

StartWork(x) ==
    \E j \in WorkJobs : \/ StartVerify(x, j) \/ StartBackground(x, j)
                        \/ StartRepair(x, j) \/ StartCopy(x, j)

CopyNext ==
    \/ \E x \in Workers : WorkStep(x) \/ StartWork(x) \/ Kill(x)
    \/ \E s \in Slots : EditFile(s) \/ Decay(s)

CopySpec == CopyInit /\ [][CopyNext]_copyVars

-----------------------------------------------------------------------------
(* Properties.                                                             *)

\* No command destroys what the owner, or decay, has left at a slot: those
\* bytes are there or in the quarantine of some job, whichever commands ran,
\* were killed and resumed meanwhile (repair_one and place_no_replace never
\* overwrite).  A slot that a repair has emptied still has its replacement in
\* the staging area of that repair (repair_one).
NothingIsLost ==
    /\ \A s \in Slots : live[s] # Nothing =>
        \/ dest[s] = live[s]
        \/ \E j \in RepairJobs : quar[j][s] = live[s]
    /\ \A s \in Claimed : dest[s] = Nothing =>
        \E j \in RepairJobs : quar[j][s] # Nothing /\ IsGood(staged[j][s])

\* An outcome is canonical once.  The projection refuses a second one and with
\* it every later batch (operation_outcomes), so a run killed between its
\* append and its projection must not repeat it when it is resumed.
OneOutcomePerKey ==
    /\ \A m, n \in DOMAIN copyLog : m # n =>
         {Key(i) : i \in copyLog[m]} \cap {Key(i) : i \in copyLog[n]} = {}
    /\ ~copyDb.stuck

\* What a command puts at a slot is the content of the Object, whatever became
\* of its source since the source was chosen (copy_verified_no_replace).
OnlyGoodBytesArePlaced ==
    [][\A s \in Slots : dest[s] = Nothing /\ dest'[s] # Nothing /\ outside' = outside
         => IsGood(dest'[s])]_copyVars

\* A repair moves a file out of the way only if nobody changed it since the
\* repair was planned (repair_one).
\* TLC refutes it: README, "Met while modelling".
EditsAreNotQuarantined == moved = {}

\* A repair that was interrupted and resumed, and returned, has left no slot
\* empty (execute_v2_repair).
\* TLC refutes it: README, "Met while modelling".
ResumeFinishesRepair ==
    \A j \in RepairJobs : j \in ended =>
        \A s \in Slots : quar[j][s] # Nothing => dest[s] # Nothing

\* A run of verify stops by itself: it reads at most one batch for every copy,
\* also when its records carry times before its own selection time because the
\* clock was set back, so that every copy stays due (execute_v2_verify).
VerifyStops ==
    \A x \in Workers : worker[x].read <= CopyBatch * NSlots

\* A killed run repeats nothing it has recorded, and no run goes on for ever.
RecordsOnceAndStops == OneOutcomePerKey /\ VerifyStops
=============================================================================
