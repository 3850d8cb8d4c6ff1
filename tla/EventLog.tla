------------------------------- MODULE EventLog -------------------------------
(***************************************************************************)
(* The event store of a version 1 archive (event_store.rs) and the cursor  *)
(* with which its SQLite projection follows it (projection.rs).            *)
(*                                                                         *)
(* Events are lines of segment files.  A segment is closed by publishing   *)
(* its manifest; a checkpoint is an event at the end of a closed segment   *)
(* and a file that lists the segments up to it.  One writer holds the lock *)
(* and may be killed at every step; a power loss also takes back what was  *)
(* not synced: lines, directory entries of segments, renamed manifests and *)
(* renamed checkpoint files.                                               *)
(*                                                                         *)
(* Every event has an id of its own, which stands for its bytes and so for *)
(* its hash; prev is the id its previous_event_hash names.  Long lines are *)
(* twice as long as short ones: offsets are sums of such lengths.          *)
(***************************************************************************)
EXTENDS Integers, Sequences, FiniteSets, SequencesExt

CONSTANTS
    RolloverEvents,   \* config.rollover_events
    MaxEvents,        \* bound on the lines ever written
    MaxCrashes        \* bound on kills and power losses

ASSUME LogAssumption ==
    RolloverEvents \in Nat \ {0} /\ MaxEvents \in Nat /\ MaxCrashes \in Nat

VARIABLES
    segs,      \* segment files in order: [ev, torn, man, disk, entry, manDisk]
    files,     \* checkpoint files: [id, n, disk], n segments listed
    w,         \* the writer that holds the lock: <<>> or <<[op, pc, ...]>>
    mirror,    \* the projection: [ev, seg, off]
    written,   \* lines written so far
    crashes,   \* kills and power losses so far
    acked      \* history: ids of the events whose append has returned

logVars == <<segs, files, w, mirror, written, crashes, acked>>

NoEvent == [id |-> 0, prev |-> 0, kind |-> "none"]
Whole == [kind |-> "no", e |-> NoEvent]
\* ev: complete lines; torn: a last line without newline; man: has a manifest;
\* disk, entry, manDisk: what is synced of its lines, name and manifest.
NewSegment == [ev |-> <<>>, torn |-> Whole, man |-> FALSE,
               disk |-> 0, entry |-> FALSE, manDisk |-> FALSE]

Lines(s) == FlattenSeq([i \in 1..Len(s) |-> s[i].ev])
first_seq(s, i) == Len(Lines(SubSeq(s, 1, i - 1))) + 1
last_seq(s, i) == Len(Lines(SubSeq(s, 1, i)))
LastId(es) == IF es = <<>> THEN 0 ELSE Last(es).id
line_len(e) == IF e.kind = "long" THEN 2 ELSE 1
Offset(es) == FoldLeft(LAMBDA a, e : a + line_len(e), 0, es)

\* What stream_segments and inspect_writer_state ask of the directories.
LayoutOk(s) == \A i \in 1..Len(s) : (i < Len(s) => s[i].man) /\ (s[i].man => s[i].ev # <<>>)

\* The segment that is still open, if any.
IsOpen(s) == s # <<>> /\ ~Last(s).man
SetLast(s, x) == [s EXCEPT ![Len(s)] = x]

HasFile(id) == \E f \in files : f.id = id

-----------------------------------------------------------------------------
(* The writer, one step per durable effect.                                *)

Writer == w[1]
At(pc) == w # <<>> /\ Writer.pc = pc
Go(pc) == w' = <<[Writer EXCEPT !.pc = pc]>>

\* op is "open", "append" or "checkpoint"; todo holds the batches to append.
with_writer_lock(op, todo) ==
    /\ w = <<>>
    /\ w' = <<[op |-> op, pc |-> "inspect", todo |-> todo, mine |-> {}, ret |-> "none"]>>
    /\ UNCHANGED <<segs, files, mirror, written, crashes, acked>>

Open == with_writer_lock("open", <<>>)
append_batch ==
    \E kinds \in {<<"short">>, <<"long">>, <<"short", "short">>} :
        with_writer_lock("append", <<kinds>>)
append_batches == with_writer_lock("append", <<<<"short">>, <<"long">>>>)
create_checkpoint == with_writer_lock("checkpoint", <<>>)

\* An unterminated last line that is a whole event gets its newline, any other
\* is cut off; both sync the file.
recover_open_tail(s) ==
    LET l == Last(s)
    IN CASE ~IsOpen(s) \/ l.torn.kind = "no" -> s
         [] l.torn.kind = "json" ->
              SetLast(s, [l EXCEPT !.ev = Append(@, l.torn.e), !.torn = Whole,
                                   !.disk = Len(l.ev) + 1])
         [] OTHER -> SetLast(s, [l EXCEPT !.torn = Whole, !.disk = Len(l.ev)])

sync_manifests(s) == [i \in 1..Len(s) |-> [s[i] EXCEPT !.manDisk = s[i].man]]

\* inspect_writer_state(true); an invalid layout is refused.
inspect_writer_state ==
    /\ At("inspect")
    /\ IF LayoutOk(segs)
       THEN segs' = recover_open_tail(sync_manifests(segs)) /\ Go("pending")
       ELSE w' = <<>> /\ UNCHANGED segs
    /\ UNCHANGED <<files, mirror, written, crashes, acked>>

\* Where the operation goes on after the pending checkpoint.
Resumed == CASE Writer.op = "open" -> "done"
             [] Writer.op = "append" -> "rollover"
             [] OTHER -> "prefix"

PendingCheckpoint ==
    segs # <<>> /\ ~IsOpen(segs) /\ Last(Last(segs).ev).kind = "chk"

\* A checkpoint event that ends the last closed segment gets its file, before
\* anything else is written; create_checkpoint then returns that checkpoint.
complete_pending_checkpoint ==
    /\ At("pending")
    /\ CASE ~PendingCheckpoint -> Go(Resumed) /\ UNCHANGED files
         [] PendingCheckpoint /\ HasFile(LastId(Last(segs).ev)) ->
              Go(Resumed) /\ files' = {[f EXCEPT !.disk = TRUE] : f \in files}
         [] OTHER ->
              /\ w' = <<[Writer EXCEPT !.pc = "publish",
                          !.ret = IF Writer.op = "checkpoint" THEN "done" ELSE Resumed]>>
              /\ UNCHANGED files
    /\ UNCHANGED <<segs, mirror, written, crashes, acked>>

\* A tail that reached the limit before its writer was killed is closed first.
append_batch_locked ==
    /\ At("rollover")
    /\ IF IsOpen(segs) /\ Len(Last(segs).ev) >= RolloverEvents
       THEN w' = <<[Writer EXCEPT !.pc = "close", !.ret = "write"]>>
       ELSE Go("write")
    /\ UNCHANGED <<segs, files, mirror, written, crashes, acked>>

create_checkpoint_locked ==
    /\ At("prefix")
    /\ CASE Lines(segs) = <<>> -> w' = <<>>
         [] IsOpen(segs) /\ Last(segs).ev # <<>> ->
              w' = <<[Writer EXCEPT !.pc = "close", !.ret = "write", !.todo = <<<<"chk">>>>]>>
         [] OTHER -> w' = <<[Writer EXCEPT !.pc = "write", !.todo = <<<<"chk">>>>]>>
    /\ UNCHANGED <<segs, files, mirror, written, crashes, acked>>

create_segment ==
    /\ At("write") /\ ~IsOpen(segs) /\ Writer.todo # <<>> /\ Head(Writer.todo) # <<>>
    /\ written < MaxEvents
    /\ segs' = Append(segs, NewSegment)
    /\ UNCHANGED <<files, w, mirror, written, crashes, acked>>

NextEvent == [id |-> written + 1, prev |-> LastId(Lines(segs)), kind |-> Head(Head(Writer.todo))]
Unwritten == <<Tail(Head(Writer.todo))>> \o Tail(Writer.todo)

write_line ==
    /\ At("write") /\ IsOpen(segs) /\ Writer.todo # <<>> /\ Head(Writer.todo) # <<>>
    /\ written < MaxEvents
    /\ segs' = SetLast(segs, [Last(segs) EXCEPT !.ev = Append(@, NextEvent)])
    /\ written' = written + 1
    /\ w' = <<[Writer EXCEPT !.todo = Unwritten, !.mine = @ \cup {written + 1},
                 !.pc = IF Len(Last(segs).ev) + 1 = RolloverEvents THEN "close" ELSE "write",
                 !.ret = "write"]>>
    /\ UNCHANGED <<files, mirror, crashes, acked>>

\* The batch is written: the open segment is synced, or closed after a
\* checkpoint; then comes the next batch.
batch_end ==
    /\ At("write") /\ Writer.todo # <<>> /\ Head(Writer.todo) = <<>>
    /\ LET next == IF Writer.op = "checkpoint" THEN "publish" ELSE "write"
           rest == IF Writer.op = "checkpoint" THEN <<>> ELSE Tail(Writer.todo)
       IN w' = <<[Writer EXCEPT !.todo = rest, !.ret = next,
                    !.pc = CASE ~IsOpen(segs) -> next
                             [] Writer.op = "checkpoint" -> "close"
                             [] OTHER -> "sync"]>>
    /\ UNCHANGED <<segs, files, mirror, written, crashes, acked>>

append_end ==
    /\ At("write") /\ Writer.todo = <<>>
    /\ Go("done")
    /\ UNCHANGED <<segs, files, mirror, written, crashes, acked>>

FileSynced(s) == SetLast(s, [Last(s) EXCEPT !.disk = Len(Last(s).ev)])
EntrySynced(s) == SetLast(s, [Last(s) EXCEPT !.entry = TRUE])

Bug_FileOnly ==
    \/ /\ At("sync") /\ segs' = FileSynced(segs) /\ Go(Writer.ret)
       /\ UNCHANGED <<files, mirror, written, crashes, acked>>
    \/ /\ At("close") /\ segs' = FileSynced(segs) /\ Go("manifest")
       /\ UNCHANGED <<files, mirror, written, crashes, acked>>

\* sync_open_segment: the file, then its directory; a kill between them leaves
\* what a kill before them leaves, with fewer lines to lose.
sync_open_segment ==
    \/ /\ At("sync") /\ segs' = EntrySynced(FileSynced(segs)) /\ Go(Writer.ret)
       /\ UNCHANGED <<files, mirror, written, crashes, acked>>
    \/ /\ At("close") /\ segs' = EntrySynced(FileSynced(segs)) /\ Go("manifest")
       /\ UNCHANGED <<files, mirror, written, crashes, acked>>

\* publish_manifest: rename, then sync the directory.
publish_manifest ==
    /\ At("manifest")
    /\ segs' = SetLast(segs, [Last(segs) EXCEPT !.man = TRUE])
    /\ Go("manifest sync")
    /\ UNCHANGED <<files, mirror, written, crashes, acked>>

close_open_segment ==
    /\ At("manifest sync")
    /\ segs' = sync_manifests(segs)
    /\ Go(Writer.ret)
    /\ UNCHANGED <<files, mirror, written, crashes, acked>>

\* build_checkpoint lists every closed segment up to the event.
publish_checkpoint ==
    /\ At("publish")
    /\ files' = files \cup {[id |-> LastId(Lines(segs)), n |-> Len(segs), disk |-> FALSE]}
    /\ w' = <<[Writer EXCEPT !.pc = "publish sync",
                 !.ret = IF Writer.ret = "publish" THEN "done" ELSE @]>>
    /\ UNCHANGED <<segs, mirror, written, crashes, acked>>

sync_checkpoint ==
    /\ At("publish sync")
    /\ files' = {[f EXCEPT !.disk = TRUE] : f \in files}
    /\ Go(Writer.ret)
    /\ UNCHANGED <<segs, mirror, written, crashes, acked>>

\* verify: every segment but the last is closed, every line is whole, and every
\* checkpoint event has its file.
verify_locked ==
    /\ LayoutOk(segs) /\ \A i \in 1..Len(segs) : segs[i].torn.kind = "no"
    /\ \A i \in 1..Len(Lines(segs)) : Lines(segs)[i].kind = "chk" => HasFile(Lines(segs)[i].id)

\* A new checkpoint is returned only if the whole store verifies with it.
unlock ==
    /\ At("done")
    /\ acked' = IF Writer.op = "checkpoint" /\ ~verify_locked THEN acked
               ELSE acked \cup Writer.mine
    /\ w' = <<>>
    /\ UNCHANGED <<segs, files, mirror, written, crashes>>

\* The writer is killed; inside a write the line may be cut anywhere.
KillWriter ==
    /\ w # <<>> /\ crashes < MaxCrashes
    /\ \/ UNCHANGED <<segs, written>>
       \/ /\ At("write") /\ IsOpen(segs) /\ Writer.todo # <<>> /\ Head(Writer.todo) # <<>>
          /\ written < MaxEvents
          /\ \E t \in {"text", "json"} :
                segs' = SetLast(segs, [Last(segs) EXCEPT !.torn = [kind |-> t, e |-> NextEvent]])
          /\ written' = written + 1
    /\ w' = <<>> /\ crashes' = crashes + 1
    /\ UNCHANGED <<files, mirror, acked>>

\* What a power loss may leave of a segment: k complete lines, perhaps the next
\* one in part, its manifest only if the rename has reached the disk.
Survivors(g) ==
    {h \in {[g EXCEPT !.ev = SubSeq(g.ev, 1, k), !.man = m, !.torn = t,
                      !.disk = k, !.entry = TRUE, !.manDisk = m] :
              k \in g.disk..Len(g.ev), m \in {g.man, g.manDisk},
              t \in {Whole, [kind |-> "text", e |-> NoEvent], g.torn}} :
       /\ h.man => Len(h.ev) = Len(g.ev)
       /\ h.torn.kind = "text" => h.disk < Len(g.ev) \/ g.torn.kind # "no"
       /\ h.torn.kind = "json" => h.disk = Len(g.ev)}

\* Only the last segment can have anything to lose but its manifest; a name
\* that was never synced may disappear with the file.
AfterPowerLoss(s) ==
    LET base == [i \in 1..Len(s) |-> [s[i] EXCEPT !.disk = Len(s[i].ev), !.entry = TRUE]]
        kept == IF s = <<>> THEN {} ELSE
                  {[j \in 1..i |-> IF j = i THEN g ELSE base[j]] :
                     i \in {Len(s)}, g \in Survivors(Last(s))}
        lost == {[q EXCEPT ![i].man = FALSE, ![i].manDisk = FALSE] :
                   q \in kept, i \in {j \in 1..Len(s) - 1 : ~s[j].manDisk}}
        gone == IF s # <<>> /\ ~Last(s).entry THEN {SubSeq(base, 1, Len(s) - 1)} ELSE {}
    IN IF s = <<>> THEN {s} ELSE kept \cup lost \cup gone

PowerLoss ==
    /\ crashes < MaxCrashes
    /\ segs' \in AfterPowerLoss(segs)
    /\ \E x \in SUBSET {f \in files : ~f.disk} :
          files' = {[f EXCEPT !.disk = TRUE] : f \in files \ x}
    /\ w' = <<>> /\ crashes' = crashes + 1
    /\ UNCHANGED <<mirror, written, acked>>

-----------------------------------------------------------------------------
(* The projection reads under the shared lock and commits its own rows.    *)

\* The segment in which the event after the cursor is, or would be.
ReadFrom(target) ==
    LET fits == {i \in 1..Len(segs) :
                   first_seq(segs, i) <= target /\ (segs[i].man => target <= last_seq(segs, i))}
    IN IF fits = {} THEN Len(segs) + 1 ELSE CHOOSE i \in fits : \A j \in fits : i <= j

Boundaries(es) == {Offset(SubSeq(es, 1, n)) : n \in 0..Len(es)}

\* With an offset in that segment only the lines after it are read.
Seeks(m) ==
    LET i == ReadFrom(Len(m.ev) + 1)
    IN i <= Len(segs) /\ m.seg = first_seq(segs, i) /\ m.off > 0 /\ Len(m.ev) >= m.seg

\* Complete lines of segment i before offset o.
LinesBefore(i, o) == CHOOSE n \in 0..Len(segs[i].ev) : Offset(SubSeq(segs[i].ev, 1, n)) = o
AtEnd(m) ==
    LET i == ReadFrom(Len(m.ev) + 1) IN LinesBefore(i, m.off) = Len(segs[i].ev)

\* The checks on the cursor.  After a seek the next line must have the next
\* number and name the last hash; at the end of the file only a manifest can
\* contradict the cursor.
cursor_matches(m) ==
    LET applied == Len(m.ev)
        i == ReadFrom(applied + 1)
    IN /\ (applied > 0 /\ i > 1 /\ last_seq(segs, i - 1) = applied)
             => LastId(segs[i - 1].ev) = LastId(m.ev)
       /\ IF Seeks(m)
          THEN /\ m.off \in Boundaries(segs[i].ev)
               /\ IF AtEnd(m)
                  THEN ~segs[i].man
                  ELSE LET n == LinesBefore(i, m.off)
                       IN first_seq(segs, i) + n = applied + 1
                          /\ segs[i].ev[n + 1].prev = LastId(m.ev)
          ELSE (i <= Len(segs) /\ applied > 0 /\ applied \in first_seq(segs, i)..last_seq(segs, i))
                  => Lines(segs)[applied].id = LastId(m.ev)

\* The events after the cursor.  A torn line stops the reader with an error when
\* it reaches it, unless the batch is full before.
Unread(m) ==
    IF Seeks(m) /\ m.off \in Boundaries(segs[ReadFrom(Len(m.ev) + 1)].ev) /\ AtEnd(m)
    THEN <<>>
    ELSE SubSeq(Lines(segs), Len(m.ev) + 1, Len(Lines(segs)))

Cursor(es) ==
    LET i == CHOOSE i \in 1..Len(segs) : Len(es) \in first_seq(segs, i)..last_seq(segs, i)
    IN [ev |-> es, seg |-> first_seq(segs, i),
        off |-> Offset(SubSeq(segs[i].ev, 1, Len(es) - first_seq(segs, i) + 1))]

\* One transaction of apply: a batch of events and the new cursor.
apply_batch ==
    /\ w = <<>> /\ LayoutOk(segs) /\ cursor_matches(mirror)
    /\ \E n \in 1..Len(Unread(mirror)) :
          mirror' = Cursor(mirror.ev \o SubSeq(Unread(mirror), 1, n))
    /\ UNCHANGED <<segs, files, w, written, crashes, acked>>

EmptyMirror == [ev |-> <<>>, seg |-> 0, off |-> 0]

\* db rebuild: a new database from the first event, renamed over the old one.
rebuild ==
    /\ w = <<>> /\ LayoutOk(segs) /\ (IsOpen(segs) => Last(segs).torn.kind = "no")
    /\ mirror.ev # Lines(segs)
    /\ mirror' = IF Lines(segs) = <<>> THEN EmptyMirror ELSE Cursor(Lines(segs))
    /\ UNCHANGED <<segs, files, w, written, crashes, acked>>

-----------------------------------------------------------------------------
LogInit ==
    /\ segs = <<>> /\ files = {} /\ w = <<>> /\ mirror = EmptyMirror
    /\ written = 0 /\ crashes = 0 /\ acked = {}

WriterStep ==
    \/ inspect_writer_state \/ complete_pending_checkpoint \/ append_batch_locked
    \/ create_checkpoint_locked \/ create_segment \/ write_line \/ batch_end \/ append_end
    \/ sync_open_segment \/ publish_manifest \/ close_open_segment
    \/ publish_checkpoint \/ sync_checkpoint \/ unlock

LogNext ==
    \/ Open \/ append_batch \/ append_batches \/ create_checkpoint
    \/ WriterStep \/ KillWriter \/ PowerLoss \/ apply_batch \/ rebuild

EventLogSpec == LogInit /\ [][LogNext]_logVars

-----------------------------------------------------------------------------
(* Properties.                                                             *)

\* After any kill and any power loss the store can be opened: no segment but the
\* last is without manifest, so inspect_writer_state never meets "more than one
\* unmanifested segment".
StoreOpens == LayoutOk(segs)

\* An event whose append returned is in the log for good.
AcknowledgedSurvive == \A x \in acked : \E i \in 1..Len(Lines(segs)) : Lines(segs)[i].id = x

\* A checkpoint file never outlives its event, which ends the last segment the
\* file lists (validate_checkpoint: "the exact contiguous closed prefix").
CheckpointsHaveEvents ==
    \A f \in files : /\ f.n \in 1..Len(segs) /\ segs[f.n].man
                     /\ LastId(segs[f.n].ev) = f.id

\* Whenever the projection applies an event, all it has applied before is what
\* the log holds: a log that lost its end and grew another one is refused, not
\* mixed with the old one.
NeverMixesLogs == mirror'.ev # mirror.ev => IsPrefix(mirror'.ev, Lines(segs))

\* The log survives every kill and power loss: it opens, has what was
\* acknowledged and every checkpoint's event, and the projection follows it.
LogSurvives ==
    [][/\ NeverMixesLogs
       /\ (StoreOpens /\ AcknowledgedSurvive /\ CheckpointsHaveEvents)']_logVars

\* A checkpoint event that other events follow has its file: an interrupted
\* checkpoint is completed before the next append.
\* TLC refutes it: README, "Met while modelling".
CheckpointsAreCompleted ==
    \A i \in 1..Len(Lines(segs)) - 1 :
        Lines(segs)[i].kind = "chk" => HasFile(Lines(segs)[i].id)

\* A projection that finds nothing to apply shows the log.
\* TLC refutes it: README, "Met while modelling".
CaughtUpIsTheLog ==
    (w = <<>> /\ LayoutOk(segs) /\ cursor_matches(mirror) /\ Unread(mirror) = <<>>)
        => mirror.ev = Lines(segs)

=============================================================================
