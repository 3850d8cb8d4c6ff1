------------------------------- MODULE Migration -------------------------------
(***************************************************************************)
(* `archive migrate` (sqlite_migrate.rs): the conversion of an event-backed *)
(* version 2 Archive into an authoritative SQLite catalog.                 *)
(*                                                                         *)
(* Two machines inventory the copies of one File and exchange records by   *)
(* sync; each keeps a projection (compact_projection.rs).  One of them     *)
(* migrates: it freezes the local writer, takes a snapshot of its          *)
(* projection, verifies the history, checks that the snapshot is current,  *)
(* and then weighs every copy's evidence against the last accepted change  *)
(* of the File, in causal order and not in that of the clocks, which are   *)
(* those of the two machines and may differ by anything.                   *)
(*                                                                         *)
(* A record holds one item: "ok" for content_observed, "bad" for a         *)
(* verification that found other bytes, "gone" for a complete scan that    *)
(* declared the copy missing.  A copy claim is named after its Location    *)
(* and its content, so a change of content is another claim.  An annex     *)
(* alias, an unreadable copy and a claim at another path are left out.     *)
(***************************************************************************)
EXTENDS Integers, Sequences, FiniteSets

CONSTANTS
    Machines, Migrant,   \* numbers, in the order of their origin ids
    Places,              \* the Locations of the copies
    Hashes,
    Times,
    MaxRecords, MaxReplays

ASSUME MachinesAreOrdered == Machines \subseteq Nat /\ Migrant \in Machines
ASSUME HashesAreNamed == 0 \notin Hashes

VARIABLES
    hist,   \* the records of every machine's origin
    known,  \* the accepted frontier of every machine
    view,   \* every machine's projection
    mig,    \* the migration
    dest,   \* the published catalog, and the frontier it was made from
    rebuilds \* of projections so far

migVars == <<hist, known, view, mig, dest, rebuilds>>

-----------------------------------------------------------------------------
(* The projection.                                                         *)

NoClaimAt == [state |-> "none", ptime |-> 0, seen |-> FALSE, integrity |-> 0, itime |-> 0]

EmptyView ==
    [at       |-> [m \in Machines |-> 0],
     hash     |-> 0,
     conflict |-> FALSE,
     last     |-> <<0, 0>>,                  \* the record that set the File's identity
     copy     |-> [l \in Places |-> 0],      \* the claim of the binding at a Location
     there    |-> [l \in Places |-> FALSE],  \* file_locations.presence
     claim    |-> [l \in Places |-> [h \in Hashes |-> NoClaimAt]]]

\* copy: the claim becomes the Location's, and what was active there is superseded
Bind(v, l, h, row) ==
    [v EXCEPT !.copy[l] = h, !.there[l] = TRUE,
              !.claim[l] = [g \in Hashes |->
                  IF g = h THEN row
                  ELSE IF v.claim[l][g].state = "none" THEN v.claim[l][g]
                  ELSE [v.claim[l][g] EXCEPT !.state = "superseded"]]]

Descends(r, v) == r.front[v.last[1]] >= v.last[2]

project_content_observed(v, m, k, r) ==
    LET conflict == v.conflict \/ (v.hash # 0 /\ v.hash # r.hash /\ ~Descends(r, v))
    IN  Bind([v EXCEPT !.conflict = conflict, !.hash = IF conflict THEN 0 ELSE r.hash,
                       !.last = <<m, k>>],
             r.loc, r.hash,
             [state |-> "present", ptime |-> r.time, seen |-> TRUE, integrity |-> 1, itime |-> r.time])

project_copy_verification_failed(v, r) ==
    Bind(v, r.loc, r.hash,
         [state |-> "corrupt", ptime |-> r.time, seen |-> TRUE, integrity |-> 2, itime |-> r.time])

finalize_scans_for_batch(v, r) ==
    [v EXCEPT !.there[r.loc] = FALSE,
              !.claim[r.loc] = [h \in Hashes |->
                  IF @[h].state \in {"present", "corrupt"}
                  THEN [@[h] EXCEPT !.state = "missing", !.ptime = r.time, !.seen = FALSE]
                  ELSE @[h]]]

apply_record(v, m, k) ==
    LET r == hist[m][k]
        w == CASE r.kind = "ok"   -> project_content_observed(v, m, k, r)
               [] r.kind = "bad"  -> project_copy_verification_failed(v, r)
               [] r.kind = "gone" -> finalize_scans_for_batch(v, r)
    IN  [w EXCEPT !.at[m] = k]

\* Origin by origin, each from where the projection is.
apply_to(v, frontier) ==
    LET of(w, m) == LET step[k \in w.at[m]..frontier[m]] ==
                            IF k = w.at[m] THEN w ELSE apply_record(step[k - 1], m, k)
                    IN  step[frontier[m]]
        least == CHOOSE m \in Machines : \A n \in Machines : m <= n
        most  == CHOOSE m \in Machines : \A n \in Machines : n <= m
        all[m \in least..most] ==
            LET before == IF m = least THEN v ELSE all[m - 1]
            IN  IF m \in Machines THEN of(before, m) ELSE before
    IN  all[most]

\* Some item refers to a File or an object that the projection does not have.
Unprojectable(v, frontier) ==
    \E m \in Machines : \E k \in v.at[m] + 1..frontier[m] :
        /\ hist[m][k].kind = "bad"
        /\ v.last = <<0, 0>>
        /\ \A n \in Machines : n < m => \A j \in v.at[n] + 1..frontier[n] : hist[n][j].kind # "ok"
        /\ \A j \in v.at[m] + 1..(k - 1) : hist[m][j].kind # "ok"

-----------------------------------------------------------------------------
(* The machines.                                                           *)

Records == LET n[S \in SUBSET Machines] ==
                   IF S = {} THEN 0 ELSE LET m == CHOOSE x \in S : TRUE IN Len(hist[m]) + n[S \ {m}]
           IN  n[Machines]

Frozen(m) == m = Migrant /\ mig.pc \in {"frozen", "converted"}

Append1(m, r) ==
    /\ Records < MaxRecords
    /\ ~Frozen(m)
    /\ view[m].at = known[m]
    /\ hist' = [hist EXCEPT ![m] = Append(@, r)]
    /\ known' = [known EXCEPT ![m][m] = @ + 1]
    /\ UNCHANGED <<view, mig, dest, rebuilds>>

\* An inventory finds the bytes h; changes are accepted or they are mismatches.
\* It does not touch a path whose identity is in conflict.
Inventory(m, l, h, accept, t) ==
    LET v == view[m]
    IN  /\ ~v.conflict
        /\ Append1(m, [kind  |-> IF v.hash \notin {0, h} /\ ~accept THEN "bad" ELSE "ok",
                       loc   |-> l,
                       hash  |-> IF v.hash \notin {0, h} /\ ~accept THEN v.hash ELSE h,
                       saw   |-> h,
                       acc   |-> accept,
                       time  |-> t,
                       front |-> known[m]])

ScanFindsNothing(m, l, t) ==
    /\ view[m].there[l]
    /\ Append1(m, [kind |-> "gone", loc |-> l, hash |-> 0, saw |-> 0, acc |-> FALSE,
                   time |-> t, front |-> known[m]])

\* A sync takes no append lock.
Sync(m) ==
    /\ known[m] # [n \in Machines |-> Len(hist[n])]
    /\ known' = [known EXCEPT ![m] = [n \in Machines |-> Len(hist[n])]]
    /\ UNCHANGED <<hist, view, mig, dest, rebuilds>>

apply_projection(m) ==
    /\ view[m].at # known[m]
    /\ ~Unprojectable(view[m], known[m])
    /\ view' = [view EXCEPT ![m] = apply_to(@, known[m])]
    /\ UNCHANGED <<hist, known, mig, dest, rebuilds>>

rebuild_projection(m) ==
    /\ rebuilds < MaxReplays
    /\ view[m].at = known[m]
    /\ ~Unprojectable(EmptyView, known[m])
    /\ rebuilds' = rebuilds + 1
    /\ view' = [view EXCEPT ![m] = apply_to(EmptyView, known[m])]
    /\ UNCHANGED <<hist, known, mig, dest>>

-----------------------------------------------------------------------------
(* The conversion.  An expectation is an "ok" record <<machine, seq>>.     *)

Rec(e) == hist[e[1]][e[2]]

precedes(a, b) ==
    IF a[1] = b[1] THEN a[2] < b[2] ELSE Rec(b).front[a[1]] >= a[2]

Upto(frontier) == UNION {{m} \X (1..frontier[m]) : m \in Machines}

Expectations(frontier, h) == {e \in Upto(frontier) : Rec(e).kind = "ok" /\ Rec(e).hash = h}

Earlier(a, b) == a[1] < b[1] \/ (a[1] = b[1] /\ a[2] < b[2])

\* expected_for: the expectations in an order that respects precedes
Applied(S) ==
    LET order[P \in SUBSET S] ==
            IF P = {} THEN <<>>
            ELSE LET first == {e \in P : \A f \in P \ {e} : ~precedes(f, e)}
                     next  == CHOOSE e \in first : \A f \in first \ {e} : Earlier(e, f)
                 IN  <<next>> \o order[P \ {next}]
    IN  order[S]

\* the last accepted change among them, as a sequence of at most one
Accepted(S) ==
    LET s == Applied(S)
        n == {i \in DOMAIN s : Rec(s[i]).acc}
    IN  IF n = {} THEN <<>> ELSE <<s[CHOOSE i \in n : \A j \in n : j <= i]>>

after_accept(e, accepted) ==
    accepted = <<>> \/ precedes(accepted[1], e) \/ accepted[1] = e

\* The copy's own successes: its claim is named after the content.
Successes(frontier, l, h) == {e \in Expectations(frontier, h) : Rec(e).loc = l}

Bug_IsVerified(v, frontier, l, accepted) ==
    LET c == v.claim[l][v.copy[l]]
    IN  /\ c.state = "present" /\ c.integrity = 1 /\ v.hash = v.copy[l]
        /\ \/ accepted = <<>>
           \/ \E e \in Successes(frontier, l, v.copy[l]) : after_accept(e, accepted)
           \/ c.itime >= Rec(accepted[1]).time

\* The check is recognised by its time, so every success of that time must do.
IsVerified(v, frontier, l, accepted) ==
    LET c      == v.claim[l][v.copy[l]]
        checks == {e \in Successes(frontier, l, v.copy[l]) : Rec(e).time = c.itime}
    IN  /\ c.state = "present" /\ c.integrity = 1 /\ v.hash # 0 /\ v.hash = v.copy[l]
        /\ accepted = <<>> \/ (checks # {} /\ \A e \in checks : after_accept(e, accepted))

IsDamaged(v, l) == LET c == v.claim[l][v.copy[l]] IN c.state = "corrupt" /\ c.integrity = 2

Latest(S) == IF S = {} THEN 0 ELSE CHOOSE t \in S : \A u \in S : u <= t

\* copy_files: one row of the new catalog
Row(v, frontier, l, accepted) ==
    LET c    == v.claim[l][v.copy[l]]
        good == {Rec(e).time : e \in {x \in Successes(frontier, l, v.copy[l]) :
                                          after_accept(x, accepted) /\ v.hash = v.copy[l]}}
        gone == ~v.there[l] \/ c.state = "missing" \/ ~c.seen
    IN  [presence  |-> IF gone THEN "missing" ELSE "present",
         integrity |-> IF IsDamaged(v, l) THEN "damaged"
                       ELSE IF IsVerified(v, frontier, l, accepted) THEN "verified"
                       ELSE "unverified",
         result    |-> IF gone /\ c.ptime >= c.itime THEN "missing"
                       ELSE IF c.integrity = 2 THEN "mismatch" ELSE "ok",
         success   |-> IF good = {} /\ IsVerified(v, frontier, l, accepted) THEN c.itime
                       ELSE Latest(good)]

\* Two verifications of one claim, of the same time, that saw different bytes
Ambiguous(v, frontier, l) ==
    IsDamaged(v, l) /\
    Cardinality({Rec(e).saw : e \in {x \in Upto(frontier) :
        /\ Rec(x).kind = "bad" /\ Rec(x).loc = l /\ Rec(x).hash = v.copy[l]
        /\ Rec(x).time = v.claim[l][v.copy[l]].itime}}) > 1

Bound(v) == {l \in Places : v.copy[l] # 0}

\* A superseded claim cannot be a binding's, and no projection has a present
\* copy with a mismatch; both are refused.
Refuses(v, frontier) ==
    \/ v.conflict
    \/ v.hash # 0 /\ Expectations(frontier, v.hash) = {}
    \/ \E l \in Bound(v) :
         \/ v.claim[l][v.copy[l]].state = "superseded"
         \/ v.claim[l][v.copy[l]].state = "present" /\ v.claim[l][v.copy[l]].integrity = 2
         \/ v.claim[l][v.copy[l]].state = "corrupt" /\ v.claim[l][v.copy[l]].integrity # 2
         \/ Ambiguous(v, frontier, l)

Convert(v, frontier) ==
    LET accepted == IF v.hash = 0 THEN <<>> ELSE Accepted(Expectations(frontier, v.hash))
    IN  [hash |-> v.hash, rows |-> [l \in Bound(v) |-> Row(v, frontier, l, accepted)]]

-----------------------------------------------------------------------------
(* One run of the command.                                                 *)

NoMigration == [pc |-> "idle", snap |-> EmptyView, front |-> EmptyView.at, out |-> <<>>]

\* The writer's lock, then the snapshot of the database.
freeze ==
    /\ mig.pc = "idle" /\ dest = <<>>
    /\ mig' = [mig EXCEPT !.pc = "frozen", !.snap = view[Migrant]]
    /\ UNCHANGED <<hist, known, view, dest, rebuilds>>

\* visit_verified reads the history; the snapshot must be at its frontier.
convert ==
    /\ mig.pc \in {"frozen", "thawed"}
    /\ mig' = IF mig.snap.at # known[Migrant] \/ Refuses(mig.snap, known[Migrant]) THEN NoMigration
              ELSE [mig EXCEPT !.pc = IF @ = "frozen" THEN "converted" ELSE "loose",
                               !.snap = EmptyView, !.front = known[Migrant],
                               !.out = <<Convert(mig.snap, known[Migrant])>>]
    /\ UNCHANGED <<hist, known, view, dest, rebuilds>>

\* The backup is restored and compared, and the directory renamed into place.
publish_catalog ==
    /\ mig.pc \in {"converted", "loose"}
    /\ dest' = IF dest = <<>> THEN <<[catalog |-> mig.out[1], front |-> mig.front]>> ELSE dest
    /\ mig' = NoMigration
    /\ UNCHANGED <<hist, known, view, rebuilds>>

Killed1 ==
    /\ mig.pc # "idle"
    /\ mig' = NoMigration
    /\ UNCHANGED <<hist, known, view, dest, rebuilds>>

-----------------------------------------------------------------------------
MigInit ==
    /\ hist = [m \in Machines |-> <<>>]
    /\ known = [m \in Machines |-> EmptyView.at]
    /\ view = [m \in Machines |-> EmptyView]
    /\ mig = NoMigration
    /\ dest = <<>>
    /\ rebuilds = 0

MigNext ==
    \/ \E m \in Machines, l \in Places, t \in Times :
         \/ \E h \in Hashes, accept \in BOOLEAN : Inventory(m, l, h, accept, t)
         \/ ScanFindsNothing(m, l, t)
    \/ \E m \in Machines : Sync(m) \/ apply_projection(m)
    \/ rebuild_projection(Migrant)
    \/ freeze
    \/ convert
    \/ publish_catalog
    \/ Killed1

MigSpec == MigInit /\ [][MigNext]_migVars

-----------------------------------------------------------------------------
Published == dest # <<>>
Catalog1 == dest[1].catalog
History == Upto(dest[1].front)
About(l) == {e \in History : Rec(e).loc = l}

(* A copy the new catalog calls verified was read with the expected bytes, *)
(* and no accepted change of the File is causally later: evidence from     *)
(* before an acceptance never counts as a verified backup, whatever the    *)
(* clocks said.  Unless the projection was rebuilt, in the order of the    *)
(* origins and not the causal one, nothing later says otherwise either.    *)
VerifiedIsCurrent ==
    Published => \A l \in DOMAIN Catalog1.rows :
        Catalog1.rows[l].integrity = "verified" =>
            \E e \in About(l) :
                /\ Rec(e).kind = "ok" /\ Rec(e).hash = Catalog1.hash
                /\ rebuilds = 0 => \A f \in About(l) : precedes(e, f) =>
                                      Rec(f).kind = "ok" /\ Rec(f).hash = Catalog1.hash
                /\ \A a \in History : Rec(a).acc /\ Rec(a).hash = Catalog1.hash => ~precedes(e, a)

(* A mismatch that is the last word on a copy is damage in the new         *)
(* catalog, unless the projection was rebuilt in another order.            *)
DamageIsMigrated ==
    Published /\ rebuilds = 0 => \A l \in DOMAIN Catalog1.rows :
        (\E e \in About(l) : Rec(e).kind = "bad" /\ \A f \in About(l) \ {e} : precedes(f, e))
            => Catalog1.rows[l].integrity = "damaged"

(* No record that this machine appended is left behind: the catalog that   *)
(* is published has everything the writer has written.                     *)
NothingWrittenIsLeftBehind ==
    dest' # dest => dest'[1].front[Migrant] = Len(hist[Migrant])

(* The catalog that a migration publishes says what the history says.      *)
MigrationIsFaithful ==
    [][/\ NothingWrittenIsLeftBehind
       /\ (VerifiedIsCurrent /\ DamageIsMigrated)']_migVars

(* "Migration takes a consistent snapshot ... and checks its identity,     *)
(* frontier, record count" (README 38): it is published while it is still  *)
(* the accepted frontier.                                                  *)
\* TLC refutes it: README, "Met while modelling".
PublishesTheFrontier ==
    [][dest' # dest => dest'[1].front = known[Migrant]]_migVars
=============================================================================
