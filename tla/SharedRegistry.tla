--------------------------- MODULE SharedRegistry ---------------------------
(***************************************************************************)
(* Enrolled clients of a version 2 archive and the registry they share:    *)
(* enrolment, approval and revocation, registry changes recorded under the *)
(* coordination lease, the verification of the signed history, and the     *)
(* SQLite projection each installation derives from it, incrementally, by  *)
(* a rebuild, or from a portable snapshot (v2_store.rs, v2_projection.rs,  *)
(* registry.rs, v2_snapshot.rs, v2_fsck.rs).                               *)
(*                                                                         *)
(* A batch holds one item.  Keys, signatures, hashes and lease times are   *)
(* good; ArchiveSync has the timing of leases and lost push races.  An     *)
(* installation runs one command at a time.  Client identifiers are the    *)
(* numbers 1..NClients, ordered as the code orders them.                   *)
(***************************************************************************)
EXTENDS Integers, Sequences, FiniteSets

CONSTANTS
    NClients,    \* installations
    Genesis,     \* the initial client
    Sites,       \* site identifiers
    Names,       \* device names
    NoSite,      \* a device that is nowhere
    Cloned,      \* installations that cloned the empty archive already
    Revocable,   \* clients somebody may try to revoke
    Observers,   \* clients that also append uncoordinated batches
    MaxBatches,  \* bound on batches
    MaxLeases    \* bound on leases

Clients == 1..NClients

ASSUME RegistryAssumption ==
    /\ NClients \in Nat \ {0}
    /\ Genesis \in Clients
    /\ NoSite \notin Sites
    /\ Cloned \subseteq Clients /\ Observers \subseteq Clients /\ Revocable \subseteq Clients
    /\ MaxBatches \in Nat /\ MaxLeases \in Nat

VARIABLES
    batches,    \* the batches of every client, in order
    frontiers,  \* every frontier made so far, named by its index, with what
                \* the verification of its history finds (a function of the
                \* signed history, kept rather than computed at every use)
    heads,       \* HEAD of every installation; 0 before it is cloned
    remote,     \* the frontier of the remote's canonical branch
    lease,      \* the current lease of the remote: holder (0: none) and token
    db,         \* the projection of every installation
    work        \* the command every installation is running

sharedVars == <<batches, frontiers, heads, remote, lease, db, work>>

TailOf(f, c) == frontiers[f].tails[c]

\* frontier_includes_dot, for the tails of a frontier
Includes(tails, dot) == tails[dot[1]] >= dot[2]

Ancestors(f) ==
    LET anc[i \in 1..Len(frontiers)] ==
          {i} \cup UNION {anc[p] : p \in frontiers[i].previous}
    IN  anc[f]

-----------------------------------------------------------------------------
(* Verification: visit_verified and its incremental variant. *)

NoDot == <<0, 0>>

\* The client table as verification starts: only the initial client.
InitialClients == [c \in {Genesis} |-> [approved |-> <<Genesis, 1>>, revoked |-> NoDot]]

\* A client enters the table.
Enrolled(clients, id, dot) ==
    [c \in DOMAIN clients \cup {id} |->
        IF c = id THEN [approved |-> dot, revoked |-> NoDot] ELSE clients[c]]

\* apply_client_registry_items for one item.
ApplyClientItem(s, dot, item) ==
    CASE item.kind = "client_enrolled" ->
           IF item.id \in DOMAIN s.clients THEN [s EXCEPT !.ok = FALSE]
           ELSE [s EXCEPT !.clients = Enrolled(@, item.id, dot)]
      [] item.kind = "client_revoked" ->
           IF item.id \in DOMAIN s.clients /\ s.clients[item.id].revoked = NoDot
           THEN [s EXCEPT !.clients[item.id].revoked = dot]
           ELSE [s EXCEPT !.ok = FALSE]
      [] OTHER -> s

\* validate_client_origin_records for a record of a client as it was known
\* when its origin was reached.
RecordTrusted(client, base) ==
    /\ Includes(base, client.approved)
    /\ client.revoked = NoDot \/ ~Includes(base, client.revoked)

\* The member of a singleton.
The(S) == CHOOSE x \in S : TRUE

\* Op(... Op(Op(base, seq[1]), seq[2]) ..., seq[Len(seq)])
Fold(Op(_, _), base, seq) ==
    LET Over(s) ==
          LET fold[i \in 0..Len(s)] ==
                IF i = 0 THEN base ELSE The({Op(acc, s[i]) : acc \in {fold[i - 1]}})
          IN  fold[Len(s)]
    IN  The({Over(s) : s \in {seq}})

\* One origin: every batch after the cursor, in order.
VisitOrigin(s, o) ==
    LET client == s.clients[o]
        Step(t, n) ==
          IF ~t.ok THEN t
          ELSE IF o # Genesis /\ ~RecordTrusted(client, batches[o][n].base)
          THEN [t EXCEPT !.ok = FALSE]
          ELSE ApplyClientItem([t EXCEPT !.order = Append(@, <<o, n>>)],
                               <<o, n>>, batches[o][n].item)
        range == [i \in 1..(s.to[o] - s.from[o]) |-> s.from[o] + i]
    IN  IF ~s.ok \/ o \notin s.pending \/ o \notin DOMAIN s.clients THEN s
        ELSE Fold(Step, [s EXCEPT !.pending = @ \ {o}], range)

\* Passes over the pending origins until none is left; origins that are never
\* enrolled fail the verification.
VisitOrigins(to, from, clients, sequence) ==
    LET start == [ok |-> TRUE, clients |-> clients, from |-> from, to |-> to,
                  order |-> << >>, pending |-> {o \in Clients : to[o] > from[o]}]
        Pass(s, n) == Fold(VisitOrigin, s, sequence)
    IN  The({[ok |-> end.ok /\ end.pending = {}, clients |-> end.clients, order |-> end.order] :
               end \in {Fold(Pass, start, sequence)}})

IdOrder == [i \in 1..NClients |-> i]

\* visit_verified: the initial client first, then the others by identifier; it
\* is no longer pending when its turn comes again.
VerifiedTails(tails) ==
    LET v == VisitOrigins(tails, [c \in Clients |-> 0], InitialClients, <<Genesis>> \o IdOrder)
    IN  [ok |-> v.ok, clients |-> v.clients]

\* A frontier object.
FrontierOf(tails, previous) ==
    [tails |-> tails, previous |-> previous, verified |-> VerifiedTails(tails)]

Verified(f) == frontiers[f].verified

\* visit_verified_since_with_clients: all pending origins by identifier.
VerifiedSince(f, from, clients) == VisitOrigins(frontiers[f].tails, from, clients, IdOrder)

\* verify_append_base: the shortcut of the initial client reads one frontier
\* and its parent and knows no other client.
AppendBase(f) ==
    LET previous == frontiers[f].previous
    IN  [merged |-> Cardinality(previous) # 1,
         ok |-> \E p \in previous : TailOf(p, Genesis) < TailOf(f, Genesis)]

\* Mutant: a revoked client's key still signs.
MayAppendRevoked(c) ==
    IF c = Genesis /\ ~AppendBase(heads[c]).merged
    THEN AppendBase(heads[c]).ok
    ELSE Verified(heads[c]).ok /\ c \in DOMAIN Verified(heads[c]).clients

\* The active client may append to its HEAD.
MayAppend(c) ==
    IF c = Genesis /\ ~AppendBase(heads[c]).merged
    THEN AppendBase(heads[c]).ok
    ELSE LET v == Verified(heads[c])
         IN  v.ok /\ c \in DOMAIN v.clients /\ v.clients[c].revoked = NoDot

CoordinationRequired(c) == Cardinality(DOMAIN Verified(heads[c]).clients) > 1

-----------------------------------------------------------------------------
(* The projection. *)

NoDevice == [name |-> "none", site |-> NoSite]

EmptyDb == [applied |-> 1, clients |-> InitialClients, sites |-> {}, device |-> NoDevice, ok |-> TRUE]

Protected(item) == item.kind # "observed"

\* Mutant: a revocation deletes the client's row.
ProjectItemDeleting(d, dot) ==
    LET item == batches[dot[1]][dot[2]].item
    IN  CASE item.kind = "client_enrolled" ->
               [d EXCEPT !.clients = Enrolled(@, item.id, dot)]
          [] item.kind = "client_revoked" ->
               [d EXCEPT !.clients = [c \in DOMAIN @ \ {item.id} |-> @[c]]]
          [] OTHER -> d

\* project_batch_chunk for one item; a refused item rolls the replay back.
ProjectItem(d, dot) ==
    LET batch == batches[dot[1]][dot[2]]
        item == batch.item
        enrolled(c) == c \in DOMAIN d.clients /\ d.clients[c].revoked = NoDot
        allowed ==
          /\ Protected(item) /\ Cardinality(DOMAIN d.clients) > 1 => batch.lease # 0
          /\ CASE item.kind = "client_enrolled" ->
                    enrolled(dot[1]) /\ item.id \notin DOMAIN d.clients
               [] item.kind = "client_revoked" ->
                    enrolled(item.id) /\ enrolled(dot[1])
               [] item.kind = "device" ->
                    item.row.site \in d.sites \cup {NoSite}
               [] OTHER -> TRUE
    IN  IF ~d.ok \/ ~allowed THEN [d EXCEPT !.ok = FALSE]
        ELSE CASE item.kind = "client_enrolled" ->
                    [d EXCEPT !.clients = Enrolled(@, item.id, dot)]
               [] item.kind = "client_revoked" -> [d EXCEPT !.clients[item.id].revoked = dot]
               [] item.kind = "site" -> [d EXCEPT !.sites = @ \cup {item.id}]
               [] item.kind = "device" -> [d EXCEPT !.device = item.row]
               [] OTHER -> d

\* V2ProjectionDb::apply: the records after the applied frontier, projected
\* in the order in which verification reaches them.
Applied(d, f) ==
    The({IF v.ok THEN Fold(ProjectItem, [d EXCEPT !.applied = f], v.order)
                 ELSE [d EXCEPT !.ok = FALSE] :
           v \in {VerifiedSince(f, frontiers[d.applied].tails, d.clients)}})

\* rebuild: the replay of everything into an empty database.
Rebuilt(f) == IF Verified(f).ok THEN Applied(EmptyDb, f) ELSE [EmptyDb EXCEPT !.ok = FALSE]

-----------------------------------------------------------------------------
(* Synchronisation and appends. *)

Idle == [step |-> "idle", item |-> [kind |-> "none"], token |-> 0]

Goto(c, step) == work' = [work EXCEPT ![c].step = step]
Finish(c) == work' = [work EXCEPT ![c] = Idle]

\* validate_protected_publication: once the remote knows several clients,
\* every unpublished protected batch carries the current lease.
Publishable(c) ==
    \/ Cardinality(DOMAIN Verified(remote).clients) <= 1
    \/ \A o \in Clients : \A n \in (TailOf(remote, o) + 1)..TailOf(heads[c], o) :
         Protected(batches[o][n].item) =>
           lease.holder # 0 /\ batches[o][n].lease = lease.token

\* union_frontier
UnionTails(f, g) ==
    [c \in Clients |-> IF TailOf(f, c) > TailOf(g, c) THEN TailOf(f, c) ELSE TailOf(g, c)]

\* sync_remote: both sides verify, then a fast-forward, a push, or a verified
\* union of the two.
Synced(c) ==
    LET mine == heads[c]
        union == FrontierOf(UnionTails(mine, remote), {mine, remote})
        same == [ok |-> Verified(mine).ok /\ Verified(remote).ok,
                 head |-> mine, remote |-> remote, frontiers |-> frontiers]
    IN  CASE mine = remote -> [same EXCEPT !.ok = Verified(mine).ok]
          [] mine # remote /\ mine \in Ancestors(remote) -> [same EXCEPT !.head = remote]
          [] mine # remote /\ remote \in Ancestors(mine) ->
               [same EXCEPT !.ok = @ /\ Publishable(c), !.remote = mine]
          [] OTHER ->
               [ok |-> same.ok /\ Publishable(c) /\ union.verified.ok,
                head |-> Len(frontiers) + 1, remote |-> Len(frontiers) + 1,
                frontiers |-> Append(frontiers, union)]

\* Move to a synchronisation result.
Adopt(c, s) ==
    /\ s.ok
    /\ heads' = [heads EXCEPT ![c] = s.head]
    /\ remote' = s.remote
    /\ frontiers' = s.frontiers

NBatches == Fold(LAMBDA n, c : n + Len(batches[c]), 0, IdOrder) - 1

\* append_batch_locked up to the replacement of HEAD.
AppendItem(c, item, token) ==
    /\ NBatches < MaxBatches
    /\ MayAppend(c)
    /\ batches' = [batches EXCEPT ![c] =
                     Append(@, [item |-> item, base |-> frontiers[heads[c]].tails,
                                lease |-> token])]
    /\ \E tails \in {[frontiers[heads[c]].tails EXCEPT ![c] = Len(batches[c]) + 1]},
          previous \in {{heads[c]}} :
         frontiers' = Append(frontiers, FrontierOf(tails, previous)')
    /\ heads' = [heads EXCEPT ![c] = Len(frontiers) + 1]

\* The verification that follows: the initial client takes the shortcut.
AppendAccepted(c) == c = Genesis \/ (Verified(heads[c]).ok)'

\* The database after the command applied its new HEAD; a refused replay
\* leaves it as it was.
Replay(c) ==
    \E old \in {db[c]} : \E new \in {Applied(old, heads[c])'} :
      db' = [db EXCEPT ![c] = IF new.ok THEN new ELSE old]

-----------------------------------------------------------------------------
(* Commands. *)

\* The registry changes a user can ask for, built from the rows of the local
\* database as it is now.
Changes(d) ==
    {[kind |-> "site", op |-> "register", id |-> s] : s \in Sites} \cup
    {[kind |-> "device", op |-> "register", row |-> [name |-> n, site |-> s]] :
        n \in Names, s \in d.sites \cup {NoSite}} \cup
    {[kind |-> "device", op |-> "update", row |-> [d.device EXCEPT !.name = n]] :
        n \in Names \ {d.device.name}} \cup
    {[kind |-> "device", op |-> "move", row |-> [d.device EXCEPT !.site = s]] :
        s \in d.sites \ {d.device.site}}

\* validate_change
ValidChange(d, item) ==
    CASE item.kind = "site" -> item.id \notin d.sites
      [] item.op = "register" ->
           d.device = NoDevice /\ item.row.site \in d.sites \cup {NoSite}
      [] item.op = "update" ->
           d.device # NoDevice /\ item.row.site = d.device.site
      [] item.op = "move" ->
           d.device # NoDevice /\ item.row.site \in d.sites /\ item.row.site # d.device.site

Ready(c) == heads[c] # 0 /\ work[c].step = "idle"

\* V2Registry::record of a change when the installation is alone: apply,
\* validate, append, apply.
RecordAlone(c) ==
    /\ Ready(c) /\ Verified(heads[c]).ok /\ ~CoordinationRequired(c)
    /\ LET d == Applied(db[c], heads[c])
       IN  \E item \in Changes(db[c]) :
             d.ok /\ ValidChange(d, item) /\ AppendItem(c, item, 0)
    /\ IF AppendAccepted(c) THEN Replay(c) ELSE UNCHANGED db
    /\ UNCHANGED <<remote, lease, work>>

\* The same with several clients: apply and validate, synchronise, apply and
\* validate again.  The change itself is not built again.
RecordShared(c) ==
    /\ Ready(c) /\ Verified(heads[c]).ok /\ CoordinationRequired(c)
    /\ UNCHANGED <<batches, lease>>
    /\ \E s \in {Synced(c)} : Adopt(c, s)
    /\ \E before \in {Applied(db[c], heads[c])}, item \in Changes(db[c]) :
         /\ before.ok /\ ValidChange(before, item)
         /\ \E after \in {Applied(before, heads[c])'} :
              /\ after.ok /\ ValidChange(after, item)
              /\ db' = [db EXCEPT ![c] = after]
         /\ work' = [work EXCEPT ![c] = [Idle EXCEPT !.step = "ready", !.item = item]]

\* `sync approve` of a request made by a cloned installation.
ApproveAlone(c, n) ==
    /\ Ready(c) /\ heads[n] # 0
    /\ LET v == Verified(heads[c])
       IN  v.ok /\ n \notin DOMAIN v.clients /\ Cardinality(DOMAIN v.clients) = 1
    /\ AppendItem(c, [kind |-> "client_enrolled", id |-> n], 0)
    /\ IF AppendAccepted(c) THEN Replay(c) ELSE UNCHANGED db
    /\ UNCHANGED <<remote, lease, work>>

\* The part of append_coordinated_batch before the lease is taken: synchronise,
\* then acquire_archive_lease requires an enrolled client whose HEAD is the
\* remote's.
Prepared(c, item) ==
    /\ \E s \in {Synced(c)} : Adopt(c, s)
    /\ \E v \in {Verified(heads[c])'} :
         v.ok /\ c \in DOMAIN v.clients /\ v.clients[c].revoked = NoDot
    /\ (heads[c] = remote)'
    /\ work' = [work EXCEPT ![c] = [step |-> "checked", item |-> item, token |-> 0]]

ApproveShared(c, n) ==
    /\ Ready(c) /\ heads[n] # 0
    /\ LET v == Verified(heads[c])
       IN  v.ok /\ n \notin DOMAIN v.clients /\ Cardinality(DOMAIN v.clients) > 1
    /\ UNCHANGED <<batches, lease, db>>
    /\ Prepared(c, [kind |-> "client_enrolled", id |-> n])

\* `sync revoke`: any client but the active one, known or not.
Revoke(c, n) ==
    /\ Ready(c) /\ n # c /\ n \in Revocable
    /\ UNCHANGED <<batches, lease, db>>
    /\ Prepared(c, [kind |-> "client_revoked", id |-> n])

\* The recorded change goes on to its own synchronisation and lease.
Prepare(c) ==
    /\ work[c].step = "ready"
    /\ UNCHANGED <<batches, lease, db>>
    /\ Prepared(c, work[c].item)

\* The rest of acquire_archive_lease: take a lease nobody holds, by compare
\* and swap on the lease ref; the base was compared before.
Acquire(c) ==
    /\ work[c].step = "checked"
    /\ lease.holder = 0 /\ lease.token < MaxLeases
    /\ lease' = [holder |-> c, token |-> lease.token + 1]
    /\ work' = [work EXCEPT ![c].step = "leased", ![c].token = lease.token + 1]
    /\ UNCHANGED <<batches, frontiers, heads, remote, db>>

\* release_archive_lease: a successor of the lease that nobody holds.
Released == [lease EXCEPT !.holder = 0]

Mine(c) == lease.holder = c /\ lease.token = work[c].token

\* The append under the lease.  A batch that its own verification refuses
\* stays named by HEAD and ends the command; releasing the lease verifies
\* too, so the lease stays.
AppendLeased(c) ==
    /\ work[c].step = "leased"
    /\ AppendItem(c, work[c].item, work[c].token)
    /\ IF AppendAccepted(c) THEN Goto(c, "appended") ELSE Finish(c)
    /\ UNCHANGED <<remote, lease, db>>

\* Publish, release the lease, apply.
Publish(c) ==
    /\ work[c].step = "appended"
    /\ UNCHANGED <<batches>>
    /\ \E s \in {Synced(c)} : Adopt(c, s)
    /\ lease' = IF Mine(c) THEN Released ELSE lease
    /\ Replay(c)
    /\ Finish(c)

\* A step fails or the process is killed: the command ends where it is.
Abandon(c) ==
    /\ work[c].step # "idle"
    /\ Finish(c)
    /\ UNCHANGED <<batches, frontiers, heads, remote, lease, db>>

Expire ==
    /\ lease.holder # 0
    /\ lease' = [lease EXCEPT !.holder = 0]
    /\ UNCHANGED <<batches, frontiers, heads, remote, db, work>>

\* An additive batch (a verification outcome), never coordinated.
Observe(c) ==
    /\ Ready(c) /\ c \in Observers
    /\ AppendItem(c, [kind |-> "observed"], 0)
    /\ IF AppendAccepted(c) THEN Replay(c) ELSE UNCHANGED db
    /\ UNCHANGED <<remote, lease, work>>

\* `archive sync`
Sync(c) ==
    /\ Ready(c) /\ heads[c] # remote
    /\ UNCHANGED <<batches, lease, work>>
    /\ \E s \in {Synced(c)} : Adopt(c, s)
    /\ Replay(c)

\* create_portable_snapshot: an enrolled installation whose database is
\* current signs it.  An installation that stays behind stands for a snapshot
\* file that has become old.
Snapshots ==
    {db[c] : c \in {o \in Clients : /\ heads[o] # 0 /\ Verified(heads[o]).ok
                                    /\ o \in DOMAIN Verified(heads[o]).clients
                                    /\ db[o].applied = heads[o]}}

\* install_portable_snapshot: the snapshot's frontier is part of the history;
\* the rest is replayed.
Installed(d, f) ==
    IF d.applied \in Ancestors(f) THEN Applied(d, f) ELSE [d EXCEPT !.ok = FALSE]

\* `sync clone`: a snapshot if it can be used, a rebuild otherwise.
Clone(c) ==
    /\ heads[c] = 0 /\ Verified(remote).ok
    /\ \E d \in {Rebuilt(remote)} \cup {Installed(old, remote) : old \in Snapshots} :
         d.ok /\ db' = [db EXCEPT ![c] = d]
    /\ heads' = [heads EXCEPT ![c] = remote]
    /\ UNCHANGED <<batches, frontiers, remote, lease, work>>

SharedInit ==
    /\ batches = [c \in Clients |->
         IF c = Genesis
         THEN <<[item |-> [kind |-> "initialized"], base |-> [o \in Clients |-> 0], lease |-> 0]>>
         ELSE << >>]
    /\ frontiers = <<FrontierOf([c \in Clients |-> 0], {}),
                     FrontierOf([c \in Clients |-> IF c = Genesis THEN 1 ELSE 0], {1})>>
    /\ heads = [c \in Clients |-> IF c \in Cloned \cup {Genesis} THEN 2 ELSE 0]
    /\ remote = 2
    /\ lease = [holder |-> 0, token |-> 0]
    /\ db = [c \in Clients |-> [EmptyDb EXCEPT !.applied = IF c \in Cloned \cup {Genesis} THEN 2 ELSE 1]]
    /\ work = [c \in Clients |-> Idle]

Command(c) ==
    \/ RecordAlone(c) \/ RecordShared(c) \/ Observe(c) \/ Sync(c) \/ Clone(c)
    \/ \E n \in Clients : ApproveAlone(c, n) \/ ApproveShared(c, n) \/ Revoke(c, n)

Coordinated(c) ==
    Prepare(c) \/ Acquire(c) \/ AppendLeased(c) \/ Publish(c) \/ Abandon(c)

SharedNext == Expire \/ \E c \in Clients : Command(c) \/ Coordinated(c)

SharedSpec == SharedInit /\ [][SharedNext]_sharedVars

-----------------------------------------------------------------------------
(* Properties. *)

\* Whatever is published can be verified from nothing by everyone: the checks
\* before a push keep a history that the order of visiting refuses off the
\* remote (sync_remote).
RemoteVerifies == Verified(remote).ok

Dots == UNION {{<<c, n>> : n \in 1..Len(batches[c])} : c \in Clients}
ItemAt(dot) == batches[dot[1]][dot[2]].item

\* A client writes only on a history that enrols it and never on one that
\* revokes it, although the initial client's shortcut does not look at
\* revocations (append_batch_locked, verify_append_base).
WritersAreTrusted ==
    \A dot \in Dots :
      LET c == dot[1]
          base == batches[c][dot[2]].base
          names(kind) == {d \in Dots : ItemAt(d).kind = kind /\ ItemAt(d).id = c /\ Includes(base, d)}
      IN  /\ c # Genesis => names("client_enrolled") # {}
          /\ names("client_revoked") = {}

\* The remote holds a history that everyone can verify and that only trusted
\* clients have written.
RemoteIsTrusted == RemoteVerifies /\ WritersAreTrusted

\* The clients an installation has projected, from whatever sequence of
\* partial replays, are the ones the verification of the same history from
\* nothing finds, with the same approvals and revocations (apply, rebuild and
\* install_portable_snapshot against visit_verified).
DatabaseMatchesHistory ==
    \A c \in Clients : heads[c] # 0 /\ Verified(db[c].applied).ok =>
      db[c].clients = Verified(db[c].applied).clients

\* The replay of the history of an installation gives the database that it
\* built incrementally (rebuild, fsck --full, sync clone).
\* TLC refutes it: README, "Met while modelling".
RebuildsTheSameState ==
    \A c \in Clients : heads[c] # 0 /\ Verified(db[c].applied).ok =>
      Rebuilt(db[c].applied) = db[c]

\* A history built by commands that reported success verifies.
\* TLC refutes it: README, "Met while modelling".
AcceptedHistoryVerifies ==
    \A c \in Clients : heads[c] # 0 => Verified(heads[c]).ok

\* Protected changes made by several clients are ordered: of two on the
\* remote one was made knowing the other.
\* TLC refutes it: README, "Met while modelling".
ProtectedAreOrdered ==
    \A d, e \in Dots :
      /\ Includes(frontiers[remote].tails, d) /\ Includes(frontiers[remote].tails, e) /\ d # e
      /\ batches[d[1]][d[2]].lease # 0 /\ batches[e[1]][e[2]].lease # 0
      => Includes(batches[d[1]][d[2]].base, e) \/ Includes(batches[e[1]][e[2]].base, d)

=============================================================================
