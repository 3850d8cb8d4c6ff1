---------------------------- MODULE RegistrySetup ----------------------------
(***************************************************************************)
(* The registry of an archive (Sites, Devices, Archive Roots, Locations,   *)
(* Collections, Policies, risk domains) and the commands that change it:   *)
(* registry.rs, sqlite_registry.rs, sqlite_setup_cli.rs, the registry part *)
(* of main.rs, projection.rs and v2_projection.rs.                         *)
(*                                                                         *)
(* A command reads the registry, plans one or more changes from what it    *)
(* read and records them.  A version 3 archive validates and applies all   *)
(* of them in one transaction.  A version 1 or 2 archive validates each    *)
(* change against the projection, appends it to the event log and projects *)
(* the log, with other processes free to act between any two of these      *)
(* steps and the process killed after any of them.                         *)
(*                                                                         *)
(* Every row keeps the fields that a check or a plan reads.  The entities  *)
(* a command creates carry the number of the command as their id           *)
(* (generated_id: no two commands share one).                              *)
(***************************************************************************)
EXTENDS Integers, Sequences, FiniteSets, FiniteSetsExt

CONSTANTS
    Formats,      \* subset of 1..3: the archive formats explored
    Procs,        \* command-line processes
    Names,        \* display names
    Prints,       \* hardware fingerprints
    Mounted,      \* file systems that `setup` may find: [fs, path]
    NoPrint,      \* the file system (or Device) has no stable identity
    MaxCommands   \* bound on the commands given

ASSUME SetupAssumption ==
    /\ Formats \subseteq 1..3 /\ MaxCommands \in Nat
    /\ NoPrint \notin Prints /\ Names # {} /\ Prints # {}

VARIABLES
    format,   \* the format of the archive
    db,       \* the registry tables
    pending,  \* events of the log (formats 1 and 2) not projected yet
    cmd,      \* what every process is doing
    given,    \* commands given so far
    alone     \* history: every command has read a registry nobody was changing

regVars == <<format, db, pending, cmd, given, alone>>

Tables == {"site", "policy", "collection", "device", "root", "location", "risk"}
Starter == 0   \* policy_starter
Null == -1     \* NULL

Active(d, t) == {i \in DOMAIN d[t] : d[t][i].status = "active"}
Named(d, t, n) == {i \in Active(d, t) : d[t][i].name = n}
Idle == [pc |-> "idle", todo |-> <<>>, basis |-> <<>>]
EmptyRow == [x \in {} |-> Null]
EmptyDb == [site |-> EmptyRow, policy |-> EmptyRow, collection |-> EmptyRow,
            device |-> EmptyRow, root |-> EmptyRow, location |-> EmptyRow,
            risk |-> EmptyRow, assigned |-> {}, stay |-> EmptyRow,
            mounts |-> {}, retired |-> {}]

Change(t, a, i, r) == [t |-> t, a |-> a, id |-> i, row |-> r]
Put(d, t, i, r) == [d EXCEPT ![t] = [j \in DOMAIN @ \cup {i} |-> IF j = i THEN r ELSE @[j]]]

-----------------------------------------------------------------------------
(* validate_change_on: what is checked before a change is recorded.        *)

\* A registration needs an unused id, everything else a known one, whatever
\* its status; the command has given the row the status of its action.
validate_lifecycle(d, c) ==
    /\ (c.a = "register") <=> (c.id \notin DOMAIN d[c.t])
    /\ c.row.status = IF c.a = "retire" THEN "retired" ELSE "active"

require_optional_entity(d, t, i) == i = Null \/ i \in DOMAIN d[t]

Bug_SameVersion(d, c) ==
    /\ validate_lifecycle(d, c)
    /\ c.row.version > 0
    /\ c.a = "update" => c.row.version >= d.policy[c.id].version

validate_policy(d, c) ==
    /\ validate_lifecycle(d, c)
    /\ c.row.version > 0
    /\ c.a = "update" => c.row.version > d.policy[c.id].version

validate_collection(d, c) ==
    /\ validate_lifecycle(d, c)
    /\ require_optional_entity(d, "site", c.row.site)
    /\ require_optional_entity(d, "policy", c.row.policy)

validate_device(d, c) ==
    /\ validate_lifecycle(d, c)
    /\ require_optional_entity(d, "site", c.row.site)
    /\ c.row.identity = "unavailable" <=> c.row.print = NoPrint
    /\ c.row.identity = "confirmed" =>
          ~ \E o \in Active(d, "device") \ {c.id} :
                d.device[o].identity = "confirmed" /\ d.device[o].print = c.row.print
    /\ c.a = "update" => c.row.site = d.device[c.id].site
    /\ c.a = "move" => c.row.site # d.device[c.id].site

\* Every root is registered at "/" of its Device.
validate_root(d, c) ==
    /\ validate_lifecycle(d, c)
    /\ c.row.device \in DOMAIN d.device
    /\ c.row.identity = "confirmed" => c.row.print # NoPrint
    /\ c.row.identity = "unavailable" => c.row.print = NoPrint
    /\ ~ \E o \in Active(d, "root") \ {c.id} : d.root[o].device = c.row.device
    /\ c.row.identity = "confirmed" =>
          ~ \E o \in Active(d, "root") \ {c.id} :
                d.root[o].identity = "confirmed" /\ d.root[o].print = c.row.print
    /\ c.a # "register" =>
          /\ c.row.device = d.root[c.id].device
          /\ c.row.print = d.root[c.id].print
          /\ c.row.identity = d.root[c.id].identity

validate_location(d, c) ==
    /\ validate_lifecycle(d, c)
    /\ c.row.root \in DOMAIN d.root
    /\ d.root[c.row.root].device = c.row.device

\* c.row is <<entity type, entity id>>, c.id the risk domain.
validate_assignment(d, c) ==
    /\ c.id \in DOMAIN d.risk
    /\ c.row[2] \in DOMAIN d[c.row[1]]
    /\ (c.a = "assign") <=> (<<c.row[1], c.row[2], c.id>> \notin d.assigned)

validate_check_in(d, c) ==
    /\ c.id \in DOMAIN d.device
    /\ c.row.seen \in {"match", "unavailable", "mismatch"}

validate_mount(d, c) ==
    /\ c.row.device \in DOMAIN d.device
    /\ c.row.root # Null =>
          c.row.root \in DOMAIN d.root /\ d.root[c.row.root].device = c.row.device

validate_change_on(d, c) ==
    CASE c.t = "policy"     -> validate_policy(d, c)
      [] c.t = "collection" -> validate_collection(d, c)
      [] c.t = "device"     -> validate_device(d, c)
      [] c.t = "root"       -> validate_root(d, c)
      [] c.t = "location"   -> validate_location(d, c)
      [] c.t = "assignment" -> validate_assignment(d, c)
      [] c.t = "checkin"    -> validate_check_in(d, c)
      [] c.t = "mount"      -> validate_mount(d, c)
      [] OTHER              -> validate_lifecycle(d, c)

-----------------------------------------------------------------------------
(* Applying a change to the tables.  Accepts(f, d, c): the statements of   *)
(* format f accept the change; each has constraints of its own.            *)

mount_is_new(d, c) == c.id \notin d.mounts   \* PRIMARY KEY of device_mounts

\* projection.rs checks the events it reads once more.
accepts_v1(d, c) ==
    CASE c.t = "policy" ->
            c.id \in DOMAIN d.policy =>
                IF c.a = "update" THEN c.row.version > d.policy[c.id].version
                                  ELSE c.row.version >= d.policy[c.id].version
      [] c.t = "location" -> c.row.root \in DOMAIN d.root
                             /\ d.root[c.row.root].device = c.row.device
      [] c.t = "assignment" -> c.row[2] \in DOMAIN d[c.row[1]]
      [] c.t = "checkin" -> c.id \in Active(d, "device")
      [] c.t = "mount" -> mount_is_new(d, c)
      [] OTHER -> TRUE

\* v2_projection.rs and sqlite_registry.rs leave it to the constraints.
accepts_sql(d, c) ==
    CASE c.t = "assignment" -> c.a = "assign" => <<c.row[1], c.row[2], c.id>> \notin d.assigned
      [] c.t = "mount" -> mount_is_new(d, c)
      [] OTHER -> TRUE

Accepts(f, d, c) == IF f = 1 THEN accepts_v1(d, c) ELSE accepts_sql(d, c)

\* device_site_history holds at most one open stay for every Device.
StayAt(d, i, s) == [d EXCEPT !.stay = [j \in DOMAIN @ \cup {i} |-> IF j = i THEN s ELSE @[j]]]

project_device_snapshot(d, c) ==
    LET before == IF c.id \in DOMAIN d.device THEN d.device[c.id].site ELSE Null
        d2 == Put(d, "device", c.id, c.row)
    IN IF before # c.row.site THEN StayAt(d2, c.id, c.row.site) ELSE d2

apply_device(d, c) ==
    LET d2 == Put(d, "device", c.id, c.row)
    IN IF c.a \in {"register", "move"} THEN StayAt(d2, c.id, c.row.site) ELSE d2

\* The identity of a known root is not among the columns an update sets.
apply_root(d, c) ==
    IF c.id \in DOMAIN d.root
    THEN Put(d, "root", c.id, [d.root[c.id] EXCEPT !.name = c.row.name, !.status = c.row.status])
    ELSE Put(d, "root", c.id, c.row)

\* When and how a Device was last seen is left out: only version 1 lets a
\* mismatch change what later checks read.
apply_check_in(f, d, c) ==
    IF f = 1 /\ c.row.seen = "mismatch"
    THEN [d EXCEPT !.device[c.id].identity = "conflict"] ELSE d

apply_mount(f, d, c) ==
    LET d2 == [d EXCEPT !.mounts = @ \cup {c.id}]
    IN IF f = 1 /\ c.row.seen = "mismatch"
       THEN IF c.row.root # Null
            THEN [d2 EXCEPT !.root[c.row.root].identity = "conflict"]
            ELSE [d2 EXCEPT !.device[c.row.device].identity = "conflict"]
       ELSE d2

apply_assignment(d, c) ==
    LET e == <<c.row[1], c.row[2], c.id>>
    IN [d EXCEPT !.assigned = IF c.a = "assign" THEN @ \cup {e} ELSE @ \ {e}]

apply_change(f, d, c) ==
    LET d2 == CASE c.t = "device" -> IF f = 1 THEN project_device_snapshot(d, c)
                                              ELSE apply_device(d, c)
                [] c.t = "root" -> IF f = 1 THEN Put(d, "root", c.id, c.row)
                                            ELSE apply_root(d, c)
                [] c.t = "checkin" -> apply_check_in(f, d, c)
                [] c.t = "mount" -> apply_mount(f, d, c)
                [] c.t = "assignment" -> apply_assignment(d, c)
                [] OTHER -> Put(d, c.t, c.id, c.row)
    IN IF c.a = "retire" THEN [d2 EXCEPT !.retired = @ \cup {<<c.t, c.id>>}] ELSE d2

-----------------------------------------------------------------------------
(* What the commands plan from the registry they read: a set with one      *)
(* sequence of changes, or no element when the command is refused.         *)

Row(d, t, i) == d[t][i]
With(r, f, v) == [r EXCEPT ![f] = v]

\* rename_change: the name must be free among the active entities read.
rename_change(d, t, i, n) ==
    IF i \in Active(d, t) /\ Named(d, t, n) = {}
    THEN {<<Change(t, "update", i, With(Row(d, t, i), "name", n))>>} ELSE {}

move_change(d, i, s) ==
    IF i \in Active(d, "device") /\ s \in Active(d, "site") /\ Row(d, "device", i).site # s
    THEN {<<Change("device", "move", i, With(Row(d, "device", i), "site", s))>>} ELSE {}

\* retire --yes with the snapshot that was reviewed; show lists retired rows.
retire_change(d, t, i) == {<<Change(t, "retire", i, With(Row(d, t, i), "status", "retired"))>>}

\* update with a snapshot: a retired entity becomes active again.
update_change(d, t, i) == {<<Change(t, "update", i, With(Row(d, t, i), "status", "active"))>>}

\* A policy update keeps what it does not set; r is the requirement it sets.
\* Only version 1 refuses an update that changes nothing.
policy_update(f, d, i, r) ==
    IF i \in Active(d, "policy") /\ (f = 1 => Row(d, "policy", i).req # r)
    THEN {<<Change("policy", "update", i,
              [Row(d, "policy", i) EXCEPT !.version = @ + 1, !.req = r])>>}
    ELSE {}

check_in_change(i, s) == {<<Change("checkin", "add", i, [seen |-> s])>>}
mount_change(i, dev, root, s) == Change("mount", "add", i, [device |-> dev, root |-> root, seen |-> s])

\* device_identity: to is a fingerprint, "unavailable" or "conflict".
device_identity(d, i, to) ==
    LET r == Row(d, "device", i)
        taken == \E o \in Active(d, "device") \ {i} :
                    d.device[o].identity = "confirmed" /\ d.device[o].print = to
        becomes(id, p, seen) ==
            {<<Change("device", "update", i, [r EXCEPT !.identity = id, !.print = p])>>
             \o e : e \in check_in_change(i, seen)}
    IN CASE i \notin Active(d, "device") -> {}
         [] to = "unavailable" -> becomes("unavailable", NoPrint, "unavailable")
         [] to = "conflict" -> IF r.print = NoPrint THEN {}
                               ELSE becomes("conflict", r.print, "mismatch")
         [] OTHER -> IF taken THEN {} ELSE becomes("confirmed", to, "match")

-----------------------------------------------------------------------------
(* `collection init`, `location init`: the place at mount m becomes a      *)
(* Location on the named Device at the named Site; k numbers the command.  *)

SiteRow(n) == [name |-> n, status |-> "active"]
DeviceRow(n, s) == [name |-> n, site |-> s, identity |-> "unavailable",
                    print |-> NoPrint, status |-> "active"]
RootRow(m, dev) == [name |-> "root", device |-> dev, print |-> m.fs, status |-> "active",
                    identity |-> IF m.fs = NoPrint THEN "unavailable" ELSE "confirmed"]
StarterPolicy == [name |-> "starter", version |-> 1, req |-> 0, status |-> "active"]

matching_roots(d, m) ==
    {r \in Active(d, "root") : m.fs # NoPrint /\ d.root[r].print = m.fs}

\* Where the files are: [site, dev, root] and the changes that create what
\* is not known yet.  The file system has been seen before, or the Device is
\* found by its name, or everything is new.
known_root(d, r, dn, sn) ==
    LET dev == d.root[r].device
    IN IF /\ dev \in Active(d, "device") /\ d.device[dev].site \in Active(d, "site")
          /\ d.device[dev].name = dn /\ d.site[d.device[dev].site].name = sn
       THEN {[site |-> d.device[dev].site, dev |-> dev, root |-> r, todo |-> <<>>]} ELSE {}

root_on(f, d, m, site, dev, todo, k) ==
    LET reusable == {r \in Active(d, "root") :
                        m.fs = NoPrint /\ d.root[r].device = dev /\ d.root[r].identity = "unavailable"}
    IN CASE f = 1 /\ Cardinality(reusable) > 1 -> {}
         [] reusable # {} ->
              {[site |-> site, dev |-> dev, root |-> r, todo |-> todo] : r \in {Min(reusable)}}
         [] OTHER ->
              {[site |-> site, dev |-> dev, root |-> k,
                todo |-> Append(todo, Change("root", "register", k, RootRow(m, dev)))]}

known_device(f, d, m, dev, sn, k) ==
    LET site == d.device[dev].site
    IN IF site \in Active(d, "site") /\ d.site[site].name = sn
       THEN root_on(f, d, m, site, dev, <<>>, k) ELSE {}

new_device(f, d, m, dn, sn, k) ==
    LET sites == Named(d, "site", sn)
        site == IF sites = {} THEN k ELSE Min(sites)
        first == IF sites = {} THEN <<Change("site", "register", k, SiteRow(sn))>> ELSE <<>>
    IN IF Cardinality(sites) > 1 THEN {}
       ELSE root_on(f, d, m, site, k,
                    Append(first, Change("device", "register", k, DeviceRow(dn, site))), k)

setup_place(f, d, m, dn, sn, k) ==
    LET roots == matching_roots(d, m)
        bad == IF f = 1 THEN {"conflict"} ELSE {"conflict", "unavailable"}
        devs == Named(d, "device", dn)
    IN CASE Cardinality(roots) > 1 \/ \E r \in roots : d.root[r].identity \in bad -> {}
         [] roots # {} -> known_root(d, Min(roots), dn, sn)
         [] Cardinality(devs) > 1 -> {}
         [] devs # {} -> known_device(f, d, m, Min(devs), sn, k)
         [] OTHER -> new_device(f, d, m, dn, sn, k)

\* An active Location at the same place is used again.
location_exists(d, w, m) ==
    \E l \in Active(d, "location") : d.location[l].root = w.root /\ d.location[l].path = m.path

\* Version 1 looks for a free default name, first without the path.
location_names(f, d, n, dn, m) ==
    LET free(x) == Named(d, "location", x) = {}
    IN CASE f # 1 -> {<<n, dn>>}
         [] free(<<n, dn>>) -> {<<n, dn>>}
         [] free(<<n, dn, m.path>>) -> {<<n, dn, m.path>>}
         [] OTHER -> {}

location_changes(f, d, w, m, n, dn, k) ==
    IF location_exists(d, w, m) THEN {<<>>}
    ELSE {<<Change("location", "register", k,
              [name |-> x, root |-> w.root, device |-> w.dev, path |-> m.path,
               status |-> "active"])>> : x \in location_names(f, d, n, dn, m)}

\* A retired starter policy is not seen, and its registration refused.
collection_changes(d, w, n, k) ==
    (IF Starter \in Active(d, "policy") THEN <<>>
     ELSE <<Change("policy", "register", Starter, StarterPolicy)>>)
    \o <<Change("collection", "register", k,
           [name |-> n, site |-> w.site, policy |-> Starter, status |-> "active"])>>

\* adding: a Location for a Collection that exists (location init).
plan_filesystem_setup(f, d, m, n, dn, sn, adding, k) ==
    IF Cardinality(Named(d, "collection", n)) # (IF adding THEN 1 ELSE 0) THEN {}
    ELSE UNION {{w.todo \o l \o (IF adding THEN <<>> ELSE collection_changes(d, w, n, k))
                 \o <<mount_change(k, w.dev, w.root,
                        IF m.fs = NoPrint THEN "unavailable" ELSE "match")>>
                   : l \in location_changes(f, d, w, m, n, dn, k)}
                  : w \in setup_place(f, d, m, dn, sn, k)}

-----------------------------------------------------------------------------
(* The processes.                                                          *)

Bug_NoRollback(f, d, todo, checked) ==
    LET run[i \in 0..Len(todo)] ==
            IF i = 0 THEN [ok |-> TRUE, d |-> d]
            ELSE IF /\ run[i - 1].ok
                    /\ checked => validate_change_on(run[i - 1].d, todo[i])
                    /\ Accepts(f, run[i - 1].d, todo[i])
                 THEN [ok |-> TRUE, d |-> apply_change(f, run[i - 1].d, todo[i])]
                 ELSE [ok |-> FALSE, d |-> run[i - 1].d]
    IN run[Len(todo)]

\* Applies changes in order; the first one that is refused undoes them all.
\* checked: the changes are validated too (record_batch).
record_batch(f, d, todo, checked) ==
    LET run[i \in 0..Len(todo)] ==
            IF i = 0 THEN [ok |-> TRUE, d |-> d]
            ELSE IF /\ run[i - 1].ok
                    /\ checked => validate_change_on(run[i - 1].d, todo[i])
                    /\ Accepts(f, run[i - 1].d, todo[i])
                 THEN [ok |-> TRUE, d |-> apply_change(f, run[i - 1].d, todo[i])]
                 ELSE [ok |-> FALSE, d |-> d]
    IN run[Len(todo)]

\* The registry when the projection has caught up with the log.
Projected == record_batch(format, db, pending, FALSE)

\* A command reads the registry, without projecting the log first, and plans.
Give(p, plans, basis) ==
    /\ cmd[p].pc = "idle" /\ given < MaxCommands
    /\ \E todo \in plans :
          cmd' = [cmd EXCEPT ![p] = [pc |-> IF format = 3 THEN "commit" ELSE "check",
                                     todo |-> todo, basis |-> basis]]
    /\ given' = given + 1
    /\ alone' = (alone /\ pending = <<>> /\ \A q \in Procs : cmd[q].pc = "idle")
    /\ UNCHANGED <<format, db, pending>>

k == given + 3  \* ids 1 and 2 are those of the initial registry

Setup(p) ==
    \E m \in Mounted, n, dn, sn \in Names, adding \in BOOLEAN :
        Give(p, plan_filesystem_setup(format, db, m, n, dn, sn, adding, k), <<>>)
Rename(p) ==
    \E t \in {"site", "collection", "device"}, n \in Names : \E i \in DOMAIN db[t] :
        Give(p, rename_change(db, t, i, n), <<>>)
Move(p) ==
    \E i \in DOMAIN db.device, s \in DOMAIN db.site : Give(p, move_change(db, i, s), <<>>)
Identity(p) ==
    \E i \in DOMAIN db.device, to \in Prints \cup {"unavailable", "conflict"} :
        Give(p, device_identity(db, i, to), <<>>)
PolicyUpdate(p) ==
    \E i \in DOMAIN db.policy, r \in 1..2 :
        Give(p, policy_update(format, db, i, r), <<db.policy[i]>>)
Retire(p) ==
    \E t \in {"site", "device", "root", "policy"} : \E i \in DOMAIN db[t] :
        Give(p, retire_change(db, t, i), <<>>)
Update(p) ==
    \E t \in {"site", "device", "root"} : \E i \in DOMAIN db[t] :
        Give(p, update_change(db, t, i), <<>>)
Add(p) ==
    \/ \E n \in Names : Give(p, {<<Change("site", "register", k, SiteRow(n))>>}, <<>>)
    \/ Give(p, {<<Change("risk", "register", k, SiteRow("risk"))>>}, <<>>)
Assign(p) ==
    \E i \in DOMAIN db.risk, a \in {"assign", "unassign"}, t \in {"site", "device"} :
        \E e \in DOMAIN db[t] : Give(p, {<<Change("assignment", a, i, <<t, e>>)>>}, <<>>)
CheckIn(p) ==
    \E i \in DOMAIN db.device, s \in {"match", "mismatch"} : Give(p, check_in_change(i, s), <<>>)
\* The caller of `device mount` chooses the id of the mount.
Mount(p) ==
    \E i \in DOMAIN db.device, s \in {"match", "mismatch"}, x \in {k} \cup db.mounts :
        Give(p, {<<mount_change(x, i, Null, s)>>}, <<>>)

Command(p) ==
    \/ Setup(p) \/ Rename(p) \/ Move(p) \/ Identity(p) \/ PolicyUpdate(p) \/ Retire(p)
    \/ Update(p) \/ Add(p) \/ Assign(p) \/ CheckIn(p) \/ Mount(p)

\* Version 3: one IMMEDIATE transaction.
Commit(p) ==
    /\ cmd[p].pc = "commit"
    /\ db' = record_batch(format, db, cmd[p].todo, TRUE).d
    /\ cmd' = [cmd EXCEPT ![p] = Idle]
    /\ UNCHANGED <<format, pending, given, alone>>

\* Versions 1 and 2, Registry::record: project, validate, append, project.
Check(p) ==
    /\ cmd[p].pc = "check"
    /\ IF Projected.ok
       THEN /\ db' = Projected.d /\ pending' = <<>>
            /\ cmd' = [cmd EXCEPT ![p] =
                 IF validate_change_on(Projected.d, Head(@.todo))
                 THEN [@ EXCEPT !.pc = "append"] ELSE Idle]
       ELSE cmd' = [cmd EXCEPT ![p] = Idle] /\ UNCHANGED <<db, pending>>
    /\ UNCHANGED <<format, given, alone>>

AppendEvent(p) ==
    /\ cmd[p].pc = "append"
    /\ pending' = Append(pending, Head(cmd[p].todo))
    /\ cmd' = [cmd EXCEPT ![p].pc = "project"]
    /\ UNCHANGED <<format, db, given, alone>>

Project(p) ==
    /\ cmd[p].pc = "project"
    /\ IF Projected.ok
       THEN /\ db' = Projected.d /\ pending' = <<>>
            /\ cmd' = [cmd EXCEPT ![p] = IF Len(@.todo) = 1 THEN Idle
                                         ELSE [pc |-> "check", todo |-> Tail(@.todo), basis |-> @.basis]]
       ELSE cmd' = [cmd EXCEPT ![p] = Idle] /\ UNCHANGED <<db, pending>>
    /\ UNCHANGED <<format, given, alone>>

Kill(p) ==
    /\ cmd[p].pc \in {"commit", "check", "append", "project"}
    /\ cmd' = [cmd EXCEPT ![p] = Idle]
    /\ UNCHANGED <<format, db, pending, given, alone>>

\* Two Sites, a Device with a root and a Location at the first, a Collection,
\* and a Device that was retired with the fingerprint it had.
Configured(n) ==
    [EmptyDb EXCEPT
        !.site = [i \in 1..2 |-> IF i = 1 THEN SiteRow(n) ELSE SiteRow("other")],
        !.policy = [i \in {Starter} |-> StarterPolicy],
        !.device = [i \in 1..2 |->
            IF i = 1 THEN DeviceRow(n, 1)
            ELSE [name |-> "old", site |-> 2, identity |-> "confirmed",
                  print |-> CHOOSE h \in Prints : TRUE, status |-> "retired"]],
        !.stay = [i \in 1..2 |-> i], !.retired = {<<"device", 2>>},
        !.root = [i \in {1} |-> RootRow([fs |-> NoPrint], 1)],
        !.location = [i \in {1} |-> [name |-> <<n, n>>, root |-> 1, device |-> 1, path |-> "p",
                                     status |-> "active"]],
        !.collection = [i \in {1} |-> [name |-> n, site |-> 1, policy |-> Starter,
                                       status |-> "active"]],
        !.mounts = {1}]

RegInit ==
    /\ format \in Formats
    /\ db \in {EmptyDb} \cup {Configured(n) : n \in {CHOOSE n \in Names : TRUE}}
    /\ pending = <<>>
    /\ cmd = [p \in Procs |-> Idle] /\ given = 0 /\ alone = TRUE

RegNext ==
    \E p \in Procs : Command(p) \/ Commit(p) \/ Check(p) \/ AppendEvent(p) \/ Project(p) \/ Kill(p)

RegSpec == RegInit /\ [][RegNext]_regVars

-----------------------------------------------------------------------------
(* Properties.                                                             *)

\* A version 3 setup is recorded whole or not at all, wherever it is refused or
\* killed: no Device without a root, no root without a Location (record_batch:
\* "any failure rolls all back").
SetupIsWhole ==
    format = 3 =>
        /\ \A r \in DOMAIN db.root : \E l \in DOMAIN db.location : db.location[l].root = r
        /\ \A i \in DOMAIN db.device :
              i > 2 => \E r \in DOMAIN db.root : db.root[r].device = i

\* No two active Devices, and no two active roots, have the same confirmed
\* identity: always in version 3, which validates inside the transaction, and
\* in the event formats as long as no command read the registry while another
\* one was changing it.  An entity that was retired may come back.
IdentityIsUnique ==
    (format = 3 \/ alone) =>
        \A t \in {"device", "root"} : \A i, j \in Active(db, t) :
            /\ i # j /\ db[t][i].identity = "confirmed" /\ db[t][j].identity = "confirmed"
            => db[t][i].print # db[t][j].print

\* The open stay of device_site_history is where the Device is.  Version 1
\* closes it on every change of the Site.  The others do so only when the Device
\* is moved: in version 3 a stale snapshot can bring the old Site back through a
\* retirement alone, which does not compare it; in version 2 through any change.
OpenStayIsCurrent ==
    \A i \in DOMAIN db.device :
        (format = 1 \/ alone \/ (format = 3 /\ <<"device", i>> \notin db.retired))
        => db.stay[i] = db.device[i].site

\* A setup that is killed, and given again once the log is projected, finds
\* what it left: it never makes a second Location of one place.
OneLocationPerPlace ==
    alone => \A i, j \in Active(db, "location") :
        i # j => \/ db.location[i].root # db.location[j].root
                 \/ db.location[i].path # db.location[j].path

\* The registry that commands leave behind, whichever ran at once, were refused
\* or were killed: whole setups, unique identities, one open stay for every
\* Device and one Location for every place.
RegistryIsConsistent ==
    SetupIsWhole /\ IdentityIsUnique /\ OpenStayIsCurrent /\ OneLocationPerPlace

\* `policy update` changes the policy it read (version 3): a concurrent update
\* makes the version check refuse it, so that no requirement is lost.  A
\* retirement puts an older version back and is excluded.
PolicyUpdatesBuildOnCurrent ==
    [][\A p \in Procs :
         (/\ Commit(p) /\ db' # db /\ cmd[p].basis # <<>>
          /\ <<"policy", Head(cmd[p].todo).id>> \notin db.retired)
         => db.policy[Head(cmd[p].todo).id] = cmd[p].basis[1]]_regVars

\* What was validated and appended can be projected (Registry::record).
\* TLC refutes it: README, "Met while modelling".
AcceptedEventsProject == Projected.ok

=============================================================================
