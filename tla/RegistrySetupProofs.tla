-------------------------- MODULE RegistrySetupProofs --------------------------
(***************************************************************************)
(* Proofs about RegistrySetup, for any number of processes, commands,      *)
(* names, fingerprints and file systems: the registry that commands leave  *)
(* behind is consistent, and a policy update changes the policy it read.   *)
(*                                                                         *)
(* A batch of changes is a recursive function.  BatchSteps gives the       *)
(* databases between its changes; everything else follows them one by one. *)
(***************************************************************************)
EXTENDS RegistrySetup, SequenceTheorems, TLAPS, WellFoundedInduction

-----------------------------------------------------------------------------
(* Types.                                                                  *)

Fields == Tables \cup {"assigned", "stay", "mounts", "retired"}
Kinds == Tables \cup {"assignment", "checkin", "mount"}
Actions == {"register", "update", "move", "retire", "assign", "unassign", "add"}
Standings == {"active", "retired"}
Identities == {"confirmed", "unavailable", "conflict"}
Labels == Names \cup {"other", "old", "root", "risk", "starter"}
Places == {m.path : m \in Mounted} \cup {"p"}
Marks == Prints \cup {NoPrint} \cup {m.fs : m \in Mounted}

SiteRows == [name : Labels, status : Standings]
PolicyRows == [name : Labels, version : Nat, req : Nat, status : Standings]
CollectionRows == [name : Labels, site : Nat, policy : Nat, status : Standings]
DeviceRows ==
    [name : Labels, site : Nat, identity : Identities, print : Marks, status : Standings]
RootRows ==
    [name : Labels, device : Nat, print : Marks, status : Standings, identity : Identities]
LocationRows ==
    [name : Seq(Labels \cup Places), root : Nat, device : Nat, path : Places, status : Standings]
SeenRows == [seen : {"match", "unavailable", "mismatch"}]
MountRows == [device : Nat, root : Int, seen : {"match", "unavailable", "mismatch"}]
AssignmentRows == {"site", "device"} \X Nat

RowsOf(t) ==
    CASE t \in {"site", "risk"} -> SiteRows
      [] t = "policy" -> PolicyRows
      [] t = "collection" -> CollectionRows
      [] t = "device" -> DeviceRows
      [] t = "root" -> RootRows
      [] t = "location" -> LocationRows
      [] t = "assignment" -> AssignmentRows
      [] t = "checkin" -> SeenRows
      [] t = "mount" -> MountRows

AnyRow ==
    SiteRows \cup PolicyRows \cup CollectionRows \cup DeviceRows \cup RootRows
    \cup LocationRows \cup AssignmentRows \cup SeenRows \cup MountRows
Changes == [t : Kinds, a : Actions, id : Nat, row : AnyRow]

\* A change that some command plans.
Planned(c) ==
    /\ c.row \in RowsOf(c.t)
    /\ c.t = "location" => c.a = "register"
    /\ c.t = "device" => c.a \in {"register", "update", "move", "retire"}
    /\ c.t \in {"root", "policy"} => c.a \in {"register", "update", "retire"}

\* The registry tables are functions from ids to rows.
DbType(d) ==
    /\ DOMAIN d = Fields /\ d.mounts \in SUBSET Nat
    /\ \A t \in Tables : DOMAIN d[t] \in SUBSET Nat /\ \A i \in DOMAIN d[t] : d[t][i] \in RowsOf(t)

\* The ids from n on are unused.
Below(d, n) ==
    /\ \A i \in DOMAIN d.device : i < n
    /\ \A r \in DOMAIN d.root : r < n /\ d.root[r].device < n
    /\ \A l \in DOMAIN d.location : d.location[l].root < n

ChangeBelow(c, n) ==
    /\ c.t \in {"device", "root"} => c.id < n
    /\ c.t = "root" => c.row.device < n
    /\ c.t = "location" => c.row.root < n

Todo(q, n) ==
    /\ q \in Seq(Changes)
    /\ \A i \in 1 .. Len(q) : Planned(q[i]) /\ ChangeBelow(q[i], n)

-----------------------------------------------------------------------------
(* The inductive invariant.                                                *)

\* Whatever a plan registers stands in the end.
WholePlan(q) ==
    \A i \in 1 .. Len(q) : q[i].a = "register" =>
        /\ q[i].t = "device" =>
              \E j \in 1 .. Len(q) : q[j].t = "root" /\ q[j].a = "register" /\ q[j].row.device = q[i].id
        /\ q[i].t = "root" =>
              \E j \in 1 .. Len(q) : q[j].t = "location" /\ q[j].row.root = q[i].id

WholeDb(d) ==
    /\ \A r \in DOMAIN d.root : \E l \in DOMAIN d.location : d.location[l].root = r
    /\ \A i \in DOMAIN d.device : i > 2 => \E r \in DOMAIN d.root : d.root[r].device = i

Unique(d) ==
    \A t \in {"device", "root"} : \A i, j \in Active(d, t) :
        i # j /\ d[t][i].identity = "confirmed" /\ d[t][j].identity = "confirmed" =>
            d[t][i].print # d[t][j].print

\* The row with which c would overwrite a Device has the Site of the Device.
Current(d, c) == c.id \in DOMAIN d.device /\ c.row.site = d.device[c.id].site

NewPlace(d, c) ==
    \A l \in Active(d, "location") :
        d.location[l].root # c.row.root \/ d.location[l].path # c.row.path

OnePlaceEach(d) ==
    \A i, j \in Active(d, "location") :
        i # j => d.location[i].root # d.location[j].root \/ d.location[i].path # d.location[j].path

\* The open stays of the Devices, for a format and a history.
StayOK(f, single, d) ==
    \A i \in DOMAIN d.device :
        (f = 1 \/ single \/ (f = 3 /\ <<"device", i>> \notin d.retired))
        => i \in DOMAIN d.stay /\ d.stay[i] = d.device[i].site

\* What a plan made from d may rely on while nobody else changes d.
Undisturbed(q, d) ==
    /\ \A i \in 1 .. Len(q) : q[i].t = "device" /\ q[i].a \in {"update", "retire"} =>
          i = 1 /\ Current(d, q[i])
    /\ \A i \in 1 .. Len(q) : q[i].t = "location" => NewPlace(d, q[i])
    /\ \A i, j \in 1 .. Len(q) : q[i].t = "location" /\ q[j].t = "location" => i = j

\* A policy update and the policy it read.
BasisOK(q, b, d) ==
    \/ b = <<>>
    \/ /\ Len(q) = 1 /\ q[1].t = "policy" /\ q[1].a = "update"
       /\ b[1] \in PolicyRows /\ q[1].row.version = b[1].version + 1
       /\ q[1].id \in DOMAIN d.policy
       /\ \/ <<"policy", q[1].id>> \in d.retired
          \/ d.policy[q[1].id] = b[1]
          \/ d.policy[q[1].id].version > b[1].version

Unused == given + 3

TypePart ==
    /\ format \in 1 .. 3 /\ given \in Nat /\ alone \in BOOLEAN
    /\ DbType(db) /\ Below(db, Unused)
    /\ Todo(pending, Unused) /\ (format = 3 => pending = <<>>)

\* A process c of an archive of format f whose ids from n on are unused.
ProcOK(c, f, n, d) ==
    /\ DOMAIN c = {"pc", "todo", "basis"}
    /\ c.pc # "idle" =>
          /\ c.pc \in IF f = 3 THEN {"commit"} ELSE {"check", "append", "project"}
          /\ Todo(c.todo, n) /\ c.todo # <<>>
          /\ f = 3 => WholePlan(c.todo) /\ BasisOK(c.todo, c.basis, d)

CmdPart == DOMAIN cmd = Procs /\ \A p \in Procs : ProcOK(cmd[p], format, Unused, db)

\* While every command was alone, the log is ahead of the tables by one valid
\* change at most, and what a command planned is as it was when it looked.
AlonePart ==
    alone =>
        /\ \A p, q \in Procs : cmd[p].pc # "idle" /\ cmd[q].pc # "idle" => p = q
        /\ \A p \in Procs :
              /\ cmd[p].pc # "idle" => Undisturbed(cmd[p].todo, db)
              /\ cmd[p].pc \in {"commit", "check", "append"} => pending = <<>>
              /\ cmd[p].pc = "append" => validate_change_on(db, cmd[p].todo[1])
              /\ cmd[p].pc = "project" => pending = <<cmd[p].todo[1]>>
        /\ \/ pending = <<>>
           \/ /\ Len(pending) = 1 /\ validate_change_on(db, pending[1])
              /\ Undisturbed(pending, db)

DbPart ==
    /\ format = 3 => WholeDb(db)
    /\ format = 3 \/ alone => Unique(db)
    /\ StayOK(format, alone, db)
    /\ alone => OnePlaceEach(db)

RegInv == TypePart /\ CmdPart /\ AlonePart /\ DbPart

-----------------------------------------------------------------------------
(* Batches.                                                                *)

\* A set of naturals has a least element.
LEMMA LeastNumber ==
    ASSUME NEW S \in SUBSET Nat, S # {}
    PROVE  \E m \in S : \A n \in S : m <= n
<1> DEFINE Less == {ss \in Nat \X Nat : ss[1] < ss[2]}
<1>1. IsWellFoundedOn(Less, Nat)
  BY NatLessThanWellFounded DEF OpToRel
<1>2. PICK m \in S : \A n \in S : ~(<<n, m>> \in Less)
  <2> HIDE DEF Less
  <2> QED BY <1>1, WFMin
<1>3. \A n \in S : ~(n < m)
  BY <1>2
<1> QED BY <1>3

BatchStep(f, d, r, c, checked) ==
    IF r.ok /\ (checked => validate_change_on(r.d, c)) /\ Accepts(f, r.d, c)
    THEN [ok |-> TRUE, d |-> apply_change(f, r.d, c)]
    ELSE [ok |-> FALSE, d |-> d]

IsBatch(f, d, q, checked, n, R) ==
    R = [i \in 0 .. n |-> IF i = 0 THEN [ok |-> TRUE, d |-> d]
                          ELSE BatchStep(f, d, R[i - 1], q[i], checked)]

\* The recursive function of record_batch exists.
LEMMA BatchesExist ==
    ASSUME NEW f, NEW d, NEW q, NEW checked, NEW l \in Nat
    PROVE  \E R : IsBatch(f, d, q, checked, l, R)
<1> DEFINE Bad == {n \in Nat : ~\E R : IsBatch(f, d, q, checked, n, R)}
           first == [ok |-> TRUE, d |-> d]
           next(r, i) == BatchStep(f, d, r, q[i], checked)
<1> SUFFICES ASSUME Bad # {} PROVE FALSE
  OBVIOUS
<1>1. PICK m \in Bad : \A n \in Bad : m <= n
  BY LeastNumber, Bad \in SUBSET Nat
<1>2. CASE m = 0
  <2> DEFINE Q == [i \in 0 .. 0 |-> first]
  <2>1. IsBatch(f, d, q, checked, 0, Q)
    BY DEF IsBatch
  <2> QED BY <1>1, <1>2, <2>1
<1>3. CASE m # 0
  <2>1. m - 1 \in Nat /\ m - 1 \notin Bad
    BY <1>1, <1>3
  <2>2. PICK R : IsBatch(f, d, q, checked, m - 1, R)
    BY <2>1
  <2> DEFINE Q == [i \in 0 .. m |-> IF i < m THEN R[i] ELSE next(R[m - 1], m)]
  <2>3. \A i \in 0 .. m : Q[i] = IF i = 0 THEN first ELSE next(Q[i - 1], i)
    <3> SUFFICES ASSUME NEW i \in 0 .. m
                 PROVE  Q[i] = IF i = 0 THEN first ELSE next(Q[i - 1], i)
      OBVIOUS
    <3>1. CASE i < m
      <4>1. i \in 0 .. m - 1 /\ Q[i] = R[i]
        BY <3>1
      <4>2. i # 0 => Q[i - 1] = R[i - 1]
        BY <3>1
      <4>3. R[i] = IF i = 0 THEN first ELSE next(R[i - 1], i)
        BY <2>2, <4>1 DEF IsBatch
      <4> QED BY <4>1, <4>2, <4>3
    <3>2. CASE i = m
      <4>1. i - 1 \in 0 .. m /\ i - 1 < m
        BY <3>2, <1>3
      <4>2. Q[i - 1] = R[m - 1]
        BY <3>2, <4>1
      <4>3. Q[i] = next(R[m - 1], m)
        BY <3>2
      <4> QED BY <3>2, <4>2, <4>3, <1>3
    <3> QED BY <3>1, <3>2
  <2>4. IsBatch(f, d, q, checked, m, Q)
    BY <2>3 DEF IsBatch
  <2> QED BY <1>1, <2>4
<1> QED BY <1>2, <1>3

\* The databases between the changes of a batch that is accepted.
Steps(f, d, q, checked, D) ==
    /\ D[0] = d
    /\ \A i \in 1 .. Len(q) :
          /\ checked => validate_change_on(D[i - 1], q[i])
          /\ Accepts(f, D[i - 1], q[i])
          /\ D[i] = apply_change(f, D[i - 1], q[i])

\* A batch is refused and changes nothing, or is applied change by change.
LEMMA BatchSteps ==
    ASSUME NEW f, NEW d, NEW q, Len(q) \in Nat, NEW checked
    PROVE  LET r == record_batch(f, d, q, checked)
           IN  \/ r.ok = FALSE /\ r.d = d
               \/ r.ok = TRUE /\ \E D : Steps(f, d, q, checked, D) /\ r.d = D[Len(q)]
<1> DEFINE n == Len(q)
           R == CHOOSE Q : IsBatch(f, d, q, checked, n, Q)
<1>1. IsBatch(f, d, q, checked, n, R)
  BY BatchesExist
<1>2. record_batch(f, d, q, checked) = R[n]
  BY DEF record_batch, IsBatch, BatchStep
<1> HIDE DEF R
<1>3. /\ R[0] = [ok |-> TRUE, d |-> d]
      /\ \A i \in 1 .. n : R[i] = BatchStep(f, d, R[i - 1], q[i], checked)
  <2>1. \A i \in 0 .. n : R[i] = IF i = 0 THEN [ok |-> TRUE, d |-> d]
                                 ELSE BatchStep(f, d, R[i - 1], q[i], checked)
    BY <1>1 DEF IsBatch
  <2>2. 0 \in 0 .. n /\ \A i \in 1 .. n : i \in 0 .. n /\ i # 0
    OBVIOUS
  <2> HIDE DEF n
  <2> QED BY <2>1, <2>2
<1>4. ASSUME NEW i \in 1 .. n, R[i].ok
      PROVE  /\ R[i - 1].ok
             /\ checked => validate_change_on(R[i - 1].d, q[i])
             /\ Accepts(f, R[i - 1].d, q[i])
             /\ R[i] = [ok |-> TRUE, d |-> apply_change(f, R[i - 1].d, q[i])]
  BY <1>3, <1>4 DEF BatchStep
<1>5. CASE R[n].ok
  <2>1. ASSUME NEW i \in 0 .. n PROVE R[i].ok
    <3> DEFINE Good == {j \in 0 .. n : j >= i /\ R[j].ok}
    <3>1. n \in Good /\ Good \in SUBSET Nat
      BY <1>5
    <3>2. PICK m \in Good : \A j \in Good : m <= j
      BY <3>1, LeastNumber
    <3>3. CASE m = i
      BY <3>2, <3>3
    <3>4. CASE m # i
      <4>1. m \in 1 .. n /\ m - 1 \in 0 .. n /\ m - 1 >= i
        BY <3>2, <3>4
      <4>2. R[m - 1].ok
        BY <1>4, <3>2, <4>1
      <4>3. m - 1 \in Good
        BY <4>1, <4>2
      <4> QED BY <3>2, <4>1, <4>3
    <3> QED BY <3>3, <3>4
  <2> DEFINE D == [i \in 0 .. n |-> R[i].d]
  <2>2. D[0] = d /\ D[n] = R[n].d
    BY <1>3
  <2>3. ASSUME NEW i \in 1 .. n
        PROVE  /\ checked => validate_change_on(D[i - 1], q[i])
               /\ Accepts(f, D[i - 1], q[i])
               /\ D[i] = apply_change(f, D[i - 1], q[i])
    <3>1. i - 1 \in 0 .. n /\ i \in 0 .. n
      OBVIOUS
    <3>2. D[i - 1] = R[i - 1].d /\ D[i] = R[i].d /\ R[i].ok
      BY <2>1, <3>1
    <3> HIDE DEF D
    <3>3. /\ checked => validate_change_on(R[i - 1].d, q[i])
          /\ Accepts(f, R[i - 1].d, q[i])
          /\ R[i] = [ok |-> TRUE, d |-> apply_change(f, R[i - 1].d, q[i])]
      BY <1>4, <3>2
    <3>4. R[i].d = apply_change(f, R[i - 1].d, q[i])
      BY <3>3
    <3> QED BY <3>2, <3>3, <3>4
  <2>4. Steps(f, d, q, checked, D)
    <3> HIDE DEF D
    <3> QED BY <2>2, <2>3 DEF Steps
  <2>5. R[n].ok = TRUE
    <3>1. CASE n = 0
      BY <1>3, <3>1
    <3>2. CASE n # 0
      <4>1. n \in 1 .. n
        BY <3>2
      <4> QED BY <1>4, <1>5, <4>1
    <3> QED BY <3>1, <3>2
  <2> HIDE DEF D
  <2> QED BY <1>2, <2>2, <2>4, <2>5
<1>6. CASE ~R[n].ok
  <2>1. n # 0
    BY <1>3, <1>6
  <2>2. n \in 1 .. n
    BY <2>1
  <2>3. R[n] = BatchStep(f, d, R[n - 1], q[n], checked)
    BY <1>3, <2>2
  <2>4. R[n] = [ok |-> FALSE, d |-> d]
    BY <1>6, <2>3 DEF BatchStep
  <2> QED BY <1>2, <2>4
<1> QED BY <1>5, <1>6

-----------------------------------------------------------------------------
(* What one change does to the tables.                                     *)

PutRow(g, i, r) == [j \in DOMAIN g \cup {i} |-> IF j = i THEN r ELSE g[j]]

\* h is the table g with the row r under the id i.
IsPut(g, h, i, r) ==
    /\ DOMAIN h = DOMAIN g \cup {i}
    /\ h[i] = r
    /\ \A j \in DOMAIN g : j # i => h[j] = g[j]

LEMMA PutRowIs ==
    ASSUME NEW g, NEW i, NEW r
    PROVE  IsPut(g, PutRow(g, i, r), i, r)
BY DEF PutRow, IsPut

LEMMA PutIs ==
    ASSUME NEW d, DOMAIN d = Fields, NEW t \in Tables, NEW i, NEW r
    PROVE  /\ DOMAIN Put(d, t, i, r) = Fields
           /\ Put(d, t, i, r)[t] = PutRow(d[t], i, r)
           /\ \A u \in Fields \ {t} : Put(d, t, i, r)[u] = d[u]
BY DEF Put, PutRow, Fields

LEMMA StayAtIs ==
    ASSUME NEW d, DOMAIN d = Fields, NEW i, NEW s
    PROVE  /\ DOMAIN StayAt(d, i, s) = Fields
           /\ StayAt(d, i, s).stay = PutRow(d.stay, i, s)
           /\ \A u \in Fields \ {"stay"} : StayAt(d, i, s)[u] = d[u]
BY DEF StayAt, PutRow, Fields

\* The tables before the row of `retired` is added.
Tabled(f, d, c) ==
    CASE c.t = "device" -> IF f = 1 THEN project_device_snapshot(d, c) ELSE apply_device(d, c)
      [] c.t = "root" -> IF f = 1 THEN Put(d, "root", c.id, c.row) ELSE apply_root(d, c)
      [] c.t = "checkin" -> apply_check_in(f, d, c)
      [] c.t = "mount" -> apply_mount(f, d, c)
      [] c.t = "assignment" -> apply_assignment(d, c)
      [] OTHER -> Put(d, c.t, c.id, c.row)

LEMMA ApplyIs ==
    ASSUME NEW f, NEW d, NEW c, DOMAIN Tabled(f, d, c) = Fields,
           Tabled(f, d, c).retired = d.retired
    PROVE  /\ DOMAIN apply_change(f, d, c) = Fields
           /\ \A u \in Fields \ {"retired"} : apply_change(f, d, c)[u] = Tabled(f, d, c)[u]
           /\ apply_change(f, d, c).retired
                = d.retired \cup IF c.a = "retire" THEN {<<c.t, c.id>>} ELSE {}
<1>1. apply_change(f, d, c) =
        IF c.a = "retire" THEN [Tabled(f, d, c) EXCEPT !.retired = @ \cup {<<c.t, c.id>>}]
        ELSE Tabled(f, d, c)
  BY DEF apply_change, Tabled
<1> QED BY <1>1 DEF Fields

Retires(d, e, c) == e.retired = d.retired \cup IF c.a = "retire" THEN {<<c.t, c.id>>} ELSE {}
SameTables(d, e, S) == \A u \in Tables \ S : e[u] = d[u]

\* e is what format f makes of the tables d with the change c.
Applied(f, d, c, e) == DOMAIN d = Fields /\ c \in Changes /\ e = apply_change(f, d, c)

LEMMA ApplyDevice ==
    ASSUME NEW f, NEW d, NEW c, NEW e, Applied(f, d, c, e), c.t = "device"
    PROVE  /\ DOMAIN e = Fields /\ Retires(d, e, c) /\ SameTables(d, e, {"device"})
           /\ e.mounts \subseteq d.mounts \cup {c.id}
           /\ IsPut(d.device, e.device, c.id, c.row)
           /\ f = 1 => e.stay = IF (IF c.id \in DOMAIN d.device THEN d.device[c.id].site ELSE Null)
                                       # c.row.site
                                THEN PutRow(d.stay, c.id, c.row.site) ELSE d.stay
           /\ f # 1 => e.stay = IF c.a \in {"register", "move"}
                                THEN PutRow(d.stay, c.id, c.row.site) ELSE d.stay
<1>0. DOMAIN d = Fields /\ e = apply_change(f, d, c)
  BY DEF Applied
<1> USE <1>0
<1> DEFINE g == Put(d, "device", c.id, c.row)
           h == Tabled(f, d, c)
<1>1. /\ DOMAIN g = Fields /\ g.device = PutRow(d.device, c.id, c.row)
      /\ \A u \in Fields \ {"device"} : g[u] = d[u]
  BY PutIs DEF Tables
<1>2. /\ DOMAIN StayAt(g, c.id, c.row.site) = Fields
      /\ StayAt(g, c.id, c.row.site).stay = PutRow(g.stay, c.id, c.row.site)
      /\ \A u \in Fields \ {"stay"} : StayAt(g, c.id, c.row.site)[u] = g[u]
  BY <1>1, StayAtIs
<1>3. h = IF f = 1
          THEN IF (IF c.id \in DOMAIN d.device THEN d.device[c.id].site ELSE Null) # c.row.site
               THEN StayAt(g, c.id, c.row.site) ELSE g
          ELSE IF c.a \in {"register", "move"} THEN StayAt(g, c.id, c.row.site) ELSE g
  BY DEF Tabled, project_device_snapshot, apply_device
<1> HIDE DEF g, h
<1>4. h = g \/ h = StayAt(g, c.id, c.row.site)
  BY <1>3
<1>5. /\ DOMAIN h = Fields /\ h.retired = d.retired /\ h.mounts = d.mounts
      /\ h.device = PutRow(d.device, c.id, c.row)
      /\ \A u \in Tables \ {"device"} : h[u] = d[u]
  BY <1>1, <1>2, <1>4 DEF Fields, Tables
<1>6. /\ f = 1 => h.stay = IF (IF c.id \in DOMAIN d.device THEN d.device[c.id].site ELSE Null)
                                  # c.row.site
                           THEN PutRow(d.stay, c.id, c.row.site) ELSE d.stay
      /\ f # 1 => h.stay = IF c.a \in {"register", "move"}
                           THEN PutRow(d.stay, c.id, c.row.site) ELSE d.stay
  <2>1. g.stay = d.stay /\ StayAt(g, c.id, c.row.site).stay = PutRow(d.stay, c.id, c.row.site)
    BY <1>1, <1>2 DEF Fields
  <2> QED BY <1>3, <2>1
<1>7. /\ DOMAIN e = Fields /\ Retires(d, e, c)
      /\ \A u \in Fields \ {"retired"} : e[u] = h[u]
  BY <1>5, ApplyIs DEF h, Retires
<1>8. e.device = h.device /\ e.stay = h.stay /\ e.mounts = h.mounts /\ \A u \in Tables : e[u] = h[u]
  BY <1>7 DEF Fields, Tables
<1>9. IsPut(d.device, PutRow(d.device, c.id, c.row), c.id, c.row)
  BY PutRowIs
<1> QED BY <1>5, <1>6, <1>7, <1>8, <1>9 DEF SameTables

\* The row of a root after the change c.
RootKept(f, d, c) ==
    IF f # 1 /\ c.id \in DOMAIN d.root
    THEN [d.root[c.id] EXCEPT !.name = c.row.name, !.status = c.row.status] ELSE c.row

LEMMA ApplyRoot ==
    ASSUME NEW f, NEW d, NEW c, NEW e, Applied(f, d, c, e), c.t = "root"
    PROVE  /\ DOMAIN e = Fields /\ Retires(d, e, c) /\ SameTables(d, e, {"root"})
           /\ e.stay = d.stay /\ e.mounts \subseteq d.mounts \cup {c.id}
           /\ IsPut(d.root, e.root, c.id, RootKept(f, d, c))
<1>0. DOMAIN d = Fields /\ e = apply_change(f, d, c)
  BY DEF Applied
<1> USE <1>0
<1> DEFINE r == RootKept(f, d, c)
           h == Tabled(f, d, c)
<1>1. h = Put(d, "root", c.id, r)
  BY DEF Tabled, apply_root, RootKept
<1> HIDE DEF h
<1>2. /\ DOMAIN h = Fields /\ h.root = PutRow(d.root, c.id, r)
      /\ \A u \in Fields \ {"root"} : h[u] = d[u]
  BY <1>1, PutIs DEF Tables
<1>3. h.retired = d.retired /\ h.mounts = d.mounts /\ h.stay = d.stay /\ \A u \in Tables \ {"root"} : h[u] = d[u]
  BY <1>2 DEF Fields
<1>4. /\ DOMAIN e = Fields /\ Retires(d, e, c)
      /\ \A u \in Fields \ {"retired"} : e[u] = h[u]
  BY <1>2, <1>3, ApplyIs DEF h, Retires
<1>5. e.root = h.root /\ e.mounts = h.mounts /\ e.stay = h.stay /\ \A u \in Tables : e[u] = h[u]
  BY <1>4 DEF Fields, Tables
<1>6. IsPut(d.root, PutRow(d.root, c.id, r), c.id, r)
  BY PutRowIs
<1> QED BY <1>2, <1>3, <1>4, <1>5, <1>6 DEF SameTables

Plain == {"site", "policy", "collection", "location", "risk"}

LEMMA ApplyPlain ==
    ASSUME NEW f, NEW d, NEW c, NEW e, Applied(f, d, c, e), c.t \in Plain
    PROVE  /\ DOMAIN e = Fields /\ Retires(d, e, c) /\ SameTables(d, e, {c.t})
           /\ e.mounts \subseteq d.mounts \cup {c.id}
           /\ e.stay = d.stay /\ IsPut(d[c.t], e[c.t], c.id, c.row)
<1>0. DOMAIN d = Fields /\ e = apply_change(f, d, c)
  BY DEF Applied
<1> USE <1>0
<1> DEFINE h == Tabled(f, d, c)
<1>1. h = Put(d, c.t, c.id, c.row)
  BY DEF Tabled, Plain
<1> HIDE DEF h
<1>2. /\ DOMAIN h = Fields /\ h[c.t] = PutRow(d[c.t], c.id, c.row)
      /\ \A u \in Fields \ {c.t} : h[u] = d[u]
  BY <1>1, PutIs DEF Tables, Plain
<1>3. h.retired = d.retired /\ h.mounts = d.mounts /\ h.stay = d.stay /\ \A u \in Tables \ {c.t} : h[u] = d[u]
  BY <1>2 DEF Fields, Tables, Plain
<1>4. /\ DOMAIN e = Fields /\ Retires(d, e, c)
      /\ \A u \in Fields \ {"retired"} : e[u] = h[u]
  BY <1>2, <1>3, ApplyIs DEF h, Retires
<1>5. c.t \in Tables /\ e.mounts = h.mounts /\ e.stay = h.stay /\ \A u \in Tables : e[u] = h[u]
  BY <1>4 DEF Fields, Tables, Plain
<1>6. IsPut(d[c.t], PutRow(d[c.t], c.id, c.row), c.id, c.row)
  BY PutRowIs
<1> QED BY <1>2, <1>3, <1>4, <1>5, <1>6 DEF SameTables

\* Rows that differ at most in an identity that became doubtful.
Weakened(g, h) ==
    /\ DOMAIN h = DOMAIN g
    /\ \A i \in DOMAIN g : h[i] = g[i] \/ h[i] = [g[i] EXCEPT !.identity = "conflict"]

Doubt(d, t, i) == [d EXCEPT ![t][i].identity = "conflict"]

LEMMA DoubtIs ==
    ASSUME NEW d, DOMAIN d = Fields, NEW t \in {"device", "root"}, NEW i
    PROVE  /\ DOMAIN Doubt(d, t, i) = Fields /\ Weakened(d[t], Doubt(d, t, i)[t])
           /\ \A u \in Fields \ {t} : Doubt(d, t, i)[u] = d[u]
<1> DEFINE r == [d[t][i] EXCEPT !.identity = "conflict"]
           g == [d[t] EXCEPT ![i] = r]
<1>1. Doubt(d, t, i) = [d EXCEPT ![t] = g]
  BY DEF Doubt
<1>2. Weakened(d[t], g)
  BY DEF Weakened
<1> HIDE DEF g
<1>3. t \in Fields
  BY DEF Fields, Tables
<1> QED BY <1>1, <1>2, <1>3

Seen == {"checkin", "mount", "assignment"}

LEMMA ApplySeen ==
    ASSUME NEW f, NEW d, NEW c, NEW e, Applied(f, d, c, e), c.t \in Seen
    PROVE  /\ DOMAIN e = Fields /\ Retires(d, e, c) /\ SameTables(d, e, {"device", "root"})
           /\ e.stay = d.stay /\ e.mounts \subseteq d.mounts \cup {c.id}
           /\ Weakened(d.device, e.device) /\ Weakened(d.root, e.root)
           /\ f # 1 => e.device = d.device /\ e.root = d.root
<1>0. DOMAIN d = Fields /\ e = apply_change(f, d, c)
  BY DEF Applied
<1> USE <1>0
<1> DEFINE h == Tabled(f, d, c)
           g == [d EXCEPT !.mounts = @ \cup {c.id}]
<1>1. DOMAIN g = Fields /\ g.mounts = d.mounts \cup {c.id} /\ \A u \in Fields \ {"mounts"} : g[u] = d[u]
  BY DEF Fields
<1>2. Weakened(d.device, d.device) /\ Weakened(d.root, d.root)
  BY DEF Weakened
<1>3. /\ DOMAIN h = Fields /\ h.mounts \subseteq d.mounts \cup {c.id}
      /\ \A u \in Fields \ {"device", "root", "mounts", "assigned"} : h[u] = d[u]
      /\ Weakened(d.device, h.device) /\ Weakened(d.root, h.root)
      /\ f # 1 => h.device = d.device /\ h.root = d.root
  <2>1. CASE c.t = "assignment"
    <3>1. \E S : h = [d EXCEPT !.assigned = S]
      BY <2>1 DEF Tabled, apply_assignment
    <3> QED BY <1>2, <3>1 DEF Fields, Tables
  <2>2. CASE c.t = "checkin"
    <3>1. h = d \/ (f = 1 /\ h = Doubt(d, "device", c.id))
      BY <2>2 DEF Tabled, apply_check_in, Doubt
    <3>2. CASE h = d
      BY <1>2, <3>2
    <3>3. CASE f = 1 /\ h = Doubt(d, "device", c.id)
      <4>1. /\ DOMAIN h = Fields /\ Weakened(d.device, h.device)
            /\ \A u \in Fields \ {"device"} : h[u] = d[u]
        BY <3>3, DoubtIs
      <4>2. h.mounts = d.mounts
        BY <4>1 DEF Fields
      <4> QED BY <1>2, <3>3, <4>1, <4>2 DEF Fields, Tables
    <3> QED BY <3>1, <3>2, <3>3
  <2>3. CASE c.t = "mount"
    <3>1. \/ h = g
          \/ f = 1 /\ h = Doubt(g, "device", c.row.device)
          \/ f = 1 /\ h = Doubt(g, "root", c.row.root)
      BY <2>3 DEF Tabled, apply_mount, Doubt
    <3> HIDE DEF g, h
    <3>0. g.device = d.device /\ g.root = d.root
      BY <1>1 DEF Fields, Tables
    <3>2. CASE h = g
      BY <1>1, <1>2, <3>0, <3>2
    <3>3. CASE f = 1 /\ h = Doubt(g, "device", c.row.device)
      <4>1. /\ DOMAIN h = Fields /\ Weakened(g.device, h.device)
            /\ \A u \in Fields \ {"device"} : h[u] = g[u]
        BY <1>1, <3>3, DoubtIs
      <4>2. h.root = g.root /\ h.mounts = g.mounts
        BY <4>1 DEF Fields, Tables
      <4> QED BY <1>1, <1>2, <3>0, <3>3, <4>1, <4>2
    <3>4. CASE f = 1 /\ h = Doubt(g, "root", c.row.root)
      <4>1. /\ DOMAIN h = Fields /\ Weakened(g.root, h.root)
            /\ \A u \in Fields \ {"root"} : h[u] = g[u]
        BY <1>1, <3>4, DoubtIs
      <4>2. h.device = g.device /\ h.mounts = g.mounts
        BY <4>1 DEF Fields, Tables
      <4> QED BY <1>1, <1>2, <3>0, <3>4, <4>1, <4>2
    <3> QED BY <3>1, <3>2, <3>3, <3>4
  <2> QED BY <2>1, <2>2, <2>3 DEF Seen
<1> HIDE DEF h, g
<1>4. h.retired = d.retired /\ h.stay = d.stay
      /\ \A u \in Tables \ {"device", "root"} : h[u] = d[u]
  BY <1>3 DEF Fields, Tables
<1>5. /\ DOMAIN e = Fields /\ Retires(d, e, c)
      /\ \A u \in Fields \ {"retired"} : e[u] = h[u]
  BY <1>3, <1>4, ApplyIs DEF h, Retires
<1>6. e.mounts = h.mounts /\ e.stay = h.stay /\ e.device = h.device /\ e.root = h.root /\ \A u \in Tables : e[u] = h[u]
  BY <1>5 DEF Fields, Tables
<1> QED BY <1>3, <1>4, <1>5, <1>6 DEF SameTables

LEMMA KindCases ==
    ASSUME NEW f, NEW d, NEW c, NEW e, Applied(f, d, c, e)
    PROVE  c.t = "device" \/ c.t = "root" \/ c.t \in Plain \/ c.t \in Seen
BY DEF Applied, Changes, Kinds, Tables, Plain, Seen

\* Where the rows of a table come from.
LEMMA DomainsGrow ==
    ASSUME NEW f, NEW d, NEW c, NEW e, Applied(f, d, c, e)
    PROVE  /\ DOMAIN e = Fields /\ Retires(d, e, c)
           /\ \A t \in Tables : DOMAIN e[t] = DOMAIN d[t] \cup IF t = c.t THEN {c.id} ELSE {}
<1>1. CASE c.t = "device"
  <2>1. DOMAIN e = Fields /\ Retires(d, e, c) /\ SameTables(d, e, {"device"})
    BY <1>1, ApplyDevice
  <2>2. DOMAIN e.device = DOMAIN d.device \cup {c.id}
    BY <1>1, ApplyDevice DEF IsPut
  <2> QED BY <1>1, <2>1, <2>2 DEF SameTables
<1>2. CASE c.t = "root"
  <2>1. DOMAIN e = Fields /\ Retires(d, e, c) /\ SameTables(d, e, {"root"})
    BY <1>2, ApplyRoot
  <2>2. DOMAIN e.root = DOMAIN d.root \cup {c.id}
    BY <1>2, ApplyRoot DEF IsPut
  <2> QED BY <1>2, <2>1, <2>2 DEF SameTables
<1>3. CASE c.t \in Plain
  <2>1. DOMAIN e = Fields /\ Retires(d, e, c) /\ SameTables(d, e, {c.t})
    BY <1>3, ApplyPlain
  <2>3. IsPut(d[c.t], e[c.t], c.id, c.row)
    BY <1>3, ApplyPlain
  <2>2. DOMAIN e[c.t] = DOMAIN d[c.t] \cup {c.id}
    BY <2>3 DEF IsPut
  <2> QED BY <2>1, <2>2 DEF SameTables
<1>4. CASE c.t \in Seen
  <2>1. /\ DOMAIN e = Fields /\ Retires(d, e, c) /\ SameTables(d, e, {"device", "root"})
        /\ DOMAIN e.device = DOMAIN d.device /\ DOMAIN e.root = DOMAIN d.root
    BY <1>4, ApplySeen DEF Weakened
  <2>2. c.t \notin Tables
    BY <1>4 DEF Seen, Tables
  <2> QED BY <2>1, <2>2 DEF SameTables
<1> QED BY <1>1, <1>2, <1>3, <1>4, KindCases

LEMMA DevicesAfter ==
    ASSUME NEW f, NEW d, NEW c, NEW e, Applied(f, d, c, e),
           NEW i \in DOMAIN e.device
    PROVE  \/ c.t = "device" /\ i = c.id /\ e.device[i] = c.row
           \/ /\ i \in DOMAIN d.device /\ (c.t = "device" => i # c.id)
              /\ \/ e.device[i] = d.device[i]
                 \/ f = 1 /\ e.device[i] = [d.device[i] EXCEPT !.identity = "conflict"]
<1>1. CASE c.t = "device"
  <2>1. IsPut(d.device, e.device, c.id, c.row)
    BY <1>1, ApplyDevice
  <2> QED BY <1>1, <2>1 DEF IsPut
<1>2. CASE c.t \in Seen
  <2>1. Weakened(d.device, e.device) /\ (f # 1 => e.device = d.device)
    BY <1>2, ApplySeen
  <2> QED BY <1>2, <2>1 DEF Weakened, Seen
<1>3. CASE c.t \in Plain \cup {"root"}
  <2>1. e.device = d.device
    <3>1. CASE c.t = "root"
      BY <3>1, ApplyRoot DEF SameTables, Tables
    <3>2. CASE c.t \in Plain
      BY <3>2, ApplyPlain DEF SameTables, Tables, Plain
    <3> QED BY <1>3, <3>1, <3>2
  <2> QED BY <1>3, <2>1 DEF Plain
<1> QED BY <1>1, <1>2, <1>3, KindCases

LEMMA RootsAfter ==
    ASSUME NEW f, NEW d, NEW c, NEW e, Applied(f, d, c, e),
           NEW i \in DOMAIN e.root
    PROVE  \/ c.t = "root" /\ i = c.id /\ e.root[i] = RootKept(f, d, c)
           \/ /\ i \in DOMAIN d.root /\ (c.t = "root" => i # c.id)
              /\ \/ e.root[i] = d.root[i]
                 \/ f = 1 /\ e.root[i] = [d.root[i] EXCEPT !.identity = "conflict"]
<1>1. CASE c.t = "root"
  <2>1. IsPut(d.root, e.root, c.id, RootKept(f, d, c))
    BY <1>1, ApplyRoot
  <2> QED BY <1>1, <2>1 DEF IsPut
<1>2. CASE c.t \in Seen
  <2>1. Weakened(d.root, e.root) /\ (f # 1 => e.root = d.root)
    BY <1>2, ApplySeen
  <2> QED BY <1>2, <2>1 DEF Weakened, Seen
<1>3. CASE c.t \in Plain \cup {"device"}
  <2>1. e.root = d.root
    <3>1. CASE c.t = "device"
      BY <3>1, ApplyDevice DEF SameTables, Tables
    <3>2. CASE c.t \in Plain
      BY <3>2, ApplyPlain DEF SameTables, Tables, Plain
    <3> QED BY <1>3, <3>1, <3>2
  <2> QED BY <1>3, <2>1 DEF Plain
<1> QED BY <1>1, <1>2, <1>3, KindCases

LEMMA PlainAfter ==
    ASSUME NEW f, NEW d, NEW c, NEW e, Applied(f, d, c, e),
           NEW t \in Plain
    PROVE  /\ c.t # t => e[t] = d[t]
           /\ c.t = t => IsPut(d[t], e[t], c.id, c.row)
<1>0. t \in Tables \ {"device", "root"}
  BY DEF Plain, Tables
<1>1. CASE c.t = "device"
  BY <1>0, <1>1, ApplyDevice DEF SameTables
<1>2. CASE c.t = "root"
  BY <1>0, <1>2, ApplyRoot DEF SameTables
<1>3. CASE c.t \in Plain
  BY <1>0, <1>3, ApplyPlain DEF SameTables
<1>4. CASE c.t \in Seen
  BY <1>0, <1>4, ApplySeen DEF SameTables, Seen, Tables
<1> QED BY <1>1, <1>2, <1>3, <1>4, KindCases

LEMMA StayAfter ==
    ASSUME NEW f, NEW d, NEW c, NEW e, Applied(f, d, c, e),
           c.t # "device"
    PROVE  e.stay = d.stay
<1>2. CASE c.t = "root"
  BY <1>2, ApplyRoot
<1>3. CASE c.t \in Plain
  <2>1. /\ DOMAIN e = Fields /\ Retires(d, e, c) /\ SameTables(d, e, {c.t})
        /\ e.mounts \subseteq d.mounts \cup {c.id} /\ e.stay = d.stay
    BY <1>3, ApplyPlain
  <2> QED BY <2>1
<1>4. CASE c.t \in Seen
  BY <1>4, ApplySeen
<1> QED BY <1>2, <1>3, <1>4, KindCases

-----------------------------------------------------------------------------
(* What one change preserves.                                              *)

LEMMA RowsAfter ==
    ASSUME NEW f \in 1 .. 3, NEW d, NEW c, NEW e, Applied(f, d, c, e), Planned(c), DbType(d),
           NEW t \in Tables, NEW i \in DOMAIN e[t]
    PROVE  e[t][i] \in RowsOf(t)
<1>0. DOMAIN d = Fields /\ c \in Changes /\ c.row \in RowsOf(c.t)
  BY DEF Applied, Planned
<1>1. CASE t = "device"
  <2>1. \A j \in DOMAIN d.device : d.device[j] \in DeviceRows
    BY DEF DbType, Tables, RowsOf
  <2>2. i \in DOMAIN e.device
    BY <1>1
  <2>3. \A r \in DeviceRows : [r EXCEPT !.identity = "conflict"] \in DeviceRows
    BY DEF DeviceRows, Identities
  <2>4. e.device[i] \in DeviceRows
    <3>1. CASE c.t = "device" /\ i = c.id /\ e.device[i] = c.row
      BY <1>0, <3>1 DEF RowsOf
    <3>2. CASE i \in DOMAIN d.device /\ e.device[i] = d.device[i]
      BY <2>1, <3>2
    <3>3. CASE i \in DOMAIN d.device /\ e.device[i] = [d.device[i] EXCEPT !.identity = "conflict"]
      BY <2>1, <2>3, <3>3
    <3> QED BY <2>2, <3>1, <3>2, <3>3, DevicesAfter
  <2> QED BY <1>1, <2>4 DEF RowsOf
<1>2. CASE t = "root"
  <2>1. \A j \in DOMAIN d.root : d.root[j] \in RootRows
    BY DEF DbType, Tables, RowsOf
  <2>2. i \in DOMAIN e.root
    BY <1>2
  <2>3. \A r \in RootRows : [r EXCEPT !.identity = "conflict"] \in RootRows
    BY DEF RootRows, Identities
  <2>4. \A r, s \in RootRows : [r EXCEPT !.name = s.name, !.status = s.status] \in RootRows
    BY DEF RootRows
  <2>5. e.root[i] \in RootRows
    <3>1. CASE c.t = "root" /\ i = c.id /\ e.root[i] = RootKept(f, d, c)
      <4>1. c.row \in RootRows
        BY <1>0, <3>1 DEF RowsOf
      <4>2. CASE RootKept(f, d, c) = c.row
        BY <3>1, <4>1, <4>2
      <4>3. CASE RootKept(f, d, c) # c.row
        <5>1. /\ c.id \in DOMAIN d.root
              /\ RootKept(f, d, c) = [d.root[c.id] EXCEPT !.name = c.row.name, !.status = c.row.status]
          BY <4>3 DEF RootKept
        <5>2. d.root[c.id] \in RootRows
          BY <2>1, <5>1
        <5>3. [d.root[c.id] EXCEPT !.name = c.row.name, !.status = c.row.status] \in RootRows
          BY <2>4, <4>1, <5>2
        <5> QED BY <3>1, <5>1, <5>3
      <4> QED BY <4>2, <4>3
    <3>2. CASE i \in DOMAIN d.root /\ e.root[i] = d.root[i]
      BY <2>1, <3>2
    <3>3. CASE i \in DOMAIN d.root /\ e.root[i] = [d.root[i] EXCEPT !.identity = "conflict"]
      BY <2>1, <2>3, <3>3
    <3> QED BY <2>2, <3>1, <3>2, <3>3, RootsAfter
  <2> QED BY <1>2, <2>5 DEF RowsOf
<1>3. CASE t \in Plain
  <2>1. \A j \in DOMAIN d[t] : d[t][j] \in RowsOf(t)
    BY DEF DbType
  <2>2. CASE c.t # t
    <3>1. e[t] = d[t]
      BY <1>3, <2>2, PlainAfter
    <3> QED BY <2>1, <3>1
  <2>3. CASE c.t = t
    <3>1. IsPut(d[t], e[t], c.id, c.row)
      BY <1>3, <2>3, PlainAfter
    <3>2. c.row \in RowsOf(t)
      BY <1>0, <2>3
    <3> QED BY <2>1, <3>1, <3>2 DEF IsPut
  <2> QED BY <2>2, <2>3
<1> QED BY <1>1, <1>2, <1>3 DEF Tables, Plain

LEMMA TypeKept ==
    ASSUME NEW f \in 1 .. 3, NEW d, NEW c, NEW e, Applied(f, d, c, e), Planned(c), DbType(d)
    PROVE  DbType(e)
<1>1. DOMAIN e = Fields
  BY DomainsGrow
<1>2. \A t \in Tables : DOMAIN e[t] = DOMAIN d[t] \cup IF t = c.t THEN {c.id} ELSE {}
  BY DomainsGrow
<1>3. c.id \in Nat
  BY DEF Applied, Changes
<1>4. \A t \in Tables : DOMAIN e[t] \in SUBSET Nat
  BY <1>2, <1>3 DEF DbType
<1>5. \A t \in Tables : \A i \in DOMAIN e[t] : e[t][i] \in RowsOf(t)
  BY RowsAfter
<1>6. e.mounts \subseteq d.mounts \cup {c.id}
  BY ApplyDevice, ApplyRoot, ApplyPlain, ApplySeen, KindCases
<1>7. e.mounts \in SUBSET Nat
  BY <1>3, <1>6 DEF DbType
<1> QED BY <1>1, <1>4, <1>5, <1>7 DEF DbType

\* The fields of rows that the other lemmas need.
LEMMA RowTypes ==
    ASSUME NEW d, DbType(d)
    PROVE  /\ \A t \in Tables : DOMAIN d[t] \in SUBSET Nat
           /\ \A i \in DOMAIN d.device : d.device[i] \in DeviceRows
           /\ \A i \in DOMAIN d.root : d.root[i] \in RootRows
           /\ \A i \in DOMAIN d.location : d.location[i] \in LocationRows
           /\ \A i \in DOMAIN d.policy : d.policy[i] \in PolicyRows
BY DEF DbType, Tables, RowsOf

LEMMA RootKeptIs ==
    ASSUME NEW f, NEW d, NEW c, DbType(d), Planned(c), c.t = "root"
    PROVE  LET r == RootKept(f, d, c) IN
           /\ r.status = c.row.status
           /\ f # 1 /\ c.id \in DOMAIN d.root =>
                 /\ r.device = d.root[c.id].device
                 /\ r.identity = d.root[c.id].identity /\ r.print = d.root[c.id].print
           /\ ~(f # 1 /\ c.id \in DOMAIN d.root) => r = c.row
<1>1. c.id \in DOMAIN d.root => d.root[c.id] \in RootRows
  BY RowTypes
<1> QED BY <1>1 DEF RootKept, RootRows

LEMMA BelowKept ==
    ASSUME NEW f \in 1 .. 3, NEW d, NEW c, NEW e, Applied(f, d, c, e), Planned(c), DbType(d),
           NEW n \in Nat, Below(d, n), ChangeBelow(c, n)
    PROVE  Below(e, n)
<1>1. ASSUME NEW i \in DOMAIN e.device PROVE i < n
  <2>0. DOMAIN e.device = DOMAIN d.device \cup IF "device" = c.t THEN {c.id} ELSE {}
    BY DomainsGrow DEF Tables
  <2>1. i \in DOMAIN d.device \/ (c.t = "device" /\ i = c.id)
    BY <2>0
  <2> QED BY <2>1 DEF Below, ChangeBelow
<1>2. ASSUME NEW i \in DOMAIN e.root PROVE i < n /\ e.root[i].device < n
  <2>1. CASE c.t = "root" /\ i = c.id /\ e.root[i] = RootKept(f, d, c)
    BY <2>1, RootKeptIs DEF Below, ChangeBelow
  <2>2. CASE i \in DOMAIN d.root /\ e.root[i] = d.root[i]
    BY <2>2 DEF Below
  <2>3. CASE i \in DOMAIN d.root /\ e.root[i] = [d.root[i] EXCEPT !.identity = "conflict"]
    <3>1. d.root[i] \in RootRows
      BY <2>3, RowTypes
    <3>2. e.root[i].device = d.root[i].device
      BY <2>3, <3>1 DEF RootRows
    <3> QED BY <2>3, <3>2 DEF Below
  <2> QED BY <2>1, <2>2, <2>3, RootsAfter
<1>3. ASSUME NEW l \in DOMAIN e.location PROVE e.location[l].root < n
  <2>0. "location" \in Plain
    BY DEF Plain
  <2>1. CASE c.t # "location"
    <3>1. e.location = d.location
      BY <2>0, <2>1, PlainAfter
    <3> QED BY <3>1 DEF Below
  <2>2. CASE c.t = "location"
    <3>1. IsPut(d.location, e.location, c.id, c.row)
      BY <2>0, <2>2, PlainAfter
    <3> QED BY <2>2, <3>1 DEF Below, ChangeBelow, IsPut
  <2> QED BY <2>1, <2>2
<1> QED BY <1>1, <1>2, <1>3 DEF Below

\* A valid change keeps confirmed identities apart.
LEMMA UniqueKept ==
    ASSUME NEW f \in 1 .. 3, NEW d, NEW c, NEW e, Applied(f, d, c, e), Planned(c), DbType(d),
           validate_change_on(d, c), Unique(d)
    PROVE  Unique(e)
<1> DEFINE Sure(g, i) == i \in DOMAIN g /\ g[i].status = "active" /\ g[i].identity = "confirmed"
           Apart(g) == \A i, j : Sure(g, i) /\ Sure(g, j) /\ i # j => g[i].print # g[j].print
<1>1. Apart(d.device) /\ Apart(d.root)
  BY DEF Unique, Active
<1>2. Apart(e.device)
  <2>1. ASSUME NEW i, Sure(e.device, i)
        PROVE  \/ Sure(d.device, i) /\ e.device[i].print = d.device[i].print
                  /\ (c.t = "device" => i # c.id)
               \/ c.t = "device" /\ i = c.id /\ e.device[i] = c.row
    <3>1. i \in DOMAIN d.device => d.device[i] \in DeviceRows
      BY RowTypes
    <3>2. \/ c.t = "device" /\ i = c.id /\ e.device[i] = c.row
          \/ /\ i \in DOMAIN d.device /\ (c.t = "device" => i # c.id)
             /\ \/ e.device[i] = d.device[i]
                \/ e.device[i] = [d.device[i] EXCEPT !.identity = "conflict"]
      BY <2>1, DevicesAfter
    <3>3. i \in DOMAIN d.device => e.device[i] # [d.device[i] EXCEPT !.identity = "conflict"]
      BY <2>1, <3>1 DEF DeviceRows
    <3> QED BY <2>1, <3>2, <3>3
  <2>2. c.t = "device" => validate_device(d, c)
    BY DEF validate_change_on
  <2>3. c.t = "device" /\ c.row.identity = "confirmed" =>
          \A o : Sure(d.device, o) /\ o # c.id => d.device[o].print # c.row.print
    BY <2>2 DEF validate_device, Active
  <2>4. ASSUME NEW i, NEW j, Sure(e.device, i), Sure(e.device, j), i # j
        PROVE  e.device[i].print # e.device[j].print
    <3>1. CASE /\ Sure(d.device, i) /\ e.device[i].print = d.device[i].print
               /\ Sure(d.device, j) /\ e.device[j].print = d.device[j].print
      BY <1>1, <2>4, <3>1
    <3>2. CASE c.t = "device" /\ i = c.id /\ e.device[i] = c.row
      <4>1. Sure(d.device, j) /\ e.device[j].print = d.device[j].print /\ j # c.id
        BY <2>1, <2>4, <3>2
      <4> QED BY <2>3, <2>4, <3>2, <4>1
    <3>3. CASE c.t = "device" /\ j = c.id /\ e.device[j] = c.row
      <4>1. Sure(d.device, i) /\ e.device[i].print = d.device[i].print /\ i # c.id
        BY <2>1, <2>4, <3>3
      <4> QED BY <2>3, <2>4, <3>3, <4>1
    <3> HIDE DEF Sure
    <3> QED BY <2>1, <2>4, <3>1, <3>2, <3>3
  <2> QED BY <2>4
<1>3. Apart(e.root)
  <2>0. c.t = "root" => validate_root(d, c)
    BY DEF validate_change_on
  <2>5. c.t = "root" => LET r == RootKept(f, d, c) IN
                        r.identity = c.row.identity /\ r.print = c.row.print
    <3>1. c.t = "root" /\ c.id \in DOMAIN d.root =>
            c.row.print = d.root[c.id].print /\ c.row.identity = d.root[c.id].identity
      BY <2>0 DEF validate_root, validate_lifecycle
    <3> QED BY <3>1, RootKeptIs
  <2>1. ASSUME NEW i, Sure(e.root, i)
        PROVE  \/ Sure(d.root, i) /\ e.root[i].print = d.root[i].print
                  /\ (c.t = "root" => i # c.id)
               \/ /\ c.t = "root" /\ i = c.id
                  /\ e.root[i].print = c.row.print /\ c.row.identity = "confirmed"
    <3>1. i \in DOMAIN d.root => d.root[i] \in RootRows
      BY RowTypes
    <3>2. \/ c.t = "root" /\ i = c.id /\ e.root[i] = RootKept(f, d, c)
          \/ /\ i \in DOMAIN d.root /\ (c.t = "root" => i # c.id)
             /\ \/ e.root[i] = d.root[i]
                \/ e.root[i] = [d.root[i] EXCEPT !.identity = "conflict"]
      BY <2>1, RootsAfter
    <3>3. i \in DOMAIN d.root => e.root[i] # [d.root[i] EXCEPT !.identity = "conflict"]
      BY <2>1, <3>1 DEF RootRows
    <3> QED BY <2>1, <2>5, <3>2, <3>3
  <2>3. c.t = "root" /\ c.row.identity = "confirmed" =>
          \A o : Sure(d.root, o) /\ o # c.id => d.root[o].print # c.row.print
    BY <2>0 DEF validate_root, Active
  <2>4. ASSUME NEW i, NEW j, Sure(e.root, i), Sure(e.root, j), i # j
        PROVE  e.root[i].print # e.root[j].print
    <3>1. CASE /\ Sure(d.root, i) /\ e.root[i].print = d.root[i].print
               /\ Sure(d.root, j) /\ e.root[j].print = d.root[j].print
      BY <1>1, <2>4, <3>1
    <3>2. CASE c.t = "root" /\ i = c.id /\ e.root[i].print = c.row.print
               /\ c.row.identity = "confirmed"
      <4>1. Sure(d.root, j) /\ e.root[j].print = d.root[j].print /\ j # c.id
        BY <2>1, <2>4, <3>2
      <4> QED BY <2>3, <2>4, <3>2, <4>1
    <3>3. CASE c.t = "root" /\ j = c.id /\ e.root[j].print = c.row.print
               /\ c.row.identity = "confirmed"
      <4>1. Sure(d.root, i) /\ e.root[i].print = d.root[i].print /\ i # c.id
        BY <2>1, <2>4, <3>3
      <4> QED BY <2>3, <2>4, <3>3, <4>1
    <3> HIDE DEF Sure
    <3> QED BY <2>1, <2>4, <3>1, <3>2, <3>3
  <2> QED BY <2>4
<1> QED BY <1>2, <1>3 DEF Unique, Active

LEMMA StayKept ==
    ASSUME NEW f \in 1 .. 3, NEW d, NEW c, NEW e, Applied(f, d, c, e), Planned(c), DbType(d),
           NEW single \in BOOLEAN, StayOK(f, single, d),
           \/ f = 1
           \/ f = 2 /\ ~single
           \/ /\ validate_change_on(d, c)
              /\ single /\ c.t = "device" /\ c.a = "retire" => Current(d, c)
    PROVE  StayOK(f, single, e)
<1> SUFFICES ASSUME NEW i \in DOMAIN e.device,
                    f = 1 \/ single \/ (f = 3 /\ <<"device", i>> \notin e.retired)
             PROVE  i \in DOMAIN e.stay /\ e.stay[i] = e.device[i].site
  BY DEF StayOK
<1>0. i \in DOMAIN d.device => d.device[i] \in DeviceRows
  BY RowTypes
<1>1. Retires(d, e, c)
  BY DomainsGrow
<1>2. ASSUME i \in DOMAIN d.device PROVE i \in DOMAIN d.stay /\ d.stay[i] = d.device[i].site
  <2>1. <<"device", i>> \notin e.retired => <<"device", i>> \notin d.retired
    BY <1>1 DEF Retires
  <2> QED BY <1>2, <2>1 DEF StayOK
<1>3. CASE c.t # "device"
  <2>1. e.stay = d.stay
    BY <1>3, StayAfter
  <2>2. i \in DOMAIN d.device /\ e.device[i].site = d.device[i].site
    <3>1. /\ i \in DOMAIN d.device
          /\ e.device[i] = d.device[i] \/ e.device[i] = [d.device[i] EXCEPT !.identity = "conflict"]
      BY <1>3, DevicesAfter
    <3> QED BY <1>0, <3>1 DEF DeviceRows
  <2> QED BY <1>2, <2>1, <2>2
<1>4. CASE c.t = "device"
  <2>1. IsPut(d.device, e.device, c.id, c.row)
    BY <1>4, ApplyDevice
  <2>2. \A s : IsPut(d.stay, PutRow(d.stay, c.id, s), c.id, s)
    BY PutRowIs
  <2>3. e.stay = d.stay \/ e.stay = PutRow(d.stay, c.id, c.row.site)
    BY <1>4, ApplyDevice
  <2>4. CASE i # c.id
    <3>1. i \in DOMAIN d.device /\ e.device[i] = d.device[i]
      BY <2>1, <2>4 DEF IsPut
    <3>2. i \in DOMAIN e.stay /\ e.stay[i] = d.stay[i]
      BY <1>2, <2>3, <2>4, <3>1 DEF PutRow
    <3> QED BY <1>2, <3>1, <3>2
  <2>5. CASE i = c.id
    <3>1. e.device[i] = c.row
      BY <2>1, <2>5 DEF IsPut
    <3>2. CASE e.stay = PutRow(d.stay, c.id, c.row.site)
      BY <2>2, <2>5, <3>1, <3>2 DEF IsPut
    <3>3. CASE e.stay # PutRow(d.stay, c.id, c.row.site)
      <4>1. e.stay = d.stay
        BY <2>3, <3>3
      <4>2. i \in DOMAIN d.device /\ c.row.site = d.device[i].site
        <5>1. CASE f = 1
          <6>1. (IF c.id \in DOMAIN d.device THEN d.device[c.id].site ELSE Null) = c.row.site
            BY <1>4, <3>3, <5>1, ApplyDevice
          <6>2. c.row.site \in Nat
            BY <1>4 DEF Planned, RowsOf, DeviceRows
          <6> QED BY <2>5, <6>1, <6>2 DEF Null
        <5>2. CASE f # 1
          <6>1. c.a \notin {"register", "move"}
            BY <1>4, <3>3, <5>2, ApplyDevice
          <6>2. c.a \in {"update", "retire"}
            BY <1>4, <6>1 DEF Planned
          <6>3. validate_device(d, c)
            BY <1>4, <5>2 DEF validate_change_on
          <6>4. i \in DOMAIN d.device
            BY <1>4, <2>5, <6>1, <6>3 DEF validate_device, validate_lifecycle
          <6>5. CASE c.a = "update"
            BY <2>5, <6>3, <6>4, <6>5 DEF validate_device
          <6>6. CASE c.a = "retire"
            <7>1. <<"device", i>> \in e.retired
              BY <1>1, <1>4, <2>5, <6>6 DEF Retires
            <7>2. Current(d, c)
              BY <1>4, <5>2, <6>6, <7>1
            <7> QED BY <2>5, <6>4, <7>2 DEF Current
          <6> QED BY <6>2, <6>5, <6>6
        <5> QED BY <5>1, <5>2
      <4> QED BY <1>2, <3>1, <4>1, <4>2
    <3> QED BY <3>2, <3>3
  <2> QED BY <2>4, <2>5
<1> QED BY <1>3, <1>4

LEMMA PlaceKept ==
    ASSUME NEW f, NEW d, NEW c, NEW e, Applied(f, d, c, e), OnePlaceEach(d),
           c.t = "location" => NewPlace(d, c)
    PROVE  OnePlaceEach(e)
<1>0. "location" \in Plain
  BY DEF Plain
<1>1. CASE c.t # "location"
  <2>1. e.location = d.location
    BY <1>0, <1>1, PlainAfter
  <2> QED BY <2>1 DEF OnePlaceEach, Active
<1>2. CASE c.t = "location"
  <2>1. IsPut(d.location, e.location, c.id, c.row)
    BY <1>0, <1>2, PlainAfter
  <2>2. \A l \in DOMAIN d.location : d.location[l].status = "active" =>
          d.location[l].root # c.row.root \/ d.location[l].path # c.row.path
    BY <1>2 DEF NewPlace, Active
  <2>3. \A i, j \in DOMAIN d.location :
          d.location[i].status = "active" /\ d.location[j].status = "active" /\ i # j =>
            d.location[i].root # d.location[j].root \/ d.location[i].path # d.location[j].path
    BY DEF OnePlaceEach, Active
  <2>4. ASSUME NEW i \in DOMAIN e.location, NEW j \in DOMAIN e.location, i # j,
               e.location[i].status = "active", e.location[j].status = "active"
        PROVE  e.location[i].root # e.location[j].root \/ e.location[i].path # e.location[j].path
    <3>1. CASE i # c.id /\ j # c.id
      <4>1. /\ i \in DOMAIN d.location /\ e.location[i] = d.location[i]
            /\ j \in DOMAIN d.location /\ e.location[j] = d.location[j]
        BY <2>1, <3>1 DEF IsPut
      <4> QED BY <2>3, <2>4, <4>1
    <3>2. CASE i = c.id
      <4>1. e.location[i] = c.row /\ j \in DOMAIN d.location /\ e.location[j] = d.location[j]
        BY <2>1, <2>4, <3>2 DEF IsPut
      <4> QED BY <2>2, <2>4, <4>1
    <3>3. CASE j = c.id
      <4>1. e.location[j] = c.row /\ i \in DOMAIN d.location /\ e.location[i] = d.location[i]
        BY <2>1, <2>4, <3>3 DEF IsPut
      <4> QED BY <2>2, <2>4, <4>1
    <3> QED BY <3>1, <3>2, <3>3
  <2> QED BY <2>4 DEF OnePlaceEach, Active
<1> QED BY <1>1, <1>2

\* A place that is new stays new while no Location is registered.
LEMMA NewPlaceKept ==
    ASSUME NEW f, NEW d, NEW c, NEW e, Applied(f, d, c, e), c.t # "location",
           NEW b, NewPlace(d, b)
    PROVE  NewPlace(e, b)
<1>1. e.location = d.location
  BY PlainAfter DEF Plain
<1> QED BY <1>1 DEF NewPlace, Active

\* What valid changes of version 3 never take away.
Grown(d, e) ==
    /\ \A r \in DOMAIN d.root : r \in DOMAIN e.root /\ e.root[r].device = d.root[r].device
    /\ \A l \in DOMAIN d.location : l \in DOMAIN e.location /\ e.location[l] = d.location[l]
    /\ \A x \in DOMAIN d.policy :
          /\ x \in DOMAIN e.policy
          /\ \/ <<"policy", x>> \in e.retired
             \/ e.policy[x] = d.policy[x]
             \/ e.policy[x].version > d.policy[x].version
    /\ d.retired \subseteq e.retired

LEMMA ChangeGrows ==
    ASSUME NEW f \in 2 .. 3, NEW d, NEW c, NEW e, Applied(f, d, c, e), Planned(c), DbType(d),
           validate_change_on(d, c)
    PROVE  Grown(d, e)
<1>0. f \in 1 .. 3 /\ f # 1
  OBVIOUS
<1>1. Retires(d, e, c) /\ \A t \in Tables : DOMAIN d[t] \subseteq DOMAIN e[t]
  BY DomainsGrow
<1>2. ASSUME NEW r \in DOMAIN d.root
      PROVE  r \in DOMAIN e.root /\ e.root[r].device = d.root[r].device
  <2>1. r \in DOMAIN e.root
    BY <1>1 DEF Tables
  <2>2. CASE c.t = "root" /\ r = c.id /\ e.root[r] = RootKept(f, d, c)
    BY <1>0, <2>1, <2>2, RootKeptIs
  <2>3. CASE e.root[r] = d.root[r]
    BY <2>1, <2>3
  <2>4. \/ c.t = "root" /\ r = c.id /\ e.root[r] = RootKept(f, d, c)
        \/ e.root[r] = d.root[r]
        \/ f = 1 /\ e.root[r] = [d.root[r] EXCEPT !.identity = "conflict"]
    BY <2>1, RootsAfter
  <2> QED BY <1>0, <2>2, <2>3, <2>4
<1>3. ASSUME NEW l \in DOMAIN d.location
      PROVE  l \in DOMAIN e.location /\ e.location[l] = d.location[l]
  <2>0. "location" \in Plain
    BY DEF Plain
  <2>1. CASE c.t # "location"
    <3>1. e.location = d.location
      BY <2>0, <2>1, PlainAfter
    <3> QED BY <3>1
  <2>2. CASE c.t = "location"
    <3>1. IsPut(d.location, e.location, c.id, c.row)
      BY <2>0, <2>2, PlainAfter
    <3>2. c.a = "register" /\ validate_location(d, c)
      BY <2>2 DEF Planned, validate_change_on
    <3>3. c.id \notin DOMAIN d.location
      BY <2>2, <3>2 DEF validate_location, validate_lifecycle
    <3> QED BY <3>1, <3>3 DEF IsPut
  <2> QED BY <2>1, <2>2
<1>4. ASSUME NEW x \in DOMAIN d.policy
      PROVE  /\ x \in DOMAIN e.policy
             /\ \/ <<"policy", x>> \in e.retired
                \/ e.policy[x] = d.policy[x]
                \/ e.policy[x].version > d.policy[x].version
  <2>0. "policy" \in Plain
    BY DEF Plain
  <2>1. CASE c.t # "policy"
    <3>1. e.policy = d.policy
      BY <2>0, <2>1, PlainAfter
    <3> QED BY <3>1
  <2>2. CASE c.t = "policy"
    <3>1. IsPut(d.policy, e.policy, c.id, c.row)
      BY <2>0, <2>2, PlainAfter
    <3>2. validate_policy(d, c) /\ c.a \in {"register", "update", "retire"}
      BY <2>2 DEF Planned, validate_change_on
    <3>3. CASE x # c.id
      BY <3>1, <3>3 DEF IsPut
    <3>4. CASE x = c.id
      <4>1. x \in DOMAIN e.policy /\ e.policy[x] = c.row
        BY <3>1, <3>4 DEF IsPut
      <4>2. c.a # "register"
        BY <2>2, <3>2, <3>4 DEF validate_policy, validate_lifecycle
      <4>3. CASE c.a = "update"
        BY <3>2, <3>4, <4>1, <4>3 DEF validate_policy
      <4>4. CASE c.a = "retire"
        BY <1>1, <2>2, <3>4, <4>1, <4>4 DEF Retires
      <4> QED BY <3>2, <4>2, <4>3, <4>4
    <3> QED BY <3>3, <3>4
  <2> QED BY <2>1, <2>2
<1>5. d.retired \subseteq e.retired
  BY <1>1 DEF Retires
<1> QED BY <1>2, <1>3, <1>4, <1>5 DEF Grown

LEMMA GrownTwice ==
    ASSUME NEW a, NEW b, NEW c, DbType(a), DbType(b), DbType(c), Grown(a, b), Grown(b, c)
    PROVE  Grown(a, c)
<1>1. \A r \in DOMAIN a.root : r \in DOMAIN c.root /\ c.root[r].device = a.root[r].device
  BY DEF Grown
<1>2. \A l \in DOMAIN a.location : l \in DOMAIN c.location /\ c.location[l] = a.location[l]
  BY DEF Grown
<1>3. ASSUME NEW x \in DOMAIN a.policy
      PROVE  /\ x \in DOMAIN c.policy
             /\ \/ <<"policy", x>> \in c.retired
                \/ c.policy[x] = a.policy[x]
                \/ c.policy[x].version > a.policy[x].version
  <2>1. x \in DOMAIN b.policy /\ x \in DOMAIN c.policy
    BY DEF Grown
  <2>2. a.policy[x].version \in Nat /\ b.policy[x].version \in Nat /\ c.policy[x].version \in Nat
    BY <2>1, RowTypes DEF PolicyRows
  <2>3. /\ <<"policy", x>> \in b.retired => <<"policy", x>> \in c.retired
        /\ \/ <<"policy", x>> \in b.retired
           \/ b.policy[x] = a.policy[x]
           \/ b.policy[x].version > a.policy[x].version
        /\ \/ <<"policy", x>> \in c.retired
           \/ c.policy[x] = b.policy[x]
           \/ c.policy[x].version > b.policy[x].version
    BY <2>1 DEF Grown
  <2> QED BY <2>1, <2>2, <2>3
<1>4. a.retired \subseteq c.retired
  BY DEF Grown
<1> QED BY <1>1, <1>2, <1>3, <1>4 DEF Grown

-----------------------------------------------------------------------------
(* What a batch preserves.                                                 *)

\* Induction over the changes of a batch.
LEMMA Climb ==
    ASSUME NEW n \in Nat, NEW S, 0 \in S, \A i \in 1 .. n : i - 1 \in S => i \in S
    PROVE  \A i \in 0 .. n : i \in S
<1> DEFINE Bad == {i \in 0 .. n : i \notin S}
<1> SUFFICES ASSUME Bad # {} PROVE FALSE
  OBVIOUS
<1>1. PICK m \in Bad : \A i \in Bad : m <= i
  BY LeastNumber, Bad \in SUBSET Nat
<1>2. m # 0 /\ m \in 1 .. n
  BY <1>1
<1>3. m - 1 \in 0 .. n /\ m - 1 \notin Bad
  BY <1>1, <1>2
<1>4. m - 1 \in S
  BY <1>3
<1> QED BY <1>1, <1>2, <1>4

LEMMA StepApplied ==
    ASSUME NEW f, NEW d, NEW q, NEW n, Todo(q, n), NEW checked, NEW D,
           Steps(f, d, q, checked, D), NEW i \in 1 .. Len(q), DbType(D[i - 1])
    PROVE  /\ Applied(f, D[i - 1], q[i], D[i]) /\ Planned(q[i]) /\ ChangeBelow(q[i], n)
           /\ checked => validate_change_on(D[i - 1], q[i])
<1>1. q[i] \in Changes
  BY DEF Todo
<1> QED BY <1>1 DEF Applied, Steps, Todo, DbType

LEMMA TodoLength ==
    ASSUME NEW q, NEW n, Todo(q, n)
    PROVE  Len(q) \in Nat
BY DEF Todo

\* Every database of a batch has the types of the first.
LEMMA BatchType ==
    ASSUME NEW f \in 1 .. 3, NEW d, NEW q, NEW n \in Nat, Todo(q, n), NEW checked, NEW D,
           Steps(f, d, q, checked, D), DbType(d), Below(d, n)
    PROVE  \A i \in 0 .. Len(q) : DbType(D[i]) /\ Below(D[i], n)
<1> DEFINE S == {i \in 0 .. Len(q) : DbType(D[i]) /\ Below(D[i], n)}
<1>0. Len(q) \in Nat
  BY TodoLength
<1>1. 0 \in S
  BY <1>0 DEF Steps
<1>2. ASSUME NEW i \in 1 .. Len(q), i - 1 \in S PROVE i \in S
  <2>1. Applied(f, D[i - 1], q[i], D[i]) /\ Planned(q[i]) /\ ChangeBelow(q[i], n)
    BY <1>2, StepApplied
  <2>2. DbType(D[i])
    BY <1>2, <2>1, TypeKept
  <2>3. Below(D[i], n)
    BY <1>2, <2>1, BelowKept
  <2> QED BY <1>0, <2>2, <2>3
<1> HIDE DEF S
<1>3. \A i \in 0 .. Len(q) : i \in S
  BY <1>0, <1>1, <1>2, Climb
<1> QED BY <1>3 DEF S

\* Version 1 keeps the open stays whatever it projects.
LEMMA BatchStay1 ==
    ASSUME NEW d, NEW q, NEW n \in Nat, Todo(q, n), NEW checked, NEW D,
           Steps(1, d, q, checked, D), DbType(d), Below(d, n),
           NEW single \in BOOLEAN, StayOK(1, single, d)
    PROVE  StayOK(1, single, D[Len(q)])
<1> DEFINE S == {i \in 0 .. Len(q) : StayOK(1, single, D[i])}
<1>0. Len(q) \in Nat
  BY TodoLength
<1>1. 0 \in S
  BY <1>0 DEF Steps
<1>2. ASSUME NEW i \in 1 .. Len(q), i - 1 \in S PROVE i \in S
  <2>0. i - 1 \in 0 .. Len(q) /\ i \in 0 .. Len(q)
    BY <1>0
  <2>1. DbType(D[i - 1])
    BY <2>0, BatchType
  <2>2. Applied(1, D[i - 1], q[i], D[i]) /\ Planned(q[i])
    BY <2>1, StepApplied
  <2>3. StayOK(1, single, D[i])
    BY <1>2, <2>1, <2>2, StayKept
  <2> QED BY <2>0, <2>3
<1> HIDE DEF S
<1>3. \A i \in 0 .. Len(q) : i \in S
  BY <1>0, <1>1, <1>2, Climb
<1>4. Len(q) \in S
  BY <1>0, <1>3
<1> QED BY <1>4 DEF S

\* A transaction of version 3: every change in it is valid where it is applied.
Transacted(d, q, n, D) ==
    n \in Nat /\ Todo(q, n) /\ Steps(3, d, q, TRUE, D) /\ DbType(d) /\ Below(d, n)

LEMMA BatchUnique ==
    ASSUME NEW d, NEW q, NEW n, NEW D, Transacted(d, q, n, D), Unique(d)
    PROVE  Unique(D[Len(q)])
<1>d. n \in Nat /\ Todo(q, n) /\ Steps(3, d, q, TRUE, D) /\ DbType(d) /\ Below(d, n)
  BY DEF Transacted
<1> USE <1>d
<1> DEFINE S == {i \in 0 .. Len(q) : Unique(D[i])}
<1>0. Len(q) \in Nat
  BY TodoLength
<1>b. 3 \in 1 .. 3
  OBVIOUS
<1>c. \A i \in 0 .. Len(q) : DbType(D[i])
  BY <1>b, BatchType, Zenon
<1>1. 0 \in S
  BY <1>0 DEF Steps
<1>2. ASSUME NEW i \in 1 .. Len(q), i - 1 \in S PROVE i \in S
  <2>0. i - 1 \in 0 .. Len(q) /\ i \in 0 .. Len(q)
    BY <1>0
  <2>1. DbType(D[i - 1])
    BY <1>c, <2>0
  <2>2. Applied(3, D[i - 1], q[i], D[i]) /\ Planned(q[i]) /\ validate_change_on(D[i - 1], q[i])
    BY <2>1, StepApplied
  <2>3. Unique(D[i])
    BY <1>2, <2>1, <2>2, UniqueKept
  <2> QED BY <2>0, <2>3
<1> HIDE DEF S
<1>3. \A i \in 0 .. Len(q) : i \in S
  BY <1>0, <1>1, <1>2, Climb
<1>4. Len(q) \in S
  BY <1>0, <1>3
<1> QED BY <1>4 DEF S

LEMMA BatchStay3 ==
    ASSUME NEW d, NEW q, NEW n, NEW D, Transacted(d, q, n, D),
           NEW single \in BOOLEAN, StayOK(3, single, d), single => Undisturbed(q, d)
    PROVE  StayOK(3, single, D[Len(q)])
<1>d. n \in Nat /\ Todo(q, n) /\ Steps(3, d, q, TRUE, D) /\ DbType(d) /\ Below(d, n)
  BY DEF Transacted
<1> USE <1>d
<1> DEFINE S == {i \in 0 .. Len(q) : StayOK(3, single, D[i])}
<1>0. Len(q) \in Nat
  BY TodoLength
<1>b. 3 \in 1 .. 3
  OBVIOUS
<1>c. \A i \in 0 .. Len(q) : DbType(D[i])
  BY <1>b, BatchType, Zenon
<1>1. 0 \in S
  BY <1>0 DEF Steps
<1>2. ASSUME NEW i \in 1 .. Len(q), i - 1 \in S PROVE i \in S
  <2>0. i - 1 \in 0 .. Len(q) /\ i \in 0 .. Len(q)
    BY <1>0
  <2>1. DbType(D[i - 1])
    BY <1>c, <2>0
  <2>2. Applied(3, D[i - 1], q[i], D[i]) /\ Planned(q[i]) /\ validate_change_on(D[i - 1], q[i])
    BY <2>1, StepApplied
  <2>3. single /\ q[i].t = "device" /\ q[i].a = "retire" => Current(D[i - 1], q[i])
    <3>1. single /\ q[i].t = "device" /\ q[i].a = "retire" => i = 1 /\ Current(d, q[i])
      BY DEF Undisturbed
    <3>2. i = 1 => D[i - 1] = d
      BY DEF Steps
    <3> QED BY <3>1, <3>2
  <2>4. StayOK(3, single, D[i])
    BY <1>2, <2>1, <2>2, <2>3, StayKept
  <2> QED BY <2>0, <2>4
<1> HIDE DEF S
<1>3. \A i \in 0 .. Len(q) : i \in S
  BY <1>0, <1>1, <1>2, Climb
<1>4. Len(q) \in S
  BY <1>0, <1>3
<1> QED BY <1>4 DEF S

\* A plan registers one Location at most, at a place that is new.
LEMMA BatchPlace ==
    ASSUME NEW d, NEW q, NEW n, NEW D, Transacted(d, q, n, D), OnePlaceEach(d), Undisturbed(q, d)
    PROVE  OnePlaceEach(D[Len(q)])
<1>d. n \in Nat /\ Todo(q, n) /\ Steps(3, d, q, TRUE, D) /\ DbType(d) /\ Below(d, n)
  BY DEF Transacted
<1> USE <1>d
<1> DEFINE Ahead(i) == \A j \in 1 .. Len(q) : j > i /\ q[j].t = "location" => NewPlace(D[i], q[j])
           S == {i \in 0 .. Len(q) : OnePlaceEach(D[i]) /\ Ahead(i)}
<1>0. Len(q) \in Nat
  BY TodoLength
<1>b. 3 \in 1 .. 3
  OBVIOUS
<1>c. \A i \in 0 .. Len(q) : DbType(D[i])
  BY <1>b, BatchType, Zenon
<1>1. 0 \in S
  <2>1. D[0] = d
    BY DEF Steps
  <2>2. Ahead(0)
    BY <2>1 DEF Undisturbed
  <2> QED BY <1>0, <2>1, <2>2
<1>2. ASSUME NEW i \in 1 .. Len(q), i - 1 \in S PROVE i \in S
  <2>0. i - 1 \in 0 .. Len(q) /\ i \in 0 .. Len(q)
    BY <1>0
  <2>1. DbType(D[i - 1])
    BY <1>c, <2>0
  <2>2. Applied(3, D[i - 1], q[i], D[i])
    BY <2>1, StepApplied
  <2>3. q[i].t = "location" => NewPlace(D[i - 1], q[i])
    BY <1>2, i > i - 1
  <2>4. OnePlaceEach(D[i])
    BY <1>2, <2>2, <2>3, PlaceKept
  <2>5. ASSUME NEW j \in 1 .. Len(q), j > i, q[j].t = "location" PROVE NewPlace(D[i], q[j])
    <3>1. q[i].t # "location"
      BY <2>5 DEF Undisturbed
    <3>2. NewPlace(D[i - 1], q[j])
      BY <1>2, <2>5
    <3> QED BY <2>2, <3>1, <3>2, NewPlaceKept
  <2> QED BY <2>0, <2>4, <2>5
<1> HIDE DEF S
<1>3. \A i \in 0 .. Len(q) : i \in S
  BY <1>0, <1>1, <1>2, Climb
<1>4. Len(q) \in S
  BY <1>0, <1>3
<1> QED BY <1>4 DEF S

LEMMA BatchGrows ==
    ASSUME NEW d, NEW q, NEW n, NEW D, Transacted(d, q, n, D), NEW m \in 0 .. Len(q)
    PROVE  Grown(D[m], D[Len(q)])
<1>d. n \in Nat /\ Todo(q, n) /\ Steps(3, d, q, TRUE, D) /\ DbType(d) /\ Below(d, n)
  BY DEF Transacted
<1> USE <1>d
<1> DEFINE S == {i \in 0 .. Len(q) : i >= m => Grown(D[m], D[i])}
<1>0. Len(q) \in Nat
  BY TodoLength
<1>b. 3 \in 1 .. 3
  OBVIOUS
<1>c. \A i \in 0 .. Len(q) : DbType(D[i])
  BY <1>b, BatchType, Zenon
<1>a. Grown(D[m], D[m])
  BY DEF Grown
<1>1. 0 \in S
  BY <1>0, <1>a
<1>2. ASSUME NEW i \in 1 .. Len(q), i - 1 \in S PROVE i \in S
  <2>0. i - 1 \in 0 .. Len(q) /\ i \in 0 .. Len(q)
    BY <1>0
  <2>1. DbType(D[i - 1]) /\ DbType(D[i]) /\ DbType(D[m])
    BY <1>c, <2>0
  <2>2. Applied(3, D[i - 1], q[i], D[i]) /\ Planned(q[i]) /\ validate_change_on(D[i - 1], q[i])
    BY <2>1, StepApplied
  <2>3. Grown(D[i - 1], D[i])
    BY <2>1, <2>2, ChangeGrows
  <2>4. CASE i - 1 >= m
    <3>1. Grown(D[m], D[i])
      BY <1>2, <2>1, <2>3, <2>4, GrownTwice
    <3> QED BY <2>0, <3>1
  <2>5. CASE i = m
    BY <1>a, <2>0, <2>5
  <2>6. CASE i < m
    BY <2>0, <2>6
  <2> QED BY <2>0, <2>4, <2>5, <2>6
<1> HIDE DEF S
<1>3. \A i \in 0 .. Len(q) : i \in S
  BY <1>0, <1>1, <1>2, Climb
<1>4. Len(q) \in S
  BY <1>0, <1>3
<1> QED BY <1>0, <1>4 DEF S

\* What was not there before a batch was registered by it.
LEMMA BatchRegisters ==
    ASSUME NEW d, NEW q, NEW n, NEW D, Transacted(d, q, n, D),
           NEW t \in {"device", "root"}, NEW x \in DOMAIN D[Len(q)][t], x \notin DOMAIN d[t]
    PROVE  \E i \in 1 .. Len(q) : q[i].t = t /\ q[i].a = "register" /\ q[i].id = x
<1>d. n \in Nat /\ Todo(q, n) /\ Steps(3, d, q, TRUE, D) /\ DbType(d) /\ Below(d, n)
  BY DEF Transacted
<1> USE <1>d
<1> DEFINE New == \E i \in 1 .. Len(q) : q[i].t = t /\ q[i].a = "register" /\ q[i].id = x
           S == {i \in 0 .. Len(q) : x \in DOMAIN D[i][t] => New}
<1>0. Len(q) \in Nat
  BY TodoLength
<1>b. 3 \in 1 .. 3
  OBVIOUS
<1>c. \A i \in 0 .. Len(q) : DbType(D[i])
  BY <1>b, BatchType, Zenon
<1>1. 0 \in S
  BY <1>0 DEF Steps
<1>2. ASSUME NEW i \in 1 .. Len(q), i - 1 \in S PROVE i \in S
  <2>0. i - 1 \in 0 .. Len(q) /\ i \in 0 .. Len(q)
    BY <1>0
  <2>1. DbType(D[i - 1])
    BY <1>c, <2>0
  <2>2. Applied(3, D[i - 1], q[i], D[i]) /\ validate_change_on(D[i - 1], q[i])
    BY <2>1, StepApplied
  <2>3. t \in Tables
    BY DEF Tables
  <2>4. DOMAIN D[i][t] = DOMAIN D[i - 1][t] \cup IF t = q[i].t THEN {q[i].id} ELSE {}
    BY <2>2, <2>3, DomainsGrow
  <2>5. q[i].t = t => validate_lifecycle(D[i - 1], q[i])
    BY <2>2 DEF validate_change_on, validate_device, validate_root
  <2>6. CASE x \in DOMAIN D[i - 1][t] \/ x \notin DOMAIN D[i][t]
    BY <1>2, <2>0, <2>6
  <2>7. CASE x \notin DOMAIN D[i - 1][t] /\ x \in DOMAIN D[i][t]
    <3>1. t = q[i].t /\ x = q[i].id
      BY <2>4, <2>7
    <3>2. q[i].a = "register"
      BY <2>5, <2>7, <3>1 DEF validate_lifecycle
    <3> QED BY <2>0, <3>1, <3>2
  <2> QED BY <2>6, <2>7
<1> HIDE DEF S
<1>3. \A i \in 0 .. Len(q) : i \in S
  BY <1>0, <1>1, <1>2, Climb
<1>4. Len(q) \in S
  BY <1>0, <1>3
<1> QED BY <1>4 DEF S

\* What a batch registers stands when it ends.
LEMMA BatchKeeps ==
    ASSUME NEW d, NEW q, NEW n, NEW D, Transacted(d, q, n, D), NEW j \in 1 .. Len(q)
    PROVE  LET e == D[Len(q)] IN
           /\ q[j].t = "location" => q[j].id \in DOMAIN e.location /\ e.location[q[j].id] = q[j].row
           /\ q[j].t = "root" /\ q[j].a = "register" =>
                 q[j].id \in DOMAIN e.root /\ e.root[q[j].id].device = q[j].row.device
<1>d. n \in Nat /\ Todo(q, n) /\ Steps(3, d, q, TRUE, D) /\ DbType(d) /\ Below(d, n)
  BY DEF Transacted
<1> USE <1>d
<1>0. Len(q) \in Nat
  BY TodoLength
<1>b. 3 \in 1 .. 3
  OBVIOUS
<1>c. \A i \in 0 .. Len(q) : DbType(D[i])
  BY <1>b, BatchType, Zenon
<1>1. j - 1 \in 0 .. Len(q) /\ j \in 0 .. Len(q)
  BY <1>0
<1>2. DbType(D[j - 1])
  BY <1>1, <1>c
<1>3. /\ Applied(3, D[j - 1], q[j], D[j]) /\ Planned(q[j])
      /\ validate_change_on(D[j - 1], q[j])
  BY <1>2, StepApplied
<1>4. Grown(D[j], D[Len(q)])
  BY <1>1, BatchGrows
<1>5. ASSUME q[j].t = "location"
      PROVE  /\ q[j].id \in DOMAIN D[Len(q)].location
             /\ D[Len(q)].location[q[j].id] = q[j].row
  <2>1. IsPut(D[j - 1].location, D[j].location, q[j].id, q[j].row)
    BY <1>3, <1>5, PlainAfter DEF Plain
  <2>2. q[j].id \in DOMAIN D[j].location /\ D[j].location[q[j].id] = q[j].row
    BY <2>1 DEF IsPut
  <2> QED BY <1>4, <2>2 DEF Grown
<1>6. ASSUME q[j].t = "root", q[j].a = "register"
      PROVE  /\ q[j].id \in DOMAIN D[Len(q)].root
             /\ D[Len(q)].root[q[j].id].device = q[j].row.device
  <2>1. IsPut(D[j - 1].root, D[j].root, q[j].id, RootKept(3, D[j - 1], q[j]))
    BY <1>3, <1>6, ApplyRoot
  <2>2. validate_root(D[j - 1], q[j])
    BY <1>3, <1>6 DEF validate_change_on
  <2>3. q[j].id \notin DOMAIN D[j - 1].root
    BY <1>6, <2>2 DEF validate_root, validate_lifecycle
  <2>4. q[j].id \in DOMAIN D[j].root /\ D[j].root[q[j].id] = q[j].row
    BY <2>1, <2>3 DEF IsPut, RootKept
  <2> QED BY <1>4, <2>4 DEF Grown
<1> QED BY <1>5, <1>6

LEMMA BatchWhole ==
    ASSUME NEW d, NEW q, NEW n, NEW D, Transacted(d, q, n, D), WholeDb(d), WholePlan(q)
    PROVE  WholeDb(D[Len(q)])
<1>d. n \in Nat /\ Todo(q, n) /\ Steps(3, d, q, TRUE, D) /\ DbType(d) /\ Below(d, n)
  BY DEF Transacted
<1> USE <1>d
<1> DEFINE e == D[Len(q)]
<1>0. Len(q) \in Nat /\ 0 \in 0 .. Len(q) /\ D[0] = d
  BY TodoLength DEF Steps
<1>1. Grown(D[0], e)
  BY <1>0, BatchGrows
<1>2. Grown(d, e)
  BY <1>0, <1>1
<1>3. ASSUME NEW j \in 1 .. Len(q)
      PROVE  /\ q[j].t = "location" => q[j].id \in DOMAIN e.location /\ e.location[q[j].id] = q[j].row
             /\ q[j].t = "root" /\ q[j].a = "register" =>
                   q[j].id \in DOMAIN e.root /\ e.root[q[j].id].device = q[j].row.device
  BY BatchKeeps
<1>4. ASSUME NEW t \in {"device", "root"}, NEW x \in DOMAIN e[t], x \notin DOMAIN d[t]
      PROVE  \E i \in 1 .. Len(q) : q[i].t = t /\ q[i].a = "register" /\ q[i].id = x
  BY <1>4, BatchRegisters
<1> HIDE DEF e
<1>5. ASSUME NEW r \in DOMAIN e.root PROVE \E l \in DOMAIN e.location : e.location[l].root = r
  <2>1. CASE r \in DOMAIN d.root
    <3>1. PICK l \in DOMAIN d.location : d.location[l].root = r
      BY <2>1 DEF WholeDb
    <3>2. l \in DOMAIN e.location /\ e.location[l].root = r
      BY <1>2, <3>1 DEF Grown
    <3> QED BY <3>2
  <2>2. CASE r \notin DOMAIN d.root
    <3>1. PICK i \in 1 .. Len(q) : q[i].t = "root" /\ q[i].a = "register" /\ q[i].id = r
      BY <1>4, <2>2
    <3>2. PICK j \in 1 .. Len(q) : q[j].t = "location" /\ q[j].row.root = r
      BY <3>1 DEF WholePlan
    <3>3. q[j].id \in DOMAIN e.location /\ e.location[q[j].id].root = r
      BY <1>3, <3>2
    <3> QED BY <3>3
  <2> QED BY <2>1, <2>2
<1>6. ASSUME NEW i \in DOMAIN e.device, i > 2 PROVE \E r \in DOMAIN e.root : e.root[r].device = i
  <2>1. CASE i \in DOMAIN d.device
    <3>1. PICK r \in DOMAIN d.root : d.root[r].device = i
      BY <1>6, <2>1 DEF WholeDb
    <3>2. r \in DOMAIN e.root /\ e.root[r].device = i
      BY <1>2, <3>1 DEF Grown
    <3> QED BY <3>2
  <2>2. CASE i \notin DOMAIN d.device
    <3>1. PICK x \in 1 .. Len(q) : q[x].t = "device" /\ q[x].a = "register" /\ q[x].id = i
      BY <1>4, <2>2
    <3>2. PICK j \in 1 .. Len(q) : q[j].t = "root" /\ q[j].a = "register" /\ q[j].row.device = i
      BY <3>1 DEF WholePlan
    <3>3. q[j].id \in DOMAIN e.root /\ e.root[q[j].id].device = i
      BY <1>3, <3>2
    <3> QED BY <3>3
  <2> QED BY <2>1, <2>2
<1> QED BY <1>5, <1>6 DEF WholeDb, e

-----------------------------------------------------------------------------
(* What the commands plan.                                                 *)

\* A plan made from d with the id n - 1 for what it registers.
GoodPlan(q, d, n) == Todo(q, n) /\ q # <<>> /\ WholePlan(q) /\ Undisturbed(q, d)

\* A plan of one change that registers nothing a Device or a root depends on.
LEMMA SinglePlan ==
    ASSUME NEW c, NEW d, NEW n, c \in Changes, Planned(c), ChangeBelow(c, n),
           c.t \in {"device", "root"} => c.a # "register", c.t # "location",
           c.t = "device" /\ c.a \in {"update", "retire"} => Current(d, c)
    PROVE  GoodPlan(<<c>>, d, n)
<1>1. <<c>> \in Seq(Changes) /\ Len(<<c>>) = 1 /\ <<c>>[1] = c /\ <<c>> # <<>>
  OBVIOUS
<1>2. \A i \in 1 .. Len(<<c>>) : i = 1
  BY <1>1
<1>3. Todo(<<c>>, n)
  BY <1>1, <1>2 DEF Todo
<1>4. WholePlan(<<c>>)
  BY <1>1, <1>2 DEF WholePlan
<1>5. Undisturbed(<<c>>, d)
  BY <1>1, <1>2 DEF Undisturbed
<1> QED BY <1>1, <1>3, <1>4, <1>5 DEF GoodPlan

LEMMA ChangeIs ==
    ASSUME NEW t, NEW a, NEW i, NEW r
    PROVE  LET c == Change(t, a, i, r) IN
           /\ c.t = t /\ c.a = a /\ c.id = i /\ c.row = r
           /\ t \in Kinds /\ a \in Actions /\ i \in Nat /\ r \in AnyRow => c \in Changes
BY DEF Change, Changes

LEMMA RowsAny ==
    ASSUME NEW t \in Kinds
    PROVE  RowsOf(t) \subseteq AnyRow
BY DEF Kinds, Tables, RowsOf, AnyRow

LEMMA OneChange ==
    ASSUME NEW t \in Kinds, NEW a \in Actions, NEW i \in Nat, NEW r \in RowsOf(t), NEW d, NEW n,
           t # "location", t = "device" => a \in {"update", "move", "retire"},
           t = "root" => a \in {"update", "retire"} /\ r.device < n,
           t = "policy" => a \in {"register", "update", "retire"},
           t \in {"device", "root"} => i < n,
           t = "device" /\ a \in {"update", "retire"} =>
               i \in DOMAIN d.device /\ r.site = d.device[i].site
    PROVE  GoodPlan(<<Change(t, a, i, r)>>, d, n)
<1> DEFINE c == Change(t, a, i, r)
<1>1. c \in Changes /\ c.t = t /\ c.a = a /\ c.id = i /\ c.row = r
  BY ChangeIs, RowsAny
<1> HIDE DEF c
<1>2. Planned(c) /\ ChangeBelow(c, n)
  BY <1>1 DEF Planned, ChangeBelow
<1>3. c.t = "device" /\ c.a \in {"update", "retire"} => Current(d, c)
  BY <1>1 DEF Current
<1>4. GoodPlan(<<c>>, d, n)
  BY <1>1, <1>2, <1>3, SinglePlan
<1> QED BY <1>4 DEF c

\* What is known of a row that a command reads.
LEMMA ReadRow ==
    ASSUME NEW d, DbType(d), NEW n \in Nat, Below(d, n), NEW t \in Tables, NEW i \in DOMAIN d[t]
    PROVE  /\ i \in Nat /\ d[t][i] \in RowsOf(t)
           /\ t \in {"device", "root"} => i < n + 1
           /\ t = "root" => d[t][i].device < n + 1
<1>1. i \in Nat /\ d[t][i] \in RowsOf(t)
  BY DEF DbType
<1>2. t \in {"device", "root"} => i < n
  BY DEF Below
<1>3. t = "root" => d[t][i].device < n /\ d[t][i].device \in Nat
  BY <1>1 DEF Below, RowsOf, RootRows
<1> QED BY <1>1, <1>2, <1>3

LEMMA RenamePlan ==
    ASSUME NEW d, DbType(d), NEW n \in Nat, Below(d, n),
           NEW t \in {"site", "collection", "device"}, NEW i \in DOMAIN d[t], NEW x \in Names,
           NEW q \in rename_change(d, t, i, x)
    PROVE  GoodPlan(q, d, n + 1)
<1> DEFINE r == With(Row(d, t, i), "name", x)
<1>1. t \in Tables /\ t \in Kinds /\ "update" \in Actions
  BY DEF Tables, Kinds, Actions
<1>2. i \in Nat /\ d[t][i] \in RowsOf(t) /\ (t = "device" => i < n + 1)
  BY <1>1, ReadRow
<1>3. r \in RowsOf(t) /\ (t = "device" => r.site = d[t][i].site)
  BY <1>2 DEF With, Row, RowsOf, SiteRows, CollectionRows, DeviceRows, Labels
<1>4. q = <<Change(t, "update", i, r)>>
  BY DEF rename_change
<1> HIDE DEF r
<1>5. GoodPlan(<<Change(t, "update", i, r)>>, d, n + 1)
  BY <1>1, <1>2, <1>3, OneChange
<1> QED BY <1>4, <1>5

LEMMA MovePlan ==
    ASSUME NEW d, DbType(d), NEW n \in Nat, Below(d, n),
           NEW i \in DOMAIN d.device, NEW s \in DOMAIN d.site, NEW q \in move_change(d, i, s)
    PROVE  GoodPlan(q, d, n + 1)
<1> DEFINE r == With(Row(d, "device", i), "site", s)
<1>1. /\ "device" \in Tables /\ "site" \in Tables /\ "device" \in Kinds /\ "move" \in Actions
  BY DEF Tables, Kinds, Actions
<1>2. i \in Nat /\ d.device[i] \in RowsOf("device") /\ i < n + 1 /\ s \in Nat
  BY <1>1, ReadRow
<1>3. r \in RowsOf("device")
  BY <1>2 DEF With, Row, RowsOf, DeviceRows
<1>4. q = <<Change("device", "move", i, r)>>
  BY DEF move_change
<1> HIDE DEF r
<1>5. GoodPlan(<<Change("device", "move", i, r)>>, d, n + 1)
  BY <1>1, <1>2, <1>3, OneChange
<1> QED BY <1>4, <1>5

LEMMA StatusPlan ==
    ASSUME NEW d, DbType(d), NEW n \in Nat, Below(d, n),
           NEW t \in {"site", "device", "root", "policy"}, NEW i \in DOMAIN d[t],
           NEW q \in retire_change(d, t, i) \cup update_change(d, t, i)
    PROVE  GoodPlan(q, d, n + 1)
<1>1. t \in Tables /\ t \in Kinds /\ "update" \in Actions /\ "retire" \in Actions
  BY DEF Tables, Kinds, Actions
<1>2. /\ i \in Nat /\ d[t][i] \in RowsOf(t) /\ (t \in {"device", "root"} => i < n + 1)
      /\ t = "root" => d[t][i].device < n + 1
  BY <1>1, ReadRow
<1>3. PICK a \in {"update", "retire"}, s \in Standings :
        q = <<Change(t, a, i, With(Row(d, t, i), "status", s))>>
  BY DEF retire_change, update_change, Standings
<1> DEFINE r == With(Row(d, t, i), "status", s)
<1>4. r \in RowsOf(t) /\ (t = "device" => r.site = d[t][i].site)
      /\ (t = "root" => r.device = d[t][i].device)
  <2>1. CASE t = "site"
    BY <1>2, <2>1 DEF With, Row, RowsOf, SiteRows
  <2>2. CASE t = "device"
    BY <1>2, <2>2 DEF With, Row, RowsOf, DeviceRows
  <2>3. CASE t = "root"
    BY <1>2, <2>3 DEF With, Row, RowsOf, RootRows
  <2>4. CASE t = "policy"
    BY <1>2, <2>4 DEF With, Row, RowsOf, PolicyRows
  <2> QED BY <2>1, <2>2, <2>3, <2>4
<1> HIDE DEF r
<1>5. GoodPlan(<<Change(t, a, i, r)>>, d, n + 1)
  BY <1>1, <1>2, <1>4, OneChange
<1> QED BY <1>3, <1>5 DEF r

LEMMA PolicyPlan ==
    ASSUME NEW f, NEW d, DbType(d), NEW n \in Nat, Below(d, n),
           NEW i \in DOMAIN d.policy, NEW v \in 1 .. 2, NEW q \in policy_update(f, d, i, v)
    PROVE  GoodPlan(q, d, n + 1) /\ BasisOK(q, <<d.policy[i]>>, d)
<1> DEFINE r == [Row(d, "policy", i) EXCEPT !.version = @ + 1, !.req = v]
<1>1. "policy" \in Tables /\ "policy" \in Kinds /\ "update" \in Actions
  BY DEF Tables, Kinds, Actions
<1>2. i \in Nat /\ d.policy[i] \in PolicyRows
  BY <1>1, ReadRow DEF RowsOf
<1>3. r \in PolicyRows /\ r.version = d.policy[i].version + 1
  <2> DEFINE b == d.policy[i]
  <2>1. r = [b EXCEPT !.version = b.version + 1, !.req = v]
    BY DEF Row
  <2>2. b \in PolicyRows /\ b.version + 1 \in Nat /\ v \in Nat
    BY <1>2 DEF PolicyRows
  <2> HIDE DEF b, r
  <2>3. r \in PolicyRows /\ r.version = b.version + 1
    BY <2>1, <2>2 DEF PolicyRows
  <2> QED BY <2>3 DEF b
<1>4. q = <<Change("policy", "update", i, r)>>
  BY DEF policy_update
<1> HIDE DEF r
<1>5. GoodPlan(<<Change("policy", "update", i, r)>>, d, n + 1)
  BY <1>1, <1>2, <1>3, OneChange DEF RowsOf
<1>6. BasisOK(q, <<d.policy[i]>>, d)
  <2>1. Len(q) = 1 /\ q[1] = Change("policy", "update", i, r)
    BY <1>4
  <2>2. q[1].t = "policy" /\ q[1].a = "update" /\ q[1].id = i /\ q[1].row = r
    BY <2>1, ChangeIs
  <2>3. <<d.policy[i]>>[1] = d.policy[i]
    OBVIOUS
  <2> QED BY <1>2, <1>3, <2>1, <2>2, <2>3 DEF BasisOK
<1> QED BY <1>4, <1>5, <1>6

LEMMA AddPlan ==
    ASSUME NEW d, NEW n \in Nat, NEW x \in Names \cup {"risk"}, NEW t \in {"site", "risk"}
    PROVE  GoodPlan(<<Change(t, "register", n, SiteRow(x))>>, d, n + 1)
<1>1. t \in Kinds /\ "register" \in Actions /\ t \notin {"device", "root", "location", "policy"}
  BY DEF Tables, Kinds, Actions
<1>2. SiteRow(x) \in RowsOf(t)
  BY DEF SiteRow, RowsOf, SiteRows, Labels, Standings
<1> QED BY <1>1, <1>2, OneChange

LEMMA AssignPlan ==
    ASSUME NEW d, DbType(d), NEW n \in Nat, Below(d, n), NEW i \in DOMAIN d.risk,
           NEW a \in {"assign", "unassign"}, NEW t \in {"site", "device"}, NEW x \in DOMAIN d[t]
    PROVE  GoodPlan(<<Change("assignment", a, i, <<t, x>>)>>, d, n + 1)
<1>1. "assignment" \in Kinds /\ a \in Actions /\ t \in Tables /\ "risk" \in Tables
  BY DEF Tables, Kinds, Actions
<1>2. i \in Nat /\ x \in Nat
  BY <1>1, ReadRow
<1>3. <<t, x>> \in RowsOf("assignment")
  BY <1>2 DEF RowsOf, AssignmentRows
<1> QED BY <1>1, <1>2, <1>3, OneChange

LEMMA CheckInPlan ==
    ASSUME NEW d, DbType(d), NEW n \in Nat, Below(d, n), NEW i \in DOMAIN d.device,
           NEW s \in {"match", "unavailable", "mismatch"}
    PROVE  GoodPlan(<<Change("checkin", "add", i, [seen |-> s])>>, d, n + 1)
<1>1. "checkin" \in Kinds /\ "add" \in Actions /\ "device" \in Tables
  BY DEF Tables, Kinds, Actions
<1>2. i \in Nat
  BY <1>1, ReadRow
<1>3. [seen |-> s] \in RowsOf("checkin")
  BY DEF RowsOf, SeenRows
<1> QED BY <1>1, <1>2, <1>3, OneChange

LEMMA MountPlan ==
    ASSUME NEW d, NEW n \in Nat, NEW x \in Nat, NEW i \in Nat, NEW r \in Int,
           NEW s \in {"match", "unavailable", "mismatch"}
    PROVE  GoodPlan(<<mount_change(x, i, r, s)>>, d, n + 1)
<1>1. "mount" \in Kinds /\ "add" \in Actions
  BY DEF Kinds, Actions
<1>2. [device |-> i, root |-> r, seen |-> s] \in RowsOf("mount")
  BY DEF RowsOf, MountRows
<1>3. GoodPlan(<<Change("mount", "add", x, [device |-> i, root |-> r, seen |-> s])>>, d, n + 1)
  BY <1>1, <1>2, OneChange
<1> QED BY <1>3 DEF mount_change

LEMMA IdentityPlan ==
    ASSUME NEW d, DbType(d), NEW n \in Nat, Below(d, n), NEW i \in DOMAIN d.device,
           NEW to \in Prints \cup {"unavailable", "conflict"}, NEW q \in device_identity(d, i, to)
    PROVE  GoodPlan(q, d, n + 1)
<1>1. /\ "device" \in Tables /\ {"device", "checkin"} \subseteq Kinds
      /\ {"update", "add"} \subseteq Actions
  BY DEF Tables, Kinds, Actions
<1>2. i \in Nat /\ d.device[i] \in DeviceRows /\ i < n + 1
  BY <1>1, ReadRow DEF RowsOf
<1>3. PICK id \in Identities, x \in Marks, s \in {"match", "unavailable", "mismatch"} :
        q = <<Change("device", "update", i,
                [Row(d, "device", i) EXCEPT !.identity = id, !.print = x])>>
            \o <<Change("checkin", "add", i, [seen |-> s])>>
  <2> DEFINE P(id, x, s) ==
               {<<Change("device", "update", i, [Row(d, "device", i) EXCEPT !.identity = id, !.print = x])>>
                 \o e : e \in check_in_change(i, s)}
  <2>1. \/ q \in P("unavailable", NoPrint, "unavailable")
        \/ q \in P("conflict", d.device[i].print, "mismatch")
        \/ q \in P("confirmed", to, "match") /\ to \in Prints
    BY DEF device_identity, Row
  <2>2. d.device[i].print \in Marks /\ NoPrint \in Marks /\ Prints \subseteq Marks
    BY <1>2 DEF DeviceRows, Marks
  <2>3. \A id, x, s : P(id, x, s) =
          {<<Change("device", "update", i, [Row(d, "device", i) EXCEPT !.identity = id, !.print = x])>>
             \o <<Change("checkin", "add", i, [seen |-> s])>>}
    BY DEF check_in_change
  <2> HIDE DEF P
  <2> QED BY <2>1, <2>2, <2>3 DEF Identities
<1> DEFINE r == [Row(d, "device", i) EXCEPT !.identity = id, !.print = x]
           a == Change("device", "update", i, r)
           b == Change("checkin", "add", i, [seen |-> s])
<1>4. r \in DeviceRows /\ r.site = d.device[i].site
  BY <1>2 DEF Row, DeviceRows
<1>5. [seen |-> s] \in SeenRows
  BY DEF SeenRows
<1> HIDE DEF r
<1>6. a \in Changes /\ a.t = "device" /\ a.a = "update" /\ a.id = i /\ a.row = r
  BY <1>1, <1>2, <1>4, ChangeIs, RowsAny DEF RowsOf
<1>7. b \in Changes /\ b.t = "checkin" /\ b.a = "add" /\ b.row = [seen |-> s]
  BY <1>1, <1>2, <1>5, ChangeIs, RowsAny DEF RowsOf
<1>8. q = <<a>> \o <<b>>
  BY <1>3 DEF r
<1> HIDE DEF a, b
<1>9. q \in Seq(Changes) /\ Len(q) = 2 /\ q[1] = a /\ q[2] = b /\ q # <<>>
  BY <1>6, <1>7, <1>8
<1>10. \A j \in 1 .. Len(q) : j = 1 \/ j = 2
  BY <1>9
<1>11. Planned(a) /\ Planned(b) /\ ChangeBelow(a, n + 1) /\ ChangeBelow(b, n + 1)
  BY <1>2, <1>4, <1>5, <1>6, <1>7 DEF Planned, ChangeBelow, RowsOf
<1>12. Todo(q, n + 1)
  BY <1>9, <1>10, <1>11 DEF Todo
<1>13. WholePlan(q)
  BY <1>6, <1>7, <1>9, <1>10 DEF WholePlan
<1>14. Current(d, a)
  BY <1>4, <1>6 DEF Current
<1>15. Undisturbed(q, d)
  BY <1>6, <1>7, <1>9, <1>10, <1>14 DEF Undisturbed
<1> QED BY <1>9, <1>12, <1>13, <1>15 DEF GoodPlan

\* The parts of the plan of a setup: every change registers something or
\* records a mount.
Part(q, n) ==
    /\ Todo(q, n)
    /\ \A i \in 1 .. Len(q) :
          q[i].a \in {"register", "add"} /\ (q[i].t \in {"device", "root"} => q[i].id = n - 1)

NoPlace(q) == \A i \in 1 .. Len(q) : q[i].t # "location"

LEMMA Joined ==
    ASSUME NEW a, NEW b, NEW n, Part(a, n), Part(b, n)
    PROVE  /\ Part(a \o b, n)
           /\ Len(a) \in Nat /\ Len(b) \in Nat /\ Len(a \o b) = Len(a) + Len(b)
           /\ \A i \in 1 .. Len(a) : i \in 1 .. Len(a \o b) /\ (a \o b)[i] = a[i]
           /\ \A i \in 1 .. Len(b) : Len(a) + i \in 1 .. Len(a \o b) /\ (a \o b)[Len(a) + i] = b[i]
           /\ \A i \in 1 .. Len(a \o b) :
                 \/ i \in 1 .. Len(a) /\ (a \o b)[i] = a[i]
                 \/ i - Len(a) \in 1 .. Len(b) /\ (a \o b)[i] = b[i - Len(a)]
<1>1. a \in Seq(Changes) /\ b \in Seq(Changes)
  BY DEF Part, Todo
<1>2. /\ Len(a) \in Nat /\ Len(b) \in Nat /\ Len(a \o b) = Len(a) + Len(b)
      /\ a \o b \in Seq(Changes)
  BY <1>1
<1>3. \A i \in 1 .. Len(a) : i \in 1 .. Len(a \o b) /\ (a \o b)[i] = a[i]
  BY <1>1, <1>2
<1>4. \A i \in 1 .. Len(b) : Len(a) + i \in 1 .. Len(a \o b) /\ (a \o b)[Len(a) + i] = b[i]
  BY <1>1, <1>2
<1>5. \A i \in 1 .. Len(a \o b) :
         \/ i \in 1 .. Len(a) /\ (a \o b)[i] = a[i]
         \/ i - Len(a) \in 1 .. Len(b) /\ (a \o b)[i] = b[i - Len(a)]
  BY <1>1, <1>2
<1>6. Part(a \o b, n)
  <2>1. \A i \in 1 .. Len(a) : Planned(a[i]) /\ ChangeBelow(a[i], n)
    BY DEF Part, Todo
  <2>2. \A i \in 1 .. Len(b) : Planned(b[i]) /\ ChangeBelow(b[i], n)
    BY DEF Part, Todo
  <2>3. \A i \in 1 .. Len(a \o b) : Planned((a \o b)[i]) /\ ChangeBelow((a \o b)[i], n)
    BY <1>5, <2>1, <2>2
  <2>4. \A i \in 1 .. Len(a \o b) :
          /\ (a \o b)[i].a \in {"register", "add"}
          /\ (a \o b)[i].t \in {"device", "root"} => (a \o b)[i].id = n - 1
    BY <1>5 DEF Part
  <2> QED BY <1>2, <2>3, <2>4 DEF Part, Todo
<1> QED BY <1>2, <1>3, <1>4, <1>5, <1>6

LEMMA NoPart ==
    ASSUME NEW n
    PROVE  Part(<<>>, n) /\ NoPlace(<<>>)
<1>1. <<>> \in Seq(Changes) /\ Len(<<>>) = 0
  OBVIOUS
<1>2. 1 .. 0 = {}
  OBVIOUS
<1> QED BY <1>1, <1>2 DEF Part, NoPlace, Todo

LEMMA OnePart ==
    ASSUME NEW t \in Kinds, NEW a \in {"register", "add"}, NEW i \in Nat, NEW r \in RowsOf(t),
           NEW n \in Nat, t \in {"device", "root", "policy", "location"} => a = "register",
           t \in {"device", "root"} => i = n, t = "root" => r.device <= n,
           t = "location" => r.root <= n
    PROVE  LET q == <<Change(t, a, i, r)>> IN
           /\ Part(q, n + 1) /\ Len(q) = 1 /\ 1 \in 1 .. Len(q)
           /\ q[1].t = t /\ q[1].a = a /\ q[1].id = i /\ q[1].row = r
           /\ t # "location" => NoPlace(q)
<1> DEFINE c == Change(t, a, i, r)
           q == <<c>>
<1>0. a \in Actions
  BY DEF Actions
<1>1. c \in Changes /\ c.t = t /\ c.a = a /\ c.id = i /\ c.row = r
  BY <1>0, ChangeIs, RowsAny
<1>a. t = "root" => r.device \in Nat
  BY DEF RowsOf, RootRows
<1>b. t = "location" => r.root \in Nat
  BY DEF RowsOf, LocationRows
<1> HIDE DEF c
<1>2. Planned(c) /\ ChangeBelow(c, n + 1)
  BY <1>1, <1>a, <1>b DEF Planned, ChangeBelow
<1>3. q \in Seq(Changes) /\ Len(q) = 1 /\ q[1] = c
  BY <1>1
<1> HIDE DEF q
<1>4. \A j \in 1 .. Len(q) : j = 1
  BY <1>3
<1>5. Part(q, n + 1)
  BY <1>1, <1>2, <1>3, <1>4 DEF Part, Todo
<1>6. t # "location" => NoPlace(q)
  BY <1>1, <1>3, <1>4 DEF NoPlace
<1>7. 1 \in 1 .. Len(q)
  BY <1>3
<1> QED BY <1>1, <1>3, <1>5, <1>6, <1>7 DEF q, c

\* A plan so far: nothing in it depends on what other commands do.
Laid(q, d, n) == Part(q, n) /\ WholePlan(q) /\ Undisturbed(q, d)

Aside(q) == \A i \in 1 .. Len(q) : q[i].t \notin {"device", "root", "location"}

LEMMA LaidMore ==
    ASSUME NEW q, NEW d, NEW n, Laid(q, d, n), NEW r, Part(r, n), Aside(r)
    PROVE  Laid(q \o r, d, n)
<1> DEFINE s == q \o r
<1>0. Part(q, n)
  BY DEF Laid
<1>1. /\ Part(s, n)
      /\ Len(q) \in Nat /\ \A i \in 1 .. Len(q) : i \in 1 .. Len(s) /\ s[i] = q[i]
      /\ \A i \in 1 .. Len(s) :
            \/ i \in 1 .. Len(q) /\ s[i] = q[i]
            \/ i - Len(q) \in 1 .. Len(r) /\ s[i] = r[i - Len(q)]
  BY <1>0, Joined
<1> HIDE DEF s
<1>2. \A i \in 1 .. Len(s) : s[i].t \in {"device", "root", "location"} =>
        i \in 1 .. Len(q) /\ s[i] = q[i]
  BY <1>1 DEF Aside
<1>3. WholePlan(s)
  <2> SUFFICES ASSUME NEW i \in 1 .. Len(s), s[i].a = "register"
               PROVE  /\ s[i].t = "device" => \E j \in 1 .. Len(s) :
                            s[j].t = "root" /\ s[j].a = "register" /\ s[j].row.device = s[i].id
                      /\ s[i].t = "root" => \E j \in 1 .. Len(s) :
                            s[j].t = "location" /\ s[j].row.root = s[i].id
    BY DEF WholePlan
  <2>1. ASSUME s[i].t = "device"
        PROVE  \E j \in 1 .. Len(s) :
                  s[j].t = "root" /\ s[j].a = "register" /\ s[j].row.device = s[i].id
    <3>1. i \in 1 .. Len(q) /\ s[i] = q[i]
      BY <1>2, <2>1
    <3>2. PICK j \in 1 .. Len(q) : q[j].t = "root" /\ q[j].a = "register" /\ q[j].row.device = q[i].id
      BY <2>1, <3>1 DEF Laid, WholePlan
    <3> QED BY <1>1, <3>1, <3>2
  <2>2. ASSUME s[i].t = "root"
        PROVE  \E j \in 1 .. Len(s) : s[j].t = "location" /\ s[j].row.root = s[i].id
    <3>1. i \in 1 .. Len(q) /\ s[i] = q[i]
      BY <1>2, <2>2
    <3>2. PICK j \in 1 .. Len(q) : q[j].t = "location" /\ q[j].row.root = q[i].id
      BY <2>2, <3>1 DEF Laid, WholePlan
    <3> QED BY <1>1, <3>1, <3>2
  <2> QED BY <2>1, <2>2
<1>4. Undisturbed(s, d)
  <2>1. \A i \in 1 .. Len(s) : s[i].a \notin {"update", "retire"}
    BY <1>1 DEF Part
  <2>2. \A i \in 1 .. Len(s) : s[i].t = "location" => NewPlace(d, s[i])
    BY <1>2 DEF Laid, Undisturbed
  <2>3. \A i, j \in 1 .. Len(s) : s[i].t = "location" /\ s[j].t = "location" => i = j
    BY <1>2 DEF Laid, Undisturbed
  <2> QED BY <2>1, <2>2, <2>3 DEF Undisturbed
<1> QED BY <1>1, <1>3, <1>4 DEF Laid, s

\* Where a setup puts the files, and the Location it makes of the place.
PlaceOK(w, n) ==
    /\ w.site \in Nat /\ w.dev \in Nat /\ w.root \in Nat /\ w.root <= n
    /\ Part(w.todo, n + 1) /\ NoPlace(w.todo)
    /\ \A i \in 1 .. Len(w.todo) : w.todo[i].t = "device" =>
          \E j \in 1 .. Len(w.todo) :
             w.todo[j].t = "root" /\ w.todo[j].a = "register" /\ w.todo[j].row.device = w.todo[i].id
    /\ \A i \in 1 .. Len(w.todo) : w.todo[i].t = "root" => w.root = n

LocOK(l, w, d, n) ==
    /\ Part(l, n + 1)
    /\ \/ Len(l) = 0 /\ w.root < n
       \/ Len(l) = 1 /\ l[1].t = "location" /\ l[1].row.root = w.root /\ NewPlace(d, l[1])

LEMMA LaidFirst ==
    ASSUME NEW w, NEW l, NEW d, NEW n \in Nat, PlaceOK(w, n), LocOK(l, w, d, n)
    PROVE  Laid(w.todo \o l, d, n + 1)
<1> DEFINE q == w.todo
           s == q \o l
<1>0. Part(q, n + 1) /\ Part(l, n + 1)
  BY DEF PlaceOK, LocOK
<1>1. /\ Part(s, n + 1) /\ Len(q) \in Nat /\ Len(l) \in Nat
      /\ \A i \in 1 .. Len(q) : i \in 1 .. Len(s) /\ s[i] = q[i]
      /\ \A i \in 1 .. Len(l) : Len(q) + i \in 1 .. Len(s) /\ s[Len(q) + i] = l[i]
      /\ \A i \in 1 .. Len(s) :
            \/ i \in 1 .. Len(q) /\ s[i] = q[i]
            \/ i - Len(q) \in 1 .. Len(l) /\ s[i] = l[i - Len(q)]
  BY <1>0, Joined
<1>2. \A i \in 1 .. Len(q) : q[i].t # "location"
  BY DEF PlaceOK, NoPlace
<1>3. \A i \in 1 .. Len(l) : i = 1 /\ Len(l) = 1 /\ l[1].t = "location"
                             /\ l[1].row.root = w.root /\ NewPlace(d, l[1])
  BY <1>1 DEF LocOK
<1>4. \A i \in 1 .. Len(q) : q[i].t = "device" =>
        \E j \in 1 .. Len(q) :
           q[j].t = "root" /\ q[j].a = "register" /\ q[j].row.device = q[i].id
  BY DEF PlaceOK
<1>5. \A i \in 1 .. Len(q) : q[i].t = "root" => q[i].id = n /\ w.root = n
  BY <1>0 DEF PlaceOK, Part
<1>6. \A i \in 1 .. Len(q) : q[i].t = "root" => 1 \in 1 .. Len(l)
  BY <1>5, <1>1 DEF LocOK
<1> HIDE DEF s, q
<1>7. \A i \in 1 .. Len(s) :
        /\ s[i].t # "location" => i \in 1 .. Len(q) /\ s[i] = q[i]
        /\ s[i].t = "location" => i = Len(q) + 1 /\ s[i] = l[1] /\ NewPlace(d, l[1])
  BY <1>1, <1>2, <1>3
<1>8. WholePlan(s)
  <2> SUFFICES ASSUME NEW i \in 1 .. Len(s), s[i].a = "register"
               PROVE  /\ s[i].t = "device" => \E j \in 1 .. Len(s) :
                            s[j].t = "root" /\ s[j].a = "register" /\ s[j].row.device = s[i].id
                      /\ s[i].t = "root" => \E j \in 1 .. Len(s) :
                            s[j].t = "location" /\ s[j].row.root = s[i].id
    BY DEF WholePlan
  <2>1. ASSUME s[i].t = "device"
        PROVE  \E j \in 1 .. Len(s) :
                  s[j].t = "root" /\ s[j].a = "register" /\ s[j].row.device = s[i].id
    <3>1. i \in 1 .. Len(q) /\ s[i] = q[i]
      BY <1>7, <2>1
    <3>2. PICK j \in 1 .. Len(q) : q[j].t = "root" /\ q[j].a = "register" /\ q[j].row.device = q[i].id
      BY <1>4, <2>1, <3>1
    <3> QED BY <1>1, <3>1, <3>2
  <2>2. ASSUME s[i].t = "root"
        PROVE  \E j \in 1 .. Len(s) : s[j].t = "location" /\ s[j].row.root = s[i].id
    <3>1. i \in 1 .. Len(q) /\ s[i] = q[i]
      BY <1>7, <2>2
    <3>2. s[i].id = n /\ w.root = n /\ 1 \in 1 .. Len(l)
      BY <1>5, <1>6, <2>2, <3>1
    <3>3. Len(q) + 1 \in 1 .. Len(s) /\ s[Len(q) + 1] = l[1]
      BY <1>1, <3>2
    <3> QED BY <1>3, <3>2, <3>3
  <2> QED BY <2>1, <2>2
<1>9. Undisturbed(s, d)
  <2>1. \A i \in 1 .. Len(s) : s[i].a \notin {"update", "retire"}
    BY <1>1 DEF Part
  <2> QED BY <1>7, <2>1 DEF Undisturbed
<1> QED BY <1>1, <1>8, <1>9 DEF Laid, s, q

LEMMA MinIn ==
    ASSUME NEW S \in SUBSET Nat, S # {}
    PROVE  Min(S) \in S
<1>1. \E x \in S : \A y \in S : x <= y
  BY LeastNumber
<1> QED BY <1>1 DEF Min

LEMMA RootOn ==
    ASSUME NEW f, NEW d, DbType(d), NEW n \in Nat, Below(d, n), NEW m \in Mounted,
           NEW site \in Nat, NEW dev \in Nat, dev <= n, NEW todo, Part(todo, n + 1), NoPlace(todo),
           \A i \in 1 .. Len(todo) : todo[i].t # "root" /\ (todo[i].t = "device" => todo[i].id = dev),
           todo = <<>> \/ dev = n, NEW w \in root_on(f, d, m, site, dev, todo, n)
    PROVE  PlaceOK(w, n)
<1> DEFINE c == Change("root", "register", n, RootRow(m, dev))
           reusable == {r \in Active(d, "root") :
                        m.fs = NoPrint /\ d.root[r].device = dev /\ d.root[r].identity = "unavailable"}
<1>1. \/ /\ reusable # {}
         /\ w = [site |-> site, dev |-> dev, root |-> Min(reusable), todo |-> todo]
      \/ w = [site |-> site, dev |-> dev, root |-> n, todo |-> Append(todo, c)]
  BY DEF root_on
<1>2. ASSUME reusable # {}, w = [site |-> site, dev |-> dev, root |-> Min(reusable), todo |-> todo]
      PROVE  PlaceOK(w, n)
  <2>1. reusable \in SUBSET DOMAIN d.root /\ reusable \in SUBSET Nat
    BY RowTypes DEF Active, Tables
  <2>2. Min(reusable) \in reusable
    BY <1>2, <2>1, MinIn
  <2> DEFINE x == Min(reusable)
  <2>3. x \in DOMAIN d.root /\ x \in Nat /\ d.root[x].device = dev
    BY <2>1, <2>2
  <2>4. x < n /\ dev < n
    BY <2>3 DEF Below
  <2>5. todo = <<>>
    BY <2>4
  <2>6. w.site = site /\ w.dev = dev /\ w.root = x /\ w.todo = <<>>
    BY <1>2, <2>5
  <2>7. 1 .. Len(w.todo) = {}
    BY <2>6
  <2>8. Part(w.todo, n + 1) /\ NoPlace(w.todo)
    BY <2>5, <2>6
  <2> HIDE DEF x
  <2> QED BY <2>3, <2>4, <2>6, <2>7, <2>8 DEF PlaceOK
<1>3. ASSUME w = [site |-> site, dev |-> dev, root |-> n, todo |-> Append(todo, c)]
      PROVE  PlaceOK(w, n)
  <2>1. "root" \in Kinds
    BY DEF Kinds, Tables
  <2>2. RootRow(m, dev) \in RowsOf("root") /\ RootRow(m, dev).device = dev
    BY DEF RootRow, RowsOf, RootRows, Labels, Marks, Standings, Identities
  <2>3. /\ Part(<<c>>, n + 1) /\ Len(<<c>>) = 1 /\ 1 \in 1 .. Len(<<c>>) /\ NoPlace(<<c>>)
        /\ <<c>>[1].t = "root" /\ <<c>>[1].a = "register" /\ <<c>>[1].id = n
        /\ <<c>>[1].row = RootRow(m, dev)
    BY <2>1, <2>2, OnePart
  <2> DEFINE s == todo \o <<c>>
  <2>4. Append(todo, c) = s
    <3>1. todo \in Seq(Changes)
      BY DEF Part, Todo
    <3> QED BY <3>1
  <2> HIDE DEF c
  <2>5. /\ Part(s, n + 1) /\ Len(todo) \in Nat
        /\ \A i \in 1 .. Len(<<c>>) : Len(todo) + i \in 1 .. Len(s) /\ s[Len(todo) + i] = <<c>>[i]
        /\ \A i \in 1 .. Len(s) :
              \/ i \in 1 .. Len(todo) /\ s[i] = todo[i]
              \/ i - Len(todo) \in 1 .. Len(<<c>>) /\ s[i] = <<c>>[i - Len(todo)]
    BY <2>3, Joined
  <2>6. \A i \in 1 .. Len(s) : s[i] = <<c>>[1] \/ (i \in 1 .. Len(todo) /\ s[i] = todo[i])
    BY <2>3, <2>5
  <2>7. Len(todo) + 1 \in 1 .. Len(s) /\ s[Len(todo) + 1] = <<c>>[1]
    BY <2>3, <2>5
  <2> HIDE DEF s
  <2>8. NoPlace(s)
    BY <2>3, <2>6 DEF NoPlace
  <2>9. \A i \in 1 .. Len(s) : s[i].t = "device" => s[i].id = dev
    BY <2>3, <2>6
  <2>10. \A i \in 1 .. Len(s) : s[i].t = "device" =>
            \E j \in 1 .. Len(s) : s[j].t = "root" /\ s[j].a = "register" /\ s[j].row.device = s[i].id
    BY <2>2, <2>3, <2>7, <2>9
  <2>11. w.site = site /\ w.dev = dev /\ w.root = n /\ w.todo = s
    BY <1>3, <2>4
  <2> QED BY <2>5, <2>8, <2>10, <2>11 DEF PlaceOK
<1> QED BY <1>1, <1>2, <1>3

LEMMA SetupPlace ==
    ASSUME NEW f, NEW d, DbType(d), NEW n \in Nat, Below(d, n), NEW m \in Mounted,
           NEW dn \in Names, NEW sn \in Names, NEW w \in setup_place(f, d, m, dn, sn, n)
    PROVE  PlaceOK(w, n)
<1> DEFINE roots == matching_roots(d, m)
           devs == Named(d, "device", dn)
<1>0. Part(<<>>, n + 1) /\ NoPlace(<<>>) /\ Len(<<>>) = 0 /\ 1 .. 0 = {}
  BY NoPart
<1>1. \/ roots # {} /\ w \in known_root(d, Min(roots), dn, sn)
      \/ devs # {} /\ w \in known_device(f, d, m, Min(devs), sn, n)
      \/ w \in new_device(f, d, m, dn, sn, n)
  BY DEF setup_place
<1>2. ASSUME roots # {}, w \in known_root(d, Min(roots), dn, sn) PROVE PlaceOK(w, n)
  <2>1. roots \in SUBSET DOMAIN d.root /\ roots \in SUBSET Nat
    BY RowTypes DEF matching_roots, Active, Tables
  <2> DEFINE r == Min(roots)
  <2>2. r \in DOMAIN d.root /\ r \in Nat
    BY <1>2, <2>1, MinIn
  <2> HIDE DEF r
  <2> DEFINE dev == d.root[r].device
  <2>3. dev \in DOMAIN d.device /\ w = [site |-> d.device[dev].site, dev |-> dev, root |-> r, todo |-> <<>>]
    BY <1>2 DEF known_root, Active, r
  <2>4. dev \in Nat /\ d.device[dev].site \in Nat
    BY <2>2, <2>3, RowTypes DEF RootRows, DeviceRows
  <2>5. r < n
    BY <2>2 DEF Below
  <2>6. w.site \in Nat /\ w.dev \in Nat /\ w.root = r /\ w.todo = <<>>
    BY <2>3, <2>4
  <2> QED BY <1>0, <2>2, <2>5, <2>6 DEF PlaceOK
<1>3. ASSUME devs # {}, w \in known_device(f, d, m, Min(devs), sn, n) PROVE PlaceOK(w, n)
  <2>1. devs \in SUBSET DOMAIN d.device /\ devs \in SUBSET Nat
    BY RowTypes DEF Named, Active, Tables
  <2> DEFINE dev == Min(devs)
             site == d.device[dev].site
  <2>2. dev \in DOMAIN d.device /\ dev \in Nat
    BY <1>3, <2>1, MinIn
  <2> HIDE DEF dev
  <2>3. dev < n /\ site \in Nat
    BY <2>2, RowTypes DEF Below, DeviceRows
  <2>4. w \in root_on(f, d, m, site, dev, <<>>, n)
    BY <1>3 DEF known_device, dev
  <2>5. \A i \in 1 .. Len(<<>>) : <<>>[i].t # "root" /\ (<<>>[i].t = "device" => <<>>[i].id = dev)
    BY <1>0
  <2> HIDE DEF site
  <2>6. dev <= n
    BY <2>2, <2>3
  <2> QED BY <1>0, <2>2, <2>3, <2>4, <2>5, <2>6, RootOn
<1>4. ASSUME w \in new_device(f, d, m, dn, sn, n) PROVE PlaceOK(w, n)
  <2> DEFINE sites == Named(d, "site", sn)
             site == IF sites = {} THEN n ELSE Min(sites)
             first == IF sites = {} THEN <<Change("site", "register", n, SiteRow(sn))>> ELSE <<>>
             c == Change("device", "register", n, DeviceRow(dn, site))
  <2>1. w \in root_on(f, d, m, site, n, Append(first, c), n)
    BY <1>4 DEF new_device
  <2>2. sites \in SUBSET Nat
    BY RowTypes DEF Named, Active, Tables
  <2>3. site \in Nat
    BY <2>2, MinIn
  <2>4. "site" \in Kinds /\ "device" \in Kinds
    BY DEF Kinds, Tables
  <2>5. SiteRow(sn) \in RowsOf("site")
    BY DEF SiteRow, RowsOf, SiteRows, Labels, Standings
  <2> HIDE DEF sites, site
  <2>6. DeviceRow(dn, site) \in RowsOf("device")
    BY <2>3 DEF DeviceRow, RowsOf, DeviceRows, Labels, Marks, Standings, Identities
  <2>7. /\ Part(<<c>>, n + 1) /\ Len(<<c>>) = 1 /\ NoPlace(<<c>>)
        /\ <<c>>[1].t = "device" /\ <<c>>[1].id = n
    <3> DEFINE r == DeviceRow(dn, site)
    <3>1. r \in RowsOf("device")
      BY <2>6
    <3> HIDE DEF r
    <3> DEFINE q == <<Change("device", "register", n, r)>>
    <3>2. /\ Part(q, n + 1) /\ Len(q) = 1 /\ NoPlace(q)
          /\ q[1].t = "device" /\ q[1].id = n
      BY <2>4, <3>1, OnePart
    <3>3. q = <<c>>
      BY DEF r
    <3> HIDE DEF q, c
    <3> QED BY <3>2, <3>3
  <2>8. /\ Part(first, n + 1) /\ NoPlace(first)
        /\ \A i \in 1 .. Len(first) : first[i].t = "site"
    <3>1. CASE sites # {}
      BY <1>0, <3>1
    <3>2. CASE sites = {}
      <4> DEFINE a == Change("site", "register", n, SiteRow(sn))
      <4>1. Part(<<a>>, n + 1) /\ Len(<<a>>) = 1 /\ NoPlace(<<a>>) /\ <<a>>[1].t = "site"
        BY <2>4, <2>5, OnePart
      <4>2. first = <<a>>
        BY <3>2
      <4> HIDE DEF a, first
      <4>3. \A i \in 1 .. Len(<<a>>) : i = 1
        BY <4>1
      <4> QED BY <4>1, <4>2, <4>3
    <3> QED BY <3>1, <3>2
  <2> HIDE DEF first, c
  <2> DEFINE s == first \o <<c>>
  <2>9. Append(first, c) = s
    <3>1. first \in Seq(Changes)
      BY <2>8 DEF Part, Todo
    <3> QED BY <3>1
  <2>10. /\ Part(s, n + 1)
         /\ \A i \in 1 .. Len(s) :
              \/ i \in 1 .. Len(first) /\ s[i] = first[i]
              \/ i - Len(first) \in 1 .. Len(<<c>>) /\ s[i] = <<c>>[i - Len(first)]
    BY <2>7, <2>8, Joined
  <2>11. \A i \in 1 .. Len(<<c>>) : i = 1
    BY <2>7
  <2> HIDE DEF s
  <2>12. \A i \in 1 .. Len(s) : s[i].t = "site" \/ (s[i].t = "device" /\ s[i].id = n)
    BY <2>7, <2>8, <2>10, <2>11
  <2>13. NoPlace(s)
    BY <2>12 DEF NoPlace
  <2>14. n <= n
    OBVIOUS
  <2>15. \A i \in 1 .. Len(s) : s[i].t # "root" /\ (s[i].t = "device" => s[i].id = n)
    BY <2>12
  <2> QED BY <2>1, <2>3, <2>9, <2>10, <2>13, <2>14, <2>15, RootOn
<1> QED BY <1>1, <1>2, <1>3, <1>4

LEMMA SetupLocation ==
    ASSUME NEW f, NEW d, DbType(d), NEW n \in Nat, Below(d, n), NEW m \in Mounted,
           NEW x \in Names, NEW dn \in Names, NEW w, PlaceOK(w, n),
           NEW l \in location_changes(f, d, w, m, x, dn, n)
    PROVE  LocOK(l, w, d, n)
<1>0. w.root \in Nat /\ w.root <= n /\ w.dev \in Nat
  BY DEF PlaceOK
<1>1. CASE location_exists(d, w, m)
  <2>1. l = <<>>
    BY <1>1 DEF location_changes
  <2>2. PICK y \in DOMAIN d.location : d.location[y].root = w.root
    BY <1>1 DEF location_exists, Active
  <2>3. w.root < n
    BY <2>2 DEF Below
  <2>4. Part(<<>>, n + 1) /\ Len(<<>>) = 0
    BY NoPart
  <2> QED BY <2>1, <2>3, <2>4 DEF LocOK
<1>2. CASE ~location_exists(d, w, m)
  <2>1. PICK y \in location_names(f, d, x, dn, m) :
          l = <<Change("location", "register", n,
                  [name |-> y, root |-> w.root, device |-> w.dev, path |-> m.path,
                   status |-> "active"])>>
    BY <1>2 DEF location_changes
  <2> DEFINE r == [name |-> y, root |-> w.root, device |-> w.dev, path |-> m.path,
                   status |-> "active"]
             q == <<Change("location", "register", n, r)>>
  <2>2. y = <<x, dn>> \/ y = <<x, dn, m.path>>
    BY DEF location_names
  <2>3. x \in Labels \cup Places /\ dn \in Labels \cup Places /\ m.path \in Labels \cup Places
        /\ m.path \in Places
    BY DEF Labels, Places
  <2>4. y \in Seq(Labels \cup Places)
    <3> DEFINE X == Labels \cup Places
    <3>1. x \in X /\ dn \in X /\ m.path \in X
      BY <2>3
    <3> HIDE DEF X
    <3>2. <<x, dn>> \in Seq(X)
      BY <3>1
    <3>3. <<x, dn, m.path>> \in Seq(X)
      BY <3>1
    <3> QED BY <2>2, <3>2, <3>3 DEF X
  <2>5. r \in RowsOf("location") /\ r.root = w.root /\ r.path = m.path
    BY <1>0, <2>3, <2>4 DEF RowsOf, LocationRows, Standings
  <2>6. "location" \in Kinds
    BY DEF Kinds, Tables
  <2>7. l = q
    BY <2>1
  <2> HIDE DEF r
  <2>8. Part(q, n + 1) /\ Len(q) = 1 /\ q[1].t = "location" /\ q[1].row = r
    BY <1>0, <2>5, <2>6, OnePart
  <2> HIDE DEF q
  <2>9. NewPlace(d, q[1])
    BY <1>2, <2>5, <2>8 DEF location_exists, NewPlace
  <2> QED BY <2>5, <2>7, <2>8, <2>9 DEF LocOK
<1> QED BY <1>1, <1>2

LEMMA CollectionPart ==
    ASSUME NEW d, NEW n \in Nat, NEW w, w.site \in Nat, NEW x \in Names
    PROVE  Part(collection_changes(d, w, x, n), n + 1) /\ Aside(collection_changes(d, w, x, n))
<1> DEFINE r == [name |-> x, site |-> w.site, policy |-> Starter, status |-> "active"]
           b == <<Change("collection", "register", n, r)>>
           p == <<Change("policy", "register", Starter, StarterPolicy)>>
           a == IF Starter \in Active(d, "policy") THEN <<>> ELSE p
<1>1. {"policy", "collection"} \subseteq Kinds /\ Starter \in Nat
  BY DEF Kinds, Tables, Starter
<1>2. r \in RowsOf("collection")
  BY <1>1 DEF RowsOf, CollectionRows, Labels, Standings
<1>3. StarterPolicy \in RowsOf("policy")
  BY DEF StarterPolicy, RowsOf, PolicyRows, Labels, Standings
<1>4. collection_changes(d, w, x, n) = a \o b
  BY DEF collection_changes
<1> HIDE DEF r
<1>5. Part(b, n + 1) /\ Len(b) = 1 /\ b[1].t = "collection"
  BY <1>1, <1>2, OnePart
<1>6. Part(p, n + 1) /\ Len(p) = 1 /\ p[1].t = "policy"
  BY <1>1, <1>3, OnePart
<1> HIDE DEF b, p
<1>7. Part(a, n + 1) /\ \A i \in 1 .. Len(a) : a[i].t = "policy"
  <2>1. CASE a = <<>>
    BY <2>1, NoPart
  <2>2. CASE a = p
    <3>1. \A i \in 1 .. Len(p) : i = 1
      BY <1>6
    <3> QED BY <1>6, <2>2, <3>1
  <2> QED BY <2>1, <2>2
<1>8. \A i \in 1 .. Len(b) : b[i].t = "collection"
  <2>1. \A i \in 1 .. Len(b) : i = 1
    BY <1>5
  <2> QED BY <1>5, <2>1
<1> HIDE DEF a
<1> DEFINE s == a \o b
<1>9. /\ Part(s, n + 1)
      /\ \A i \in 1 .. Len(s) :
            \/ i \in 1 .. Len(a) /\ s[i] = a[i]
            \/ i - Len(a) \in 1 .. Len(b) /\ s[i] = b[i - Len(a)]
  <2> DEFINE u == n + 1
  <2>1. Part(a, u) /\ Part(b, u)
    BY <1>5, <1>7
  <2> HIDE DEF u
  <2>2. /\ Part(s, u)
        /\ Len(a) \in Nat /\ Len(b) \in Nat /\ Len(s) = Len(a) + Len(b)
        /\ \A i \in 1 .. Len(s) :
              \/ i \in 1 .. Len(a) /\ s[i] = a[i]
              \/ i - Len(a) \in 1 .. Len(b) /\ s[i] = b[i - Len(a)]
    BY <2>1, Joined
  <2> QED BY <2>2 DEF u
<1> HIDE DEF s
<1>10. Aside(s)
  BY <1>7, <1>8, <1>9 DEF Aside
<1> QED BY <1>4, <1>9, <1>10 DEF s

LEMMA SetupPlan ==
    ASSUME NEW f, NEW d, DbType(d), NEW n \in Nat, Below(d, n), NEW m \in Mounted,
           NEW x \in Names, NEW dn \in Names, NEW sn \in Names, NEW adding \in BOOLEAN,
           NEW q \in plan_filesystem_setup(f, d, m, x, dn, sn, adding, n)
    PROVE  GoodPlan(q, d, n + 1)
<1> DEFINE c(w) == IF adding THEN <<>> ELSE collection_changes(d, w, x, n)
           z(w) == <<mount_change(n, w.dev, w.root, IF m.fs = NoPrint THEN "unavailable" ELSE "match")>>
<1>1. PICK w \in setup_place(f, d, m, dn, sn, n) :
        \E l \in location_changes(f, d, w, m, x, dn, n) : q = w.todo \o l \o c(w) \o z(w)
  BY DEF plan_filesystem_setup
<1>2. PICK l \in location_changes(f, d, w, m, x, dn, n) : q = w.todo \o l \o c(w) \o z(w)
  BY <1>1
<1>3. PlaceOK(w, n)
  BY SetupPlace
<1>4. LocOK(l, w, d, n)
  BY <1>3, SetupLocation
<1> DEFINE one == w.todo \o l
           two == one \o c(w)
<1>5. Laid(one, d, n + 1)
  BY <1>3, <1>4, LaidFirst
<1>6. Part(c(w), n + 1) /\ Aside(c(w))
  <2>1. CASE adding
    <3>1. Part(<<>>, n + 1) /\ Len(<<>>) = 0 /\ 1 .. 0 = {}
      BY NoPart
    <3> QED BY <2>1, <3>1 DEF Aside
  <2>2. CASE ~adding
    BY <1>3, <2>2, CollectionPart DEF PlaceOK
  <2> QED BY <2>1, <2>2
<1>7. Part(z(w), n + 1) /\ Aside(z(w)) /\ Len(z(w)) = 1
  <2> DEFINE s == IF m.fs = NoPrint THEN "unavailable" ELSE "match"
             r == [device |-> w.dev, root |-> w.root, seen |-> s]
             y == <<Change("mount", "add", n, r)>>
  <2>1. z(w) = y
    BY DEF mount_change
  <2>2. s \in {"match", "unavailable", "mismatch"} /\ w.dev \in Nat /\ w.root \in Int
    BY <1>3 DEF PlaceOK
  <2>3. "mount" \in Kinds
    BY DEF Kinds
  <2> HIDE DEF s
  <2>4. r \in RowsOf("mount")
    BY <2>2 DEF RowsOf, MountRows
  <2> HIDE DEF r
  <2>5. Part(y, n + 1) /\ Len(y) = 1 /\ y[1].t = "mount"
    BY <2>3, <2>4, OnePart
  <2> HIDE DEF y
  <2>6. \A i \in 1 .. Len(y) : i = 1
    BY <2>5
  <2>7. Aside(y)
    BY <2>5, <2>6 DEF Aside
  <2> QED BY <2>1, <2>5, <2>7
<1>8. q = two \o z(w)
  BY <1>2
<1> HIDE DEF c, z
<1>9. Laid(two, d, n + 1)
  <2> HIDE DEF one
  <2> QED BY <1>5, <1>6, LaidMore
<1> HIDE DEF two
<1>10. Laid(two \o z(w), d, n + 1)
  BY <1>7, <1>9, LaidMore
<1>11. Len(two \o z(w)) = Len(two) + 1 /\ Len(two) \in Nat
  <2>1. Part(two, n + 1)
    BY <1>9 DEF Laid
  <2> DEFINE a == z(w)
  <2>2. Part(a, n + 1) /\ Len(a) = 1
    BY <1>7
  <2> HIDE DEF a
  <2>3. Len(two) \in Nat /\ Len(a) \in Nat /\ Len(two \o a) = Len(two) + Len(a)
    BY <2>1, <2>2, Joined
  <2> QED BY <2>2, <2>3 DEF a
<1>12. q # <<>>
  BY <1>8, <1>11
<1> QED BY <1>8, <1>10, <1>12 DEF Laid, GoodPlan, Part

-----------------------------------------------------------------------------
(* The actions.                                                            *)

LEMMA TodoHigher ==
    ASSUME NEW q, NEW n \in Nat, Todo(q, n)
    PROVE  Todo(q, n + 1)
<1> SUFFICES ASSUME NEW i \in 1 .. Len(q) PROVE Planned(q[i]) /\ ChangeBelow(q[i], n + 1)
  BY DEF Todo
<1>1. q[i] \in Changes /\ Planned(q[i]) /\ ChangeBelow(q[i], n)
  BY DEF Todo
<1>2. q[i].id \in Nat
  BY <1>1 DEF Changes
<1>3. q[i].t = "root" => q[i].row.device \in Nat
  BY <1>1 DEF Planned, RowsOf, RootRows
<1>4. q[i].t = "location" => q[i].row.root \in Nat
  BY <1>1 DEF Planned, RowsOf, LocationRows
<1> QED BY <1>1, <1>2, <1>3, <1>4 DEF ChangeBelow

LEMMA BelowHigher ==
    ASSUME NEW d, DbType(d), NEW n \in Nat, Below(d, n)
    PROVE  Below(d, n + 1)
<1>1. /\ \A i \in DOMAIN d.device : i \in Nat
      /\ \A i \in DOMAIN d.root : i \in Nat /\ d.root[i].device \in Nat
      /\ \A i \in DOMAIN d.location : d.location[i].root \in Nat
  BY RowTypes DEF Tables, RootRows, LocationRows
<1> QED BY <1>1 DEF Below

\* What the parts of the invariant say of one process.
LEMMA InvFacts ==
    ASSUME RegInv
    PROVE  /\ Unused \in Nat /\ DbType(db) /\ Below(db, Unused) /\ Todo(pending, Unused)
           /\ DOMAIN cmd = Procs
           /\ \A p \in Procs : ProcOK(cmd[p], format, Unused, db)
           /\ format \in 1 .. 3 /\ alone \in BOOLEAN /\ given \in Nat
           /\ StayOK(format, alone, db)
BY DEF RegInv, TypePart, CmdPart, DbPart, Unused

LEMMA IdleOK ==
    ASSUME NEW f, NEW n, NEW d
    PROVE  ProcOK(Idle, f, n, d) /\ Idle.pc = "idle"
BY DEF ProcOK, Idle

LEMMA GiveKeeps ==
    ASSUME RegInv, NEW p \in Procs, NEW plans, NEW basis, Give(p, plans, basis),
           \A q \in plans : GoodPlan(q, db, Unused + 1) /\ BasisOK(q, basis, db)
    PROVE  RegInv'
<1>0. /\ Unused \in Nat /\ DbType(db) /\ Below(db, Unused) /\ Todo(pending, Unused)
      /\ DOMAIN cmd = Procs
      /\ \A q \in Procs : ProcOK(cmd[q], format, Unused, db)
      /\ format \in 1 .. 3 /\ alone \in BOOLEAN /\ given \in Nat
      /\ StayOK(format, alone, db)
  BY InvFacts
<1>1. PICK todo \in plans :
        cmd' = [cmd EXCEPT ![p] = [pc |-> IF format = 3 THEN "commit" ELSE "check",
                                   todo |-> todo, basis |-> basis]]
  BY DEF Give
<1>2. /\ given' = given + 1 /\ format' = format /\ db' = db /\ pending' = pending
      /\ alone' = (alone /\ pending = <<>> /\ \A q \in Procs : cmd[q].pc = "idle")
  BY DEF Give
<1>3. Unused' = Unused + 1
  BY <1>0, <1>2 DEF Unused
<1>4. GoodPlan(todo, db, Unused + 1) /\ BasisOK(todo, basis, db)
  BY <1>1
<1> DEFINE c == [pc |-> IF format = 3 THEN "commit" ELSE "check", todo |-> todo, basis |-> basis]
<1>5. /\ DOMAIN c = {"pc", "todo", "basis"} /\ c.todo = todo /\ c.basis = basis
      /\ c.pc = IF format = 3 THEN "commit" ELSE "check"
  OBVIOUS
<1>6. DOMAIN cmd' = Procs /\ cmd'[p] = c /\ \A q \in Procs \ {p} : cmd'[q] = cmd[q]
  BY <1>0, <1>1
<1> HIDE DEF c
<1>7. TypePart'
  <2>1. Below(db, Unused + 1) /\ Todo(pending, Unused + 1)
    BY <1>0, BelowHigher, TodoHigher
  <2>2. (format = 3 => pending = <<>>)'
    BY <1>2 DEF RegInv, TypePart
  <2>3. given' \in Nat /\ alone' \in BOOLEAN
    BY <1>0, <1>2
  <2> QED BY <1>0, <1>2, <1>3, <2>1, <2>2, <2>3 DEF TypePart
<1>8. CmdPart'
  <2>1. ProcOK(c, format, Unused + 1, db)
    BY <1>4, <1>5 DEF ProcOK, GoodPlan
  <2>2. ASSUME NEW q \in Procs \ {p} PROVE ProcOK(cmd[q], format, Unused + 1, db)
    BY <1>0, TodoHigher DEF ProcOK
  <2>3. \A q \in Procs : ProcOK(cmd'[q], format, Unused + 1, db)
    BY <1>6, <2>1, <2>2
  <2> QED BY <1>2, <1>3, <1>6, <2>3 DEF CmdPart
<1>9. AlonePart'
  <2> SUFFICES ASSUME alone' PROVE AlonePart'
    BY DEF AlonePart
  <2>1. pending' = <<>> /\ \A q \in Procs \ {p} : cmd'[q].pc = "idle"
    BY <1>2, <1>6
  <2>2. cmd'[p].pc \in {"commit", "check"} /\ cmd'[p].todo = todo
    BY <1>5, <1>6
  <2>3. \A q \in Procs : cmd'[q].pc # "idle" => q = p
    BY <2>1
  <2>4. Undisturbed(cmd'[p].todo, db')
    BY <1>2, <1>4, <2>2 DEF GoodPlan
  <2>5. \A q \in Procs :
          /\ cmd'[q].pc # "idle" => Undisturbed(cmd'[q].todo, db')
          /\ cmd'[q].pc \notin {"append", "project"}
    BY <2>1, <2>2, <2>3, <2>4
  <2> QED BY <2>1, <2>3, <2>5 DEF AlonePart
<1>10. DbPart'
  <2>1. alone' => alone
    BY <1>2
  <2>2. StayOK(format, alone', db)
    BY <1>0, <2>1 DEF StayOK
  <2> QED BY <1>2, <2>1, <2>2 DEF RegInv, DbPart
<1> QED BY <1>7, <1>8, <1>9, <1>10 DEF RegInv

LEMMA CommandKeeps ==
    ASSUME RegInv, NEW p \in Procs, Command(p)
    PROVE  RegInv'
<1>0. Unused \in Nat /\ k = Unused /\ DbType(db) /\ Below(db, Unused)
  BY InvFacts DEF k, Unused
<1>1. \A q : BasisOK(q, <<>>, db)
  BY DEF BasisOK
<1>2. ASSUME NEW plans, Give(p, plans, <<>>), \A q \in plans : GoodPlan(q, db, Unused + 1)
      PROVE  RegInv'
  BY <1>1, <1>2, GiveKeeps
<1>3. CASE Setup(p)
  <2>1. PICK m \in Mounted, x \in Names, dn \in Names, sn \in Names, adding \in BOOLEAN :
          Give(p, plan_filesystem_setup(format, db, m, x, dn, sn, adding, Unused), <<>>)
    BY <1>0, <1>3 DEF Setup
  <2>2. \A q \in plan_filesystem_setup(format, db, m, x, dn, sn, adding, Unused) :
          GoodPlan(q, db, Unused + 1)
    BY <1>0, SetupPlan
  <2> QED BY <1>2, <2>1, <2>2
<1>4. CASE Rename(p)
  <2>1. PICK t \in {"site", "collection", "device"}, x \in Names :
          \E i \in DOMAIN db[t] : Give(p, rename_change(db, t, i, x), <<>>)
    BY <1>4 DEF Rename
  <2>2. PICK i \in DOMAIN db[t] : Give(p, rename_change(db, t, i, x), <<>>)
    BY <2>1
  <2>3. \A q \in rename_change(db, t, i, x) : GoodPlan(q, db, Unused + 1)
    BY <1>0, RenamePlan
  <2> QED BY <1>2, <2>2, <2>3
<1>5. CASE Move(p)
  <2>1. PICK i \in DOMAIN db.device, s \in DOMAIN db.site : Give(p, move_change(db, i, s), <<>>)
    BY <1>5 DEF Move
  <2>2. \A q \in move_change(db, i, s) : GoodPlan(q, db, Unused + 1)
    BY <1>0, MovePlan
  <2> QED BY <1>2, <2>1, <2>2
<1>6. CASE Identity(p)
  <2>1. PICK i \in DOMAIN db.device, to \in Prints \cup {"unavailable", "conflict"} :
          Give(p, device_identity(db, i, to), <<>>)
    BY <1>6 DEF Identity
  <2>2. \A q \in device_identity(db, i, to) : GoodPlan(q, db, Unused + 1)
    BY <1>0, IdentityPlan
  <2> QED BY <1>2, <2>1, <2>2
<1>7. CASE PolicyUpdate(p)
  <2>1. PICK i \in DOMAIN db.policy, v \in 1 .. 2 :
          Give(p, policy_update(format, db, i, v), <<db.policy[i]>>)
    BY <1>7 DEF PolicyUpdate
  <2>2. \A q \in policy_update(format, db, i, v) :
          GoodPlan(q, db, Unused + 1) /\ BasisOK(q, <<db.policy[i]>>, db)
    BY <1>0, PolicyPlan
  <2> QED BY <2>1, <2>2, GiveKeeps
<1>8. CASE Retire(p)
  <2>1. PICK t \in {"site", "device", "root", "policy"} :
          \E i \in DOMAIN db[t] : Give(p, retire_change(db, t, i), <<>>)
    BY <1>8 DEF Retire
  <2>2. PICK i \in DOMAIN db[t] : Give(p, retire_change(db, t, i), <<>>)
    BY <2>1
  <2>3. \A q \in retire_change(db, t, i) : GoodPlan(q, db, Unused + 1)
    BY <1>0, StatusPlan
  <2> QED BY <1>2, <2>2, <2>3
<1>9. CASE Update(p)
  <2>1. PICK t \in {"site", "device", "root"} :
          \E i \in DOMAIN db[t] : Give(p, update_change(db, t, i), <<>>)
    BY <1>9 DEF Update
  <2>2. PICK i \in DOMAIN db[t] : Give(p, update_change(db, t, i), <<>>)
    BY <2>1
  <2>3. \A q \in update_change(db, t, i) : GoodPlan(q, db, Unused + 1)
    BY <1>0, StatusPlan
  <2> QED BY <1>2, <2>2, <2>3
<1>10. CASE Add(p)
  <2>1. PICK t \in {"site", "risk"}, x \in Names \cup {"risk"} :
          Give(p, {<<Change(t, "register", Unused, SiteRow(x))>>}, <<>>)
    BY <1>0, <1>10 DEF Add
  <2>2. GoodPlan(<<Change(t, "register", Unused, SiteRow(x))>>, db, Unused + 1)
    BY <1>0, AddPlan
  <2> QED BY <1>2, <2>1, <2>2
<1>11. CASE Assign(p)
  <2>1. PICK i \in DOMAIN db.risk, a \in {"assign", "unassign"}, t \in {"site", "device"} :
          \E e \in DOMAIN db[t] : Give(p, {<<Change("assignment", a, i, <<t, e>>)>>}, <<>>)
    BY <1>11 DEF Assign
  <2>2. PICK e \in DOMAIN db[t] : Give(p, {<<Change("assignment", a, i, <<t, e>>)>>}, <<>>)
    BY <2>1
  <2>3. GoodPlan(<<Change("assignment", a, i, <<t, e>>)>>, db, Unused + 1)
    BY <1>0, AssignPlan
  <2> QED BY <1>2, <2>2, <2>3
<1>12. CASE CheckIn(p)
  <2>1. PICK i \in DOMAIN db.device, s \in {"match", "mismatch"} :
          Give(p, {<<Change("checkin", "add", i, [seen |-> s])>>}, <<>>)
    BY <1>12 DEF CheckIn, check_in_change
  <2>2. GoodPlan(<<Change("checkin", "add", i, [seen |-> s])>>, db, Unused + 1)
    BY <1>0, CheckInPlan
  <2> QED BY <1>2, <2>1, <2>2
<1>13. CASE Mount(p)
  <2>1. PICK i \in DOMAIN db.device, s \in {"match", "mismatch"}, x \in {Unused} \cup db.mounts :
          Give(p, {<<mount_change(x, i, Null, s)>>}, <<>>)
    BY <1>0, <1>13 DEF Mount
  <2>2. i \in Nat /\ x \in Nat /\ Null \in Int
    BY <1>0 DEF DbType, Tables, Null
  <2>3. GoodPlan(<<mount_change(x, i, Null, s)>>, db, Unused + 1)
    BY <1>0, <2>2, MountPlan
  <2> QED BY <1>2, <2>1, <2>3
<1> QED BY <1>3, <1>4, <1>5, <1>6, <1>7, <1>8, <1>9, <1>10, <1>11, <1>12, <1>13 DEF Command

\* A policy that was read is still there, replaced by a later version or retired.
LEMMA BasisKept ==
    ASSUME NEW q, NEW b, NEW d, NEW e, DbType(d), DbType(e), Grown(d, e), BasisOK(q, b, d)
    PROVE  BasisOK(q, b, e)
<1>1. CASE b = <<>>
  BY <1>1 DEF BasisOK
<1>2. CASE b # <<>>
  <2> DEFINE x == q[1].id
  <2>1. /\ Len(q) = 1 /\ q[1].t = "policy" /\ q[1].a = "update"
        /\ b[1] \in PolicyRows /\ q[1].row.version = b[1].version + 1
        /\ x \in DOMAIN d.policy
        /\ \/ <<"policy", x>> \in d.retired
           \/ d.policy[x] = b[1]
           \/ d.policy[x].version > b[1].version
    BY <1>2 DEF BasisOK
  <2> HIDE DEF x
  <2>2. /\ x \in DOMAIN e.policy
        /\ \/ <<"policy", x>> \in e.retired
           \/ e.policy[x] = d.policy[x]
           \/ e.policy[x].version > d.policy[x].version
        /\ <<"policy", x>> \in d.retired => <<"policy", x>> \in e.retired
    BY <2>1 DEF Grown
  <2>3. b[1].version \in Nat /\ d.policy[x].version \in Nat /\ e.policy[x].version \in Nat
    BY <2>1, <2>2, RowTypes DEF PolicyRows
  <2>4. \/ <<"policy", x>> \in e.retired
        \/ e.policy[x] = b[1]
        \/ e.policy[x].version > b[1].version
    BY <2>1, <2>2, <2>3
  <2> QED BY <2>1, <2>2, <2>4 DEF BasisOK, x
<1> QED BY <1>1, <1>2

\* What a transaction leaves is what was there, or every change of the batch.
LEMMA Transaction ==
    ASSUME NEW d, NEW q, NEW n \in Nat, Todo(q, n), DbType(d), Below(d, n)
    PROVE  \/ record_batch(3, d, q, TRUE).d = d
           \/ \E D : Transacted(d, q, n, D) /\ record_batch(3, d, q, TRUE).d = D[Len(q)]
<1>1. Len(q) \in Nat
  BY TodoLength
<1> DEFINE r == record_batch(3, d, q, TRUE)
<1>2. \/ r.ok = FALSE /\ r.d = d
      \/ r.ok = TRUE /\ \E D : Steps(3, d, q, TRUE, D) /\ r.d = D[Len(q)]
  <2>1. ASSUME NEW f, NEW t
        PROVE  \/ record_batch(f, d, q, t).ok = FALSE /\ record_batch(f, d, q, t).d = d
               \/ /\ record_batch(f, d, q, t).ok = TRUE
                  /\ \E D : Steps(f, d, q, t, D) /\ record_batch(f, d, q, t).d = D[Len(q)]
    BY <1>1, BatchSteps, Zenon
  <2> QED BY <2>1
<1> HIDE DEF r
<1>3. r.d = d \/ \E D : Transacted(d, q, n, D) /\ r.d = D[Len(q)]
  BY <1>2 DEF Transacted
<1> QED BY <1>3 DEF r

LEMMA CommitKeeps ==
    ASSUME RegInv, NEW p \in Procs, Commit(p)
    PROVE  RegInv'
<1>0. /\ Unused \in Nat /\ DbType(db) /\ Below(db, Unused) /\ Todo(pending, Unused)
      /\ DOMAIN cmd = Procs
      /\ \A q \in Procs : ProcOK(cmd[q], format, Unused, db)
      /\ format \in 1 .. 3 /\ alone \in BOOLEAN /\ given \in Nat
      /\ StayOK(format, alone, db)
  BY InvFacts
<1>1. /\ cmd[p].pc = "commit" /\ db' = record_batch(format, db, cmd[p].todo, TRUE).d
      /\ cmd' = [cmd EXCEPT ![p] = Idle]
      /\ format' = format /\ pending' = pending /\ given' = given /\ alone' = alone
  BY DEF Commit
<1>2. ProcOK(cmd[p], format, Unused, db)
  BY <1>0
<1>3. /\ format = 3 /\ Todo(cmd[p].todo, Unused) /\ WholePlan(cmd[p].todo)
      /\ Unused' = Unused /\ pending = <<>>
  <2>1. format = 3
    BY <1>1, <1>2 DEF ProcOK
  <2> QED BY <1>1, <1>2, <2>1 DEF ProcOK, Unused, RegInv, TypePart
<1>4. DOMAIN cmd' = Procs /\ cmd'[p] = Idle /\ \A q \in Procs \ {p} : cmd'[q] = cmd[q]
  BY <1>0, <1>1
<1>5. alone => Undisturbed(cmd[p].todo, db)
  BY <1>1 DEF RegInv, AlonePart
<1> DEFINE e == record_batch(3, db, cmd[p].todo, TRUE).d
<1>6. db' = e
  BY <1>1, <1>3
<1>7. /\ DbType(e) /\ Below(e, Unused) /\ Grown(db, e)
      /\ WholeDb(e) /\ Unique(e) /\ StayOK(3, alone, e) /\ (alone => OnePlaceEach(e))
  <2>0. /\ WholeDb(db) /\ Unique(db) /\ StayOK(3, alone, db) /\ (alone => OnePlaceEach(db))
    BY <1>3 DEF RegInv, DbPart
  <2>1. CASE e = db
    <3>1. Grown(db, db)
      BY DEF Grown
    <3> HIDE DEF e
    <3> QED BY <1>0, <2>0, <2>1, <3>1
  <2>2. CASE e # db
    <3> DEFINE q == cmd[p].todo
    <3>1. \E D : Transacted(db, q, Unused, D) /\ e = D[Len(q)]
      BY <1>0, <1>3, <2>2, Transaction
    <3> HIDE DEF e
    <3>2. PICK D : Transacted(db, q, Unused, D) /\ e = D[Len(q)]
      BY <3>1
    <3>3. Todo(q, Unused) /\ WholePlan(q) /\ (alone => Undisturbed(q, db))
      BY <1>3, <1>5
    <3> HIDE DEF q
    <3>4. Steps(3, db, q, TRUE, D) /\ D[0] = db
      BY <3>2 DEF Transacted, Steps
    <3>5. Len(q) \in Nat /\ Len(q) \in 0 .. Len(q) /\ 0 \in 0 .. Len(q) /\ 3 \in 1 .. 3
      BY <3>3, TodoLength
    <3>6. \A i \in 0 .. Len(q) : DbType(D[i]) /\ Below(D[i], Unused)
      BY <1>0, <3>3, <3>4, <3>5, BatchType, Zenon
    <3>7. DbType(e) /\ Below(e, Unused)
      BY <3>2, <3>5, <3>6
    <3>8. Grown(db, e)
      BY <3>2, <3>4, <3>5, BatchGrows
    <3>9. Unique(e)
      BY <2>0, <3>2, BatchUnique
    <3>10. WholeDb(e)
      BY <2>0, <3>2, <3>3, BatchWhole
    <3>11. StayOK(3, alone, e)
      BY <1>0, <2>0, <3>2, <3>3, BatchStay3
    <3>12. alone => OnePlaceEach(e)
      BY <2>0, <3>2, <3>3, BatchPlace
    <3> QED BY <3>7, <3>8, <3>9, <3>10, <3>11, <3>12
  <2> QED BY <2>1, <2>2
<1> HIDE DEF e
<1>8. TypePart'
  BY <1>0, <1>1, <1>3, <1>6, <1>7 DEF TypePart
<1>9. CmdPart'
  <2>1. \A q \in Procs \ {p} : ProcOK(cmd[q], format, Unused, e)
    BY <1>0, <1>7, BasisKept DEF ProcOK
  <2>2. ProcOK(Idle, format, Unused, e)
    BY IdleOK
  <2>3. \A q \in Procs : ProcOK(cmd'[q], format, Unused, e)
    BY <1>4, <2>1, <2>2
  <2> QED BY <1>1, <1>3, <1>4, <1>6, <2>3 DEF CmdPart
<1>10. AlonePart'
  <2> SUFFICES ASSUME alone PROVE AlonePart'
    BY <1>1 DEF AlonePart
  <2>1. \A q \in Procs : cmd[q].pc # "idle" => q = p
    BY <1>1 DEF RegInv, AlonePart
  <2>2. \A q \in Procs : cmd'[q].pc = "idle"
    BY <1>4, <2>1, IdleOK
  <2> QED BY <1>1, <1>3, <2>2 DEF AlonePart
<1>11. DbPart'
  BY <1>1, <1>3, <1>6, <1>7 DEF DbPart
<1> QED BY <1>8, <1>9, <1>10, <1>11 DEF RegInv

\* What the log leaves when it is projected.
LEMMA ProjectedIs ==
    ASSUME RegInv, Projected.ok
    PROVE  LET e == Projected.d IN
           /\ DbType(e) /\ Below(e, Unused)
           /\ format = 1 => StayOK(1, alone, e)
           /\ pending = <<>> => e = db
           /\ Len(pending) = 1 => Applied(format, db, pending[1], e) /\ Planned(pending[1])
<1>0. /\ Unused \in Nat /\ DbType(db) /\ Below(db, Unused) /\ Todo(pending, Unused)
      /\ format \in 1 .. 3 /\ alone \in BOOLEAN
      /\ StayOK(format, alone, db)
  BY InvFacts
<1>1. Len(pending) \in Nat
  BY <1>0, TodoLength
<1> DEFINE r == record_batch(format, db, pending, FALSE)
<1>2. Projected = r
  BY DEF Projected
<1>3. \/ r.ok = FALSE /\ r.d = db
      \/ r.ok = TRUE /\ \E D : Steps(format, db, pending, FALSE, D) /\ r.d = D[Len(pending)]
  BY <1>1, BatchSteps, Zenon
<1> HIDE DEF r
<1>4. PICK D : Steps(format, db, pending, FALSE, D) /\ r.d = D[Len(pending)]
  BY <1>2, <1>3
<1> DEFINE e == r.d
<1>5. \A i \in 0 .. Len(pending) : DbType(D[i]) /\ Below(D[i], Unused)
  BY <1>0, <1>4, BatchType, Zenon
<1>6. DbType(e) /\ Below(e, Unused)
  BY <1>1, <1>4, <1>5
<1>7. format = 1 => StayOK(1, alone, e)
  <2> SUFFICES ASSUME format = 1 PROVE StayOK(1, alone, e)
    OBVIOUS
  <2>1. Steps(1, db, pending, FALSE, D) /\ StayOK(1, alone, db)
    BY <1>0, <1>4
  <2>2. StayOK(1, alone, D[Len(pending)])
    <3>1. ASSUME NEW t, Steps(1, db, pending, t, D) PROVE StayOK(1, alone, D[Len(pending)])
      BY <1>0, <2>1, <3>1, BatchStay1
    <3> QED BY <2>1, <3>1
  <2> QED BY <1>4, <2>2
<1>8. pending = <<>> => e = db
  <2>1. pending = <<>> => Len(pending) = 0
    OBVIOUS
  <2> QED BY <1>4, <2>1 DEF Steps
<1>9. Len(pending) = 1 => Applied(format, db, pending[1], e) /\ Planned(pending[1])
  <2> SUFFICES ASSUME Len(pending) = 1
               PROVE  Applied(format, db, pending[1], e) /\ Planned(pending[1])
    OBVIOUS
  <2>1. 1 \in 1 .. Len(pending) /\ 1 - 1 = 0
    OBVIOUS
  <2>2. D[0] = db
    BY <1>4 DEF Steps
  <2>3. DbType(D[1 - 1])
    BY <1>0, <2>1, <2>2
  <2>4. Applied(format, D[1 - 1], pending[1], D[1]) /\ Planned(pending[1])
    BY <1>0, <1>4, <2>1, <2>3, StepApplied
  <2> QED BY <1>4, <2>1, <2>2, <2>4
<1> QED BY <1>2, <1>6, <1>7, <1>8, <1>9

LEMMA CheckKeeps ==
    ASSUME RegInv, NEW p \in Procs, Check(p)
    PROVE  RegInv'
<1>0. /\ Unused \in Nat /\ DbType(db) /\ Below(db, Unused) /\ Todo(pending, Unused)
      /\ DOMAIN cmd = Procs
      /\ \A q \in Procs : ProcOK(cmd[q], format, Unused, db)
      /\ format \in 1 .. 3 /\ alone \in BOOLEAN /\ given \in Nat
      /\ StayOK(format, alone, db)
  BY InvFacts
<1>1. /\ cmd[p].pc = "check"
      /\ format' = format /\ given' = given /\ alone' = alone
  BY DEF Check
<1>2. /\ format # 3 /\ Todo(cmd[p].todo, Unused) /\ cmd[p].todo # <<>>
      /\ DOMAIN cmd[p] = {"pc", "todo", "basis"}
  BY <1>0, <1>1 DEF ProcOK
<1>3. Unused' = Unused
  BY <1>1 DEF Unused
<1>4. CASE Projected.ok
  <2> DEFINE e == Projected.d
             c == IF validate_change_on(e, Head(cmd[p].todo))
                  THEN [cmd[p] EXCEPT !.pc = "append"] ELSE Idle
  <2>1. db' = e /\ pending' = <<>> /\ cmd' = [cmd EXCEPT ![p] = c]
    BY <1>4 DEF Check
  <2>2. /\ DbType(e) /\ Below(e, Unused) /\ (format = 1 => StayOK(1, alone, e))
        /\ pending = <<>> => e = db
    BY <1>4, ProjectedIs
  <2>3. alone => e = db
    BY <1>1, <2>2 DEF RegInv, AlonePart
  <2>4. \/ c = Idle
        \/ /\ validate_change_on(e, Head(cmd[p].todo)) /\ DOMAIN c = {"pc", "todo", "basis"}
           /\ c.pc = "append" /\ c.todo = cmd[p].todo
    BY <1>2
  <2> HIDE DEF e, c
  <2>5. DOMAIN cmd' = Procs /\ cmd'[p] = c /\ \A q \in Procs \ {p} : cmd'[q] = cmd[q]
    BY <1>0, <2>1
  <2>6. TypePart'
    <3>1. Todo(<<>>, Unused)
      BY NoPart DEF Part
    <3> QED BY <1>0, <1>1, <1>3, <2>1, <2>2, <3>1 DEF TypePart
  <2>7. CmdPart'
    <3>1. ProcOK(c, format, Unused, e)
      <4>1. CASE c = Idle
        BY <4>1, IdleOK
      <4>2. CASE c # Idle
        BY <1>2, <2>4, <4>2 DEF ProcOK
      <4> QED BY <4>1, <4>2
    <3>2. \A q \in Procs \ {p} : ProcOK(cmd[q], format, Unused, e)
      BY <1>0, <1>2 DEF ProcOK
    <3>3. \A q \in Procs : ProcOK(cmd'[q], format, Unused, e)
      BY <2>5, <3>1, <3>2
    <3> QED BY <1>1, <1>3, <2>1, <2>5, <3>3 DEF CmdPart
  <2>8. AlonePart'
    <3> SUFFICES ASSUME alone PROVE AlonePart'
      BY <1>1 DEF AlonePart
    <3>1. \A q \in Procs : cmd[q].pc # "idle" => q = p
      BY <1>1 DEF RegInv, AlonePart
    <3>2. Undisturbed(cmd[p].todo, db') /\ db' = db
      BY <1>1, <2>1, <2>3 DEF RegInv, AlonePart
    <3>3. Head(cmd[p].todo) = cmd[p].todo[1]
      BY <1>2 DEF Todo
    <3>4. \A q \in Procs \ {p} : cmd'[q].pc = "idle"
      BY <2>5, <3>1
    <3>5. CASE c = Idle
      <4>1. \A q \in Procs : cmd'[q].pc = "idle"
        BY <2>5, <3>4, <3>5, IdleOK
      <4> QED BY <2>1, <4>1 DEF AlonePart
    <3>6. CASE c # Idle
      <4>1. /\ cmd'[p].pc = "append" /\ cmd'[p].todo = cmd[p].todo
            /\ validate_change_on(db', cmd'[p].todo[1])
        BY <2>1, <2>4, <2>5, <3>3, <3>6
      <4> QED BY <2>1, <3>2, <3>4, <4>1 DEF AlonePart
    <3> QED BY <3>5, <3>6
  <2>9. DbPart'
    <3>1. StayOK(format, alone, e)
      BY <1>0, <1>2, <2>2, <2>3 DEF StayOK
    <3> QED BY <1>1, <1>2, <2>1, <2>3, <3>1 DEF DbPart, RegInv
  <2> QED BY <2>6, <2>7, <2>8, <2>9 DEF RegInv
<1>5. CASE ~Projected.ok
  <2>1. db' = db /\ pending' = pending /\ cmd' = [cmd EXCEPT ![p] = Idle]
    BY <1>5 DEF Check
  <2>2. DOMAIN cmd' = Procs /\ cmd'[p] = Idle /\ \A q \in Procs \ {p} : cmd'[q] = cmd[q]
    BY <1>0, <2>1
  <2> QED BY <1>1, <1>3, <2>1, <2>2, IdleOK DEF RegInv, TypePart, CmdPart, AlonePart, DbPart
<1> QED BY <1>4, <1>5

LEMMA AppendKeeps ==
    ASSUME RegInv, NEW p \in Procs, AppendEvent(p)
    PROVE  RegInv'
<1>0. /\ Unused \in Nat /\ DbType(db) /\ Below(db, Unused) /\ Todo(pending, Unused)
      /\ DOMAIN cmd = Procs
      /\ \A q \in Procs : ProcOK(cmd[q], format, Unused, db)
      /\ format \in 1 .. 3 /\ alone \in BOOLEAN /\ given \in Nat
      /\ StayOK(format, alone, db)
  BY InvFacts
<1>1. /\ cmd[p].pc = "append" /\ pending' = Append(pending, Head(cmd[p].todo))
      /\ cmd' = [cmd EXCEPT ![p].pc = "project"]
      /\ format' = format /\ db' = db /\ given' = given /\ alone' = alone
  BY DEF AppendEvent
<1>2. /\ format # 3 /\ Todo(cmd[p].todo, Unused) /\ cmd[p].todo # <<>>
      /\ DOMAIN cmd[p] = {"pc", "todo", "basis"}
  BY <1>0, <1>1 DEF ProcOK
<1>3. Unused' = Unused
  BY <1>1 DEF Unused
<1> DEFINE c == [cmd[p] EXCEPT !.pc = "project"]
           a == cmd[p].todo[1]
<1>4. DOMAIN c = {"pc", "todo", "basis"} /\ c.pc = "project" /\ c.todo = cmd[p].todo
  BY <1>2
<1>5. DOMAIN cmd' = Procs /\ cmd'[p] = c /\ \A q \in Procs \ {p} : cmd'[q] = cmd[q]
  BY <1>0, <1>1
<1>6. /\ Head(cmd[p].todo) = a /\ a \in Changes /\ Planned(a) /\ ChangeBelow(a, Unused)
      /\ Len(cmd[p].todo) \in Nat /\ 1 \in 1 .. Len(cmd[p].todo)
  BY <1>2 DEF Todo
<1> HIDE DEF c
<1>7. TypePart'
  <2>1. /\ pending' \in Seq(Changes) /\ Len(pending) \in Nat /\ Len(pending') = Len(pending) + 1
        /\ \A i \in 1 .. Len(pending') :
              pending'[i] = IF i = Len(pending) + 1 THEN a ELSE pending[i]
    BY <1>0, <1>1, <1>6 DEF Todo
  <2>2. \A i \in 1 .. Len(pending') : Planned(pending'[i]) /\ ChangeBelow(pending'[i], Unused)
    <3>1. \A i \in 1 .. Len(pending) : Planned(pending[i]) /\ ChangeBelow(pending[i], Unused)
      BY <1>0 DEF Todo
    <3> QED BY <1>6, <2>1, <3>1
  <2>3. Todo(pending', Unused)
    BY <2>1, <2>2 DEF Todo
  <2> QED BY <1>0, <1>1, <1>2, <1>3, <2>3 DEF TypePart
<1>8. CmdPart'
  <2>1. ProcOK(c, format, Unused, db)
    BY <1>2, <1>4 DEF ProcOK
  <2>2. \A q \in Procs : ProcOK(cmd'[q], format, Unused, db)
    BY <1>0, <1>5, <2>1
  <2> QED BY <1>1, <1>3, <1>5, <2>2 DEF CmdPart
<1>9. AlonePart'
  <2> SUFFICES ASSUME alone PROVE AlonePart'
    BY <1>1 DEF AlonePart
  <2>1. \A q \in Procs : cmd[q].pc # "idle" => q = p
    BY <1>1 DEF RegInv, AlonePart
  <2>2. /\ pending = <<>> /\ Undisturbed(cmd[p].todo, db)
        /\ validate_change_on(db, a)
    BY <1>1 DEF RegInv, AlonePart
  <2>3. pending' = <<a>>
    BY <1>1, <1>6, <2>2
  <2>4. Len(<<a>>) = 1 /\ <<a>>[1] = a /\ \A i \in 1 .. Len(<<a>>) : i = 1
    OBVIOUS
  <2>5. Undisturbed(<<a>>, db)
    BY <1>6, <2>2, <2>4 DEF Undisturbed
  <2>6. \A q \in Procs \ {p} : cmd'[q].pc = "idle"
    BY <1>5, <2>1
  <2> HIDE DEF a
  <2>7. cmd'[p].pc = "project" /\ cmd'[p].todo = cmd[p].todo
    BY <1>4, <1>5
  <2>8. pending' = <<cmd'[p].todo[1]>>
    BY <2>3, <2>7 DEF a
  <2> QED BY <1>1, <2>2, <2>3, <2>4, <2>5, <2>6, <2>7, <2>8 DEF AlonePart
<1>10. DbPart'
  BY <1>1 DEF RegInv, DbPart
<1> QED BY <1>7, <1>8, <1>9, <1>10 DEF RegInv

LEMMA KillKeeps ==
    ASSUME RegInv, NEW p \in Procs, Kill(p)
    PROVE  RegInv'
<1>0. DOMAIN cmd = Procs
  BY InvFacts
<1>1. /\ cmd' = [cmd EXCEPT ![p] = Idle]
      /\ format' = format /\ db' = db /\ pending' = pending /\ given' = given /\ alone' = alone
  BY DEF Kill
<1>2. DOMAIN cmd' = Procs /\ cmd'[p] = Idle /\ \A q \in Procs \ {p} : cmd'[q] = cmd[q]
  BY <1>0, <1>1
<1>3. Unused' = Unused
  BY <1>1 DEF Unused
<1> QED BY <1>1, <1>2, <1>3, IdleOK DEF RegInv, TypePart, CmdPart, AlonePart, DbPart

LEMMA TailIs ==
    ASSUME NEW q, NEW n, Todo(q, n), q # <<>>, Len(q) # 1
    PROVE  /\ Todo(Tail(q), n) /\ Tail(q) # <<>> /\ 1 \in 1 .. Len(q)
           /\ \A i \in 1 .. Len(Tail(q)) : i \in Nat /\ i + 1 \in 1 .. Len(q) /\ i + 1 # 1
                                           /\ Tail(q)[i] = q[i + 1]
<1>0. q \in Seq(Changes)
  BY DEF Todo
<1>1. q \in Seq(Changes) /\ Len(q) \in Nat /\ Len(q) > 1
  <2>1. Len(q) # 0
    BY <1>0, EmptySeq
  <2>2. Len(q) \in Nat
    BY <1>0
  <2> DEFINE n1 == Len(q)
  <2>3. n1 \in Nat /\ n1 # 0 /\ n1 # 1
    BY <2>1, <2>2
  <2> HIDE DEF n1
  <2>4. n1 > 1
    BY <2>3
  <2> QED BY <1>0, <2>3, <2>4 DEF n1
<1>2. /\ Tail(q) \in Seq(Changes) /\ Len(Tail(q)) = Len(q) - 1
      /\ \A i \in 1 .. Len(Tail(q)) : i \in Nat /\ i + 1 \in 1 .. Len(q) /\ i + 1 # 1
                                      /\ Tail(q)[i] = q[i + 1]
  BY <1>1
<1>3. \A i \in 1 .. Len(q) : Planned(q[i]) /\ ChangeBelow(q[i], n)
  BY DEF Todo
<1>4. \A i \in 1 .. Len(Tail(q)) : Planned(Tail(q)[i]) /\ ChangeBelow(Tail(q)[i], n)
  BY <1>2, <1>3
<1>5. Todo(Tail(q), n)
  BY <1>2, <1>4 DEF Todo
<1>6. Tail(q) # <<>>
  BY <1>1, <1>2
<1> QED BY <1>1, <1>2, <1>5, <1>6

\* What is left of a plan is undisturbed by its own first change.
LEMMA TailUndisturbed ==
    ASSUME NEW f, NEW q, NEW n, Todo(q, n), q # <<>>, Len(q) # 1, NEW d, NEW e,
           Applied(f, d, q[1], e), Undisturbed(q, d)
    PROVE  Undisturbed(Tail(q), e)
<1> DEFINE s == Tail(q)
<1>1. /\ 1 \in 1 .. Len(q)
      /\ \A i \in 1 .. Len(s) : i \in Nat /\ i + 1 \in 1 .. Len(q) /\ i + 1 # 1 /\ s[i] = q[i + 1]
  BY TailIs
<1> HIDE DEF s
<1>2. \A i \in 1 .. Len(s) : ~(s[i].t = "device" /\ s[i].a \in {"update", "retire"})
  BY <1>1 DEF Undisturbed
<1>3. ASSUME NEW i \in 1 .. Len(s), s[i].t = "location" PROVE NewPlace(e, s[i])
  <2>1. q[i + 1].t = "location" /\ NewPlace(d, q[i + 1])
    BY <1>1, <1>3 DEF Undisturbed
  <2>2. q[1].t # "location"
    BY <1>1, <2>1 DEF Undisturbed
  <2>3. NewPlace(e, q[i + 1])
    BY <2>1, <2>2, NewPlaceKept
  <2> QED BY <1>1, <2>3
<1>4. ASSUME NEW i \in 1 .. Len(s), NEW j \in 1 .. Len(s), s[i].t = "location", s[j].t = "location"
      PROVE  i = j
  <2>1. i + 1 = j + 1
    BY <1>1, <1>4 DEF Undisturbed
  <2> QED BY <1>1, <2>1
<1>5. Undisturbed(s, e)
  BY <1>2, <1>3, <1>4 DEF Undisturbed
<1> QED BY <1>5 DEF s

LEMMA ProjectKeeps ==
    ASSUME RegInv, NEW p \in Procs, Project(p)
    PROVE  RegInv'
<1>0. /\ Unused \in Nat /\ DbType(db) /\ Below(db, Unused) /\ Todo(pending, Unused)
      /\ DOMAIN cmd = Procs
      /\ \A q \in Procs : ProcOK(cmd[q], format, Unused, db)
      /\ format \in 1 .. 3 /\ alone \in BOOLEAN /\ given \in Nat
      /\ StayOK(format, alone, db)
  BY InvFacts
<1>1. /\ cmd[p].pc = "project"
      /\ format' = format /\ given' = given /\ alone' = alone
  BY DEF Project
<1>2. /\ format # 3 /\ Todo(cmd[p].todo, Unused) /\ cmd[p].todo # <<>>
      /\ DOMAIN cmd[p] = {"pc", "todo", "basis"}
  BY <1>0, <1>1 DEF ProcOK
<1>3. Unused' = Unused
  BY <1>1 DEF Unused
<1>4. CASE Projected.ok
  <2> DEFINE e == Projected.d
             c == IF Len(cmd[p].todo) = 1 THEN Idle
                  ELSE [pc |-> "check", todo |-> Tail(cmd[p].todo), basis |-> cmd[p].basis]
             a == cmd[p].todo[1]
  <2>1. db' = e /\ pending' = <<>> /\ cmd' = [cmd EXCEPT ![p] = c]
    BY <1>4 DEF Project
  <2>2. /\ DbType(e) /\ Below(e, Unused) /\ (format = 1 => StayOK(1, alone, e))
        /\ Len(pending) = 1 => Applied(format, db, pending[1], e) /\ Planned(pending[1])
    BY <1>4, ProjectedIs
  <2>3. alone => /\ pending = <<a>> /\ Undisturbed(cmd[p].todo, db)
                 /\ validate_change_on(db, a) /\ Undisturbed(<<a>>, db)
    <3> SUFFICES ASSUME alone
                 PROVE  /\ pending = <<a>> /\ Undisturbed(cmd[p].todo, db)
                        /\ validate_change_on(db, a) /\ Undisturbed(<<a>>, db)
      OBVIOUS
    <3>1. pending = <<a>> /\ Undisturbed(cmd[p].todo, db)
      BY <1>1 DEF RegInv, AlonePart
    <3>2. pending # <<>> /\ pending[1] = a
      BY <3>1
    <3>3. validate_change_on(db, pending[1]) /\ Undisturbed(pending, db)
      BY <3>2 DEF RegInv, AlonePart
    <3> HIDE DEF a
    <3> QED BY <3>1, <3>2, <3>3
  <2>4. \/ c = Idle
        \/ /\ Len(cmd[p].todo) # 1 /\ DOMAIN c = {"pc", "todo", "basis"}
           /\ c.pc = "check" /\ c.todo = Tail(cmd[p].todo)
    BY <1>2
  <2> HIDE DEF e, c, a
  <2>a. Len(<<a>>) = 1 /\ <<a>>[1] = a /\ 1 \in 1 .. Len(<<a>>)
    OBVIOUS
  <2>b. alone => Applied(format, db, a, e) /\ Planned(a)
    BY <2>2, <2>3, <2>a
  <2>5. DOMAIN cmd' = Procs /\ cmd'[p] = c /\ \A q \in Procs \ {p} : cmd'[q] = cmd[q]
    BY <1>0, <2>1
  <2>6. TypePart'
    <3>1. Todo(<<>>, Unused)
      BY NoPart DEF Part
    <3> QED BY <1>0, <1>1, <1>3, <2>1, <2>2, <3>1 DEF TypePart
  <2>7. CmdPart'
    <3>1. ProcOK(c, format, Unused, e)
      <4>1. CASE c = Idle
        BY <4>1, IdleOK
      <4>2. CASE c # Idle
        <5>1. Todo(Tail(cmd[p].todo), Unused) /\ Tail(cmd[p].todo) # <<>>
          BY <1>2, <2>4, <4>2, TailIs
        <5> QED BY <1>2, <2>4, <4>2, <5>1 DEF ProcOK
      <4> QED BY <4>1, <4>2
    <3>2. \A q \in Procs \ {p} : ProcOK(cmd[q], format, Unused, e)
      BY <1>0, <1>2 DEF ProcOK
    <3>3. \A q \in Procs : ProcOK(cmd'[q], format, Unused, e)
      BY <2>5, <3>1, <3>2
    <3> QED BY <1>1, <1>3, <2>1, <2>5, <3>3 DEF CmdPart
  <2>8. AlonePart'
    <3> SUFFICES ASSUME alone PROVE AlonePart'
      BY <1>1 DEF AlonePart
    <3>1. \A q \in Procs : cmd[q].pc # "idle" => q = p
      BY <1>1 DEF RegInv, AlonePart
    <3>2. \A q \in Procs \ {p} : cmd'[q].pc = "idle"
      BY <2>5, <3>1
    <3>3. CASE c = Idle
      <4>1. \A q \in Procs : cmd'[q].pc = "idle"
        BY <2>5, <3>2, <3>3, IdleOK
      <4> QED BY <2>1, <4>1 DEF AlonePart
    <3>4. CASE c # Idle
      <4>1. cmd'[p].pc = "check" /\ cmd'[p].todo = Tail(cmd[p].todo) /\ Len(cmd[p].todo) # 1
        BY <2>4, <2>5, <3>4
      <4>2. Undisturbed(Tail(cmd[p].todo), e)
        BY <1>2, <2>3, <2>b, <4>1, TailUndisturbed DEF a
      <4>3. Undisturbed(cmd'[p].todo, db')
        BY <2>1, <4>1, <4>2
      <4> QED BY <2>1, <3>2, <4>1, <4>3 DEF AlonePart
    <3> QED BY <3>3, <3>4
  <2>9. DbPart'
    <3>1. CASE ~alone
      <4>1. StayOK(format, alone, e)
        BY <1>0, <1>2, <2>2, <3>1 DEF StayOK
      <4> QED BY <1>1, <1>2, <2>1, <3>1, <4>1 DEF DbPart
    <3>2. CASE alone
      <4>0. Unique(db) /\ OnePlaceEach(db)
        BY <3>2 DEF RegInv, DbPart
      <4>1. Unique(e)
        BY <1>0, <2>3, <2>b, <3>2, <4>0, UniqueKept
      <4>2. a.t = "device" /\ a.a = "retire" => Current(db, a)
        BY <2>3, <2>a, <3>2 DEF Undisturbed
      <4>3. StayOK(format, alone, e)
        <5>1. ASSUME NEW s \in BOOLEAN, StayOK(format, s, db) PROVE StayOK(format, s, e)
          BY <1>0, <2>3, <2>b, <3>2, <4>2, <5>1, StayKept
        <5> QED BY <1>0, <5>1
      <4>4. a.t = "location" => NewPlace(db, a)
        BY <2>3, <2>a, <3>2 DEF Undisturbed
      <4>5. OnePlaceEach(e)
        BY <2>b, <3>2, <4>0, <4>4, PlaceKept
      <4> QED BY <1>1, <1>2, <2>1, <4>1, <4>3, <4>5 DEF DbPart
    <3> QED BY <3>1, <3>2
  <2> QED BY <2>6, <2>7, <2>8, <2>9 DEF RegInv
<1>5. CASE ~Projected.ok
  <2>1. db' = db /\ pending' = pending /\ cmd' = [cmd EXCEPT ![p] = Idle]
    BY <1>5 DEF Project
  <2>2. DOMAIN cmd' = Procs /\ cmd'[p] = Idle /\ \A q \in Procs \ {p} : cmd'[q] = cmd[q]
    BY <1>0, <2>1
  <2> QED BY <1>1, <1>3, <2>1, <2>2, IdleOK DEF RegInv, TypePart, CmdPart, AlonePart, DbPart
<1> QED BY <1>4, <1>5

-----------------------------------------------------------------------------
(* The theorems.                                                           *)

\* The registry with which an archive may start.
LEMMA EmptyIs ==
    /\ DOMAIN EmptyDb = Fields /\ EmptyDb.mounts = {} /\ EmptyDb.retired = {}
    /\ \A t \in Tables : DOMAIN EmptyDb[t] = {}
BY DEF EmptyDb, EmptyRow, Fields, Tables

LEMMA EmptyGood ==
    /\ DbType(EmptyDb) /\ Below(EmptyDb, 3) /\ WholeDb(EmptyDb) /\ Unique(EmptyDb)
    /\ OnePlaceEach(EmptyDb)
    /\ \A f, single : StayOK(f, single, EmptyDb)
<1>1. /\ DOMAIN EmptyDb.device = {} /\ DOMAIN EmptyDb.root = {} /\ DOMAIN EmptyDb.location = {}
  BY EmptyIs DEF Tables
<1>2. DbType(EmptyDb)
  BY EmptyIs DEF DbType
<1> QED BY <1>1, <1>2 DEF Below, WholeDb, Unique, OnePlaceEach, StayOK, Active

LEMMA ConfiguredIs ==
    ASSUME NEW x
    PROVE  LET d == Configured(x) IN
           /\ DOMAIN d = Fields /\ d.mounts = {1}
           /\ DOMAIN d.site = {1, 2} /\ d.site[1] = SiteRow(x) /\ d.site[2] = SiteRow("other")
           /\ DOMAIN d.policy = {Starter} /\ d.policy[Starter] = StarterPolicy
           /\ DOMAIN d.device = {1, 2} /\ d.device[1] = DeviceRow(x, 1)
           /\ d.device[2] = [name |-> "old", site |-> 2, identity |-> "confirmed",
                             print |-> CHOOSE h \in Prints : TRUE, status |-> "retired"]
           /\ DOMAIN d.root = {1} /\ d.root[1] = RootRow([fs |-> NoPrint], 1)
           /\ DOMAIN d.location = {1}
           /\ d.location[1] = [name |-> <<x, x>>, root |-> 1, device |-> 1, path |-> "p",
                               status |-> "active"]
           /\ DOMAIN d.collection = {1}
           /\ d.collection[1] = [name |-> x, site |-> 1, policy |-> Starter, status |-> "active"]
           /\ DOMAIN d.risk = {} /\ DOMAIN d.stay = {1, 2} /\ d.stay[1] = 1 /\ d.stay[2] = 2
<1> DEFINE d == Configured(x)
           old == [name |-> "old", site |-> 2, identity |-> "confirmed",
                   print |-> CHOOSE h \in Prints : TRUE, status |-> "retired"]
           l == [name |-> <<x, x>>, root |-> 1, device |-> 1, path |-> "p", status |-> "active"]
           b == [name |-> x, site |-> 1, policy |-> Starter, status |-> "active"]
<1>1. 1 .. 2 = {1, 2}
  OBVIOUS
<1>2. /\ DOMAIN d = Fields /\ d.mounts = {1} /\ d.risk = EmptyRow
      /\ d.site = [i \in 1..2 |-> IF i = 1 THEN SiteRow(x) ELSE SiteRow("other")]
      /\ d.policy = [i \in {Starter} |-> StarterPolicy]
      /\ d.device = [i \in 1..2 |-> IF i = 1 THEN DeviceRow(x, 1) ELSE old]
      /\ d.stay = [i \in 1..2 |-> i]
      /\ d.root = [i \in {1} |-> RootRow([fs |-> NoPrint], 1)]
      /\ d.location = [i \in {1} |-> l] /\ d.collection = [i \in {1} |-> b]
  BY DEF Configured, EmptyDb, Fields, Tables
<1> HIDE DEF d, old, l, b
<1>3. DOMAIN d.site = {1, 2} /\ d.site[1] = SiteRow(x) /\ d.site[2] = SiteRow("other")
  BY <1>1, <1>2
<1>4. DOMAIN d.device = {1, 2} /\ d.device[1] = DeviceRow(x, 1) /\ d.device[2] = old
  BY <1>1, <1>2
<1>5. DOMAIN d.stay = {1, 2} /\ d.stay[1] = 1 /\ d.stay[2] = 2
  BY <1>1, <1>2
<1>6. /\ DOMAIN d.policy = {Starter} /\ d.policy[Starter] = StarterPolicy
      /\ DOMAIN d.root = {1} /\ d.root[1] = RootRow([fs |-> NoPrint], 1)
      /\ DOMAIN d.location = {1} /\ d.location[1] = l
      /\ DOMAIN d.collection = {1} /\ d.collection[1] = b
  BY <1>2
<1>7. DOMAIN d.risk = {}
  BY <1>2 DEF EmptyRow
<1> QED BY <1>2, <1>3, <1>4, <1>5, <1>6, <1>7 DEF d, old, l, b

LEMMA ConfiguredGood ==
    ASSUME NEW x \in Names
    PROVE  LET d == Configured(x) IN
           /\ DbType(d) /\ Below(d, 3) /\ WholeDb(d) /\ Unique(d) /\ OnePlaceEach(d)
           /\ \A f, single : StayOK(f, single, d)
<1> DEFINE d == Configured(x)
           h == CHOOSE y \in Prints : TRUE
           old == [name |-> "old", site |-> 2, identity |-> "confirmed", print |-> h,
                   status |-> "retired"]
           r == RootRow([fs |-> NoPrint], 1)
           l == [name |-> <<x, x>>, root |-> 1, device |-> 1, path |-> "p", status |-> "active"]
           b == [name |-> x, site |-> 1, policy |-> Starter, status |-> "active"]
<1>1. h \in Prints
  BY SetupAssumption
<1> HIDE DEF h
<1>2. DOMAIN d = Fields /\ d.mounts = {1}
  BY ConfiguredIs
<1>3. DOMAIN d.site = {1, 2} /\ d.site[1] = SiteRow(x) /\ d.site[2] = SiteRow("other")
  BY ConfiguredIs
<1>4. DOMAIN d.policy = {Starter} /\ d.policy[Starter] = StarterPolicy
  BY ConfiguredIs
<1>5. DOMAIN d.device = {1, 2} /\ d.device[1] = DeviceRow(x, 1) /\ d.device[2] = old
  BY ConfiguredIs DEF h
<1>6. DOMAIN d.root = {1} /\ d.root[1] = r
  BY ConfiguredIs
<1>7. DOMAIN d.location = {1} /\ d.location[1] = l
  BY ConfiguredIs
<1>8. DOMAIN d.collection = {1} /\ d.collection[1] = b
  BY ConfiguredIs
<1>9. DOMAIN d.risk = {}
  BY ConfiguredIs
<1>10. DOMAIN d.stay = {1, 2} /\ d.stay[1] = 1 /\ d.stay[2] = 2
  BY ConfiguredIs
<1> HIDE DEF d
<1>11. SiteRow(x) \in SiteRows /\ SiteRow("other") \in SiteRows
  BY DEF SiteRow, SiteRows, Labels, Standings
<1>12. StarterPolicy \in PolicyRows /\ Starter \in Nat
  BY DEF StarterPolicy, PolicyRows, Labels, Standings, Starter
<1>13. DeviceRow(x, 1) \in DeviceRows /\ DeviceRow(x, 1).site = 1
  BY DEF DeviceRow, DeviceRows, Labels, Standings, Identities, Marks
<1>14. old \in DeviceRows /\ old.site = 2 /\ old.status = "retired"
  BY <1>1 DEF DeviceRows, Labels, Standings, Identities, Marks
<1>15. r \in RootRows /\ r.device = 1
  BY DEF RootRow, RootRows, Labels, Standings, Identities, Marks
<1>16. l \in LocationRows /\ l.root = 1
  <2>1. x \in Labels \cup Places /\ "p" \in Places
    BY DEF Labels, Places
  <2>2. <<x, x>> \in Seq(Labels \cup Places)
    <3> DEFINE X == Labels \cup Places
    <3>1. x \in X
      BY <2>1
    <3> HIDE DEF X
    <3>2. <<x, x>> \in Seq(X)
      BY <3>1
    <3> QED BY <3>2 DEF X
  <2> QED BY <2>1, <2>2 DEF LocationRows, Standings
<1>17. b \in CollectionRows
  BY <1>12 DEF CollectionRows, Labels, Standings
<1> HIDE DEF old, r, l, b
<1>18. DbType(d)
  <2>1. \A t \in Tables : DOMAIN d[t] \in SUBSET Nat
    BY <1>3, <1>4, <1>5, <1>6, <1>7, <1>8, <1>9, <1>12 DEF Tables
  <2>2. ASSUME NEW t \in Tables, NEW i \in DOMAIN d[t] PROVE d[t][i] \in RowsOf(t)
    <3>1. CASE t = "site"
      BY <1>3, <1>11, <2>2, <3>1 DEF RowsOf
    <3>2. CASE t = "policy"
      BY <1>4, <1>12, <2>2, <3>2 DEF RowsOf
    <3>3. CASE t = "device"
      BY <1>5, <1>13, <1>14, <2>2, <3>3 DEF RowsOf
    <3>4. CASE t = "root"
      BY <1>6, <1>15, <2>2, <3>4 DEF RowsOf
    <3>5. CASE t = "location"
      BY <1>7, <1>16, <2>2, <3>5 DEF RowsOf
    <3>6. CASE t = "collection"
      BY <1>8, <1>17, <2>2, <3>6 DEF RowsOf
    <3>7. CASE t = "risk"
      BY <1>9, <2>2, <3>7
    <3> QED BY <3>1, <3>2, <3>3, <3>4, <3>5, <3>6, <3>7 DEF Tables
  <2> QED BY <1>2, <2>1, <2>2 DEF DbType
<1>19. Below(d, 3)
  BY <1>5, <1>6, <1>7, <1>15, <1>16 DEF Below
<1>20. WholeDb(d)
  BY <1>5, <1>6, <1>7, <1>16 DEF WholeDb
<1>21. Unique(d)
  BY <1>5, <1>6, <1>14 DEF Unique, Active
<1>22. OnePlaceEach(d)
  BY <1>7 DEF OnePlaceEach, Active
<1>23. \A f, single : StayOK(f, single, d)
  BY <1>5, <1>10, <1>13, <1>14 DEF StayOK
<1> QED BY <1>18, <1>19, <1>20, <1>21, <1>22, <1>23 DEF d

LEMMA RegInitInv ==
    ASSUME RegInit
    PROVE  RegInv
<1>1. /\ format \in 1 .. 3 /\ pending = <<>> /\ cmd = [p \in Procs |-> Idle]
      /\ given = 0 /\ alone = TRUE
  BY SetupAssumption DEF RegInit
<1>2. (CHOOSE y \in Names : TRUE) \in Names
  BY SetupAssumption
<1>3. db = EmptyDb \/ \E x \in Names : db = Configured(x)
  BY <1>2 DEF RegInit
<1>4. /\ DbType(db) /\ Below(db, 3) /\ WholeDb(db) /\ Unique(db) /\ OnePlaceEach(db)
      /\ \A f, single : StayOK(f, single, db)
  BY <1>3, EmptyGood, ConfiguredGood
<1>5. Unused = 3
  BY <1>1 DEF Unused
<1>6. Todo(<<>>, 3)
  BY NoPart DEF Part
<1>7. TypePart
  BY <1>1, <1>4, <1>5, <1>6 DEF TypePart
<1>8. DOMAIN cmd = Procs /\ \A p \in Procs : cmd[p] = Idle
  BY <1>1
<1>9. CmdPart
  BY <1>8, IdleOK DEF CmdPart
<1>10. AlonePart
  BY <1>1, <1>8, IdleOK DEF AlonePart
<1>11. DbPart
  BY <1>4 DEF DbPart
<1> QED BY <1>7, <1>9, <1>10, <1>11 DEF RegInv

LEMMA RegNextInv ==
    ASSUME RegInv, [RegNext]_regVars
    PROVE  RegInv'
<1>1. ASSUME NEW p \in Procs,
             Command(p) \/ Commit(p) \/ Check(p) \/ AppendEvent(p) \/ Project(p) \/ Kill(p)
      PROVE  RegInv'
  BY <1>1, CommandKeeps, CommitKeeps, CheckKeeps, AppendKeeps, ProjectKeeps, KillKeeps
<1>2. CASE UNCHANGED regVars
  <2>1. /\ format' = format /\ db' = db /\ pending' = pending /\ cmd' = cmd
        /\ given' = given /\ alone' = alone
    BY <1>2 DEF regVars
  <2>2. Unused' = Unused
    BY <2>1 DEF Unused
  <2> QED BY <2>1, <2>2 DEF RegInv, TypePart, CmdPart, AlonePart, DbPart
<1> QED BY <1>1, <1>2 DEF RegNext

\* The registry, its log and the plans of the commands satisfy the inductive
\* invariant, whichever commands run at once, are refused or are killed.
THEOREM RegInvariant == RegSpec => []RegInv
<1>1. RegInit => RegInv
  BY RegInitInv
<1>2. RegInv /\ [RegNext]_regVars => RegInv'
  BY RegNextInv
<1> QED BY <1>1, <1>2, PTL DEF RegSpec

\* The registry that commands leave behind is consistent: whole setups, unique
\* identities, one open stay for every Device and one Location for every place.
THEOREM RegistryConsistent == RegSpec => []RegistryIsConsistent
<1>1. RegInv => RegistryIsConsistent
  <2> SUFFICES ASSUME RegInv PROVE RegistryIsConsistent
    OBVIOUS
  <2>1. SetupIsWhole
    BY DEF RegInv, DbPart, WholeDb, SetupIsWhole
  <2>2. IdentityIsUnique
    BY DEF RegInv, DbPart, Unique, IdentityIsUnique
  <2>3. OpenStayIsCurrent
    BY DEF RegInv, DbPart, StayOK, OpenStayIsCurrent
  <2>4. OneLocationPerPlace
    BY DEF RegInv, DbPart, OnePlaceEach, OneLocationPerPlace
  <2> QED BY <2>1, <2>2, <2>3, <2>4 DEF RegistryIsConsistent
<1> QED BY <1>1, RegInvariant, PTL

\* A policy update of version 3 is recorded only while the policy is the one the
\* command read.
LEMMA UpdateBuilds ==
    ASSUME RegInv, NEW p \in Procs, Commit(p), db' # db, cmd[p].basis # <<>>,
           <<"policy", Head(cmd[p].todo).id>> \notin db.retired
    PROVE  db.policy[Head(cmd[p].todo).id] = cmd[p].basis[1]
<1> DEFINE q == cmd[p].todo
           b == cmd[p].basis
           x == q[1].id
<1>0. Unused \in Nat /\ DbType(db) /\ Below(db, Unused) /\ ProcOK(cmd[p], format, Unused, db)
  BY InvFacts
<1>1. format = 3 /\ Todo(q, Unused) /\ q # <<>> /\ BasisOK(q, b, db)
  BY <1>0 DEF Commit, ProcOK
<1>2. Head(q) = q[1] /\ Len(q) \in Nat
  BY <1>1 DEF Todo
<1>3. /\ Len(q) = 1 /\ q[1].t = "policy" /\ q[1].a = "update"
      /\ b[1] \in PolicyRows /\ q[1].row.version = b[1].version + 1
      /\ x \in DOMAIN db.policy
      /\ db.policy[x] = b[1] \/ db.policy[x].version > b[1].version
  BY <1>1, <1>2 DEF BasisOK
<1>4. PICK D : Transacted(db, q, Unused, D)
  <2>1. record_batch(3, db, q, TRUE).d # db
    BY <1>1 DEF Commit
  <2> HIDE DEF q
  <2> QED BY <1>0, <1>1, <2>1, Transaction
<1> HIDE DEF q
<1>5. validate_change_on(db, q[1])
  <2>0. 1 \in 1 .. Len(q) /\ 1 - 1 = 0
    BY <1>3
  <2>1. Steps(3, db, q, TRUE, D)
    BY <1>4 DEF Transacted
  <2>2. validate_change_on(D[1 - 1], q[1]) /\ D[0] = db
    BY <2>0, <2>1 DEF Steps
  <2> QED BY <2>0, <2>2
<1>6. q[1].row.version > db.policy[x].version
  BY <1>3, <1>5 DEF validate_change_on, validate_policy
<1>7. b[1].version \in Nat /\ db.policy[x].version \in Nat
  BY <1>0, <1>3, RowTypes DEF PolicyRows
<1>8. db.policy[x] = b[1]
  BY <1>3, <1>6, <1>7
<1> QED BY <1>2, <1>8 DEF q

\* `policy update` never overwrites a requirement that it did not read.
THEOREM PolicyUpdatesBuild == RegSpec => PolicyUpdatesBuildOnCurrent
<1> DEFINE A == \A p \in Procs :
                  (/\ Commit(p) /\ db' # db /\ cmd[p].basis # <<>>
                   /\ <<"policy", Head(cmd[p].todo).id>> \notin db.retired)
                  => db.policy[Head(cmd[p].todo).id] = cmd[p].basis[1]
<1>1. RegInv /\ [RegNext]_regVars => [A]_regVars
  BY UpdateBuilds
<1> QED BY <1>1, RegInvariant, PTL DEF RegSpec, PolicyUpdatesBuildOnCurrent

=============================================================================
