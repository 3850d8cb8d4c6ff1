----------------------------- MODULE Version1Proofs -----------------------------
(***************************************************************************)
(* Proofs about the version 1 archive: that what the event log says of the *)
(* metadata branch is so (MetadataGuard), and that what cached policy      *)
(* evaluations and their reports say of the projection is so (PolicyEval). *)
(***************************************************************************)
EXTENDS MetadataGuard, PolicyEval, TLAPS, WellFoundedInduction, FiniteSetTheorems

-----------------------------------------------------------------------------
(* Induction.                                                              *)

\* A set of naturals has a least element.
LEMMA LeastNumber ==
    ASSUME NEW S \in SUBSET Nat, S # {}
    PROVE  \E m \in S : \A k \in S : m <= k
<1> DEFINE Less == {ss \in Nat \X Nat : ss[1] < ss[2]}
<1>1. IsWellFoundedOn(Less, Nat)
  BY NatLessThanWellFounded DEF OpToRel
<1>2. PICK m \in S : \A k \in S : ~(<<k, m>> \in Less)
  <2> HIDE DEF Less
  <2> QED BY <1>1, WFMin
<1>3. \A k \in S : ~(k < m)
  BY <1>2
<1> QED BY <1>3

-----------------------------------------------------------------------------
(* The projection of the metadata events.                                  *)

EventKinds == {"topo", "dest", "chk", "commit", "repl"}
EventStates == {"", "none", "active", "retired", "present", "missing", "diverged", "error"}
Standings == {"", "independent", "overlapping", "unknown"}

MetaEvents ==
    [k : EventKinds, c : Nat, g : Nat, st : EventStates, ind : Standings,
     loc : Locators \cup {""}]

Numbers == 1 .. MaxMetaLog

MetaTables ==
    [n : Nat, chks : SUBSET Numbers, commit : [Numbers -> Nat],
     repl : [Numbers -> [st : EventStates, g : Nat, ind : Standings, seq : Nat]],
     dest : [st : EventStates, loc : Locators \cup {""}], destSeq : Nat, topoSeq : Nat,
     ind : Standings]

\* One step of the fold.
FoldStep(d, e, s) ==
    IF d = <<>> \/ ~Accepted(d[1], e) THEN <<>> ELSE <<Project(d[1], e, s)>>

IsFold(es, n, R) ==
    R = [s \in 0 .. n |-> IF s = 0 THEN <<EmptyMetaDb>> ELSE FoldStep(R[s - 1], es[s], s)]

\* The fold exists for every prefix.
LEMMA FoldsExist ==
    ASSUME NEW es, NEW l \in Nat
    PROVE  \E R : IsFold(es, l, R)
<1> DEFINE Bad == {n \in Nat : ~\E R : IsFold(es, n, R)}
<1> SUFFICES ASSUME Bad # {} PROVE FALSE
  OBVIOUS
<1>1. PICK m \in Bad : \A k \in Bad : m <= k
  BY LeastNumber, Bad \in SUBSET Nat
<1>2. CASE m = 0
  <2> DEFINE Q == [s \in 0 .. 0 |-> <<EmptyMetaDb>>]
  <2>1. IsFold(es, 0, Q)
    BY DEF IsFold
  <2> QED BY <1>1, <1>2, <2>1
<1>3. CASE m # 0
  <2>1. m - 1 \in Nat /\ m - 1 \notin Bad
    BY <1>1, <1>3
  <2>2. PICK R : IsFold(es, m - 1, R)
    BY <2>1
  <2> DEFINE Q == [s \in 0 .. m |-> IF s < m THEN R[s] ELSE FoldStep(R[m - 1], es[m], m)]
  <2>3. \A s \in 0 .. m : Q[s] = IF s = 0 THEN <<EmptyMetaDb>> ELSE FoldStep(Q[s - 1], es[s], s)
    <3> SUFFICES ASSUME NEW s \in 0 .. m
                 PROVE  Q[s] = IF s = 0 THEN <<EmptyMetaDb>> ELSE FoldStep(Q[s - 1], es[s], s)
      OBVIOUS
    <3>1. CASE s < m
      <4>1. s \in 0 .. m - 1 /\ Q[s] = R[s]
        BY <3>1
      <4>2. s # 0 => Q[s - 1] = R[s - 1]
        BY <3>1
      <4>3. R[s] = IF s = 0 THEN <<EmptyMetaDb>> ELSE FoldStep(R[s - 1], es[s], s)
        BY <2>2, <4>1 DEF IsFold
      <4> QED BY <4>1, <4>2, <4>3
    <3>2. CASE s = m
      <4>1. s - 1 \in 0 .. m /\ s - 1 < m
        BY <3>2, <1>3
      <4>2. Q[s - 1] = R[m - 1]
        BY <3>2, <4>1
      <4>3. Q[s] = FoldStep(R[m - 1], es[m], m)
        BY <3>2
      <4> QED BY <3>2, <4>2, <4>3, <1>3
    <3> QED BY <3>1, <3>2
  <2>4. IsFold(es, m, Q)
    BY <2>3 DEF IsFold
  <2> QED BY <1>1, <2>4
<1> QED BY <1>2, <1>3

SameEvents(es, fs, n) == \A s \in 1 .. n : es[s] = fs[s]

\* Folds over the same events agree.
LEMMA FoldsAgree ==
    ASSUME NEW es, NEW fs, NEW n \in Nat, NEW m \in Nat, n <= m,
           SameEvents(es, fs, n),
           NEW R, IsFold(es, n, R), NEW Q, IsFold(fs, m, Q)
    PROVE  \A s \in 0 .. n : R[s] = Q[s]
<1> DEFINE Bad == {s \in 0 .. n : R[s] # Q[s]}
<1> SUFFICES ASSUME Bad # {} PROVE FALSE
  OBVIOUS
<1>1. PICK s \in Bad : \A k \in Bad : s <= k
  BY LeastNumber, Bad \in SUBSET Nat
<1>2. /\ R[s] = IF s = 0 THEN <<EmptyMetaDb>> ELSE FoldStep(R[s - 1], es[s], s)
      /\ Q[s] = IF s = 0 THEN <<EmptyMetaDb>> ELSE FoldStep(Q[s - 1], fs[s], s)
  BY <1>1 DEF IsFold
<1>3. s # 0
  BY <1>1, <1>2
<1>4. s - 1 \in 0 .. n /\ s - 1 \notin Bad /\ es[s] = fs[s]
  BY <1>1, <1>3 DEF SameEvents
<1> QED BY <1>1, <1>2, <1>3, <1>4

LEMMA FoldedIs ==
    ASSUME NEW es, Len(es) \in Nat, NEW R, IsFold(es, Len(es), R)
    PROVE  Folded(es) = R[Len(es)]
<1> DEFINE F == CHOOSE Q : IsFold(es, Len(es), Q)
<1>1. IsFold(es, Len(es), F)
  OBVIOUS
<1>2. Folded(es) = F[Len(es)]
  BY DEF Folded, IsFold, FoldStep
<1>3. F[Len(es)] = R[Len(es)]
  <2> HIDE DEF F
  <2>1. SameEvents(es, es, Len(es)) /\ Len(es) <= Len(es) /\ Len(es) \in 0 .. Len(es)
    BY DEF SameEvents
  <2> QED BY <1>1, <2>1, FoldsAgree
<1> QED BY <1>2, <1>3

\* The tables after one more event.
LEMMA FoldedAppend ==
    ASSUME NEW es \in Seq(MetaEvents), NEW e \in MetaEvents
    PROVE  Folded(Append(es, e)) = FoldStep(Folded(es), e, Len(es) + 1)
<1> DEFINE fs == Append(es, e)
           n == Len(es)
<1>1. fs \in Seq(MetaEvents) /\ Len(fs) = n + 1 /\ fs[n + 1] = e /\ n \in Nat
      /\ \A s \in 1 .. n : es[s] = fs[s]
  OBVIOUS
<1>2. PICK R : IsFold(es, n, R)
  BY <1>1, FoldsExist
<1>3. PICK Q : IsFold(fs, n + 1, Q)
  BY <1>1, FoldsExist
<1> HIDE DEF fs
<1>4. R[n] = Q[n]
  <2> DEFINE k == n + 1
  <2>1. n \in Nat /\ k \in Nat /\ n <= k /\ n \in 0 .. n
    BY <1>1
  <2>2. /\ IsFold(es, n, R) /\ IsFold(fs, k, Q)
        /\ SameEvents(es, fs, n)
    BY <1>1, <1>2, <1>3 DEF SameEvents
  <2> HIDE DEF n, k
  <2>3. \A s \in 0 .. n : R[s] = Q[s]
    BY <2>1, <2>2, FoldsAgree
  <2> QED BY <2>1, <2>3
<1>5. Q[n + 1] = FoldStep(Q[n], e, n + 1)
  BY <1>1, <1>3 DEF IsFold
<1>6. Folded(es) = R[n] /\ Folded(fs) = Q[n + 1]
  BY <1>1, <1>2, <1>3, FoldedIs
<1> QED BY <1>4, <1>5, <1>6 DEF fs

LEMMA FoldedEmpty == Folded(<<>>) = <<EmptyMetaDb>>
<1>1. PICK R : IsFold(<<>>, 0, R)
  BY FoldsExist
<1>2. R[0] = <<EmptyMetaDb>>
  BY <1>1 DEF IsFold
<1> QED BY <1>1, <1>2, FoldedIs

-----------------------------------------------------------------------------
(* The metadata branch.                                                    *)

\* update-ref names the old value, so that the branch is one line of commits:
\* each holds the files of the one before, and the log up to each of them.
ChainOK(cs, n) ==
    /\ cs \in Seq([par : Nat, files : SUBSET (1 .. n), n : Nat])
    /\ \A i \in 1 .. Len(cs) :
          cs[i].par = i - 1 /\ \A c \in cs[i].files : c <= cs[i].n
    /\ \A i, j \in 1 .. Len(cs) : i <= j => cs[i].files \subseteq cs[j].files

\* Commit g is the one that adds the file of checkpoint c.
Introduces(cs, c, g) ==
    /\ g \in 1 .. Len(cs) /\ c \in cs[g].files
    /\ g # 1 => c \notin cs[g - 1].files

\* What is reachable from a commit of one line is all before it.
LEMMA ReachableIs ==
    ASSUME NEW n \in Nat, ChainOK(commits, n), NEW g \in 0 .. Len(commits)
    PROVE  Reachable(g) = 1 .. g
<1> DEFINE l == Len(commits)
           Is(A) == A = [i \in 0 .. l |-> IF i = 0 THEN {} ELSE {i} \cup A[commits[i].par]]
           F == [i \in 0 .. l |-> 1 .. i]
           A == CHOOSE B : Is(B)
<1>0. l \in Nat /\ \A i \in 1 .. l : commits[i].par = i - 1
  BY DEF ChainOK
<1>1. Is(F)
  <2>1. \A i \in 0 .. l : F[i] = IF i = 0 THEN {} ELSE {i} \cup F[commits[i].par]
    <3> SUFFICES ASSUME NEW i \in 0 .. l
                 PROVE  F[i] = IF i = 0 THEN {} ELSE {i} \cup F[commits[i].par]
      OBVIOUS
    <3>1. CASE i = 0
      BY <3>1
    <3>2. CASE i # 0
      <4>1. commits[i].par = i - 1 /\ i - 1 \in 0 .. l
        BY <1>0, <3>2
      <4>2. F[i] = 1 .. i /\ F[i - 1] = 1 .. i - 1
        BY <4>1
      <4>3. 1 .. i = {i} \cup (1 .. i - 1)
        BY <1>0, <3>2
      <4> QED BY <3>2, <4>1, <4>2, <4>3
    <3> QED BY <3>1, <3>2
  <2> QED BY <2>1
<1>2. Is(A)
  BY <1>1
<1>3. Reachable(g) = A[g]
  BY DEF Reachable
<1> HIDE DEF A
<1>4. ASSUME NEW i \in 0 .. l, A[i] # 1 .. i PROVE FALSE
  <2> DEFINE Bad == {k \in 0 .. l : A[k] # 1 .. k}
  <2>1. PICK k \in Bad : \A m \in Bad : k <= m
    BY <1>0, <1>4, LeastNumber, Bad \in SUBSET Nat
  <2>2. A[k] = IF k = 0 THEN {} ELSE {k} \cup A[commits[k].par]
    BY <1>2
  <2>3. k # 0
    BY <2>1, <2>2
  <2>4. commits[k].par = k - 1 /\ k - 1 \in 0 .. l /\ k - 1 \notin Bad
    BY <1>0, <2>1, <2>3
  <2>5. A[k] = {k} \cup (1 .. k - 1)
    BY <2>2, <2>3, <2>4
  <2>6. 1 .. k = {k} \cup (1 .. k - 1)
    BY <1>0, <2>3
  <2> QED BY <2>1, <2>5, <2>6
<1> QED BY <1>3, <1>4

\* A checkpoint's file is added once.
LEMMA IntroducedOnce ==
    ASSUME NEW n \in Nat, NEW cs, ChainOK(cs, n), NEW c, NEW g, NEW h,
           Introduces(cs, c, g), Introduces(cs, c, h)
    PROVE  g = h
<1>1. ASSUME NEW a, NEW b, Introduces(cs, c, a), Introduces(cs, c, b), a < b PROVE FALSE
  <2>1. a \in 1 .. Len(cs) /\ b \in 1 .. Len(cs) /\ Len(cs) \in Nat
    BY <1>1 DEF Introduces, ChainOK
  <2>2. b # 1 /\ b - 1 \in 1 .. Len(cs) /\ a <= b - 1
    BY <1>1, <2>1
  <2> QED BY <1>1, <2>1, <2>2 DEF Introduces, ChainOK
<1>2. g \in Nat /\ h \in Nat
  BY DEF Introduces, ChainOK
<1> QED BY <1>1, <1>2

\* A commit that is on the branch holds its checkpoint and the log up to it.
LEMMA IntroducedIsVerified ==
    ASSUME NEW n \in Nat, ChainOK(commits, n), NEW c, NEW g, Introduces(commits, c, g),
           tip = Len(commits)
    PROVE  g \in Reachable(tip) /\ verify_checkpoint_commit(c, g)
<1>1. g \in 1 .. Len(commits) /\ Len(commits) \in Nat
  BY DEF Introduces, ChainOK
<1>2. Reachable(tip) = 1 .. tip
  BY <1>1, ReachableIs
<1> QED BY <1>1, <1>2 DEF Introduces, ChainOK, verify_checkpoint_commit

\* reconcile finds the commit that added the file.
LEMMA IntroducingIs ==
    ASSUME NEW n \in Nat, ChainOK(commits, n), tip = Len(commits), NEW c, NEW g \in introducing(c)
    PROVE  Introduces(commits, c, g)
<1>1. Len(commits) \in Nat
  BY DEF ChainOK
<1>2. Reachable(tip) = 1 .. tip
  BY <1>1, ReachableIs
<1>3. g \in 1 .. Len(commits) /\ c \in commits[g].files
      /\ (commits[g].par = 0 \/ c \notin commits[commits[g].par].files)
  BY <1>2 DEF introducing
<1>4. commits[g].par = g - 1
  BY <1>3 DEF ChainOK
<1> QED BY <1>1, <1>3, <1>4 DEF Introduces

\* A commit on top of the branch keeps what was introduced, and introduces
\* the checkpoint it adds if no commit has it.
LEMMA ChainGrows ==
    ASSUME NEW n \in Nat, NEW cs, ChainOK(cs, n), NEW k, k.par = Len(cs), k.n \in Nat,
           k \in [par : Nat, files : SUBSET (1 .. n), n : Nat],
           NEW c \in 1 .. n, \A i \in 1 .. Len(cs) : c \notin cs[i].files,
           k.files = (IF Len(cs) = 0 THEN {} ELSE cs[Len(cs)].files) \cup {c},
           \A d \in k.files : d <= k.n
    PROVE  /\ ChainOK(Append(cs, k), n)
           /\ Introduces(Append(cs, k), c, Len(cs) + 1)
           /\ \A d, g : Introduces(cs, d, g) => Introduces(Append(cs, k), d, g)
<1> DEFINE ds == Append(cs, k)
           l == Len(cs)
<1>1. /\ l \in Nat /\ cs \in Seq([par : Nat, files : SUBSET (1 .. n), n : Nat])
      /\ ds \in Seq([par : Nat, files : SUBSET (1 .. n), n : Nat])
      /\ Len(ds) = l + 1 /\ ds[l + 1] = k /\ \A i \in 1 .. l : ds[i] = cs[i]
  BY DEF ChainOK
<1>a. l \in Nat /\ Len(ds) = l + 1
  BY <1>1
<1>b. ds[l + 1] = k /\ \A i \in 1 .. l : ds[i] = cs[i]
  BY <1>1
<1>c. k.par = l /\ (\A d \in k.files : d <= k.n) /\ \A i \in 1 .. l : c \notin cs[i].files
  OBVIOUS
<1> HIDE DEF ds, l
<1>2. ChainOK(ds, n)
  <2>1. ASSUME NEW i \in 1 .. Len(ds)
        PROVE  ds[i].par = i - 1 /\ \A d \in ds[i].files : d <= ds[i].n
    <3>1. CASE i \in 1 .. l
      BY <1>1, <3>1 DEF ChainOK, l
    <3>2. CASE i = l + 1
      <4>1. ds[i] = k /\ i - 1 = l
        BY <1>a, <1>b, <3>2
      <4> QED BY <1>c, <4>1
    <3> QED BY <1>a, <3>1, <3>2
  <2>2. ASSUME NEW i \in 1 .. Len(ds), NEW j \in 1 .. Len(ds), i <= j
        PROVE  ds[i].files \subseteq ds[j].files
    <3>1. CASE j \in 1 .. l
      <4>1. i \in 1 .. l
        BY <1>1, <2>2, <3>1
      <4> QED BY <1>1, <2>2, <3>1, <4>1 DEF ChainOK, l
    <3>2. CASE j = l + 1 /\ i \in 1 .. l
      <4>1. l \in 1 .. l /\ i <= l /\ l # 0
        BY <1>1, <3>2
      <4>2. cs[i].files \subseteq cs[l].files
        BY <1>1, <3>2, <4>1 DEF ChainOK, l
      <4>3. cs[l].files \subseteq k.files
        BY <4>1 DEF l
      <4> QED BY <1>1, <3>2, <4>2, <4>3
    <3>3. CASE j = l + 1 /\ i = l + 1
      BY <3>3
    <3>4. j \in 1 .. l \/ (j = l + 1 /\ i \in 1 .. l) \/ (j = l + 1 /\ i = l + 1)
      BY <1>a, <2>2
    <3> QED BY <3>1, <3>2, <3>3, <3>4
  <2> QED BY <1>1, <2>1, <2>2 DEF ChainOK
<1>3. Introduces(ds, c, l + 1)
  <2>1. l + 1 \in 1 .. Len(ds) /\ c \in ds[l + 1].files
    BY <1>1
  <2>2. l + 1 # 1 => c \notin ds[l].files
    <3>1. l + 1 # 1 => l \in 1 .. l
      BY <1>a
    <3> QED BY <1>b, <1>c, <3>1
  <2>3. (l + 1) - 1 = l
    BY <1>1
  <2> QED BY <2>1, <2>2, <2>3 DEF Introduces
<1>4. ASSUME NEW d, NEW g, Introduces(cs, d, g) PROVE Introduces(ds, d, g)
  <2>1. g \in 1 .. l /\ d \in cs[g].files /\ (g # 1 => d \notin cs[g - 1].files)
    BY <1>4 DEF Introduces, l
  <2>2. g \in 1 .. Len(ds) /\ ds[g] = cs[g] /\ (g # 1 => ds[g - 1] = cs[g - 1])
    <3>1. g \in 1 .. Len(ds) /\ (g # 1 => g - 1 \in 1 .. l)
      BY <1>a, <2>1
    <3> QED BY <1>b, <2>1, <3>1
  <2> QED BY <2>1, <2>2 DEF Introduces
<1> QED BY <1>2, <1>3, <1>4 DEF ds, l

-----------------------------------------------------------------------------
(* The invariant of the metadata commands.                                 *)

\* A remote once showed commit g.
Shown(h, g) == \E l \in Locators : <<l, g>> \in h

EventOK(e, cs, h) ==
    /\ e \in MetaEvents
    /\ e.k = "commit" => Introduces(cs, e.c, e.g)
    /\ e.k = "repl" /\ e.st = "present" => Shown(h, e.g)

TablesOK(d, cs, h) ==
    /\ d \in MetaTables
    /\ \A c \in Numbers : d.commit[c] # 0 => Introduces(cs, c, d.commit[c])
    /\ \A c \in Numbers : d.repl[c].st = "present" => Shown(h, d.repl[c].g)

\* What the log projects to, if it does.
FoldOK(d, cs, h) == d = <<>> \/ (d = <<d[1]>> /\ TablesOK(d[1], cs, h))

MetaPcs == {"idle", "parent", "commit", "record", "list", "push", "check", "repl"}

MetaProc ==
    [pc : MetaPcs, c : Nat, par : Nat, g : Nat, loc : Locators \cup {""}, ind : Standings,
     st : EventStates, replicate : BOOLEAN]

\* A process owns the checkpoint it made until the branch has it.
Owns(w) == w.pc \in {"parent", "commit"}

ProcOK(w, cs, h, n) ==
    /\ w \in MetaProc
    /\ Owns(w) => w.c \in 1 .. n /\ \A i \in 1 .. Len(cs) : w.c \notin cs[i].files
    /\ w.pc \in {"record", "list", "push", "check", "repl"} => Introduces(cs, w.c, w.g)
    /\ w.pc = "repl" /\ w.st = "present" => Shown(h, w.g)

LogPart ==
    /\ mlog \in Seq(MetaEvents)
    /\ \A s \in 1 .. Len(mlog) : EventOK(mlog[s], commits, held)

TablePart == TablesOK(mdb, commits, held) /\ FoldOK(Folded(mlog), commits, held)

BranchPart == ChainOK(commits, Len(mlog)) /\ tip = Len(commits)

ProcPart ==
    /\ mp \in [MetaProcs -> MetaProc]
    /\ \A p \in MetaProcs : ProcOK(mp[p], commits, held, Len(mlog))
    /\ \A p, q \in MetaProcs : p # q /\ Owns(mp[p]) /\ Owns(mp[q]) => mp[p].c # mp[q].c

RemotePart ==
    /\ conf \in Locators
    /\ remote \in [Locators -> Nat \cup {Foreign}]
    /\ \A l \in Locators : remote[l] # 0 /\ remote[l] # Foreign => <<l, remote[l]>> \in held

MetaInv == LogPart /\ TablePart /\ BranchPart /\ ProcPart /\ RemotePart

\* What is introduced and shown stays so.
MayGrow(cs, ds, h, k) ==
    /\ \A c, g : Introduces(cs, c, g) => Introduces(ds, c, g)
    /\ h \subseteq k

LEMMA EventStaysOK ==
    ASSUME NEW cs, NEW ds, NEW h, NEW k, MayGrow(cs, ds, h, k), NEW e, EventOK(e, cs, h)
    PROVE  EventOK(e, ds, k)
BY DEF MayGrow, EventOK, Shown

LEMMA TablesStayOK ==
    ASSUME NEW cs, NEW ds, NEW h, NEW k, MayGrow(cs, ds, h, k), NEW d, TablesOK(d, cs, h)
    PROVE  TablesOK(d, ds, k)
BY DEF MayGrow, TablesOK, Shown

LEMMA FoldStaysOK ==
    ASSUME NEW cs, NEW ds, NEW h, NEW k, MayGrow(cs, ds, h, k), NEW d, FoldOK(d, cs, h)
    PROVE  FoldOK(d, ds, k)
BY TablesStayOK DEF FoldOK

\* An event of the log that is accepted leaves tables that are true.
LEMMA ProjectIsOK ==
    ASSUME NEW cs, NEW h, NEW d, TablesOK(d, cs, h), NEW e, EventOK(e, cs, h),
           NEW s \in Nat, e.k = "chk" => s \in Numbers
    PROVE  TablesOK(Project(d, e, s), cs, h)
<1> DEFINE Repl == [st : EventStates, g : Nat, ind : Standings, seq : Nat]
           r == Project(d, e, s)
<1>0. /\ e \in MetaEvents /\ d \in MetaTables
      /\ d.chks \in SUBSET Numbers /\ d.commit \in [Numbers -> Nat]
      /\ d.repl \in [Numbers -> Repl]
  BY DEF TablesOK, EventOK, MetaTables
<1>1. CASE e.k = "chk"
  <2> DEFINE y == [d EXCEPT !.n = s, !.chks = d.chks \cup {s}]
  <2>1. r = y
    BY <1>0, <1>1 DEF Project, MetaTables
  <2>2. d.chks \cup {s} \in SUBSET Numbers
    BY <1>0, <1>1
  <2>3. y \in MetaTables
    BY <1>0, <2>2 DEF MetaTables
  <2>4. y.commit = d.commit /\ y.repl = d.repl
    BY <1>0 DEF MetaTables
  <2> QED BY <2>1, <2>3, <2>4 DEF TablesOK
<1>2. CASE e.k = "commit"
  <2> DEFINE z == [d.commit EXCEPT ![e.c] = e.g]
             y == [d EXCEPT !.n = s, !.commit = z]
  <2>1. r = y
    BY <1>0, <1>2 DEF Project, MetaTables
  <2>2. z \in [Numbers -> Nat] /\ Introduces(cs, e.c, e.g)
        /\ \A c \in Numbers : z[c] = IF c = e.c THEN e.g ELSE d.commit[c]
    BY <1>0, <1>2 DEF EventOK, MetaEvents
  <2> HIDE DEF z
  <2>3. y \in MetaTables
    BY <1>0, <2>2 DEF MetaTables
  <2>4. y.commit = z /\ y.repl = d.repl
    BY <1>0 DEF MetaTables
  <2> HIDE DEF y
  <2>5. \A c \in Numbers : z[c] # 0 => Introduces(cs, c, z[c])
    BY <2>2 DEF TablesOK
  <2> QED BY <2>1, <2>3, <2>4, <2>5 DEF TablesOK
<1>3. CASE e.k = "repl"
  <2> DEFINE x == [st |-> e.st, g |-> e.g, ind |-> e.ind, seq |-> s]
             z == [d.repl EXCEPT ![e.c] = x]
             y == [d EXCEPT !.n = s, !.repl = z]
  <2>1. r = y
    BY <1>0, <1>3 DEF Project, MetaTables
  <2>2. x \in Repl /\ (x.st = "present" => Shown(h, x.g))
    BY <1>0, <1>3 DEF MetaEvents, EventOK
  <2> HIDE DEF x, Repl
  <2>3. z \in [Numbers -> Repl] /\ \A c \in Numbers : z[c] = IF c = e.c THEN x ELSE d.repl[c]
    BY <1>0, <2>2
  <2> HIDE DEF z
  <2>4. y \in MetaTables
    BY <1>0, <2>3 DEF MetaTables, Repl
  <2>5. y.commit = d.commit /\ y.repl = z
    BY <1>0 DEF MetaTables
  <2> HIDE DEF y
  <2>6. \A c \in Numbers : z[c].st = "present" => Shown(h, z[c].g)
    BY <2>2, <2>3 DEF TablesOK
  <2> QED BY <2>1, <2>4, <2>5, <2>6 DEF TablesOK
<1>4. CASE e.k = "dest"
  <2> DEFINE x == [st |-> e.st, loc |-> e.loc]
             y == [d EXCEPT !.n = s, !.dest = x, !.destSeq = s, !.topoSeq = s]
  <2>1. r = y
    BY <1>4 DEF Project
  <2>2. x \in [st : EventStates, loc : Locators \cup {""}]
    BY <1>0 DEF MetaEvents
  <2> HIDE DEF x
  <2>3. y \in MetaTables /\ y.commit = d.commit /\ y.repl = d.repl
    BY <1>0, <2>2 DEF MetaTables
  <2> QED BY <2>1, <2>3 DEF TablesOK
<1>5. CASE e.k = "topo"
  <2> DEFINE y == [d EXCEPT !.n = s, !.topoSeq = s, !.ind = e.ind]
  <2>1. r = y
    BY <1>5 DEF Project
  <2>2. y \in MetaTables /\ y.commit = d.commit /\ y.repl = d.repl
    BY <1>0 DEF MetaTables, MetaEvents
  <2> QED BY <2>1, <2>2 DEF TablesOK
<1> QED BY <1>0, <1>1, <1>2, <1>3, <1>4, <1>5 DEF MetaEvents, EventKinds

\* The tables of a log with one more event.
LEMMA FoldStaysTrue ==
    ASSUME NEW es \in Seq(MetaEvents), NEW cs, NEW h, FoldOK(Folded(es), cs, h),
           NEW e, EventOK(e, cs, h), e.k = "chk" => Len(es) + 1 \in Numbers
    PROVE  FoldOK(Folded(Append(es, e)), cs, h)
<1> DEFINE d == Folded(es)
           s == Len(es) + 1
<1>1. e \in MetaEvents /\ s \in Nat
  BY DEF EventOK
<1>2. Folded(Append(es, e)) = FoldStep(d, e, s)
  BY <1>1, FoldedAppend
<1> HIDE DEF d, s
<1>3. CASE d = <<>> \/ ~Accepted(d[1], e)
  BY <1>2, <1>3 DEF FoldStep, FoldOK
<1>4. CASE ~(d = <<>> \/ ~Accepted(d[1], e))
  <2>1. Folded(Append(es, e)) = <<Project(d[1], e, s)>>
    BY <1>2, <1>4 DEF FoldStep
  <2>2. TablesOK(d[1], cs, h)
    BY <1>4 DEF FoldOK, d
  <2>3. TablesOK(Project(d[1], e, s), cs, h)
    BY <1>1, <2>2, ProjectIsOK DEF s
  <2> QED BY <2>1, <2>3 DEF FoldOK
<1> QED BY <1>3, <1>4

LEMMA ChainStaysOK ==
    ASSUME NEW cs, NEW n \in Nat, NEW m \in Nat, n <= m, ChainOK(cs, n)
    PROVE  ChainOK(cs, m)
<1> DEFINE C(x) == [par : Nat, files : SUBSET (1 .. x), n : Nat]
<1>1. C(n) \subseteq C(m)
  <2>1. 1 .. n \subseteq 1 .. m
    OBVIOUS
  <2> QED BY <2>1
<1>2. cs \in Seq(C(n))
  BY DEF ChainOK
<1>3. cs \in Seq(C(m))
  <2> HIDE DEF C
  <2> QED BY <1>1, <1>2
<1> QED BY <1>3 DEF ChainOK

LEMMA ChainFiles ==
    ASSUME NEW cs, NEW n, ChainOK(cs, n), NEW i \in 1 .. Len(cs)
    PROVE  cs[i].files \subseteq 1 .. n /\ cs[i].n \in Nat
<1> DEFINE C == [par : Nat, files : SUBSET (1 .. n), n : Nat]
<1>1. cs \in Seq(C)
  BY DEF ChainOK
<1>2. cs[i] \in C
  <2> HIDE DEF C
  <2> QED BY <1>1
<1> QED BY <1>2

LEMMA ProcStaysOK ==
    ASSUME NEW w, NEW cs, NEW h, NEW k, h \subseteq k, NEW n \in Nat, NEW m \in Nat, n <= m,
           ProcOK(w, cs, h, n)
    PROVE  ProcOK(w, cs, k, m)
BY DEF ProcOK, Shown

\* Record: the log, and the tables it or the commands before have left.
LEMMA RecordKeeps ==
    ASSUME MetaInv, NEW e, EventOK(e, commits, held), Record(e),
           UNCHANGED <<commits, tip, held>>
    PROVE  LogPart' /\ TablePart' /\ BranchPart' /\ Len(mlog') = Len(mlog) + 1
<1>1. /\ mlog \in Seq(MetaEvents) /\ e \in MetaEvents /\ mlog' = Append(mlog, e)
      /\ commits' = commits /\ tip' = tip /\ held' = held
  BY DEF MetaInv, LogPart, EventOK, Record
<1>2. /\ mlog' \in Seq(MetaEvents) /\ Len(mlog) \in Nat /\ Len(mlog') = Len(mlog) + 1
      /\ mlog'[Len(mlog) + 1] = e /\ \A s \in 1 .. Len(mlog) : mlog'[s] = mlog[s]
  BY <1>1
<1>3. LogPart'
  <2>1. ASSUME NEW s \in 1 .. Len(mlog') PROVE EventOK(mlog'[s], commits, held)
    <3>1. s \in 1 .. Len(mlog) \/ s = Len(mlog) + 1
      BY <1>2
    <3> QED BY <1>2, <3>1 DEF MetaInv, LogPart
  <2> QED BY <1>1, <1>2, <2>1 DEF LogPart
<1>4. FoldOK(Folded(mlog'), commits, held)
  <2>1. Len(mlog) + 1 \in Numbers
    BY <1>2, MetaAssumption DEF Record, Room, Numbers
  <2>2. FoldOK(Folded(mlog), commits, held)
    BY DEF MetaInv, TablePart
  <2> QED BY <1>1, <2>1, <2>2, FoldStaysTrue
<1>5. TablesOK(mdb', commits, held)
  <2> DEFINE d == Folded(mlog')
  <2>1. mdb' \in {mdb} \cup {d[1] : i \in 1 .. Len(d)}
    BY DEF Record
  <2>2. TablesOK(mdb, commits, held)
    BY DEF MetaInv, TablePart
  <2> HIDE DEF d
  <2>3. CASE mdb' = mdb
    BY <2>2, <2>3
  <2>4. CASE mdb' # mdb
    <3>1. PICK i \in 1 .. Len(d) : mdb' = d[1]
      BY <2>1, <2>4
    <3>2. d # <<>>
      BY <3>1
    <3> QED BY <1>4, <3>1, <3>2 DEF FoldOK, d
  <2> QED BY <2>3, <2>4
<1>6. TablePart'
  BY <1>1, <1>4, <1>5 DEF TablePart
<1>7. BranchPart'
  <2>1. ChainOK(commits, Len(mlog) + 1)
    BY <1>2, ChainStaysOK DEF MetaInv, BranchPart
  <2> QED BY <1>1, <1>2, <2>1 DEF MetaInv, BranchPart
<1> QED BY <1>2, <1>3, <1>6, <1>7

\* apply leaves true tables.
LEMMA ApplyIsOK ==
    ASSUME MetaInv
    PROVE  TablesOK(apply, commits, held)
BY DEF MetaInv, TablePart, apply, Projects, FoldOK

\* The processes, when one of them moves and the branch stays.
LEMMA ProcsKept ==
    ASSUME MetaInv, NEW p \in MetaProcs, NEW w, mp' = [mp EXCEPT ![p] = w],
           ProcOK(w, commits, held', Len(mlog')), commits' = commits, held \subseteq held',
           Len(mlog') \in Nat, Len(mlog) <= Len(mlog'),
           Owns(w) => \/ Owns(mp[p]) /\ w.c = mp[p].c
                      \/ w.c = Len(mlog) + 1
    PROVE  ProcPart'
<1>0. Len(mlog) \in Nat /\ mp \in [MetaProcs -> MetaProc] /\ w \in MetaProc
  BY DEF MetaInv, LogPart, ProcPart, ProcOK
<1>1. mp' \in [MetaProcs -> MetaProc] /\ mp'[p] = w
      /\ \A q \in MetaProcs : q # p => mp'[q] = mp[q]
  BY <1>0
<1>2. ASSUME NEW q \in MetaProcs PROVE ProcOK(mp'[q], commits', held', Len(mlog'))
  <2>1. ProcOK(mp[q], commits, held, Len(mlog))
    BY DEF MetaInv, ProcPart
  <2>2. ProcOK(mp[q], commits, held', Len(mlog'))
    BY <1>0, <2>1, ProcStaysOK
  <2> QED BY <1>1, <2>2
<1>3. \A q \in MetaProcs : Owns(mp[q]) => mp[q].c # Len(mlog) + 1
  BY <1>0 DEF MetaInv, ProcPart, ProcOK
<1>4. ASSUME NEW q \in MetaProcs, q # p, Owns(w), Owns(mp[q]) PROVE w.c # mp[q].c
  BY <1>3, <1>4 DEF MetaInv, ProcPart
<1>5. \A q, r \in MetaProcs :
          q # r /\ Owns(mp'[q]) /\ Owns(mp'[r]) => mp'[q].c # mp'[r].c
  BY <1>1, <1>4 DEF MetaInv, ProcPart
<1> QED BY <1>1, <1>2, <1>5 DEF ProcPart

LEMMA IdleIsOK ==
    ASSUME NEW cs, NEW h, NEW n
    PROVE  ProcOK(MIdle, cs, h, n) /\ ~Owns(MIdle)
BY DEF ProcOK, MIdle, MetaProc, MetaPcs, Owns, Standings, EventStates

-----------------------------------------------------------------------------
(* Every command keeps the invariant.                                      *)

LEMMA MetaInitOK == MetaInit => MetaInv
<1> SUFFICES ASSUME MetaInit PROVE MetaInv
  OBVIOUS
<1> DEFINE a == Topology("independent")
           b == Destination("active", conf)
<1>1. a \in MetaEvents /\ b \in MetaEvents /\ a.k = "topo" /\ b.k = "dest"
      /\ conf \in Locators /\ mlog = <<a, b>>
  BY DEF MetaInit, Topology, Destination, Event, MetaEvents, EventKinds, EventStates, Standings
<1>2. EventOK(a, commits, held) /\ EventOK(b, commits, held)
  BY <1>1 DEF EventOK
<1> HIDE DEF a, b
<1>3. /\ mlog = Append(Append(<<>>, a), b) /\ mlog \in Seq(MetaEvents) /\ Len(mlog) = 2
      /\ <<>> \in Seq(MetaEvents) /\ Append(<<>>, a) \in Seq(MetaEvents)
      /\ \A s \in 1 .. 2 : mlog[s] \in {a, b}
  BY <1>1
<1>4. LogPart
  BY <1>2, <1>3 DEF LogPart
<1>5. EmptyMetaDb \in MetaTables
  <2>1. \A c \in Numbers : NoRepl \in [st : EventStates, g : Nat, ind : Standings, seq : Nat]
    BY DEF NoRepl, EventStates, Standings
  <2> QED BY <2>1 DEF EmptyMetaDb, MetaTables, Numbers, EventStates, Standings
<1>6. TablesOK(EmptyMetaDb, commits, held)
  BY <1>5 DEF TablesOK, EmptyMetaDb, Numbers, NoRepl
<1>7. FoldOK(Folded(<<>>), commits, held)
  BY <1>6, FoldedEmpty DEF FoldOK
<1>8. FoldOK(Folded(Append(<<>>, a)), commits, held)
  BY <1>1, <1>2, <1>3, <1>7, FoldStaysTrue
<1>9. FoldOK(Folded(mlog), commits, held)
  BY <1>1, <1>2, <1>3, <1>8, FoldStaysTrue
<1>10. Folded(mlog) # <<>>
  <2>1. Folded(Append(<<>>, a)) = FoldStep(<<EmptyMetaDb>>, a, 1)
    <3>1. Len(<<>>) + 1 = 1
      OBVIOUS
    <3> QED BY <1>1, <1>3, <3>1, FoldedAppend, FoldedEmpty
  <2>2. Folded(Append(<<>>, a)) = <<Project(EmptyMetaDb, a, 1)>>
    BY <1>1, <2>1 DEF FoldStep, Accepted
  <2>3. Folded(mlog) = FoldStep(<<Project(EmptyMetaDb, a, 1)>>, b, 2)
    <3>1. Len(Append(<<>>, a)) + 1 = 2
      OBVIOUS
    <3> QED BY <1>1, <1>3, <2>2, <3>1, FoldedAppend
  <2> QED BY <1>1, <2>3 DEF FoldStep, Accepted
<1>11. TablePart
  BY <1>9, <1>10 DEF TablePart, FoldOK, MetaInit
<1>12. BranchPart
  BY <1>3 DEF BranchPart, ChainOK, MetaInit
<1>13. ProcPart
  <2>1. \A p \in MetaProcs : mp[p] = MIdle
    BY DEF MetaInit
  <2>2. MIdle \in MetaProc
    BY IdleIsOK DEF ProcOK
  <2>3. mp \in [MetaProcs -> MetaProc]
    BY <2>2 DEF MetaInit
  <2> QED BY <2>1, <2>3, IdleIsOK DEF ProcPart
<1>14. RemotePart
  BY <1>1 DEF RemotePart, MetaInit
<1> QED BY <1>4, <1>11, <1>12, <1>13, <1>14 DEF MetaInv

LEMMA NewOwner ==
    ASSUME NEW c \in Nat, NEW r \in BOOLEAN
    PROVE  LET w == [MIdle EXCEPT !.pc = "parent", !.c = c, !.replicate = r]
           IN  w \in MetaProc /\ w.pc = "parent" /\ w.c = c
BY DEF MIdle, MetaProc, MetaPcs, Standings, EventStates

LEMMA CheckpointKeeps ==
    ASSUME MetaInv, NEW p \in MetaProcs, checkpoint(p)
    PROVE  MetaInv'
<1>1. EventOK(Checkpoint, commits, held)
  BY DEF EventOK, Checkpoint, Event, MetaEvents, EventKinds, EventStates, Standings
<1>2. /\ Record(Checkpoint) /\ commits' = commits /\ tip' = tip /\ held' = held
      /\ remote' = remote /\ conf' = conf
  BY DEF checkpoint
<1>3. LogPart' /\ TablePart' /\ BranchPart' /\ Len(mlog') = Len(mlog) + 1
  BY <1>1, <1>2, RecordKeeps
<1>4. PICK r \in BOOLEAN :
         mp' = [mp EXCEPT ![p] = [MIdle EXCEPT !.pc = "parent", !.c = Len(mlog) + 1, !.replicate = r]]
  BY DEF checkpoint, MetaSet
<1> DEFINE w == [MIdle EXCEPT !.pc = "parent", !.c = Len(mlog) + 1, !.replicate = r]
<1>5. Len(mlog) \in Nat
  BY DEF MetaInv, LogPart
<1>6. w \in MetaProc /\ w.pc = "parent" /\ w.c = Len(mlog) + 1
  <2>1. Len(mlog) + 1 \in Nat
    BY <1>5
  <2> QED BY <2>1, NewOwner
<1>7. ProcOK(w, commits, held', Len(mlog'))
  <2>1. \A i \in 1 .. Len(commits) : commits[i].files \subseteq 1 .. Len(mlog)
    BY ChainFiles DEF MetaInv, BranchPart
  <2>2. \A i \in 1 .. Len(commits) : Len(mlog) + 1 \notin commits[i].files
    BY <1>5, <2>1
  <2>3. Len(mlog) + 1 \in 1 .. Len(mlog')
    BY <1>3, <1>5
  <2> HIDE DEF w
  <2> QED BY <1>6, <2>2, <2>3 DEF ProcOK, Owns
<1>8. ProcPart'
  <2> HIDE DEF w
  <2>1. mp' = [mp EXCEPT ![p] = w]
    BY <1>4 DEF w
  <2>2. held \subseteq held' /\ Len(mlog') \in Nat /\ Len(mlog) <= Len(mlog')
    BY <1>2, <1>3, <1>5
  <2> QED BY <1>2, <1>6, <1>7, <2>1, <2>2, ProcsKept
<1>9. RemotePart'
  BY <1>2 DEF MetaInv, RemotePart
<1> QED BY <1>3, <1>8, <1>9 DEF MetaInv

\* Steps that only move a process, with what it knows.
LEMMA MoveKeeps ==
    ASSUME MetaInv, NEW p \in MetaProcs, NEW w, mp' = [mp EXCEPT ![p] = w],
           ProcOK(w, commits, held, Len(mlog)), Owns(w) => Owns(mp[p]) /\ w.c = mp[p].c,
           mdb' = mdb \/ mdb' = apply,
           UNCHANGED <<mlog, commits, tip, remote, conf, held>>
    PROVE  MetaInv'
<1>1. Len(mlog) \in Nat
  BY DEF MetaInv, LogPart
<1>2. ProcPart'
  <2>1. /\ commits' = commits /\ held \subseteq held' /\ Len(mlog') \in Nat
        /\ Len(mlog) <= Len(mlog') /\ ProcOK(w, commits, held', Len(mlog'))
    BY <1>1
  <2> QED BY <2>1, ProcsKept
<1>3. TablesOK(mdb', commits, held)
  BY ApplyIsOK DEF MetaInv, TablePart
<1>4. LogPart' /\ TablePart' /\ BranchPart' /\ RemotePart'
  BY <1>3 DEF MetaInv, LogPart, TablePart, BranchPart, RemotePart
<1> QED BY <1>2, <1>4 DEF MetaInv

LEMMA ReadTreeKeeps ==
    ASSUME MetaInv, NEW p \in MetaProcs, read_tree(p)
    PROVE  MetaInv'
<1> DEFINE w == [mp[p] EXCEPT !.pc = "commit", !.par = tip]
<1>1. mp[p] \in MetaProc /\ ProcOK(mp[p], commits, held, Len(mlog)) /\ mp[p].pc = "parent"
      /\ tip \in Nat
  BY DEF MetaInv, ProcPart, read_tree, MetaAt, BranchPart, ChainOK
<1>2. w \in MetaProc /\ w.pc = "commit" /\ w.c = mp[p].c
  BY <1>1 DEF MetaProc, MetaPcs
<1>3. ProcOK(w, commits, held, Len(mlog)) /\ Owns(w) /\ Owns(mp[p])
  <2> HIDE DEF w
  <2> QED BY <1>1, <1>2 DEF ProcOK, Owns
<1>4. mp' = [mp EXCEPT ![p] = w] /\ mdb' = mdb
      /\ UNCHANGED <<mlog, commits, tip, remote, conf, held>>
  BY DEF read_tree, MetaSet
<1> HIDE DEF w
<1> QED BY <1>2, <1>3, <1>4, MoveKeeps

LEMMA UpdateRefKeeps ==
    ASSUME MetaInv, NEW p \in MetaProcs, update_ref(p)
    PROVE  MetaInv'
<1>1. /\ mp[p] \in MetaProc /\ ProcOK(mp[p], commits, held, Len(mlog)) /\ mp[p].pc = "commit"
      /\ Len(mlog) \in Nat /\ ChainOK(commits, Len(mlog)) /\ tip = Len(commits)
  BY DEF MetaInv, ProcPart, update_ref, MetaAt, BranchPart, LogPart
<1>2. CASE tip # mp[p].par
  <2>1. mp' = [mp EXCEPT ![p] = MIdle] /\ mdb' = mdb
        /\ UNCHANGED <<mlog, commits, tip, remote, conf, held>>
    BY <1>2 DEF update_ref, MetaStop, MetaSet
  <2> QED BY <2>1, IdleIsOK, MoveKeeps
<1>3. CASE tip = mp[p].par
  <2> DEFINE k == NewCommit(p)
             c == mp[p].c
             n == Len(mlog)
             ds == Append(commits, k)
             w == [mp[p] EXCEPT !.pc = "record", !.g = Len(commits) + 1]
  <2>1. /\ commits' = ds /\ tip' = Len(commits) + 1 /\ mp' = [mp EXCEPT ![p] = w]
        /\ UNCHANGED <<mlog, mdb, remote, conf, held>>
    BY <1>3 DEF update_ref, MetaSet
  <2>2. c \in 1 .. n /\ \A i \in 1 .. Len(commits) : c \notin commits[i].files
    BY <1>1 DEF ProcOK, Owns
  <2>3. Len(commits) \in Nat /\ (Len(commits) # 0 => Len(commits) \in 1 .. Len(commits))
    BY <1>1 DEF ChainOK
  <2> DEFINE old == IF Len(commits) = 0 THEN [files |-> {}, n |-> 0] ELSE commits[Len(commits)]
  <2>4. old.files \subseteq 1 .. n /\ old.n \in Nat /\ \A d \in old.files : d <= old.n
    <3>1. CASE Len(commits) = 0
      BY <3>1
    <3>2. CASE Len(commits) # 0
      BY <1>1, <2>3, <3>2, ChainFiles DEF ChainOK
    <3> QED BY <3>1, <3>2
  <2>5. k = [par |-> Len(commits), files |-> old.files \cup {c},
             n |-> IF old.n > c THEN old.n ELSE c]
    BY <1>1, <1>3 DEF NewCommit
  <2>6. /\ k.par = Len(commits) /\ k.n \in Nat /\ k.files = old.files \cup {c}
        /\ k \in [par : Nat, files : SUBSET (1 .. n), n : Nat]
        /\ \A d \in k.files : d <= k.n
    <3> HIDE DEF k, old, c, n
    <3>1. c \in Nat /\ old.files \cup {c} \in SUBSET (1 .. n) /\ n \in Nat
      BY <1>1, <2>2, <2>4 DEF n
    <3>2. (IF old.n > c THEN old.n ELSE c) \in Nat
      BY <2>4, <3>1
    <3>3. \A d \in old.files \cup {c} : d <= IF old.n > c THEN old.n ELSE c
      <4> SUFFICES ASSUME NEW d \in old.files \cup {c}
                   PROVE  d <= IF old.n > c THEN old.n ELSE c
        OBVIOUS
      <4>1. d \in Nat
        BY <3>1
      <4>2. CASE d = c
        BY <2>4, <3>1, <4>2
      <4>3. CASE d \in old.files
        BY <2>4, <3>1, <4>1, <4>3
      <4> QED BY <4>2, <4>3
    <3> QED BY <2>3, <2>5, <3>1, <3>2, <3>3
  <2>7. k.files = (IF Len(commits) = 0 THEN {} ELSE commits[Len(commits)].files) \cup {c}
    BY <2>6
  <2>8. /\ ChainOK(ds, n) /\ Introduces(ds, c, Len(commits) + 1)
        /\ \A d, g : Introduces(commits, d, g) => Introduces(ds, d, g)
    <3> HIDE DEF k, old, c, n
    <3>1. n \in Nat /\ ChainOK(commits, n)
      BY <1>1 DEF n
    <3> QED BY <2>2, <2>6, <2>7, <3>1, ChainGrows
  <2>9. /\ Len(ds) = Len(commits) + 1 /\ ds[Len(commits) + 1] = k
        /\ \A i \in 1 .. Len(commits) : ds[i] = commits[i]
    <3> DEFINE C == [par : Nat, files : SUBSET (1 .. n), n : Nat]
    <3>1. commits \in Seq(C) /\ k \in C
      BY <1>1, <2>6 DEF ChainOK
    <3> HIDE DEF C, k
    <3> QED BY <3>1
  <2>10. w \in MetaProc /\ w.pc = "record" /\ w.c = c /\ w.g = Len(commits) + 1
    <3> DEFINE x == Len(commits) + 1
    <3>1. x \in Nat
      BY <2>3
    <3> HIDE DEF x
    <3>2. [mp[p] EXCEPT !.pc = "record", !.g = x] \in MetaProc
          /\ [mp[p] EXCEPT !.pc = "record", !.g = x].pc = "record"
          /\ [mp[p] EXCEPT !.pc = "record", !.g = x].c = mp[p].c
          /\ [mp[p] EXCEPT !.pc = "record", !.g = x].g = x
      BY <1>1, <3>1 DEF MetaProc, MetaPcs
    <3> QED BY <3>2 DEF x
  <2> HIDE DEF k, old, c, n, ds, w
  <2>11. MayGrow(commits, ds, held, held)
    BY <2>8 DEF MayGrow
  <2>12. LogPart'
    BY <2>1, <2>11, EventStaysOK DEF MetaInv, LogPart
  <2>13. TablePart'
    BY <2>1, <2>11, TablesStayOK, FoldStaysOK DEF MetaInv, TablePart
  <2>14. BranchPart'
    BY <2>1, <2>8, <2>9 DEF BranchPart, n
  <2>15. ProcPart'
    <3>1. mp' \in [MetaProcs -> MetaProc] /\ mp'[p] = w
          /\ \A q \in MetaProcs : q # p => mp'[q] = mp[q]
      BY <2>1, <2>10 DEF MetaInv, ProcPart
    <3>2. ProcOK(w, ds, held, n) /\ ~Owns(w)
      BY <2>8, <2>10 DEF ProcOK, Owns
    <3>3. ASSUME NEW q \in MetaProcs, q # p PROVE ProcOK(mp[q], ds, held, n)
      <4>1. ProcOK(mp[q], commits, held, n)
        BY DEF MetaInv, ProcPart, n
      <4>2. ASSUME Owns(mp[q]), NEW i \in 1 .. Len(ds) PROVE mp[q].c \notin ds[i].files
        <5>1. mp[q].c # c /\ \A j \in 1 .. Len(commits) : mp[q].c \notin commits[j].files
          BY <1>1, <3>3, <4>1, <4>2 DEF MetaInv, ProcPart, ProcOK, Owns, c
        <5>2. i \in 1 .. Len(commits) \/ i = Len(commits) + 1
          BY <2>3, <2>9
        <5>3. mp[q].c \notin k.files
          BY <2>3, <2>7, <5>1
        <5> QED BY <2>9, <5>1, <5>2, <5>3
      <4> QED BY <2>8, <4>1, <4>2 DEF ProcOK
    <3>4. \A q \in MetaProcs : ProcOK(mp'[q], ds, held, n)
      BY <3>1, <3>2, <3>3
    <3>5. \A q, r \in MetaProcs :
              q # r /\ Owns(mp'[q]) /\ Owns(mp'[r]) => mp'[q].c # mp'[r].c
      BY <3>1, <3>2 DEF MetaInv, ProcPart
    <3> QED BY <2>1, <3>1, <3>4, <3>5 DEF ProcPart, n
  <2>16. RemotePart'
    BY <2>1 DEF MetaInv, RemotePart
  <2> QED BY <2>12, <2>13, <2>14, <2>15, <2>16 DEF MetaInv
<1> QED BY <1>2, <1>3

LEMMA RecordCommitKeeps ==
    ASSUME MetaInv, NEW p \in MetaProcs, record_commit(p)
    PROVE  MetaInv'
<1> DEFINE e == CommitSeen(mp[p].c, mp[p].g)
<1>1. mp[p] \in MetaProc /\ ProcOK(mp[p], commits, held, Len(mlog)) /\ mp[p].pc = "record"
      /\ Len(mlog) \in Nat
  BY DEF MetaInv, ProcPart, record_commit, MetaAt, LogPart
<1>2. EventOK(e, commits, held)
  <2>1. e \in MetaEvents /\ e.k = "commit" /\ e.c = mp[p].c /\ e.g = mp[p].g
    BY <1>1 DEF CommitSeen, Event, MetaEvents, MetaProc, EventKinds, EventStates, Standings
  <2> QED BY <1>1, <2>1 DEF EventOK, ProcOK
<1>3. /\ Record(e) /\ commits' = commits /\ tip' = tip /\ held' = held
      /\ remote' = remote /\ conf' = conf
  BY DEF record_commit
<1> HIDE DEF e
<1>4. LogPart' /\ TablePart' /\ BranchPart' /\ Len(mlog') = Len(mlog) + 1
  BY <1>2, <1>3, RecordKeeps
<1>5. RemotePart'
  BY <1>3 DEF MetaInv, RemotePart
<1>6. held \subseteq held' /\ Len(mlog') \in Nat /\ Len(mlog) <= Len(mlog')
  BY <1>1, <1>3, <1>4
<1>7. PICK w \in {MIdle, [mp[p] EXCEPT !.pc = "list"]} : mp' = [mp EXCEPT ![p] = w]
  BY DEF record_commit, MetaStop, MetaSet
<1>8. ProcOK(w, commits, held', Len(mlog')) /\ ~Owns(w)
  <2>1. CASE w = MIdle
    BY <2>1, IdleIsOK
  <2>2. CASE w = [mp[p] EXCEPT !.pc = "list"]
    <3>1. w \in MetaProc /\ w.pc = "list" /\ w.c = mp[p].c /\ w.g = mp[p].g
      BY <1>1, <2>2 DEF MetaProc, MetaPcs
    <3> QED BY <1>1, <3>1 DEF ProcOK, Owns
  <2> QED BY <1>7, <2>1, <2>2
<1>9. ProcPart'
  BY <1>3, <1>6, <1>7, <1>8, ProcsKept
<1> QED BY <1>4, <1>5, <1>9 DEF MetaInv

LEMMA ReconcileKeeps ==
    ASSUME MetaInv, NEW p \in MetaProcs, reconcile(p)
    PROVE  MetaInv'
<1>1. PICK c \in checkpoints(mlog) : \E g \in introducing(c) :
         mp' = [mp EXCEPT ![p] = [MIdle EXCEPT !.pc = "record", !.c = c, !.g = g]]
  BY DEF reconcile, MetaSet
<1>2. PICK g \in introducing(c) :
         mp' = [mp EXCEPT ![p] = [MIdle EXCEPT !.pc = "record", !.c = c, !.g = g]]
  BY <1>1
<1> DEFINE w == [MIdle EXCEPT !.pc = "record", !.c = c, !.g = g]
<1>3. Len(mlog) \in Nat /\ ChainOK(commits, Len(mlog)) /\ tip = Len(commits)
  BY DEF MetaInv, BranchPart, LogPart
<1>4. Introduces(commits, c, g)
  BY <1>3, IntroducingIs
<1>5. c \in Nat /\ g \in Nat
  BY <1>4 DEF Introduces, checkpoints
<1>6. w \in MetaProc /\ w.pc = "record" /\ w.c = c /\ w.g = g
  BY <1>5 DEF MIdle, MetaProc, MetaPcs, Standings, EventStates
<1>7. mp' = [mp EXCEPT ![p] = w] /\ mdb' = apply
      /\ UNCHANGED <<mlog, commits, tip, remote, conf, held>>
  BY <1>2 DEF reconcile
<1> HIDE DEF w
<1>8. ProcOK(w, commits, held, Len(mlog)) /\ ~Owns(w)
  BY <1>4, <1>6 DEF ProcOK, Owns
<1> QED BY <1>7, <1>8, MoveKeeps

LEMMA ReplicateKeeps ==
    ASSUME MetaInv, NEW p \in MetaProcs, replicate_checkpoint(p)
    PROVE  MetaInv'
<1>1. mp[p] \in MetaProc /\ ProcOK(mp[p], commits, held, Len(mlog)) /\ mp[p].pc = "list"
  BY DEF MetaInv, ProcPart, replicate_checkpoint, MetaAt
<1>2. mdb' = apply /\ UNCHANGED <<mlog, commits, tip, remote, conf, held>>
  BY DEF replicate_checkpoint
<1>3. PICK w \in {MIdle, [mp[p] EXCEPT !.pc = "push", !.loc = mdb'.dest.loc]} :
         mp' = [mp EXCEPT ![p] = w]
  BY DEF replicate_checkpoint, MetaStop, MetaSet
<1>4. mdb'.dest.loc \in Locators \cup {""}
  BY <1>2, ApplyIsOK DEF TablesOK, MetaTables
<1>5. ProcOK(w, commits, held, Len(mlog)) /\ ~Owns(w)
  <2>1. CASE w = MIdle
    BY <2>1, IdleIsOK
  <2>2. CASE w = [mp[p] EXCEPT !.pc = "push", !.loc = mdb'.dest.loc]
    <3>1. w \in MetaProc /\ w.pc = "push" /\ w.c = mp[p].c /\ w.g = mp[p].g
      BY <1>1, <1>4, <2>2 DEF MetaProc, MetaPcs
    <3> QED BY <1>1, <3>1 DEF ProcOK, Owns
  <2> QED BY <1>3, <2>1, <2>2
<1> QED BY <1>2, <1>3, <1>5, MoveKeeps

LEMMA CheckDestinationKeeps ==
    ASSUME MetaInv, NEW p \in MetaProcs, check_destination(p)
    PROVE  MetaInv'
<1>1. mdb' = apply /\ UNCHANGED <<mlog, commits, tip, remote, conf, held>>
  BY DEF check_destination
<1>2. PICK c \in mdb'.chks, pc \in {"push", "check"} :
         /\ mdb'.commit[c] # 0
         /\ mp' = [mp EXCEPT ![p] = [MIdle EXCEPT !.pc = pc, !.c = c, !.g = mdb'.commit[c],
                                                  !.loc = mdb'.dest.loc]]
  BY DEF check_destination, MetaSet
<1> DEFINE g == mdb'.commit[c]
           l == mdb'.dest.loc
           w == [MIdle EXCEPT !.pc = pc, !.c = c, !.g = g, !.loc = l]
<1>3. TablesOK(mdb', commits, held)
  BY <1>1, ApplyIsOK
<1>4. c \in Nat /\ g \in Nat /\ l \in Locators \cup {""} /\ Introduces(commits, c, g)
  <2>1. /\ mdb'.chks \in SUBSET Numbers /\ mdb'.commit \in [Numbers -> Nat]
        /\ mdb'.dest.loc \in Locators \cup {""}
    BY <1>3 DEF TablesOK, MetaTables
  <2>2. c \in Numbers
    BY <1>2, <2>1
  <2>3. Introduces(commits, c, g)
    BY <1>2, <1>3, <2>2 DEF TablesOK
  <2>4. g \in Nat
    BY <2>1, <2>2
  <2>5. c \in Nat
    BY <2>2 DEF Numbers
  <2> QED BY <2>1, <2>3, <2>4, <2>5
<1>5. mp' = [mp EXCEPT ![p] = w]
  BY <1>2
<1> HIDE DEF g, l
<1>6. w \in MetaProc /\ w.pc = pc /\ w.c = c /\ w.g = g
  BY <1>4 DEF MIdle, MetaProc, MetaPcs, Standings, EventStates
<1>7. w.st = ""
  BY DEF MIdle
<1> HIDE DEF w
<1>8. ProcOK(w, commits, held, Len(mlog)) /\ ~Owns(w)
  BY <1>4, <1>6, <1>7 DEF ProcOK, Owns
<1> QED BY <1>1, <1>5, <1>8, MoveKeeps

LEMMA ObserveDestinationKeeps ==
    ASSUME MetaInv, NEW p \in MetaProcs, observe_destination(p)
    PROVE  MetaInv'
<1> DEFINE i == assess_metadata_independence(mdb, mp[p].loc)
           u == [mp[p] EXCEPT !.ind = i]
           v == [mp[p] EXCEPT !.pc = "repl", !.ind = "unknown", !.st = "error"]
<1>1. mp[p] \in MetaProc /\ ProcOK(mp[p], commits, held, Len(mlog)) /\ mp[p].pc \in {"push", "check"}
  BY DEF MetaInv, ProcPart, observe_destination
<1>2. i \in Standings
  BY DEF assess_metadata_independence, MetaInv, TablePart, TablesOK, MetaTables, Standings
<1>3. PICK w \in {u, v} : mp' = [mp EXCEPT ![p] = w]
  BY DEF observe_destination, MetaSet
<1>4. mdb' = mdb /\ UNCHANGED <<mlog, commits, tip, remote, conf, held>>
  BY DEF observe_destination
<1> HIDE DEF i
<1>5. u \in MetaProc /\ u.pc = mp[p].pc /\ u.c = mp[p].c /\ u.g = mp[p].g
  BY <1>1, <1>2 DEF MetaProc
<1>6. v \in MetaProc /\ v.pc = "repl" /\ v.c = mp[p].c /\ v.g = mp[p].g /\ v.st = "error"
  BY <1>1 DEF MetaProc, MetaPcs, Standings, EventStates
<1> HIDE DEF u, v
<1>7. ProcOK(w, commits, held, Len(mlog)) /\ ~Owns(w)
  BY <1>1, <1>3, <1>5, <1>6 DEF ProcOK, Owns
<1> QED BY <1>3, <1>4, <1>7, MoveKeeps

LEMMA PushKeeps ==
    ASSUME MetaInv, NEW p \in MetaProcs, push(p)
    PROVE  MetaInv'
<1>1. mp[p] \in MetaProc /\ ProcOK(mp[p], commits, held, Len(mlog)) /\ mp[p].pc = "push"
      /\ Len(mlog) \in Nat
  <2>1. mp[p].pc = "push"
    BY DEF push, MetaAt
  <2> QED BY <2>1 DEF MetaInv, ProcPart, LogPart
<1> DEFINE u == [mp[p] EXCEPT !.pc = "check"]
           v == [mp[p] EXCEPT !.pc = "repl", !.st = "error"]
<1>2. u \in MetaProc /\ u.pc = "check" /\ u.c = mp[p].c /\ u.g = mp[p].g
  BY <1>1 DEF MetaProc, MetaPcs
<1>3. v \in MetaProc /\ v.pc = "repl" /\ v.c = mp[p].c /\ v.g = mp[p].g /\ v.st = "error"
  BY <1>1 DEF MetaProc, MetaPcs, EventStates
<1>4. mlog' = mlog /\ mdb' = mdb /\ commits' = commits /\ tip' = tip /\ conf' = conf
  BY DEF push
<1>5. CASE mp' = [mp EXCEPT ![p] = u] /\ remote' = [remote EXCEPT ![conf] = mp[p].g]
           /\ held' = held \cup {<<conf, mp[p].g>>}
  <2> HIDE DEF u
  <2>1. held \subseteq held' /\ MayGrow(commits, commits, held, held')
    BY <1>5 DEF MayGrow
  <2>2. LogPart'
    BY <1>4, <2>1, EventStaysOK DEF MetaInv, LogPart
  <2>3. TablePart'
    BY <1>4, <2>1, TablesStayOK, FoldStaysOK DEF MetaInv, TablePart
  <2>4. BranchPart'
    BY <1>4 DEF MetaInv, BranchPart
  <2>5. ProcPart'
    <3>1. ProcOK(u, commits, held', Len(mlog')) /\ ~Owns(u)
      BY <1>1, <1>2 DEF ProcOK, Owns
    <3>2. Len(mlog') \in Nat /\ Len(mlog) <= Len(mlog')
      BY <1>1, <1>4
    <3> QED BY <1>4, <1>5, <2>1, <3>1, <3>2, ProcsKept
  <2>6. RemotePart'
    <3>1. mp[p].g \in Nat /\ conf \in Locators /\ remote \in [Locators -> Nat \cup {Foreign}]
      BY <1>1 DEF MetaProc, MetaInv, RemotePart
    <3>2. remote' \in [Locators -> Nat \cup {Foreign}]
          /\ \A l \in Locators : remote'[l] = IF l = conf THEN mp[p].g ELSE remote[l]
      BY <1>5, <3>1
    <3> QED BY <1>4, <1>5, <3>1, <3>2 DEF MetaInv, RemotePart
  <2> QED BY <2>2, <2>3, <2>4, <2>5, <2>6 DEF MetaInv
<1>6. CASE mp' = [mp EXCEPT ![p] = v] /\ UNCHANGED <<remote, held>>
  <2> HIDE DEF v
  <2>1. ProcOK(v, commits, held, Len(mlog)) /\ ~Owns(v)
    BY <1>1, <1>3 DEF ProcOK, Owns
  <2> QED BY <1>4, <1>6, <2>1, MoveKeeps
<1> QED BY <1>5, <1>6 DEF push, MetaSet

LEMMA ObserveRemoteKeeps ==
    ASSUME MetaInv, NEW p \in MetaProcs, observe_remote(p)
    PROVE  MetaInv'
<1>1. mp[p] \in MetaProc /\ ProcOK(mp[p], commits, held, Len(mlog)) /\ mp[p].pc = "check"
  BY DEF MetaInv, ProcPart, observe_remote, MetaAt
<1> DEFINE s == CASE remote[conf] = mp[p].g -> "present"
                  [] remote[conf] = 0 -> "missing"
                  [] OTHER -> "diverged"
           w == [mp[p] EXCEPT !.pc = "repl", !.st = s]
<1>2. Introduces(commits, mp[p].c, mp[p].g) /\ mp[p].g \in Nat /\ mp[p].g # 0
  <2>1. Introduces(commits, mp[p].c, mp[p].g)
    BY <1>1 DEF ProcOK
  <2> QED BY <2>1 DEF Introduces
<1>3. conf \in Locators /\ (remote[conf] = mp[p].g => <<conf, mp[p].g>> \in held)
  BY <1>2 DEF MetaInv, RemotePart, Foreign
<1>4. s \in {"present", "missing", "diverged"} /\ (s = "present" => Shown(held, mp[p].g))
  BY <1>3 DEF Shown
<1>5. mp' = [mp EXCEPT ![p] = w] /\ mdb' = mdb
      /\ UNCHANGED <<mlog, commits, tip, remote, conf, held>>
  BY DEF observe_remote, MetaSet
<1> HIDE DEF s
<1>6. w \in MetaProc /\ w.pc = "repl" /\ w.c = mp[p].c /\ w.g = mp[p].g /\ w.st = s
  BY <1>1, <1>4 DEF MetaProc, MetaPcs, EventStates
<1> HIDE DEF w
<1>7. ProcOK(w, commits, held, Len(mlog)) /\ ~Owns(w)
  BY <1>2, <1>4, <1>6 DEF ProcOK, Owns
<1> QED BY <1>5, <1>7, MoveKeeps

LEMMA RecordReplicationKeeps ==
    ASSUME MetaInv, NEW p \in MetaProcs, record_replication(p)
    PROVE  MetaInv'
<1> DEFINE e == Replication(mp[p].c, mp[p].g, mp[p].st, mp[p].ind)
<1>1. mp[p] \in MetaProc /\ ProcOK(mp[p], commits, held, Len(mlog)) /\ mp[p].pc = "repl"
      /\ Len(mlog) \in Nat
  BY DEF MetaInv, ProcPart, record_replication, MetaAt, LogPart
<1>2. EventOK(e, commits, held)
  <2>1. e \in MetaEvents /\ e.k = "repl" /\ e.g = mp[p].g /\ e.st = mp[p].st
    BY <1>1 DEF Replication, Event, MetaEvents, MetaProc, EventKinds
  <2> QED BY <1>1, <2>1 DEF EventOK, ProcOK
<1>3. /\ Record(e) /\ commits' = commits /\ tip' = tip /\ held' = held
      /\ remote' = remote /\ conf' = conf /\ mp' = [mp EXCEPT ![p] = MIdle]
  BY DEF record_replication, MetaStop, MetaSet
<1> HIDE DEF e
<1>4. LogPart' /\ TablePart' /\ BranchPart' /\ Len(mlog') = Len(mlog) + 1
  BY <1>2, <1>3, RecordKeeps
<1>5. RemotePart'
  BY <1>3 DEF MetaInv, RemotePart
<1>6. held \subseteq held' /\ Len(mlog') \in Nat /\ Len(mlog) <= Len(mlog')
  BY <1>1, <1>3, <1>4
<1>7. ProcPart'
  BY <1>3, <1>6, IdleIsOK, ProcsKept
<1> QED BY <1>4, <1>5, <1>7 DEF MetaInv

\* An event that no process waits for.
LEMMA NoteKeeps ==
    ASSUME MetaInv, NEW e \in MetaEvents, e.k \in {"topo", "dest"}, Record(e),
           UNCHANGED <<commits, tip, remote, conf, mp, held>>
    PROVE  MetaInv'
<1>1. EventOK(e, commits, held)
  BY DEF EventOK
<1>2. LogPart' /\ TablePart' /\ BranchPart' /\ Len(mlog') = Len(mlog) + 1
  BY <1>1, RecordKeeps
<1>3. Len(mlog) \in Nat /\ Len(mlog') \in Nat /\ Len(mlog) <= Len(mlog') /\ held \subseteq held
  BY <1>2 DEF MetaInv, LogPart
<1>4. ProcPart'
  <2>1. \A p \in MetaProcs : ProcOK(mp[p], commits, held, Len(mlog'))
    BY <1>3, ProcStaysOK DEF MetaInv, ProcPart
  <2> QED BY <2>1 DEF MetaInv, ProcPart
<1>5. RemotePart'
  BY DEF MetaInv, RemotePart
<1> QED BY <1>2, <1>4, <1>5 DEF MetaInv

LEMMA DestinationKeeps ==
    ASSUME MetaInv, NEW p \in MetaProcs, record_destination(p)
    PROVE  MetaInv'
<1>1. PICK e \in ValidSnapshots : Record(e)
  BY DEF record_destination
<1>2. mdb.dest.loc \in Locators \cup {""}
  BY DEF MetaInv, TablePart, TablesOK, MetaTables
<1>3. e \in MetaEvents /\ e.k = "dest"
  <2>1. PICK st \in {"active", "retired"}, l \in Locators \cup {""} : e = Destination(st, l)
    BY <1>1, <1>2 DEF ValidSnapshots
  <2> QED BY <2>1 DEF Destination, Event, MetaEvents, EventKinds, EventStates, Standings
<1>4. UNCHANGED <<commits, tip, remote, conf, mp, held>>
  BY DEF record_destination
<1> QED BY <1>1, <1>3, <1>4, NoteKeeps

LEMMA TopologyKeeps ==
    ASSUME MetaInv, NEW p \in MetaProcs, set_catalog_location(p)
    PROVE  MetaInv'
<1>1. PICK ind \in {"independent", "overlapping"} : Record(Topology(ind))
  BY DEF set_catalog_location
<1>2. Topology(ind) \in MetaEvents /\ Topology(ind).k = "topo"
  BY <1>1 DEF Topology, Event, MetaEvents, EventKinds, EventStates, Standings
<1>3. UNCHANGED <<commits, tip, remote, conf, mp, held>>
  BY DEF set_catalog_location
<1> QED BY <1>1, <1>2, <1>3, NoteKeeps

LEMMA KillKeeps ==
    ASSUME MetaInv, NEW p \in MetaProcs, MetaKill(p)
    PROVE  MetaInv'
<1>1. mp' = [mp EXCEPT ![p] = MIdle] /\ mdb' = mdb
      /\ UNCHANGED <<mlog, commits, tip, remote, conf, held>>
  BY DEF MetaKill, MetaStop, MetaSet
<1> QED BY <1>1, IdleIsOK, MoveKeeps

LEMMA OutsiderKeeps ==
    ASSUME MetaInv, Outsider
    PROVE  MetaInv'
<1>1. UNCHANGED <<mlog, mdb, commits, tip, mp, held>>
  BY DEF Outsider
<1>2. LogPart' /\ TablePart' /\ BranchPart' /\ ProcPart'
  BY <1>1 DEF MetaInv, LogPart, TablePart, BranchPart, ProcPart
<1>3. RemotePart'
  <2>1. conf \in Locators /\ remote \in [Locators -> Nat \cup {Foreign}]
    BY DEF MetaInv, RemotePart
  <2>2. CASE conf' = conf
    <3>1. PICK l \in Locators, v \in {0, Foreign} : remote' = [remote EXCEPT ![l] = v]
      BY <2>2 DEF Outsider
    <3>2. remote' \in [Locators -> Nat \cup {Foreign}]
          /\ \A k \in Locators : remote'[k] = IF k = l THEN v ELSE remote[k]
      BY <2>1, <3>1
    <3> QED BY <1>1, <2>1, <2>2, <3>1, <3>2 DEF MetaInv, RemotePart
  <2>3. CASE conf' # conf
    <3>1. conf' \in Locators /\ remote' = remote
      BY <2>3 DEF Outsider
    <3> QED BY <1>1, <3>1 DEF MetaInv, RemotePart
  <2> QED BY <2>2, <2>3
<1> QED BY <1>2, <1>3 DEF MetaInv

LEMMA MetaNextKeeps == MetaInv /\ [MetaNext]_metaVars => MetaInv'
<1> SUFFICES ASSUME MetaInv, [MetaNext]_metaVars PROVE MetaInv'
  OBVIOUS
<1>1. ASSUME NEW p \in MetaProcs,
             \/ checkpoint(p) \/ read_tree(p) \/ update_ref(p) \/ record_commit(p) \/ reconcile(p)
             \/ replicate_checkpoint(p) \/ check_destination(p) \/ observe_destination(p)
             \/ push(p) \/ observe_remote(p) \/ record_replication(p)
             \/ record_destination(p) \/ set_catalog_location(p) \/ MetaKill(p)
      PROVE  MetaInv'
  BY <1>1, CheckpointKeeps, ReadTreeKeeps, UpdateRefKeeps, RecordCommitKeeps, ReconcileKeeps,
     ReplicateKeeps, CheckDestinationKeeps, ObserveDestinationKeeps, PushKeeps,
     ObserveRemoteKeeps, RecordReplicationKeeps, DestinationKeeps, TopologyKeeps, KillKeeps
<1>2. CASE UNCHANGED metaVars
  BY <1>2 DEF metaVars, MetaInv, LogPart, TablePart, BranchPart, ProcPart, RemotePart
<1> QED BY <1>1, <1>2, OutsiderKeeps DEF MetaNext

\* In every state of the metadata commands, whoever races, is killed or
\* changes a remote, the branch is one line of commits and the log, the
\* tables and the processes name the commit that added a checkpoint.
THEOREM MetaInvariant == MetaSpec => []MetaInv
BY MetaInitOK, MetaNextKeeps, PTL DEF MetaSpec

\* CheckpointsAreTrue: a recorded commit is on the branch and holds its
\* checkpoint, a checkpoint has one commit, and what counts as protected was
\* shown by a remote.
THEOREM CheckpointsTrue == MetaSpec => []CheckpointsAreTrue
<1>1. ASSUME MetaInv PROVE CheckpointsAreTrue
  <2>1. Len(mlog) \in Nat /\ ChainOK(commits, Len(mlog)) /\ tip = Len(commits)
    BY <1>1 DEF MetaInv, BranchPart, LogPart
  <2>2. \A s \in 1 .. Len(mlog) :
            mlog[s].k = "commit" => Introduces(commits, mlog[s].c, mlog[s].g)
    BY <1>1 DEF MetaInv, LogPart, EventOK
  <2>3. RecordedCommitsStay
    BY <2>1, <2>2, IntroducedIsVerified DEF RecordedCommitsStay
  <2>4. CommitsAgree
    BY <2>1, <2>2, IntroducedOnce DEF CommitsAgree
  <2>5. ProtectedWasHeld
    <3> SUFFICES ASSUME NEW c \in ProtectedCheckpoints(mdb)
                 PROVE  Shown(held, mdb.commit[c])
      BY DEF ProtectedWasHeld, Shown
    <3>1. c \in mdb.chks /\ mdb.repl[c].st = "present" /\ mdb.repl[c].g = mdb.commit[c]
      BY DEF ProtectedCheckpoints
    <3>2. c \in Numbers
      BY <1>1, <3>1 DEF MetaInv, TablePart, TablesOK, MetaTables
    <3> QED BY <1>1, <3>1, <3>2 DEF MetaInv, TablePart, TablesOK
  <2> QED BY <2>3, <2>4, <2>5 DEF CheckpointsAreTrue
<1> QED BY <1>1, MetaInvariant, PTL

-----------------------------------------------------------------------------
(* What an evaluation reads.                                               *)

CopyRow ==
    [state : {"present", "corrupt", "unknown", "missing"},
     result : {"ok", "none", "hash_mismatch", "read_error"}, verified : Nat, seen : Nat,
     standing : {"order", "defect", "unclear"}]
DeviceRow == [checkin : Nat, matched : Nat, fingerprint : {"match", "mismatch"}]
PolicyRow == [version : Nat, active : BOOLEAN, requirements : Requirements]

CollectionStates == {"configured", "homeless", "retired"}

FactsType ==
    [policies : [PolicyIds -> PolicyRow], collections : [PolicyIds -> CollectionStates],
     files : SUBSET FileRefs, identified : SUBSET FileRefs,
     copies : [CopyClaims -> CopyRow], devices : [CatalogDevices -> DeviceRow],
     shared : SUBSET CopyClaims]

\* The times that a policy limits are natural numbers, their limits positive.
LEMMA LimitsType ==
    ASSUME NEW d \in FactsType, NEW c \in CopyClaims, NEW r \in Requirements,
           NEW l \in Limits(d, c, r)
    PROVE  l[1] \in Nat /\ l[2] \in Nat \ {0}
<1>1. ValidRequirements(r)
  BY RequirementsAssumption
<1>2. {r.verification, r.observation, r.checkin} \subseteq Nat \ {0}
  BY <1>1 DEF ValidRequirements
<1>3. d.copies[c].verified \in Nat /\ d.copies[c].seen \in Nat
  BY DEF FactsType, CopyRow
<1>4. ASSUME DeviceOf[c] # Deviceless
      PROVE  /\ d.devices[DeviceOf[c]].checkin \in Nat
             /\ d.devices[DeviceOf[c]].matched \in Nat
  <2>1. DeviceOf[c] \in CatalogDevices
    BY <1>4 DEF CatalogDevices
  <2> QED BY <2>1 DEF FactsType, DeviceRow
<1>5. \/ l = <<d.copies[c].verified, r.verification>>
      \/ l = <<d.copies[c].seen, r.observation>>
      \/ /\ DeviceOf[c] # Deviceless
         /\ \/ l = <<d.devices[DeviceOf[c]].checkin, r.checkin>>
            \/ l = <<d.devices[DeviceOf[c]].matched, r.checkin>>
  BY DEF Limits
<1> QED BY <1>2, <1>3, <1>4, <1>5

LEMMA MinimumTime ==
    ASSUME NEW S \in SUBSET Nat, NEW t \in S
    PROVE  minimum_time(S) \in S /\ minimum_time(S) <= t
<1>1. \E m \in S : \A k \in S : m <= k
  BY LeastNumber
<1> QED BY <1>1 DEF minimum_time

\* The limits of the copies of a policy's identified files.
Limited(d, p, f, c, l) ==
    /\ f \in PolicyFiles(d, p) /\ f \in d.identified /\ c \in CopiesOf(f)
    /\ l \in Limits(d, c, d.policies[p].requirements)

\* The time an evaluation is good for has not come.
Holds(until, now) == until # NoTime => until > now

\* Nothing that was fresh when a policy was evaluated expires before the time
\* the evaluation gives.
LEMMA FreshStays ==
    ASSUME NEW d \in FactsType, NEW p \in PolicyIds, NEW f, NEW c, NEW l,
           Limited(d, p, f, c, l),
           NEW before \in Nat, NEW now \in Nat, before <= now,
           Holds(minimum_time(Expiries(d, p, before)), now),
           Fresh(l[1], l[2], before)
    PROVE  Fresh(l[1], l[2], now)
<1> DEFINE r == d.policies[p].requirements
           L == UNION {Limits(d, b, r) : b \in UNION {CopiesOf(g) : g \in PolicyFiles(d, p)
                                                                          \cap d.identified}}
<1>1. r \in Requirements
  BY DEF FactsType, PolicyRow
<1>2. \A m \in L : m[1] \in Nat /\ m[2] \in Nat \ {0}
  BY <1>1, LimitsType DEF CopiesOf
<1>3. l \in L
  BY DEF Limited
<1>4. Expiries(d, p, before) = {m[1] + m[2] : m \in {n \in L : Fresh(n[1], n[2], before)}}
  BY DEF Expiries
<1> HIDE DEF L
<1>5. Expiries(d, p, before) \in SUBSET Nat
  BY <1>2, <1>4
<1>6. l[1] + l[2] \in Expiries(d, p, before)
  BY <1>3, <1>4
<1>7. \A t \in Expiries(d, p, before) : t > before
  BY <1>2, <1>4 DEF Fresh
<1>8. PICK u \in Nat : u = minimum_time(Expiries(d, p, before)) /\ u > before /\ u <= l[1] + l[2]
  BY <1>5, <1>6, <1>7, MinimumTime
<1>9. u > now
  BY <1>8 DEF NoTime, Holds
<1> QED BY <1>2, <1>3, <1>8, <1>9 DEF Fresh

\* What has expired, or was never known, does not become fresh.
LEMMA StaleStays ==
    ASSUME NEW t \in Nat, NEW a \in Nat, NEW before \in Nat, NEW now \in Nat, before <= now,
           ~Future(t, before), ~Fresh(t, a, before)
    PROVE  ~Fresh(t, a, now)
BY DEF Future, Fresh, NoTime

-----------------------------------------------------------------------------
(* The verdict over time.                                                  *)

\* The copies that count.
Qualified(d, f, r, now) == {c \in CopiesOf(f) : Qualifies(d, c, r, now)}

\* More qualified copies meet no less.
LEMMA MoreIsNoWorse ==
    ASSUME NEW r \in Requirements, NEW T \in SUBSET CopyClaims, NEW S \in SUBSET T,
           ~FailsRequirement(r, S)
    PROVE  ~FailsRequirement(r, T)
<1> DEFINE Dev(Q) == {DeviceOf[c] : c \in Q} \ {Deviceless}
           Site(Q) == {SiteOf[c] : c \in Q}
<1>1. IsFiniteSet(S) /\ IsFiniteSet(T)
  BY PolicyAssumption, FS_Subset
<1>2. IsFiniteSet(Dev(T)) /\ IsFiniteSet(Site(T))
  <2>1. ASSUME NEW g PROVE IsFiniteSet({g[c] : c \in T})
    <3> DEFINE h == [c \in T |-> g[c]]
    <3>1. h \in Surjection(T, {g[c] : c \in T})
      BY DEF Surjection
    <3> QED BY <1>1, <3>1, FS_Surjection
  <2>2. IsFiniteSet({DeviceOf[c] : c \in T}) /\ IsFiniteSet(Site(T))
    BY <2>1
  <2>3. IsFiniteSet({DeviceOf[c] : c \in T} \ {Deviceless})
    BY <2>2, FS_Difference
  <2> QED BY <2>2, <2>3
<1>3. Cardinality(S) <= Cardinality(T) /\ Cardinality(S) \in Nat /\ Cardinality(T) \in Nat
  BY <1>1, FS_Subset, FS_CardinalityType
<1>4. /\ Cardinality(Dev(S)) <= Cardinality(Dev(T))
      /\ Cardinality(Dev(S)) \in Nat /\ Cardinality(Dev(T)) \in Nat
  <2>1. Dev(S) \in SUBSET Dev(T)
    OBVIOUS
  <2> HIDE DEF Dev
  <2> QED BY <1>2, <2>1, FS_Subset, FS_CardinalityType
<1>5. /\ Cardinality(Site(S)) <= Cardinality(Site(T))
      /\ Cardinality(Site(S)) \in Nat /\ Cardinality(Site(T)) \in Nat
  <2>1. Site(S) \in SUBSET Site(T)
    OBVIOUS
  <2> HIDE DEF Site
  <2> QED BY <1>2, <2>1, FS_Subset, FS_CardinalityType
<1>6. {r.copies, r.devices, r.sites} \subseteq Nat
  BY RequirementsAssumption DEF ValidRequirements
<1>7. /\ ~(Cardinality(S) < r.copies) /\ ~(Cardinality(Dev(S)) < r.devices)
      /\ ~(Cardinality(Site(S)) < r.sites)
      /\ ~(r.offsite /\ ~\E c \in S : OffSite(c))
      /\ ~(r.offline /\ S \cap OfflineCopies = {})
      /\ ~(r.encrypted /\ ~\E c \in S \cap EncryptedCopies : OffSite(c))
  BY DEF FailsRequirement
<1>8. /\ ~(Cardinality(T) < r.copies) /\ ~(Cardinality(Dev(T)) < r.devices)
      /\ ~(Cardinality(Site(T)) < r.sites)
  <2> HIDE DEF Dev, Site
  <2> QED BY <1>3, <1>4, <1>5, <1>6, <1>7
<1>9. /\ ~(r.offsite /\ ~\E c \in T : OffSite(c))
      /\ ~(r.offline /\ T \cap OfflineCopies = {})
      /\ ~(r.encrypted /\ ~\E c \in T \cap EncryptedCopies : OffSite(c))
  BY <1>7
<1> QED BY <1>8, <1>9 DEF FailsRequirement

\* What meets a policy is not empty: every policy asks for a copy.
LEMMA SomethingQualifies ==
    ASSUME NEW r \in Requirements, NEW S \in SUBSET CopyClaims, ~FailsRequirement(r, S)
    PROVE  S # {}
<1>1. r.copies \in Nat \ {0}
  BY RequirementsAssumption DEF ValidRequirements
<1>2. ~(Cardinality(S) < r.copies)
  BY DEF FailsRequirement
<1> QED BY <1>1, <1>2, FS_EmptySet

LEMMA MoreIsNoRiskier ==
    ASSUME NEW d, NEW T, NEW S \in SUBSET T, S # {}, ~PermanentLoss(d, S)
    PROVE  ~PermanentLoss(d, T)
BY DEF PermanentLoss

Satisfies(d, r, S) == ~FailsRequirement(r, S) /\ ~PermanentLoss(d, S)

LEMMA VerdictIs ==
    ASSUME NEW d, NEW f, NEW now
    PROVE  LET r == d.policies[PolicyOf[f]].requirements
           IN evaluate_file(d, f, now) =
                IF f \notin d.identified THEN "uncertain"
                ELSE IF Satisfies(d, r, Qualified(d, f, r, now)) THEN "satisfied"
                ELSE IF \E c \in CopiesOf(f) : Doubtful(d, c, r, now) THEN "uncertain"
                ELSE "violated"
BY Zenon DEF evaluate_file, Satisfies, Qualified

\* No time of an identified file's copies is ahead of now.
Settled(d, p, now) ==
    \A f \in PolicyFiles(d, p) \cap d.identified : \A c \in CopiesOf(f) :
        \A l \in Limits(d, c, d.policies[p].requirements) : ~Future(l[1], now)

\* The verdict stays what it was until the time the evaluation gives, but for
\* an uncertainty that the clock may clear.
LEMMA VerdictHolds ==
    ASSUME NEW d \in FactsType, NEW p \in PolicyIds, NEW f \in PolicyFiles(d, p),
           NEW before \in Nat, NEW now \in Nat, before <= now,
           Holds(minimum_time(Expiries(d, p, before)), now),
           evaluate_file(d, f, before) # "uncertain" \/ Settled(d, p, before)
    PROVE  evaluate_file(d, f, now) = evaluate_file(d, f, before)
<1> DEFINE r == d.policies[p].requirements
           Q(t) == Qualified(d, f, r, t)
           Doubt(t) == \E c \in CopiesOf(f) : Doubtful(d, c, r, t)
<1>1. r \in Requirements /\ PolicyOf[f] = p
  BY DEF FactsType, PolicyRow, PolicyFiles
<1>2. \A t : evaluate_file(d, f, t) =
         IF f \notin d.identified THEN "uncertain"
         ELSE IF Satisfies(d, r, Q(t)) THEN "satisfied"
         ELSE IF Doubt(t) THEN "uncertain" ELSE "violated"
  BY <1>1, VerdictIs
<1>3. CASE f \notin d.identified
  BY <1>2, <1>3
<1>4. CASE f \in d.identified
  <2>1. \A c \in CopiesOf(f) : \A l \in Limits(d, c, r) :
           Fresh(l[1], l[2], before) => Fresh(l[1], l[2], now)
    <3> SUFFICES ASSUME NEW c \in CopiesOf(f), NEW l \in Limits(d, c, r),
                        Fresh(l[1], l[2], before)
                 PROVE  Fresh(l[1], l[2], now)
      OBVIOUS
    <3>1. Limited(d, p, f, c, l)
      BY <1>4 DEF Limited
    <3> QED BY <3>1, FreshStays
  <2>2. \A c \in CopiesOf(f) : Doubtful(d, c, r, now) => Doubtful(d, c, r, before)
    BY <2>1 DEF Doubtful
  <2>3. Q(before) \in SUBSET Q(now) /\ Q(now) \in SUBSET CopyClaims
    BY <2>2 DEF Qualified, Qualifies, CopiesOf
  <2>4. CASE Satisfies(d, r, Q(before))
    <3>1. Q(before) # {}
      BY <1>1, <2>3, <2>4, SomethingQualifies DEF Satisfies
    <3> HIDE DEF Q
    <3>2. Satisfies(d, r, Q(now))
      BY <1>1, <2>3, <2>4, <3>1, MoreIsNoWorse, MoreIsNoRiskier DEF Satisfies
    <3> QED BY <1>2, <1>4, <2>4, <3>2
  <2>5. ASSUME \A c \in CopiesOf(f) : Doubtful(d, c, r, now) <=> Doubtful(d, c, r, before)
        PROVE  evaluate_file(d, f, now) = evaluate_file(d, f, before)
    <3>1. Q(now) = Q(before)
      BY <2>5 DEF Qualified, Qualifies
    <3>2. Doubt(now) <=> Doubt(before)
      BY <2>5
    <3> HIDE DEF Q, Doubt
    <3> QED BY <1>2, <3>1, <3>2
  <2>6. CASE ~Satisfies(d, r, Q(before)) /\ ~Doubt(before)
    BY <2>2, <2>5, <2>6
  <2>7. CASE ~Satisfies(d, r, Q(before)) /\ Doubt(before)
    <3>1. Settled(d, p, before)
      <4> HIDE DEF Q, Doubt
      <4> QED BY <1>2, <1>4, <2>7
    <3>2. \A c \in CopiesOf(f) : \A l \in Limits(d, c, r) :
             ~Fresh(l[1], l[2], before) => ~Fresh(l[1], l[2], now)
      <4> SUFFICES ASSUME NEW c \in CopiesOf(f), NEW l \in Limits(d, c, r),
                          ~Fresh(l[1], l[2], before)
                   PROVE  ~Fresh(l[1], l[2], now)
        OBVIOUS
      <4>1. ~Future(l[1], before)
        BY <1>4, <3>1 DEF Settled
      <4>2. l[1] \in Nat /\ l[2] \in Nat \ {0}
        BY <1>1, LimitsType DEF CopiesOf
      <4> QED BY <4>1, <4>2, StaleStays
    <3>3. \A c \in CopiesOf(f) : Doubtful(d, c, r, before) => Doubtful(d, c, r, now)
      BY <3>2 DEF Doubtful
    <3> QED BY <2>2, <2>5, <3>3
  <2> QED BY <2>4, <2>6, <2>7
<1> QED BY <1>3, <1>4

\* What satisfies a policy survives the loss of any one domain.
LEMMA SatisfiedIsSafe ==
    ASSUME NEW d \in FactsType, NEW p \in PolicyIds, NEW f \in PolicyFiles(d, p), NEW now,
           evaluate_file(d, f, now) = "satisfied", NEW x
    PROVE  \E c \in CopiesOf(f) : x \notin Domains(d, c)
                                  /\ Qualifies(d, c, d.policies[p].requirements, now)
<1> DEFINE r == d.policies[p].requirements
           S == Qualified(d, f, r, now)
<1>1. r \in Requirements /\ PolicyOf[f] = p
  BY DEF FactsType, PolicyRow, PolicyFiles
<1>2. Satisfies(d, r, S)
  <2>1. evaluate_file(d, f, now) =
         IF f \notin d.identified THEN "uncertain"
         ELSE IF Satisfies(d, r, S) THEN "satisfied"
         ELSE IF \E c \in CopiesOf(f) : Doubtful(d, c, r, now) THEN "uncertain" ELSE "violated"
    BY <1>1, VerdictIs
  <2> HIDE DEF S
  <2> QED BY <2>1
<1>3. S \in SUBSET CopyClaims
  BY DEF Qualified, CopiesOf
<1>4. S # {}
  BY <1>1, <1>2, <1>3, SomethingQualifies DEF Satisfies
<1>5. \E c \in S : x \notin Domains(d, c)
  BY <1>2, <1>4 DEF Satisfies, PermanentLoss
<1> QED BY <1>5 DEF Qualified

-----------------------------------------------------------------------------
(* Pages.                                                                  *)

Rows == PolicyIds \X FileRefs

LEMMA RowsAreOrdered ==
    /\ Rows \subseteq Nat \X Nat /\ IsFiniteSet(Rows)
    /\ \A y, z \in Rows : y = z \/ Before(y, z) \/ Before(z, y)
    /\ \A y \in Rows : ~Before(y, y)
    /\ \A x, y, z \in Rows : Before(x, y) /\ Before(y, z) => Before(x, z)
<1>1. Rows \subseteq Nat \X Nat /\ IsFiniteSet(Rows)
  BY PolicyAssumption, FS_Product DEF Rows
<1>2. \A y \in Rows : y = <<y[1], y[2]>> /\ y[1] \in Nat /\ y[2] \in Nat
  BY <1>1
<1> QED BY <1>1, <1>2 DEF Before

Below(S, y) == {z \in S : Before(z, y)}
Above(S, y) == {z \in S : Before(y, z)}

LEMMA FirstRow ==
    ASSUME NEW S \in SUBSET Rows, S # {}
    PROVE  \E y \in S : Below(S, y) = {}
<1> DEFINE N == {Cardinality(Below(S, y)) : y \in S}
<1>1. \A y \in S : IsFiniteSet(Below(S, y)) /\ Cardinality(Below(S, y)) \in Nat
  <2>1. \A y : Below(S, y) \in SUBSET Rows
    BY DEF Below
  <2> QED BY <2>1, RowsAreOrdered, FS_Subset, FS_CardinalityType
<1>2. PICK m \in N : \A k \in N : m <= k
  BY <1>1, LeastNumber, N \in SUBSET Nat, N # {}
<1>3. PICK y \in S : m = Cardinality(Below(S, y))
  BY <1>2
<1>4. ASSUME NEW z \in Below(S, y) PROVE FALSE
  <2>1. z \in S /\ Below(S, z) \in SUBSET Below(S, y) /\ z \notin Below(S, z)
    BY <1>4, RowsAreOrdered DEF Below
  <2>2. Below(S, z) # Below(S, y)
    BY <1>4, <2>1
  <2>3. /\ Cardinality(Below(S, z)) \in Nat /\ Cardinality(Below(S, y)) \in Nat
        /\ Cardinality(Below(S, z)) <= Cardinality(Below(S, y))
        /\ Cardinality(Below(S, z)) # Cardinality(Below(S, y))
    BY <1>1, <1>3, <2>1, <2>2, FS_Subset
  <2>4. m <= Cardinality(Below(S, z))
    BY <1>2, <2>1
  <2> QED BY <1>3, <2>3, <2>4
<1> QED BY <1>4

LEMMA LastRow ==
    ASSUME NEW S \in SUBSET Rows, S # {}
    PROVE  \E y \in S : \A z \in S : z = y \/ Before(z, y)
<1> DEFINE N == {Cardinality(Above(S, y)) : y \in S}
<1>1. \A y \in S : IsFiniteSet(Above(S, y)) /\ Cardinality(Above(S, y)) \in Nat
  <2>1. \A y : Above(S, y) \in SUBSET Rows
    BY DEF Above
  <2> QED BY <2>1, RowsAreOrdered, FS_Subset, FS_CardinalityType
<1>2. PICK m \in N : \A k \in N : m <= k
  BY <1>1, LeastNumber, N \in SUBSET Nat, N # {}
<1>3. PICK y \in S : m = Cardinality(Above(S, y))
  BY <1>2
<1>4. ASSUME NEW z \in Above(S, y) PROVE FALSE
  <2>1. z \in S /\ Above(S, z) \in SUBSET Above(S, y) /\ z \notin Above(S, z)
    BY <1>4, RowsAreOrdered DEF Above
  <2>2. Above(S, z) # Above(S, y)
    BY <1>4, <2>1
  <2>3. /\ Cardinality(Above(S, z)) \in Nat /\ Cardinality(Above(S, y)) \in Nat
        /\ Cardinality(Above(S, z)) <= Cardinality(Above(S, y))
        /\ Cardinality(Above(S, z)) # Cardinality(Above(S, y))
    BY <1>1, <1>3, <2>1, <2>2, FS_Subset
  <2>4. m <= Cardinality(Above(S, z))
    BY <1>2, <2>1
  <2> QED BY <1>3, <2>3, <2>4
<1> QED BY <1>4, RowsAreOrdered DEF Above

\* The first rows of what is left: a page.
Page(left) == {y \in left : Cardinality(Below(left, y)) < FindingLimit}

LEMMA PageIsAPrefix ==
    ASSUME NEW left \in SUBSET Rows, NEW y \in Page(left), NEW z \in left, Before(z, y)
    PROVE  z \in Page(left)
<1>1. y \in left
  BY DEF Page
<1>2. Below(left, z) \in SUBSET Below(left, y)
  BY <1>1, RowsAreOrdered DEF Below
<1>3. Below(left, y) \in SUBSET Rows
  BY DEF Below
<1>4. /\ IsFiniteSet(Below(left, y)) /\ IsFiniteSet(Below(left, z))
      /\ Cardinality(Below(left, z)) <= Cardinality(Below(left, y))
  BY <1>2, <1>3, RowsAreOrdered, FS_Subset
<1>5. Cardinality(Below(left, y)) \in Nat /\ Cardinality(Below(left, z)) \in Nat
  BY <1>4, FS_CardinalityType
<1>6. Cardinality(Below(left, y)) < FindingLimit
  BY DEF Page
<1>7. Cardinality(Below(left, z)) < FindingLimit
  BY <1>4, <1>5, <1>6, PolicyAssumption
<1> QED BY <1>7 DEF Page

LEMMA PageIsNotEmpty ==
    ASSUME NEW left \in SUBSET Rows, left # {}
    PROVE  Page(left) # {}
<1>1. PICK y \in left : Below(left, y) = {}
  BY FirstRow
<1>2. Cardinality(Below(left, y)) < FindingLimit
  BY <1>1, FS_EmptySet, PolicyAssumption
<1> QED BY <1>2 DEF Page

LastOf(page) == CHOOSE y \in page : \A z \in page : z = y \/ Before(z, y)

\* The rows up to and with y.
Upto(S, y) == {z \in S : z = y \/ Before(z, y)}

Precedes(A, B) == \A y \in A, z \in B : Before(y, z)

Continues(F, given, left) ==
    /\ given \cup Page(left) \in SUBSET F
    /\ Cardinality(given \cup Page(left)) = Cardinality(given) + Cardinality(Page(left))
    /\ Cardinality(Page(left)) \in Nat
    /\ Page(left) = left => given \cup Page(left) = F
    /\ Page(left) # left => /\ LastOf(Page(left)) \in F
                            /\ given \cup Page(left) = Upto(F, LastOf(Page(left)))

\* A page continues what was given, without a gap and without a repetition.
LEMMA PageContinues ==
    ASSUME NEW F \in SUBSET Rows, NEW given \in SUBSET F, NEW left \in SUBSET Rows,
           left = F \ given,
           Precedes(given, left)
    PROVE  Continues(F, given, left)
<1>1. Page(left) \in SUBSET left
  BY DEF Page
<1>2. given \cap Page(left) = {} /\ given \in SUBSET Rows /\ Page(left) \in SUBSET Rows
  BY <1>1
<1>3. IsFiniteSet(given) /\ IsFiniteSet(Page(left))
  BY <1>2, RowsAreOrdered, FS_Subset
<1>4. /\ Cardinality(given \cup Page(left)) = Cardinality(given) + Cardinality(Page(left))
      /\ Cardinality(Page(left)) \in Nat
  <2>1. Cardinality(given \cup Page(left))
          = Cardinality(given) + Cardinality(Page(left)) - Cardinality(given \cap Page(left))
    BY <1>3, FS_Union
  <2>2. Cardinality(given \cap Page(left)) = 0
    BY <1>2, FS_EmptySet
  <2>3. Cardinality(given) \in Nat /\ Cardinality(Page(left)) \in Nat
    BY <1>3, FS_CardinalityType
  <2> QED BY <2>1, <2>2, <2>3
<1>5. ASSUME Page(left) # left
      PROVE  /\ LastOf(Page(left)) \in F
             /\ given \cup Page(left) = Upto(F, LastOf(Page(left)))
  <2>1. Page(left) # {}
    BY <1>1, <1>5, PageIsNotEmpty
  <2>2. PICK y \in Page(left) : y = LastOf(Page(left)) /\ \A z \in Page(left) : z = y \/ Before(z, y)
    BY <1>2, <2>1, LastRow DEF LastOf
  <2>3. ASSUME NEW z \in F PROVE z \in given \cup Page(left) <=> (z = y \/ Before(z, y))
    <3>1. CASE z \in given
      BY <1>1, <2>2, <3>1 DEF Precedes
    <3>2. CASE z \in left
      BY <1>1, <1>2, <2>2, <3>2, PageIsAPrefix
    <3> QED BY <3>1, <3>2
  <2> QED BY <1>1, <2>2, <2>3 DEF Upto
<1> QED BY <1>1, <1>4, <1>5 DEF Continues

-----------------------------------------------------------------------------
(* The inductive invariant.                                                *)

Picks == UNION {[S -> Nat] : S \in SUBSET PolicyIds}
Verdicts == UNION {[S -> {"satisfied", "uncertain", "violated"}] : S \in SUBSET FileRefs}
EvaluationRow == [version : Nat, input : Nat, completed : Nat, until : Nat, verdict : Verdicts]
Token == [applied : Nat, chosen : Picks, after : Rows \cup {<<>>}]
Report ==
    [pc : {"idle", "status", "list", "judge"}, now : Nat, again : BOOLEAN, applied : Nat, todo : Picks, chosen : Picks,
     stale : BOOLEAN, token : Token, given : SUBSET Rows, count : Nat, ended : BOOLEAN]

\* Findings in the evaluations evs.
FindingsIn(evs, chosen) ==
    {y \in Rows :
        /\ y[1] \in DOMAIN chosen
        /\ y[2] \in DOMAIN evs[y[1]][chosen[y[1]]].verdict
        /\ evs[y[1]][chosen[y[1]]].verdict[y[2]] # "satisfied"}

Exist(evs, chosen) == \A p \in DOMAIN chosen : chosen[p] \in DOMAIN evs[p]

\* What is given up to a token, and at the end.
GivenOK(w, evs) ==
    /\ w.count = Cardinality(w.given)
    /\ w.token # NoToken =>
          /\ ~w.ended
          /\ w.token.after \in FindingsIn(evs, w.token.chosen)
          /\ w.given = Upto(FindingsIn(evs, w.token.chosen), w.token.after)
    /\ w.token = NoToken /\ ~w.ended => w.given = {}
    /\ w.pc # "idle" => ~w.ended
    /\ w.ended => w.given = FindingsIn(evs, w.chosen)

ReportOK(w, evs, time) ==
    /\ w \in Report /\ w.now <= time
    /\ \A p \in DOMAIN w.todo : w.todo[p] # 0 => w.todo[p] \in DOMAIN evs[p]
    /\ Exist(evs, w.chosen) /\ Exist(evs, w.token.chosen)
    /\ GivenOK(w, evs)

\* The evaluation e of policy p was made from the facts d.
MadeFrom(d, p, e) ==
    /\ e.version = d.policies[p].version
    /\ e.until = minimum_time(Expiries(d, p, e.completed))
    /\ e.verdict = [f \in PolicyFiles(d, p) |-> evaluate_file(d, f, e.completed)]

FactsPart ==
    /\ facts \in FactsType /\ marker \in [seq : Nat, input : Nat]
    /\ marker.input <= marker.seq /\ clock \in Nat

EvaluationOK(p, e, d, m, time) ==
    /\ e.completed <= time /\ e.input <= m.input
    /\ e.input = m.input => MadeFrom(d, p, e)

EvaluationsPart ==
    /\ evaluations \in [PolicyIds -> Seq(EvaluationRow)]
    /\ \A p \in PolicyIds : \A i \in DOMAIN evaluations[p] :
          EvaluationOK(p, evaluations[p][i], facts, marker, clock)

ReportsPart ==
    /\ DOMAIN reporter = Reporters
    /\ \A x \in Reporters : ReportOK(reporter[x], evaluations, clock)

\* An evaluation whose input is the marker was made from the present facts, and
\* the pages given so far are the first findings of the evaluations the token
\* names.
PolicyInv == FactsPart /\ EvaluationsPart /\ ReportsPart

LEMMA EmptyPick == <<>> \in Picks /\ DOMAIN <<>> = {}
<1>1. <<>> \in [{} -> Nat]
  OBVIOUS
<1> QED BY <1>1 DEF Picks

LEMMA NoReportOK ==
    ASSUME NEW evs, NEW time \in Nat
    PROVE  ReportOK(NoReport, evs, time)
<1>1. NoReport \in Report /\ NoReport.now = 0 /\ NoReport.todo = <<>> /\ NoReport.chosen = <<>>
  <2>1. NoToken \in Token
    BY EmptyPick DEF NoToken, Token
  <2>2. NoReport.now = 0 /\ NoReport.todo = <<>> /\ NoReport.chosen = <<>>
    BY DEF NoReport
  <2>3. NoReport \in Report
    BY <2>1, EmptyPick DEF NoReport, Report
  <2> QED BY <2>2, <2>3
<1>2. NoReport.token.chosen = <<>>
  BY DEF NoReport, NoToken
<1>3. GivenOK(NoReport, evs)
  BY FS_EmptySet DEF NoReport, GivenOK
<1> QED BY <1>1, <1>2, <1>3, EmptyPick DEF ReportOK, Exist

\* Evaluations are only added.
Extends(evs, more) ==
    \A p \in PolicyIds : \A i \in DOMAIN evs[p] : i \in DOMAIN more[p] /\ more[p][i] = evs[p][i]

LEMMA ReportSurvives ==
    ASSUME NEW w, NEW evs, NEW more, NEW time \in Nat, NEW later \in Nat,
           ReportOK(w, evs, time), Extends(evs, more), time <= later
    PROVE  ReportOK(w, more, later)
<1>1. w \in Report /\ w.now <= later
  BY DEF ReportOK, Report
<1>2. /\ w.todo \in Picks /\ w.chosen \in Picks /\ w.token \in Token
      /\ w.token.chosen \in Picks
  BY <1>1 DEF Report, Token
<1>3. \A g \in Picks : DOMAIN g \subseteq PolicyIds
  BY DEF Picks
<1>4. ASSUME NEW g \in Picks, Exist(evs, g)
      PROVE  Exist(more, g) /\ FindingsIn(more, g) = FindingsIn(evs, g)
  <2>1. \A p \in DOMAIN g : g[p] \in DOMAIN more[p] /\ more[p][g[p]] = evs[p][g[p]]
    BY <1>3, <1>4 DEF Exist, Extends
  <2> QED BY <2>1 DEF Exist, FindingsIn
<1>5. \A p \in DOMAIN w.todo : w.todo[p] # 0 => w.todo[p] \in DOMAIN more[p]
  BY <1>2, <1>3 DEF ReportOK, Extends
<1>6. GivenOK(w, more)
  BY <1>2, <1>4 DEF ReportOK, GivenOK
<1> QED BY <1>1, <1>2, <1>4, <1>5, <1>6 DEF ReportOK

LEMMA PolicyStart == PolicyInit => PolicyInv
<1> SUFFICES ASSUME PolicyInit PROVE PolicyInv
  OBVIOUS
<1>1. FactsPart
  <2>1. PICK r \in Requirements :
          facts = [policies |-> [p \in PolicyIds |-> [version |-> 1, active |-> TRUE,
                                                      requirements |-> r]],
                   collections |-> [p \in PolicyIds |-> "configured"],
                   files |-> FileRefs, identified |-> FileRefs,
                   copies |-> [c \in CopyClaims |-> [state |-> "present", result |-> "ok",
                                                     verified |-> 1, seen |-> 1,
                                                     standing |-> "order"]],
                   devices |-> [v \in CatalogDevices |-> [checkin |-> 1, matched |-> 1,
                                                          fingerprint |-> "match"]],
                   shared |-> {}]
    BY DEF PolicyInit
  <2>2. facts \in FactsType
    <3> DEFINE pol == [p \in PolicyIds |-> [version |-> 1, active |-> TRUE, requirements |-> r]]
               cop == [c \in CopyClaims |-> [state |-> "present", result |-> "ok", verified |-> 1,
                                             seen |-> 1, standing |-> "order"]]
               dev == [v \in CatalogDevices |-> [checkin |-> 1, matched |-> 1,
                                                 fingerprint |-> "match"]]
               col == [p \in PolicyIds |-> "configured"]
    <3>1. pol \in [PolicyIds -> PolicyRow]
      BY DEF PolicyRow
    <3>2. cop \in [CopyClaims -> CopyRow]
      BY DEF CopyRow
    <3>3. dev \in [CatalogDevices -> DeviceRow]
      BY DEF DeviceRow
    <3>4. col \in [PolicyIds -> CollectionStates]
      BY DEF CollectionStates
    <3>5. facts = [policies |-> pol, collections |-> col, files |-> FileRefs,
                   identified |-> FileRefs, copies |-> cop, devices |-> dev, shared |-> {}]
      BY <2>1
    <3> HIDE DEF pol, cop, dev, col
    <3> QED BY <3>1, <3>2, <3>3, <3>4, <3>5 DEF FactsType
  <2> QED BY <2>2 DEF PolicyInit, FactsPart
<1>2. EvaluationsPart
  BY DEF PolicyInit, EvaluationsPart
<1>3. ReportsPart
  BY <1>1, NoReportOK DEF PolicyInit, ReportsPart, FactsPart
<1> QED BY <1>1, <1>2, <1>3 DEF PolicyInv

\* A step of one report.
LEMMA ReporterKeeps ==
    ASSUME PolicyInv, NEW x \in Reporters, NEW w, ReportOK(w, evaluations, clock),
           SetReporter(x, w), UNCHANGED <<facts, marker, clock, evaluations>>
    PROVE  PolicyInv'
<1>1. FactsPart' /\ EvaluationsPart'
  BY DEF PolicyInv, FactsPart, EvaluationsPart
<1>2. ReportsPart'
  BY DEF PolicyInv, ReportsPart, SetReporter
<1> QED BY <1>1, <1>2 DEF PolicyInv

-----------------------------------------------------------------------------
(* Steps of a report.                                                      *)

LEMMA StartReportKeeps ==
    ASSUME PolicyInv, NEW x \in Reporters, NEW continue \in BOOLEAN, StartReport(x, continue)
    PROVE  PolicyInv'
<1> DEFINE v == IF continue THEN reporter[x] ELSE NoReport
           w == [v EXCEPT !.pc = "status", !.now = clock, !.again = FALSE]
<1>1. clock \in Nat /\ ReportOK(reporter[x], evaluations, clock)
  BY DEF PolicyInv, FactsPart, ReportsPart
<1>2. ReportOK(v, evaluations, clock)
  BY <1>1, NoReportOK
<1>3. ~v.ended
  BY <1>1 DEF StartReport, ReportOK, GivenOK, NoReport
<1> HIDE DEF v
<1>4. /\ w \in Report /\ w.now = clock /\ w.todo = v.todo /\ w.chosen = v.chosen
      /\ w.token = v.token /\ w.given = v.given /\ w.count = v.count /\ w.ended = v.ended
  BY <1>1, <1>2 DEF ReportOK, Report
<1> HIDE DEF w
<1>5. ReportOK(w, evaluations, clock)
  BY <1>1, <1>2, <1>3, <1>4 DEF ReportOK, GivenOK
<1>6. SetReporter(x, w)
  BY DEF StartReport, v, w
<1> QED BY <1>5, <1>6, ReporterKeeps DEF StartReport

LEMMA ReadMarkerKeeps ==
    ASSUME PolicyInv, NEW x \in Reporters, ReadMarker(x)
    PROVE  PolicyInv'
<1> DEFINE v == reporter[x]
           w == [v EXCEPT !.pc = "list", !.applied = marker.seq]
<1>1. marker.seq \in Nat /\ ReportOK(v, evaluations, clock) /\ v.pc = "status"
  BY DEF PolicyInv, FactsPart, ReportsPart, ReadMarker
<1> HIDE DEF v
<1>2. /\ w \in Report /\ w.now = v.now /\ w.todo = v.todo /\ w.chosen = v.chosen
      /\ w.token = v.token /\ w.given = v.given /\ w.count = v.count /\ w.ended = v.ended
  BY <1>1 DEF ReportOK, Report
<1> HIDE DEF w
<1>3. ReportOK(w, evaluations, clock)
  BY <1>1, <1>2 DEF ReportOK, GivenOK
<1>4. SetReporter(x, w)
  BY DEF ReadMarker, v, w
<1> QED BY <1>3, <1>4, ReporterKeeps DEF ReadMarker

LEMMA ListLatestKeeps ==
    ASSUME PolicyInv, NEW x \in Reporters, ListLatest(x)
    PROVE  PolicyInv'
<1> DEFINE v == reporter[x]
<1>1. PICK latest \in [{p \in PolicyIds : Listed(p)} -> 0 .. MaxEvaluations] :
         /\ \A p \in DOMAIN latest :
                IF evaluations[p] = <<>> THEN latest[p] = 0 ELSE latest[p] \in Latest(p)
         /\ SetReporter(x, [v EXCEPT !.pc = "judge", !.todo = latest, !.chosen = <<>>,
                                     !.stale = FALSE])
  BY DEF ListLatest
<1> DEFINE w == [v EXCEPT !.pc = "judge", !.todo = latest, !.chosen = <<>>, !.stale = FALSE]
<1>2. ReportOK(v, evaluations, clock) /\ v.pc = "list"
  BY DEF PolicyInv, ReportsPart, ListLatest
<1> HIDE DEF v
<1>3. latest \in Picks
  <2>1. 0 .. MaxEvaluations \subseteq Nat
    BY PolicyAssumption
  <2>2. latest \in [{p \in PolicyIds : Listed(p)} -> Nat]
    BY <2>1
  <2> QED BY <2>2 DEF Picks
<1>4. \A p \in DOMAIN latest : latest[p] # 0 => latest[p] \in DOMAIN evaluations[p]
  BY <1>1 DEF Latest
<1>5. /\ w \in Report /\ w.now = v.now /\ w.todo = latest /\ w.chosen = <<>>
      /\ w.token = v.token /\ w.given = v.given /\ w.count = v.count /\ w.ended = v.ended
  BY <1>2, <1>3, EmptyPick DEF ReportOK, Report
<1>6. SetReporter(x, w)
  BY <1>1
<1> HIDE DEF w
<1>7. ReportOK(w, evaluations, clock)
  BY <1>2, <1>4, <1>5, EmptyPick DEF ReportOK, GivenOK, Exist
<1> QED BY <1>6, <1>7, ReporterKeeps DEF ListLatest

LEMMA JudgeEvaluationKeeps ==
    ASSUME PolicyInv, NEW x \in Reporters, NEW p \in PolicyIds, JudgeEvaluation(x, p)
    PROVE  PolicyInv'
<1> DEFINE v == reporter[x]
           i == v.todo[p]
           usable == i # 0 /\ Usable(p, evaluations[p][i], v.now)
           ch == IF usable THEN With(v.chosen, p, i) ELSE v.chosen
           td == Without(v.todo, p)
           st == v.stale \/ ~usable
           w == [v EXCEPT !.todo = td, !.chosen = ch, !.stale = st]
<1>1. ReportOK(v, evaluations, clock) /\ v.pc = "judge" /\ p \in DOMAIN v.todo
  BY DEF PolicyInv, ReportsPart, JudgeEvaluation
<1>2. SetReporter(x, w)
  BY DEF JudgeEvaluation
<1>3. usable \in BOOLEAN /\ (usable => i # 0)
  OBVIOUS
<1> HIDE DEF v, usable
<1>4. v \in Report /\ v.todo \in Picks /\ v.chosen \in Picks
  BY <1>1 DEF ReportOK, Report
<1>5. td \in Picks /\ \A q \in DOMAIN td : q \in DOMAIN v.todo /\ td[q] = v.todo[q]
  BY <1>4 DEF Without, Picks
<1>6. i \in Nat /\ (i # 0 => i \in DOMAIN evaluations[p])
  BY <1>1, <1>4 DEF Picks, ReportOK
<1>7. ch \in Picks /\ Exist(evaluations, ch)
  <2>1. CASE ~usable
    BY <1>1, <1>4, <2>1 DEF ReportOK
  <2>2. CASE usable
    <3>1. ch = With(v.chosen, p, i)
      BY <2>2
    <3>2. DOMAIN ch = DOMAIN v.chosen \cup {p}
          /\ \A q \in DOMAIN ch : ch[q] = IF q = p THEN i ELSE v.chosen[q]
      BY <3>1 DEF With
    <3>3. PICK S \in SUBSET PolicyIds : v.chosen \in [S -> Nat]
      BY <1>4 DEF Picks
    <3>4. ch \in [S \cup {p} -> Nat]
      <4>1. ch = [q \in S \cup {p} |-> IF q = p THEN i ELSE v.chosen[q]]
        BY <3>1, <3>3 DEF With
      <4> HIDE DEF i
      <4>2. \A q \in S \cup {p} : (IF q = p THEN i ELSE v.chosen[q]) \in Nat
        BY <1>6, <3>3
      <4> HIDE DEF ch
      <4> QED BY <4>1, <4>2
    <3>5. ch \in Picks
      BY <3>4 DEF Picks
    <3>6. Exist(evaluations, ch)
      BY <1>1, <1>3, <1>6, <2>2, <3>2 DEF Exist, ReportOK
    <3> QED BY <3>5, <3>6
  <2> QED BY <1>3, <2>1, <2>2
<1>8. st \in BOOLEAN
  BY <1>3, <1>4 DEF Report
<1> HIDE DEF i, ch, td, st
<1>9. /\ w \in Report /\ w.pc = v.pc /\ w.now = v.now /\ w.todo = td /\ w.chosen = ch
      /\ w.token = v.token /\ w.given = v.given /\ w.count = v.count /\ w.ended = v.ended
  BY <1>4, <1>5, <1>7, <1>8 DEF Report
<1> HIDE DEF w
<1>10. ReportOK(w, evaluations, clock)
  BY <1>1, <1>5, <1>7, <1>9 DEF ReportOK, GivenOK
<1> QED BY <1>2, <1>10, ReporterKeeps DEF JudgeEvaluation

\* A page of findings, or the end of a report that is out of date.
LEMMA ReadFindingsKeeps ==
    ASSUME PolicyInv, NEW x \in Reporters, ReadFindings(x)
    PROVE  PolicyInv'
<1> DEFINE v == reporter[x]
           F == FindingsIn(evaluations, v.chosen)
           left == {y \in F : v.token = NoToken \/ Before(v.token.after, y)}
           page == Page(left)
           token == IF page = left THEN NoToken
                    ELSE [applied |-> v.applied, chosen |-> v.chosen, after |-> LastOf(page)]
           w == [v EXCEPT !.pc = "idle", !.given = v.given \cup page,
                          !.count = v.count + Cardinality(page),
                          !.token = token, !.ended = (page = left)]
<1>1. ReportOK(v, evaluations, clock) /\ v.pc = "judge" /\ clock \in Nat
  BY DEF PolicyInv, FactsPart, ReportsPart, ReadFindings
<1>2. \/ SetReporter(x, NoReport)
      \/ TokenMatches(v) /\ SetReporter(x, w)
  BY DEF ReadFindings, FindingsIn, Findings, Rows, Page, Below, LastOf
<1>3. CASE SetReporter(x, NoReport)
  BY <1>1, <1>3, NoReportOK, ReporterKeeps DEF ReadFindings
<1>4. CASE TokenMatches(v) /\ SetReporter(x, w)
  <2> HIDE DEF v
  <2>1. v \in Report /\ ~v.ended /\ v.given \in SUBSET Rows /\ v.count = Cardinality(v.given)
    BY <1>1 DEF ReportOK, Report, GivenOK
  <2>2. F \in SUBSET Rows
    BY DEF FindingsIn
  <2>3. v.given \in SUBSET F /\ left = F \ v.given /\ \A y \in v.given, z \in left : Before(y, z)
    <3> HIDE DEF F
    <3>1. CASE v.token = NoToken
      <4>1. v.given = {}
        BY <1>1, <2>1, <3>1 DEF ReportOK, GivenOK
      <4> QED BY <3>1, <4>1
    <3>2. CASE v.token # NoToken
      <4>1. v.token.chosen = v.chosen
        BY <1>4, <3>2 DEF TokenMatches
      <4>2. v.token.after \in F /\ v.given = Upto(F, v.token.after)
        BY <1>1, <3>2, <4>1 DEF ReportOK, GivenOK, F
      <4> QED BY <2>2, <3>2, <4>2, RowsAreOrdered DEF Upto
    <3> QED BY <3>1, <3>2
  <2>4. left \in SUBSET Rows
    BY <2>2
  <2> HIDE DEF F, left
  <2>5. /\ v.given \cup page \in SUBSET F
        /\ Cardinality(v.given \cup page) = Cardinality(v.given) + Cardinality(page)
        /\ Cardinality(page) \in Nat
        /\ page = left => v.given \cup page = F
        /\ page # left => LastOf(page) \in F /\ v.given \cup page = Upto(F, LastOf(page))
    <3> DEFINE gn == v.given
    <3>1. gn \in SUBSET F /\ left = F \ gn
      BY <2>3
    <3>2. Precedes(gn, left)
      BY <2>3 DEF Precedes
    <3> HIDE DEF gn
    <3>3. Continues(F, gn, left)
      BY <2>2, <2>4, <3>1, <3>2, PageContinues
    <3> QED BY <3>3 DEF gn, Continues
  <2> HIDE DEF page
  <2>6. v.applied \in Nat /\ v.chosen \in Picks /\ v.count \in Nat
    BY <2>1 DEF Report
  <2>7. /\ token \in Token
        /\ page = left => token = NoToken
        /\ page # left => token # NoToken /\ token.chosen = v.chosen /\ token.after = LastOf(page)
    <3>1. CASE page = left
      <4>1. NoToken \in Token
        BY EmptyPick DEF NoToken, Token
      <4> QED BY <3>1, <4>1
    <3>2. CASE page # left
      <4>1. token = [applied |-> v.applied, chosen |-> v.chosen, after |-> LastOf(page)]
        BY <3>2
      <4>2. LastOf(page) \in Rows
        BY <2>2, <2>5, <3>2
      <4>3. LastOf(page) # <<>>
        BY <4>2 DEF Rows
      <4>4. token \in Token /\ token.chosen = v.chosen /\ token.after = LastOf(page)
        <5> HIDE DEF token
        <5> QED BY <2>6, <4>1, <4>2 DEF Token
      <4>5. NoToken.after = <<>>
        BY DEF NoToken
      <4> QED BY <3>2, <4>3, <4>4, <4>5
    <3> QED BY <3>1, <3>2
  <2> HIDE DEF token
  <2> DEFINE gv == v.given \cup page
             ct == v.count + Cardinality(page)
             en == page = left
  <2>8. gv \in SUBSET Rows /\ ct \in Nat /\ en \in BOOLEAN /\ ct = Cardinality(gv)
    BY <2>1, <2>2, <2>5, <2>6
  <2>9. w = [v EXCEPT !.pc = "idle", !.given = gv, !.count = ct, !.token = token, !.ended = en]
    OBVIOUS
  <2> HIDE DEF gv, ct, en, w
  <2>10. /\ w \in Report /\ w.pc = "idle" /\ w.now = v.now /\ w.todo = v.todo
         /\ w.chosen = v.chosen /\ w.token = token /\ w.given = gv /\ w.count = ct /\ w.ended = en
    BY <2>1, <2>7, <2>8, <2>9 DEF Report
  <2>11. Exist(evaluations, token.chosen)
    BY <1>1, <2>7, EmptyPick DEF ReportOK, Exist, NoToken
  <2>12. GivenOK(w, evaluations)
    <3>1. en <=> page = left
      BY DEF en
    <3>2. CASE page = left
      BY <2>5, <2>7, <2>8, <2>10, <3>1, <3>2 DEF GivenOK, gv, F
    <3>3. CASE page # left
      BY <2>5, <2>7, <2>8, <2>10, <3>1, <3>3 DEF GivenOK, gv, F
    <3> QED BY <3>2, <3>3
  <2>13. ReportOK(w, evaluations, clock)
    BY <1>1, <2>10, <2>11, <2>12 DEF ReportOK
  <2>14. SetReporter(x, w)
    BY <1>4
  <2> QED BY <2>13, <2>14, ReporterKeeps DEF ReadFindings
<1> QED BY <1>2, <1>3, <1>4

-----------------------------------------------------------------------------
(* Evaluations.                                                            *)

LEMMA EvaluationIs ==
    ASSUME FactsPart, NEW p \in PolicyIds, NEW now \in Nat, now <= clock
    PROVE  /\ Evaluation(facts, p, now) \in EvaluationRow
           /\ EvaluationOK(p, Evaluation(facts, p, now), facts, marker, clock)
<1> DEFINE u == minimum_time(Expiries(facts, p, now))
           vd == [f \in PolicyFiles(facts, p) |-> evaluate_file(facts, f, now)]
           vn == facts.policies[p].version
           e == Evaluation(facts, p, now)
<1>1. u \in Nat
  <2> DEFINE r == facts.policies[p].requirements
             L == UNION {Limits(facts, b, r) :
                           b \in UNION {CopiesOf(g) : g \in PolicyFiles(facts, p)
                                                              \cap facts.identified}}
  <2>1. r \in Requirements
    BY DEF FactsPart, FactsType, PolicyRow
  <2>2. \A m \in L : m[1] \in Nat /\ m[2] \in Nat \ {0}
    BY <2>1, LimitsType DEF CopiesOf, FactsPart
  <2>3. Expiries(facts, p, now) = {m[1] + m[2] : m \in {n \in L : Fresh(n[1], n[2], now)}}
    BY DEF Expiries
  <2> HIDE DEF L
  <2>4. Expiries(facts, p, now) \in SUBSET Nat
    BY <2>2, <2>3
  <2>5. CASE Expiries(facts, p, now) = {}
    BY <2>5 DEF minimum_time, NoTime
  <2>6. CASE Expiries(facts, p, now) # {}
    BY <2>4, <2>6, MinimumTime
  <2> QED BY <2>5, <2>6
<1>2. vd \in Verdicts
  <2>1. \A f \in PolicyFiles(facts, p) :
           evaluate_file(facts, f, now) \in {"satisfied", "uncertain", "violated"}
    BY VerdictIs
  <2>2. PolicyFiles(facts, p) \in SUBSET FileRefs
    BY DEF PolicyFiles, FactsPart, FactsType
  <2>3. vd \in [PolicyFiles(facts, p) -> {"satisfied", "uncertain", "violated"}]
    BY <2>1
  <2> QED BY <2>2, <2>3 DEF Verdicts
<1>3. vn \in Nat /\ marker.input \in Nat
  BY DEF FactsPart, FactsType, PolicyRow
<1>4. e = [version |-> vn, input |-> marker.input, completed |-> now, until |-> u, verdict |-> vd]
  BY DEF Evaluation
<1> HIDE DEF u, vd, vn, e
<1>5. /\ e \in EvaluationRow /\ e.version = vn /\ e.input = marker.input /\ e.completed = now
      /\ e.until = u /\ e.verdict = vd
  BY <1>1, <1>2, <1>3, <1>4 DEF EvaluationRow
<1>6. MadeFrom(facts, p, e)
  BY <1>5 DEF MadeFrom, u, vd, vn
<1>7. EvaluationOK(p, e, facts, marker, clock)
  BY <1>3, <1>5, <1>6 DEF EvaluationOK
<1> QED BY <1>5, <1>7 DEF e

LEMMA EvaluatingKeeps ==
    ASSUME PolicyInv, NEW now \in Nat, now <= clock, evaluate_policies(now),
           UNCHANGED <<facts, marker, clock>>
    PROVE  FactsPart' /\ EvaluationsPart' /\ Extends(evaluations, evaluations')
<1>1. FactsPart /\ FactsPart'
  BY DEF PolicyInv, FactsPart
<1>2. evaluations \in [PolicyIds -> Seq(EvaluationRow)]
  BY DEF PolicyInv, EvaluationsPart
<1>3. ASSUME NEW p \in PolicyIds
      PROVE  /\ evaluations'[p] \in Seq(EvaluationRow)
             /\ \A i \in DOMAIN evaluations[p] :
                   i \in DOMAIN evaluations'[p] /\ evaluations'[p][i] = evaluations[p][i]
             /\ \A i \in DOMAIN evaluations'[p] :
                   EvaluationOK(p, evaluations'[p][i], facts, marker, clock)
  <2> DEFINE s == evaluations[p]
             e == Evaluation(facts, p, now)
  <2>1. s \in Seq(EvaluationRow)
    BY <1>2
  <2>2. e \in EvaluationRow /\ EvaluationOK(p, e, facts, marker, clock)
    BY <1>1, EvaluationIs
  <2>3. \A i \in DOMAIN s : EvaluationOK(p, s[i], facts, marker, clock)
    BY DEF PolicyInv, EvaluationsPart
  <2>4. evaluations'[p] = Append(s, e) \/ evaluations'[p] = s
    BY DEF evaluate_policies
  <2> HIDE DEF s, e
  <2>5. CASE evaluations'[p] = s
    BY <2>1, <2>3, <2>5 DEF s
  <2>6. CASE evaluations'[p] = Append(s, e)
    <3>1. /\ Append(s, e) \in Seq(EvaluationRow)
          /\ DOMAIN Append(s, e) = 1 .. Len(s) + 1 /\ DOMAIN s = 1 .. Len(s) /\ Len(s) \in Nat
          /\ \A i \in 1 .. Len(s) : Append(s, e)[i] = s[i]
          /\ Append(s, e)[Len(s) + 1] = e
      BY <2>1, <2>2
    <3>2. \A i \in 1 .. Len(s) + 1 : i \in 1 .. Len(s) \/ i = Len(s) + 1
      BY <3>1
    <3>3. \A i \in DOMAIN Append(s, e) : EvaluationOK(p, Append(s, e)[i], facts, marker, clock)
      BY <2>2, <2>3, <3>1, <3>2
    <3> QED BY <2>6, <3>1, <3>3 DEF s
  <2> QED BY <2>4, <2>5, <2>6
<1>4. DOMAIN evaluations' = PolicyIds
  BY DEF evaluate_policies
<1>5. evaluations' \in [PolicyIds -> Seq(EvaluationRow)]
  <2>1. evaluations' = [p \in PolicyIds |-> evaluations'[p]]
    BY DEF evaluate_policies
  <2> QED BY <1>3, <2>1
<1>6. Extends(evaluations, evaluations')
  BY <1>3 DEF Extends
<1>7. EvaluationsPart'
  BY <1>3, <1>5 DEF EvaluationsPart
<1> QED BY <1>1, <1>6, <1>7

LEMMA PolicyEvaluateKeeps ==
    ASSUME PolicyInv, PolicyEvaluate
    PROVE  PolicyInv'
<1>1. clock \in Nat /\ evaluate_policies(clock)
      /\ facts' = facts /\ marker' = marker /\ clock' = clock /\ reporter' = reporter
  BY DEF PolicyInv, FactsPart, PolicyEvaluate
<1>2. FactsPart' /\ EvaluationsPart' /\ Extends(evaluations, evaluations')
  BY <1>1, EvaluatingKeeps
<1>3. \A x \in Reporters : ReportOK(reporter[x], evaluations', clock)
  BY <1>1, <1>2, ReportSurvives DEF PolicyInv, ReportsPart
<1> QED BY <1>1, <1>2, <1>3 DEF PolicyInv, ReportsPart

LEMMA ReevaluateKeeps ==
    ASSUME PolicyInv, NEW x \in Reporters, Reevaluate(x)
    PROVE  PolicyInv'
<1> DEFINE v == reporter[x]
           w == [v EXCEPT !.pc = "status", !.again = TRUE]
<1>1. /\ clock \in Nat /\ evaluate_policies(v.now) /\ SetReporter(x, w) /\ v.pc = "judge"
      /\ facts' = facts /\ marker' = marker /\ clock' = clock
  BY DEF PolicyInv, FactsPart, Reevaluate
<1>2. ReportOK(v, evaluations, clock)
  BY DEF PolicyInv, ReportsPart
<1>3. v.now \in Nat /\ v.now <= clock
  BY <1>2 DEF ReportOK, Report
<1>4. FactsPart' /\ EvaluationsPart' /\ Extends(evaluations, evaluations')
  BY <1>1, <1>3, EvaluatingKeeps
<1>5. \A y \in Reporters : ReportOK(reporter[y], evaluations', clock)
  BY <1>1, <1>4, ReportSurvives DEF PolicyInv, ReportsPart
<1>6. ReportOK(v, evaluations', clock)
  BY <1>5
<1>7. w \in Report /\ w.now = v.now /\ w.todo = v.todo /\ w.chosen = v.chosen
      /\ w.token = v.token /\ w.given = v.given /\ w.count = v.count /\ w.ended = v.ended
  <2> HIDE DEF v
  <2> QED BY <1>2 DEF ReportOK, Report
<1>8. ReportOK(w, evaluations', clock)
  <2> HIDE DEF v, w
  <2> QED BY <1>1, <1>6, <1>7 DEF ReportOK, GivenOK
<1>9. ReportsPart'
  <2> HIDE DEF w
  <2> QED BY <1>1, <1>5, <1>8 DEF PolicyInv, ReportsPart, SetReporter
<1> QED BY <1>4, <1>9 DEF PolicyInv

-----------------------------------------------------------------------------
(* Events and time.                                                        *)

\* An event that changes what evaluations read is an input: every evaluation
\* made before it has a smaller marker.
LEMMA InputKeeps ==
    ASSUME PolicyInv, NEW type, NEW new, new \in FactsType, ApplyInput(type, new),
           policy_relevance[type] \/ new = facts
    PROVE  PolicyInv'
<1> DEFINE seq == marker.seq + 1
<1>1. /\ facts' = new /\ clock' = clock /\ evaluations' = evaluations /\ reporter' = reporter
      /\ marker' = [seq |-> seq, input |-> IF policy_relevance[type] THEN seq ELSE marker.input]
  BY DEF ApplyInput
<1>2. marker.seq \in Nat /\ marker.input \in Nat /\ marker.input <= marker.seq /\ clock \in Nat
  BY DEF PolicyInv, FactsPart
<1>3. seq \in Nat /\ marker.input < seq
  BY <1>2
<1> HIDE DEF seq
<1>4. FactsPart'
  BY <1>1, <1>2, <1>3 DEF FactsPart
<1>5. /\ policy_relevance[type] => marker'.input = seq
      /\ ~policy_relevance[type] => marker'.input = marker.input /\ facts' = facts
  BY <1>1
<1>6. ASSUME NEW p \in PolicyIds, NEW i \in DOMAIN evaluations[p]
      PROVE  EvaluationOK(p, evaluations[p][i], facts', marker', clock)
  <2> DEFINE e == evaluations[p][i]
  <2>1. EvaluationOK(p, e, facts, marker, clock) /\ e.input \in Nat
    <3>1. evaluations[p] \in Seq(EvaluationRow)
      BY DEF PolicyInv, EvaluationsPart
    <3>2. e \in EvaluationRow
      <4> HIDE DEF EvaluationRow
      <4> QED BY <3>1
    <3> QED BY <3>2 DEF PolicyInv, EvaluationsPart, EvaluationRow
  <2> HIDE DEF e
  <2>2. EvaluationOK(p, e, facts', marker', clock)
    <3>1. CASE policy_relevance[type]
      BY <1>2, <1>3, <1>5, <2>1, <3>1 DEF EvaluationOK
    <3>2. CASE ~policy_relevance[type]
      BY <1>5, <2>1, <3>2 DEF EvaluationOK
    <3> QED BY <3>1, <3>2
  <2> QED BY <2>2 DEF e
<1>7. EvaluationsPart'
  BY <1>1, <1>6 DEF PolicyInv, EvaluationsPart
<1>8. ReportsPart'
  BY <1>1 DEF PolicyInv, ReportsPart
<1> QED BY <1>4, <1>7, <1>8 DEF PolicyInv

LEMMA PassTimeKeeps ==
    ASSUME PolicyInv, PassTime
    PROVE  PolicyInv'
<1>1. /\ clock' = clock + 1 /\ clock \in Nat
      /\ UNCHANGED <<facts, marker, evaluations, reporter>>
  BY DEF PassTime, PolicyInv, FactsPart
<1>2. FactsPart'
  BY <1>1 DEF PolicyInv, FactsPart
<1>3. ASSUME NEW p \in PolicyIds, NEW i \in DOMAIN evaluations[p]
      PROVE  EvaluationOK(p, evaluations[p][i], facts, marker, clock + 1)
  <2> DEFINE e == evaluations[p][i]
  <2>1. EvaluationOK(p, e, facts, marker, clock) /\ e.completed \in Nat
    <3>1. evaluations[p] \in Seq(EvaluationRow)
      BY DEF PolicyInv, EvaluationsPart
    <3>2. e \in EvaluationRow
      <4> HIDE DEF EvaluationRow
      <4> QED BY <3>1
    <3> QED BY <3>2 DEF PolicyInv, EvaluationsPart, EvaluationRow
  <2> HIDE DEF e
  <2>2. EvaluationOK(p, e, facts, marker, clock + 1)
    BY <1>1, <2>1 DEF EvaluationOK
  <2> QED BY <2>2 DEF e
<1>4. EvaluationsPart'
  BY <1>1, <1>3 DEF PolicyInv, EvaluationsPart
<1>5. Extends(evaluations, evaluations)
  BY DEF Extends
<1>6. \A x \in Reporters : ReportOK(reporter[x], evaluations, clock + 1)
  <2>1. clock + 1 \in Nat /\ clock <= clock + 1
    BY <1>1
  <2> QED BY <1>1, <1>5, <2>1, ReportSurvives DEF PolicyInv, ReportsPart
<1>7. ReportsPart'
  BY <1>1, <1>6 DEF PolicyInv, ReportsPart
<1> QED BY <1>2, <1>4, <1>7 DEF PolicyInv

\* A row of a table of the facts is replaced.
LEMMA CopiesType ==
    ASSUME NEW d \in FactsType, NEW cs \in [CopyClaims -> CopyRow]
    PROVE  [d EXCEPT !.copies = cs] \in FactsType
BY DEF FactsType

LEMMA CopyFieldTypes ==
    ASSUME NEW d \in FactsType, NEW c \in CopyClaims
    PROVE  /\ \A s \in {"present", "corrupt", "unknown", "missing"} :
                 [d EXCEPT !.copies[c].state = s] \in FactsType
           /\ \A s \in {"ok", "none", "hash_mismatch", "read_error"} :
                 [d EXCEPT !.copies[c].result = s] \in FactsType
           /\ \A t \in Nat : /\ [d EXCEPT !.copies[c].verified = t] \in FactsType
                            /\ [d EXCEPT !.copies[c].seen = t] \in FactsType
           /\ \A s \in {"order", "defect", "unclear"} :
                 [d EXCEPT !.copies[c].standing = s] \in FactsType
<1> DEFINE row == d.copies[c]
<1>1. d.copies \in [CopyClaims -> CopyRow] /\ row \in CopyRow
  BY DEF FactsType
<1>2. \A r \in CopyRow : [d EXCEPT !.copies[c] = r] \in FactsType
  <2> SUFFICES ASSUME NEW r \in CopyRow PROVE [d EXCEPT !.copies[c] = r] \in FactsType
    OBVIOUS
  <2> DEFINE cs == [d.copies EXCEPT ![c] = r]
  <2>1. cs \in [CopyClaims -> CopyRow]
    BY <1>1
  <2>2. [d EXCEPT !.copies[c] = r] = [d EXCEPT !.copies = cs]
    OBVIOUS
  <2> HIDE DEF cs
  <2> QED BY <2>1, <2>2, CopiesType
<1> HIDE DEF row
<1>3. /\ \A s \in {"present", "corrupt", "unknown", "missing"} :
            [row EXCEPT !.state = s] \in CopyRow
      /\ \A s \in {"ok", "none", "hash_mismatch", "read_error"} :
            [row EXCEPT !.result = s] \in CopyRow
      /\ \A t \in Nat : [row EXCEPT !.verified = t] \in CopyRow /\ [row EXCEPT !.seen = t] \in CopyRow
      /\ \A s \in {"order", "defect", "unclear"} : [row EXCEPT !.standing = s] \in CopyRow
  BY <1>1 DEF CopyRow
<1>4. \A s : /\ [d EXCEPT !.copies[c].state = s] = [d EXCEPT !.copies[c] = [row EXCEPT !.state = s]]
            /\ [d EXCEPT !.copies[c].result = s] = [d EXCEPT !.copies[c] = [row EXCEPT !.result = s]]
            /\ [d EXCEPT !.copies[c].verified = s]
                  = [d EXCEPT !.copies[c] = [row EXCEPT !.verified = s]]
            /\ [d EXCEPT !.copies[c].seen = s] = [d EXCEPT !.copies[c] = [row EXCEPT !.seen = s]]
            /\ [d EXCEPT !.copies[c].standing = s]
                  = [d EXCEPT !.copies[c] = [row EXCEPT !.standing = s]]
  BY DEF row
<1>5. \A s \in {"present", "corrupt", "unknown", "missing"} :
         [d EXCEPT !.copies[c].state = s] \in FactsType
  BY <1>2, <1>3, <1>4
<1>6. \A s \in {"ok", "none", "hash_mismatch", "read_error"} :
         [d EXCEPT !.copies[c].result = s] \in FactsType
  BY <1>2, <1>3, <1>4
<1>7. \A t \in Nat : [d EXCEPT !.copies[c].verified = t] \in FactsType
  BY <1>2, <1>3, <1>4
<1>8. \A t \in Nat : [d EXCEPT !.copies[c].seen = t] \in FactsType
  BY <1>2, <1>3, <1>4
<1>9. \A s \in {"order", "defect", "unclear"} : [d EXCEPT !.copies[c].standing = s] \in FactsType
  BY <1>2, <1>3, <1>4
<1> QED BY <1>5, <1>6, <1>7, <1>8, <1>9

LEMMA DeviceFieldTypes ==
    ASSUME NEW d \in FactsType, NEW v \in CatalogDevices
    PROVE  /\ \A t \in Nat : /\ [d EXCEPT !.devices[v].checkin = t] \in FactsType
                            /\ [d EXCEPT !.devices[v].matched = t] \in FactsType
           /\ \A s \in {"match", "mismatch"} :
                 [d EXCEPT !.devices[v].fingerprint = s] \in FactsType
<1> DEFINE row == d.devices[v]
<1>1. d.devices \in [CatalogDevices -> DeviceRow] /\ row \in DeviceRow
  BY DEF FactsType
<1>2. \A r \in DeviceRow : [d EXCEPT !.devices[v] = r] \in FactsType
  <2> SUFFICES ASSUME NEW r \in DeviceRow PROVE [d EXCEPT !.devices[v] = r] \in FactsType
    OBVIOUS
  <2> DEFINE ds == [d.devices EXCEPT ![v] = r]
  <2>1. ds \in [CatalogDevices -> DeviceRow]
    BY <1>1
  <2>2. [d EXCEPT !.devices[v] = r] = [d EXCEPT !.devices = ds]
    OBVIOUS
  <2> HIDE DEF ds
  <2> QED BY <2>1, <2>2 DEF FactsType
<1> HIDE DEF row
<1>3. /\ \A t \in Nat : /\ [row EXCEPT !.checkin = t] \in DeviceRow
                       /\ [row EXCEPT !.matched = t] \in DeviceRow
      /\ \A s \in {"match", "mismatch"} : [row EXCEPT !.fingerprint = s] \in DeviceRow
  BY <1>1 DEF DeviceRow
<1>4. \A s : /\ [d EXCEPT !.devices[v].checkin = s]
                  = [d EXCEPT !.devices[v] = [row EXCEPT !.checkin = s]]
            /\ [d EXCEPT !.devices[v].matched = s]
                  = [d EXCEPT !.devices[v] = [row EXCEPT !.matched = s]]
            /\ [d EXCEPT !.devices[v].fingerprint = s]
                  = [d EXCEPT !.devices[v] = [row EXCEPT !.fingerprint = s]]
  BY DEF row
<1> QED BY <1>2, <1>3, <1>4

LEMMA CopyVerifiedKeeps ==
    ASSUME PolicyInv, NEW c \in CopyClaims, NEW time \in Nat,
           NEW result \in {"ok", "hash_mismatch", "read_error"}, ApplyCopyVerified(c, time, result)
    PROVE  PolicyInv'
<1> DEFINE st == CASE result = "ok" -> "present" [] result = "hash_mismatch" -> "corrupt"
                   [] OTHER -> "unknown"
           new == [facts EXCEPT !.copies[c].state = st, !.copies[c].result = result,
                                !.copies[c].verified = time]
<1>1. facts \in FactsType
  BY DEF PolicyInv, FactsPart
<1>2. st \in {"present", "corrupt", "unknown"}
  OBVIOUS
<1> HIDE DEF st
<1>3. new \in FactsType
  <2> DEFINE n1 == [facts EXCEPT !.copies[c].state = st]
             n2 == [n1 EXCEPT !.copies[c].result = result]
             n3 == [n2 EXCEPT !.copies[c].verified = time]
  <2>1. n1 \in FactsType
    BY <1>1, <1>2, CopyFieldTypes
  <2>2. n2 \in FactsType
    <3> HIDE DEF n1
    <3> QED BY <2>1, CopyFieldTypes
  <2>3. n3 \in FactsType
    <3> HIDE DEF n2
    <3> QED BY <2>2, CopyFieldTypes
  <2>4. new = n3
    OBVIOUS
  <2> QED BY <2>3, <2>4
<1>4. ApplyInput("copy_verified", new)
  BY DEF ApplyCopyVerified, st
<1> QED BY <1>3, <1>4, InputKeeps DEF policy_relevance

LEMMA CopyObservedKeeps ==
    ASSUME PolicyInv, NEW c \in CopyClaims, NEW time \in Nat, ApplyCopyObserved(c, time)
    PROVE  PolicyInv'
<1> DEFINE new == [facts EXCEPT !.copies[c].state = "present", !.copies[c].seen = time]
<1>1. facts \in FactsType
  BY DEF PolicyInv, FactsPart
<1>2. new \in FactsType
  <2> DEFINE n1 == [facts EXCEPT !.copies[c].state = "present"]
             n2 == [n1 EXCEPT !.copies[c].seen = time]
  <2>1. n1 \in FactsType
    BY <1>1, CopyFieldTypes
  <2>2. n2 \in FactsType
    <3> HIDE DEF n1
    <3> QED BY <2>1, CopyFieldTypes
  <2>3. new = n2
    OBVIOUS
  <2> QED BY <2>2, <2>3
<1>3. ApplyInput("copy_observed", new)
  BY DEF ApplyCopyObserved
<1> QED BY <1>2, <1>3, InputKeeps DEF policy_relevance

LEMMA LocationKeeps ==
    ASSUME PolicyInv, NEW c \in CopyClaims, NEW standing \in {"order", "defect", "unclear"},
           ApplyLocation(c, standing)
    PROVE  PolicyInv'
<1> DEFINE new == [facts EXCEPT !.copies[c].standing = standing]
<1>1. facts \in FactsType
  BY DEF PolicyInv, FactsPart
<1>2. new \in FactsType
  BY <1>1, CopyFieldTypes
<1>3. ApplyInput("location_updated", new)
  BY DEF ApplyLocation
<1> QED BY <1>2, <1>3, InputKeeps DEF policy_relevance

LEMMA ScanCompletedKeeps ==
    ASSUME PolicyInv, ApplyScanCompleted
    PROVE  PolicyInv'
<1> DEFINE cs == [c \in CopyClaims |-> IF c \in candidates
                                       THEN [facts.copies[c] EXCEPT !.state = "missing"]
                                       ELSE facts.copies[c]]
           new == [facts EXCEPT !.copies = cs]
<1>1. facts \in FactsType /\ facts.copies \in [CopyClaims -> CopyRow]
  BY DEF PolicyInv, FactsPart, FactsType
<1>2. \A c \in CopyClaims : [facts.copies[c] EXCEPT !.state = "missing"] \in CopyRow
  <2> SUFFICES ASSUME NEW c \in CopyClaims
               PROVE  [facts.copies[c] EXCEPT !.state = "missing"] \in CopyRow
    OBVIOUS
  <2> DEFINE row == facts.copies[c]
  <2>1. row \in CopyRow
    BY <1>1
  <2> HIDE DEF row
  <2>2. [row EXCEPT !.state = "missing"] \in CopyRow
    BY <2>1 DEF CopyRow
  <2> QED BY <2>2 DEF row
<1>3. cs \in [CopyClaims -> CopyRow]
  BY <1>1, <1>2
<1>4. ApplyInput("scan_completed", new)
  BY DEF ApplyScanCompleted
<1> HIDE DEF cs
<1>5. new \in FactsType
  BY <1>1, <1>3, CopiesType
<1> QED BY <1>4, <1>5, InputKeeps DEF policy_relevance

LEMMA CheckInKeeps ==
    ASSUME PolicyInv, NEW v \in CatalogDevices, NEW time \in Nat,
           NEW fingerprint \in {"match", "mismatch"}, ApplyCheckIn(v, time, fingerprint)
    PROVE  PolicyInv'
<1> DEFINE new == [facts EXCEPT !.devices[v].checkin = time,
                                !.devices[v].fingerprint = fingerprint,
                                !.devices[v].matched = IF fingerprint = "match" THEN time ELSE @]
<1>1. facts \in FactsType
  BY DEF PolicyInv, FactsPart
<1>2. new \in FactsType
  <2> DEFINE n1 == [facts EXCEPT !.devices[v].checkin = time]
             n2 == [n1 EXCEPT !.devices[v].fingerprint = fingerprint]
             mt == IF fingerprint = "match" THEN time ELSE n2.devices[v].matched
             n3 == [n2 EXCEPT !.devices[v].matched = mt]
  <2>1. n1 \in FactsType
    BY <1>1, DeviceFieldTypes
  <2>2. n2 \in FactsType
    <3> HIDE DEF n1
    <3> QED BY <2>1, DeviceFieldTypes
  <2>3. new = n3
    OBVIOUS
  <2> HIDE DEF n2
  <2>4. mt \in Nat
    BY <2>2 DEF FactsType, DeviceRow
  <2> HIDE DEF mt
  <2>5. n3 \in FactsType
    BY <2>2, <2>4, DeviceFieldTypes
  <2> QED BY <2>3, <2>5
<1>3. ApplyInput("device_checked_in", new)
  BY DEF ApplyCheckIn
<1> QED BY <1>2, <1>3, InputKeeps DEF policy_relevance

LEMMA PolicyUpdateKeeps ==
    ASSUME PolicyInv, NEW p \in PolicyIds, NEW r \in Requirements, NEW active \in BOOLEAN,
           ApplyPolicy(p, r, active)
    PROVE  PolicyInv'
<1> DEFINE new == [facts EXCEPT !.policies[p] = [version |-> @.version + 1, active |-> active,
                                                 requirements |-> r]]
<1>1. facts \in FactsType
  BY DEF PolicyInv, FactsPart
<1>2. new \in FactsType
  <2> DEFINE ps == [facts.policies EXCEPT ![p] = [version |-> facts.policies[p].version + 1,
                                                  active |-> active, requirements |-> r]]
  <2>1. facts.policies \in [PolicyIds -> PolicyRow] /\ facts.policies[p].version \in Nat
    BY <1>1 DEF FactsType, PolicyRow
  <2>2. ps \in [PolicyIds -> PolicyRow]
    BY <2>1 DEF PolicyRow
  <2>3. new = [facts EXCEPT !.policies = ps]
    OBVIOUS
  <2> HIDE DEF ps, new
  <2> QED BY <1>1, <2>2, <2>3 DEF FactsType
<1>3. ApplyInput("policy_updated", new)
  BY DEF ApplyPolicy
<1> QED BY <1>2, <1>3, InputKeeps DEF policy_relevance

LEMMA CollectionKeeps ==
    ASSUME PolicyInv, NEW p \in PolicyIds, NEW status \in CollectionStates,
           ApplyCollection(p, status)
    PROVE  PolicyInv'
<1> DEFINE new == [facts EXCEPT !.collections[p] = status]
<1>1. facts \in FactsType
  BY DEF PolicyInv, FactsPart
<1>2. new \in FactsType
  BY <1>1 DEF FactsType
<1>3. ApplyInput("collection_updated", new)
  BY DEF ApplyCollection
<1> QED BY <1>2, <1>3, InputKeeps DEF policy_relevance

LEMMA FileRefKeeps ==
    ASSUME PolicyInv, NEW f \in FileRefs, NEW active \in BOOLEAN, NEW identified \in BOOLEAN,
           ApplyFileRef(f, active, identified)
    PROVE  PolicyInv'
<1> DEFINE new == [facts EXCEPT !.files = IF active THEN @ \cup {f} ELSE @ \ {f},
                                !.identified = IF identified THEN @ \cup {f} ELSE @ \ {f}]
<1>1. facts \in FactsType
  BY DEF PolicyInv, FactsPart
<1>2. new \in FactsType
  BY <1>1 DEF FactsType
<1>3. ApplyInput("file_ref_updated", new)
  BY DEF ApplyFileRef
<1> QED BY <1>2, <1>3, InputKeeps DEF policy_relevance

LEMMA RiskKeeps ==
    ASSUME PolicyInv, NEW shared \in SUBSET CopyClaims, ApplyRisk(shared)
    PROVE  PolicyInv'
<1> DEFINE new == [facts EXCEPT !.shared = shared]
<1>1. facts \in FactsType
  BY DEF PolicyInv, FactsPart
<1>2. new \in FactsType
  BY <1>1 DEF FactsType
<1>3. ApplyInput("risk_assigned", new)
  BY DEF ApplyRisk
<1> QED BY <1>2, <1>3, InputKeeps DEF policy_relevance

\* Events that are no input leave what evaluations read alone.
LEMMA OtherEventsKeep ==
    ASSUME PolicyInv, ApplyJob \/ \E c \in CopyClaims : ApplyMissingCandidate(c)
    PROVE  PolicyInv'
<1>1. facts \in FactsType
  BY DEF PolicyInv, FactsPart
<1>2. \E type : ApplyInput(type, facts)
  BY DEF ApplyJob, ApplyMissingCandidate
<1> QED BY <1>1, <1>2, InputKeeps

-----------------------------------------------------------------------------
(* The theorems.                                                           *)

LEMMA PolicyNextKeeps ==
    ASSUME PolicyInv, PolicyNext
    PROVE  PolicyInv'
<1>1. CASE PolicyEvaluate
  BY <1>1, PolicyEvaluateKeeps
<1>2. CASE PassTime
  BY <1>2, PassTimeKeeps
<1>3. ASSUME NEW x \in Reporters, ReportStep(x) PROVE PolicyInv'
  BY <1>3, StartReportKeeps, ReadMarkerKeeps, ListLatestKeeps, JudgeEvaluationKeeps,
     ReevaluateKeeps, ReadFindingsKeeps DEF ReportStep
<1>4. CASE ProjectionStep
  <2>1. \A time \in EventTimes : time \in Nat
    BY DEF EventTimes, PolicyInv, FactsPart
  <2>2. ASSUME NEW c \in CopyClaims, NEW time \in EventTimes,
               \/ \E result \in {"ok", "hash_mismatch", "read_error"} :
                     ApplyCopyVerified(c, time, result)
               \/ ApplyCopyObserved(c, time)
        PROVE  PolicyInv'
    BY <2>1, <2>2, CopyVerifiedKeeps, CopyObservedKeeps
  <2>3. ASSUME NEW c \in CopyClaims,
               \/ ApplyMissingCandidate(c)
               \/ \E standing \in {"order", "defect", "unclear"} : ApplyLocation(c, standing)
        PROVE  PolicyInv'
    BY <2>3, OtherEventsKeep, LocationKeeps
  <2>4. ASSUME NEW v \in CatalogDevices, NEW time \in EventTimes,
               NEW fingerprint \in {"match", "mismatch"}, ApplyCheckIn(v, time, fingerprint)
        PROVE  PolicyInv'
    BY <2>1, <2>4, CheckInKeeps
  <2>5. ASSUME NEW p \in PolicyIds,
               \/ \E r \in Requirements, active \in BOOLEAN : ApplyPolicy(p, r, active)
               \/ \E status \in {"configured", "homeless", "retired"} : ApplyCollection(p, status)
        PROVE  PolicyInv'
    BY <2>5, PolicyUpdateKeeps, CollectionKeeps DEF CollectionStates
  <2>6. ASSUME NEW f \in FileRefs, NEW active \in BOOLEAN, NEW identified \in BOOLEAN,
               ApplyFileRef(f, active, identified)
        PROVE  PolicyInv'
    BY <2>6, FileRefKeeps
  <2>7. CASE ApplyRisk(CopyClaims) \/ ApplyRisk({})
    BY <2>7, RiskKeeps
  <2>8. CASE ApplyScanCompleted
    BY <2>8, ScanCompletedKeeps
  <2>9. CASE ApplyJob
    BY <2>9, OtherEventsKeep
  <2> QED BY <1>4, <2>2, <2>3, <2>4, <2>5, <2>6, <2>7, <2>8, <2>9 DEF ProjectionStep
<1> QED BY <1>1, <1>2, <1>3, <1>4 DEF PolicyNext

LEMMA PolicyStutter ==
    ASSUME PolicyInv, UNCHANGED policyVars
    PROVE  PolicyInv'
BY DEF policyVars, PolicyInv, FactsPart, EvaluationsPart, ReportsPart

\* In every state the evaluations whose input is the marker are what the
\* present facts give at their time, and every report has given the first of its
\* findings.
THEOREM PolicyInvariant == PolicySpec => []PolicyInv
<1>1. PolicyInit => PolicyInv
  BY PolicyStart
<1>2. PolicyInv /\ [PolicyNext]_policyVars => PolicyInv'
  BY PolicyNextKeeps, PolicyStutter
<1> QED BY <1>1, <1>2, PTL DEF PolicySpec

LEMMA UsableHolds ==
    ASSUME PolicyInv, NEW p \in PolicyIds, NEW i \in DOMAIN evaluations[p],
           NEW now \in evaluations[p][i].completed .. clock,
           Usable(p, evaluations[p][i], now)
    PROVE  LET e == evaluations[p][i]
           IN  /\ DOMAIN e.verdict = PolicyFiles(facts, p)
               /\ \A f \in DOMAIN e.verdict :
                     e.verdict[f] # "uncertain" \/ NothingAhead(p, e.completed) =>
                         evaluate_file(facts, f, now) = e.verdict[f]
<1> DEFINE e == evaluations[p][i]
<1>1. facts \in FactsType /\ clock \in Nat
  BY DEF PolicyInv, FactsPart
<1>2. EvaluationOK(p, e, facts, marker, clock) /\ e.completed \in Nat
  <2>1. evaluations[p] \in Seq(EvaluationRow)
    BY DEF PolicyInv, EvaluationsPart
  <2>2. e \in EvaluationRow
    <3> HIDE DEF EvaluationRow
    <3> QED BY <2>1
  <2> QED BY <2>2 DEF PolicyInv, EvaluationsPart, EvaluationRow
<1>3. now \in e.completed .. clock /\ Usable(p, e, now)
  OBVIOUS
<1> HIDE DEF e
<1>4. now \in Nat /\ e.completed <= now
  BY <1>1, <1>2, <1>3
<1>5. MadeFrom(facts, p, e)
  BY <1>2, <1>3 DEF EvaluationOK, Usable
<1>6. Holds(minimum_time(Expiries(facts, p, e.completed)), now)
  BY <1>3, <1>5 DEF Usable, MadeFrom, Holds
<1>7. /\ DOMAIN e.verdict = PolicyFiles(facts, p)
      /\ \A f \in DOMAIN e.verdict : e.verdict[f] = evaluate_file(facts, f, e.completed)
  BY <1>5 DEF MadeFrom
<1>8. NothingAhead(p, e.completed) <=> Settled(facts, p, e.completed)
  BY DEF NothingAhead, Settled
<1>9. \A f \in DOMAIN e.verdict :
         e.verdict[f] # "uncertain" \/ NothingAhead(p, e.completed) =>
             evaluate_file(facts, f, now) = e.verdict[f]
  BY <1>1, <1>2, <1>4, <1>6, <1>7, <1>8, VerdictHolds
<1> QED BY <1>7, <1>9 DEF e

LEMMA UsableIsTrue == PolicyInv => UsableIsCurrent
BY UsableHolds DEF UsableIsCurrent

LEMMA SatisfiedIsTrue == PolicyInv => SatisfiedSurvives
<1> SUFFICES ASSUME PolicyInv, NEW p \in PolicyIds, NEW i \in DOMAIN evaluations[p],
                    Usable(p, evaluations[p][i], clock),
                    NEW f \in DOMAIN evaluations[p][i].verdict,
                    evaluations[p][i].verdict[f] = "satisfied", NEW x
             PROVE  \E c \in CopiesOf(f) :
                        /\ x \notin Domains(facts, c)
                        /\ facts.copies[c].state = "present" /\ facts.copies[c].result = "ok"
                        /\ Fresh(facts.copies[c].verified,
                                 facts.policies[p].requirements.verification, clock)
                        /\ Fresh(facts.copies[c].seen,
                                 facts.policies[p].requirements.observation, clock)
  BY DEF SatisfiedSurvives
<1> DEFINE r == facts.policies[p].requirements
<1>1. facts \in FactsType /\ clock \in Nat
  BY DEF PolicyInv, FactsPart
<1>2. clock \in evaluations[p][i].completed .. clock
  <2>1. evaluations[p] \in Seq(EvaluationRow)
    BY DEF PolicyInv, EvaluationsPart
  <2>2. evaluations[p][i] \in EvaluationRow
    <3> HIDE DEF EvaluationRow
    <3> QED BY <2>1
  <2>3. evaluations[p][i].completed \in Nat
    BY <2>2 DEF EvaluationRow
  <2>4. evaluations[p][i].completed <= clock
    BY DEF PolicyInv, EvaluationsPart, EvaluationOK
  <2> QED BY <1>1, <2>3, <2>4
<1>3. f \in PolicyFiles(facts, p) /\ evaluate_file(facts, f, clock) = "satisfied"
  BY <1>2, UsableHolds
<1>4. PICK c \in CopiesOf(f) : x \notin Domains(facts, c) /\ Qualifies(facts, c, r, clock)
  BY <1>1, <1>3, SatisfiedIsSafe
<1>5. facts.copies[c].state = "present" /\ facts.copies[c].result = "ok"
  BY <1>4 DEF Qualifies, Defective, Doubtful
<1>6. \A l \in Limits(facts, c, r) : Fresh(l[1], l[2], clock)
  BY <1>4 DEF Qualifies, Doubtful
<1>7. /\ <<facts.copies[c].verified, r.verification>> \in Limits(facts, c, r)
      /\ <<facts.copies[c].seen, r.observation>> \in Limits(facts, c, r)
  BY DEF Limits
<1>8. /\ Fresh(facts.copies[c].verified, r.verification, clock)
      /\ Fresh(facts.copies[c].seen, r.observation, clock)
  BY <1>6, <1>7
<1> QED BY <1>4, <1>5, <1>8

LEMMA PagesAreTrue == PolicyInv => PagesAreWhole
BY DEF PolicyInv, ReportsPart, ReportOK, GivenOK, PagesAreWhole, FindingsIn, Findings, Rows

\* Whatever is applied, evaluated and reported at once, and however the time
\* passes: a usable evaluation says what an evaluation now would say, a file
\* without a finding survives the loss of any domain, and the pages of a report
\* are its findings, each once (policy.rs).
THEOREM PolicyReportsTrue == PolicySpec => []PolicyReportsAreTrue
<1>1. PolicyInv => PolicyReportsAreTrue
  BY UsableIsTrue, SatisfiedIsTrue, PagesAreTrue DEF PolicyReportsAreTrue
<1> QED BY <1>1, PolicyInvariant, PTL

=============================================================================
