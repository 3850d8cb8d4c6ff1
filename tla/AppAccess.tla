------------------------------- MODULE AppAccess -------------------------------
(***************************************************************************)
(* `archive app access` of a version 2 Archive (app_integration.rs): where *)
(* on this host the Files of a request can be read, and which Devices to   *)
(* attach for the rest.                                                    *)
(*                                                                         *)
(* The request is a sequence of File ids, answered page by page; the       *)
(* summary comes with every page and the attachment plan with the first.   *)
(* Between two pages inventory may advance the Archive, which makes the    *)
(* token stale, and disks may be unplugged and plugged in elsewhere, which *)
(* does not.  A page reads one snapshot of the database, which is applied. *)
(*                                                                         *)
(* A File's identity is the pair of an object and an external identity (a  *)
(* git-annex key), either of which may be None.  Ids of Files, Locations,  *)
(* Devices and Roots are numbers, ordered as the queries order them.       *)
(***************************************************************************)
EXTENDS Integers, Sequences, FiniteSets

CONSTANTS
    Refs,           \* the ids of Files that may be recorded
    Foreign,        \* those of another Collection
    Identities,     \* the pairs <<object, external>> an inventory may record
    None,
    Locations, Roots, DeviceOf, RootOf, \* RootOf[l], and DeviceOf[r]
    Confirmed,      \* Roots whose filesystem identity was confirmed
    Mounts,         \* paths something can be mounted at
    Requests,       \* the sequences of ids that are asked for
    PageSize,
    MaxEvents

ASSUME IdsAreOrdered == Refs \cup Locations \cup Roots \subseteq Nat
ASSUME RootsAreOnDevices == RootOf \in [Locations -> Roots] /\ DOMAIN DeviceOf = Roots
ASSUME PageSizeIsPositive == PageSize \in Nat \ {0}

VARIABLES
    ref,     \* file_refs: the identity of every recorded File
    claim,   \* copy_claims: state and identity, by File and Location
    retired, \* retired Roots, Locations and Devices
    mount,   \* the latest device_mounts row of every Root on this host
    plugged, \* what is mounted at every path
    seq,     \* the frontier: how many events there are
    ask      \* the application's request and the pages it has

accessVars == <<ref, claim, retired, mount, plugged, seq, ask>>

Devices == {DeviceOf[r] : r \in Roots}
NoRef == [object |-> None, ext |-> None, known |-> FALSE]
NoClaim == [object |-> None, ext |-> None, state |-> "none"]
Unmounted == [at |-> None, status |-> "unmounted"]

NoPlan == [steps |-> <<>>, rest |-> 0]
NoAsk == [request |-> <<>>, frontier |-> 0, after |-> 0, items |-> <<>>, summary |-> <<>>,
          plan |-> NoPlan, roots |-> {}, steady |-> TRUE, result |-> "none"]

Least(S) == CHOOSE x \in S : \A y \in S : x <= y

-----------------------------------------------------------------------------
(* What the Archive learns, and what happens on the host.                  *)

\* An answer is forgotten once it is given.
Event ==
    /\ seq < MaxEvents /\ seq' = seq + 1
    /\ ask' = IF ask.result = "paging" THEN ask ELSE NoAsk

\* file, copy: an identity observed without an external key keeps the old key
Merged(c, old) == [object |-> c[1], ext |-> IF c[2] = None THEN old.ext ELSE c[2]]

Observe(f, l, c) ==
    /\ Event
    /\ LET i == Merged(c, ref[f])
           j == Merged(c, claim[f][l])
       IN  /\ ref' = [ref EXCEPT ![f] = [object |-> i.object, ext |-> i.ext, known |-> TRUE]]
           /\ claim' = [claim EXCEPT ![f][l] = [object |-> j.object, ext |-> j.ext, state |-> "present"]]
    /\ UNCHANGED <<retired, mount, plugged>>

CopyIsMissing(f, l) ==
    /\ Event
    /\ claim[f][l].state = "present"
    /\ claim' = [claim EXCEPT ![f][l].state = "missing"]
    /\ UNCHANGED <<ref, retired, mount, plugged>>

Retire(x) ==
    /\ Event
    /\ x \notin retired
    /\ retired' = retired \cup {x}
    /\ UNCHANGED <<ref, claim, mount, plugged>>

device_mount_observed(r) ==
    /\ Event
    /\ \/ \E p \in Mounts : plugged[p] = r /\ mount' = [mount EXCEPT ![r] = [at |-> p, status |-> "mounted"]]
       \/ mount' = [mount EXCEPT ![r] = Unmounted]
    /\ mount' # mount
    /\ UNCHANGED <<ref, claim, retired, plugged>>

\* external: a disk is plugged in or out, or another one takes its path
Plug(p, r) ==
    /\ plugged[p] # r
    /\ r = None \/ \A q \in Mounts : plugged[q] # r
    /\ plugged' = [plugged EXCEPT ![p] = r]
    /\ ask' = IF ask.result = "paging" THEN [ask EXCEPT !.steady = FALSE] ELSE NoAsk
    /\ UNCHANGED <<ref, claim, retired, mount, seq>>

-----------------------------------------------------------------------------
(* The answer.                                                             *)

\* load_request: an id asked for twice counts once, where it came first
load_request(lines) ==
    LET firsts == {i \in 1..Len(lines) : \A j \in 1..(i - 1) : lines[j] # lines[i]}
    IN  [n \in 1..Cardinality(firsts) |->
            lines[CHOOSE i \in firsts : Cardinality({j \in firsts : j <= i}) = n]]

\* A Root counts when its mount path still has a filesystem and, where the
\* identity was confirmed, it is that Root's.  An unidentified Root only needs
\* a mount at the path.
install_accessible_roots ==
    {r \in Roots \ retired :
        /\ mount[r].status = "mounted"
        /\ plugged[mount[r].at] # None
        /\ r \in Confirmed => plugged[mount[r].at] = r}

fingerprint_status(r) == IF r \in Confirmed THEN "match" ELSE "unavailable"

InCollection(f) == f \in Refs \ Foreign /\ ref[f].known

\* The key of the temporary table's rows, and what they are grouped by
content_key(f) ==
    IF ref[f].object # None THEN <<"object", ref[f].object>>
    ELSE IF ref[f].ext # None THEN <<"external", ref[f].ext>>
    ELSE <<"file", f>>

Group(f) == [key |-> content_key(f), object |-> ref[f].object, ext |-> ref[f].ext]

Groups(request) == {Group(request[n]) : n \in {m \in DOMAIN request : InCollection(request[m])}}

\* the PRIMARY KEY of app_content_access
KeysAreUnique(request) ==
    \A g, h \in Groups(request) : g.key = h.key => g = h

active_copies(g) ==
    {fl \in Refs \X (Locations \ retired) :
        LET c == claim[fl[1]][fl[2]]
        IN  /\ c.state = "present"
            /\ DeviceOf[RootOf[fl[2]]] \notin retired
            /\ IF g.object # None THEN c.object = g.object
               ELSE g.ext # None /\ c.ext = g.ext}

usable_copies(g, roots) == {fl \in active_copies(g) : RootOf[fl[2]] \in roots}

\* access_page: what is said of one requested id
state_of(f, roots) ==
    IF f \notin Refs \/ ~ref[f].known THEN "not_found"
    ELSE IF f \in Foreign THEN "wrong_collection"
    ELSE IF usable_copies(Group(f), roots) # {} THEN "accessible"
    ELSE IF active_copies(Group(f)) # {} THEN "attachment_required"
    ELSE "no_known_copy"

\* candidate_page: the copy of the first Location
local_candidate(f, roots) ==
    IF state_of(f, roots) # "accessible" THEN <<>>
    ELSE LET l == Least({fl[2] : fl \in usable_copies(Group(f), roots)})
         IN  <<[root |-> RootOf[l], at |-> mount[RootOf[l]].at, identity |-> fingerprint_status(RootOf[l])]>>

States == {"accessible", "attachment_required", "no_known_copy", "not_found", "wrong_collection"}

access_summary(request, roots) ==
    [s \in States |-> Cardinality({n \in DOMAIN request : state_of(request[n], roots) = s})]

access_page(request, roots, after) ==
    [n \in 1..(IF Len(request) - after < PageSize THEN Len(request) - after ELSE PageSize) |->
        LET f == request[after + n]
        IN  [id |-> f, state |-> state_of(f, roots), candidate |-> local_candidate(f, roots)]]

-----------------------------------------------------------------------------
(* The plan: the Device that covers most of the requested Files that are   *)
(* still uncovered, again and again.                                       *)

on_device(g, d) == \E fl \in active_copies(g) : DeviceOf[RootOf[fl[2]]] = d

files_covered(request, S, d) ==
    Cardinality({n \in DOMAIN request : InCollection(request[n]) /\ Group(request[n]) \in S
                                        /\ on_device(Group(request[n]), d)})

best_device(request, S) ==
    CHOOSE d \in Devices :
        /\ \E g \in S : on_device(g, d)
        /\ \A e \in Devices :
             \/ files_covered(request, S, e) < files_covered(request, S, d)
             \/ files_covered(request, S, e) = files_covered(request, S, d) /\ d <= e

Bug_still_uncovered(S, d) == {g \in S : active_copies(g) = {}}

still_uncovered(S, d) == {g \in S : ~on_device(g, d)}

attachment_plan(request, roots) ==
    LET uncovered == {g \in Groups(request) : usable_copies(g, roots) = {}}
        count(S)  == Cardinality({n \in DOMAIN request : InCollection(request[n]) /\ Group(request[n]) \in S})
        steps[S \in SUBSET uncovered] ==
            IF \A g \in S, d \in Devices : ~on_device(g, d) THEN [steps |-> <<>>, rest |-> count(S)]
            ELSE LET d    == best_device(request, S)
                     tail == steps[still_uncovered(S, d)]
                 IN  [steps |-> <<[device |-> d, covered |-> files_covered(request, S, d)]>> \o tail.steps,
                      rest  |-> tail.rest]
    IN  steps[uncovered]

-----------------------------------------------------------------------------
(* One call of the command.  The token carries the request's hash, the     *)
(* frontier and the last ordinal.                                          *)

access_plan(lines, first) ==
    LET request == load_request(lines)
        roots   == install_accessible_roots
        after   == IF first THEN 0 ELSE ask.after
        items   == access_page(request, roots, after)
        more    == Len(request) > after + PageSize
    IN  IF ~first /\ ask.frontier # seq THEN [NoAsk EXCEPT !.result = "stale"]
        ELSE IF ~KeysAreUnique(request) THEN [NoAsk EXCEPT !.request = request, !.result = "failed"]
        ELSE [request  |-> request,
              frontier |-> seq,
              after    |-> after + Len(items),
              items    |-> IF first THEN items ELSE ask.items \o items,
              summary  |-> access_summary(request, roots),
              plan     |-> IF first THEN attachment_plan(request, roots) ELSE ask.plan,
              roots    |-> roots,
              steady   |-> first \/ ask.steady,
              result   |-> IF more THEN "paging" ELSE "done"]

Ask(lines) ==
    /\ ask.result # "paging"
    /\ ask' = access_plan(lines, TRUE)
    /\ UNCHANGED <<ref, claim, retired, mount, plugged, seq>>

Continue ==
    /\ ask.result = "paging"
    /\ ask' = access_plan(ask.request, FALSE)
    /\ UNCHANGED <<ref, claim, retired, mount, plugged, seq>>

-----------------------------------------------------------------------------
AccessInit ==
    /\ ref = [f \in Refs |-> NoRef]
    /\ claim = [f \in Refs |-> [l \in Locations |-> NoClaim]]
    /\ retired = {}
    /\ mount = [r \in Roots |-> Unmounted]
    /\ plugged = [p \in Mounts |-> None]
    /\ seq = 0
    /\ ask = NoAsk

AccessNext ==
    \/ \E f \in Refs, l \in Locations :
         \/ \E c \in Identities : Observe(f, l, c)
         \/ CopyIsMissing(f, l)
    \/ \E x \in Locations \cup Roots \cup Devices : Retire(x)
    \/ \E r \in Roots : device_mount_observed(r)
    \/ \E p \in Mounts, r \in Roots \cup {None} : Plug(p, r)
    \/ \E lines \in Requests : Ask(lines)
    \/ Continue

AccessSpec == AccessInit /\ [][AccessNext]_accessVars

-----------------------------------------------------------------------------
Completed == ask.result = "done"
Counted(s) == Cardinality({n \in DOMAIN ask.items : ask.items[n].state = s})
Planned == {ask.plan.steps[n].device : n \in DOMAIN ask.plan.steps}
Fresh == ask.frontier = seq /\ ask.result \in {"paging", "done"}

(* Whatever is plugged in or out between the pages, the pages together     *)
(* answer every id of the request once and in its order.                   *)
PagesAnswerTheRequest ==
    Completed => [n \in DOMAIN ask.items |-> ask.items[n].id] = ask.request

(* The three queries that classify the request agree: the states of the    *)
(* items add up to the summary and, if no disk was moved in between, the   *)
(* steps of the plan cover exactly the Files that need a Device and leave  *)
(* exactly those without a copy.                                           *)
PlanAgreesWithStates ==
    Completed /\ ask.steady =>
        /\ \A s \in States : Counted(s) = ask.summary[s]
        /\ ask.plan.rest = ask.summary["no_known_copy"]
        /\ LET total[n \in 0..Len(ask.plan.steps)] ==
                   IF n = 0 THEN 0 ELSE total[n - 1] + ask.plan.steps[n].covered
           IN  total[Len(ask.plan.steps)] = ask.summary["attachment_required"]

(* Attaching every Device of the plan, and letting the Archive recognise   *)
(* the mounts, makes every File that needs attachment accessible, as long  *)
(* as no Root of theirs is retired.                                        *)
PlanSuffices ==
    Completed /\ ask.steady /\ Fresh =>
        LET roots == ask.roots \cup {r \in Roots : DeviceOf[r] \in Planned}
        IN  roots \cap retired = {} =>
              \A n \in DOMAIN ask.items :
                 ask.items[n].state = "attachment_required"
                     => state_of(ask.items[n].id, roots) = "accessible"

(* A candidate whose mount identity is "match" is on the disk that is      *)
(* mounted there when the answer is given, however old the observation of  *)
(* the mount is.                                                           *)
CandidatesAreOnTheirDisk ==
    \A n \in DOMAIN ask'.items :
      /\ (ask.result = "paging" => n > Len(ask.items))
      /\ ask' # ask /\ ask'.items # ask.items /\ ask'.items[n].candidate # <<>>
      => LET c == ask'.items[n].candidate[1]
         IN  c.identity = "match" => plugged[c.at] = c.root

(* An access request is answered in full, by candidates that are where the *)
(* answer says, with a plan that agrees with the states and suffices.      *)
AccessIsAnswered ==
    [][/\ CandidatesAreOnTheirDisk
       /\ (PagesAnswerTheRequest /\ PlanAgreesWithStates /\ PlanSuffices)']_accessVars

(* `app access` "accepts one File ID per JSONL line and returns a bounded  *)
(* page in request order" (product.md 1065): no set of recorded Files      *)
(* makes it fail.                                                          *)
\* TLC refutes it: README, "Met while modelling".
AccessAnswers == ask.result # "failed"

(* The plan "is actionable guidance": as PlanSuffices, of a plan that a    *)
(* retired Root may be part of.                                            *)
\* TLC refutes it: README, "Met while modelling".
PlanIsActionable ==
    Completed /\ ask.steady /\ Fresh =>
        LET roots == (ask.roots \cup {r \in Roots : DeviceOf[r] \in Planned}) \ retired
        IN  \A n \in DOMAIN ask.items :
               ask.items[n].state = "attachment_required"
                   => state_of(ask.items[n].id, roots) = "accessible"
=============================================================================
