------------------------------- MODULE PolicyEval -------------------------------
(***************************************************************************)
(* Policy evaluation over the version 1 projection (policy.rs): the        *)
(* evaluation of every file against the policy of its collection, the      *)
(* cached evaluations with the conditions under which they may still be    *)
(* used, and the reports that read them page by page.                      *)
(*                                                                         *)
(* An evaluation is one transaction.  A report is not: it reads the        *)
(* projection's markers, picks the latest evaluation of every policy,      *)
(* judges each one, evaluates again if one is stale, and then reads its    *)
(* findings, while other processes apply events and evaluate.              *)
(*                                                                         *)
(* A collection has one policy of its own, and an object one copy at a     *)
(* Location.  What the status of location, archive root and site, their    *)
(* identity and trust say of a copy is one standing: in order, a known     *)
(* defect, or something unclear.                                           *)
(***************************************************************************)
EXTENDS Integers, Sequences, FiniteSets

CONSTANTS
    PolicyIds,       \* in the order of their identifiers: a subset of Nat
    PolicyOf,        \* the policy of every file's collection; files are numbered
    CopyClaims,
    FileObject, CopyObject, \* the object of a file, of a copy
    DeviceOf,        \* the device of a copy's location, Deviceless for a service
    Deviceless,
    SiteOf, HomeSite,
    OfflineCopies, EncryptedCopies,
    Requirements,    \* the requirements a policy may have
    Reporters,       \* processes that report
    FindingLimit,    \* findings of a page
    MaxClock, MaxInputs, MaxEvaluations \* bounds

FileRefs == DOMAIN PolicyOf
CatalogDevices == {DeviceOf[c] : c \in CopyClaims} \ {Deviceless}

\* from_json: counts and age limits are positive.
ValidRequirements(r) ==
    /\ {r.copies, r.devices, r.sites, r.verification, r.observation, r.checkin} \subseteq Nat \ {0}
    /\ {r.offsite, r.offline, r.encrypted} \subseteq BOOLEAN

ASSUME RequirementsAssumption == \A r \in Requirements : ValidRequirements(r)

ASSUME PolicyAssumption ==
    /\ PolicyIds \subseteq Nat /\ FileRefs \subseteq Nat
    /\ \A f \in FileRefs : PolicyOf[f] \in PolicyIds
    /\ IsFiniteSet(PolicyIds) /\ IsFiniteSet(FileRefs) /\ IsFiniteSet(CopyClaims)
    /\ FindingLimit \in Nat \ {0} /\ {MaxClock, MaxInputs, MaxEvaluations} \subseteq Nat

VARIABLES
    facts,      \* what an evaluation reads of the projection
    marker,     \* applied_event_seq and policy_input_event_seq
    candidates, \* missing candidates of running scans: read by no evaluation
    clock,
    evaluations, \* the cached evaluations, in the order they were made
    reporter    \* the report of every process

policyVars == <<facts, marker, candidates, clock, evaluations, reporter>>

NoTime == 0

-----------------------------------------------------------------------------
(* The evaluation of a copy                                                *)

\* check_freshness
Future(time, now) == time # NoTime /\ time > now
Fresh(time, age, now) == time # NoTime /\ time <= now /\ time + age > now

\* The times of a copy that a policy limits, with their limits.
Limits(d, c, r) ==
    {<<d.copies[c].verified, r.verification>>, <<d.copies[c].seen, r.observation>>}
    \cup IF DeviceOf[c] = Deviceless THEN {}
         ELSE {<<d.devices[DeviceOf[c]].checkin, r.checkin>>,
               <<d.devices[DeviceOf[c]].matched, r.checkin>>}

OffSite(c) == SiteOf[c] # HomeSite

\* assess_copy: the reasons that are certain.
Defective(d, c, r) ==
    \/ d.copies[c].state # "present"
    \/ d.copies[c].result \notin {"ok", "none"}
    \/ d.copies[c].standing = "defect"
    \/ r.encrypted /\ OffSite(c) /\ c \notin EncryptedCopies

\* assess_copy: the reasons that leave the copy uncertain.
Doubtful(d, c, r, now) ==
    \/ d.copies[c].result = "none"
    \/ d.copies[c].standing = "unclear"
    \/ DeviceOf[c] # Deviceless /\ d.devices[DeviceOf[c]].fingerprint # "match"
    \/ \E l \in Limits(d, c, r) : ~Fresh(l[1], l[2], now)

Qualifies(d, c, r, now) == ~Defective(d, c, r) /\ ~Doubtful(d, c, r, now)

CopiesOf(f) == {c \in CopyClaims : CopyObject[c] = FileObject[f]}

-----------------------------------------------------------------------------
(* The evaluation of a file                                                *)

\* The domains whose loss takes a copy away: its device, or the service
\* itself, its site, and the custom domain it is assigned to.
Domains(d, c) ==
    {IF DeviceOf[c] = Deviceless THEN <<"service", c>> ELSE <<"device", DeviceOf[c]>>,
     <<"site", SiteOf[c]>>}
    \cup IF c \in d.shared THEN {<<"risk", "shared">>} ELSE {}

FailsRequirement(r, qualified) ==
    \/ Cardinality(qualified) < r.copies
    \/ Cardinality({DeviceOf[c] : c \in qualified} \ {Deviceless}) < r.devices
    \/ Cardinality({SiteOf[c] : c \in qualified}) < r.sites
    \/ r.offsite /\ ~\E c \in qualified : OffSite(c)
    \/ r.offline /\ qualified \cap OfflineCopies = {}
    \/ r.encrypted /\ ~\E c \in qualified \cap EncryptedCopies : OffSite(c)

\* loss_scenarios: the loss of one domain is the loss of every copy.
PermanentLoss(d, qualified) ==
    \E c \in qualified : \E x \in Domains(d, c) : \A other \in qualified : x \in Domains(d, other)

\* evaluate_file: the result.
evaluate_file(d, f, now) ==
    LET r == d.policies[PolicyOf[f]].requirements
        qualified == {c \in CopiesOf(f) : Qualifies(d, c, r, now)}
    IN  CASE f \notin d.identified -> "uncertain"
          [] f \in d.identified /\ ~FailsRequirement(r, qualified)
                                /\ ~PermanentLoss(d, qualified) -> "satisfied"
          [] OTHER -> IF \E c \in CopiesOf(f) : Doubtful(d, c, r, now) THEN "uncertain"
                      ELSE "violated"

\* load_policy_contexts: an active policy of a collection with a home site.
Evaluated(d, p) == d.policies[p].active /\ d.collections[p] = "configured"

PolicyFiles(d, p) == {f \in d.files : PolicyOf[f] = p}

\* minimum_time of the freshness limits not yet passed: of every copy of an
\* identified file, whether it qualifies or not.
Expiries(d, p, now) ==
    {l[1] + l[2] : l \in {m \in UNION {Limits(d, c, d.policies[p].requirements) :
                                        c \in UNION {CopiesOf(f) : f \in PolicyFiles(d, p)
                                                                           \cap d.identified}} :
                             Fresh(m[1], m[2], now)}}

minimum_time(times) ==
    IF times = {} THEN NoTime ELSE CHOOSE t \in times : \A u \in times : t <= u

\* evaluate_policies and finish_evaluations: the counts of the roll-up are
\* those of the verdicts.
Evaluation(d, p, now) ==
    [version |-> d.policies[p].version, input |-> marker.input, completed |-> now,
     until |-> minimum_time(Expiries(d, p, now)),
     verdict |-> [f \in PolicyFiles(d, p) |-> evaluate_file(d, f, now)]]

evaluate_policies(now) ==
    evaluations' = [p \in PolicyIds |->
                      IF Evaluated(facts, p)
                      THEN Append(evaluations[p], Evaluation(facts, p, now))
                      ELSE evaluations[p]]

-----------------------------------------------------------------------------
(* The cache                                                               *)

\* invalid_evaluation_reason: none.
Usable(p, e, now) ==
    /\ e.input = marker.input
    /\ e.version = facts.policies[p].version
    /\ facts.policies[p].active
    /\ e.until # NoTime => e.until > now

\* The latest by completed time; identifiers made in the same millisecond are
\* in no order.
Latest(p) ==
    {i \in DOMAIN evaluations[p] :
        \A j \in DOMAIN evaluations[p] : evaluations[p][j].completed <= evaluations[p][i].completed}

\* cached_policy_status asks for policies of active collections, with or
\* without a home site.
Listed(p) == facts.policies[p].active /\ facts.collections[p] # "retired"

Findings(chosen) ==
    {y \in PolicyIds \X FileRefs :
        /\ y[1] \in DOMAIN chosen
        /\ y[2] \in DOMAIN evaluations[y[1]][chosen[y[1]]].verdict
        /\ evaluations[y[1]][chosen[y[1]]].verdict[y[2]] # "satisfied"}

Before(x, y) == x[1] < y[1] \/ (x[1] = y[1] /\ x[2] < y[2])

NoToken == [applied |-> 0, chosen |-> <<>>, after |-> <<>>]

\* given and count are kept for the properties: the findings of the pages so
\* far, and how many they were.
NoReport ==
    [pc |-> "idle", now |-> 0, again |-> FALSE, applied |-> 0, todo |-> <<>>, chosen |-> <<>>,
     stale |-> FALSE, token |-> NoToken, given |-> {}, count |-> 0, ended |-> FALSE]

PolicyInit ==
    /\ \E r \in Requirements :
          facts = [policies |-> [p \in PolicyIds |-> [version |-> 1, active |-> TRUE,
                                                      requirements |-> r]],
                   collections |-> [p \in PolicyIds |-> "configured"],
                   files |-> FileRefs, identified |-> FileRefs,
                   copies |-> [c \in CopyClaims |-> [state |-> "present", result |-> "ok",
                                                     verified |-> 1, seen |-> 1,
                                                     standing |-> "order"]],
                   devices |-> [v \in CatalogDevices |-> [checkin |-> 1, matched |-> 1,
                                                          fingerprint |-> "match"]],
                   shared |-> {}]
    /\ marker = [seq |-> 1, input |-> 1]
    /\ candidates \in SUBSET CopyClaims \* of a scan that is under way
    /\ clock = 1
    /\ evaluations = [p \in PolicyIds |-> <<>>]
    /\ reporter = [x \in Reporters |-> NoReport]

-----------------------------------------------------------------------------
(* Reports                                                                 *)

SetReporter(x, r) == reporter' = [reporter EXCEPT ![x] = r]

MayEvaluate == \A p \in PolicyIds : Len(evaluations[p]) < MaxEvaluations

\* `policy evaluate`
PolicyEvaluate ==
    /\ MayEvaluate /\ evaluate_policies(clock)
    /\ UNCHANGED <<facts, marker, candidates, clock, reporter>>

\* `report risk`, or the next page of it; the time is read once.
StartReport(x, continue) ==
    /\ reporter[x].pc = "idle" /\ (continue => reporter[x].token # NoToken)
    /\ SetReporter(x, [IF continue THEN reporter[x] ELSE NoReport EXCEPT
                          !.pc = "status", !.now = clock, !.again = FALSE])
    /\ UNCHANGED <<facts, marker, candidates, clock, evaluations>>

\* cached_policy_status: the marker.
ReadMarker(x) ==
    /\ reporter[x].pc = "status"
    /\ SetReporter(x, [reporter[x] EXCEPT !.pc = "list", !.applied = marker.seq])
    /\ UNCHANGED <<facts, marker, candidates, clock, evaluations>>

\* The latest evaluation of every policy; 0 for a policy without one.
ListLatest(x) ==
    /\ reporter[x].pc = "list"
    /\ \E latest \in [{p \in PolicyIds : Listed(p)} -> 0 .. MaxEvaluations] :
          /\ \A p \in DOMAIN latest :
                IF evaluations[p] = <<>> THEN latest[p] = 0 ELSE latest[p] \in Latest(p)
          /\ SetReporter(x, [reporter[x] EXCEPT !.pc = "judge", !.todo = latest,
                                                !.chosen = <<>>, !.stale = FALSE])
    /\ UNCHANGED <<facts, marker, candidates, clock, evaluations>>

Without(f, p) == [q \in DOMAIN f \ {p} |-> f[q]]
With(f, p, i) == [q \in DOMAIN f \cup {p} |-> IF q = p THEN i ELSE f[q]]

\* policy_evaluation_validity of the next policy, on a connection of its own.
JudgeEvaluation(x, p) ==
    LET w == reporter[x]
        i == w.todo[p]
        usable == i # 0 /\ Usable(p, evaluations[p][i], w.now)
    IN  /\ w.pc = "judge" /\ p \in DOMAIN w.todo /\ \A q \in DOMAIN w.todo : p <= q
        /\ SetReporter(x, [w EXCEPT !.todo = Without(@, p),
                                    !.chosen = IF usable THEN With(@, p, i) ELSE @,
                                    !.stale = @ \/ ~usable])
        /\ UNCHANGED <<facts, marker, candidates, clock, evaluations>>

\* current_policy_status: anything stale is evaluated again, once.
Reevaluate(x) ==
    LET w == reporter[x]
    IN  /\ w.pc = "judge" /\ DOMAIN w.todo = {} /\ w.stale /\ ~w.again
        /\ MayEvaluate /\ evaluate_policies(w.now)
        /\ SetReporter(x, [w EXCEPT !.pc = "status", !.again = TRUE])
        /\ UNCHANGED <<facts, marker, candidates, clock>>

TokenMatches(w) ==
    w.token # NoToken => w.token.applied = w.applied /\ w.token.chosen = w.chosen

\* cached_policy_findings: a page, or StaleContinuation.
ReadFindings(x) ==
    LET w == reporter[x]
        left == {y \in Findings(w.chosen) : w.token = NoToken \/ Before(w.token.after, y)}
        page == {y \in left : Cardinality({z \in left : Before(z, y)}) < FindingLimit}
        last == CHOOSE y \in page : \A z \in page : z = y \/ Before(z, y)
    IN  /\ w.pc = "judge" /\ DOMAIN w.todo = {} /\ (w.stale => w.again)
        /\ IF marker.seq = w.applied /\ TokenMatches(w)
           THEN SetReporter(x, [w EXCEPT
                    !.pc = "idle", !.given = @ \cup page, !.count = @ + Cardinality(page),
                    !.token = IF page = left THEN NoToken
                              ELSE [applied |-> w.applied, chosen |-> w.chosen, after |-> last],
                    !.ended = page = left])
           ELSE SetReporter(x, NoReport)
        /\ UNCHANGED <<facts, marker, candidates, clock, evaluations>>

ReportStep(x) ==
    \/ \E continue \in BOOLEAN : StartReport(x, continue)
    \/ ReadMarker(x) \/ ListLatest(x)
    \/ \E p \in PolicyIds : JudgeEvaluation(x, p)
    \/ Reevaluate(x) \/ ReadFindings(x)

-----------------------------------------------------------------------------
(* The projection                                                          *)

\* Fault: the end of a scan, which marks copies missing, is not an input.
Bug_policy_relevance ==
    [copy_verified |-> TRUE, copy_observed |-> TRUE, copy_missing_candidate |-> FALSE,
     scan_completed |-> FALSE, device_checked_in |-> TRUE, policy_updated |-> TRUE,
     collection_updated |-> TRUE, file_ref_updated |-> TRUE, location_updated |-> TRUE,
     risk_assigned |-> TRUE, job_finished |-> FALSE]

\* event_catalog
policy_relevance ==
    [copy_verified |-> TRUE, copy_observed |-> TRUE, copy_missing_candidate |-> FALSE,
     scan_completed |-> TRUE, device_checked_in |-> TRUE, policy_updated |-> TRUE,
     collection_updated |-> TRUE, file_ref_updated |-> TRUE, location_updated |-> TRUE,
     risk_assigned |-> TRUE, job_finished |-> FALSE]

\* apply_batch, one event of it.
ApplyInput(type, new) ==
    LET seq == marker.seq + 1
    IN  /\ seq <= MaxInputs
        /\ facts' = new
        /\ marker' = [seq |-> seq, input |-> IF policy_relevance[type] THEN seq ELSE marker.input]
        /\ UNCHANGED <<clock, evaluations, reporter>>

ApplyCopyVerified(c, time, result) ==
    /\ ApplyInput("copy_verified",
          [facts EXCEPT !.copies[c].state = CASE result = "ok" -> "present"
                                              [] result = "hash_mismatch" -> "corrupt"
                                              [] OTHER -> "unknown",
                        !.copies[c].result = result, !.copies[c].verified = time])
    /\ UNCHANGED candidates

ApplyCopyObserved(c, time) ==
    /\ ApplyInput("copy_observed",
          [facts EXCEPT !.copies[c].state = "present", !.copies[c].seen = time])
    /\ UNCHANGED candidates

ApplyMissingCandidate(c) ==
    /\ c \notin candidates /\ candidates' = candidates \cup {c}
    /\ ApplyInput("copy_missing_candidate", facts)

\* A complete scan: what ScanV1 has in detail.
ApplyScanCompleted ==
    /\ candidates # {} /\ candidates' = {}
    /\ ApplyInput("scan_completed",
          [facts EXCEPT !.copies = [c \in CopyClaims |->
              IF c \in candidates THEN [@[c] EXCEPT !.state = "missing"] ELSE @[c]]])

ApplyCheckIn(v, time, fingerprint) ==
    /\ ApplyInput("device_checked_in",
          [facts EXCEPT !.devices[v].checkin = time, !.devices[v].fingerprint = fingerprint,
                        !.devices[v].matched = IF fingerprint = "match" THEN time ELSE @])
    /\ UNCHANGED candidates

ApplyPolicy(p, r, active) ==
    /\ ApplyInput("policy_updated",
          [facts EXCEPT !.policies[p] = [version |-> @.version + 1, active |-> active,
                                         requirements |-> r]])
    /\ UNCHANGED candidates

ApplyCollection(p, status) ==
    /\ status # facts.collections[p]
    /\ ApplyInput("collection_updated", [facts EXCEPT !.collections[p] = status])
    /\ UNCHANGED candidates

ApplyFileRef(f, active, identified) ==
    /\ ApplyInput("file_ref_updated",
          [facts EXCEPT !.files = IF active THEN @ \cup {f} ELSE @ \ {f},
                        !.identified = IF identified THEN @ \cup {f} ELSE @ \ {f}])
    /\ UNCHANGED candidates

ApplyLocation(c, standing) ==
    /\ standing # facts.copies[c].standing
    /\ ApplyInput("location_updated", [facts EXCEPT !.copies[c].standing = standing])
    /\ UNCHANGED candidates

ApplyRisk(shared) ==
    /\ ApplyInput("risk_assigned", [facts EXCEPT !.shared = shared])
    /\ UNCHANGED candidates

ApplyJob == ApplyInput("job_finished", facts) /\ UNCHANGED candidates

\* Events may have the time of a host whose clock is ahead.
EventTimes == {clock, clock + 1}

ProjectionStep ==
    \/ \E c \in CopyClaims, time \in EventTimes :
          \/ \E result \in {"ok", "hash_mismatch", "read_error"} :
                ApplyCopyVerified(c, time, result)
          \/ ApplyCopyObserved(c, time)
    \/ \E c \in CopyClaims :
          \/ ApplyMissingCandidate(c)
          \/ \E standing \in {"order", "defect", "unclear"} : ApplyLocation(c, standing)
    \/ ApplyScanCompleted
    \/ \E v \in CatalogDevices, time \in EventTimes :
          \E fingerprint \in {"match", "mismatch"} : ApplyCheckIn(v, time, fingerprint)
    \/ \E p \in PolicyIds :
          \/ \E r \in Requirements, active \in BOOLEAN : ApplyPolicy(p, r, active)
          \/ \E status \in {"configured", "homeless", "retired"} : ApplyCollection(p, status)
    \/ \E f \in FileRefs, active, identified \in BOOLEAN : ApplyFileRef(f, active, identified)
    \/ ApplyRisk(CopyClaims) \/ ApplyRisk({})
    \/ ApplyJob

PassTime ==
    /\ clock < MaxClock /\ clock' = clock + 1
    /\ UNCHANGED <<facts, marker, candidates, evaluations, reporter>>

PolicyNext ==
    \/ \E x \in Reporters : ReportStep(x)
    \/ PolicyEvaluate
    \/ ProjectionStep
    \/ PassTime

PolicySpec == PolicyInit /\ [][PolicyNext]_policyVars

-----------------------------------------------------------------------------
(* Properties                                                              *)

\* No time of an identified file's copies was ahead of an evaluation's clock.
NothingAhead(p, now) ==
    \A f \in PolicyFiles(facts, p) \cap facts.identified : \A c \in CopiesOf(f) :
        \A l \in Limits(facts, c, facts.policies[p].requirements) : ~Future(l[1], now)

\* An evaluation that may be used says of every file what an evaluation now
\* would say, whatever was applied and however much time has passed (policy.rs
\* invalid_evaluation_reason, valid_until_utc_ms and policy_input_event_seq).
\* A time ahead of the clock that made it uncertain may have come since.
UsableIsCurrent ==
    \A p \in PolicyIds : \A i \in DOMAIN evaluations[p] :
        LET e == evaluations[p][i]
        IN  \A now \in e.completed .. clock : Usable(p, e, now) =>
              /\ DOMAIN e.verdict = PolicyFiles(facts, p)
              /\ \A f \in DOMAIN e.verdict :
                    e.verdict[f] # "uncertain" \/ NothingAhead(p, e.completed) =>
                        evaluate_file(facts, f, now) = e.verdict[f]

\* A file that a usable evaluation leaves without a finding survives the loss
\* of any device, service, site or custom domain: outside of it is a copy that
\* is there, and was verified and seen within the policy's limits
\* (policy.rs loss_scenarios).
SatisfiedSurvives ==
    \A p \in PolicyIds : \A i \in DOMAIN evaluations[p] :
        LET e == evaluations[p][i]
            r == facts.policies[p].requirements
        IN  Usable(p, e, clock) =>
              \A f \in DOMAIN e.verdict : e.verdict[f] = "satisfied" =>
                 \A x \in UNION {Domains(facts, c) : c \in CopyClaims} :
                    \E c \in CopiesOf(f) :
                        /\ x \notin Domains(facts, c)
                        /\ facts.copies[c].state = "present" /\ facts.copies[c].result = "ok"
                        /\ Fresh(facts.copies[c].verified, r.verification, clock)
                        /\ Fresh(facts.copies[c].seen, r.observation, clock)

\* The pages of a report are together the findings of one set of evaluations,
\* each once, whoever evaluated in between (policy.rs cached_policy_findings:
\* "cannot cause a page to silently skip or duplicate findings").
PagesAreWhole ==
    \A x \in Reporters : reporter[x].ended =>
        /\ reporter[x].given = Findings(reporter[x].chosen)
        /\ reporter[x].count = Cardinality(reporter[x].given)

\* What the reports and the cache say of the archive's policies is true.
PolicyReportsAreTrue == UsableIsCurrent /\ SatisfiedSurvives /\ PagesAreWhole
=============================================================================
