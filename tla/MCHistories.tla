------------------------------ MODULE MCHistories ------------------------------
(* Small instances of the canonical batches: one installation's directory  *)
(* of them (OriginStore), and what several installations make of the       *)
(* history they share (SharedRegistry); and of the policy evaluations that *)
(* an installation caches over its projection (PolicyEval).  A behaviour   *)
(* is one of them: the others stay where they start.                       *)
EXTENDS OriginStore, SharedRegistry, PolicyEval, TLC

VARIABLE part

historiesVars == <<part, vars, sharedVars, policyVars>>

\* Two policies, and an object with a copy at home and one off site.
MCPolicyOf == <<1, 2>>
MCFileObject == <<"o", "o">>
MCCopyObject == [c \in CopyClaims |-> "o"]
MCDeviceOf == "a" :> "d1" @@ "b" :> "d2"
MCSiteOf == "a" :> "home" @@ "b" :> "away"
MCRequirements ==
    {[copies |-> 2, devices |-> 2, sites |-> 2, verification |-> 2, observation |-> 3,
      checkin |-> 2, offsite |-> FALSE, offline |-> FALSE, encrypted |-> FALSE],
     [copies |-> 1, devices |-> 1, sites |-> 1, verification |-> 1, observation |-> 2,
      checkin |-> 2, offsite |-> TRUE, offline |-> TRUE, encrypted |-> TRUE]}

\* The stricter requirements come with an update of a policy; a scan has
\* missed the copy off site.
HistoriesInit ==
    /\ part \in {"store", "shared", "policy"} /\ Init /\ SharedInit /\ PolicyInit
    /\ \A p \in PolicyIds : facts.policies[p].requirements.copies = 2
    /\ candidates = {"b"}

\* The bounds stop the shared history and the reports; the store must never
\* stop before it has had its batches.
Stop == part # "store" /\ UNCHANGED historiesVars

HistoriesNext ==
    \/ part = "store" /\ Next /\ UNCHANGED <<part, sharedVars, policyVars>>
    \/ part = "shared" /\ SharedNext /\ UNCHANGED <<part, vars, policyVars>>
    \/ part = "policy" /\ PolicyNext /\ UNCHANGED <<part, vars, sharedVars>>
    \/ Stop

HistoriesSpec == HistoriesInit /\ [][HistoriesNext]_historiesVars
=============================================================================
