-------------------------------- MODULE MCEnds --------------------------------
(* Small instances of CatalogCli and ArchiveSync for their liveness        *)
(* properties.  A behaviour is one of either: the other stays where it     *)
(* starts.                                                                 *)
EXTENDS CatalogCli, ArchiveSync, TLC

CONSTANTS p1, p2, A, B, a1, a2, b1

VARIABLE part

FirstThenSecond == p1 :> 1 @@ p2 :> 2
TwoOnInitial == a1 :> A @@ a2 :> A @@ b1 :> B

EndsInit ==
    /\ part \in {"cli", "sync"} /\ CliInit /\ SyncInit
    /\ part = "cli" => remote = 0
    /\ part = "sync" => \A p \in Paths : disk[p, Target] = None

EndsNext ==
    \/ part = "cli" /\ CliNext /\ UNCHANGED <<part, syncVars>>
    \/ part = "sync" /\ SyncNext /\ UNCHANGED <<part, allVars>>

CliStep(x) == part = "cli" /\ Step(x) /\ UNCHANGED <<part, syncVars>>
ArchiveStep(x) == part = "sync" /\ SyncStep(x) /\ UNCHANGED <<part, allVars>>

\* The operating system runs every process that can take a step.
EndsSpec ==
    /\ EndsInit /\ [][EndsNext]_<<part, allVars, syncVars>>
    /\ \A x \in Procs : WF_<<part, allVars, syncVars>>(CliStep(x))
    /\ \A x \in SyncProcs : WF_<<part, allVars, syncVars>>(ArchiveStep(x))
=============================================================================
