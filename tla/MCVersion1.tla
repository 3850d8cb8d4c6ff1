------------------------------ MODULE MCVersion1 ------------------------------
(* Small instances of the version 1 library: its event log (EventLog), the *)
(* checkpoints of its metadata (MetadataGuard) and its scans (ScanV1).  A  *)
(* behaviour is one of them: the others stay where they start.             *)
EXTENDS EventLog, MetadataGuard, ScanV1

VARIABLE part

\* A complete scan and an add, run by one process each.
MCModes == [s \in Scans |-> IF s = "s1" THEN "complete" ELSE "add"]
MCRuns == {<<"a", "s1">>, <<"b", "s2">>}

Version1Init == part \in {"log", "metadata", "scan"} /\ LogInit /\ MetaInit /\ ScanInit

Version1Next ==
    \/ part = "log" /\ LogNext /\ UNCHANGED <<part, metaVars, scanVars>>
    \/ part = "metadata" /\ MetaNext /\ UNCHANGED <<part, logVars, scanVars>>
    \/ part = "scan" /\ ScanNext /\ UNCHANGED <<part, logVars, metaVars>>

Version1Spec == Version1Init /\ [][Version1Next]_<<part, logVars, metaVars, scanVars>>
=============================================================================
