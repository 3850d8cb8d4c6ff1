------------------------------- MODULE MCArchive -------------------------------
(* Small instances of the processes of an Archive with canonical records:  *)
(* append, sync and coordinated changes (ArchiveSync), and verify, repair  *)
(* and copy (CopyWork).  A behaviour is one of either: the other stays     *)
(* where it starts.                                                        *)
EXTENDS ArchiveSync, CopyWork, TLC

CONSTANTS A, B, a1, b1

VARIABLE part

\* The genesis client A and one enrolled client B.
OnePerClient == a1 :> A @@ b1 :> B

ArchiveInit ==
    /\ part \in {"sync", "copy"} /\ SyncInit /\ CopyInit
    /\ part = "copy" => remote = 0

ArchiveNext ==
    \/ part = "sync" /\ SyncNext /\ UNCHANGED <<part, copyVars>>
    \/ part = "copy" /\ CopyNext /\ UNCHANGED <<part, syncVars>>

ArchiveSpec == ArchiveInit /\ [][ArchiveNext]_<<part, syncVars, copyVars>>

SameWorkers == Permutations(Workers)
=============================================================================
