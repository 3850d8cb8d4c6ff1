--------------------------- MODULE MCArchiveSync ---------------------------
(* An instance of ArchiveSync with the genesis client A and one enrolled   *)
(* client B.  Process a2 is a second one on A's installation.              *)
EXTENDS ArchiveSync, TLC

CONSTANTS A, B, a1, a2, b1

TwoOnInitial == a1 :> A @@ a2 :> A @@ b1 :> B
=============================================================================
