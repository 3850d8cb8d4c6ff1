--------------------------- MODULE MCInventoryJob ---------------------------
(* Small instances of InventoryJob.                                        *)
EXTENDS InventoryJob

Runners == Permutations(Procs)
=============================================================================
