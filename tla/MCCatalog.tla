------------------------------ MODULE MCCatalog ------------------------------
(* Instances of Catalog for TLC.                                           *)
EXTENDS Catalog, TLC

CopySymmetry == Permutations(Locations) \cup Permutations(Hashes)
JobSymmetry == Permutations(Jobs)
=============================================================================
