--------------------------- MODULE MCRegistrySetup ---------------------------
(* A small instance of RegistrySetup: two commands at a time on an archive *)
(* of each format.                                                         *)
EXTENDS RegistrySetup, TLC

CONSTANT f1

\* One path, with a filesystem identity and without.
MCMounted == {[fs |-> f1, path |-> "p"], [fs |-> NoPrint, path |-> "p"]}

SameProcs == Permutations(Procs)
==============================================================================
