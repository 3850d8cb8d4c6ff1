---------------------------- MODULE MCCatalogCli ----------------------------
(* Small instances of CatalogCli.  Two paths: one in the root directory of *)
(* a Location, one in its subdirectory.                                    *)
EXTENDS CatalogCli, TLC

CONSTANTS p1, p2

\* Object ids were handed out to p1 first.
FirstThenSecond == p1 :> 1 @@ p2 :> 2

Runners == Permutations(Procs)
=============================================================================
