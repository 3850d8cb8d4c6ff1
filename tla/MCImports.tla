------------------------------- MODULE MCImports -------------------------------
(* Small instances of the two imports: a staged import (StageImport) and a *)
(* git-annex import (AnnexImport).  A behaviour is one of either: the      *)
(* other stays where it starts.                                            *)
EXTENDS StageImport, AnnexImport

CONSTANTS a, b, j1, j2, k1

VARIABLE part

\* Paths 1 and 3 are aliases of one annexed object, path 2 is an ordinary file.
MCKeyOf == <<k1, NoKey, k1>>

\* The contents are interchangeable: path 1 starts with a.
ImportsInit ==
    /\ part \in {"stage", "annex"} /\ StageInit /\ AnnexInit
    /\ src[1].bytes = a
    /\ part = "annex" => backend = "v2" /\ src[2].bytes = a
    /\ part = "stage" => repo.kind[k1] = "hash" /\ ~repo.small
    /\ repo.small => repo.kind[k1] = "hash"

ImportsNext ==
    \/ part = "stage" /\ StageNext /\ UNCHANGED <<part, annexVars>>
    \/ part = "annex" /\ AnnexNext /\ UNCHANGED <<part, stageVars>>

ImportsSpec == ImportsInit /\ [][ImportsNext]_<<part, stageVars, annexVars>>

SameImporters == Permutations(Importers)

\* The jobs are interchangeable: the first one started is j1.
FirstIsJ1 == starts = 1 => \A x \in Runners : proc[x].job # j2

\* Two git-annex commands overlap among the first two, and in an undisturbed
\* repository; three commands see one disturbance.
FewOverlaps ==
    /\ disturbances > 0 \/ commands > 2 =>
          Cardinality({x \in Importers : importer[x].pc # "idle"}) < 2
    /\ commands <= 2 \/ disturbances <= 1

\* Other keys than those of large files with a hash: two commands, one by one,
\* and one disturbance.
PlainKeys ==
    repo.kind[k1] # "hash" \/ repo.small =>
        /\ Cardinality({x \in Importers : importer[x].pc # "idle"}) < 2
        /\ commands <= 2 /\ disturbances <= 1
=============================================================================
