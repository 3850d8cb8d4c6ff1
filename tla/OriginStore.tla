----------------------------- MODULE OriginStore -----------------------------
(***************************************************************************)
(* append_batch on the disk of one installation (v2_store.rs): the files   *)
(* of the canonical tree, Git's index and committed tree, and the two      *)
(* recoveries that the next writer runs after a crash: publication.rs for  *)
(* an append whose HEAD advanced but was not committed, recovery.rs for    *)
(* one that stopped before HEAD advanced.                                  *)
(*                                                                         *)
(* append.lock admits one writer, so there is one program counter; a       *)
(* killed writer loses its memory and its lock and leaves its files as     *)
(* they are.  A file written in place (manifest, frontier) can be left     *)
(* incomplete; a renamed one (segment, HEAD) cannot, but its temporary     *)
(* file can stay behind.  A batch counts as one sequence number.           *)
(***************************************************************************)
EXTENDS Integers, Sequences

CONSTANTS
    Batches,  \* batch ids, fresh for every append
    None,     \* no batch
    MaxSeq    \* bound on accepted batches

ASSUME NoneIsNoBatch == None \notin Batches
ASSUME MaxSeqIsNatural == MaxSeq \in Nat

Seqs == 1 .. MaxSeq

FileStates == {"absent", "partial", "whole"}

VARIABLES
    head,      \* the frontier HEAD names, as a number of accepted batches
    committed, \* the one Git's HEAD commit names
    indexed,   \* the one whose files are in Git's index
    segment,   \* the batch in the segment file of every sequence number
    manifest,  \* and in its manifest file
    frontier,  \* state of the frontier file that each batch would create
    temps,     \* temporary files left behind: "untracked" or "staged"
    retained,  \* files kept below append-recovery
    used,      \* batches begun so far
    pc, cur    \* the writer: its place and its batch

vars == <<head, committed, indexed, segment, manifest, frontier, temps,
          retained, used, pc, cur>>
treeVars == <<segment, manifest, frontier, temps>>
gitVars == <<committed, indexed>>

NoManifest == [batch |-> None, state |-> "absent"]

Init ==
    /\ head = 0 /\ committed = 0 /\ indexed = 0
    /\ segment = [n \in Seqs |-> None]
    /\ manifest = [n \in Seqs |-> NoManifest]
    /\ frontier = [b \in Batches |-> "absent"]
    /\ temps = {}
    /\ retained = {}
    /\ used = {}
    /\ pc = "idle" /\ cur = None

first == head + 1

\* A writer takes append.lock, to append a batch or (`job resume`) only to
\* finish a pending publication.
Begin(b) ==
    /\ pc = "idle"
    /\ b \notin used
    /\ head < MaxSeq
    /\ pc' = "publication" /\ cur' = b
    /\ used' = used \cup {b}
    /\ UNCHANGED <<head, gitVars, treeVars, retained>>

Resume ==
    /\ pc = "idle"
    /\ pc' = "publication" /\ cur' = None
    /\ UNCHANGED <<head, gitVars, treeVars, retained, used>>

Leave ==
    /\ pc' = "idle" /\ cur' = None

\* Killed, or an error return between two durable steps.
Crash ==
    /\ pc # "idle"
    /\ Leave
    /\ temps' = temps \cup (IF pc \in {"sealing", "switching"}
                            THEN {"untracked"} ELSE {})
    /\ UNCHANGED <<head, gitVars, segment, manifest, frontier, retained, used>>

-----------------------------------------------------------------------------
(* recover_pending_publication                                             *)

Pending == head # committed

\* The exact successor of the committed frontier, and nothing else in the
\* worktree or the index.
PublicationOK ==
    /\ head = committed + 1
    /\ segment[head] # None
    /\ manifest[head] = [batch |-> segment[head], state |-> "whole"]
    /\ frontier[segment[head]] = "whole"
    /\ temps = {}
    /\ indexed \in {committed, head}
    /\ \A n \in Seqs : n > head => segment[n] = None /\ manifest[n] = NoManifest
    /\ \A b \in Batches : frontier[b] # "absent" => \E n \in 1 .. head : segment[n] = b

NothingPending ==
    /\ pc = "publication"
    /\ ~Pending
    /\ IF cur = None THEN Leave ELSE pc' = "leftovers" /\ UNCHANGED cur
    /\ UNCHANGED <<head, gitVars, treeVars, retained, used>>

\* The verified paths are staged, or the writer is refused.
StagePublication ==
    /\ pc = "publication"
    /\ Pending
    /\ IF PublicationOK
       THEN indexed' = head /\ pc' = "republish" /\ UNCHANGED cur
       ELSE Leave /\ UNCHANGED indexed
    /\ UNCHANGED <<head, committed, treeVars, retained, used>>

CommitPublication ==
    /\ pc = "republish"
    /\ committed' = head
    /\ IF cur = None THEN Leave ELSE pc' = "leftovers" /\ UNCHANGED cur
    /\ UNCHANGED <<head, indexed, treeVars, retained, used>>

-----------------------------------------------------------------------------
(* recover_unpublished_append                                              *)

Leftovers == segment[first] # None \/ manifest[first] # NoManifest

\* A frontier file that the accepted graph does not reach.
Detached(b) == frontier[b] # "absent" /\ \A n \in 1 .. head : segment[n] # b

\* The manifest, when it is complete, must describe the segment; the only
\* detached frontier is the one it announces; nothing is staged.
LeftoversOK ==
    /\ manifest[first].state = "whole" /\ segment[first] # None =>
          manifest[first].batch = segment[first]
    /\ \A b \in Batches : Detached(b) =>
          manifest[first] = [batch |-> b, state |-> "whole"]
    /\ indexed <= head

CheckLeftovers ==
    /\ pc = "leftovers"
    /\ IF ~Leftovers THEN pc' = "write" /\ UNCHANGED cur
       ELSE IF LeftoversOK THEN pc' = "keepfrontier" /\ UNCHANGED cur
       ELSE Leave
    /\ UNCHANGED <<head, gitVars, treeVars, retained, used>>

\* Fault: the detached frontier is left where it is.
KeepFrontierForgotten ==
    /\ pc = "keepfrontier"
    /\ pc' = "keepmanifest"
    /\ UNCHANGED <<head, gitVars, treeVars, retained, used, cur>>

\* Each leftover file is renamed into the recovery directory: the frontier
\* first, the manifest second, the segment last.
KeepFrontier ==
    /\ pc = "keepfrontier"
    /\ LET b == manifest[first].batch
           moved == manifest[first].state = "whole" /\ frontier[b] # "absent"
       IN  IF moved
           THEN /\ frontier' = [frontier EXCEPT ![b] = "absent"]
                /\ retained' = retained \cup {<<b, "frontier">>}
           ELSE UNCHANGED <<frontier, retained>>
    /\ pc' = "keepmanifest"
    /\ UNCHANGED <<head, gitVars, segment, manifest, temps, used, cur>>

KeepManifest ==
    /\ pc = "keepmanifest"
    /\ IF manifest[first] # NoManifest
       THEN /\ manifest' = [manifest EXCEPT ![first] = NoManifest]
            /\ retained' = retained \cup {<<manifest[first].batch, "manifest">>}
       ELSE UNCHANGED <<manifest, retained>>
    /\ pc' = "keepsegment"
    /\ UNCHANGED <<head, gitVars, segment, frontier, temps, used, cur>>

\* Fault: the leftover segment is deleted.
KeepSegmentDeleted ==
    /\ pc = "keepsegment"
    /\ segment' = [segment EXCEPT ![first] = None]
    /\ pc' = "write"
    /\ UNCHANGED <<head, gitVars, manifest, frontier, temps, retained, used, cur>>

\* Fault: off by one, the newest accepted segment is moved as well.
KeepSegmentAccepted ==
    LET from == {n \in {head, first} \cap Seqs : segment[n] # None}
    IN  /\ pc = "keepsegment"
        /\ segment' = [n \in Seqs |-> IF n \in from THEN None ELSE segment[n]]
        /\ retained' = retained \cup {<<segment[n], "segment">> : n \in from}
        /\ pc' = "write"
        /\ UNCHANGED <<head, gitVars, manifest, frontier, temps, used, cur>>

KeepSegment ==
    /\ pc = "keepsegment"
    /\ IF segment[first] # None
       THEN /\ segment' = [segment EXCEPT ![first] = None]
            /\ retained' = retained \cup {<<segment[first], "segment">>}
       ELSE UNCHANGED <<segment, retained>>
    /\ pc' = "write"
    /\ UNCHANGED <<head, gitVars, manifest, frontier, temps, used, cur>>

-----------------------------------------------------------------------------
(* append_batch_locked                                                     *)

\* The temporary segment is created and filled; an invalid item ends the
\* append and removes it.
WriteTemp ==
    /\ pc = "write"
    /\ pc' = "sealing"
    /\ UNCHANGED <<head, gitVars, treeVars, retained, used, cur>>

InvalidItem ==
    /\ pc = "sealing"
    /\ Leave
    /\ UNCHANGED <<head, gitVars, treeVars, retained, used>>

\* rename(2) replaces whatever the segment path holds.
SealSegment ==
    /\ pc = "sealing"
    /\ segment' = [segment EXCEPT ![first] = cur]
    /\ pc' = "manifest"
    /\ UNCHANGED <<head, gitVars, manifest, frontier, temps, retained, used, cur>>

\* create_new, then write_all: an existing file is an error.
CreateManifest ==
    /\ pc = "manifest"
    /\ IF manifest[first] = NoManifest
       THEN /\ manifest' = [manifest EXCEPT ![first] = [batch |-> cur, state |-> "partial"]]
            /\ pc' = "signing" /\ UNCHANGED cur
       ELSE Leave /\ UNCHANGED manifest
    /\ UNCHANGED <<head, gitVars, segment, frontier, temps, retained, used>>

FillManifest ==
    /\ pc = "signing"
    /\ manifest' = [manifest EXCEPT ![first].state = "whole"]
    /\ pc' = "frontier"
    /\ UNCHANGED <<head, gitVars, segment, frontier, temps, retained, used, cur>>

CreateFrontier ==
    /\ pc = "frontier"
    /\ frontier' = [frontier EXCEPT ![cur] = "partial"]
    /\ pc' = "filling"
    /\ UNCHANGED <<head, gitVars, segment, manifest, temps, retained, used, cur>>

FillFrontier ==
    /\ pc = "filling"
    /\ frontier' = [frontier EXCEPT ![cur] = "whole"]
    /\ pc' = "switching"
    /\ UNCHANGED <<head, gitVars, segment, manifest, temps, retained, used, cur>>

\* replace_synced: the temporary HEAD is renamed over HEAD.
AdvanceHead ==
    /\ pc = "switching"
    /\ head' = first
    /\ pc' = "staging"
    /\ UNCHANGED <<gitVars, treeVars, retained, used, cur>>

\* git add -- events manifests frontiers: everything below, temporary files
\* of earlier crashes included.
StageTree ==
    /\ pc = "staging"
    /\ indexed' = head
    /\ temps' = IF temps = {} THEN {} ELSE {"staged"}
    /\ pc' = "committing"
    /\ UNCHANGED <<head, committed, segment, manifest, frontier, retained, used, cur>>

\* The append returns; committed temporary files are part of the tree now.
CommitTree ==
    /\ pc = "committing"
    /\ committed' = head
    /\ temps' = {}
    /\ Leave
    /\ UNCHANGED <<head, indexed, segment, manifest, frontier, retained, used>>

-----------------------------------------------------------------------------
Next ==
    \/ \E b \in Batches : Begin(b)
    \/ Resume \/ Crash
    \/ NothingPending \/ StagePublication \/ CommitPublication
    \/ CheckLeftovers \/ KeepFrontier \/ KeepManifest \/ KeepSegment
    \/ WriteTemp \/ InvalidItem \/ SealSegment
    \/ CreateManifest \/ FillManifest \/ CreateFrontier \/ FillFrontier
    \/ AdvanceHead \/ StageTree \/ CommitTree

Spec == Init /\ [][Next]_vars

-----------------------------------------------------------------------------
(* Properties                                                              *)

Pcs == {"idle", "publication", "republish", "leftovers", "keepfrontier",
        "keepmanifest", "keepsegment", "write", "sealing", "manifest",
        "signing", "frontier", "filling", "switching", "staging", "committing"}

Working == Pcs \ {"idle", "publication", "republish"}

\* Type correctness; a writer past the publication check holds a batch.
TypeOK ==
    /\ head \in 0 .. MaxSeq
    /\ committed \in 0 .. MaxSeq
    /\ indexed \in 0 .. MaxSeq
    /\ segment \in [Seqs -> Batches \cup {None}]
    /\ manifest \in [Seqs -> [batch: Batches \cup {None}, state: FileStates]]
    /\ frontier \in [Batches -> FileStates]
    /\ temps \in SUBSET {"untracked", "staged"}
    /\ retained \in SUBSET (Batches \X {"segment", "manifest", "frontier"})
    /\ used \in SUBSET Batches
    /\ pc \in Pcs
    /\ cur \in Batches \cup {None}
    /\ pc \in Working => cur # None

\* The store implements the append-only log: reading HEAD's chain of segments
\* as the accepted batches and Git's HEAD as the published ones, no crash and
\* no recovery drops, replaces or reorders an accepted batch or accepts one on
\* top of an unpublished one.
Accepted == [n \in 1 .. head |-> segment[n]]

Log == INSTANCE AppendLog WITH accepted <- Accepted, published <- committed

LogSpec == Log!LogSpec

\* "Evidence is retained": a complete segment, manifest or frontier file,
\* once on disk, is in the canonical tree or below append-recovery for ever.
Kept(b, kind) ==
    \/ <<b, kind>> \in retained
    \/ kind = "segment" /\ \E n \in Seqs : segment[n] = b
    \/ kind = "manifest" /\ \E n \in Seqs : manifest[n] = [batch |-> b, state |-> "whole"]
    \/ kind = "frontier" /\ frontier[b] = "whole"

EvidenceIsKept ==
    [][\A b \in Batches, kind \in {"segment", "manifest", "frontier"} :
          Kept(b, kind) => Kept(b, kind)']_vars

\* "Retrying after interruption of recovery is safe", and the next append
\* reconciles a pending publication: wherever writers were killed, also
\* inside a recovery, the next one is not refused, unless a temporary file
\* was left behind ("outside this recovery scope").
RefusedOnlyForTemps ==
    pc = "idle" /\ temps = {} =>
        /\ Pending => PublicationOK
        /\ ~Pending /\ head < MaxSeq => LeftoversOK
=============================================================================
