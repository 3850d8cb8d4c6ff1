--------------------------- MODULE HistoriesProofs ---------------------------
(***************************************************************************)
(* Proofs about the two modules of signed histories.                       *)
(*                                                                         *)
(* OriginStore, for every set of batches and every bound: the inductive    *)
(* invariant Inv, that recovery accepts whatever a killed writer left      *)
(* (RefusedOnlyForTemps), that it loses no complete file (EvidenceIsKept), *)
(* and that the store implements AppendLog.  Inv ties the files at the     *)
(* next sequence number to the writer's place: a recovery is accepted only *)
(* because a writer creates segment, manifest and frontier in that order   *)
(* and a recovery removes them in the opposite one, so at every moment a   *)
(* file explains the ones that came before.                                *)
(*                                                                         *)
(* SharedRegistry, for every number of clients and every bound: what is    *)
(* published verifies and was written by trusted clients, and every        *)
(* projection holds the clients of the history it was applied to.  A table *)
(* of clients is compared with the set of batches that explain it          *)
(* (Explains): two visits of the same batches, in whatever order and       *)
(* pieces, give one table, because a client is enrolled and revoked by at  *)
(* most one batch each.                                                    *)
(***************************************************************************)
EXTENDS OriginStore, SharedRegistry, SequenceTheorems, TLAPS, WellFoundedInduction, FiniteSetTheorems

\* Past the recovery of a pending publication.
Appending == {"leftovers", "keepfrontier", "keepmanifest", "keepsegment",
              "write", "sealing", "manifest", "signing", "frontier",
              "filling", "switching"}

\* How Git follows HEAD.
GitFollows ==
    /\ head \in {committed, committed + 1}
    /\ indexed \in {committed, head}
    /\ pc \in Appending => committed = head
    /\ pc \in {"republish", "staging", "committing"} => head = committed + 1
    /\ cur # None /\ pc \in Appending \cup {"publication", "republish"} => head < MaxSeq
    /\ pc \in {"republish", "committing"} => indexed = head

\* The accepted prefix, and nothing beyond the next sequence number.
Prefix ==
    /\ \A n \in 1 .. head : segment[n] \in Batches
    /\ \A n \in Seqs : n > head + 1 => segment[n] = None /\ manifest[n] = NoManifest

\* The files of the newest batch while it is accepted and unpublished.
Unpublished ==
    Pending =>
        /\ manifest[head] = [batch |-> segment[head], state |-> "whole"]
        /\ frontier[segment[head]] = "whole"
        /\ \A n \in Seqs : n > head => segment[n] = None /\ manifest[n] = NoManifest
        /\ \A b \in Batches : ~Detached(b)

\* The files at the next sequence number, for every place of the writer.
NextFiles ==
    head < MaxSeq =>
        /\ manifest[first].state = "whole" /\ segment[first] # None =>
              manifest[first].batch = segment[first]
        /\ manifest[first] # NoManifest => manifest[first].batch \in Batches
        /\ \A b \in Batches : Detached(b) =>
              manifest[first] = [batch |-> b, state |-> "whole"]
        /\ pc = "keepmanifest" => \A b \in Batches : ~Detached(b)
        /\ pc = "keepsegment" => manifest[first] = NoManifest
        /\ pc \in {"write", "sealing"} =>
              segment[first] = None /\ manifest[first] = NoManifest
        /\ pc = "manifest" => segment[first] = cur /\ manifest[first] = NoManifest
        /\ pc = "signing" =>
              segment[first] = cur /\ manifest[first] = [batch |-> cur, state |-> "partial"]
        /\ pc \in {"frontier", "filling", "switching"} =>
              segment[first] = cur /\ manifest[first] = [batch |-> cur, state |-> "whole"]
        /\ pc = "switching" => frontier[cur] = "whole"

\* The last sequence number is accepted: no detached frontier.
FullLog == head = MaxSeq => \A b \in Batches : ~Detached(b)

\* Batch ids are fresh: the current one has no frontier file before it is
\* created.
Fresh ==
    /\ \A b \in Batches : frontier[b] # "absent" => b \in used
    /\ cur # None => cur \in used
    /\ cur # None /\ pc \in (Appending \ {"filling", "switching"})
                           \cup {"publication", "republish"} => frontier[cur] = "absent"

\* The inductive invariant.
Inv == TypeOK /\ GitFollows /\ Prefix /\ Unpublished /\ NextFiles /\ FullLog /\ Fresh

USE NoneIsNoBatch, MaxSeqIsNatural

\* A new store satisfies Inv.
LEMMA InitInv == Init => Inv
  BY DEF Init, Inv, TypeOK, GitFollows, Prefix, Unpublished, NextFiles, FullLog, Fresh, Pending,
         Detached, first, Seqs, FileStates, NoManifest, Pcs, Working, Appending

\* Every step, crashes included, preserves Inv.
LEMMA NextInv == Inv /\ [Next]_vars => Inv'
  <1> SUFFICES ASSUME Inv, [Next]_vars PROVE Inv'
      OBVIOUS
  <1> USE DEF Inv, TypeOK, GitFollows, Prefix, Unpublished, NextFiles, FullLog, Fresh, Pending,
              Detached, first, Seqs, FileStates, NoManifest, Pcs, Working, Appending,
              treeVars, gitVars, Leave
  <1>1. CASE UNCHANGED vars
    <2>1. TypeOK'
      BY <1>1 DEF vars
    <2>2. GitFollows'
      BY <1>1 DEF vars
    <2>3. Prefix'
      BY <1>1 DEF vars
    <2>4. Unpublished'
      BY <1>1 DEF vars
    <2>5. NextFiles'
      BY <1>1 DEF vars
    <2>6. FullLog'
      BY <1>1 DEF vars
    <2>7. Fresh'
      BY <1>1 DEF vars
    <2>8. QED
      BY <2>1, <2>2, <2>3, <2>4, <2>5, <2>6, <2>7
  <1>2. ASSUME NEW b \in Batches, Begin(b) PROVE Inv'
    BY <1>2 DEF Begin
  <1>3. CASE Resume
    BY <1>3 DEF Resume
  <1>4. CASE Crash
    BY <1>4 DEF Crash
  <1>5. CASE NothingPending
    BY <1>5 DEF NothingPending
  <1>6. CASE StagePublication
    <2>1. CASE PublicationOK
      BY <1>6, <2>1 DEF StagePublication, PublicationOK
    <2>2. CASE ~PublicationOK
      BY <1>6, <2>2 DEF StagePublication
    <2>3. QED
      BY <2>1, <2>2
  <1>7. CASE CommitPublication
    <2>1. TypeOK'
      BY <1>7 DEF CommitPublication
    <2>2. GitFollows'
      BY <1>7 DEF CommitPublication
    <2>3. Prefix'
      BY <1>7 DEF CommitPublication
    <2>4. Unpublished'
      BY <1>7 DEF CommitPublication
    <2>5. NextFiles'
      BY <1>7 DEF CommitPublication
    <2>6. FullLog'
      BY <1>7 DEF CommitPublication
    <2>7. Fresh'
      BY <1>7 DEF CommitPublication
    <2>8. QED
      BY <2>1, <2>2, <2>3, <2>4, <2>5, <2>6, <2>7
  <1>8. CASE CheckLeftovers
    BY <1>8 DEF CheckLeftovers, Leftovers, LeftoversOK
  <1>9. CASE KeepFrontier
    <2>1. TypeOK'
      BY <1>9 DEF KeepFrontier
    <2>2. GitFollows'
      BY <1>9 DEF KeepFrontier
    <2>3. Prefix'
      BY <1>9 DEF KeepFrontier
    <2>4. Unpublished'
      BY <1>9 DEF KeepFrontier
    <2>5. NextFiles'
      <3> DEFINE m == manifest[first]
      <3>1. head < MaxSeq /\ first \in Seqs /\ pc' = "keepmanifest"
            /\ UNCHANGED <<head, segment, manifest, cur>>
        BY <1>9 DEF KeepFrontier
      <3>2. ASSUME NEW b \in Batches, Detached(b)' PROVE FALSE
        <4>1. frontier'[b] # "absent" /\ \A n \in 1 .. head : segment[n] # b
          BY <3>1, <3>2
        <4>2. frontier[b] # "absent"
          BY <1>9, <4>1 DEF KeepFrontier
        <4>3. m = [batch |-> b, state |-> "whole"]
          BY <3>1, <4>1, <4>2
        <4>4. frontier' = [frontier EXCEPT ![b] = "absent"]
          BY <1>9, <4>2, <4>3 DEF KeepFrontier
        <4>5. QED
          BY <4>1, <4>4
      <3>3. QED
        BY <3>1, <3>2
    <2>6. FullLog'
      BY <1>9 DEF KeepFrontier
    <2>7. Fresh'
      BY <1>9 DEF KeepFrontier
    <2>8. QED
      BY <2>1, <2>2, <2>3, <2>4, <2>5, <2>6, <2>7
  <1>10. CASE KeepManifest
    <2>1. TypeOK'
      BY <1>10 DEF KeepManifest
    <2>2. GitFollows'
      BY <1>10 DEF KeepManifest
    <2>3. Prefix'
      BY <1>10 DEF KeepManifest
    <2>4. Unpublished'
      BY <1>10 DEF KeepManifest
    <2>5. NextFiles'
      BY <1>10 DEF KeepManifest
    <2>6. FullLog'
      BY <1>10 DEF KeepManifest
    <2>7. Fresh'
      BY <1>10 DEF KeepManifest
    <2>8. QED
      BY <2>1, <2>2, <2>3, <2>4, <2>5, <2>6, <2>7
  <1>11. CASE KeepSegment
    <2>1. TypeOK'
      BY <1>11 DEF KeepSegment
    <2>2. GitFollows'
      BY <1>11 DEF KeepSegment
    <2>3. Prefix'
      BY <1>11 DEF KeepSegment
    <2>4. Unpublished'
      BY <1>11 DEF KeepSegment
    <2>5. NextFiles'
      BY <1>11 DEF KeepSegment
    <2>6. FullLog'
      BY <1>11 DEF KeepSegment
    <2>7. Fresh'
      BY <1>11 DEF KeepSegment
    <2>8. QED
      BY <2>1, <2>2, <2>3, <2>4, <2>5, <2>6, <2>7
  <1>12. CASE WriteTemp
    BY <1>12 DEF WriteTemp
  <1>13. CASE InvalidItem
    BY <1>13 DEF InvalidItem
  <1>14. CASE SealSegment
    BY <1>14 DEF SealSegment
  <1>15. CASE CreateManifest
    <2>0. /\ head < MaxSeq /\ first \in Seqs /\ cur \in Batches
          /\ segment[first] = cur
          /\ manifest' = [manifest EXCEPT ![first] = [batch |-> cur, state |-> "partial"]]
          /\ pc' = "signing"
          /\ UNCHANGED <<head, gitVars, segment, frontier, temps, retained, used, cur>>
      BY <1>15 DEF CreateManifest
    <2>1. TypeOK'
      BY <2>0
    <2>2. GitFollows'
      BY <1>15, <2>0 DEF CreateManifest
    <2>3. Prefix'
      BY <1>15, <2>0 DEF CreateManifest
    <2>4. Unpublished'
      BY <1>15, <2>0 DEF CreateManifest
    <2>5. NextFiles'
      BY <1>15, <2>0 DEF CreateManifest
    <2>6. FullLog'
      BY <1>15, <2>0 DEF CreateManifest
    <2>7. Fresh'
      BY <1>15, <2>0 DEF CreateManifest
    <2>8. QED
      BY <2>1, <2>2, <2>3, <2>4, <2>5, <2>6, <2>7
  <1>16. CASE FillManifest
    <2>1. TypeOK'
      BY <1>16 DEF FillManifest
    <2>2. GitFollows'
      BY <1>16 DEF FillManifest
    <2>3. Prefix'
      BY <1>16 DEF FillManifest
    <2>4. Unpublished'
      BY <1>16 DEF FillManifest
    <2>5. NextFiles'
      BY <1>16 DEF FillManifest
    <2>6. FullLog'
      BY <1>16 DEF FillManifest
    <2>7. Fresh'
      BY <1>16 DEF FillManifest
    <2>8. QED
      BY <2>1, <2>2, <2>3, <2>4, <2>5, <2>6, <2>7
  <1>17. CASE CreateFrontier
    BY <1>17 DEF CreateFrontier
  <1>18. CASE FillFrontier
    BY <1>18 DEF FillFrontier
  <1>19. CASE AdvanceHead
    <2>1. TypeOK'
      BY <1>19 DEF AdvanceHead
    <2>2. GitFollows'
      BY <1>19 DEF AdvanceHead
    <2>3. Prefix'
      BY <1>19 DEF AdvanceHead
    <2>0. \A b \in Batches : ~Detached(b)'
      <3> SUFFICES ASSUME NEW b \in Batches, Detached(b)' PROVE FALSE
          OBVIOUS
      <3>1. head < MaxSeq /\ first \in Seqs /\ head' = head + 1
            /\ UNCHANGED <<segment, manifest, frontier>>
        BY <1>19 DEF AdvanceHead
      <3>2. Detached(b) /\ segment[first] # b
        BY <3>1
      <3>3. manifest[first] = [batch |-> b, state |-> "whole"]
        BY <3>1, <3>2
      <3>4. manifest[first] = [batch |-> cur, state |-> "whole"] /\ segment[first] = cur
        BY <1>19, <3>1 DEF AdvanceHead
      <3>5. QED
        BY <3>2, <3>3, <3>4
    <2>4. Unpublished'
      <3>1. head < MaxSeq /\ first \in Seqs /\ head' = head + 1
            /\ UNCHANGED <<segment, manifest, frontier>>
        BY <1>19 DEF AdvanceHead
      <3>2. /\ segment[first] = cur /\ cur \in Batches
            /\ manifest[first] = [batch |-> cur, state |-> "whole"]
            /\ frontier[cur] = "whole"
        BY <1>19, <3>1 DEF AdvanceHead
      <3>3. \A n \in Seqs : n > head + 1 => segment[n] = None /\ manifest[n] = NoManifest
        BY DEF Prefix
      <3>4. QED
        BY <2>0, <3>1, <3>2, <3>3
    <2>5. NextFiles'
      BY <1>19, <2>0 DEF AdvanceHead
    <2>6. FullLog'
      BY <2>0
    <2>7. Fresh'
      BY <1>19 DEF AdvanceHead
    <2>8. QED
      BY <2>1, <2>2, <2>3, <2>4, <2>5, <2>6, <2>7
  <1>20. CASE StageTree
    BY <1>20 DEF StageTree
  <1>21. CASE CommitTree
    <2>1. TypeOK'
      BY <1>21 DEF CommitTree
    <2>2. GitFollows'
      BY <1>21 DEF CommitTree
    <2>3. Prefix'
      BY <1>21 DEF CommitTree
    <2>4. Unpublished'
      BY <1>21 DEF CommitTree
    <2>5. NextFiles'
      BY <1>21 DEF CommitTree
    <2>6. FullLog'
      BY <1>21 DEF CommitTree
    <2>7. Fresh'
      BY <1>21 DEF CommitTree
    <2>8. QED
      BY <2>1, <2>2, <2>3, <2>4, <2>5, <2>6, <2>7
  <1>22. QED
    BY <1>1, <1>2, <1>3, <1>4, <1>5, <1>6, <1>7, <1>8, <1>9, <1>10, <1>11, <1>12, <1>13, <1>14, <1>15, <1>16, <1>17, <1>18, <1>19, <1>20, <1>21 DEF Next

\* Inv is an invariant.
THEOREM Invariance == Spec => []Inv
  BY InitInv, NextInv, PTL DEF Spec

\* Type correctness of the store, whatever crashes.
THEOREM TypeCorrect == Spec => []TypeOK
  <1>1. Inv => TypeOK
    BY DEF Inv
  <1>2. QED
    BY <1>1, Invariance, PTL

\* The files of a pending or interrupted append are always recognised.
LEMMA InvRefusal == Inv => RefusedOnlyForTemps
  <1> SUFFICES ASSUME Inv, pc = "idle", temps = {}
               PROVE  /\ Pending => PublicationOK
                      /\ ~Pending /\ head < MaxSeq => LeftoversOK
      BY DEF RefusedOnlyForTemps
  <1>1. ASSUME Pending PROVE PublicationOK
    <2>1. head = committed + 1 /\ head \in 1 .. MaxSeq /\ indexed \in {committed, head}
      BY <1>1 DEF Inv, TypeOK, GitFollows, Pending
    <2>2. segment[head] # None
      BY <2>1, NoneIsNoBatch DEF Inv, Prefix
    <2>3. \A b \in Batches : frontier[b] # "absent" => \E n \in 1 .. head : segment[n] = b
      BY <1>1 DEF Inv, Unpublished, Detached
    <2>4. QED
      BY <1>1, <2>1, <2>2, <2>3 DEF Inv, Unpublished, PublicationOK
  <1>2. ASSUME ~Pending, head < MaxSeq PROVE LeftoversOK
    BY <1>2 DEF Inv, TypeOK, GitFollows, NextFiles, LeftoversOK
  <1>3. QED
    BY <1>1, <1>2

\* recover_pending_publication and recover_unpublished_append refuse no
\* installation whose writers were merely killed, at any point and any number
\* of times, unless a temporary file was left behind.
THEOREM RecoveryIsNotRefused == Spec => []RefusedOnlyForTemps
  BY Invariance, InvRefusal, PTL

-----------------------------------------------------------------------------
(* Evidence                                                                *)

\* No step of a writer, of a recovery or of a crash removes the last place in
\* which a complete file is kept.
LEMMA NextKeeps ==
    Inv /\ [Next]_vars =>
        \A b \in Batches, kind \in {"segment", "manifest", "frontier"} :
            Kept(b, kind) => Kept(b, kind)'
  <1> SUFFICES ASSUME Inv, [Next]_vars, NEW b \in Batches,
                      NEW kind \in {"segment", "manifest", "frontier"}, Kept(b, kind)
               PROVE  Kept(b, kind)'
      OBVIOUS
  <1>1. ASSUME UNCHANGED <<segment, manifest, frontier, retained>> PROVE Kept(b, kind)'
    BY <1>1 DEF Kept
  <1>2. CASE UNCHANGED vars
    BY <1>1, <1>2 DEF vars
  <1>3. ASSUME NEW x \in Batches, Begin(x) PROVE Kept(b, kind)'
    BY <1>1, <1>3 DEF Begin, treeVars
  <1>4. CASE \/ Resume \/ Crash \/ NothingPending \/ StagePublication
             \/ CommitPublication \/ CheckLeftovers \/ WriteTemp \/ InvalidItem
             \/ AdvanceHead \/ StageTree \/ CommitTree
    BY <1>1, <1>4 DEF Resume, Crash, NothingPending, StagePublication, CommitPublication,
          CheckLeftovers, WriteTemp, InvalidItem, AdvanceHead, StageTree, CommitTree, treeVars
  <1>5. CASE KeepFrontier
    BY <1>5 DEF KeepFrontier, Kept, Inv, TypeOK
  <1>6. CASE KeepManifest
    <2>1. first \in Seqs
      BY <1>6 DEF KeepManifest, Inv, TypeOK, GitFollows, Appending, Working, Pcs, first, Seqs
    <2>2. QED
      BY <1>6, <2>1 DEF KeepManifest, Kept, Inv, TypeOK, NoManifest
  <1>7. CASE KeepSegment
    <2>1. first \in Seqs
      BY <1>7 DEF KeepSegment, Inv, TypeOK, GitFollows, Appending, Working, Pcs, first, Seqs
    <2>2. QED
      BY <1>7, <2>1 DEF KeepSegment, Kept, Inv, TypeOK
  <1>8. CASE SealSegment
    <2>1. first \in Seqs /\ segment[first] = None
      BY <1>8 DEF SealSegment, Inv, TypeOK, GitFollows, NextFiles, Appending, Working, Pcs,
                  first, Seqs
    <2>2. QED
      BY <1>8, <2>1 DEF SealSegment, Kept, Inv, TypeOK
  <1>9. CASE CreateManifest
    <2>1. first \in Seqs /\ manifest[first] = NoManifest
      BY <1>9 DEF CreateManifest, Inv, TypeOK, GitFollows, NextFiles, Appending, Working, Pcs,
                  first, Seqs
    <2>2. \A n \in Seqs : manifest[n] = [batch |-> b, state |-> "whole"] => manifest'[n] = manifest[n]
      BY <1>9, <2>1 DEF CreateManifest, Inv, TypeOK, NoManifest
    <2>3. QED
      BY <1>9, <2>2 DEF CreateManifest, Kept
  <1>10. CASE FillManifest
    <2>1. first \in Seqs /\ manifest[first] = [batch |-> cur, state |-> "partial"]
      BY <1>10 DEF FillManifest, Inv, TypeOK, GitFollows, NextFiles, Appending, Working, Pcs,
                  first, Seqs
    <2>2. \A n \in Seqs : manifest[n] = [batch |-> b, state |-> "whole"] => manifest'[n] = manifest[n]
      BY <1>10, <2>1 DEF FillManifest, Inv, TypeOK
    <2>3. QED
      BY <1>10, <2>2 DEF FillManifest, Kept
  <1>11. CASE CreateFrontier
    <2>1. frontier[cur] = "absent"
      BY <1>11 DEF CreateFrontier, Inv, TypeOK, Fresh, Appending, Working, Pcs
    <2>2. QED
      BY <1>11, <2>1 DEF CreateFrontier, Kept, Inv, TypeOK
  <1>12. CASE FillFrontier
    BY <1>12 DEF FillFrontier, Kept, Inv, TypeOK
  <1>13. QED
    BY <1>2, <1>3, <1>4, <1>5, <1>6, <1>7, <1>8, <1>9, <1>10, <1>11, <1>12 DEF Next

\* An interrupted append never loses a file that was complete: it stays in
\* the canonical tree or is moved below append-recovery.
THEOREM NothingIsLost == Spec => EvidenceIsKept
  <1>1. Inv /\ [Next]_vars =>
          [\A b \in Batches, kind \in {"segment", "manifest", "frontier"} :
              Kept(b, kind) => Kept(b, kind)']_vars
    BY NextKeeps
  <1>2. QED
    BY <1>1, Invariance, PTL DEF Spec, EvidenceIsKept

-----------------------------------------------------------------------------
(* Implementation of the append-only log                                   *)

\* HEAD's chain is a sequence of batches of the length HEAD counts.
LEMMA AcceptedIsSeq == Inv => Accepted \in Seq(Batches) /\ Len(Accepted) = head
  BY DEF Inv, TypeOK, Prefix, Accepted

\* Advancing HEAD accepts exactly the writer's batch, on a published log.
LEMMA AdvanceAccepts == Inv /\ AdvanceHead => \E b \in Batches : Log!Accept(b)
  <1> SUFFICES ASSUME Inv, AdvanceHead PROVE Log!Accept(cur) /\ cur \in Batches
      OBVIOUS
  <1>1. /\ head \in Nat /\ head < MaxSeq /\ committed = head /\ committed' = committed
        /\ head' = head + 1 /\ segment' = segment /\ segment[head + 1] = cur
        /\ cur \in Batches
    BY DEF AdvanceHead, Inv, TypeOK, GitFollows, NextFiles, Appending, Working, Pcs, first,
           gitVars, treeVars
  <1>2. Accepted' = Append(Accepted, cur)
    <2>1. Len(Accepted) = head /\ Accepted \in Seq(Batches)
      BY AcceptedIsSeq
    <2>2. Accepted' = [n \in 1 .. head + 1 |-> segment[n]]
      BY <1>1 DEF Accepted
    <2>3. \A n \in 1 .. head : Accepted[n] = segment[n]
      BY DEF Accepted
    <2>4. /\ Append(Accepted, cur) \in Seq(Batches)
          /\ Len(Append(Accepted, cur)) = head + 1
          /\ \A n \in 1 .. head : Append(Accepted, cur)[n] = Accepted[n]
          /\ Append(Accepted, cur)[head + 1] = cur
      BY <1>1, <2>1
    <2>5. /\ Accepted' \in Seq(Batches)
          /\ Len(Accepted') = head + 1
      BY <1>1, <2>2, <2>3 DEF Inv, Prefix
    <2>6. \A n \in 1 .. head + 1 : Accepted'[n] = Append(Accepted, cur)[n]
      BY <1>1, <2>2, <2>3, <2>4
    <2>7. QED
      BY <2>4, <2>5, <2>6, SeqEqual
  <1>3. QED
    BY <1>1, <1>2, AcceptedIsSeq DEF Log!Accept

\* Every step of the store is a step of the log or leaves it alone.
LEMMA StepImplements == Inv /\ [Next]_vars => [Log!LogNext]_(Log!logVars)
  <1> SUFFICES ASSUME Inv, [Next]_vars PROVE Log!LogNext \/ UNCHANGED <<Accepted, committed>>
      BY DEF Log!logVars
  <1>0. head \in Nat /\ committed \in Nat /\ Len(Accepted) = head
    BY AcceptedIsSeq DEF Inv, TypeOK
  <1>1. ASSUME UNCHANGED <<head, committed>>,
               \A n \in 1 .. head : segment'[n] = segment[n]
        PROVE  UNCHANGED <<Accepted, committed>>
    BY <1>1 DEF Accepted
  <1>2. CASE UNCHANGED vars
    BY <1>1, <1>2 DEF vars
  <1>3. ASSUME NEW x \in Batches, Begin(x) PROVE UNCHANGED <<Accepted, committed>>
    BY <1>1, <1>3 DEF Begin, treeVars, gitVars
  <1>4. CASE \/ Resume \/ Crash \/ NothingPending \/ StagePublication \/ CheckLeftovers
             \/ KeepFrontier \/ KeepManifest \/ WriteTemp \/ InvalidItem
             \/ CreateManifest \/ FillManifest \/ CreateFrontier \/ FillFrontier \/ StageTree
    BY <1>1, <1>4 DEF Resume, Crash, NothingPending, StagePublication, CheckLeftovers,
          KeepFrontier, KeepManifest, WriteTemp, InvalidItem, CreateManifest, FillManifest,
          CreateFrontier, FillFrontier, StageTree, treeVars, gitVars
  <1>5. CASE KeepSegment \/ SealSegment
    <2>1. UNCHANGED <<head, committed>> /\ \A n \in 1 .. head : segment'[n] = segment[n]
      <3>1. ASSUME NEW n \in 1 .. head PROVE n \in Seqs /\ n # first
        BY <1>0 DEF Inv, TypeOK, first, Seqs
      <3>2. CASE KeepSegment
        BY <3>1, <3>2 DEF KeepSegment, Inv, TypeOK, gitVars
      <3>3. CASE SealSegment
        BY <3>1, <3>3 DEF SealSegment, Inv, TypeOK, gitVars
      <3>4. QED
        BY <1>5, <3>2, <3>3
    <2>2. QED
      BY <1>1, <2>1
  <1>6. CASE CommitPublication \/ CommitTree
    <2>1. head = committed + 1 /\ committed' = head
      BY <1>6 DEF CommitPublication, CommitTree, Inv, GitFollows
    <2>2. Accepted' = Accepted
      BY <1>6 DEF CommitPublication, CommitTree, Accepted, treeVars
    <2>3. Log!Publish
      BY <1>0, <2>1, <2>2 DEF Log!Publish
    <2>4. QED
      BY <2>3 DEF Log!LogNext
  <1>7. CASE AdvanceHead
    BY <1>7, AdvanceAccepts DEF Log!LogNext
  <1>8. QED
    BY <1>2, <1>3, <1>4, <1>5, <1>6, <1>7 DEF Next

\* The store with its crashes and recoveries implements AppendLog.
THEOREM StoreImplementsLog == Spec => LogSpec
  <1>1. Init => Log!LogInit
    BY DEF Init, Log!LogInit, Accepted
  <1>2. QED
    BY <1>1, StepImplements, Invariance, PTL DEF Spec, LogSpec, Log!LogSpec

-----------------------------------------------------------------------------
(* SharedRegistry. *)

\* A set of naturals has a least element.
LEMMA LeastNumber ==
    ASSUME NEW S \in SUBSET Nat, S # {}
    PROVE  \E m \in S : \A k \in S : m <= k
<1> DEFINE Less == {ss \in Nat \X Nat : ss[1] < ss[2]}
<1>1. IsWellFoundedOn(Less, Nat)
  BY NatLessThanWellFounded DEF OpToRel
<1>2. PICK m \in S : \A k \in S : ~(<<k, m>> \in Less)
  <2> HIDE DEF Less
  <2> QED BY <1>1, WFMin
<1>3. \A k \in S : ~(k < m)
  BY <1>2
<1> QED BY <1>3

-----------------------------------------------------------------------------
(* Folds.  g[i] is what the i-th element does to the states of U.          *)

IsRun(U, b, g, n, R) ==
    /\ R \in [0 .. n -> U] /\ R[0] = b
    /\ \A i \in 1 .. n : R[i] = g[i][R[i - 1]]

LEMMA RunsExist ==
    ASSUME NEW U, NEW b \in U, NEW l \in Nat, NEW g \in [1 .. l -> [U -> U]]
    PROVE  \E R : IsRun(U, b, g, l, R)
<1> DEFINE Bad == {n \in 0 .. l : ~\E R : IsRun(U, b, g, n, R)}
<1>0. l \in 0 .. l
  OBVIOUS
<1> SUFFICES ASSUME Bad # {} PROVE FALSE
  BY <1>0
<1>1. PICK m \in Bad : \A n \in Bad : m <= n
  BY LeastNumber, Bad \in SUBSET Nat
<1>2. CASE m = 0
  <2> DEFINE R == [i \in 0 .. 0 |-> b]
  <2>1. IsRun(U, b, g, 0, R)
    BY DEF IsRun
  <2> QED BY <1>1, <1>2, <2>1
<1>3. CASE m # 0
  <2>1. m - 1 \in 0 .. l /\ m - 1 \notin Bad /\ m \in 1 .. l
    BY <1>1, <1>3
  <2>2. PICK R : IsRun(U, b, g, m - 1, R)
    BY <2>1
  <2> DEFINE Q == [i \in 0 .. m |-> IF i < m THEN R[i] ELSE g[m][R[m - 1]]]
  <2>3. g[m] \in [U -> U] /\ R[m - 1] \in U
    BY <2>1, <2>2 DEF IsRun
  <2>4. Q \in [0 .. m -> U]
    <3>1. g[m][R[m - 1]] \in U
      BY <2>3
    <3>2. \A i \in 0 .. m : i < m => i \in 0 .. m - 1
      BY <2>1
    <3> QED BY <2>2, <3>1, <3>2 DEF IsRun
  <2>5. Q[0] = b
    BY <2>1, <2>2 DEF IsRun
  <2>6. \A i \in 1 .. m : Q[i] = g[i][Q[i - 1]]
    <3> SUFFICES ASSUME NEW i \in 1 .. m PROVE Q[i] = g[i][Q[i - 1]]
      OBVIOUS
    <3>1. i - 1 \in 0 .. m /\ i \in 0 .. m /\ i - 1 < m /\ Q[i - 1] = R[i - 1]
      BY <2>1
    <3>2. CASE i < m
      <4>1. i \in 1 .. m - 1
        BY <2>1, <3>2
      <4> QED BY <2>2, <3>1, <3>2, <4>1 DEF IsRun
    <3>3. CASE i = m
      BY <3>1, <3>3
    <3> QED BY <3>2, <3>3, <2>1
  <2> HIDE DEF Q
  <2>7. IsRun(U, b, g, m, Q)
    BY <2>4, <2>5, <2>6 DEF IsRun
  <2> QED BY <1>1, <2>7
<1> QED BY <1>2, <1>3

\* What holds of the first state and goes on by every step holds of the last.
LEMMA RunStays ==
    ASSUME NEW U, NEW b, NEW n \in Nat, NEW g, NEW R, IsRun(U, b, g, n, R),
           NEW T, b \in T[0],
           \A i \in 1 .. n : \A u \in U : u \in T[i - 1] => g[i][u] \in T[i]
    PROVE  R[n] \in T[n]
<1> DEFINE Bad == {i \in 0 .. n : R[i] \notin T[i]}
<1> SUFFICES ASSUME Bad # {} PROVE FALSE
  OBVIOUS
<1>1. PICK m \in Bad : \A i \in Bad : m <= i
  BY LeastNumber, Bad \in SUBSET Nat
<1>2. m # 0
  BY <1>1 DEF IsRun
<1>3. m \in 1 .. n /\ m - 1 \in 0 .. n /\ R[m - 1] \in T[m - 1]
  BY <1>1, <1>2
<1>4. R[m - 1] \in U /\ R[m] = g[m][R[m - 1]]
  BY <1>3 DEF IsRun
<1> QED BY <1>1, <1>3, <1>4

LEMMA StepsAreARun ==
    ASSUME NEW U, NEW b \in U, NEW n \in Nat, NEW g \in [1 .. n -> [U -> U]], NEW F,
           DOMAIN F = 0 .. n, F = [i \in DOMAIN F |-> F[i]], F[0] = b,
           \A i \in 1 .. n : F[i - 1] \in U => F[i] = g[i][F[i - 1]]
    PROVE  IsRun(U, b, g, n, F)
<1> DEFINE Bad == {i \in 0 .. n : F[i] \notin U}
<1>1. Bad = {}
  <2> SUFFICES ASSUME Bad # {} PROVE FALSE
    OBVIOUS
  <2>1. PICK m \in Bad : \A i \in Bad : m <= i
    BY LeastNumber, Bad \in SUBSET Nat
  <2>2. m # 0
    BY <2>1
  <2>3. m \in 1 .. n /\ m - 1 \in 0 .. n /\ F[m - 1] \in U
    BY <2>1, <2>2
  <2>4. g[m] \in [U -> U] /\ F[m] = g[m][F[m - 1]]
    BY <2>3
  <2> QED BY <2>1, <2>3, <2>4
<1>2. F \in [0 .. n -> U]
  BY <1>1
<1>3. \A i \in 1 .. n : i - 1 \in 0 .. n
  OBVIOUS
<1> QED BY <1>1, <1>2, <1>3 DEF IsRun

\* The passes of VisitOrigin over a sequence stay in any set of states that
\* VisitOrigin does not leave.
LEMMA VisitFoldStays ==
    ASSUME NEW U, NEW b \in U, NEW q, Len(q) \in Nat,
           \A i \in 1 .. Len(q) : \A u \in U : VisitOrigin(u, q[i]) \in U,
           NEW T, b \in T[0],
           \A i \in 1 .. Len(q) : \A u \in U : u \in T[i - 1] => VisitOrigin(u, q[i]) \in T[i]
    PROVE  Fold(VisitOrigin, b, q) \in U /\ Fold(VisitOrigin, b, q) \in T[Len(q)]
<1> DEFINE n == Len(q)
           g == [i \in 1 .. n |-> [u \in U |-> VisitOrigin(u, q[i])]]
           After(i, x) == The({VisitOrigin(acc, q[i]) : acc \in {x}})
           Eq(f) == f = [i \in 0 .. n |-> IF i = 0 THEN b ELSE After(i, f[i - 1])]
           F == CHOOSE f : Eq(f)
<1>1. g \in [1 .. n -> [U -> U]]
  OBVIOUS
<1>2. PICK R : IsRun(U, b, g, n, R)
  <2> HIDE DEF g
  <2> QED BY <1>1, RunsExist
<1>3. \A i \in 1 .. n : \A u \in U : g[i][u] = VisitOrigin(u, q[i])
  OBVIOUS
<1>4. \A i, x : After(i, x) = VisitOrigin(x, q[i])
  BY DEF The
<1> HIDE DEF After
<1>5. Eq(R)
  <2> HIDE DEF g
  <2>1. \A i \in 1 .. n : i - 1 \in 0 .. n
    OBVIOUS
  <2>2. \A i \in 1 .. n : R[i] = VisitOrigin(R[i - 1], q[i])
    BY <1>2, <1>3, <2>1 DEF IsRun
  <2>3. R = [i \in 0 .. n |-> R[i]]
    BY <1>2 DEF IsRun
  <2>4. \A i \in 0 .. n : R[i] = IF i = 0 THEN b ELSE After(i, R[i - 1])
    BY <1>2, <1>4, <2>2 DEF IsRun
  <2> QED BY <2>3, <2>4
<1>6. Eq(F)
  <2> HIDE DEF Eq
  <2> QED BY <1>5
<1> HIDE DEF F
<1>7. /\ DOMAIN F = 0 .. n /\ F = [i \in DOMAIN F |-> F[i]] /\ F[0] = b
      /\ \A i \in 1 .. n : F[i] = VisitOrigin(F[i - 1], q[i])
  <2>1. DOMAIN F = 0 .. n /\ F = [i \in DOMAIN F |-> F[i]]
    BY <1>6
  <2>2. \A i \in 0 .. n : F[i] = IF i = 0 THEN b ELSE After(i, F[i - 1])
    BY <1>6
  <2>3. 0 \in 0 .. n /\ \A i \in 1 .. n : i \in 0 .. n /\ i # 0
    OBVIOUS
  <2> HIDE DEF Eq
  <2> QED BY <1>4, <2>1, <2>2, <2>3
<1>8. IsRun(U, b, g, n, F)
  <2>1. \A i \in 1 .. n : F[i - 1] \in U => F[i] = g[i][F[i - 1]]
    BY <1>3, <1>7
  <2> HIDE DEF g, Eq
  <2> QED BY <1>1, <1>7, <2>1, StepsAreARun
<1>9. F[n] \in U /\ F[n] \in T[n]
  <2>1. F[n] \in U
    BY <1>8 DEF IsRun
  <2>2. \A i \in 1 .. n : \A u \in U : u \in T[i - 1] => g[i][u] \in T[i]
    BY <1>3
  <2> HIDE DEF g, Eq
  <2>3. F[n] \in T[n]
    BY <1>8, <2>2, RunStays
  <2> QED BY <2>1, <2>3
<1>10. Fold(VisitOrigin, b, q) = F[n]
  <2> DEFINE Over(s) ==
               LET fold[i \in 0 .. Len(s)] ==
                     IF i = 0 THEN b ELSE The({VisitOrigin(acc, s[i]) : acc \in {fold[i - 1]}})
               IN  fold[Len(s)]
  <2>1. Fold(VisitOrigin, b, q) = The({Over(s) : s \in {q}})
    BY DEF Fold
  <2>2. Over(q) = F[n]
    BY DEF F, After
  <2> HIDE DEF Over
  <2>3. The({Over(s) : s \in {q}}) = Over(q)
    BY DEF The
  <2> QED BY <2>1, <2>2, <2>3
<1> QED BY <1>9, <1>10

\* The replay of the records of a sequence.
LEMMA ProjectFoldStays ==
    ASSUME NEW U, NEW b \in U, NEW q, Len(q) \in Nat,
           \A i \in 1 .. Len(q) : \A u \in U : ProjectItem(u, q[i]) \in U,
           NEW T, b \in T[0],
           \A i \in 1 .. Len(q) : \A u \in U : u \in T[i - 1] => ProjectItem(u, q[i]) \in T[i]
    PROVE  Fold(ProjectItem, b, q) \in U /\ Fold(ProjectItem, b, q) \in T[Len(q)]
<1> DEFINE n == Len(q)
           g == [i \in 1 .. n |-> [u \in U |-> ProjectItem(u, q[i])]]
           After(i, x) == The({ProjectItem(acc, q[i]) : acc \in {x}})
           Eq(f) == f = [i \in 0 .. n |-> IF i = 0 THEN b ELSE After(i, f[i - 1])]
           F == CHOOSE f : Eq(f)
<1>1. g \in [1 .. n -> [U -> U]]
  OBVIOUS
<1>2. PICK R : IsRun(U, b, g, n, R)
  <2> HIDE DEF g
  <2> QED BY <1>1, RunsExist
<1>3. \A i \in 1 .. n : \A u \in U : g[i][u] = ProjectItem(u, q[i])
  OBVIOUS
<1>4. \A i, x : After(i, x) = ProjectItem(x, q[i])
  BY DEF The
<1> HIDE DEF After
<1>5. Eq(R)
  <2> HIDE DEF g
  <2>1. \A i \in 1 .. n : i - 1 \in 0 .. n
    OBVIOUS
  <2>2. \A i \in 1 .. n : R[i] = ProjectItem(R[i - 1], q[i])
    BY <1>2, <1>3, <2>1 DEF IsRun
  <2>3. R = [i \in 0 .. n |-> R[i]]
    BY <1>2 DEF IsRun
  <2>4. \A i \in 0 .. n : R[i] = IF i = 0 THEN b ELSE After(i, R[i - 1])
    BY <1>2, <1>4, <2>2 DEF IsRun
  <2> QED BY <2>3, <2>4
<1>6. Eq(F)
  <2> HIDE DEF Eq
  <2> QED BY <1>5
<1> HIDE DEF F
<1>7. /\ DOMAIN F = 0 .. n /\ F = [i \in DOMAIN F |-> F[i]] /\ F[0] = b
      /\ \A i \in 1 .. n : F[i] = ProjectItem(F[i - 1], q[i])
  <2>1. DOMAIN F = 0 .. n /\ F = [i \in DOMAIN F |-> F[i]]
    BY <1>6
  <2>2. \A i \in 0 .. n : F[i] = IF i = 0 THEN b ELSE After(i, F[i - 1])
    BY <1>6
  <2>3. 0 \in 0 .. n /\ \A i \in 1 .. n : i \in 0 .. n /\ i # 0
    OBVIOUS
  <2> HIDE DEF Eq
  <2> QED BY <1>4, <2>1, <2>2, <2>3
<1>8. IsRun(U, b, g, n, F)
  <2>1. \A i \in 1 .. n : F[i - 1] \in U => F[i] = g[i][F[i - 1]]
    BY <1>3, <1>7
  <2> HIDE DEF g, Eq
  <2> QED BY <1>1, <1>7, <2>1, StepsAreARun
<1>9. F[n] \in U /\ F[n] \in T[n]
  <2>1. F[n] \in U
    BY <1>8 DEF IsRun
  <2>2. \A i \in 1 .. n : \A u \in U : u \in T[i - 1] => g[i][u] \in T[i]
    BY <1>3
  <2> HIDE DEF g, Eq
  <2>3. F[n] \in T[n]
    BY <1>8, <2>2, RunStays
  <2> QED BY <2>1, <2>3
<1>10. Fold(ProjectItem, b, q) = F[n]
  <2> DEFINE Over(s) ==
               LET fold[i \in 0 .. Len(s)] ==
                     IF i = 0 THEN b ELSE The({ProjectItem(acc, s[i]) : acc \in {fold[i - 1]}})
               IN  fold[Len(s)]
  <2>1. Fold(ProjectItem, b, q) = The({Over(s) : s \in {q}})
    BY DEF Fold
  <2>2. Over(q) = F[n]
    BY DEF F, After
  <2> HIDE DEF Over
  <2>3. The({Over(s) : s \in {q}}) = Over(q)
    BY DEF The
  <2> QED BY <2>1, <2>2, <2>3
<1> QED BY <1>9, <1>10

\* One batch of the origin o, in a visit that found the table of s.
VisitBatch(s, o, t, n) ==
    IF ~t.ok THEN t
    ELSE IF o # Genesis /\ ~RecordTrusted(s.clients[o], batches[o][n].base)
    THEN [t EXCEPT !.ok = FALSE]
    ELSE ApplyClientItem([t EXCEPT !.order = Append(@, <<o, n>>)], <<o, n>>, batches[o][n].item)

Begun(s, o) == [s EXCEPT !.pending = @ \ {o}]
Numbers(s, o) == [i \in 1 .. (s.to[o] - s.from[o]) |-> s.from[o] + i]

\* The visit of one origin.
LEMMA OriginFoldStays ==
    ASSUME NEW z, NEW o, z.ok, o \in z.pending, o \in DOMAIN z.clients,
           NEW U, NEW b \in U, b = Begun(z, o),
           NEW q, q = Numbers(z, o), Len(q) \in Nat,
           \A i \in 1 .. Len(q) : \A u \in U : VisitBatch(z, o, u, q[i]) \in U,
           NEW T, b \in T[0],
           \A i \in 1 .. Len(q) : \A u \in U : u \in T[i - 1] => VisitBatch(z, o, u, q[i]) \in T[i]
    PROVE  VisitOrigin(z, o) \in U /\ VisitOrigin(z, o) \in T[Len(q)]
<1> DEFINE n == Len(q)
           g == [i \in 1 .. n |-> [u \in U |-> VisitBatch(z, o, u, q[i])]]
           After(i, x) == The({VisitBatch(z, o, acc, q[i]) : acc \in {x}})
           Eq(f) == f = [i \in 0 .. n |-> IF i = 0 THEN b ELSE After(i, f[i - 1])]
           F == CHOOSE f : Eq(f)
<1>1. g \in [1 .. n -> [U -> U]]
  OBVIOUS
<1>2. PICK R : IsRun(U, b, g, n, R)
  <2> HIDE DEF g
  <2> QED BY <1>1, RunsExist
<1>3. \A i \in 1 .. n : \A u \in U : g[i][u] = VisitBatch(z, o, u, q[i])
  OBVIOUS
<1>4. \A i, x : After(i, x) = VisitBatch(z, o, x, q[i])
  BY DEF The
<1> HIDE DEF After
<1>5. Eq(R)
  <2> HIDE DEF g
  <2>1. \A i \in 1 .. n : i - 1 \in 0 .. n
    OBVIOUS
  <2>2. \A i \in 1 .. n : R[i] = VisitBatch(z, o, R[i - 1], q[i])
    BY <1>2, <1>3, <2>1 DEF IsRun
  <2>3. R = [i \in 0 .. n |-> R[i]]
    BY <1>2 DEF IsRun
  <2>4. \A i \in 0 .. n : R[i] = IF i = 0 THEN b ELSE After(i, R[i - 1])
    BY <1>2, <1>4, <2>2 DEF IsRun
  <2> QED BY <2>3, <2>4
<1>6. Eq(F)
  <2> HIDE DEF Eq
  <2> QED BY <1>5
<1> HIDE DEF F
<1>7. /\ DOMAIN F = 0 .. n /\ F = [i \in DOMAIN F |-> F[i]] /\ F[0] = b
      /\ \A i \in 1 .. n : F[i] = VisitBatch(z, o, F[i - 1], q[i])
  <2>1. DOMAIN F = 0 .. n /\ F = [i \in DOMAIN F |-> F[i]]
    BY <1>6
  <2>2. \A i \in 0 .. n : F[i] = IF i = 0 THEN b ELSE After(i, F[i - 1])
    BY <1>6
  <2>3. 0 \in 0 .. n /\ \A i \in 1 .. n : i \in 0 .. n /\ i # 0
    OBVIOUS
  <2> HIDE DEF Eq
  <2> QED BY <1>4, <2>1, <2>2, <2>3
<1>8. IsRun(U, b, g, n, F)
  <2>1. \A i \in 1 .. n : F[i - 1] \in U => F[i] = g[i][F[i - 1]]
    BY <1>3, <1>7
  <2> HIDE DEF g, Eq
  <2> QED BY <1>1, <1>7, <2>1, StepsAreARun
<1>9. F[n] \in U /\ F[n] \in T[n]
  <2>1. F[n] \in U
    BY <1>8 DEF IsRun
  <2>2. \A i \in 1 .. n : \A u \in U : u \in T[i - 1] => g[i][u] \in T[i]
    BY <1>3
  <2> HIDE DEF g, Eq
  <2>3. F[n] \in T[n]
    BY <1>8, <2>2, RunStays
  <2> QED BY <2>1, <2>3
<1>10. VisitOrigin(z, o) = F[n]
  <2> DEFINE Over(c, s) ==
               LET fold[i \in 0 .. Len(s)] ==
                     IF i = 0 THEN c ELSE The({VisitBatch(z, o, acc, s[i]) : acc \in {fold[i - 1]}})
               IN  fold[Len(s)]
  <2>1. VisitOrigin(z, o) = The({Over(Begun(z, o), s) : s \in {Numbers(z, o)}})
    <3> HIDE DEF F, Eq, g, n
    <3> QED BY DEF Fold, VisitOrigin, VisitBatch, Begun, Numbers
  <2>2. Over(b, q) = F[n]
    BY DEF F, After
  <2> HIDE DEF Over
  <2>3. The({Over(Begun(z, o), s) : s \in {Numbers(z, o)}}) = Over(Begun(z, o), Numbers(z, o))
    BY DEF The
  <2> QED BY <2>1, <2>2, <2>3
<1> QED BY <1>9, <1>10

\* One pass over the pending origins.
Pass(sequence, s) == Fold(VisitOrigin, s, sequence)

\* All passes.
LEMMA PassFoldStays ==
    ASSUME NEW U, NEW b \in U, NEW q, Len(q) \in Nat,
           \A u \in U : Pass(q, u) \in U,
           NEW T, b \in T[0],
           \A i \in 1 .. Len(q) : \A u \in U : u \in T[i - 1] => Pass(q, u) \in T[i]
    PROVE  /\ Fold(LAMBDA s, k : Pass(q, s), b, q) \in U
           /\ Fold(LAMBDA s, k : Pass(q, s), b, q) \in T[Len(q)]
<1> DEFINE n == Len(q)
           g == [i \in 1 .. n |-> [u \in U |-> Pass(q, u)]]
           After(i, x) == The({Pass(q, acc) : acc \in {x}})
           Eq(f) == f = [i \in 0 .. n |-> IF i = 0 THEN b ELSE After(i, f[i - 1])]
           F == CHOOSE f : Eq(f)
<1>1. g \in [1 .. n -> [U -> U]]
  OBVIOUS
<1>2. PICK R : IsRun(U, b, g, n, R)
  <2> HIDE DEF g
  <2> QED BY <1>1, RunsExist
<1>3. \A i \in 1 .. n : \A u \in U : g[i][u] = Pass(q, u)
  OBVIOUS
<1>4. \A i, x : After(i, x) = Pass(q, x)
  BY DEF The
<1> HIDE DEF After
<1>5. Eq(R)
  <2> HIDE DEF g
  <2>1. \A i \in 1 .. n : i - 1 \in 0 .. n
    OBVIOUS
  <2>2. \A i \in 1 .. n : R[i] = Pass(q, R[i - 1])
    BY <1>2, <1>3, <2>1 DEF IsRun
  <2>3. R = [i \in 0 .. n |-> R[i]]
    BY <1>2 DEF IsRun
  <2>4. \A i \in 0 .. n : R[i] = IF i = 0 THEN b ELSE After(i, R[i - 1])
    BY <1>2, <1>4, <2>2 DEF IsRun
  <2> QED BY <2>3, <2>4
<1>6. Eq(F)
  <2> HIDE DEF Eq
  <2> QED BY <1>5
<1> HIDE DEF F
<1>7. /\ DOMAIN F = 0 .. n /\ F = [i \in DOMAIN F |-> F[i]] /\ F[0] = b
      /\ \A i \in 1 .. n : F[i] = Pass(q, F[i - 1])
  <2>1. DOMAIN F = 0 .. n /\ F = [i \in DOMAIN F |-> F[i]]
    BY <1>6
  <2>2. \A i \in 0 .. n : F[i] = IF i = 0 THEN b ELSE After(i, F[i - 1])
    BY <1>6
  <2>3. 0 \in 0 .. n /\ \A i \in 1 .. n : i \in 0 .. n /\ i # 0
    OBVIOUS
  <2> HIDE DEF Eq
  <2> QED BY <1>4, <2>1, <2>2, <2>3
<1>8. IsRun(U, b, g, n, F)
  <2>1. \A i \in 1 .. n : F[i - 1] \in U => F[i] = g[i][F[i - 1]]
    BY <1>3, <1>7
  <2> HIDE DEF g, Eq
  <2> QED BY <1>1, <1>7, <2>1, StepsAreARun
<1>9. F[n] \in U /\ F[n] \in T[n]
  <2>1. F[n] \in U
    BY <1>8 DEF IsRun
  <2>2. \A i \in 1 .. n : \A u \in U : u \in T[i - 1] => g[i][u] \in T[i]
    BY <1>3
  <2> HIDE DEF g, Eq
  <2>3. F[n] \in T[n]
    BY <1>8, <2>2, RunStays
  <2> QED BY <2>1, <2>3
<1>10. Fold(LAMBDA s, k : Pass(q, s), b, q) = F[n]
  <2> DEFINE Over(s) ==
               LET fold[i \in 0 .. Len(s)] ==
                     IF i = 0 THEN b ELSE The({Pass(q, acc) : acc \in {fold[i - 1]}})
               IN  fold[Len(s)]
  <2>1. Fold(LAMBDA s, k : Pass(q, s), b, q) = The({Over(s) : s \in {q}})
    BY DEF Fold
  <2>2. Over(q) = F[n]
    BY DEF F, After
  <2> HIDE DEF Over
  <2>3. The({Over(s) : s \in {q}}) = Over(q)
    BY DEF The
  <2> QED BY <2>1, <2>2, <2>3
<1> QED BY <1>9, <1>10

VisitStart(to, from, clients) ==
    [ok |-> TRUE, clients |-> clients, from |-> from, to |-> to, order |-> << >>,
     pending |-> {o \in Clients : to[o] > from[o]}]

VisitsWithin(U, q) == \A i \in 1 .. Len(q) : \A u \in U : VisitOrigin(u, q[i]) \in U
EndsIn(U, v) ==
    \E end \in U : v = [ok |-> end.ok /\ end.pending = {}, clients |-> end.clients,
                        order |-> end.order]

\* A pass stays in a set that the visits do not leave.
LEMMA PassStays ==
    ASSUME NEW q, Len(q) \in Nat, NEW U, VisitsWithin(U, q), NEW u \in U
    PROVE  Pass(q, u) \in U
<1> DEFINE T == [i \in 0 .. Len(q) |-> U]
<1>1. /\ \A i \in 1 .. Len(q) : \A x \in U : VisitOrigin(x, q[i]) \in U
      /\ u \in T[0] /\ \A i \in 1 .. Len(q) : T[i] = U
  BY DEF VisitsWithin
<1>2. \A i \in 1 .. Len(q) : \A x \in U : x \in T[i - 1] => VisitOrigin(x, q[i]) \in T[i]
  BY <1>1
<1> HIDE DEF T
<1> QED BY <1>1, <1>2, VisitFoldStays DEF Pass

\* Where the passes end: in a set that every one of them reaches.
LEMMA VisitsEnd ==
    ASSUME NEW to, NEW from, NEW clients, NEW q, Len(q) \in Nat,
           NEW U, VisitStart(to, from, clients) \in U, NEW E \in SUBSET U,
           Len(q) = 0 => E = U, \A u \in U : Pass(q, u) \in E
    PROVE  EndsIn(E, VisitOrigins(to, from, clients, q))
<1> DEFINE b == VisitStart(to, from, clients)
           end == Fold(LAMBDA s, k : Pass(q, s), b, q)
           R(e) == [ok |-> e.ok /\ e.pending = {}, clients |-> e.clients, order |-> e.order]
           T == [i \in 0 .. Len(q) |-> IF i = 0 THEN U ELSE E]
<1>1. /\ \A u \in U : Pass(q, u) \in U
      /\ b \in T[0] /\ (\A i \in 1 .. Len(q) : T[i] = E) /\ T[Len(q)] = E
  OBVIOUS
<1>2. \A i \in 1 .. Len(q) : \A u \in U : u \in T[i - 1] => Pass(q, u) \in T[i]
  <2> HIDE DEF T
  <2> QED BY <1>1
<1>3. end \in E
  <2>1. b \in U
    OBVIOUS
  <2> HIDE DEF b, T
  <2> QED BY <1>1, <1>2, <2>1, PassFoldStays
<1>4. VisitOrigins(to, from, clients, q) = The({R(e) : e \in {end}})
  BY DEF VisitOrigins, VisitStart, Pass
<1> HIDE DEF end, R
<1>5. The({R(e) : e \in {end}}) = R(end)
  BY DEF The
<1> QED BY <1>3, <1>4, <1>5 DEF R, EndsIn

\* A verification ends in a state of any set that its visits do not leave.
LEMMA VisitsStay ==
    ASSUME NEW to, NEW from, NEW clients, NEW q, Len(q) \in Nat,
           NEW U, VisitStart(to, from, clients) \in U, VisitsWithin(U, q)
    PROVE  EndsIn(U, VisitOrigins(to, from, clients, q))
<1>1. \A u \in U : Pass(q, u) \in U
  BY PassStays
<1>2. U \in SUBSET U
  OBVIOUS
<1> QED BY <1>1, <1>2, VisitsEnd

-----------------------------------------------------------------------------
(* Client tables and the batches that explain them.                        *)

AllDots == Nat \X Nat
ClientRow == [approved : AllDots, revoked : AllDots]
ClientMaps == UNION {[S -> ClientRow] : S \in SUBSET Clients}

Enrols(d, c) == ItemAt(d).kind = "client_enrolled" /\ ItemAt(d).id = c
Revokes(d, c) == ItemAt(d).kind = "client_revoked" /\ ItemAt(d).id = c

\* The batches of D say who is a client, since when and until when.
Explains(clients, D) ==
    /\ Genesis \in DOMAIN clients /\ clients[Genesis].approved = <<Genesis, 1>>
    /\ \A c \in DOMAIN clients :
          /\ c # Genesis => clients[c].approved \in D /\ Enrols(clients[c].approved, c)
          /\ clients[c].revoked # NoDot => clients[c].revoked \in D /\ Revokes(clients[c].revoked, c)
    /\ \A d \in D : \A c \in Clients :
          /\ Enrols(d, c) => c \in DOMAIN clients /\ clients[c].approved = d
          /\ Revokes(d, c) => c \in DOMAIN clients /\ clients[c].revoked = d

LEMMA ClientMapRows ==
    ASSUME NEW m \in ClientMaps
    PROVE  /\ DOMAIN m \in SUBSET Clients
           /\ m = [c \in DOMAIN m |-> m[c]]
           /\ \A c \in DOMAIN m : m[c] \in ClientRow
<1>1. PICK S \in SUBSET Clients : m \in [S -> ClientRow]
  BY DEF ClientMaps
<1> QED BY <1>1

\* The same batches explain one table.
LEMMA OneTable ==
    ASSUME NEW A \in ClientMaps, NEW B \in ClientMaps, NEW D, Explains(A, D), Explains(B, D)
    PROVE  A = B
<1>1. ASSUME NEW X \in ClientMaps, NEW Y \in ClientMaps, Explains(X, D), Explains(Y, D),
             NEW c \in DOMAIN X
      PROVE  c \in DOMAIN Y /\ X[c].approved = Y[c].approved
             /\ (X[c].revoked # NoDot => X[c].revoked = Y[c].revoked)
  <2>1. c \in Clients
    BY <1>1, ClientMapRows
  <2> QED BY <1>1, <2>1 DEF Explains
<1>2. DOMAIN A = DOMAIN B
  BY <1>1
<1>3. ASSUME NEW c \in DOMAIN A PROVE A[c] = B[c]
  <2>1. A[c] \in ClientRow /\ B[c] \in ClientRow
    BY <1>2, <1>3, ClientMapRows
  <2>2. A[c].approved = B[c].approved /\ A[c].revoked = B[c].revoked
    BY <1>1, <1>2, <1>3
  <2> QED BY <2>1, <2>2 DEF ClientRow
<1> QED BY <1>2, <1>3, ClientMapRows

\* A new client, and a revocation, explained by one more batch.
LEMMA EnrolledIsExplained ==
    ASSUME NEW m \in ClientMaps, NEW D, Explains(m, D), NEW dot \in AllDots, NEW id \in Clients,
           id \notin DOMAIN m, Enrols(dot, id)
    PROVE  Enrolled(m, id, dot) \in ClientMaps /\ Explains(Enrolled(m, id, dot), D \cup {dot})
<1> DEFINE e == Enrolled(m, id, dot)
           row == [approved |-> dot, revoked |-> NoDot]
<1>1. row \in ClientRow /\ row.approved = dot /\ row.revoked = NoDot
  BY DEF ClientRow, AllDots, NoDot
<1>2. /\ DOMAIN e = DOMAIN m \cup {id} /\ e[id] = row
      /\ \A c \in DOMAIN m : e[c] = m[c]
      /\ e = [c \in DOMAIN m \cup {id} |-> e[c]]
  BY DEF Enrolled
<1> HIDE DEF e, row
<1>3. e \in [DOMAIN m \cup {id} -> ClientRow] /\ DOMAIN m \cup {id} \in SUBSET Clients
  BY <1>1, <1>2, ClientMapRows
<1>4. e \in ClientMaps
  BY <1>3 DEF ClientMaps
<1>5. \A c \in Clients : (Enrols(dot, c) => c = id) /\ ~Revokes(dot, c)
  BY DEF Enrols, Revokes
<1>6. Explains(e, D \cup {dot})
  BY <1>1, <1>2, <1>5 DEF Explains
<1> QED BY <1>4, <1>6 DEF e

LEMMA RevokedIsExplained ==
    ASSUME NEW m \in ClientMaps, NEW D, NoDot \notin D, Explains(m, D), NEW dot \in AllDots,
           NEW id \in DOMAIN m, m[id].revoked = NoDot, dot # NoDot, Revokes(dot, id)
    PROVE  /\ [m EXCEPT ![id].revoked = dot] \in ClientMaps
           /\ Explains([m EXCEPT ![id].revoked = dot], D \cup {dot})
<1> DEFINE e == [m EXCEPT ![id].revoked = dot]
<1>1. /\ DOMAIN m \in SUBSET Clients /\ m \in [DOMAIN m -> ClientRow] /\ m[id] \in ClientRow
  BY ClientMapRows
<1> DEFINE row == [m[id] EXCEPT !.revoked = dot]
<1>2. row \in ClientRow /\ row.approved = m[id].approved /\ row.revoked = dot
  BY <1>1 DEF ClientRow
<1>3. e = [m EXCEPT ![id] = row]
  OBVIOUS
<1> HIDE DEF row, e
<1>4. /\ e \in [DOMAIN m -> ClientRow] /\ e[id] = row
      /\ \A c \in DOMAIN m : c # id => e[c] = m[c]
  BY <1>1, <1>2, <1>3
<1>5. e \in ClientMaps
  BY <1>1, <1>4 DEF ClientMaps
<1>6. \A c \in Clients : (Revokes(dot, c) => c = id) /\ ~Enrols(dot, c)
  BY DEF Enrols, Revokes
<1>7. Explains(e, D \cup {dot})
  <2>1. DOMAIN e = DOMAIN m
    BY <1>4
  <2>2. \A c \in DOMAIN e : e[c].approved = m[c].approved
    BY <1>2, <1>4, <2>1
  <2>3. \A c \in DOMAIN e : e[c].revoked = IF c = id THEN dot ELSE m[c].revoked
    BY <1>2, <1>4, <2>1
  <2>4. \A d \in D : ~Revokes(d, id)
    <3> SUFFICES ASSUME NEW d \in D, Revokes(d, id) PROVE FALSE
      OBVIOUS
    <3>1. m[id].revoked = d
      BY <1>1 DEF Explains
    <3> QED BY <3>1
  <2> QED BY <1>6, <2>1, <2>2, <2>3, <2>4 DEF Explains
<1> QED BY <1>5, <1>7 DEF e

\* Any other batch explains the table it finds.
LEMMA OtherIsExplained ==
    ASSUME NEW m, NEW D, Explains(m, D), NEW dot,
           ItemAt(dot).kind \notin {"client_enrolled", "client_revoked"}
    PROVE  Explains(m, D \cup {dot})
BY DEF Explains, Enrols, Revokes

-----------------------------------------------------------------------------
(* Verification.                                                           *)

IsSeq(s) == \E X : s \in Seq(X)

ItemOK(item) == item.kind \in {"client_enrolled", "client_revoked"} => item.id \in Clients

Tails == [Clients -> Nat]

\* The batches as they were signed: nobody revokes himself.
BatchesOK ==
    /\ DOMAIN batches = Clients
    /\ \A c \in Clients :
          /\ IsSeq(batches[c])
          /\ \A n \in DOMAIN batches[c] :
                /\ ItemOK(batches[c][n].item) /\ ~Revokes(<<c, n>>, c)
                /\ batches[c][n].base \in Tails

Reached(tails) == \A c \in Clients : tails[c] <= Len(batches[c])

\* The batches after some tails and up to others.
Span(from, to) == {d \in Clients \X Nat : from[d[1]] < d[2] /\ d[2] <= to[d[1]]}
Zero == [c \in Clients |-> 0]
Within(tails) == Span(Zero, tails)

Ran(s) == {s[i] : i \in DOMAIN s}

VisitStates(from, to) ==
    [ok : BOOLEAN, clients : ClientMaps, from : {from}, to : {to}, order : Seq(AllDots),
     pending : SUBSET {o \in Clients : to[o] > from[o]}]

\* What was visited explains the table, and is what is no longer pending.
GoodVisits(from, to) ==
    {s \in VisitStates(from, to) :
        s.ok => /\ Ran(s.order) = {d \in Span(from, to) : d[1] \notin s.pending}
                /\ Explains(s.clients, Within(from) \cup Ran(s.order))}

LEMMA AppendedRange ==
    ASSUME NEW s \in Seq(AllDots), NEW d \in AllDots
    PROVE  Append(s, d) \in Seq(AllDots) /\ Ran(Append(s, d)) = Ran(s) \cup {d}
<1>1. /\ Append(s, d) \in Seq(AllDots) /\ DOMAIN s = 1 .. Len(s) /\ Len(s) \in Nat
      /\ DOMAIN Append(s, d) = 1 .. Len(s) + 1
      /\ \A i \in 1 .. Len(s) : Append(s, d)[i] = s[i]
      /\ Append(s, d)[Len(s) + 1] = d
  OBVIOUS
<1>2. 1 .. Len(s) + 1 = (1 .. Len(s)) \cup {Len(s) + 1}
  BY <1>1
<1> QED BY <1>1, <1>2 DEF Ran

\* One batch of a visit.
LEMMA VisitBatchIs ==
    ASSUME BatchesOK, NEW from \in Tails, NEW to \in Tails, NEW z, NEW o \in Clients, NEW n \in Nat \ {0},
           n <= Len(batches[o]), NEW t \in VisitStates(from, to),
           t.ok => Explains(t.clients, Within(from) \cup Ran(t.order)),
           t.ok => Ran(t.order) \in SUBSET Span(from, to)
    PROVE  LET v == VisitBatch(z, o, t, n)
           IN  /\ v \in VisitStates(from, to) /\ v.pending = t.pending
               /\ v.ok => /\ t.ok /\ Ran(v.order) = Ran(t.order) \cup {<<o, n>>}
                          /\ Explains(v.clients, Within(from) \cup Ran(v.order))
<1> DEFINE dot == <<o, n>>
           item == batches[o][n].item
           ord == Append(t.order, dot)
           a == [t EXCEPT !.order = ord]
           v == VisitBatch(z, o, t, n)
<1>0. Clients \in SUBSET (Nat \ {0})
  BY RegistryAssumption DEF Clients
<1>1. /\ dot \in AllDots /\ dot # NoDot /\ ItemAt(dot) = item
      /\ t.order \in Seq(AllDots) /\ t.clients \in ClientMaps
  BY <1>0 DEF AllDots, ItemAt, NoDot, VisitStates
<1>2. ord \in Seq(AllDots) /\ Ran(ord) = Ran(t.order) \cup {dot}
  BY <1>1, AppendedRange
<1>3. ItemOK(item)
  <2>1. IsSeq(batches[o])
    BY DEF BatchesOK
  <2>2. n \in DOMAIN batches[o]
    BY <2>1 DEF IsSeq
  <2> QED BY <2>2 DEF BatchesOK
<1>4. /\ a \in VisitStates(from, to) /\ a.order = ord /\ a.clients = t.clients /\ a.ok = t.ok
      /\ a.pending = t.pending
  <2> HIDE DEF ord
  <2> QED BY <1>2 DEF VisitStates
<1>5. CASE ~t.ok
  BY <1>5 DEF VisitBatch
<1>6. CASE t.ok /\ v = [t EXCEPT !.ok = FALSE]
  <2>1. [t EXCEPT !.ok = FALSE] \in VisitStates(from, to) /\ ~[t EXCEPT !.ok = FALSE].ok
        /\ [t EXCEPT !.ok = FALSE].pending = t.pending
    BY DEF VisitStates
  <2> QED BY <1>6, <2>1
<1>7. CASE t.ok /\ v = ApplyClientItem(a, dot, item)
  <2> DEFINE D == Within(from) \cup Ran(t.order)
  <2>1. Explains(t.clients, D)
    BY <1>7
  <2>2. NoDot \notin D
    BY <1>0, <1>7 DEF Within, Span, NoDot
  <2> HIDE DEF a, dot, item, ord, D
  <2>3. CASE item.kind = "client_enrolled" /\ item.id \notin DOMAIN a.clients
    <3> DEFINE e == Enrolled(a.clients, item.id, dot)
    <3>1. v = [a EXCEPT !.clients = e]
      BY <1>7, <2>3 DEF ApplyClientItem
    <3>2. item.id \in Clients /\ Enrols(dot, item.id)
      BY <1>1, <1>3, <2>3 DEF ItemOK, Enrols
    <3>3. e \in ClientMaps /\ Explains(e, D \cup {dot})
      BY <1>1, <1>4, <2>1, <2>3, <3>2, EnrolledIsExplained
    <3> HIDE DEF e
    <3>4. v \in VisitStates(from, to) /\ v.pending = a.pending /\ v.order = a.order
          /\ v.clients = e
      BY <1>4, <3>1, <3>3 DEF VisitStates
    <3>5. D \cup {dot} = Within(from) \cup Ran(v.order)
      BY <1>2, <1>4, <3>4 DEF D
    <3>6. Explains(v.clients, Within(from) \cup Ran(v.order))
      BY <3>3, <3>4, <3>5
    <3> QED BY <1>2, <1>4, <1>7, <3>4, <3>6 DEF dot
  <2>4. CASE /\ item.kind = "client_revoked" /\ item.id \in DOMAIN a.clients
             /\ a.clients[item.id].revoked = NoDot
    <3> DEFINE e == [a.clients EXCEPT ![item.id].revoked = dot]
    <3>1. v = [a EXCEPT !.clients = e]
      BY <1>7, <2>4 DEF ApplyClientItem
    <3>2. Revokes(dot, item.id)
      BY <1>1, <2>4 DEF Revokes
    <3>3. e \in ClientMaps /\ Explains(e, D \cup {dot})
      BY <1>1, <1>4, <2>1, <2>2, <2>4, <3>2, RevokedIsExplained
    <3> HIDE DEF e
    <3>4. v \in VisitStates(from, to) /\ v.pending = a.pending /\ v.order = a.order
          /\ v.clients = e
      BY <1>4, <3>1, <3>3 DEF VisitStates
    <3>5. D \cup {dot} = Within(from) \cup Ran(v.order)
      BY <1>2, <1>4, <3>4 DEF D
    <3>6. Explains(v.clients, Within(from) \cup Ran(v.order))
      BY <3>3, <3>4, <3>5
    <3> QED BY <1>2, <1>4, <1>7, <3>4, <3>6 DEF dot
  <2>5. CASE item.kind \notin {"client_enrolled", "client_revoked"}
    <3>1. v = a
      BY <1>7, <2>5 DEF ApplyClientItem
    <3>2. Explains(t.clients, D \cup {dot})
      BY <1>1, <2>1, <2>5, OtherIsExplained
    <3>3. D \cup {dot} = Within(from) \cup Ran(v.order)
      BY <1>2, <1>4, <3>1 DEF D
    <3>4. Explains(v.clients, Within(from) \cup Ran(v.order))
      BY <1>4, <3>1, <3>2, <3>3
    <3> QED BY <1>2, <1>4, <1>7, <3>1, <3>4 DEF dot
  <2>6. CASE v = [a EXCEPT !.ok = FALSE]
    <3>1. [a EXCEPT !.ok = FALSE] \in VisitStates(from, to) /\ ~[a EXCEPT !.ok = FALSE].ok
          /\ [a EXCEPT !.ok = FALSE].pending = a.pending
      BY <1>4 DEF VisitStates
    <3> QED BY <1>4, <2>6, <3>1
  <2>7. \/ v = [a EXCEPT !.ok = FALSE]
        \/ item.kind = "client_enrolled" /\ item.id \notin DOMAIN a.clients
        \/ /\ item.kind = "client_revoked" /\ item.id \in DOMAIN a.clients
           /\ a.clients[item.id].revoked = NoDot
        \/ item.kind \notin {"client_enrolled", "client_revoked"}
    BY <1>7 DEF ApplyClientItem
  <2> QED BY <2>3, <2>4, <2>5, <2>6, <2>7
<1>8. \/ ~t.ok \/ (t.ok /\ v = [t EXCEPT !.ok = FALSE])
      \/ (t.ok /\ v = ApplyClientItem(a, dot, item))
  BY DEF VisitBatch
<1> QED BY <1>5, <1>6, <1>7, <1>8

\* The first i batches of o after the a-th.
Piece(o, a, i) == {d \in AllDots : d[1] = o /\ a < d[2] /\ d[2] <= a + i}

\* The visit of an origin keeps the table explained by what was visited.
LEMMA VisitOriginGood ==
    ASSUME BatchesOK, NEW from \in Tails, NEW to \in Tails, Reached(to),
           NEW s \in GoodVisits(from, to), NEW o \in Clients
    PROVE  VisitOrigin(s, o) \in GoodVisits(from, to)
<1>1. CASE ~s.ok \/ o \notin s.pending \/ o \notin DOMAIN s.clients
  BY <1>1 DEF VisitOrigin
<1>2. CASE s.ok /\ o \in s.pending /\ o \in DOMAIN s.clients
  <2> DEFINE q == Numbers(s, o)
             b == Begun(s, o)
             U == {t \in VisitStates(from, to) :
                     t.ok => /\ Explains(t.clients, Within(from) \cup Ran(t.order))
                             /\ Ran(t.order) \in SUBSET Span(from, to)}
             T == [i \in 0 .. Len(q) |->
                     {t \in U : /\ t.pending = s.pending \ {o}
                                /\ t.ok => Ran(t.order) = Ran(s.order) \cup Piece(o, from[o], i)}]
  <2>0. Clients \in SUBSET Nat
    BY RegistryAssumption DEF Clients
  <2>1. /\ s \in VisitStates(from, to) /\ s.from = from /\ s.to = to /\ to[o] > from[o]
        /\ to[o] \in Nat /\ from[o] \in Nat /\ Len(batches[o]) \in Nat
        /\ Explains(s.clients, Within(from) \cup Ran(s.order))
        /\ Ran(s.order) = {d \in Span(from, to) : d[1] \notin s.pending}
        /\ to[o] <= Len(batches[o])
    <3>1. s \in VisitStates(from, to) /\ o \in {c \in Clients : to[c] > from[c]}
          /\ s.from = from /\ s.to = to
      BY <1>2 DEF GoodVisits, VisitStates
    <3>2. Explains(s.clients, Within(from) \cup Ran(s.order))
          /\ Ran(s.order) = {d \in Span(from, to) : d[1] \notin s.pending}
      BY <1>2 DEF GoodVisits
    <3>3. Len(batches[o]) \in Nat
      BY DEF BatchesOK, IsSeq
    <3> QED BY <3>1, <3>2, <3>3 DEF Tails, Reached
  <2>2. /\ Len(q) = to[o] - from[o] /\ Len(q) \in Nat
        /\ \A i \in 1 .. Len(q) : q[i] = from[o] + i
    BY <2>1 DEF Numbers
  <2>3. /\ b \in VisitStates(from, to) /\ b.pending = s.pending \ {o} /\ b.order = s.order
        /\ b.clients = s.clients /\ b.ok
    BY <1>2, <2>1 DEF Begun, VisitStates
  <2>4. b \in U
    BY <2>1, <2>3
  <2>5. Piece(o, from[o], 0) = {}
    BY <2>1 DEF Piece, AllDots
  <2>6. b \in T[0]
    BY <2>2, <2>3, <2>4, <2>5
  <2> HIDE DEF q, b
  <2>7. \A i \in 1 .. Len(q) : /\ q[i] \in Nat \ {0} /\ q[i] <= Len(batches[o])
                               /\ <<o, q[i]>> \in Span(from, to)
    BY <2>1, <2>2 DEF Span
  <2>8. ASSUME NEW i \in 1 .. Len(q), NEW t \in U
        PROVE  LET v == VisitBatch(s, o, t, q[i])
               IN  /\ v \in U /\ v.pending = t.pending
                   /\ v.ok => t.ok /\ Ran(v.order) = Ran(t.order) \cup {<<o, q[i]>>}
    <3>1. t \in VisitStates(from, to)
          /\ (t.ok => Explains(t.clients, Within(from) \cup Ran(t.order)))
          /\ (t.ok => Ran(t.order) \in SUBSET Span(from, to))
      OBVIOUS
    <3> DEFINE n == q[i]
               v == VisitBatch(s, o, t, n)
    <3>2. n \in Nat \ {0} /\ n <= Len(batches[o]) /\ <<o, n>> \in Span(from, to)
      BY <2>7
    <3> HIDE DEF n, U
    <3>3. /\ v \in VisitStates(from, to) /\ v.pending = t.pending
          /\ v.ok => /\ t.ok /\ Ran(v.order) = Ran(t.order) \cup {<<o, n>>}
                     /\ Explains(v.clients, Within(from) \cup Ran(v.order))
      BY <3>1, <3>2, VisitBatchIs
    <3> HIDE DEF v
    <3>4. v \in U
      BY <3>1, <3>2, <3>3 DEF U
    <3> QED BY <3>3, <3>4 DEF v, n
  <2>9. \A i \in 1 .. Len(q) : \A u \in U : VisitBatch(s, o, u, q[i]) \in U
    BY <2>8
  <2>10. ASSUME NEW i \in 1 .. Len(q), NEW u \in U, u \in T[i - 1]
         PROVE  VisitBatch(s, o, u, q[i]) \in T[i]
    <3> DEFINE v == VisitBatch(s, o, u, q[i])
    <3>1. /\ v \in U /\ v.pending = u.pending
          /\ v.ok => u.ok /\ Ran(v.order) = Ran(u.order) \cup {<<o, q[i]>>}
      BY <2>8
    <3> HIDE DEF v, U
    <3>2. i - 1 \in 0 .. Len(q) /\ i \in 0 .. Len(q) /\ i \in Nat
      BY <2>2
    <3>3. /\ u.pending = s.pending \ {o}
          /\ u.ok => Ran(u.order) = Ran(s.order) \cup Piece(o, from[o], i - 1)
      BY <2>10, <3>2
    <3>4. Piece(o, from[o], i) = Piece(o, from[o], i - 1) \cup {<<o, q[i]>>}
      <4>1. q[i] = from[o] + i
        BY <2>2
      <4>2. \A k \in Nat : k <= from[o] + i <=> k <= from[o] + (i - 1) \/ k = from[o] + i
        BY <2>1, <3>2
      <4>3. from[o] + i \in Nat /\ from[o] < from[o] + i
        BY <2>1, <3>2
      <4> QED BY <2>0, <4>1, <4>2, <4>3 DEF Piece, AllDots
    <3>5. v.ok => Ran(v.order) = Ran(s.order) \cup Piece(o, from[o], i)
      BY <3>1, <3>3, <3>4
    <3>6. v \in T[i]
      BY <3>1, <3>2, <3>3, <3>5
    <3> QED BY <3>6 DEF v
  <2>11. \A i \in 1 .. Len(q) : \A u \in U : u \in T[i - 1] => VisitBatch(s, o, u, q[i]) \in T[i]
    BY <2>10
  <2> DEFINE e == VisitOrigin(s, o)
  <2>12. e \in U /\ e \in T[Len(q)]
    <3>1. b = Begun(s, o) /\ q = Numbers(s, o)
      BY DEF b, q
    <3> HIDE DEF U, T, e
    <3>2. VisitOrigin(s, o) \in U /\ VisitOrigin(s, o) \in T[Len(q)]
      BY <1>2, <2>2, <2>4, <2>6, <2>9, <2>11, <3>1, OriginFoldStays
    <3> QED BY <3>2 DEF e
  <2> HIDE DEF e
  <2>13. /\ e.pending = s.pending \ {o}
         /\ e.ok => Ran(e.order) = Ran(s.order) \cup Piece(o, from[o], to[o] - from[o])
    <3>1. Len(q) \in 0 .. Len(q)
      BY <2>2
    <3> QED BY <2>2, <2>12, <3>1
  <2>14. Ran(s.order) \cup Piece(o, from[o], to[o] - from[o])
           = {d \in Span(from, to) : d[1] \notin s.pending \ {o}}
    <3>1. \A k \in Nat : k <= from[o] + (to[o] - from[o]) <=> k <= to[o]
      BY <2>1
    <3>2. Piece(o, from[o], to[o] - from[o]) = {d \in Span(from, to) : d[1] = o}
      BY <2>0, <3>1 DEF Piece, AllDots, Span
    <3>3. Ran(s.order) = {d \in Span(from, to) : d[1] \notin s.pending}
      BY <2>1
    <3> HIDE DEF U, T
    <3> QED BY <1>2, <3>2, <3>3
  <2>15. e \in GoodVisits(from, to)
    <3>1. e \in VisitStates(from, to)
          /\ (e.ok => Explains(e.clients, Within(from) \cup Ran(e.order)))
      BY <2>12
    <3> HIDE DEF U, T
    <3> QED BY <2>13, <2>14, <3>1 DEF GoodVisits
  <2> QED BY <2>15 DEF e
<1> QED BY <1>1, <1>2

AtMost(a, b) == \A c \in Clients : a[c] <= b[c]

LEMMA SpansJoin ==
    ASSUME NEW from \in Tails, NEW to \in Tails, AtMost(from, to)
    PROVE  Within(from) \cup Span(from, to) = Within(to)
<1>1. \A d \in Clients \X Nat : /\ from[d[1]] \in Nat /\ to[d[1]] \in Nat /\ d[2] \in Nat
                                /\ from[d[1]] <= to[d[1]] /\ Zero[d[1]] = 0
  BY DEF Tails, AtMost, Zero
<1>2. \A d \in Clients \X Nat : 
         (Zero[d[1]] < d[2] /\ d[2] <= from[d[1]]) \/ (from[d[1]] < d[2] /\ d[2] <= to[d[1]])
         <=> Zero[d[1]] < d[2] /\ d[2] <= to[d[1]]
  BY <1>1
<1> QED BY <1>2 DEF Within, Span

IdsOnly(q) == Len(q) \in Nat /\ \A i \in 1 .. Len(q) : q[i] \in Clients

\* What a verification from some tails to later ones finds.
LEMMA VisitsExplained ==
    ASSUME BatchesOK, NEW from \in Tails, NEW to \in Tails, Reached(to), AtMost(from, to),
           NEW clients \in ClientMaps, Explains(clients, Within(from)), NEW q, IdsOnly(q)
    PROVE  LET v == VisitOrigins(to, from, clients, q)
           IN  /\ v.clients \in ClientMaps /\ v.order \in Seq(AllDots) /\ v.ok \in BOOLEAN
               /\ v.ok => Ran(v.order) = Span(from, to) /\ Explains(v.clients, Within(to))
<1> DEFINE U == GoodVisits(from, to)
           b == VisitStart(to, from, clients)
           v == VisitOrigins(to, from, clients, q)
<1>1. b \in U
  <2>1. b \in VisitStates(from, to) /\ b.order = << >> /\ b.clients = clients
        /\ b.pending = {o \in Clients : to[o] > from[o]}
    BY DEF VisitStart, VisitStates
  <2>2. Ran(b.order) = {}
    BY <2>1 DEF Ran
  <2>3. {d \in Span(from, to) : d[1] \notin b.pending} = {}
    <3> SUFFICES ASSUME NEW d \in Span(from, to), d[1] \notin b.pending PROVE FALSE
      OBVIOUS
    <3>1. d[1] \in Clients /\ d[2] \in Nat /\ from[d[1]] < d[2] /\ d[2] <= to[d[1]]
      BY DEF Span
    <3>2. from[d[1]] \in Nat /\ to[d[1]] \in Nat
      BY <3>1 DEF Tails
    <3> QED BY <2>1, <3>1, <3>2
  <2>4. Within(from) \cup Ran(b.order) = Within(from)
    BY <2>2
  <2> QED BY <2>1, <2>2, <2>3, <2>4 DEF GoodVisits
<1>2. \A i \in 1 .. Len(q) : \A u \in U : VisitOrigin(u, q[i]) \in U
  BY VisitOriginGood DEF IdsOnly
<1>3. PICK end \in U : v = [ok |-> end.ok /\ end.pending = {}, clients |-> end.clients,
                            order |-> end.order]
  <2> HIDE DEF U
  <2>1. Len(q) \in Nat
    BY DEF IdsOnly
  <2>2. VisitStart(to, from, clients) \in U
    BY <1>1
  <2> HIDE DEF b, v
  <2>3. VisitsWithin(U, q)
    BY <1>2 DEF VisitsWithin
  <2>4. EndsIn(U, VisitOrigins(to, from, clients, q))
    BY <2>1, <2>2, <2>3, VisitsStay
  <2> QED BY <2>4 DEF v, EndsIn
<1> HIDE DEF v
<1>4. end \in VisitStates(from, to)
  BY DEF GoodVisits
<1>5. v.clients \in ClientMaps /\ v.order \in Seq(AllDots) /\ v.ok \in BOOLEAN
  BY <1>3, <1>4 DEF VisitStates
<1>6. ASSUME v.ok PROVE Ran(v.order) = Span(from, to) /\ Explains(v.clients, Within(to))
  <2>1. end.ok /\ end.pending = {} /\ v.order = end.order /\ v.clients = end.clients
    BY <1>3, <1>6
  <2>2. Ran(end.order) = Span(from, to)
        /\ Explains(end.clients, Within(from) \cup Ran(end.order))
    BY <2>1 DEF GoodVisits
  <2>3. Within(from) \cup Span(from, to) = Within(to)
    BY SpansJoin
  <2> QED BY <2>1, <2>2, <2>3
<1> QED BY <1>5, <1>6 DEF v

-----------------------------------------------------------------------------
(* The replay of records.                                                  *)

\* A database whose fields are its own.
IsDb(d) == /\ d = [applied |-> d.applied, clients |-> d.clients, sites |-> d.sites,
                   device |-> d.device, ok |-> d.ok]
           /\ d.clients \in ClientMaps /\ d.ok \in BOOLEAN

\* The databases a replay of d to f can reach.
Replays(d, f) ==
    [applied : {f}, clients : ClientMaps,
     sites : SUBSET (d.sites \cup {ItemAt(dot).id : dot \in AllDots}),
     device : {d.device} \cup {ItemAt(dot).row : dot \in AllDots}, ok : BOOLEAN]

LEMMA ProjectItemIs ==
    ASSUME NEW d, NEW f, NEW t \in Replays(d, f), NEW dot \in AllDots, dot # NoDot,
           ItemOK(ItemAt(dot)), NEW D, NoDot \notin D, t.ok => Explains(t.clients, D)
    PROVE  LET v == ProjectItem(t, dot)
           IN  /\ v \in Replays(d, f)
               /\ v.ok => Explains(v.clients, D \cup {dot})
<1> DEFINE item == ItemAt(dot)
           v == ProjectItem(t, dot)
<1>1. item = batches[dot[1]][dot[2]].item
  BY DEF ItemAt
<1>2. t.clients \in ClientMaps /\ t.ok \in BOOLEAN
  BY DEF Replays
<1>3. ASSUME v = [t EXCEPT !.ok = FALSE] PROVE v \in Replays(d, f) /\ ~v.ok
  BY <1>3 DEF Replays
<1>4. ASSUME t.ok, item.kind = "client_enrolled", item.id \notin DOMAIN t.clients,
             v = [t EXCEPT !.clients = Enrolled(@, item.id, dot)]
      PROVE  v \in Replays(d, f) /\ Explains(v.clients, D \cup {dot})
  <2> DEFINE e == Enrolled(t.clients, item.id, dot)
  <2>1. item.id \in Clients /\ Enrols(dot, item.id)
    BY <1>4 DEF ItemOK, Enrols
  <2> HIDE DEF item, v
  <2>2. e \in ClientMaps /\ Explains(e, D \cup {dot})
    BY <1>2, <1>4, <2>1, EnrolledIsExplained
  <2>3. v = [t EXCEPT !.clients = e]
    BY <1>4
  <2> HIDE DEF e
  <2>4. v \in Replays(d, f) /\ v.clients = e
    BY <2>2, <2>3 DEF Replays
  <2> QED BY <2>2, <2>4
<1>5. ASSUME t.ok, item.kind = "client_revoked", item.id \in DOMAIN t.clients,
             t.clients[item.id].revoked = NoDot,
             v = [t EXCEPT !.clients[item.id].revoked = dot]
      PROVE  v \in Replays(d, f) /\ Explains(v.clients, D \cup {dot})
  <2> DEFINE e == [t.clients EXCEPT ![item.id].revoked = dot]
  <2>1. Revokes(dot, item.id)
    BY <1>5 DEF Revokes
  <2> HIDE DEF item, v
  <2>2. e \in ClientMaps /\ Explains(e, D \cup {dot})
    BY <1>2, <1>5, <2>1, RevokedIsExplained
  <2>3. v = [t EXCEPT !.clients = e]
    BY <1>5
  <2> HIDE DEF e
  <2>4. v \in Replays(d, f) /\ v.clients = e
    BY <2>2, <2>3 DEF Replays
  <2> QED BY <2>2, <2>4
<1>6. ASSUME t.ok, item.kind = "site", v = [t EXCEPT !.sites = @ \cup {item.id}]
      PROVE  v \in Replays(d, f) /\ v.clients = t.clients
  <2> DEFINE S == t.sites \cup {item.id}
             All == d.sites \cup {ItemAt(x).id : x \in AllDots}
  <2>1. t.sites \in SUBSET All
    BY DEF Replays
  <2>2. item.id \in All
    OBVIOUS
  <2>3. S \in SUBSET All /\ v = [t EXCEPT !.sites = S]
    BY <1>6, <2>1, <2>2
  <2> HIDE DEF S, item, v
  <2>4. v \in [applied : {f}, clients : ClientMaps, sites : SUBSET All,
               device : {d.device} \cup {ItemAt(x).row : x \in AllDots}, ok : BOOLEAN]
        /\ v.clients = t.clients
    <3> HIDE DEF All
    <3>1. t \in [applied : {f}, clients : ClientMaps, sites : SUBSET All,
               device : {d.device} \cup {ItemAt(x).row : x \in AllDots}, ok : BOOLEAN]
      BY DEF Replays, All
    <3> QED BY <2>3, <3>1
  <2> QED BY <2>4 DEF Replays
<1>7. ASSUME t.ok, item.kind = "device", v = [t EXCEPT !.device = item.row]
      PROVE  v \in Replays(d, f) /\ v.clients = t.clients
  <2> DEFINE row == item.row
             All == {d.device} \cup {ItemAt(x).row : x \in AllDots}
  <2>1. row \in All /\ v = [t EXCEPT !.device = row]
    BY <1>7
  <2> HIDE DEF row, item, v, All
  <2>2. t \in [applied : {f}, clients : ClientMaps,
               sites : SUBSET (d.sites \cup {ItemAt(x).id : x \in AllDots}),
               device : All, ok : BOOLEAN]
    BY DEF Replays, All
  <2>3. v \in [applied : {f}, clients : ClientMaps,
               sites : SUBSET (d.sites \cup {ItemAt(x).id : x \in AllDots}),
               device : All, ok : BOOLEAN] /\ v.clients = t.clients
    BY <2>1, <2>2
  <2> QED BY <2>3 DEF Replays, All
<1>8. ASSUME t.ok, item.kind \notin {"client_enrolled", "client_revoked"}, v.clients = t.clients
      PROVE  Explains(v.clients, D \cup {dot})
  <2>1. Explains(t.clients, D)
    BY <1>8
  <2>2. Explains(t.clients, D \cup {dot})
    BY <1>8, <2>1, OtherIsExplained
  <2> QED BY <1>8, <2>2
<1> DEFINE enrolled(c) == c \in DOMAIN t.clients /\ t.clients[c].revoked = NoDot
<1>9. \/ v = [t EXCEPT !.ok = FALSE]
      \/ t.ok /\ item.kind = "client_enrolled" /\ item.id \notin DOMAIN t.clients
         /\ v = [t EXCEPT !.clients = Enrolled(@, item.id, dot)]
      \/ t.ok /\ item.kind = "client_revoked" /\ enrolled(item.id)
         /\ v = [t EXCEPT !.clients[item.id].revoked = dot]
      \/ t.ok /\ item.kind = "site" /\ v = [t EXCEPT !.sites = @ \cup {item.id}]
      \/ t.ok /\ item.kind = "device" /\ v = [t EXCEPT !.device = item.row]
      \/ t.ok /\ item.kind \notin {"client_enrolled", "client_revoked"} /\ v = t
  BY <1>1 DEF ProjectItem
<1> HIDE DEF item, v
<1>10. CASE v = [t EXCEPT !.ok = FALSE]
  BY <1>3, <1>10 DEF v
<1>11. CASE t.ok /\ item.kind = "client_enrolled" /\ item.id \notin DOMAIN t.clients
            /\ v = [t EXCEPT !.clients = Enrolled(@, item.id, dot)]
  BY <1>4, <1>11 DEF v
<1>12. CASE t.ok /\ item.kind = "client_revoked" /\ enrolled(item.id)
            /\ v = [t EXCEPT !.clients[item.id].revoked = dot]
  BY <1>5, <1>12 DEF v
<1>13. CASE t.ok /\ item.kind = "site" /\ v = [t EXCEPT !.sites = @ \cup {item.id}]
  BY <1>6, <1>8, <1>13 DEF v
<1>14. CASE t.ok /\ item.kind = "device" /\ v = [t EXCEPT !.device = item.row]
  BY <1>7, <1>8, <1>14 DEF v
<1>15. CASE t.ok /\ item.kind \notin {"client_enrolled", "client_revoked"} /\ v = t
  BY <1>8, <1>15 DEF v
<1> QED BY <1>9, <1>10, <1>11, <1>12, <1>13, <1>14, <1>15

\* The result of a replay that nothing refused.
GoodReplay(r, f) ==
    /\ r.ok \in BOOLEAN
    /\ r.ok => /\ IsDb(r) /\ r.applied = f
               /\ Explains(r.clients, Within(frontiers[f].tails))

\* Where a replay may start: at tails that the frontier includes, with the
\* table that the batches so far explain.
MayReplay(d, f) ==
    /\ IsDb(d) /\ d.ok
    /\ d.applied \in 1 .. Len(frontiers)
    /\ frontiers[d.applied].tails \in Tails /\ frontiers[f].tails \in Tails
    /\ Reached(frontiers[f].tails)
    /\ AtMost(frontiers[d.applied].tails, frontiers[f].tails)
    /\ Explains(d.clients, Within(frontiers[d.applied].tails))

LEMMA BatchIsOK ==
    ASSUME BatchesOK, NEW o \in Clients, NEW n \in Nat \ {0}, n <= Len(batches[o])
    PROVE  /\ n \in DOMAIN batches[o] /\ ItemOK(ItemAt(<<o, n>>)) /\ ~Revokes(<<o, n>>, o)
           /\ batches[o][n].base \in Tails
<1>1. IsSeq(batches[o])
  BY DEF BatchesOK
<1>2. n \in DOMAIN batches[o]
  BY <1>1 DEF IsSeq
<1> QED BY <1>2 DEF BatchesOK, ItemAt

LEMMA IdOrderIds == IdsOnly(IdOrder) /\ IdsOnly(<<Genesis>> \o IdOrder)
<1>1. NClients \in Nat /\ Genesis \in Clients
  BY RegistryAssumption
<1>2. IdOrder \in Seq(Clients) /\ Len(IdOrder) \in Nat
  BY <1>1 DEF IdOrder, Clients
<1>3. <<Genesis>> \o IdOrder \in Seq(Clients)
  BY <1>1, <1>2
<1>4. \A s \in Seq(Clients) : IdsOnly(s)
  BY DEF IdsOnly
<1> QED BY <1>2, <1>3, <1>4

\* apply: the table of the database is again the one its history explains.
LEMMA AppliedGood ==
    ASSUME BatchesOK, NEW d, NEW f, MayReplay(d, f)
    PROVE  GoodReplay(Applied(d, f), f)
<1> DEFINE from == frontiers[d.applied].tails
           to == frontiers[f].tails
           v == VerifiedSince(f, from, d.clients)
           b == [d EXCEPT !.applied = f]
           R(x) == IF x.ok THEN Fold(ProjectItem, b, x.order) ELSE [d EXCEPT !.ok = FALSE]
           U == {t \in Replays(d, f) : t.ok => \E D \in SUBSET (Clients \X Nat) : Explains(t.clients, D)}
<1>0. /\ IsDb(d) /\ d.ok /\ from \in Tails /\ to \in Tails /\ Reached(to) /\ AtMost(from, to)
      /\ Explains(d.clients, Within(from)) /\ d.clients \in ClientMaps
  BY DEF MayReplay, IsDb
<1>00. Clients \in SUBSET (Nat \ {0})
  BY RegistryAssumption DEF Clients
<1>1. Applied(d, f) = R(v)
  <2>1. Applied(d, f) = The({R(x) : x \in {v}})
    BY DEF Applied
  <2> HIDE DEF R, v
  <2> QED BY <2>1 DEF The
<1>2. v = VisitOrigins(to, from, d.clients, IdOrder)
  BY DEF VerifiedSince
<1> HIDE DEF v, from, to
<1>3. /\ v.clients \in ClientMaps /\ v.order \in Seq(AllDots) /\ v.ok \in BOOLEAN
      /\ v.ok => Ran(v.order) = Span(from, to)
  BY <1>0, <1>2, IdOrderIds, VisitsExplained
<1>4. CASE ~v.ok
  <2>1. [d EXCEPT !.ok = FALSE].ok = FALSE
    BY <1>0 DEF IsDb
  <2> QED BY <1>1, <1>4, <2>1 DEF GoodReplay
<1>5. CASE v.ok
  <2> DEFINE q == v.order
             T == [i \in 0 .. Len(q) |->
                     {t \in U : t.ok => Explains(t.clients, Within(from) \cup {q[j] : j \in 1 .. i})}]
  <2>1. q \in Seq(AllDots) /\ Len(q) \in Nat /\ DOMAIN q = 1 .. Len(q)
    BY <1>3
  <2>2. b \in U /\ b.clients = d.clients
    <3>1. b = [applied |-> f, clients |-> d.clients, sites |-> d.sites, device |-> d.device,
               ok |-> d.ok]
      <4>1. \A a, c, s, v1, k :
              [[applied |-> a, clients |-> c, sites |-> s, device |-> v1, ok |-> k] EXCEPT !.applied = f]
              = [applied |-> f, clients |-> c, sites |-> s, device |-> v1, ok |-> k]
        OBVIOUS
      <4> DEFINE same == [applied |-> d.applied, clients |-> d.clients, sites |-> d.sites,
                          device |-> d.device, ok |-> d.ok]
      <4>2. d = same
        BY <1>0 DEF IsDb
      <4>3. [same EXCEPT !.applied = f] =
              [applied |-> f, clients |-> d.clients, sites |-> d.sites, device |-> d.device,
               ok |-> d.ok]
        BY <4>1
      <4> HIDE DEF same
      <4> QED BY <4>2, <4>3
    <3>2. b \in Replays(d, f) /\ b.clients = d.clients
      BY <1>0, <3>1 DEF Replays, IsDb
    <3>3. Within(from) \in SUBSET (Clients \X Nat)
      BY DEF Within, Span
    <3> HIDE DEF b
    <3> QED BY <1>0, <3>2, <3>3
  <2>3. b \in T[0]
    <3>1. {q[j] : j \in 1 .. 0} = {}
      OBVIOUS
    <3>2. Within(from) \cup {q[j] : j \in 1 .. 0} = Within(from)
      BY <3>1
    <3>3. Explains(b.clients, Within(from) \cup {q[j] : j \in 1 .. 0})
      BY <1>0, <2>2, <3>2
    <3>4. 0 \in 0 .. Len(q)
      BY <2>1
    <3> HIDE DEF b
    <3> QED BY <2>2, <3>3, <3>4
  <2> HIDE DEF q, b, U
  <2>4. \A i \in 1 .. Len(q) : /\ q[i] \in Span(from, to) /\ q[i] \in AllDots /\ q[i] # NoDot
                               /\ ItemOK(ItemAt(q[i]))
    <3> SUFFICES ASSUME NEW i \in 1 .. Len(q)
                 PROVE  /\ q[i] \in Span(from, to) /\ q[i] \in AllDots /\ q[i] # NoDot
                        /\ ItemOK(ItemAt(q[i]))
      OBVIOUS
    <3>1. q[i] \in Span(from, to)
      BY <1>3, <1>5, <2>1 DEF Ran, q
    <3>2. PICK o \in Clients, n \in Nat : q[i] = <<o, n>> /\ from[o] < n /\ n <= to[o]
      BY <3>1 DEF Span
    <3>3. from[o] \in Nat /\ to[o] \in Nat /\ to[o] <= Len(batches[o]) /\ Len(batches[o]) \in Nat
      BY <1>0 DEF Tails, Reached, BatchesOK, IsSeq
    <3>4. n \in Nat \ {0} /\ n <= Len(batches[o])
      BY <3>2, <3>3
    <3> QED BY <1>00, <3>1, <3>2, <3>4, BatchIsOK DEF AllDots, NoDot
  <2>5. \A D : D \in SUBSET (Clients \X Nat) => NoDot \notin D
    BY <1>00 DEF NoDot
  <2>6. ASSUME NEW i \in 1 .. Len(q), NEW u \in U, NEW D \in SUBSET (Clients \X Nat),
               u.ok => Explains(u.clients, D)
        PROVE  /\ ProjectItem(u, q[i]) \in U
               /\ ProjectItem(u, q[i]).ok => Explains(ProjectItem(u, q[i]).clients, D \cup {q[i]})
    <3> DEFINE dot == q[i]
    <3>1. dot \in AllDots /\ dot # NoDot /\ ItemOK(ItemAt(dot)) /\ NoDot \notin D
      BY <2>4, <2>5
    <3> HIDE DEF dot
    <3>2. u \in Replays(d, f)
      BY DEF U
    <3>3. /\ ProjectItem(u, dot) \in Replays(d, f)
          /\ ProjectItem(u, dot).ok => Explains(ProjectItem(u, dot).clients, D \cup {dot})
      BY <2>6, <3>1, <3>2, ProjectItemIs
    <3>4. D \cup {dot} \in SUBSET (Clients \X Nat)
      BY <2>4 DEF dot, Span
    <3> DEFINE r == ProjectItem(u, dot)
    <3>5. r \in Replays(d, f) /\ (r.ok => Explains(r.clients, D \cup {dot}))
      BY <3>3
    <3> HIDE DEF r
    <3>6. r \in U
      BY <3>4, <3>5 DEF U
    <3> QED BY <3>5, <3>6 DEF dot, r
  <2>7. ASSUME NEW i \in 1 .. Len(q), NEW u \in U PROVE ProjectItem(u, q[i]) \in U
    <3>1. CASE u.ok
      <4>1. PICK D \in SUBSET (Clients \X Nat) : Explains(u.clients, D)
        BY <3>1 DEF U
      <4> QED BY <2>6, <4>1
    <3>2. CASE ~u.ok
      <4>1. {} \in SUBSET (Clients \X Nat)
        OBVIOUS
      <4> QED BY <2>6, <3>2, <4>1
    <3> QED BY <3>1, <3>2
  <2>8. ASSUME NEW i \in 1 .. Len(q), NEW u \in U, u \in T[i - 1]
        PROVE  ProjectItem(u, q[i]) \in T[i]
    <3> DEFINE D == Within(from) \cup {q[j] : j \in 1 .. (i - 1)}
    <3>1. i - 1 \in 0 .. Len(q) /\ i \in 0 .. Len(q)
      BY <2>1
    <3>2. u.ok => Explains(u.clients, D)
      BY <2>8, <3>1
    <3>3. D \in SUBSET (Clients \X Nat)
      <4>1. \A j \in 1 .. (i - 1) : j \in 1 .. Len(q)
        BY <2>1
      <4> QED BY <2>4, <4>1 DEF Within, Span
    <3>4. D \cup {q[i]} = Within(from) \cup {q[j] : j \in 1 .. i}
      <4>1. 1 .. i = (1 .. (i - 1)) \cup {i}
        BY <2>1
      <4> QED BY <4>1
    <3> HIDE DEF D
    <3> DEFINE r == ProjectItem(u, q[i])
    <3>5. r \in U /\ (r.ok => Explains(r.clients, D \cup {q[i]}))
      BY <2>6, <3>2, <3>3
    <3> HIDE DEF r
    <3>6. r.ok => Explains(r.clients, Within(from) \cup {q[j] : j \in 1 .. i})
      BY <3>4, <3>5
    <3>7. r \in T[i]
      BY <3>1, <3>5, <3>6
    <3> QED BY <3>7 DEF r
  <2>9. /\ \A i \in 1 .. Len(q) : \A u \in U : ProjectItem(u, q[i]) \in U
        /\ \A i \in 1 .. Len(q) : \A u \in U : u \in T[i - 1] => ProjectItem(u, q[i]) \in T[i]
    BY <2>7, <2>8
  <2> DEFINE r == Fold(ProjectItem, b, q)
  <2>10. r \in U /\ r \in T[Len(q)]
    <3> HIDE DEF T
    <3> QED BY <2>1, <2>2, <2>3, <2>9, ProjectFoldStays
  <2> HIDE DEF r
  <2>11. r.ok => Explains(r.clients, Within(from) \cup {q[j] : j \in 1 .. Len(q)})
    <3>1. Len(q) \in 0 .. Len(q)
      BY <2>1
    <3> QED BY <2>10, <3>1
  <2>12. Within(from) \cup {q[j] : j \in 1 .. Len(q)} = Within(to)
    <3>1. {q[j] : j \in 1 .. Len(q)} = Span(from, to)
      BY <1>3, <1>5, <2>1 DEF Ran, q
    <3> QED BY <1>0, <3>1, SpansJoin
  <2>13. r \in Replays(d, f)
    BY <2>10 DEF U
  <2>14. IsDb(r) /\ r.applied = f
    BY <2>13 DEF Replays, IsDb
  <2>15. Applied(d, f) = r
    BY <1>1, <1>5 DEF r, q
  <2>16. Explains(r.clients, Within(to)) \/ ~r.ok
    BY <2>11, <2>12
  <2> QED BY <2>14, <2>15, <2>16 DEF GoodReplay, IsDb, to
<1> QED BY <1>3, <1>4, <1>5

-----------------------------------------------------------------------------
(* Ancestors.                                                              *)

\* The set of ancestors of every frontier up to the k-th.
AncestorsUpTo(a, k) == a = [i \in 1 .. k |-> {i} \cup UNION {a[p] : p \in frontiers[i].previous}]

\* Every frontier names earlier ones, whose tails it includes.
FrontierOrder ==
    /\ IsSeq(frontiers)
    /\ \A i \in 1 .. Len(frontiers) :
          /\ frontiers[i].tails \in Tails
          /\ frontiers[i].previous \in SUBSET (1 .. (i - 1))
          /\ \A p \in frontiers[i].previous : AtMost(frontiers[p].tails, frontiers[i].tails)

LEMMA AncestorsExist ==
    ASSUME FrontierOrder
    PROVE  \E a : AncestorsUpTo(a, Len(frontiers))
<1> DEFINE N == Len(frontiers)
           Bad == {k \in 0 .. N : ~\E a : AncestorsUpTo(a, k)}
<1>0. N \in Nat
  BY DEF FrontierOrder, IsSeq
<1> SUFFICES ASSUME Bad # {} PROVE FALSE
  BY <1>0
<1>1. PICK m \in Bad : \A k \in Bad : m <= k
  BY LeastNumber, Bad \in SUBSET Nat
<1>2. CASE m = 0
  <2> DEFINE a == [i \in 1 .. 0 |-> {}]
  <2>1. AncestorsUpTo(a, 0)
    BY DEF AncestorsUpTo
  <2> QED BY <1>1, <1>2, <2>1
<1>3. CASE m # 0
  <2>1. m - 1 \in 0 .. N /\ m - 1 \notin Bad /\ m \in 1 .. N /\ m \in Nat
    BY <1>0, <1>1, <1>3
  <2>2. PICK a : AncestorsUpTo(a, m - 1)
    BY <2>1
  <2> DEFINE More(f, i) == {i} \cup UNION {f[p] : p \in frontiers[i].previous}
             Q == [i \in 1 .. m |-> IF i < m THEN a[i] ELSE More(a, m)]
  <2>3. \A i \in 1 .. m - 1 : a[i] = More(a, i)
    BY <2>2 DEF AncestorsUpTo
  <2>4. \A i \in 1 .. m : \A p \in frontiers[i].previous : Q[p] = a[p]
    <3> SUFFICES ASSUME NEW i \in 1 .. m, NEW p \in frontiers[i].previous PROVE Q[p] = a[p]
      OBVIOUS
    <3>1. i \in 1 .. N
      BY <1>0, <2>1
    <3>2. p \in 1 .. (i - 1)
      BY <3>1 DEF FrontierOrder
    <3>3. p \in 1 .. m /\ p < m
      BY <2>1, <3>2
    <3> HIDE DEF More
    <3> QED BY <3>3
  <2>5. \A i \in 1 .. m : More(Q, i) = More(a, i)
    <3> HIDE DEF Q
    <3> QED BY <2>4
  <2> HIDE DEF More
  <2>6. \A i \in 1 .. m : Q[i] = More(Q, i)
    <3> SUFFICES ASSUME NEW i \in 1 .. m PROVE Q[i] = More(Q, i)
      OBVIOUS
    <3>1. More(Q, i) = More(a, i)
      BY <2>5
    <3>2. CASE i < m
      <4>1. i \in 1 .. m - 1
        BY <2>1, <3>2
      <4>2. Q[i] = a[i]
        BY <3>2
      <4> HIDE DEF Q
      <4> QED BY <2>3, <3>1, <4>1, <4>2
    <3>3. CASE i = m
      <4>1. Q[i] = More(a, m)
        BY <3>3
      <4> HIDE DEF Q
      <4> QED BY <3>1, <3>3, <4>1
    <3> QED BY <2>1, <3>2, <3>3
  <2>7. DOMAIN Q = 1 .. m /\ Q = [i \in 1 .. m |-> Q[i]]
    OBVIOUS
  <2> HIDE DEF Q
  <2>8. Q = [i \in 1 .. m |-> More(Q, i)]
    BY <2>6, <2>7
  <2>9. AncestorsUpTo(Q, m)
    BY <2>8 DEF AncestorsUpTo, More
  <2> QED BY <1>1, <2>9
<1> QED BY <1>2, <1>3

\* A frontier includes the tails of its ancestors.
LEMMA AncestorsAreBefore ==
    ASSUME FrontierOrder, NEW f \in 1 .. Len(frontiers), NEW h \in Ancestors(f)
    PROVE  h \in 1 .. f /\ AtMost(frontiers[h].tails, frontiers[f].tails)
<1> DEFINE N == Len(frontiers)
           anc == CHOOSE a : AncestorsUpTo(a, N)
           Good(i) == \A k \in anc[i] : k \in 1 .. i /\ AtMost(frontiers[k].tails, frontiers[i].tails)
           Bad == {i \in 1 .. N : ~Good(i)}
<1>0. N \in Nat
  BY DEF FrontierOrder, IsSeq
<1>1. AncestorsUpTo(anc, N)
  <2> HIDE DEF N
  <2> QED BY AncestorsExist DEF N
<1>2. Ancestors(f) = anc[f]
  BY DEF Ancestors, AncestorsUpTo
<1> HIDE DEF anc
<1>3. \A i \in 1 .. N : anc[i] = {i} \cup UNION {anc[p] : p \in frontiers[i].previous}
  BY <1>1 DEF AncestorsUpTo
<1>4. Bad = {}
  <2> SUFFICES ASSUME Bad # {} PROVE FALSE
    OBVIOUS
  <2>1. PICK m \in Bad : \A k \in Bad : m <= k
    BY LeastNumber, Bad \in SUBSET Nat
  <2>2. m \in 1 .. N /\ ~Good(m) /\ m \in Nat
    BY <1>0, <2>1
  <2>3. PICK k \in anc[m] : ~(k \in 1 .. m /\ AtMost(frontiers[k].tails, frontiers[m].tails))
    BY <2>2
  <2>4. CASE k = m
    <3>1. \A c \in Clients : frontiers[m].tails[c] \in Nat
      BY <2>2 DEF FrontierOrder, Tails
    <3>2. AtMost(frontiers[m].tails, frontiers[m].tails)
      BY <3>1 DEF AtMost
    <3> QED BY <2>2, <2>3, <2>4, <3>2
  <2>5. CASE k # m
    <3>1. PICK p \in frontiers[m].previous : k \in anc[p]
      BY <1>3, <2>2, <2>3, <2>5
    <3>2. p \in 1 .. (m - 1) /\ AtMost(frontiers[p].tails, frontiers[m].tails)
      BY <2>2 DEF FrontierOrder
    <3>3. p \in 1 .. N /\ p \notin Bad
      BY <1>0, <2>1, <2>2, <3>2
    <3>4. k \in 1 .. p /\ AtMost(frontiers[k].tails, frontiers[p].tails)
      BY <3>1, <3>3
    <3>44. k \in 1 .. m /\ k \in 1 .. N
      BY <1>0, <2>2, <3>2, <3>4
    <3>5. \A c \in Clients : /\ frontiers[k].tails[c] \in Nat /\ frontiers[p].tails[c] \in Nat
                             /\ frontiers[m].tails[c] \in Nat
      BY <2>2, <3>3, <3>44 DEF FrontierOrder, Tails
    <3>6. AtMost(frontiers[k].tails, frontiers[m].tails)
      BY <3>2, <3>4, <3>5 DEF AtMost
    <3> QED BY <2>3, <3>44, <3>6
  <2> QED BY <2>4, <2>5
<1>5. Good(f)
  BY <1>4
<1> QED BY <1>2, <1>5

-----------------------------------------------------------------------------
(* What verification from nothing finds.                                   *)

LEMMA InitialClientsExplained ==
    /\ InitialClients \in ClientMaps /\ Explains(InitialClients, Within(Zero))
    /\ DOMAIN InitialClients = {Genesis} /\ Zero \in Tails
<1>1. Genesis \in Clients /\ Clients \in SUBSET Nat
  BY RegistryAssumption DEF Clients
<1>2. InitialClients \in [{Genesis} -> ClientRow]
  BY <1>1 DEF InitialClients, ClientRow, AllDots, NoDot
<1>3. InitialClients \in ClientMaps
  BY <1>1, <1>2 DEF ClientMaps
<1>4. Within(Zero) = {}
  BY DEF Within, Span, Zero
<1>5. Explains(InitialClients, {})
  BY DEF Explains, InitialClients
<1>6. Zero \in Tails
  BY DEF Zero, Tails
<1> QED BY <1>3, <1>4, <1>5, <1>6 DEF InitialClients

\* The verification of a history that is there.
Verifies(v, tails) ==
    /\ v.ok \in BOOLEAN /\ v.clients \in ClientMaps
    /\ v.ok => Explains(v.clients, Within(tails))

LEMMA VerifiedTailsGood ==
    ASSUME BatchesOK, NEW tails \in Tails, Reached(tails)
    PROVE  Verifies(VerifiedTails(tails), tails)
<1> DEFINE q == <<Genesis>> \o IdOrder
           v == VisitOrigins(tails, Zero, InitialClients, q)
<1>1. AtMost(Zero, tails)
  BY DEF AtMost, Zero, Tails
<1> HIDE DEF q
<1>2. /\ v.clients \in ClientMaps /\ v.ok \in BOOLEAN
      /\ v.ok => Explains(v.clients, Within(tails))
  BY <1>1, InitialClientsExplained, IdOrderIds, VisitsExplained DEF q
<1>3. VerifiedTails(tails) = [ok |-> v.ok, clients |-> v.clients]
  BY DEF VerifiedTails, Zero, q
<1> HIDE DEF v
<1> QED BY <1>2, <1>3 DEF Verifies

-----------------------------------------------------------------------------
(* The inductive invariant.                                                *)

\* A frontier with one parent adds batches of one client, the last of which
\* was signed on the parent.
OneMore(i) ==
    \A p : frontiers[i].previous = {p} =>
      \E c \in Clients :
        /\ frontiers[i].tails[c] # 0
        /\ \A o \in Clients \ {c} : frontiers[i].tails[o] = frontiers[p].tails[o]
        /\ batches[c][frontiers[i].tails[c]].base = frontiers[p].tails

FrontiersOK ==
    /\ Len(frontiers) \in Nat \ {0} /\ frontiers[1].tails = Zero
    /\ \A i \in 1 .. Len(frontiers) :
          /\ Reached(frontiers[i].tails)
          /\ Verifies(frontiers[i].verified, frontiers[i].tails)
          /\ OneMore(i)

\* A writer that its base enrols and does not revoke.
Trusted(c, base) ==
    /\ c # Genesis => \E d \in Dots : Enrols(d, c) /\ Includes(base, d)
    /\ \A d \in Dots : ~(Revokes(d, c) /\ Includes(base, d))

SignedOK ==
    \A c \in Clients : \A n \in 1 .. Len(batches[c]) :
       Reached(batches[c][n].base) /\ Trusted(c, batches[c][n].base)

HistoryOK == BatchesOK /\ FrontierOrder /\ FrontiersOK /\ SignedOK

HeadsOK ==
    /\ heads \in [Clients -> 0 .. Len(frontiers)]
    /\ remote \in 1 .. Len(frontiers) /\ Verified(remote).ok

DbOK ==
    /\ DOMAIN db = Clients
    /\ \A c \in Clients : heads[c] # 0 => MayReplay(db[c], heads[c])

GoodItem(c, item) == ItemOK(item) /\ ~(item.kind = "client_revoked" /\ item.id = c)

WorkOK ==
    /\ DOMAIN work = Clients
    /\ \A c \in Clients :
          /\ DOMAIN work[c] = {"step", "item", "token"}
          /\ GoodItem(c, work[c].item)
          /\ work[c].step # "idle" => heads[c] # 0

SharedInv == HistoryOK /\ HeadsOK /\ DbOK /\ WorkOK

-----------------------------------------------------------------------------
(* Facts about one state, to be used of the next one too.                  *)

ReplayFact == \A d, f : MayReplay(d, f) => GoodReplay(Applied(d, f), f)
VerifyFact == \A tails \in Tails : Reached(tails) => Verifies(VerifiedTails(tails), tails)
AgainFact ==
    \A d : \A f \in 1 .. Len(frontiers) : GoodReplay(d, f) /\ d.ok => MayReplay(d, f)

LEMMA ReplayFacts == BatchesOK => ReplayFact
BY AppliedGood DEF ReplayFact

LEMMA VerifyFacts == BatchesOK => VerifyFact
BY VerifiedTailsGood DEF VerifyFact

LEMMA AgainFacts == FrontierOrder /\ FrontiersOK => AgainFact
<1> SUFFICES ASSUME FrontierOrder, FrontiersOK, NEW d, NEW f \in 1 .. Len(frontiers),
                    GoodReplay(d, f), d.ok
             PROVE  MayReplay(d, f)
  BY DEF AgainFact
<1>1. frontiers[f].tails \in Tails /\ Reached(frontiers[f].tails)
  BY DEF FrontierOrder, FrontiersOK
<1>2. AtMost(frontiers[f].tails, frontiers[f].tails)
  BY <1>1 DEF AtMost, Tails
<1> QED BY <1>1, <1>2 DEF GoodReplay, MayReplay

LEMMA DotIs ==
    ASSUME NEW d
    PROVE  d \in Dots <=> \E c \in Clients : \E n \in 1 .. Len(batches[c]) : d = <<c, n>>
BY DEF Dots

\* The batches within tails are those that the tails include.
LEMMA WithinIs ==
    ASSUME BatchesOK, NEW tails \in Tails, Reached(tails), NEW d
    PROVE  d \in Within(tails) <=> d \in Dots /\ Includes(tails, d)
<1>0. \A c \in Clients : /\ tails[c] \in Nat /\ Len(batches[c]) \in Nat /\ Zero[c] = 0
                         /\ tails[c] <= Len(batches[c])
  BY DEF Tails, Reached, BatchesOK, IsSeq, Zero
<1>1. ASSUME d \in Within(tails) PROVE d \in Dots /\ Includes(tails, d)
  <2>1. PICK c \in Clients, n \in Nat : d = <<c, n>> /\ Zero[c] < n /\ n <= tails[c]
    BY <1>1 DEF Within, Span
  <2>2. n \in 1 .. Len(batches[c])
    BY <1>0, <2>1
  <2>3. d \in Dots
    BY <2>1, <2>2, DotIs
  <2>4. tails[c] >= n
    BY <1>0, <2>1
  <2> QED BY <2>1, <2>3, <2>4 DEF Includes
<1>2. ASSUME d \in Dots, Includes(tails, d) PROVE d \in Within(tails)
  <2>1. PICK c \in Clients : \E n \in 1 .. Len(batches[c]) : d = <<c, n>>
    BY <1>2, DotIs
  <2>2. PICK n \in 1 .. Len(batches[c]) : d = <<c, n>>
    BY <2>1
  <2>3. n \in Nat /\ 0 < n /\ n <= tails[c]
    BY <1>0, <1>2, <2>2 DEF Includes
  <2> QED BY <1>0, <2>2, <2>3 DEF Within, Span
<1> QED BY <1>1, <1>2

-----------------------------------------------------------------------------
(* The signed history only grows.                                          *)

BatchesGrow ==
    \A c \in Clients :
       /\ Len(batches[c]) \in Nat /\ Len(batches'[c]) \in Nat
       /\ Len(batches[c]) <= Len(batches'[c])
       /\ \A n \in 1 .. Len(batches[c]) : batches'[c][n] = batches[c][n]

FrontiersGrow ==
    /\ Len(frontiers) \in Nat /\ Len(frontiers') \in Nat /\ Len(frontiers) <= Len(frontiers')
    /\ \A i \in 1 .. Len(frontiers) : frontiers'[i] = frontiers[i]

LEMMA GrownReached ==
    ASSUME BatchesGrow, NEW tails \in Tails, Reached(tails)
    PROVE  Reached(tails)'
BY DEF BatchesGrow, Reached, Tails

LEMMA GrownDots ==
    ASSUME BatchesGrow, NEW d \in Dots
    PROVE  /\ d \in Dots' /\ ItemAt(d)' = ItemAt(d)
           /\ \A c : Enrols(d, c)' = Enrols(d, c) /\ Revokes(d, c)' = Revokes(d, c)
<1>0. PICK c \in Clients : \E n \in 1 .. Len(batches[c]) : d = <<c, n>>
  BY DotIs
<1>1. PICK n \in 1 .. Len(batches[c]) : d = <<c, n>>
  BY <1>0
<1>2. n \in 1 .. Len(batches'[c]) /\ batches'[c][n] = batches[c][n]
  BY DEF BatchesGrow
<1>3. d \in Dots'
  BY <1>1, <1>2 DEF Dots
<1>4. ItemAt(d)' = ItemAt(d)
  BY <1>1, <1>2 DEF ItemAt
<1> QED BY <1>3, <1>4 DEF Enrols, Revokes

\* No batch is added within tails that were reached.
LEMMA GrownWithin ==
    ASSUME BatchesOK, BatchesGrow, NEW tails \in Tails, Reached(tails), NEW d \in Dots',
           Includes(tails, d)
    PROVE  d \in Dots
<1>0. PICK c \in Clients : \E n \in 1 .. Len(batches'[c]) : d = <<c, n>>
  BY DEF Dots
<1>1. PICK n \in 1 .. Len(batches'[c]) : d = <<c, n>>
  BY <1>0
<1>2. tails[c] \in Nat /\ tails[c] <= Len(batches[c]) /\ n <= tails[c]
  BY <1>1 DEF Tails, Reached, Includes, BatchesGrow
<1>3. n \in 1 .. Len(batches[c])
  BY <1>2 DEF BatchesGrow
<1> QED BY <1>1, <1>3, DotIs

LEMMA GrownTrusted ==
    ASSUME BatchesOK, BatchesGrow, NEW base \in Tails, Reached(base), NEW c, Trusted(c, base)
    PROVE  Trusted(c, base)'
<1>1. ASSUME c # Genesis PROVE \E d \in Dots' : Enrols(d, c)' /\ Includes(base, d)
  <2>1. PICK d \in Dots : Enrols(d, c) /\ Includes(base, d)
    BY <1>1 DEF Trusted
  <2> QED BY <2>1, GrownDots
<1>2. ASSUME NEW d \in Dots', Revokes(d, c)', Includes(base, d) PROVE FALSE
  <2>1. d \in Dots
    BY <1>2, GrownWithin
  <2>2. Revokes(d, c)
    BY <1>2, <2>1, GrownDots
  <2> QED BY <1>2, <2>1, <2>2 DEF Trusted
<1> QED BY <1>1, <1>2 DEF Trusted

LEMMA GrownExplains ==
    ASSUME BatchesOK, BatchesGrow, NEW tails \in Tails, Reached(tails), NEW m,
           Explains(m, Within(tails))
    PROVE  Explains(m, Within(tails))'
<1> DEFINE D == Within(tails)
<1>1. \A d \in D : \A c : Enrols(d, c)' = Enrols(d, c) /\ Revokes(d, c)' = Revokes(d, c)
  BY WithinIs, GrownDots
<1>2. D' = D
  BY DEF Within, Span, Zero
<1> HIDE DEF D
<1>3. Explains(m, D)
  BY DEF D
<1>4. \A c \in DOMAIN m :
          /\ c # Genesis => m[c].approved \in D /\ Enrols(m[c].approved, c)'
          /\ m[c].revoked # NoDot => m[c].revoked \in D /\ Revokes(m[c].revoked, c)'
  BY <1>1, <1>3 DEF Explains
<1>5. \A d \in D : \A c \in Clients :
          /\ Enrols(d, c)' => c \in DOMAIN m /\ m[c].approved = d
          /\ Revokes(d, c)' => c \in DOMAIN m /\ m[c].revoked = d
  BY <1>1, <1>3 DEF Explains
<1>6. Genesis \in DOMAIN m /\ m[Genesis].approved = <<Genesis, 1>>
  BY <1>3 DEF Explains
<1>7. Explains(m, D)'
  BY <1>2, <1>4, <1>5, <1>6 DEF Explains
<1> QED BY <1>7 DEF D

LEMMA AppendedSeq ==
    ASSUME NEW s, IsSeq(s), NEW x
    PROVE  /\ IsSeq(Append(s, x)) /\ Len(s) \in Nat /\ Len(Append(s, x)) = Len(s) + 1
           /\ DOMAIN s = 1 .. Len(s) /\ DOMAIN Append(s, x) = 1 .. Len(s) + 1
           /\ \A i \in 1 .. Len(s) : Append(s, x)[i] = s[i]
           /\ Append(s, x)[Len(s) + 1] = x
<1>1. PICK X : s \in Seq(X)
  BY DEF IsSeq
<1>2. s \in Seq(X \cup {x})
  BY <1>1
<1>3. Append(s, x) \in Seq(X \cup {x})
  BY <1>2
<1> QED BY <1>2, <1>3 DEF IsSeq

LEMMA GrownVerifies ==
    ASSUME BatchesOK, BatchesGrow, NEW tails \in Tails, Reached(tails), NEW v, Verifies(v, tails)
    PROVE  Verifies(v, tails)'
<1>1. v.ok => Explains(v.clients, Within(tails))'
  BY GrownExplains DEF Verifies
<1>2. v.ok \in BOOLEAN /\ v.clients \in ClientMaps
  BY DEF Verifies
<1> QED BY <1>1, <1>2 DEF Verifies

\* The frontiers that are there stay in order when batches are added.
LEMMA GrownFrontiers ==
    ASSUME HistoryOK, BatchesGrow, NEW i \in 1 .. Len(frontiers), FrontiersGrow
    PROVE  /\ Reached(frontiers[i].tails)' /\ Verifies(frontiers[i].verified, frontiers[i].tails)'
           /\ OneMore(i)'
<1> DEFINE t == frontiers[i].tails
<1>0. frontiers'[i] = frontiers[i] /\ t \in Tails /\ Reached(t) /\ OneMore(i)
      /\ Verifies(frontiers[i].verified, t) /\ Len(frontiers) \in Nat
  BY DEF FrontiersGrow, HistoryOK, FrontierOrder, FrontiersOK
<1>1. Reached(frontiers[i].tails)'
  <2>1. \A x \in Tails : Reached(x) => Reached(x)'
    BY GrownReached
  <2> QED BY <1>0, <2>1
<1>2. Verifies(frontiers[i].verified, frontiers[i].tails)'
  <2>1. \A x \in Tails : \A v : Reached(x) /\ Verifies(v, x) => Verifies(v, x)'
    BY GrownVerifies DEF HistoryOK
  <2> QED BY <1>0, <2>1
<1>3. OneMore(i)'
  <2> SUFFICES ASSUME NEW p, frontiers'[i].previous = {p}
               PROVE  \E c \in Clients :
                        /\ frontiers'[i].tails[c] # 0
                        /\ \A o \in Clients \ {c} : frontiers'[i].tails[o] = frontiers'[p].tails[o]
                        /\ batches'[c][frontiers'[i].tails[c]].base = frontiers'[p].tails
    BY DEF OneMore
  <2>1. frontiers[i].previous = {p}
    BY <1>0
  <2>2. p \in 1 .. (i - 1)
    BY <2>1 DEF HistoryOK, FrontierOrder
  <2>3. frontiers'[p] = frontiers[p]
    BY <1>0, <2>2 DEF FrontiersGrow
  <2>4. PICK c \in Clients :
           /\ t[c] # 0 /\ \A o \in Clients \ {c} : t[o] = frontiers[p].tails[o]
           /\ batches[c][t[c]].base = frontiers[p].tails
    BY <1>0, <2>1 DEF OneMore
  <2>5. t[c] \in 1 .. Len(batches[c])
    BY <1>0, <2>4 DEF Tails, Reached, BatchesGrow
  <2>6. batches'[c][t[c]] = batches[c][t[c]]
    BY <2>5 DEF BatchesGrow
  <2> QED BY <1>0, <2>3, <2>4, <2>6
<1> QED BY <1>1, <1>2, <1>3

\* A frontier that may be added.
NewFrontier(x) ==
    /\ x.tails \in Tails /\ x.previous \in SUBSET (1 .. Len(frontiers))
    /\ \A p \in x.previous : AtMost(frontiers[p].tails, x.tails)

NewOneMore(x) ==
    \A p : x.previous = {p} =>
      \E c \in Clients : /\ x.tails[c] # 0
                         /\ \A o \in Clients \ {c} : x.tails[o] = frontiers[p].tails[o]
                         /\ batches'[c][x.tails[c]].base = frontiers[p].tails

FrontiersStep ==
    FrontierOrder' /\ FrontiersOK' /\ FrontiersGrow

LEMMA FrontierAdded ==
    ASSUME HistoryOK, BatchesGrow, NEW x, NewFrontier(x), frontiers' = Append(frontiers, x),
           Reached(x.tails)', Verifies(x.verified, x.tails)',
           NewOneMore(x)
    PROVE  /\ FrontiersStep /\ Len(frontiers') = Len(frontiers) + 1
           /\ frontiers'[Len(frontiers) + 1] = x
<1> DEFINE N == Len(frontiers)
<1>1. /\ IsSeq(frontiers') /\ N \in Nat \ {0} /\ Len(frontiers') = N + 1
      /\ \A i \in 1 .. N : frontiers'[i] = frontiers[i]
      /\ frontiers'[N + 1] = x
  BY AppendedSeq DEF HistoryOK, FrontierOrder, FrontiersOK
<1>2. FrontiersGrow
  BY <1>1 DEF FrontiersGrow
<1>3. \A i \in 1 .. N + 1 : i \in 1 .. N \/ i = N + 1
  BY <1>1
<1>4. \A p \in 1 .. N : frontiers'[p].tails = frontiers[p].tails
  BY <1>1
<1>5. FrontierOrder'
  <2> SUFFICES ASSUME NEW i \in 1 .. N + 1
               PROVE  /\ frontiers'[i].tails \in Tails
                      /\ frontiers'[i].previous \in SUBSET (1 .. (i - 1))
                      /\ \A p \in frontiers'[i].previous :
                           AtMost(frontiers'[p].tails, frontiers'[i].tails)
    BY <1>1 DEF FrontierOrder, Tails, AtMost
  <2>1. CASE i \in 1 .. N
    <3>1. /\ frontiers[i].tails \in Tails /\ frontiers[i].previous \in SUBSET (1 .. (i - 1))
          /\ \A p \in frontiers[i].previous : AtMost(frontiers[p].tails, frontiers[i].tails)
      BY <2>1 DEF HistoryOK, FrontierOrder
    <3>2. \A p \in 1 .. (i - 1) : p \in 1 .. N
      BY <1>1, <2>1
    <3>3. frontiers'[i] = frontiers[i]
      BY <1>1, <2>1
    <3> QED BY <1>4, <3>1, <3>2, <3>3
  <2>2. CASE i = N + 1
    <3>1. 1 .. (i - 1) = 1 .. N
      BY <1>1, <2>2
    <3>2. frontiers'[i] = x
      BY <1>1, <2>2
    <3> QED BY <1>4, <3>1, <3>2 DEF NewFrontier
  <2> QED BY <1>3, <2>1, <2>2
<1>6. FrontiersOK'
  <2>1. Len(frontiers') \in Nat \ {0} /\ frontiers'[1].tails = Zero
    <3>1. 1 \in 1 .. N
      BY <1>1
    <3> QED BY <1>1, <1>4, <3>1 DEF HistoryOK, FrontiersOK
  <2>2. ASSUME NEW i \in 1 .. Len(frontiers')
        PROVE  /\ Reached(frontiers[i].tails)'
               /\ Verifies(frontiers[i].verified, frontiers[i].tails)' /\ OneMore(i)'
    <3>1. CASE i \in 1 .. N
      BY <1>2, <3>1, GrownFrontiers
    <3>2. CASE i = N + 1
      <4>1. frontiers'[i] = x
        BY <1>1, <3>2
      <4>2. OneMore(i)'
        <5>1. \A p : x.previous = {p} => frontiers'[p] = frontiers[p]
          BY <1>1 DEF NewFrontier
        <5> SUFFICES ASSUME NEW p, frontiers'[i].previous = {p}
                     PROVE  \E c \in Clients :
                        /\ frontiers'[i].tails[c] # 0
                        /\ \A o \in Clients \ {c} : frontiers'[i].tails[o] = frontiers'[p].tails[o]
                        /\ batches'[c][frontiers'[i].tails[c]].base = frontiers'[p].tails
          BY DEF OneMore
        <5>2. x.previous = {p} /\ frontiers'[p] = frontiers[p]
          BY <4>1, <5>1
        <5>3. PICK c \in Clients :
                 /\ x.tails[c] # 0
                 /\ \A o \in Clients \ {c} : x.tails[o] = frontiers[p].tails[o]
                 /\ batches'[c][x.tails[c]].base = frontiers[p].tails
          BY <5>2 DEF NewOneMore
        <5> QED BY <4>1, <5>2, <5>3
      <4> QED BY <4>1, <4>2
    <3> QED BY <1>1, <1>3, <2>2, <3>1, <3>2
  <2>3. Zero' = Zero
    BY DEF Zero
  <2> QED BY <2>1, <2>2, <2>3 DEF FrontiersOK
<1> QED BY <1>1, <1>2, <1>5, <1>6 DEF FrontiersStep

-----------------------------------------------------------------------------
(* Appends.                                                                *)

\* Who may append is trusted by the history it appends to: the full
\* verification says so, and the shortcut of the initial client rests on the
\* batch that made the frontier.
LEMMA WriterIsTrusted ==
    ASSUME HistoryOK, NEW c \in Clients, heads[c] \in 1 .. Len(frontiers), MayAppend(c)
    PROVE  Trusted(c, frontiers[heads[c]].tails)
<1> DEFINE f == heads[c]
           t == frontiers[f].tails
           v == Verified(f)
<1>0. /\ BatchesOK /\ t \in Tails /\ Reached(t) /\ OneMore(f) /\ Verifies(v, t)
      /\ frontiers[f].previous \in SUBSET (1 .. (f - 1)) /\ f \in 1 .. Len(frontiers)
      /\ \A o \in Clients : Len(batches[o]) \in Nat
  BY DEF HistoryOK, FrontierOrder, FrontiersOK, Verified, BatchesOK, IsSeq
<1>1. CASE v.ok /\ c \in DOMAIN v.clients /\ v.clients[c].revoked = NoDot
  <2>1. Explains(v.clients, Within(t))
    BY <1>0, <1>1 DEF Verifies
  <2>2. ASSUME c # Genesis PROVE \E d \in Dots : Enrols(d, c) /\ Includes(t, d)
    <3>1. v.clients[c].approved \in Within(t) /\ Enrols(v.clients[c].approved, c)
      BY <1>1, <2>1, <2>2 DEF Explains
    <3> HIDE DEF t, v
    <3> QED BY <1>0, <3>1, WithinIs
  <2>3. ASSUME NEW d \in Dots, Revokes(d, c), Includes(t, d) PROVE FALSE
    <3>1. d \in Within(t)
      <4> HIDE DEF t, v
      <4> QED BY <1>0, <2>3, WithinIs
    <3>2. v.clients[c].revoked = d
      BY <2>1, <2>3, <3>1 DEF Explains
    <3>3. d # NoDot
      <4>1. Clients \in SUBSET (Nat \ {0})
        BY RegistryAssumption DEF Clients
      <4> QED BY <3>1, <4>1 DEF Within, Span, NoDot
    <3> QED BY <1>1, <3>2, <3>3
  <2> QED BY <2>2, <2>3 DEF Trusted
<1>2. CASE c = Genesis /\ ~AppendBase(f).merged /\ AppendBase(f).ok
  <2> DEFINE prev == frontiers[f].previous
  <2>1. Cardinality(prev) = 1 /\ \E p \in prev : TailOf(p, Genesis) < TailOf(f, Genesis)
    BY <1>2 DEF AppendBase
  <2>2. IsFiniteSet(prev)
    <3>1. f - 1 \in Int
      BY <1>0
    <3>2. IsFiniteSet(1 .. (f - 1))
      BY <3>1, FS_Interval
    <3> QED BY <1>0, <3>2, FS_Subset
  <2>3. PICK p : prev = {p}
    BY <2>1, <2>2, FS_Singleton
  <2>4. p \in 1 .. (f - 1) /\ p \in 1 .. Len(frontiers) /\ frontiers[p].tails \in Tails
        /\ Reached(frontiers[p].tails)
    BY <1>0, <2>3 DEF HistoryOK, FrontierOrder, FrontiersOK
  <2>5. frontiers[p].tails[Genesis] < t[Genesis]
    BY <2>1, <2>3 DEF TailOf
  <2>6. PICK o \in Clients :
          /\ t[o] # 0 /\ \A x \in Clients \ {o} : t[x] = frontiers[p].tails[x]
          /\ batches[o][t[o]].base = frontiers[p].tails
    BY <1>0, <2>3 DEF OneMore
  <2>7. o = Genesis
    <3>1. t[Genesis] \in Nat /\ frontiers[p].tails[Genesis] \in Nat
      BY <1>0, <1>2, <2>4 DEF Tails
    <3> QED BY <1>2, <2>5, <2>6, <3>1
  <2>8. t[o] \in 1 .. Len(batches[o])
    BY <1>0, <2>6 DEF Tails, Reached
  <2>9. Trusted(Genesis, frontiers[p].tails)
    BY <2>6, <2>7, <2>8 DEF HistoryOK, SignedOK
  <2>10. ASSUME NEW d \in Dots, Revokes(d, Genesis), Includes(t, d) PROVE FALSE
    <3>0. PICK x \in Clients : \E n \in 1 .. Len(batches[x]) : d = <<x, n>>
      BY DotIs
    <3>1. PICK n \in 1 .. Len(batches[x]) : d = <<x, n>>
      BY <3>0
    <3>2. CASE x = Genesis
      <4>1. n \in Nat \ {0} /\ n <= Len(batches[x])
        BY <1>0
      <4> HIDE DEF t, f, v, prev
      <4>2. ~Revokes(<<x, n>>, x)
        BY <1>0, <4>1, BatchIsOK
      <4> QED BY <2>10, <3>1, <3>2, <4>2
    <3>3. CASE x # Genesis
      <4>1. t[x] = frontiers[p].tails[x]
        BY <2>6, <2>7, <3>3
      <4>2. Includes(frontiers[p].tails, d)
        BY <2>10, <3>1, <4>1 DEF Includes
      <4> QED BY <2>9, <2>10, <4>2 DEF Trusted
    <3> QED BY <3>2, <3>3
  <2> QED BY <1>2, <2>10 DEF Trusted
<1> QED BY <1>1, <1>2 DEF MayAppend

\* What an append leaves: the history grows by one batch and one frontier,
\* which HEAD names.
HeadMoves(c, f) ==
    /\ f \in 1 .. Len(frontiers') /\ heads' = [heads EXCEPT ![c] = f]
    /\ AtMost(frontiers[heads[c]].tails, frontiers'[f].tails)

LEMMA AppendKeeps ==
    ASSUME HistoryOK, HeadsOK, NEW c \in Clients, heads[c] # 0, NEW item, GoodItem(c, item),
           NEW token, AppendItem(c, item, token)
    PROVE  /\ HistoryOK' /\ BatchesGrow /\ FrontiersGrow
           /\ HeadMoves(c, Len(frontiers) + 1)
<1> DEFINE f == heads[c]
           t == frontiers[f].tails
           k == Len(batches[c]) + 1
           b == [item |-> item, base |-> t, lease |-> token]
           next == [t EXCEPT ![c] = k]
<1>1. /\ BatchesOK /\ f \in 1 .. Len(frontiers) /\ Len(frontiers) \in Nat
      /\ t \in Tails /\ Reached(t)
      /\ MayAppend(c) /\ batches' = [batches EXCEPT ![c] = Append(batches[c], b)]
      /\ DOMAIN batches = Clients /\ IsSeq(batches[c])
  <2>1. Len(frontiers) \in Nat /\ f \in 1 .. Len(frontiers)
    BY DEF HistoryOK, HeadsOK, FrontiersOK
  <2> QED BY <2>1 DEF HistoryOK, HeadsOK, FrontierOrder, FrontiersOK, AppendItem, BatchesOK
<1>2. PICK new, x :
         /\ new = next /\ x.tails = new /\ x.previous = {f} /\ x.verified = VerifiedTails(new)'
         /\ frontiers' = Append(frontiers, x)
  BY DEF AppendItem, FrontierOf
<1>22. heads' = [heads EXCEPT ![c] = Len(frontiers) + 1]
  BY DEF AppendItem
<1>3. /\ Len(batches[c]) \in Nat /\ k \in Nat \ {0} /\ Len(batches'[c]) = k /\ batches'[c][k] = b
      /\ IsSeq(batches'[c]) /\ DOMAIN batches'[c] = 1 .. k
      /\ \A n \in 1 .. Len(batches[c]) : batches'[c][n] = batches[c][n]
  <2> HIDE DEF b
  <2>1. batches'[c] = Append(batches[c], b)
    BY <1>1
  <2> QED BY <1>1, <2>1, AppendedSeq
<1>4. \A o \in Clients \ {c} : batches'[o] = batches[o]
  BY <1>1
<1>5. BatchesGrow
  <2>1. \A o \in Clients : Len(batches[o]) \in Nat
    BY <1>1 DEF BatchesOK, IsSeq
  <2> QED BY <1>3, <1>4, <2>1 DEF BatchesGrow
<1> HIDE DEF b
<1>6. b.item = item /\ b.base = t
  BY DEF b
<1>7. BatchesOK'
  <2>1. DOMAIN batches' = Clients
    BY <1>1
  <2>2. ASSUME NEW o \in Clients
        PROVE  /\ IsSeq(batches'[o])
               /\ \A n \in DOMAIN batches'[o] : /\ ItemOK(batches'[o][n].item)
                                                /\ ~Revokes(<<o, n>>, o)'
                                                /\ batches'[o][n].base \in Tails
    <3>1. CASE o # c
      <4>1. batches'[o] = batches[o]
        BY <1>4, <3>1
      <4> QED BY <1>1, <4>1 DEF BatchesOK, Revokes, ItemAt
    <3>2. CASE o = c
      <4> SUFFICES ASSUME NEW n \in 1 .. k
                   PROVE  /\ ItemOK(batches'[c][n].item) /\ ~Revokes(<<c, n>>, c)'
                          /\ batches'[c][n].base \in Tails
        BY <1>3, <3>2
      <4>1. CASE n = k
        BY <1>1, <1>3, <1>6, <4>1 DEF GoodItem, Revokes, ItemAt
      <4>2. CASE n # k
        <5>1. n \in 1 .. Len(batches[c])
          BY <1>3, <4>2
        <5>2. n \in DOMAIN batches[c] /\ batches'[c][n] = batches[c][n]
          BY <1>1, <1>3, <5>1 DEF IsSeq
        <5> QED BY <1>1, <5>2 DEF BatchesOK, Revokes, ItemAt
      <4> QED BY <4>1, <4>2
    <3> QED BY <3>1, <3>2
  <2>3. /\ (\A o \in Clients : IsSeq(batches[o]) <=> IsSeq(batches[o]))
        /\ Clients' = Clients /\ Tails' = Tails
    BY DEF Tails, Clients
  <2> QED BY <2>1, <2>2, <2>3 DEF BatchesOK, IsSeq, ItemOK
<1>8. new \in Tails /\ AtMost(t, new) /\ new[c] = k /\ \A o \in Clients \ {c} : new[o] = t[o]
  <2>1. new \in Tails /\ new[c] = k /\ \A o \in Clients \ {c} : new[o] = t[o]
    BY <1>1, <1>2, <1>3 DEF Tails
  <2>2. \A o \in Clients : t[o] \in Nat /\ t[o] <= Len(batches[o])
    BY <1>1 DEF Tails, Reached
  <2>3. t[c] <= k
    BY <1>3, <2>2
  <2> HIDE DEF k
  <2>4. AtMost(t, new)
    BY <2>1, <2>2, <2>3 DEF AtMost
  <2> QED BY <2>1, <2>4
<1>9. Reached(new)'
  <2>1. \A o \in Clients : new[o] <= Len(batches'[o])
    BY <1>1, <1>3, <1>4, <1>8 DEF Reached
  <2> QED BY <2>1 DEF Reached
<1>10. Verifies(VerifiedTails(new), new)'
  <2>1. VerifyFact'
    <3>1. (BatchesOK => VerifyFact)'
      BY VerifyFacts, PTL
    <3> QED BY <1>7, <3>1
  <2>2. \A u \in Tails : Reached(u)' => Verifies(VerifiedTails(u), u)'
    BY <2>1 DEF VerifyFact, Tails
  <2> QED BY <1>8, <1>9, <2>2
<1>11. x.tails = new /\ x.previous = {f} /\ x.verified = VerifiedTails(new)'
  BY <1>2
<1>12. FrontiersStep /\ Len(frontiers') = Len(frontiers) + 1 /\ frontiers'[Len(frontiers) + 1] = x
  <2>1. NewFrontier(x)
    BY <1>1, <1>8, <1>11 DEF NewFrontier
  <2>2. NewOneMore(x)
    <3> SUFFICES ASSUME NEW p, x.previous = {p}
                 PROVE  \E o \in Clients :
                         /\ x.tails[o] # 0
                         /\ \A a \in Clients \ {o} : x.tails[a] = frontiers[p].tails[a]
                         /\ batches'[o][x.tails[o]].base = frontiers[p].tails
      BY DEF NewOneMore
    <3>1. p = f
      BY <1>11
    <3>2. /\ x.tails[c] # 0 /\ \A a \in Clients \ {c} : x.tails[a] = frontiers[p].tails[a]
          /\ batches'[c][x.tails[c]].base = frontiers[p].tails
      BY <1>3, <1>6, <1>8, <1>11, <3>1
    <3> QED BY <3>2
  <2>3. Reached(x.tails)' /\ Verifies(x.verified, x.tails)'
    BY <1>9, <1>10, <1>11
  <2> QED BY <1>2, <1>5, <2>1, <2>2, <2>3, FrontierAdded
<1>13. SignedOK'
  <2> SUFFICES ASSUME NEW o \in Clients, NEW n \in 1 .. Len(batches'[o])
               PROVE  Reached(batches[o][n].base)' /\ Trusted(o, batches[o][n].base)'
    BY DEF SignedOK
  <2>0. \A a \in Tails : \A w : Reached(a) /\ Trusted(w, a) => Reached(a)' /\ Trusted(w, a)'
    BY <1>1, <1>5, GrownReached, GrownTrusted
  <2>1. CASE o = c /\ n = k
    <3>1. Trusted(c, t)
      BY <1>1, WriterIsTrusted
    <3>2. batches'[o][n].base = t
      BY <1>3, <1>6, <2>1
    <3> QED BY <1>1, <2>0, <2>1, <3>1, <3>2
  <2>2. CASE ~(o = c /\ n = k)
    <3>1. n \in 1 .. Len(batches[o]) /\ batches'[o][n] = batches[o][n]
      BY <1>3, <1>4, <2>2
    <3>2. n \in DOMAIN batches[o]
      BY <1>1, <3>1 DEF BatchesOK, IsSeq
    <3>3. batches[o][n].base \in Tails /\ Reached(batches[o][n].base)
          /\ Trusted(o, batches[o][n].base)
      BY <1>1, <3>1, <3>2 DEF BatchesOK, HistoryOK, SignedOK
    <3> QED BY <2>0, <3>1, <3>3
  <2> QED BY <2>1, <2>2
<1>14. HeadMoves(c, Len(frontiers) + 1)
  BY <1>1, <1>22, <1>8, <1>11, <1>12 DEF HeadMoves
<1> QED BY <1>5, <1>7, <1>12, <1>13, <1>14 DEF HistoryOK, FrontiersStep

-----------------------------------------------------------------------------
(* Synchronisation and replay.                                             *)

LEMMA SameBatches ==
    ASSUME HistoryOK, batches' = batches
    PROVE  BatchesGrow /\ BatchesOK' /\ SignedOK'
<1>1. BatchesGrow
  BY DEF HistoryOK, BatchesOK, IsSeq, BatchesGrow
<1>2. BatchesOK'
  BY DEF HistoryOK, BatchesOK, Revokes, ItemAt
<1>3. SignedOK'
  <2> SUFFICES ASSUME NEW c \in Clients, NEW n \in 1 .. Len(batches[c])
               PROVE  Reached(batches[c][n].base)' /\ Trusted(c, batches[c][n].base)'
    BY DEF SignedOK
  <2>1. \A a \in Tails : \A w : Reached(a) /\ Trusted(w, a) => Reached(a)' /\ Trusted(w, a)'
    BY <1>1, GrownReached, GrownTrusted DEF HistoryOK
  <2>2. n \in DOMAIN batches[c]
    BY DEF HistoryOK, BatchesOK, IsSeq
  <2>3. batches[c][n].base \in Tails /\ Reached(batches[c][n].base)
        /\ Trusted(c, batches[c][n].base)
    BY <2>2 DEF HistoryOK, BatchesOK, SignedOK
  <2>4. batches'[c][n].base = batches[c][n].base
    OBVIOUS
  <2> QED BY <2>1, <2>3, <2>4
<1> QED BY <1>1, <1>2, <1>3

LEMMA SameFrontiers ==
    ASSUME HistoryOK, batches' = batches, frontiers' = frontiers
    PROVE  HistoryOK' /\ FrontiersGrow /\ BatchesGrow
<1>1. BatchesGrow /\ BatchesOK' /\ SignedOK'
  BY SameBatches
<1>2. FrontiersGrow
  BY DEF HistoryOK, FrontiersOK, FrontiersGrow
<1>3. FrontierOrder'
  BY DEF HistoryOK, FrontierOrder
<1>4. FrontiersOK'
  <2>1. \A i \in 1 .. Len(frontiers) :
           /\ Reached(frontiers[i].tails)'
           /\ Verifies(frontiers[i].verified, frontiers[i].tails)' /\ OneMore(i)'
    BY <1>1, <1>2, GrownFrontiers
  <2>2. Zero' = Zero
    BY DEF Zero
  <2> QED BY <2>1, <2>2 DEF HistoryOK, FrontiersOK
<1> QED BY <1>1, <1>2, <1>3, <1>4 DEF HistoryOK

RemoteOK == remote \in 1 .. Len(frontiers) /\ Verified(remote).ok

LEMMA AdoptKeeps ==
    ASSUME HistoryOK, HeadsOK, NEW c \in Clients, heads[c] # 0, batches' = batches,
           \E s \in {Synced(c)} : Adopt(c, s)
    PROVE  /\ HistoryOK' /\ BatchesGrow /\ FrontiersGrow /\ RemoteOK'
           /\ \E f : HeadMoves(c, f)
<1> DEFINE mine == heads[c]
           N == Len(frontiers)
           t == UnionTails(mine, remote)
<1>0. /\ mine \in 1 .. N /\ remote \in 1 .. N /\ N \in Nat /\ Verified(remote).ok
      /\ BatchesOK /\ FrontierOrder
      /\ \A i \in 1 .. N : frontiers[i].tails \in Tails /\ Reached(frontiers[i].tails)
  BY DEF HistoryOK, HeadsOK, FrontiersOK, FrontierOrder
<1>1. BatchesGrow /\ BatchesOK' /\ SignedOK'
  BY SameBatches
<1>2. CASE frontiers' = frontiers /\ heads' = [heads EXCEPT ![c] = mine] /\ remote' = remote
  <2>1. HistoryOK' /\ FrontiersGrow
    BY <1>2, SameFrontiers
  <2>2. AtMost(frontiers[mine].tails, frontiers[mine].tails)
    BY <1>0 DEF AtMost, Tails
  <2>3. HeadMoves(c, mine)
    BY <1>0, <1>2, <2>2 DEF HeadMoves, AtMost
  <2>4. RemoteOK'
    BY <1>0, <1>2 DEF RemoteOK, Verified
  <2> QED BY <1>1, <2>1, <2>3, <2>4
<1>3. CASE /\ frontiers' = frontiers /\ heads' = [heads EXCEPT ![c] = remote]
           /\ remote' = remote /\ mine \in Ancestors(remote)
  <2>1. HistoryOK' /\ FrontiersGrow
    BY <1>3, SameFrontiers
  <2>2. AtMost(frontiers[mine].tails, frontiers[remote].tails)
    BY <1>0, <1>3, AncestorsAreBefore
  <2>3. HeadMoves(c, remote)
    BY <1>0, <1>3, <2>2 DEF HeadMoves, AtMost
  <2>4. RemoteOK'
    BY <1>0, <1>3 DEF RemoteOK, Verified
  <2> QED BY <1>1, <2>1, <2>3, <2>4
<1>4. CASE /\ frontiers' = frontiers /\ heads' = [heads EXCEPT ![c] = mine]
           /\ remote' = mine /\ Verified(mine).ok
  <2>1. HistoryOK' /\ FrontiersGrow
    BY <1>4, SameFrontiers
  <2>2. AtMost(frontiers[mine].tails, frontiers[mine].tails)
    BY <1>0 DEF AtMost, Tails
  <2>3. HeadMoves(c, mine)
    BY <1>0, <1>4, <2>2 DEF HeadMoves, AtMost
  <2>4. RemoteOK'
    BY <1>0, <1>4 DEF RemoteOK, Verified
  <2> QED BY <1>1, <2>1, <2>3, <2>4
<1>5. ASSUME NEW x, mine # remote, frontiers' = Append(frontiers, x),
             heads' = [heads EXCEPT ![c] = N + 1], remote' = N + 1,
             x = FrontierOf(t, {mine, remote}), x.verified.ok
      PROVE  HistoryOK' /\ FrontiersGrow /\ RemoteOK' /\ HeadMoves(c, N + 1)
  <2>1. x.tails = t /\ x.previous = {mine, remote} /\ x.verified = VerifiedTails(t)
    BY <1>5 DEF FrontierOf
  <2>2. \A o \in Clients :
           /\ frontiers[mine].tails[o] \in Nat /\ frontiers[remote].tails[o] \in Nat
           /\ frontiers[mine].tails[o] <= Len(batches[o])
           /\ frontiers[remote].tails[o] <= Len(batches[o]) /\ Len(batches[o]) \in Nat
    BY <1>0, <1>1 DEF Tails, Reached, BatchesGrow
  <2>3. /\ t \in Tails /\ Reached(t) /\ AtMost(frontiers[mine].tails, t)
        /\ AtMost(frontiers[remote].tails, t)
    <3>1. \A o \in Clients : /\ t[o] \in {frontiers[mine].tails[o], frontiers[remote].tails[o]}
                             /\ frontiers[mine].tails[o] <= t[o]
                             /\ frontiers[remote].tails[o] <= t[o]
      BY <2>2 DEF UnionTails, TailOf
    <3>2. t \in Tails
      BY <2>2 DEF UnionTails, TailOf, Tails
    <3> HIDE DEF t
    <3> QED BY <2>2, <3>1, <3>2 DEF Reached, AtMost
  <2>4. Verifies(x.verified, t)
    <3> HIDE DEF t
    <3> QED BY <1>0, <2>1, <2>3, VerifiedTailsGood
  <2>5. PICK u : u = t
    OBVIOUS
  <2> HIDE DEF t
  <2>6. Reached(u)' /\ Verifies(x.verified, u)' /\ x.tails = u
    BY <1>0, <1>1, <2>1, <2>3, <2>4, <2>5, GrownReached, GrownVerifies
  <2>7. Reached(x.tails)' /\ Verifies(x.verified, x.tails)'
    BY <2>6
  <2>8. NewFrontier(x)
    BY <1>0, <2>1, <2>3 DEF NewFrontier
  <2>9. NewOneMore(x)
    BY <1>5, <2>1 DEF NewOneMore
  <2>10. FrontiersStep /\ Len(frontiers') = N + 1 /\ frontiers'[N + 1] = x
    BY <1>1, <1>5, <2>7, <2>8, <2>9, FrontierAdded
  <2>11. HistoryOK' /\ FrontiersGrow
    BY <1>1, <2>10 DEF HistoryOK, FrontiersStep
  <2>12. HeadMoves(c, N + 1)
    BY <1>0, <1>5, <2>1, <2>3, <2>10 DEF HeadMoves
  <2>13. RemoteOK'
    BY <1>0, <1>5, <2>10 DEF RemoteOK, Verified
  <2> QED BY <2>11, <2>12, <2>13
<1>6. PICK s : s = Synced(c) /\ Adopt(c, s)
  OBVIOUS
<1>7. s.ok /\ heads' = [heads EXCEPT ![c] = s.head] /\ remote' = s.remote
      /\ frontiers' = s.frontiers
  BY <1>6 DEF Adopt
<1> DEFINE union == FrontierOf(t, {mine, remote})
<1> HIDE DEF union, t
<1>8. \/ s.head = mine /\ s.remote = remote /\ s.frontiers = frontiers
      \/ s.head = remote /\ s.remote = remote /\ s.frontiers = frontiers /\ mine \in Ancestors(remote)
      \/ s.head = mine /\ s.remote = mine /\ s.frontiers = frontiers /\ Verified(mine).ok
      \/ /\ s.head = N + 1 /\ s.remote = N + 1 /\ s.frontiers = Append(frontiers, union)
         /\ union.verified.ok /\ mine # remote
  <2>1. CASE mine = remote
    BY <1>6, <2>1 DEF Synced
  <2>2. CASE mine # remote /\ mine \in Ancestors(remote)
    <3>1. s = [[ok |-> Verified(mine).ok /\ Verified(remote).ok, head |-> mine, remote |-> remote,
                frontiers |-> frontiers] EXCEPT !.head = remote]
      <4>1. remote \notin Ancestors(mine)
        <5> SUFFICES ASSUME remote \in Ancestors(mine) PROVE FALSE
          OBVIOUS
        <5>1. remote \in 1 .. mine /\ mine \in 1 .. remote
          BY <1>0, <2>2, AncestorsAreBefore
        <5> QED BY <1>0, <2>2, <5>1
      <4> QED BY <1>6, <2>2, <4>1 DEF Synced
    <3> QED BY <2>2, <3>1
  <2>3. CASE mine # remote /\ mine \notin Ancestors(remote) /\ remote \in Ancestors(mine)
    <3>1. s = [[ok |-> Verified(mine).ok /\ Verified(remote).ok, head |-> mine, remote |-> remote,
                frontiers |-> frontiers] EXCEPT !.ok = @ /\ Publishable(c), !.remote = mine]
      BY <1>6, <2>3 DEF Synced
    <3> QED BY <1>7, <2>3, <3>1
  <2>4. CASE mine # remote /\ mine \notin Ancestors(remote) /\ remote \notin Ancestors(mine)
    <3>1. s = [ok |-> Verified(mine).ok /\ Verified(remote).ok /\ Publishable(c) /\ union.verified.ok,
               head |-> N + 1, remote |-> N + 1, frontiers |-> Append(frontiers, union)]
      BY <1>6, <2>4 DEF Synced, union, t
    <3> QED BY <1>7, <2>4, <3>1
  <2> QED BY <2>1, <2>2, <2>3, <2>4
<1>9. CASE /\ s.head = N + 1 /\ s.remote = N + 1 /\ s.frontiers = Append(frontiers, union)
           /\ union.verified.ok /\ mine # remote
  <2>1. PICK x : x = union
    OBVIOUS
  <2>2. HistoryOK' /\ FrontiersGrow /\ RemoteOK' /\ HeadMoves(c, N + 1)
    BY <1>5, <1>7, <1>9, <2>1 DEF union
  <2> QED BY <1>1, <2>2
<1> QED BY <1>2, <1>3, <1>4, <1>7, <1>8, <1>9

\* A replay that was possible still is when HEAD has moved on.
LEMMA ReplayFrame ==
    ASSUME HistoryOK, HistoryOK', BatchesGrow, FrontiersGrow, NEW d, NEW f \in 1 .. Len(frontiers),
           NEW h \in 1 .. Len(frontiers'), AtMost(frontiers[f].tails, frontiers'[h].tails),
           MayReplay(d, f)
    PROVE  MayReplay(d, h)'
<1> DEFINE a == d.applied
           from == frontiers[a].tails
           to == frontiers[f].tails
<1>1. /\ IsDb(d) /\ d.ok /\ a \in 1 .. Len(frontiers) /\ from \in Tails /\ to \in Tails
      /\ AtMost(from, to) /\ Explains(d.clients, Within(from))
  BY DEF MayReplay
<1>2. /\ frontiers'[a] = frontiers[a] /\ a \in 1 .. Len(frontiers')
      /\ frontiers'[h].tails \in Tails /\ Reached(frontiers[h].tails)'
      /\ Reached(from)
  <2>1. frontiers'[a] = frontiers[a] /\ a \in 1 .. Len(frontiers')
    BY <1>1 DEF FrontiersGrow
  <2>2. Reached(from)
    BY <1>1 DEF HistoryOK, FrontiersOK
  <2>3. Tails' = Tails
    BY DEF Tails
  <2>4. frontiers'[h].tails \in Tails /\ Reached(frontiers[h].tails)'
    BY <2>3 DEF HistoryOK, FrontiersOK, FrontierOrder
  <2> QED BY <2>1, <2>2, <2>4
<1>3. AtMost(from, frontiers'[h].tails)
  <2>1. \A o \in Clients : from[o] \in Nat /\ to[o] \in Nat /\ frontiers'[h].tails[o] \in Nat
    BY <1>1, <1>2 DEF Tails
  <2> QED BY <1>1, <2>1 DEF AtMost
<1>4. \A m : \A x \in Tails : Reached(x) /\ Explains(m, Within(x)) => Explains(m, Within(x))'
  BY GrownExplains DEF HistoryOK
<1>5. Explains(d.clients, Within(frontiers[a].tails))'
  <2>1. PICK x : x = from
    OBVIOUS
  <2>2. Explains(d.clients, Within(x))'
    BY <1>1, <1>2, <1>4, <2>1
  <2>3. frontiers'[a].tails = x
    BY <1>2, <2>1
  <2> QED BY <2>2, <2>3
<1>6. /\ AtMost(frontiers[a].tails, frontiers[h].tails)' /\ (frontiers[a].tails \in Tails)'
      /\ (frontiers[h].tails \in Tails)' /\ IsDb(d)'
  BY <1>1, <1>2, <1>3 DEF AtMost, Tails, IsDb
<1> QED BY <1>1, <1>2, <1>5, <1>6 DEF MayReplay

\* What a step of the history does to the replays that were possible.
ReplaysStay ==
    \A o \in Clients : heads[o] # 0 => \A d : MayReplay(d, heads[o]) => MayReplay(d, heads[o])'

HeadsStay == \A o \in Clients : heads'[o] # 0 <=> heads[o] # 0

LEMMA HeadMoved ==
    ASSUME HistoryOK, HeadsOK, HistoryOK', BatchesGrow, FrontiersGrow, RemoteOK',
           NEW c \in Clients, heads[c] # 0, NEW f, HeadMoves(c, f)
    PROVE  HeadsOK' /\ ReplaysStay /\ HeadsStay
<1>1. /\ Len(frontiers) \in Nat /\ Len(frontiers') \in Nat /\ Len(frontiers) <= Len(frontiers')
      /\ heads \in [Clients -> 0 .. Len(frontiers)] /\ f \in 1 .. Len(frontiers')
      /\ heads' = [heads EXCEPT ![c] = f]
      /\ AtMost(frontiers[heads[c]].tails, frontiers'[f].tails)
  BY DEF HeadsOK, HeadMoves, FrontiersGrow
<1>2. heads' \in [Clients -> 0 .. Len(frontiers')]
  BY <1>1
<1>3. \A o \in Clients : heads'[o] = IF o = c THEN f ELSE heads[o]
  BY <1>1
<1>4. HeadsStay
  BY <1>1, <1>3 DEF HeadsStay
<1>5. ReplaysStay
  <2> SUFFICES ASSUME NEW o \in Clients, heads[o] # 0, NEW d, MayReplay(d, heads[o])
               PROVE  MayReplay(d, heads[o])'
    BY DEF ReplaysStay
  <2>1. heads[o] \in 1 .. Len(frontiers) /\ heads'[o] \in 1 .. Len(frontiers')
    BY <1>1, <1>2, <1>3
  <2>2. AtMost(frontiers[heads[o]].tails, frontiers'[heads'[o]].tails)
    <3>1. CASE o = c
      BY <1>1, <1>3, <3>1
    <3>2. CASE o # c
      <4>1. frontiers'[heads[o]].tails = frontiers[heads[o]].tails /\ heads'[o] = heads[o]
        BY <1>3, <2>1, <3>2 DEF FrontiersGrow
      <4>2. frontiers[heads[o]].tails \in Tails
        BY <2>1 DEF HistoryOK, FrontierOrder
      <4> QED BY <4>1, <4>2 DEF AtMost, Tails
    <3> QED BY <3>1, <3>2
  <2>3. PICK g, h : g = heads[o] /\ h = heads'[o]
    OBVIOUS
  <2>4. MayReplay(d, h)'
    BY <2>1, <2>2, <2>3, ReplayFrame
  <2> QED BY <2>3, <2>4
<1>6. HeadsOK'
  BY <1>2 DEF HeadsOK, RemoteOK
<1> QED BY <1>4, <1>5, <1>6

LEMMA DbKept ==
    ASSUME DbOK, ReplaysStay, HeadsStay, UNCHANGED db
    PROVE  DbOK'
<1>1. ASSUME NEW o \in Clients, heads'[o] # 0 PROVE MayReplay(db[o], heads[o])'
  <2>1. heads[o] # 0
    BY <1>1 DEF HeadsStay
  <2>2. MayReplay(db[o], heads[o])
    BY <2>1 DEF DbOK
  <2> QED BY <2>1, <2>2 DEF ReplaysStay
<1> QED BY <1>1 DEF DbOK

\* The facts about one state hold of the next.
LEMMA NextFacts ==
    ASSUME HistoryOK'
    PROVE  ReplayFact' /\ AgainFact'
<1>1. (BatchesOK => ReplayFact)'
  BY ReplayFacts, PTL
<1>2. (FrontierOrder /\ FrontiersOK => AgainFact)'
  BY AgainFacts, PTL
<1> QED BY <1>1, <1>2 DEF HistoryOK

\* A database that was replayed to HEAD can be replayed from there.
LEMMA DbReplaced ==
    ASSUME DbOK, ReplaysStay, HeadsStay, HeadsOK', HistoryOK', NEW c \in Clients, heads[c] # 0,
           NEW d, MayReplay(d, heads[c])', db' = [db EXCEPT ![c] = d]
    PROVE  DbOK'
<1>0. DOMAIN db' = Clients /\ \A o \in Clients : db'[o] = IF o = c THEN d ELSE db[o]
  BY DEF DbOK
<1>1. ASSUME NEW o \in Clients, heads'[o] # 0 PROVE MayReplay(db[o], heads[o])'
  <2>1. CASE o = c
    BY <1>0, <2>1
  <2>2. CASE o # c
    <3>1. heads[o] # 0
      BY <1>1 DEF HeadsStay
    <3>2. MayReplay(db[o], heads[o])
      BY <3>1 DEF DbOK
    <3> QED BY <1>0, <2>2, <3>1, <3>2 DEF ReplaysStay
  <2> QED BY <2>1, <2>2
<1> QED BY <1>0, <1>1 DEF DbOK

\* What a replay that nothing refused gives can be replayed further.
LEMMA ReplayedOn ==
    ASSUME HistoryOK', HeadsOK', NEW c \in Clients, heads'[c] # 0,
           NEW d, MayReplay(d, heads[c])', Applied(d, heads[c])'.ok
    PROVE  MayReplay(Applied(d, heads[c]), heads[c])'
<1>1. GoodReplay(Applied(d, heads[c]), heads[c])'
  BY NextFacts DEF ReplayFact
<1>2. heads'[c] \in 1 .. Len(frontiers')
  BY DEF HeadsOK
<1> QED BY <1>1, <1>2, NextFacts DEF AgainFact

LEMMA DbReplayed ==
    ASSUME DbOK, ReplaysStay, HeadsStay, HeadsOK', HistoryOK', NEW c \in Clients, heads[c] # 0,
           Replay(c)
    PROVE  DbOK'
<1>1. PICK old, new : /\ old = db[c] /\ new = Applied(old, heads[c])'
                      /\ db' = [db EXCEPT ![c] = IF new.ok THEN new ELSE old]
  BY DEF Replay
<1>2. MayReplay(old, heads[c])'
  BY <1>1 DEF DbOK, ReplaysStay
<1>3. heads'[c] # 0
  BY DEF HeadsStay
<1>4. CASE new.ok
  <2>1. MayReplay(new, heads[c])'
    BY <1>1, <1>2, <1>3, <1>4, ReplayedOn
  <2>2. db' = [db EXCEPT ![c] = new]
    BY <1>1, <1>4
  <2> QED BY <2>1, <2>2, DbReplaced
<1>5. CASE ~new.ok
  <2>1. db' = [db EXCEPT ![c] = old]
    BY <1>1, <1>5
  <2> QED BY <1>2, <2>1, DbReplaced
<1> QED BY <1>4, <1>5

LEMMA WorkKept ==
    ASSUME WorkOK, HeadsStay, UNCHANGED work
    PROVE  WorkOK'
BY DEF WorkOK, HeadsStay, GoodItem

LEMMA WorkReplaced ==
    ASSUME WorkOK, HeadsStay, NEW c \in Clients, heads[c] # 0, NEW w,
           work' = [work EXCEPT ![c] = w], DOMAIN w = {"step", "item", "token"},
           GoodItem(c, w.item)
    PROVE  WorkOK'
BY DEF WorkOK, HeadsStay, GoodItem

LEMMA WorkFinished ==
    ASSUME WorkOK, HeadsStay, NEW c \in Clients, heads[c] # 0, Finish(c)
    PROVE  WorkOK'
<1> DEFINE w == Idle
<1>1. DOMAIN w = {"step", "item", "token"} /\ GoodItem(c, w.item)
  BY DEF Idle, GoodItem, ItemOK
<1>2. work' = [work EXCEPT ![c] = w]
  BY DEF Finish
<1> HIDE DEF w
<1> QED BY <1>1, <1>2, WorkReplaced

LEMMA WorkGoes ==
    ASSUME WorkOK, HeadsStay, NEW c \in Clients, heads[c] # 0, NEW step, Goto(c, step)
    PROVE  WorkOK'
<1> DEFINE w == [work[c] EXCEPT !.step = step]
<1>1. DOMAIN w = {"step", "item", "token"} /\ w.item = work[c].item
  BY DEF WorkOK
<1>2. work' = [work EXCEPT ![c] = w]
  BY DEF Goto
<1>3. GoodItem(c, w.item)
  BY <1>1 DEF WorkOK
<1> HIDE DEF w
<1> QED BY <1>1, <1>2, <1>3, WorkReplaced

-----------------------------------------------------------------------------
(* Every command keeps the invariant.                                      *)

Moved == HistoryOK' /\ HeadsOK' /\ ReplaysStay /\ HeadsStay

LEMMA AppendMoves ==
    ASSUME SharedInv, NEW c \in Clients, heads[c] # 0, NEW item, GoodItem(c, item),
           NEW token, AppendItem(c, item, token), remote' = remote
    PROVE  Moved
<1>1. /\ HistoryOK' /\ BatchesGrow /\ FrontiersGrow /\ HeadMoves(c, Len(frontiers) + 1)
  BY AppendKeeps DEF SharedInv
<1>2. RemoteOK'
  BY <1>1 DEF SharedInv, HeadsOK, FrontiersGrow, RemoteOK, Verified
<1> DEFINE f == Len(frontiers) + 1
<1>3. HeadMoves(c, f)
  BY <1>1
<1> HIDE DEF f
<1> QED BY <1>1, <1>2, <1>3, HeadMoved DEF SharedInv, Moved

LEMMA AdoptMoves ==
    ASSUME SharedInv, NEW c \in Clients, heads[c] # 0, batches' = batches,
           \E s \in {Synced(c)} : Adopt(c, s)
    PROVE  Moved
<1>1. /\ HistoryOK' /\ BatchesGrow /\ FrontiersGrow /\ RemoteOK' /\ \E f : HeadMoves(c, f)
  BY AdoptKeeps DEF SharedInv
<1>2. PICK f : HeadMoves(c, f)
  BY <1>1
<1> QED BY <1>1, <1>2, HeadMoved DEF SharedInv, Moved

LEMMA NothingMoves ==
    ASSUME SharedInv, UNCHANGED <<batches, frontiers, heads, remote>>
    PROVE  Moved
<1>0. batches' = batches /\ frontiers' = frontiers /\ heads' = heads /\ remote' = remote
  OBVIOUS
<1>1. HistoryOK' /\ FrontiersGrow /\ BatchesGrow
  BY <1>0, SameFrontiers DEF SharedInv
<1>2. RemoteOK'
  BY <1>0 DEF SharedInv, HeadsOK, RemoteOK, Verified
<1>3. HeadsStay
  BY <1>0 DEF HeadsStay
<1>4. HeadsOK'
  BY <1>0, <1>2 DEF SharedInv, HeadsOK, RemoteOK
<1>5. ReplaysStay
  <2> SUFFICES ASSUME NEW o \in Clients, heads[o] # 0, NEW d, MayReplay(d, heads[o])
               PROVE  MayReplay(d, heads[o])'
    BY DEF ReplaysStay
  <2>1. PICK h : h = heads[o]
    OBVIOUS
  <2>2. h \in 1 .. Len(frontiers) /\ h \in 1 .. Len(frontiers') /\ frontiers[h].tails \in Tails
    BY <1>0, <2>1 DEF SharedInv, HistoryOK, HeadsOK, FrontiersOK, FrontierOrder
  <2>3. AtMost(frontiers[h].tails, frontiers'[h].tails)
    BY <1>0, <2>2 DEF AtMost, Tails
  <2>4. MayReplay(d, h)'
    BY <1>1, <2>1, <2>2, <2>3, ReplayFrame DEF SharedInv
  <2> QED BY <1>0, <2>1, <2>4
<1> QED BY <1>1, <1>3, <1>4, <1>5 DEF Moved

\* An append, then a replay unless the batch is refused.
LEMMA AppendReplays ==
    ASSUME SharedInv, NEW c \in Clients, heads[c] # 0, Moved,
           IF AppendAccepted(c) THEN Replay(c) ELSE UNCHANGED db, UNCHANGED work
    PROVE  SharedInv'
<1>1. DbOK'
  <2>1. CASE Replay(c)
    BY <2>1, DbReplayed DEF SharedInv, Moved
  <2>2. CASE UNCHANGED db
    BY <2>2, DbKept DEF SharedInv, Moved
  <2> QED BY <2>1, <2>2
<1>2. WorkOK'
  BY WorkKept DEF SharedInv, Moved
<1> QED BY <1>1, <1>2 DEF SharedInv, Moved

LEMMA ChangeIsGood ==
    ASSUME NEW d, NEW item \in Changes(d), NEW c
    PROVE  GoodItem(c, item)
<1>1. item.kind \in {"site", "device"}
  BY DEF Changes
<1> QED BY <1>1 DEF GoodItem, ItemOK

LEMMA RecordAloneKeeps ==
    ASSUME SharedInv, NEW c \in Clients, RecordAlone(c)
    PROVE  SharedInv'
<1>1. heads[c] # 0 /\ remote' = remote /\ UNCHANGED work
      /\ IF AppendAccepted(c) THEN Replay(c) ELSE UNCHANGED db
  BY DEF RecordAlone, Ready
<1>2. PICK item \in Changes(db[c]) : AppendItem(c, item, 0)
  BY DEF RecordAlone
<1>3. GoodItem(c, item)
  BY ChangeIsGood
<1>4. Moved
  BY <1>1, <1>2, <1>3, AppendMoves
<1> QED BY <1>1, <1>4, AppendReplays

LEMMA ApproveAloneKeeps ==
    ASSUME SharedInv, NEW c \in Clients, NEW n \in Clients, ApproveAlone(c, n)
    PROVE  SharedInv'
<1> DEFINE item == [kind |-> "client_enrolled", id |-> n]
<1>1. heads[c] # 0 /\ remote' = remote /\ UNCHANGED work /\ AppendItem(c, item, 0)
      /\ IF AppendAccepted(c) THEN Replay(c) ELSE UNCHANGED db
  BY DEF ApproveAlone, Ready
<1>2. GoodItem(c, item)
  BY DEF GoodItem, ItemOK
<1> HIDE DEF item
<1>3. Moved
  BY <1>1, <1>2, AppendMoves
<1> QED BY <1>1, <1>3, AppendReplays

LEMMA ObserveKeeps ==
    ASSUME SharedInv, NEW c \in Clients, Observe(c)
    PROVE  SharedInv'
<1> DEFINE item == [kind |-> "observed"]
<1>1. heads[c] # 0 /\ remote' = remote /\ UNCHANGED work /\ AppendItem(c, item, 0)
      /\ IF AppendAccepted(c) THEN Replay(c) ELSE UNCHANGED db
  BY DEF Observe, Ready
<1>2. GoodItem(c, item)
  BY DEF GoodItem, ItemOK
<1> HIDE DEF item
<1>3. Moved
  BY <1>1, <1>2, AppendMoves
<1> QED BY <1>1, <1>3, AppendReplays

LEMMA AppendLeasedKeeps ==
    ASSUME SharedInv, NEW c \in Clients, AppendLeased(c)
    PROVE  SharedInv'
<1>1. /\ work[c].step = "leased" /\ AppendItem(c, work[c].item, work[c].token)
      /\ remote' = remote /\ UNCHANGED db
      /\ IF AppendAccepted(c) THEN Goto(c, "appended") ELSE Finish(c)
  BY DEF AppendLeased
<1>2. heads[c] # 0 /\ GoodItem(c, work[c].item)
  BY <1>1 DEF SharedInv, WorkOK
<1>3. PICK item, token : item = work[c].item /\ token = work[c].token
  OBVIOUS
<1>4. AppendItem(c, item, token)
  BY <1>1, <1>3
<1>5. Moved
  BY <1>1, <1>2, <1>3, <1>4, AppendMoves
<1>6. DbOK'
  BY <1>1, <1>5, DbKept DEF SharedInv, Moved
<1>7. WorkOK'
  <2>1. CASE Goto(c, "appended")
    BY <1>2, <1>5, <2>1, WorkGoes DEF SharedInv, Moved
  <2>2. CASE Finish(c)
    BY <1>2, <1>5, <2>2, WorkFinished DEF SharedInv, Moved
  <2> QED BY <1>1, <2>1, <2>2
<1> QED BY <1>5, <1>6, <1>7 DEF SharedInv, Moved

LEMMA PreparedKeeps ==
    ASSUME SharedInv, NEW c \in Clients, heads[c] # 0, NEW item, GoodItem(c, item),
           batches' = batches, UNCHANGED db, Prepared(c, item)
    PROVE  SharedInv'
<1>1. Moved
  BY AdoptMoves DEF Prepared
<1>2. DbOK'
  BY <1>1, DbKept DEF SharedInv, Moved
<1>3. WorkOK'
  <2> DEFINE w == [step |-> "checked", item |-> item, token |-> 0]
  <2>1. DOMAIN w = {"step", "item", "token"} /\ w.item = item
    OBVIOUS
  <2>2. work' = [work EXCEPT ![c] = w]
    BY DEF Prepared
  <2> HIDE DEF w
  <2> QED BY <1>1, <2>1, <2>2, WorkReplaced DEF SharedInv, Moved
<1> QED BY <1>1, <1>2, <1>3 DEF SharedInv, Moved

LEMMA CoordinatedKeeps ==
    ASSUME SharedInv, NEW c \in Clients, Coordinated(c)
    PROVE  SharedInv'
<1>1. CASE Prepare(c)
  <2>1. heads[c] # 0 /\ GoodItem(c, work[c].item)
    BY <1>1 DEF Prepare, SharedInv, WorkOK
  <2>2. PICK item : item = work[c].item
    OBVIOUS
  <2>3. batches' = batches /\ UNCHANGED db /\ Prepared(c, item)
    BY <1>1, <2>2 DEF Prepare
  <2> QED BY <2>1, <2>2, <2>3, PreparedKeeps
<1>2. CASE Acquire(c)
  <2>1. /\ UNCHANGED <<batches, frontiers, heads, remote, db>> /\ work[c].step = "checked"
        /\ work' = [work EXCEPT ![c].step = "leased", ![c].token = lease.token + 1]
    BY <1>2 DEF Acquire
  <2>2. Moved
    BY <2>1, NothingMoves
  <2>3. heads[c] # 0 /\ DOMAIN work[c] = {"step", "item", "token"} /\ GoodItem(c, work[c].item)
    BY <2>1 DEF SharedInv, WorkOK
  <2> DEFINE w == [work[c] EXCEPT !.step = "leased", !.token = lease.token + 1]
  <2>4. DOMAIN w = {"step", "item", "token"} /\ w.item = work[c].item
    BY <2>3
  <2>5. work' = [work EXCEPT ![c] = w]
    BY <2>1 DEF SharedInv, WorkOK
  <2> HIDE DEF w
  <2>6. WorkOK'
    BY <2>2, <2>3, <2>4, <2>5, WorkReplaced DEF SharedInv, Moved
  <2>7. DbOK'
    BY <2>1, <2>2, DbKept DEF SharedInv, Moved
  <2> QED BY <2>2, <2>6, <2>7 DEF SharedInv, Moved
<1>3. CASE AppendLeased(c)
  BY <1>3, AppendLeasedKeeps
<1>4. CASE Publish(c)
  <2>1. /\ batches' = batches /\ (\E s \in {Synced(c)} : Adopt(c, s)) /\ Replay(c) /\ Finish(c)
        /\ work[c].step = "appended"
    BY <1>4 DEF Publish
  <2>2. heads[c] # 0
    BY <2>1 DEF SharedInv, WorkOK
  <2>3. Moved
    BY <2>1, <2>2, AdoptMoves
  <2>4. DbOK'
    BY <2>1, <2>2, <2>3, DbReplayed DEF SharedInv, Moved
  <2>5. WorkOK'
    BY <2>1, <2>2, <2>3, WorkFinished DEF SharedInv, Moved
  <2> QED BY <2>3, <2>4, <2>5 DEF SharedInv, Moved
<1>5. CASE Abandon(c)
  <2>1. UNCHANGED <<batches, frontiers, heads, remote, db>> /\ work[c].step # "idle" /\ Finish(c)
    BY <1>5 DEF Abandon
  <2>2. heads[c] # 0
    BY <2>1 DEF SharedInv, WorkOK
  <2>3. Moved
    BY <2>1, NothingMoves
  <2>4. DbOK'
    BY <2>1, <2>3, DbKept DEF SharedInv, Moved
  <2>5. WorkOK'
    BY <2>1, <2>2, <2>3, WorkFinished DEF SharedInv, Moved
  <2> QED BY <2>3, <2>4, <2>5 DEF SharedInv, Moved
<1> QED BY <1>1, <1>2, <1>3, <1>4, <1>5 DEF Coordinated

LEMMA RecordSharedKeeps ==
    ASSUME SharedInv, NEW c \in Clients, RecordShared(c)
    PROVE  SharedInv'
<1>1. heads[c] # 0 /\ batches' = batches /\ \E s \in {Synced(c)} : Adopt(c, s)
  BY DEF RecordShared, Ready
<1>2. Moved
  BY <1>1, AdoptMoves
<1>3. PICK before, item, after :
         /\ before = Applied(db[c], heads[c]) /\ item \in Changes(db[c]) /\ before.ok
         /\ after = Applied(before, heads[c])' /\ after.ok
         /\ db' = [db EXCEPT ![c] = after]
         /\ work' = [work EXCEPT ![c] = [Idle EXCEPT !.step = "ready", !.item = item]]
  BY DEF RecordShared
<1>4. MayReplay(before, heads[c])
  <2>1. MayReplay(db[c], heads[c])
    BY <1>1 DEF SharedInv, DbOK
  <2>2. ReplayFact /\ AgainFact
    BY ReplayFacts, AgainFacts DEF SharedInv, HistoryOK
  <2>3. GoodReplay(before, heads[c])
    BY <1>3, <2>1, <2>2 DEF ReplayFact
  <2>4. heads[c] \in 1 .. Len(frontiers)
    BY <1>1 DEF SharedInv, HeadsOK
  <2> QED BY <1>3, <2>2, <2>3, <2>4 DEF AgainFact
<1>5. MayReplay(before, heads[c])'
  BY <1>1, <1>2, <1>4 DEF Moved, ReplaysStay
<1>6. MayReplay(after, heads[c])'
  <2>1. heads'[c] # 0
    BY <1>1, <1>2 DEF Moved, HeadsStay
  <2> QED BY <1>2, <1>3, <1>5, <2>1, ReplayedOn DEF Moved
<1>7. DbOK'
  BY <1>1, <1>2, <1>3, <1>6, DbReplaced DEF SharedInv, Moved
<1>8. WorkOK'
  <2> DEFINE w == [Idle EXCEPT !.step = "ready", !.item = item]
  <2>1. DOMAIN w = {"step", "item", "token"} /\ w.item = item
    BY DEF Idle
  <2>2. work' = [work EXCEPT ![c] = w] /\ GoodItem(c, item)
    BY <1>3, ChangeIsGood
  <2> HIDE DEF w
  <2> QED BY <1>1, <1>2, <2>1, <2>2, WorkReplaced DEF SharedInv, Moved
<1> QED BY <1>2, <1>7, <1>8 DEF SharedInv, Moved

LEMMA SyncKeeps ==
    ASSUME SharedInv, NEW c \in Clients, Sync(c)
    PROVE  SharedInv'
<1>1. /\ heads[c] # 0 /\ batches' = batches /\ UNCHANGED work /\ Replay(c)
      /\ \E s \in {Synced(c)} : Adopt(c, s)
  BY DEF Sync, Ready
<1>2. Moved
  BY <1>1, AdoptMoves
<1>3. DbOK'
  BY <1>1, <1>2, DbReplayed DEF SharedInv, Moved
<1>4. WorkOK'
  BY <1>1, <1>2, WorkKept DEF SharedInv, Moved
<1> QED BY <1>2, <1>3, <1>4 DEF SharedInv, Moved

LEMMA ApproveSharedKeeps ==
    ASSUME SharedInv, NEW c \in Clients, NEW n \in Clients, ApproveShared(c, n)
    PROVE  SharedInv'
<1> DEFINE item == [kind |-> "client_enrolled", id |-> n]
<1>1. heads[c] # 0 /\ batches' = batches /\ UNCHANGED db /\ Prepared(c, item)
  BY DEF ApproveShared, Ready
<1>2. GoodItem(c, item)
  BY DEF GoodItem, ItemOK
<1> HIDE DEF item
<1> QED BY <1>1, <1>2, PreparedKeeps

LEMMA RevokeKeeps ==
    ASSUME SharedInv, NEW c \in Clients, NEW n \in Clients, Revoke(c, n)
    PROVE  SharedInv'
<1> DEFINE item == [kind |-> "client_revoked", id |-> n]
<1>1. heads[c] # 0 /\ n # c /\ batches' = batches /\ UNCHANGED db /\ Prepared(c, item)
  BY DEF Revoke, Ready
<1>2. GoodItem(c, item)
  BY <1>1 DEF GoodItem, ItemOK
<1> HIDE DEF item
<1> QED BY <1>1, <1>2, PreparedKeeps

\* A clone starts from a rebuild or from a snapshot of the history it clones.
LEMMA CloneKeeps ==
    ASSUME SharedInv, NEW c \in Clients, Clone(c)
    PROVE  SharedInv'
<1>1. /\ batches' = batches /\ frontiers' = frontiers /\ remote' = remote /\ work' = work
      /\ heads' = [heads EXCEPT ![c] = remote] /\ heads[c] = 0
  BY DEF Clone
<1>2. /\ HistoryOK /\ HeadsOK /\ DbOK /\ WorkOK /\ BatchesOK /\ FrontierOrder /\ FrontiersOK
      /\ remote \in 1 .. Len(frontiers) /\ Len(frontiers) \in Nat \ {0}
  BY DEF SharedInv, HistoryOK, HeadsOK, FrontiersOK
<1>3. HistoryOK' /\ FrontiersGrow /\ BatchesGrow
  BY <1>1, <1>2, SameFrontiers
<1>4. HeadsOK'
  BY <1>1, <1>2 DEF HeadsOK, Verified
<1>5. \A d : \A f \in 1 .. Len(frontiers) : MayReplay(d, f) => MayReplay(d, f)'
  <2> SUFFICES ASSUME NEW d, NEW f \in 1 .. Len(frontiers), MayReplay(d, f) PROVE MayReplay(d, f)'
    OBVIOUS
  <2>1. frontiers[f].tails \in Tails /\ f \in 1 .. Len(frontiers')
    BY <1>1, <1>2 DEF FrontierOrder
  <2>2. AtMost(frontiers[f].tails, frontiers'[f].tails)
    BY <1>1, <2>1 DEF AtMost, Tails
  <2> QED BY <1>2, <1>3, <2>1, <2>2, ReplayFrame
<1>6. PICK d : /\ d \in {Rebuilt(remote)} \cup {Installed(old, remote) : old \in Snapshots}
               /\ d.ok /\ db' = [db EXCEPT ![c] = d]
  BY DEF Clone
<1>7. ReplayFact /\ AgainFact
  BY <1>2, ReplayFacts, AgainFacts
<1>8. ASSUME NEW e, MayReplay(e, remote), d = Applied(e, remote)
      PROVE  MayReplay(d, remote)
  <2>1. GoodReplay(d, remote)
    BY <1>7, <1>8 DEF ReplayFact
  <2> QED BY <1>2, <1>6, <1>7, <2>1 DEF AgainFact
<1>9. MayReplay(d, remote)
  <2>1. CASE d = Rebuilt(remote)
    <3>1. d = Applied(EmptyDb, remote)
      <4>1. [EmptyDb EXCEPT !.ok = FALSE].ok = FALSE
        BY DEF EmptyDb
      <4> QED BY <1>6, <2>1, <4>1 DEF Rebuilt
    <3>2. /\ EmptyDb.applied = 1 /\ EmptyDb.clients = InitialClients /\ EmptyDb.ok
          /\ IsDb(EmptyDb)
      BY InitialClientsExplained DEF EmptyDb, IsDb
    <3>3. 1 \in 1 .. Len(frontiers) /\ frontiers[1].tails = Zero
          /\ frontiers[remote].tails \in Tails /\ Reached(frontiers[remote].tails)
      BY <1>2 DEF FrontiersOK, FrontierOrder
    <3>4. AtMost(Zero, frontiers[remote].tails)
      BY <3>3 DEF AtMost, Zero, Tails
    <3> DEFINE e == EmptyDb
    <3> HIDE DEF e
    <3>5. MayReplay(e, remote)
      BY <3>2, <3>3, <3>4, InitialClientsExplained DEF MayReplay, e
    <3> QED BY <1>8, <3>1, <3>5 DEF e
  <2>2. CASE d \in {Installed(old, remote) : old \in Snapshots}
    <3>1. PICK old \in Snapshots : d = Installed(old, remote)
      BY <2>2
    <3>2. PICK o \in Clients : heads[o] # 0 /\ old = db[o]
      BY DEF Snapshots
    <3>3. MayReplay(old, heads[o])
      BY <1>2, <3>2 DEF DbOK
    <3>4. old.applied \in Ancestors(remote) /\ d = Applied(old, remote)
      <4>1. [old EXCEPT !.ok = FALSE].ok = FALSE
        BY <3>3 DEF MayReplay, IsDb
      <4> QED BY <1>6, <3>1, <4>1 DEF Installed
    <3>5. AtMost(frontiers[old.applied].tails, frontiers[remote].tails)
      BY <1>2, <3>4, AncestorsAreBefore
    <3>6. MayReplay(old, remote)
      <4>1. frontiers[remote].tails \in Tails /\ Reached(frontiers[remote].tails)
        BY <1>2 DEF FrontiersOK, FrontierOrder
      <4> QED BY <3>3, <3>5, <4>1 DEF MayReplay
    <3> QED BY <1>8, <3>4, <3>6
  <2> QED BY <1>6, <2>1, <2>2
<1>10. DbOK'
  <2>1. DOMAIN db' = Clients /\ \A o \in Clients : db'[o] = IF o = c THEN d ELSE db[o]
    BY <1>2, <1>6 DEF DbOK
  <2>2. \A o \in Clients : heads'[o] = IF o = c THEN remote ELSE heads[o]
    BY <1>1, <1>2 DEF HeadsOK
  <2>3. ASSUME NEW o \in Clients, heads'[o] # 0 PROVE MayReplay(db[o], heads[o])'
    <3>1. CASE o = c
      <4>1. MayReplay(d, remote)'
        <5>1. PICK h : h = remote
          OBVIOUS
        <5>2. MayReplay(d, h)'
          BY <1>2, <1>5, <1>9, <5>1
        <5>3. h = remote'
          BY <1>1, <5>1
        <5> QED BY <5>2, <5>3
      <4>2. db'[o] = d /\ heads'[o] = remote'
        BY <1>1, <2>1, <2>2, <3>1
      <4> QED BY <4>1, <4>2
    <3>2. CASE o # c
      <4>1. heads'[o] = heads[o] /\ db'[o] = db[o] /\ heads[o] # 0
        BY <2>1, <2>2, <2>3, <3>2
      <4>2. PICK e, h : e = db[o] /\ h = heads[o]
        OBVIOUS
      <4>3. MayReplay(e, h) /\ h \in 1 .. Len(frontiers)
        BY <1>2, <4>1, <4>2 DEF DbOK, HeadsOK
      <4>4. MayReplay(e, h)'
        BY <1>5, <4>3
      <4> QED BY <4>1, <4>2, <4>4
    <3> QED BY <3>1, <3>2
  <2> QED BY <2>1, <2>3 DEF DbOK
<1>11. WorkOK'
  BY <1>1, <1>2 DEF WorkOK, GoodItem, HeadsOK
<1> QED BY <1>3, <1>4, <1>10, <1>11 DEF SharedInv

LEMMA StutterKeeps ==
    ASSUME SharedInv, UNCHANGED <<batches, frontiers, heads, remote, db, work>>
    PROVE  SharedInv'
<1>1. Moved
  BY NothingMoves
<1>2. DbOK'
  BY <1>1, DbKept DEF SharedInv, Moved
<1>3. WorkOK'
  BY <1>1, WorkKept DEF SharedInv, Moved
<1> QED BY <1>1, <1>2, <1>3 DEF SharedInv, Moved

LEMMA CommandKeeps ==
    ASSUME SharedInv, NEW c \in Clients, Command(c)
    PROVE  SharedInv'
BY RecordAloneKeeps, RecordSharedKeeps, ObserveKeeps, SyncKeeps, CloneKeeps, ApproveAloneKeeps,
   ApproveSharedKeeps, RevokeKeeps DEF Command

LEMMA SharedNextKeeps ==
    ASSUME SharedInv, [SharedNext]_sharedVars
    PROVE  SharedInv'
<1>1. CASE Expire
  BY <1>1, StutterKeeps DEF Expire
<1>2. CASE \E c \in Clients : Command(c) \/ Coordinated(c)
  BY <1>2, CommandKeeps, CoordinatedKeeps
<1>3. CASE UNCHANGED sharedVars
  BY <1>3, StutterKeeps DEF sharedVars
<1> QED BY <1>1, <1>2, <1>3 DEF SharedNext

-----------------------------------------------------------------------------
(* The first state.                                                        *)

FirstTails == [c \in Clients |-> IF c = Genesis THEN 1 ELSE 0]

FirstBatches ==
    batches = [c \in Clients |->
         IF c = Genesis
         THEN <<[item |-> [kind |-> "initialized"], base |-> Zero, lease |-> 0]>>
         ELSE << >>]

LEMMA FirstBatch ==
    ASSUME FirstBatches
    PROVE  /\ BatchesOK /\ Genesis \in Clients /\ FirstTails \in Tails /\ Reached(FirstTails)
           /\ DOMAIN batches[Genesis] = {1} /\ Len(batches[Genesis]) = 1
           /\ batches[Genesis][1].item.kind = "initialized" /\ batches[Genesis][1].base = Zero
           /\ \A c \in Clients \ {Genesis} : batches[c] = << >>
<1>1. Genesis \in Clients
  BY RegistryAssumption
<1> DEFINE b == [item |-> [kind |-> "initialized"], base |-> Zero, lease |-> 0]
<1>2. b.item.kind = "initialized" /\ b.base = Zero
  OBVIOUS
<1>3. batches[Genesis] = <<b>> /\ DOMAIN batches = Clients
      /\ \A c \in Clients \ {Genesis} : batches[c] = << >>
  BY <1>1 DEF FirstBatches
<1> HIDE DEF b
<1>4. DOMAIN batches[Genesis] = {1} /\ Len(batches[Genesis]) = 1 /\ batches[Genesis][1] = b
      /\ IsSeq(batches[Genesis])
  <2>1. <<b>> \in Seq({b}) /\ DOMAIN <<b>> = 1 .. 1 /\ Len(<<b>>) = 1 /\ <<b>>[1] = b
    OBVIOUS
  <2>2. 1 .. 1 = {1}
    OBVIOUS
  <2> QED BY <1>3, <2>1, <2>2 DEF IsSeq
<1>5. \A c \in Clients \ {Genesis} : IsSeq(batches[c]) /\ DOMAIN batches[c] = {}
                                     /\ Len(batches[c]) = 0
  <2>1. << >> \in Seq({}) /\ DOMAIN << >> = {} /\ Len(<< >>) = 0
    OBVIOUS
  <2> QED BY <1>3, <2>1 DEF IsSeq
<1>6. Zero \in Tails /\ FirstTails \in Tails
  BY DEF Zero, Tails, FirstTails
<1>7. ItemOK(b.item) /\ ~Revokes(<<Genesis, 1>>, Genesis)
  BY <1>2, <1>4 DEF ItemOK, Revokes, ItemAt
<1>8. BatchesOK
  BY <1>2, <1>3, <1>4, <1>5, <1>6, <1>7 DEF BatchesOK
<1>9. Reached(FirstTails)
  BY <1>4, <1>5 DEF Reached, FirstTails
<1> QED BY <1>1, <1>2, <1>3, <1>4, <1>6, <1>8, <1>9

\* The history with which an archive begins verifies.
LEMMA FirstVerifies ==
    ASSUME FirstBatches
    PROVE  VerifiedTails(FirstTails).ok
<1> DEFINE q == <<Genesis>> \o IdOrder
           start == VisitStart(FirstTails, Zero, InitialClients)
           done == VisitOrigin(start, Genesis)
           U == {start, done}
           E == {done}
<1>0. /\ BatchesOK /\ Genesis \in Clients /\ FirstTails \in Tails /\ Reached(FirstTails)
      /\ DOMAIN batches[Genesis] = {1} /\ batches[Genesis][1].item.kind = "initialized"
  BY FirstBatch
<1>1. /\ Len(q) \in Nat /\ Len(q) # 0 /\ q[1] = Genesis /\ \A i \in 1 .. Len(q) : q[i] \in Clients
  <2>1. IdOrder \in Seq(Clients)
    BY RegistryAssumption DEF IdOrder, Clients
  <2> QED BY <1>0, <2>1
<1>2. /\ start.ok /\ start.pending = {Genesis} /\ Genesis \in DOMAIN start.clients
      /\ start.from = Zero /\ start.to = FirstTails /\ start.order = << >>
      /\ start.clients = InitialClients
      /\ start \in VisitStates(Zero, FirstTails)
  <2>1. {o \in Clients : FirstTails[o] > Zero[o]} = {Genesis}
    BY <1>0 DEF FirstTails, Zero
  <2>2. start \in VisitStates(Zero, FirstTails)
    BY InitialClientsExplained DEF VisitStart, VisitStates
  <2> QED BY <2>1, <2>2, InitialClientsExplained DEF VisitStart
<1> HIDE DEF q
<1>3. done.ok /\ done.pending = {}
  <2> DEFINE W == VisitStates(Zero, FirstTails)
             p == Numbers(start, Genesis)
             b == Begun(start, Genesis)
             V == {t \in W : t.ok /\ t.pending = {}}
             T == [i \in 0 .. Len(p) |-> V]
  <2>1. p = [i \in 1 .. 1 |-> i]
    <3>1. start.to[Genesis] - start.from[Genesis] = 1 /\ start.from[Genesis] = 0
      BY <1>0, <1>2 DEF FirstTails, Zero
    <3> HIDE DEF start
    <3> QED BY <3>1 DEF Numbers
  <2>2. Len(p) = 1 /\ Len(p) \in Nat /\ \A i \in 1 .. Len(p) : p[i] = 1
    BY <2>1
  <2> HIDE DEF start, p
  <2>3. b \in V
    BY <1>2 DEF Begun, VisitStates
  <2>4. ASSUME NEW u \in V PROVE VisitBatch(start, Genesis, u, 1) \in V
    <3> DEFINE ord == Append(u.order, <<Genesis, 1>>)
               a == [u EXCEPT !.order = ord]
    <3>1. VisitBatch(start, Genesis, u, 1) = a
      <4>1. VisitBatch(start, Genesis, u, 1) = ApplyClientItem(a, <<Genesis, 1>>, batches[Genesis][1].item)
        BY DEF VisitBatch
      <4> HIDE DEF a
      <4> QED BY <1>0, <4>1 DEF ApplyClientItem
    <3>2. ord \in Seq(AllDots)
      <4>1. u.order \in Seq(AllDots) /\ <<Genesis, 1>> \in AllDots
        BY <1>0, RegistryAssumption DEF VisitStates, AllDots, Clients
      <4> QED BY <4>1
    <3> HIDE DEF ord
    <3>3. a \in V
      BY <3>2 DEF VisitStates
    <3> QED BY <3>1, <3>3
  <2>5. /\ \A i \in 1 .. Len(p) : \A u \in V : VisitBatch(start, Genesis, u, p[i]) \in V
        /\ \A i \in 1 .. Len(p) : \A u \in V :
             u \in T[i - 1] => VisitBatch(start, Genesis, u, p[i]) \in T[i]
        /\ b \in T[0]
    <3>1. \A i \in 1 .. Len(p) : T[i] = V /\ T[0] = V
      BY <2>2
    <3> HIDE DEF T, V
    <3> QED BY <2>2, <2>3, <2>4, <3>1
  <2>6. p = Numbers(start, Genesis) /\ b = Begun(start, Genesis)
    BY DEF p
  <2>7. done \in V
    <3> HIDE DEF V, T, b
    <3> QED BY <1>2, <2>2, <2>3, <2>5, <2>6, OriginFoldStays
  <2> QED BY <2>7
<1>4. \A o : VisitOrigin(done, o) = done
  <2> HIDE DEF done
  <2> QED BY <1>3 DEF VisitOrigin
<1>5. \A o : o # Genesis => VisitOrigin(start, o) = start
  <2> HIDE DEF start
  <2> QED BY <1>2 DEF VisitOrigin
<1>6. \A u \in U : Pass(q, u) \in E
  <2> SUFFICES ASSUME NEW u \in U PROVE Pass(q, u) \in E
    OBVIOUS
  <2> DEFINE T == [i \in 0 .. Len(q) |-> IF i = 0 THEN U ELSE E]
  <2>1. /\ T[0] = U /\ T[Len(q)] = E
        /\ \A i \in 1 .. Len(q) : T[i] = E /\ (i # 1 => T[i - 1] = E)
    <3> HIDE DEF U, E
    <3> QED BY <1>1
  <2>2. \A o : VisitOrigin(start, o) \in U /\ VisitOrigin(done, o) \in U
    BY <1>4, <1>5
  <2>3. \A i \in 1 .. Len(q) : \A x \in U : VisitOrigin(x, q[i]) \in U
    <3> HIDE DEF start, done
    <3> QED BY <2>2
  <2>4. \A i \in 1 .. Len(q) : \A x \in U : x \in T[i - 1] => VisitOrigin(x, q[i]) \in T[i]
    <3> SUFFICES ASSUME NEW i \in 1 .. Len(q), NEW x \in U, x \in T[i - 1]
                 PROVE  VisitOrigin(x, q[i]) \in E
      BY <2>1
    <3>1. CASE x = done
      BY <1>4, <3>1
    <3>2. CASE x # done
      <4>1. i = 1
        <5> HIDE DEF T, done
        <5> QED BY <2>1, <3>2
      <4>2. x = start
        BY <3>2
      <4> HIDE DEF T
      <4> QED BY <1>1, <4>1, <4>2
    <3> QED BY <3>1, <3>2
  <2> HIDE DEF T, U, E
  <2>5. Fold(VisitOrigin, u, q) \in T[Len(q)]
    BY <1>1, <2>1, <2>3, <2>4, VisitFoldStays
  <2> QED BY <2>1, <2>5 DEF Pass
<1>7. EndsIn(E, VisitOrigins(FirstTails, Zero, InitialClients, q))
  <2>1. start \in U /\ E \in SUBSET U
    OBVIOUS
  <2> HIDE DEF U, E
  <2> QED BY <1>1, <1>6, <2>1, VisitsEnd
<1> DEFINE v == VisitOrigins(FirstTails, Zero, InitialClients, q)
<1>8. v.ok
  <2> HIDE DEF done, v
  <2>1. PICK end \in E : v = [ok |-> end.ok /\ end.pending = {}, clients |-> end.clients,
                              order |-> end.order]
    BY <1>7 DEF EndsIn, v
  <2>2. end.ok /\ end.pending = {}
    BY <1>3
  <2> QED BY <2>1, <2>2
<1>9. VerifiedTails(FirstTails) = [ok |-> v.ok, clients |-> v.clients]
  BY DEF VerifiedTails, Zero, q
<1> HIDE DEF v
<1> QED BY <1>8, <1>9

LEMMA SharedInitHolds ==
    ASSUME SharedInit
    PROVE  SharedInv
<1>0. FirstBatches
  BY DEF SharedInit, FirstBatches, Zero
<1>1. /\ BatchesOK /\ Genesis \in Clients /\ FirstTails \in Tails /\ Reached(FirstTails)
      /\ DOMAIN batches[Genesis] = {1} /\ Len(batches[Genesis]) = 1
      /\ batches[Genesis][1].item.kind = "initialized" /\ batches[Genesis][1].base = Zero
      /\ \A c \in Clients \ {Genesis} : batches[c] = << >>
  BY <1>0, FirstBatch
<1>2. Zero \in Tails /\ Reached(Zero)
  <2>1. \A c \in Clients : Len(batches[c]) \in Nat
    BY <1>1 DEF BatchesOK, IsSeq
  <2> QED BY <2>1 DEF Zero, Tails, Reached
<1> DEFINE x == FrontierOf(Zero, {})
           y == FrontierOf(FirstTails, {1})
<1>3. frontiers = <<x, y>> /\ remote = 2
  BY DEF SharedInit, Zero, FirstTails
<1>4. /\ x.tails = Zero /\ x.previous = {} /\ Verifies(x.verified, Zero)
      /\ y.tails = FirstTails /\ y.previous = {1} /\ Verifies(y.verified, FirstTails)
      /\ y.verified.ok
  BY <1>0, <1>1, <1>2, VerifiedTailsGood, FirstVerifies DEF FrontierOf
<1> HIDE DEF x, y
<1>5. Len(frontiers) = 2 /\ frontiers[1] = x /\ frontiers[2] = y /\ IsSeq(frontiers)
  <2>1. frontiers \in Seq({x, y})
    BY <1>3
  <2> QED BY <1>3, <2>1 DEF IsSeq
<1>6. \A i \in 1 .. Len(frontiers) : i = 1 \/ i = 2
  BY <1>5
<1>7. AtMost(Zero, FirstTails)
  BY DEF AtMost, Zero, FirstTails
<1>8. FrontierOrder
  <2>1. ASSUME NEW i \in 1 .. Len(frontiers)
        PROVE  /\ frontiers[i].tails \in Tails
               /\ frontiers[i].previous \in SUBSET (1 .. (i - 1))
               /\ \A p \in frontiers[i].previous : AtMost(frontiers[p].tails, frontiers[i].tails)
    <3>1. CASE i = 1
      BY <1>2, <1>4, <1>5, <3>1
    <3>2. CASE i = 2
      <4>1. 1 .. (2 - 1) = {1}
        OBVIOUS
      <4> QED BY <1>1, <1>4, <1>5, <1>7, <3>2, <4>1
    <3> QED BY <1>6, <3>1, <3>2
  <2> QED BY <1>5, <2>1 DEF FrontierOrder
<1>9. FrontiersOK
  <2>1. OneMore(1)
    BY <1>4, <1>5 DEF OneMore
  <2>2. OneMore(2)
    <3>1. /\ y.tails[Genesis] = 1 /\ batches[Genesis][1].base = Zero
          /\ \A o \in Clients \ {Genesis} : y.tails[o] = Zero[o]
      BY <1>1, <1>4 DEF FirstTails, Zero
    <3>2. \A p : y.previous = {p} => p = 1
      BY <1>4
    <3> QED BY <1>1, <1>4, <1>5, <3>1, <3>2 DEF OneMore
  <2> QED BY <1>1, <1>2, <1>4, <1>5, <1>6, <2>1, <2>2 DEF FrontiersOK
<1>55. \A c \in Clients : \A n \in 1 .. Len(batches[c]) : c = Genesis /\ n = 1
  <2>1. \A c \in Clients \ {Genesis} : Len(batches[c]) = 0
    <3>1. Len(<< >>) = 0
      OBVIOUS
    <3> QED BY <1>1, <3>1
  <2>2. \A n \in 1 .. 1 : n = 1
    OBVIOUS
  <2>3. 1 .. 0 = {}
    OBVIOUS
  <2> QED BY <1>1, <2>1, <2>2, <2>3
<1>10. SignedOK
  <2> SUFFICES ASSUME NEW c \in Clients, NEW n \in 1 .. Len(batches[c])
               PROVE  Reached(batches[c][n].base) /\ Trusted(c, batches[c][n].base)
    BY DEF SignedOK
  <2>1. c = Genesis /\ n = 1
    BY <1>55
  <2>2. \A d \in Dots : ~Revokes(d, Genesis)
    <3> SUFFICES ASSUME NEW d \in Dots, Revokes(d, Genesis) PROVE FALSE
      OBVIOUS
    <3>1. PICK o \in Clients : \E k \in 1 .. Len(batches[o]) : d = <<o, k>>
      BY DotIs
    <3>2. o = Genesis /\ d = <<Genesis, 1>>
      BY <1>55, <3>1
    <3> QED BY <1>1, <3>2 DEF Revokes, ItemAt
  <2> QED BY <1>1, <1>2, <2>1, <2>2 DEF Trusted
<1>11. HistoryOK
  BY <1>1, <1>8, <1>9, <1>10 DEF HistoryOK
<1>12. HeadsOK
  BY <1>3, <1>4, <1>5 DEF SharedInit, HeadsOK, Verified
<1>13. DbOK
  <2>1. DOMAIN db = Clients
    BY DEF SharedInit
  <2>2. ASSUME NEW c \in Clients, heads[c] # 0 PROVE MayReplay(db[c], heads[c])
    <3>1. heads[c] = 2 /\ db[c] = [EmptyDb EXCEPT !.applied = 2]
      BY <2>2 DEF SharedInit
    <3> DEFINE e == [EmptyDb EXCEPT !.applied = 2]
    <3>2. e.applied = 2 /\ e.clients = InitialClients /\ e.ok /\ IsDb(e)
      <4>1. e = [applied |-> 2, clients |-> InitialClients, sites |-> {}, device |-> NoDevice,
                 ok |-> TRUE]
        <5>1. \A p, k, s, v, w, z :
                [[applied |-> p, clients |-> k, sites |-> s, device |-> v, ok |-> w] EXCEPT !.applied = z]
                = [applied |-> z, clients |-> k, sites |-> s, device |-> v, ok |-> w]
          OBVIOUS
        <5>2. e = [[applied |-> 1, clients |-> InitialClients, sites |-> {}, device |-> NoDevice,
                    ok |-> TRUE] EXCEPT !.applied = 2]
          BY DEF EmptyDb
        <5> HIDE DEF e
        <5> QED BY <5>1, <5>2
      <4> HIDE DEF e
      <4>2. /\ e.applied = 2 /\ e.clients = InitialClients /\ e.ok = TRUE /\ e.sites = {}
            /\ e.device = NoDevice
        BY <4>1
      <4>3. e = [applied |-> e.applied, clients |-> e.clients, sites |-> e.sites,
                 device |-> e.device, ok |-> e.ok]
        BY <4>1, <4>2
      <4> QED BY <4>2, <4>3, InitialClientsExplained DEF IsDb
    <3> HIDE DEF e
    <3>3. Explains(InitialClients, Within(FirstTails))
      <4>1. Within(FirstTails) = Within(Zero) \cup {<<Genesis, 1>>}
        <5>1. Within(Zero) = {}
          BY DEF Within, Span, Zero
        <5>2. Within(FirstTails) = {<<Genesis, 1>>}
          BY <1>1 DEF Within, Span, Zero, FirstTails
        <5> QED BY <5>1, <5>2
      <4>2. ItemAt(<<Genesis, 1>>).kind \notin {"client_enrolled", "client_revoked"}
        BY <1>1 DEF ItemAt
      <4> DEFINE dot == <<Genesis, 1>>
                 D == Within(Zero)
      <4>3. ItemAt(dot).kind \notin {"client_enrolled", "client_revoked"}
            /\ Explains(InitialClients, D)
        BY <4>2, InitialClientsExplained
      <4> HIDE DEF dot, D
      <4>4. Explains(InitialClients, D \cup {dot})
        BY <4>3, OtherIsExplained
      <4> QED BY <4>1, <4>4 DEF dot, D
    <3>4. AtMost(FirstTails, FirstTails)
      BY DEF AtMost, FirstTails
    <3> QED BY <1>1, <1>4, <1>5, <3>1, <3>2, <3>3, <3>4 DEF MayReplay, e
  <2> QED BY <2>1, <2>2 DEF DbOK
<1>14. WorkOK
  BY DEF SharedInit, WorkOK, Idle, GoodItem, ItemOK
<1> QED BY <1>11, <1>12, <1>13, <1>14 DEF SharedInv

\* The inductive invariant of the shared registry: every frontier's tails are
\* there and its verification is explained by the batches within them, every
\* writer was trusted by its base, and every installation's database is
\* explained by the frontier it was applied to, which its HEAD includes.
THEOREM SharedInvariant == SharedSpec => []SharedInv
<1>1. SharedInit => SharedInv
  BY SharedInitHolds
<1>2. SharedInv /\ [SharedNext]_sharedVars => SharedInv'
  BY SharedNextKeeps
<1> QED BY <1>1, <1>2, PTL DEF SharedSpec

\* Whatever sequence of appends, synchronisations and revocations, the remote
\* verifies from nothing and only trusted clients have written (sync_remote,
\* append_batch_locked, verify_append_base).
THEOREM RemoteTrusted == SharedSpec => []RemoteIsTrusted
<1>1. SharedInv => RemoteIsTrusted
  <2> SUFFICES ASSUME SharedInv PROVE RemoteIsTrusted
    OBVIOUS
  <2>1. RemoteVerifies
    BY DEF SharedInv, HeadsOK, RemoteVerifies
  <2>2. ASSUME NEW dot \in Dots
        PROVE  LET c == dot[1]
                   base == batches[c][dot[2]].base
                   names(kind) == {d \in Dots : ItemAt(d).kind = kind /\ ItemAt(d).id = c /\ Includes(base, d)}
               IN  /\ c # Genesis => names("client_enrolled") # {}
                   /\ names("client_revoked") = {}
    <3>1. PICK o \in Clients : \E n \in 1 .. Len(batches[o]) : dot = <<o, n>>
      BY DotIs
    <3>2. PICK n \in 1 .. Len(batches[o]) : dot = <<o, n>>
      BY <3>1
    <3>3. Trusted(o, batches[o][n].base)
      BY DEF SharedInv, HistoryOK, SignedOK
    <3> QED BY <3>2, <3>3 DEF Trusted, Enrols, Revokes
  <2>3. WritersAreTrusted
    BY <2>2 DEF WritersAreTrusted
  <2> QED BY <2>1, <2>3 DEF RemoteIsTrusted
<1> QED BY <1>1, SharedInvariant, PTL

\* The clients that an installation has projected, by whatever partial
\* replays, rebuild or snapshot, are those that the verification of the same
\* history from nothing finds (apply, rebuild, install_portable_snapshot).
THEOREM DatabaseMatches == SharedSpec => []DatabaseMatchesHistory
<1>1. SharedInv => DatabaseMatchesHistory
  <2> SUFFICES ASSUME SharedInv, NEW c \in Clients, heads[c] # 0, Verified(db[c].applied).ok
               PROVE  db[c].clients = Verified(db[c].applied).clients
    BY DEF DatabaseMatchesHistory
  <2> DEFINE a == db[c].applied
             t == frontiers[a].tails
             A == db[c].clients
             B == Verified(a).clients
  <2>1. a \in 1 .. Len(frontiers) /\ A \in ClientMaps /\ Explains(A, Within(t))
    BY DEF SharedInv, DbOK, MayReplay, IsDb
  <2>2. B \in ClientMaps /\ Explains(B, Within(t))
    BY <2>1 DEF SharedInv, HistoryOK, FrontiersOK, Verifies, Verified
  <2> HIDE DEF t, A, B
  <2>3. A = B
    BY <2>1, <2>2, OneTable
  <2> QED BY <2>3 DEF A, B
<1> QED BY <1>1, SharedInvariant, PTL

=============================================================================
