------------------------------ MODULE AppendLog ------------------------------
(***************************************************************************)
(* What the canonical store of one installation promises its callers: a    *)
(* log of accepted batches that only grows at its end, one batch at a      *)
(* time, and a published prefix that lags behind by at most the newest     *)
(* batch.  A batch is never accepted on top of an unpublished one.         *)
(***************************************************************************)
EXTENDS Integers, Sequences

CONSTANT Batches

VARIABLES
    accepted,   \* the accepted batches, in order
    published   \* how many of them the Git history holds

logVars == <<accepted, published>>

LogInit ==
    /\ accepted = << >>
    /\ published = 0

Accept(b) ==
    /\ published = Len(accepted)
    /\ accepted' = Append(accepted, b)
    /\ UNCHANGED published

Publish ==
    /\ published < Len(accepted)
    /\ published' = Len(accepted)
    /\ UNCHANGED accepted

LogNext == Publish \/ \E b \in Batches : Accept(b)

LogSpec == LogInit /\ [][LogNext]_logVars
=============================================================================
