------------------------------ MODULE Ordering ------------------------------
(***************************************************************************)
(* The elements of a finite set of naturals in ascending order: what a     *)
(* loop keeps of a list when it drops some of its places.  Given by the    *)
(* count of smaller elements, as the proofs can reason about cardinalities *)
(* and not about SelectSeq or SetToSortSeq.                                *)
(***************************************************************************)
EXTENDS Naturals, FiniteSets

UpTo(S, k) == Cardinality({j \in S : j <= k})

Ascending(S) == [n \in 1..Cardinality(S) |-> CHOOSE k \in S : UpTo(S, k) = n]
=============================================================================
