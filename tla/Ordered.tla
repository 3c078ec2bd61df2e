-------------------------------- MODULE Ordered --------------------------------
(***************************************************************************)
(* Sets of places in a text, in their order.  This is what                 *)
(* SetToSortSeq(S, <) of the community modules gives, without a sorting    *)
(* algorithm, so that the provers can reason about it.                     *)
(***************************************************************************)
EXTENDS Naturals, FiniteSets

\* The members of a finite set of numbers, the least first.
Ascending(S) ==
    [k \in 1..Cardinality(S) |->
        CHOOSE i \in S : Cardinality({j \in S : j < i}) = k - 1]
===============================================================================
