------------------------------ MODULE Sublists ------------------------------
(***************************************************************************)
(* What is left of a doubly linked list after a walk that removes some of  *)
(* its nodes (FM_DLL_REMOVE_NODE): the others, in their order.             *)
(***************************************************************************)
EXTENDS Integers, FiniteSets

\* How many of the positions kept are up to i.
Rank(kept, i) == Cardinality({j \in kept : j <= i})

\* The elements of s at the positions kept.
Sublist(s, kept) ==
  [k \in 1..Cardinality(kept) |-> s[CHOOSE i \in kept : Rank(kept, i) = k]]
=============================================================================
