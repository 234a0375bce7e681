------------------------------- MODULE Ranks -------------------------------
(***************************************************************************)
(* Sorting and filtering of lists by ranks: an element's place is the      *)
(* number of those before it.  The code's sorts and filters are defined    *)
(* with these operators in LayoutEditor and LivePoll.                      *)
(***************************************************************************)
EXTENDS Integers, Sequences, FiniteSets

\* The n-th of a set of numbers, and the elements of s at the places P, in their order.
Nth(S, n)  == CHOOSE x \in S : Cardinality({y \in S : y < x}) = n - 1
Kept(s, P) == [n \in 1 .. Cardinality(P) |-> s[Nth(P, n)]]

\* The list of a set, given of each element those before it.
Ordered(S, before) == [n \in 1 .. Cardinality(S) |-> CHOOSE x \in S : Cardinality(before[x]) = n - 1]
=============================================================================
