----------------------------- MODULE Selection ------------------------------
(***************************************************************************)
(* Array.prototype.filter, as the event stores use it: the elements of an  *)
(* array at the places that pass a test, in the order of the array.        *)
(***************************************************************************)
EXTENDS Integers, Sequences, FiniteSets

\* The k-th smallest place of P: the one with k - 1 others below it.
Nth(P, k) == CHOOSE x \in P : Cardinality({y \in P : y < x}) = k - 1

\* The elements of s at the places P, in order.
Select(s, P) == [k \in 1 .. Cardinality(P) |-> s[Nth(P, k)]]
=============================================================================
