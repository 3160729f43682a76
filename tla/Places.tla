------------------------------- MODULE Places -------------------------------
(* Sublists, by the places that are kept. *)
EXTENDS Integers, FiniteSets, Sequences

\* The i-th of the numbers in P, in increasing order.
Nth(P, i) == CHOOSE k \in P : Cardinality({j \in P : j < k}) = i - 1

\* The elements of s at the places in P, in the order of s.
Sublist(s, P) == [i \in 1 .. Cardinality(P) |-> s[Nth(P, i)]]
============================================================================
