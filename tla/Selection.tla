----------------------------- MODULE Selection -----------------------------
(* The loops that append what passes a test to a slice.  SelectSeq says the   *)
(* same; here the elements are given by the set of their places, of which     *)
(* proofs can speak.                                                          *)
EXTENDS Naturals, Sequences, FiniteSets

\* The elements of a sequence at the places of a set, in their order.
Place(K, k) == Cardinality({j \in K : j <= k})
Selected(s, K) == [m \in 1..Cardinality(K) |-> s[CHOOSE k \in K : Place(K, k) = m]]
=============================================================================
