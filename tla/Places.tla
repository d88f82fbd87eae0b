------------------------------- MODULE Places -------------------------------
(***************************************************************************)
(* What is left of a vector when some of its elements are erased one by    *)
(* one: the places K of a sequence in their order, and what stands there.  *)
(***************************************************************************)
EXTENDS Naturals, FiniteSets, Sequences

NthOf(K, n) == CHOOSE k \in K : Cardinality({j \in K : j <= k}) = n
Only(s, K) == [n \in 1 .. Cardinality(K) |-> s[NthOf(K, n)]]
=============================================================================
