---------------------------- MODULE Subsequences ----------------------------
(* The elements of a Go slice at some positions, and what slices.DeleteFunc *)
(* leaves of it: defined by the positions that are kept, so that they can   *)
(* be proved about.                                                         *)
EXTENDS Integers, Sequences, FiniteSets

\* The place of position n among the positions D.
Rank(D, n) == Cardinality({k \in D : k <= n})

\* The elements of s at the positions D, in their order.
At(s, D) == [m \in 1..Cardinality(D) |-> s[CHOOSE n \in D : Rank(D, n) = m]]

\* The first n of the positions D.
FirstOf(D, n) == {k \in D : Rank(D, k) <= n}

\* The elements of s that are not in R, in their order.
Without(s, R) == At(s, {n \in DOMAIN s : s[n] \notin R})
=============================================================================
