---------------------------- MODULE Enumeration ----------------------------
(***************************************************************************)
(* A sequence that lists the values of a function at the elements of a set *)
(* of numbers, in ascending order: what a loop that sifts its input leaves.*)
(***************************************************************************)
EXTENDS Integers, Sequences, FiniteSets

Rank(S, k) == Cardinality({j \in S : j <= k})

Lists(seq, S, f) == Len(seq) = Cardinality(S) /\ \A k \in S : seq[Rank(S, k)] = f[k]
=============================================================================
