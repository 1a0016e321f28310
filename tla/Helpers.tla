------------------------------- MODULE Helpers -------------------------------
(***************************************************************************)
(* What the two list helpers of barn-agent/src/helpers.cpp compute, as     *)
(* operators on sets of file names.  The modules TailIntersection and      *)
(* CountMissing have the loops themselves.                                 *)
(***************************************************************************)
EXTENDS Integers, FiniteSets, Sequences

\* A list as a set.
Names(s) == {s[i] : i \in 1 .. Len(s)}

Sorted(s) == \A i, j \in 1 .. Len(s) : i < j => s[i] < s[j]

\* Whatever the collector lacks, gaps in its history included.
all_missing(A, B) == A \cap B

\* The longest common tail of two sorted lists: it ends at the first difference.
tail_intersection(A, B) == {f \in A : \A g \in A : g >= f => g \in B}

\* The number of elements of small that are not in big.
count_missing(small, big) == Cardinality(small \ big)
=============================================================================
