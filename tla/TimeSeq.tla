------------------------------ MODULE TimeSeq ------------------------------
(***************************************************************************)
(* Sequences of time stamps.  A time stamp is an integer number of ticks.  *)
(*                                                                         *)
(* sort.Slice with a Before comparison is written here by ranks rather     *)
(* than with TLC's SortSeq: the k-th element of the sorted sequence is the *)
(* element that has k elements at or below it.  That definition is total,  *)
(* and that it returns the sorted permutation can be proved without        *)
(* induction over the sequence (DataProofs).                               *)
(***************************************************************************)
EXTENDS Integers, Sequences, FiniteSets

\* No element is before its predecessor.
IsAscending(s) == \A i, j \in 1..Len(s) : i < j => s[i] <= s[j]

\* The positions of s that sort.Slice places at or before position i.
AtOrBelow(s, i) == {j \in 1..Len(s) : s[j] < s[i] \/ (s[j] = s[i] /\ j <= i)}

Rank(s, i) == Cardinality(AtOrBelow(s, i))

\* sort.Slice(s, func(i, j int) bool { return s[i].Before(s[j]) })
SortTimes(s) ==
  [k \in 1..Len(s) |-> s[CHOOSE i \in 1..Len(s) : Rank(s, i) = k]]

=============================================================================
