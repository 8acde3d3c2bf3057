--------------------------- MODULE SequenceFilter ---------------------------
(***************************************************************************)
(* Sequences without some of their elements.  SelectSeq of the standard    *)
(* module does the same by recursion, which only induction over sequences  *)
(* can reason about; this definition counts.                               *)
(***************************************************************************)
EXTENDS Integers, Sequences, FiniteSets

\* The positions of s that stay when the elements of X are removed, and how
\* many of them there are up to position i.
Kept(s, X) == {i \in 1..Len(s) : s[i] \notin X}
RankIn(K, i) == Cardinality({j \in K : j <= i})

\* s without the elements of X, in the same order.
Without(s, X) ==
  LET K == Kept(s, X) IN
  [n \in 1..Cardinality(K) |-> s[CHOOSE i \in K : RankIn(K, i) = n]]
==============================================================================
