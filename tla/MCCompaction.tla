---------------------------- MODULE MCCompaction -----------------------------
(***************************************************************************)
(* Small instances of Compaction: an inbox with two messages, a trash with *)
(* one, and one that is delivered to either; or an inbox alone with three. *)
(***************************************************************************)
EXTENDS Compaction

CONSTANTS inbox, trash, m1, m2, m3, m4, c1, c2

TwoFull == [f \in {inbox, trash} |-> IF f = inbox THEN <<m1, m2>> ELSE <<m4>>]
OneFolder == [f \in {inbox} |-> <<m1, m2, m3>>]
==============================================================================
