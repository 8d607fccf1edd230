---------------------------- MODULE MCSortIndex -----------------------------
(* SortIndex on small instances for TLC.                                   *)
EXTENDS SortIndex

\* Arrays of two time marks in blocks of one record; arrays with two records a
\* block, with a rest, and with fewer records than blocks.
MCInputs ==
  {f \in [0 .. 7 -> {1, 2}] : f[0] = 2 /\ f[7] = 1} \cup
  {[i \in 0 .. n - 1 |-> n - i] : n \in {0, 1, 5, 9, 16, 17}} \cup
  {[i \in 0 .. n - 1 |-> (i * 5) % 7] : n \in {6, 8, 16, 19}}
=============================================================================
