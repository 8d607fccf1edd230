----------------------------- MODULE MCShmQueue -----------------------------
(* ShmQueue on small instances for TLC.                                    *)
EXTENDS ShmQueue, TLC

Symmetry ==
  Permutations(Producers) \cup Permutations(Consumers) \cup Permutations(Message)
=============================================================================
