---------------------------- MODULE MCCondQueue -----------------------------
(* CondQueue on small instances for TLC.                                   *)
EXTENDS CondQueue
=============================================================================
