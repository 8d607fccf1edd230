----------------------------- MODULE MCSemQueue -----------------------------
(* SemQueue on small instances for TLC.                                    *)
EXTENDS SemQueue
=============================================================================
