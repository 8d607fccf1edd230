--------------------------- MODULE MCRecordEditor ---------------------------
(* RecordEditor on small instances for TLC.                                *)
EXTENDS RecordEditor, TLC

Symmetry == Permutations(Editors)
=============================================================================
