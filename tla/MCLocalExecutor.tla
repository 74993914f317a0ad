--------------------------- MODULE MCLocalExecutor ---------------------------
(* Instances of LocalExecutor for TLC.                                     *)
EXTENDS LocalExecutor
=============================================================================
