--------------------------- MODULE MCJudgeManager ---------------------------
(* Instances of JudgeManager for TLC.                                      *)
EXTENDS JudgeManager, TLC

Symmetry == Permutations(Callers) \cup Permutations(Workers)
=============================================================================
