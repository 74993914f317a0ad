---------------------------- MODULE MCJudgeEngine ----------------------------
(* An instance of JudgeEngine for TLC.                                     *)
EXTENDS JudgeEngine

=============================================================================
