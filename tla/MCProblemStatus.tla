--------------------------- MODULE MCProblemStatus ---------------------------
(* An instance of ProblemStatus for TLC.                                   *)
EXTENDS ProblemStatus, TLC

Symmetry == Permutations(Submissions) \cup Permutations(Rejudgers)
=============================================================================
