-------------------------- MODULE MCProblemCatalog --------------------------
EXTENDS ProblemReaders, TLC

RequestSymmetry == Permutations(Clients)
=============================================================================
