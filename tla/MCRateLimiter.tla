--------------------------- MODULE MCRateLimiter ---------------------------
EXTENDS RateLimiter, TLC

LoginSymmetry == Permutations(Logins) \cup Permutations(Keys)
=============================================================================
