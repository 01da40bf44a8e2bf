--------------------------- MODULE MCRateLimiter ---------------------------
EXTENDS RateLimiter, TLC
Symmetry == Permutations(Proc) \cup Permutations(Client)
============================================================================
