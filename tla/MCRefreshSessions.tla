-------------------------- MODULE MCRefreshSessions -------------------------
EXTENDS RefreshSessions, TLC
Symmetry == Permutations(Proc) \cup Permutations(Token)
=============================================================================
