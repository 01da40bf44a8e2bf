---------------------------- MODULE MCActionTokens ---------------------------
EXTENDS ActionTokens, TLC
Symmetry == Permutations(Proc) \cup Permutations(Token)
=============================================================================
