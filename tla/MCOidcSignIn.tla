--------------------------- MODULE MCOidcSignIn ---------------------------
EXTENDS OidcSignIn, TLC
CONSTANTS s1, s2, s3, A, B
TwoProviders == s1 :> A @@ s2 :> A @@ s3 :> B
Symmetry == Permutations(Proc) \cup Permutations(Txn) \cup Permutations(User) \cup Permutations({s1, s2})
===========================================================================
