-------------------------- MODULE MCDocumentCache --------------------------
EXTENDS DocumentCache, TLC
CONSTANTS d1, d2, d3, k1, k2
(* k1 is rotated in and out; no document has k2. *)
Rotation == d1 :> {k1} @@ d2 :> {}
TwoWithoutKeys == Rotation @@ d3 :> {}
Symmetry == Permutations(Proc)
============================================================================
