---------------------------- MODULE MCMultiFactor ----------------------------
(* Instances of MultiFactor for TLC.                                        *)
EXTENDS MultiFactor, TLC

Symmetry == Permutations(Secret) \cup Permutations(Code)
              \cup Permutations(Challenge) \cup Permutations(Proc)
=============================================================================
