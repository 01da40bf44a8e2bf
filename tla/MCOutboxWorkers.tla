-------------------------- MODULE MCOutboxWorkers --------------------------
(* Instances of OutboxWorkers for TLC.                                      *)
EXTENDS OutboxWorkers, TLC

Symmetry == Permutations(Msg) \cup Permutations(Worker)
=============================================================================
