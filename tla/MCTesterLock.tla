---------------------------- MODULE MCTesterLock ----------------------------
(* Instances of TesterLock for TLC. *)
EXTENDS TesterLock, TLC

Symmetry == Permutations(Process)
============================================================================
