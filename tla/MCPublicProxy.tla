--------------------------- MODULE MCPublicProxy ---------------------------
(* Instances of PublicProxy for TLC. *)
EXTENDS PublicProxy, TLC

Symmetry == Permutations(Clients)
============================================================================
