---------------------------- MODULE MCUserAccess ----------------------------
(* UserAccess on small instances. *)
EXTENDS UserAccess, TLC

Symmetry == Permutations(Updates)
=============================================================================
