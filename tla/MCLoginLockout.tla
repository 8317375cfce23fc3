--------------------------- MODULE MCLoginLockout ---------------------------
(* Instances of LoginLockout for TLC. *)
EXTENDS LoginLockout, TLC

CONSTANTS q1, q2, q3

Symmetry == Permutations(Requests)
=============================================================================
