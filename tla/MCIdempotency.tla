--------------------------- MODULE MCIdempotency ---------------------------
(* Idempotency on small instances. *)
EXTENDS Idempotency, TLC

Symmetry == Permutations(Attempts) \union Permutations(Ids) \union Permutations(Bodies)
=============================================================================
