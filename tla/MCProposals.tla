---------------------------- MODULE MCProposals ----------------------------
(* Proposals on small instances: two proposals for one record, three calls. *)
EXTENDS Proposals, TLC

Symmetry == Permutations(Requests) \union Permutations(Values) \union Permutations(Props)
=============================================================================
