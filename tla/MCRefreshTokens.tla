-------------------------- MODULE MCRefreshTokens --------------------------
(* RefreshTokens on small instances. *)
EXTENDS RefreshTokens, TLC

Symmetry == Permutations(Tokens) \union Permutations(Requests) \union Permutations(Devices)
=============================================================================
