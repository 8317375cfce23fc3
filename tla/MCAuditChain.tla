---------------------------- MODULE MCAuditChain ----------------------------
(* AuditChain on small instances.                                         *)
EXTENDS AuditChain, TLC

Symmetry == Permutations(Writers)
=============================================================================
