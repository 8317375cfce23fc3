--------------------------- MODULE MCRecordStore ---------------------------
(* RecordStore on small instances. *)
EXTENDS RecordStore, TLC

Symmetry ==
    Permutations(Requests) \union Permutations(Bodies) \union Permutations(Flags)
=============================================================================
