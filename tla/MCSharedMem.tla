---------------------------- MODULE MCSharedMem ----------------------------
(* Small instances of SharedMem. *)
EXTENDS SharedMem, TLC

Symmetry == Permutations(Readers) \cup Permutations(Writers) \cup Permutations(Values)
=============================================================================
