------------------------------ MODULE MCBanker ------------------------------
(* Small instances of Banker. *)
EXTENDS Banker, TLC

Symmetry == Permutations(PIDs)
=============================================================================
