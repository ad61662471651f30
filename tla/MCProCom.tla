------------------------------ MODULE MCProCom ------------------------------
(* Small instances of ProCom. *)
EXTENDS ProCom, TLC

\* Producers are also the items, consumers only compete: both are symmetric.
Symmetry == Permutations(Producers) \cup Permutations(Consumers)
=============================================================================
