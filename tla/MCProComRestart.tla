-------------------------- MODULE MCProComRestart --------------------------
(* Small instances of ProComRestart. *)
EXTENDS ProComRestart
=============================================================================
