---------------------------- MODULE MCOpenatMaps ----------------------------
(* A small instance of OpenatMaps. *)
EXTENDS OpenatMaps, TLC

CONSTANTS t1, t2, t3

\* Two threads of one process and one of another.
MCPidOf == t1 :> 1 @@ t2 :> 1 @@ t3 :> 2
=============================================================================
