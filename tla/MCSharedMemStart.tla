-------------------------- MODULE MCSharedMemStart --------------------------
(* Small instances of SharedMemStart. *)
EXTENDS SharedMemStart
=============================================================================
