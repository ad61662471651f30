-------------------------- MODULE MCRpcConnection --------------------------
(* A small instance of RpcConnection. *)
EXTENDS RpcConnection

\* With Width 4 the lengths 2 and 2 wrap around to no data at all.
MCLengths == {0, 1, 2}
=============================================================================
