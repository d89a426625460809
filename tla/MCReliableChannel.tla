-------------------------- MODULE MCReliableChannel --------------------------
(* An instance of ReliableChannel for TLC. *)
EXTENDS ReliableChannel
=============================================================================
