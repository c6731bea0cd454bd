----------------------------- MODULE MCPosixSem -----------------------------
(* PosixSem for TLC. *)
EXTENDS PosixSem
=============================================================================
