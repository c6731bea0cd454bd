----------------------------- MODULE MCLklTimer -----------------------------
(* LklTimer for TLC. *)
EXTENDS LklTimer
=============================================================================
