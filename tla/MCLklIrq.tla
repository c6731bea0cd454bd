------------------------------ MODULE MCLklIrq ------------------------------
(* LklIrq for TLC: its properties need only finite bounds of the constants. *)
EXTENDS LklIrq, TLC

Symmetry == Permutations(Threads)

=============================================================================
