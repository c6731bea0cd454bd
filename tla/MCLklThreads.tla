---------------------------- MODULE MCLklThreads ----------------------------
(* LklThreads for TLC: the tasks are interchangeable.  Symmetry serves the
   runs with no liveness property. *)
EXTENDS LklThreads, TLC

Symmetry == Permutations(Tasks)
=============================================================================
