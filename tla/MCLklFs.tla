------------------------------ MODULE MCLklFs -------------------------------
(* LklFs for TLC; the threads are alike, and so are the disks. *)
EXTENDS LklFs, TLC

Symmetric == Permutations(Threads) \cup Permutations(Disks)
=============================================================================
