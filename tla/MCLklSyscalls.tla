--------------------------- MODULE MCLklSyscalls ----------------------------
(* LklSyscalls for TLC.  The callers play different parts: no symmetry.    *)
(* Each has a result of its own, and that of c2 does not fit an int.       *)
EXTENDS LklSyscalls, TLC
CONSTANTS c1, c2, c3

MCResults == c1 :> {1} @@ c2 :> {1 + IntSize + IntSize \div 2} @@ c3 :> {2}
=============================================================================
