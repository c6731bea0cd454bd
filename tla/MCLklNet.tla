------------------------------ MODULE MCLklNet ------------------------------
(* The network side for TLC: the driver, and the checksum routines that    *)
(* the frames it carries are checked with.  The two share no state, so     *)
(* a behaviour is one of the driver or a sequence of calls.                *)
EXTENDS LklEth, LklCsum

VARIABLE part

\* Earlier results, and the largest sums that an int holds.
Sums == (0 .. Half - 1) \cup (Word \div 2 - Half .. Word \div 2 - 1)

NetInit ==
    /\ Init
    /\ \/ part = "driver" /\ CallInit({0})
       \/ part = "checksum" /\ CallInit(Sums)

NetNext ==
    /\ \/ part = "driver" /\ Next /\ UNCHANGED args
       \/ part = "checksum" /\ CallNext /\ UNCHANGED vars
    /\ UNCHANGED part

NetSpec == NetInit /\ [][NetNext]_<<vars, args, part>> /\ Fairness
=============================================================================
