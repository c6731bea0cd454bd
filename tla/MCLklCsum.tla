----------------------------- MODULE MCLklCsum ------------------------------
(* csum_partial from every kind of sum its callers pass: an earlier        *)
(* result, or the complement of one, as in inet_proto_csum_replace4        *)
(* (net/core/utils.c).                                                     *)
EXTENDS LklCsum

Sums == (0 .. Half - 1) \cup (Word - Half .. Word - 1)

Spec == CallInit(Sums) /\ [][CallNext]_args
=============================================================================
