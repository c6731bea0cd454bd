----------------------------- MODULE Semaphore ------------------------------
(***************************************************************************)
(* What the kernel expects of the native semaphores (sem_alloc, sem_up and *)
(* sem_down of struct lkl_native_operations): a counter, an up that never  *)
(* waits, a down that waits for a positive value, each one atomic step     *)
(* between the call and the return.                                        *)
(***************************************************************************)
EXTENDS Naturals

CONSTANTS Threads, InitVal

VARIABLES val,   \* the value
          st     \* [Threads -> {"out", "up", "down"}]: the call not yet done

vars == <<val, st>>

Init == val = InitVal /\ st = [t \in Threads |-> "out"]

CallUp(t) == st[t] = "out" /\ st' = [st EXCEPT ![t] = "up"] /\ UNCHANGED val
CallDown(t) == st[t] = "out" /\ st' = [st EXCEPT ![t] = "down"] /\ UNCHANGED val

DoUp(t) ==
    st[t] = "up" /\ st' = [st EXCEPT ![t] = "out"] /\ val' = val + 1

DoDown(t) ==
    /\ st[t] = "down" /\ val > 0
    /\ st' = [st EXCEPT ![t] = "out"]
    /\ val' = val - 1

Serve == \E t \in Threads : DoUp(t) \/ DoDown(t)
Next == Serve \/ \E t \in Threads : CallUp(t) \/ CallDown(t)

\* What a call may do, and when.
Safety == Init /\ [][Next]_vars

\* As long as some call can be done, some call gets done.
Spec == Safety /\ WF_vars(Serve)
=============================================================================
