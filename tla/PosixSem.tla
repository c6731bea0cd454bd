------------------------------ MODULE PosixSem ------------------------------
(***************************************************************************)
(* The native semaphore of envs/posix.c, a counter with a mutex and a      *)
(* condition variable; the one of envs/apr.c is the same code over APR.    *)
(* A thread that waits on the condition has given the mutex away and must  *)
(* get it back; pthread_cond_wait may return without a signal.             *)
(*                                                                         *)
(* The semaphore is used by any number of threads, each of which makes up  *)
(* to MaxCalls calls.                                                      *)
(***************************************************************************)
EXTENDS Naturals, FiniteSets

CONSTANTS Threads, NULL,
          InitVal,     \* the argument of sem_alloc: 1 for a lock, else 0
          MaxCalls,    \* bound: calls of one thread
          MaxSpurious  \* bound: returns of pthread_cond_wait with no signal

ASSUME ThreadsAssumption == IsFiniteSet(Threads) /\ NULL \notin Threads
ASSUME BoundsAssumption ==
    InitVal \in Nat /\ MaxCalls \in Nat /\ MaxSpurious \in Nat

VARIABLES
    count,    \* sem->count
    owner,    \* who holds sem->lock, or NULL
    pc,       \* [Threads -> step of the call the thread is in]
    calls,    \* [Threads -> Nat]
    spurious, \* spurious returns so far
    ups, downs   \* history: ups whose count++ is done, downs that returned

vars == <<count, owner, pc, calls, spurious, ups, downs>>

Waiters == {t \in Threads : pc[t] = "wait"}

TypeOK ==
    /\ count \in Nat /\ ups \in Nat /\ downs \in Nat
    /\ owner \in Threads \cup {NULL}
    /\ pc \in [Threads -> {"out", "ulock", "ubody", "uunlock",
                           "dlock", "dbody", "wait", "dunlock"}]
    /\ calls \in [Threads -> 0 .. MaxCalls]
    /\ spurious \in 0 .. MaxSpurious

\* sem_alloc(InitVal)
Init ==
    /\ count = InitVal /\ owner = NULL
    /\ pc = [t \in Threads |-> "out"]
    /\ calls = [t \in Threads |-> 0]
    /\ spurious = 0 /\ ups = InitVal /\ downs = 0

Goto(t, l) == pc' = [pc EXCEPT ![t] = l]

Call(t, l) ==
    /\ pc[t] = "out" /\ calls[t] < MaxCalls
    /\ calls' = [calls EXCEPT ![t] = @ + 1]
    /\ Goto(t, l)
    /\ UNCHANGED <<count, owner, spurious, ups, downs>>

sem_up(t) == Call(t, "ulock")
sem_down(t) == Call(t, "dlock")

\* pthread_mutex_lock, also the one at the end of pthread_cond_wait
Lock(t) ==
    /\ owner = NULL /\ owner' = t
    /\ \/ pc[t] = "ulock" /\ Goto(t, "ubody")
       \/ pc[t] = "dlock" /\ Goto(t, "dbody")
    /\ UNCHANGED <<count, calls, spurious, ups, downs>>

\* pthread_cond_signal: one of the waiters, if there is one, goes for the lock.
Signalled(t, w) ==
    pc' = IF Waiters = {} THEN [pc EXCEPT ![t] = "uunlock"]
          ELSE [pc EXCEPT ![t] = "uunlock", ![w] = "dlock"]

\* Mutant: only the first unit is signalled.
UpBodyFirst(t) ==
    /\ pc[t] = "ubody"
    /\ count' = count + 1
    /\ ups' = ups + 1
    /\ \/ count = 0 /\ \E w \in IF Waiters = {} THEN {NULL} ELSE Waiters : Signalled(t, w)
       \/ count > 0 /\ Goto(t, "uunlock")
    /\ UNCHANGED <<owner, calls, spurious, downs>>

\* Mutant: the mutex is unlocked before the signal.
UpBodyUnlocks(t) ==
    /\ pc[t] = "ubody"
    /\ count' = count + 1
    /\ ups' = ups + 1
    /\ owner' = NULL
    /\ Goto(t, "uunlock")
    /\ UNCHANGED <<calls, spurious, downs>>

\* Mutant: no signal.
UpBodySilent(t) ==
    /\ pc[t] = "ubody"
    /\ count' = count + 1
    /\ ups' = ups + 1
    /\ Goto(t, "uunlock")
    /\ UNCHANGED <<owner, calls, spurious, downs>>

\* count++ and the signal
UpBody(t) ==
    /\ pc[t] = "ubody"
    /\ count' = count + 1
    /\ ups' = ups + 1
    /\ \E w \in IF Waiters = {} THEN {NULL} ELSE Waiters : Signalled(t, w)
    /\ UNCHANGED <<owner, calls, spurious, downs>>

\* Mutant: no wait.
DownBodyNoWait(t) ==
    /\ pc[t] = "dbody"
    /\ count' = count - 1
    /\ Goto(t, "dunlock")
    /\ UNCHANGED <<owner, calls, spurious, ups, downs>>

\* The while loop of sem_down: wait, which gives the lock away, or count--
DownBody(t) ==
    /\ pc[t] = "dbody"
    /\ \/ count = 0 /\ Goto(t, "wait") /\ owner' = NULL /\ UNCHANGED count
       \/ /\ count > 0
          /\ count' = count - 1
          /\ Goto(t, "dunlock")
          /\ UNCHANGED owner
    /\ UNCHANGED <<calls, spurious, ups, downs>>

\* pthread_mutex_unlock and the return
Unlock(t) ==
    /\ pc[t] \in {"uunlock", "dunlock"}
    /\ owner' = NULL
    /\ downs' = IF pc[t] = "dunlock" THEN downs + 1 ELSE downs
    /\ Goto(t, "out")
    /\ UNCHANGED <<count, calls, spurious, ups>>

\* pthread_cond_wait returns with no signal.
Spurious(t) ==
    /\ pc[t] = "wait" /\ spurious < MaxSpurious
    /\ spurious' = spurious + 1
    /\ Goto(t, "dlock")
    /\ UNCHANGED <<count, owner, calls, ups, downs>>

Step(t) == Lock(t) \/ UpBody(t) \/ DownBody(t) \/ Unlock(t)

Next == \E t \in Threads : sem_up(t) \/ sem_down(t) \/ Step(t) \/ Spurious(t)

Spec == Init /\ [][Next]_vars

\* A thread in sem_up or sem_down that can go on does.
FairSpec == Spec /\ \A t \in Threads : WF_vars(Step(t))

-----------------------------------------------------------------------------
(* Properties. *)

\* Threads in sem_down that will look at count (again) by themselves.
Contenders == {t \in Threads : pc[t] \in {"dlock", "dbody"}}

(* No wake-up is lost: while a thread sleeps on the condition, the units   *)
(* that sem_up has added are no more than the threads on their way to take *)
(* them, whoever overtakes whom between the signal and the mutex.          *)
NoLostWakeup == Waiters # {} => count <= Cardinality(Contenders)

(* A caller of sem_down may free the semaphore when it returns, as         *)
(* SYSCALL_VIA_QUEUE does: when all that was added has been taken, no      *)
(* sem_up that has added a unit is still inside the semaphore.             *)
FreeAfterDown == downs = ups => \A t \in Threads : pc[t] # "uunlock"

\* Semaphore's view: an up is done at its count++, a down at its count--.
AbsSt ==
    [t \in Threads |-> CASE pc[t] \in {"ulock", "ubody"} -> "up"
                         [] pc[t] \in {"dlock", "dbody", "wait"} -> "down"
                         [] OTHER -> "out"]

Abs == INSTANCE Semaphore WITH val <- count, st <- AbsSt

(* The mutex and the condition variable implement an atomic semaphore that *)
(* serves somebody whenever it can.                                        *)
ImplementsSemaphore == Abs!Spec
=============================================================================
