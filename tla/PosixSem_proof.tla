--------------------------- MODULE PosixSem_proof ---------------------------
(***************************************************************************)
(* Proofs about PosixSem, for any finite set of threads and any number of  *)
(* calls and spurious wake-ups.                                            *)
(***************************************************************************)
EXTENDS PosixSem, FiniteSetTheorems, TLAPS

USE ThreadsAssumption, BoundsAssumption

-----------------------------------------------------------------------------
(* The inductive invariant. *)

\* The steps under the mutex are taken by its owner.
MutexInv ==
    \A t \in Threads :
        pc[t] \in {"ubody", "uunlock", "dbody", "dunlock"} <=> owner = t

\* A unit that sem_up has added is in count, or was taken by a sem_down that
\* has returned or is about to; an up that has not unlocked still sees its own.
UnitsInv ==
    /\ ups = count + downs + IF \E t \in Threads : pc[t] = "dunlock" THEN 1 ELSE 0
    /\ \A t \in Threads : pc[t] = "uunlock" => count > 0

IInv == TypeOK /\ MutexInv /\ UnitsInv /\ NoLostWakeup

LEMMA InitInv == Init => IInv
  BY DEF Init, IInv, TypeOK, MutexInv, UnitsInv, NoLostWakeup, Waiters

-----------------------------------------------------------------------------
(* How the set of contenders, and its size, can change. *)

LEMMA ContendersSize ==
    IsFiniteSet(Contenders) /\ Cardinality(Contenders) \in Nat
<1>1. Contenders \subseteq Threads
  BY DEF Contenders
<1> QED
  BY <1>1, FS_Subset, FS_CardinalityType

\* A thread joins them.
LEMMA ContendersGrow ==
    ASSUME NEW t \in Threads, pc[t] \notin {"dlock", "dbody"},
           Contenders' = Contenders \cup {t}
    PROVE  Cardinality(Contenders)' = Cardinality(Contenders) + 1
<1>1. t \notin Contenders
  BY DEF Contenders
<1> QED
  BY <1>1, ContendersSize, FS_AddElement

\* A thread leaves them.
LEMMA ContendersShrink ==
    ASSUME NEW t \in Threads, pc[t] = "dbody",
           Contenders' = Contenders \ {t}
    PROVE  Cardinality(Contenders)' = Cardinality(Contenders) - 1
<1>1. t \in Contenders
  BY DEF Contenders
<1> QED
  BY <1>1, ContendersSize, FS_RemoveElement

-----------------------------------------------------------------------------
LEMMA NextInv == IInv /\ [Next]_vars => IInv'
<1> SUFFICES ASSUME IInv, [Next]_vars PROVE IInv'
  OBVIOUS
<1> USE DEF IInv
<1>1. ASSUME NEW t \in Threads, sem_up(t) PROVE IInv'
  <2>1. TypeOK' /\ MutexInv'
    BY <1>1 DEF sem_up, Call, Goto, TypeOK, MutexInv
  <2>2. UnitsInv'
    BY <1>1 DEF sem_up, Call, Goto, TypeOK, UnitsInv
  <2>3. Waiters' = Waiters /\ Contenders' = Contenders /\ count' = count
    BY <1>1 DEF sem_up, Call, Goto, TypeOK, Waiters, Contenders
  <2> QED
    BY <2>1, <2>2, <2>3 DEF NoLostWakeup
<1>2. ASSUME NEW t \in Threads, sem_down(t) PROVE IInv'
  <2>1. TypeOK' /\ MutexInv'
    BY <1>2 DEF sem_down, Call, Goto, TypeOK, MutexInv
  <2>2. UnitsInv'
    BY <1>2 DEF sem_down, Call, Goto, TypeOK, UnitsInv
  <2>3. Waiters' = Waiters /\ Contenders' = Contenders \cup {t} /\ count' = count
    BY <1>2 DEF sem_down, Call, Goto, TypeOK, Waiters, Contenders
  <2>4. Cardinality(Contenders)' = Cardinality(Contenders) + 1
    BY <1>2, <2>3, ContendersGrow DEF sem_down, Call
  <2>5. NoLostWakeup'
    BY <2>3, <2>4, ContendersSize DEF NoLostWakeup, TypeOK
  <2> QED
    BY <2>1, <2>2, <2>5
<1>3. ASSUME NEW t \in Threads, Lock(t) PROVE IInv'
  <2>1. TypeOK' /\ MutexInv'
    BY <1>3 DEF Lock, Goto, TypeOK, MutexInv
  <2>2. UnitsInv'
    BY <1>3 DEF Lock, Goto, TypeOK, UnitsInv
  <2>3. Waiters' = Waiters /\ Contenders' = Contenders /\ count' = count
    BY <1>3 DEF Lock, Goto, TypeOK, Waiters, Contenders
  <2> QED
    BY <2>1, <2>2, <2>3 DEF NoLostWakeup
<1>4. ASSUME NEW t \in Threads, UpBody(t) PROVE IInv'
  <2>1. PICK w \in IF Waiters = {} THEN {NULL} ELSE Waiters : Signalled(t, w)
    BY <1>4 DEF UpBody
  <2>2. Waiters # {} => w \in Threads /\ pc[w] = "wait" /\ w # t
    BY <1>4, <2>1 DEF Waiters, UpBody
  <2>3. TypeOK'
    BY <1>4, <2>1, <2>2 DEF UpBody, Signalled, TypeOK
  <2>4. MutexInv'
    BY <1>4, <2>1, <2>2 DEF UpBody, Signalled, TypeOK, MutexInv
  <2>5. \A u \in Threads : (pc[u] = "dunlock")' <=> pc[u] = "dunlock"
    BY <1>4, <2>1, <2>2 DEF UpBody, Signalled, TypeOK
  <2>6. UnitsInv'
    BY <1>4, <2>5 DEF UpBody, TypeOK, UnitsInv
  <2>7. NoLostWakeup'
    <3>1. CASE Waiters = {}
      <4>1. Waiters' = {}
        BY <1>4, <2>1, <3>1 DEF UpBody, Signalled, TypeOK, Waiters
      <4> QED
        BY <4>1 DEF NoLostWakeup
    <3>2. CASE Waiters # {}
      <4>1. Contenders' = Contenders \cup {w}
        BY <1>4, <2>1, <2>2, <3>2 DEF UpBody, Signalled, TypeOK, Contenders
      <4>2. Cardinality(Contenders)' = Cardinality(Contenders) + 1
        BY <2>2, <3>2, <4>1, ContendersGrow
      <4> QED
        BY <1>4, <3>2, <4>2, ContendersSize DEF UpBody, NoLostWakeup, TypeOK
    <3> QED
      BY <3>1, <3>2
  <2> QED
    BY <2>3, <2>4, <2>6, <2>7
<1>5. ASSUME NEW t \in Threads, DownBody(t) PROVE IInv'
  <2>1. TypeOK'
    BY <1>5 DEF DownBody, Goto, TypeOK
  <2>2. MutexInv'
    BY <1>5 DEF DownBody, Goto, TypeOK, MutexInv
  <2>3. UnitsInv'
    <3>1. \A u \in Threads :
            u # t => pc[u] \notin {"dunlock", "uunlock"} /\ pc'[u] = pc[u]
      BY <1>5 DEF DownBody, Goto, TypeOK, MutexInv
    <3>2. CASE count = 0
      BY <1>5, <3>1, <3>2 DEF DownBody, Goto, TypeOK, UnitsInv
    <3>3. CASE count > 0
      <4>1. pc'[t] = "dunlock" /\ pc[t] = "dbody"
        BY <1>5, <3>3 DEF DownBody, Goto, TypeOK
      <4> QED
        BY <1>5, <3>1, <3>3, <4>1 DEF DownBody, TypeOK, UnitsInv
    <3> QED
      BY <3>2, <3>3 DEF TypeOK
  <2>4. NoLostWakeup'
    <3>1. CASE count = 0
      <4>1. Cardinality(Contenders)' \in Nat
        <5>1. Contenders' \subseteq Threads
          BY DEF Contenders
        <5> QED
          BY <5>1, FS_Subset, FS_CardinalityType
      <4> QED
        BY <1>5, <3>1, <4>1 DEF DownBody, NoLostWakeup
    <3>2. CASE count > 0
      <4>1. Waiters' = Waiters /\ Contenders' = Contenders \ {t}
        BY <1>5, <3>2 DEF DownBody, Goto, TypeOK, Waiters, Contenders
      <4>2. Cardinality(Contenders)' = Cardinality(Contenders) - 1
        BY <1>5, <4>1, ContendersShrink DEF DownBody
      <4> QED
        BY <1>5, <3>2, <4>1, <4>2, ContendersSize DEF DownBody, NoLostWakeup, TypeOK
    <3> QED
      BY <3>1, <3>2 DEF TypeOK
  <2> QED
    BY <2>1, <2>2, <2>3, <2>4
<1>6. ASSUME NEW t \in Threads, Unlock(t) PROVE IInv'
  <2>1. TypeOK' /\ MutexInv'
    BY <1>6 DEF Unlock, Goto, TypeOK, MutexInv
  <2>2. UnitsInv'
    <3>1. \A u \in Threads :
            u # t => pc[u] \notin {"dunlock", "uunlock"} /\ pc'[u] = pc[u]
      BY <1>6 DEF Unlock, Goto, TypeOK, MutexInv
    <3>2. pc'[t] = "out"
      BY <1>6 DEF Unlock, Goto, TypeOK
    <3> QED
      BY <1>6, <3>1, <3>2 DEF Unlock, TypeOK, UnitsInv
  <2>3. Waiters' = Waiters /\ Contenders' = Contenders /\ count' = count
    BY <1>6 DEF Unlock, Goto, TypeOK, Waiters, Contenders
  <2> QED
    BY <2>1, <2>2, <2>3 DEF NoLostWakeup
<1>7. ASSUME NEW t \in Threads, Spurious(t) PROVE IInv'
  <2>1. TypeOK' /\ MutexInv'
    BY <1>7 DEF Spurious, Goto, TypeOK, MutexInv
  <2>2. UnitsInv'
    BY <1>7 DEF Spurious, Goto, TypeOK, UnitsInv
  <2>3. Waiters # {} /\ Contenders' = Contenders \cup {t} /\ count' = count
    BY <1>7 DEF Spurious, Goto, TypeOK, Waiters, Contenders
  <2>4. Cardinality(Contenders)' = Cardinality(Contenders) + 1
    BY <1>7, <2>3, ContendersGrow DEF Spurious
  <2>5. NoLostWakeup'
    BY <2>3, <2>4, ContendersSize DEF NoLostWakeup, TypeOK
  <2> QED
    BY <2>1, <2>2, <2>5
<1>8. CASE UNCHANGED vars
  BY <1>8 DEF vars, TypeOK, MutexInv, UnitsInv, NoLostWakeup, Waiters, Contenders
<1> QED
  BY <1>1, <1>2, <1>3, <1>4, <1>5, <1>6, <1>7, <1>8 DEF Next, Step

(* Every reachable state satisfies the inductive invariant. *)
THEOREM Invariance == Spec => []IInv
  BY InitInv, NextInv, PTL DEF Spec

(* Type correctness of the semaphore; the counter never goes below 0. *)
THEOREM TypeCorrect == Spec => []TypeOK
<1>1. IInv => TypeOK
  BY DEF IInv
<1> QED
  BY <1>1, Invariance, PTL

(* sem_up and sem_down lose no wake-up, however many threads use them. *)
THEOREM WakeupKept == Spec => []NoLostWakeup
<1>1. IInv => NoLostWakeup
  BY DEF IInv
<1> QED
  BY <1>1, Invariance, PTL

(* A semaphore may be freed by the thread whose sem_down took its last     *)
(* unit, as SYSCALL_VIA_QUEUE and lkl_sys_halt do.                         *)
THEOREM FreeIsSafe == Spec => []FreeAfterDown
<1>1. IInv => FreeAfterDown
  BY DEF IInv, TypeOK, UnitsInv, FreeAfterDown
<1> QED
  BY <1>1, Invariance, PTL

-----------------------------------------------------------------------------
(* Refinement of Semaphore. *)

(* Every step is a step of the atomic semaphore, or changes nothing that   *)
(* its users see: an up takes effect at count++, whoever is woken, and a   *)
(* down at count--, under the mutex; taking the mutex, giving it back and  *)
(* the waits, with their spurious ends, are inside the call.               *)
LEMMA AtomicStep == IInv /\ [Next]_vars => [Abs!Next]_(Abs!vars)
<1> SUFFICES ASSUME IInv, [Next]_vars PROVE Abs!Next \/ UNCHANGED Abs!vars
  OBVIOUS
<1> USE DEF IInv, TypeOK
<1>0. /\ AbsSt' = [u \in Threads |-> AbsSt'[u]]
      /\ AbsSt = [u \in Threads |-> AbsSt[u]]
  BY DEF AbsSt
<1>1. ASSUME count' = count, \A u \in Threads : AbsSt'[u] = AbsSt[u]
      PROVE  UNCHANGED Abs!vars
  BY <1>0, <1>1 DEF Abs!vars
<1>2. ASSUME NEW t \in Threads, NEW x, AbsSt'[t] = x,
             \A u \in Threads : u # t => AbsSt'[u] = AbsSt[u]
      PROVE  AbsSt' = [AbsSt EXCEPT ![t] = x]
  BY <1>0, <1>2
<1>3. ASSUME NEW t \in Threads, sem_up(t) PROVE Abs!Next
  <2>1. /\ AbsSt[t] = "out" /\ AbsSt'[t] = "up" /\ count' = count
        /\ \A u \in Threads : u # t => AbsSt'[u] = AbsSt[u]
    BY <1>3 DEF sem_up, Call, Goto, AbsSt
  <2> QED
    BY <1>2, <2>1 DEF Abs!Next, Abs!CallUp
<1>4. ASSUME NEW t \in Threads, sem_down(t) PROVE Abs!Next
  <2>1. /\ AbsSt[t] = "out" /\ AbsSt'[t] = "down" /\ count' = count
        /\ \A u \in Threads : u # t => AbsSt'[u] = AbsSt[u]
    BY <1>4 DEF sem_down, Call, Goto, AbsSt
  <2> QED
    BY <1>2, <2>1 DEF Abs!Next, Abs!CallDown
<1>5. ASSUME NEW t \in Threads, Lock(t) \/ Unlock(t) \/ Spurious(t)
      PROVE  UNCHANGED Abs!vars
  <2>1. \A u \in Threads : AbsSt'[u] = AbsSt[u]
    BY <1>5 DEF Lock, Unlock, Spurious, Goto, AbsSt
  <2> QED
    BY <1>1, <1>5, <2>1 DEF Lock, Unlock, Spurious
<1>6. ASSUME NEW t \in Threads, UpBody(t) PROVE Abs!Next
  <2>1. PICK w \in IF Waiters = {} THEN {NULL} ELSE Waiters : Signalled(t, w)
    BY <1>6 DEF UpBody
  <2>2. Waiters # {} => w \in Threads /\ pc[w] = "wait" /\ w # t
    BY <1>6, <2>1 DEF Waiters, UpBody
  <2>3. /\ pc[t] = "ubody" /\ pc'[t] = "uunlock"
        /\ \A u \in Threads :
              u # t => pc'[u] = pc[u] \/ (pc[u] = "wait" /\ pc'[u] = "dlock")
    BY <1>6, <2>1, <2>2 DEF UpBody, Signalled
  <2>4. /\ AbsSt[t] = "up" /\ AbsSt'[t] = "out"
        /\ \A u \in Threads : u # t => AbsSt'[u] = AbsSt[u]
    BY <2>3 DEF AbsSt
  <2> QED
    BY <1>2, <1>6, <2>4 DEF UpBody, Abs!Next, Abs!Serve, Abs!DoUp
<1>7. ASSUME NEW t \in Threads, DownBody(t)
      PROVE  Abs!Next \/ UNCHANGED Abs!vars
  <2>1. CASE count = 0
    <3>1. count' = count /\ \A u \in Threads : AbsSt'[u] = AbsSt[u]
      BY <1>7, <2>1 DEF DownBody, Goto, AbsSt
    <3> QED
      BY <1>1, <3>1
  <2>2. CASE count > 0
    <3>1. /\ AbsSt[t] = "down" /\ AbsSt'[t] = "out" /\ count' = count - 1
          /\ \A u \in Threads : u # t => AbsSt'[u] = AbsSt[u]
      BY <1>7, <2>2 DEF DownBody, Goto, AbsSt
    <3> QED
      BY <1>2, <2>2, <3>1 DEF Abs!Next, Abs!Serve, Abs!DoDown
  <2> QED
    BY <2>1, <2>2
<1>8. CASE UNCHANGED vars
  BY <1>8 DEF vars, AbsSt, Abs!vars
<1> QED
  BY <1>3, <1>4, <1>5, <1>6, <1>7, <1>8 DEF Next, Step

(* sem_up and sem_down of envs/posix.c act as the atomic operations that   *)
(* the kernel expects, for any number of threads; that they serve somebody *)
(* whenever they can is the fair half of ImplementsSemaphore, which TLC    *)
(* checks.                                                                 *)
THEOREM ActsAtomically == Spec => Abs!Safety
<1>1. Init => Abs!Init
  BY DEF Init, Abs!Init, AbsSt
<1> QED
  BY <1>1, Invariance, AtomicStep, PTL DEF Spec, Abs!Safety
=============================================================================
