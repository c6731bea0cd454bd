--------------------------- MODULE LklTimer_proof ---------------------------
(***************************************************************************)
(* Proofs about LklTimer, for any deltas, any size of the pipe and any     *)
(* number of requests and of failing polls.                                *)
(***************************************************************************)
EXTENDS LklTimer, SequenceTheorems, TLAPS

\* Two requests are made by time_init, and one by the shutdown.
ReqsInv ==
    /\ kpc \in {"boot", "irq"} => reqs = 0
    /\ kpc = "time" => reqs = 1
    /\ kpc = "up" => reqs <= MaxReqs + 2

\* The timer thread reads only what poll has seen in the pipe, and the pipe
\* that it has still to create is not there.
ReadInv ==
    /\ tpc = "read" => fifo # <<>>
    /\ tpc = "create" => ~pipe

\* In the pipe, LKL_TIMER_SHUTDOWN is what setup.c has written.
ShutdownInv ==
    \A k \in DOMAIN fifo :
        fifo[k] = LKL_TIMER_SHUTDOWN => kpc \in {"stopped", "halted"}

\* A request stands for at most one of: a message in the pipe, a timeout, an
\* interrupt about to be raised, an interrupt that was raised.
Credit ==
    fired + Len(fifo) + (IF timeout THEN 1 ELSE 0) + (IF tpc = "fire" THEN 1 ELSE 0)

IInv ==
    /\ TypeOK /\ ReqsInv /\ ReadInv /\ ShutdownInv /\ StaysUntilShutdown
    /\ Credit <= reqs + errors

USE BoundsAssumption
USE DEF LKL_TIMER_INIT, LKL_TIMER_SHUTDOWN, LKL_TIMER_LAST_OP

(* What clockevent_next_event writes is never a special request.           *)
LEMMA ClampedApart ==
    \A delta \in 0 .. MaxDelta :
        Clamped(delta) \in Nat /\ Clamped(delta) # LKL_TIMER_SHUTDOWN
BY DEF Clamped

(* A write to the pipe: one more request, one more message at the most,    *)
(* and the messages of before.                                             *)
LEMMA WriteFacts ==
    ASSUME TypeOK, NEW delta \in Nat, timer(delta)
    PROVE  /\ fifo' \in Seq(Nat) /\ Len(fifo') <= PipeSize
           /\ reqs' = reqs + 1 /\ Len(fifo') <= Len(fifo) + 1
           /\ lost' \in BOOLEAN
           /\ fifo # <<>> => fifo' # <<>>
           /\ \A k \in DOMAIN fifo' :
                 fifo'[k] = delta \/ (k \in DOMAIN fifo /\ fifo'[k] = fifo[k])
<1>1. lost' \in BOOLEAN
  BY Zenon DEF TypeOK, timer
<1>2. CASE fifo' = Append(fifo, delta) /\ Len(fifo) < PipeSize
  <2>1. fifo \in Seq(Nat)
    BY DEF TypeOK
  <2>2. /\ fifo' \in Seq(Nat) /\ Len(fifo') = Len(fifo) + 1
        /\ fifo'[Len(fifo) + 1] = delta
        /\ \A k \in 1 .. Len(fifo) : fifo'[k] = fifo[k]
    BY <1>2, <2>1, AppendProperties
  <2> QED
    BY <1>1, <1>2, <2>1, <2>2 DEF timer, TypeOK
<1>3. CASE UNCHANGED fifo
  BY <1>1, <1>3 DEF timer, TypeOK
<1> QED
  BY <1>2, <1>3 DEF timer

(* A read from the pipe takes the first message and leaves the others.     *)
LEMMA ReadFacts ==
    ASSUME NEW q \in Seq(Nat), q # <<>>
    PROVE  /\ Tail(q) \in Seq(Nat) /\ Len(Tail(q)) = Len(q) - 1
           /\ Len(q) \in Nat \ {0}
           /\ 1 \in DOMAIN q /\ Head(q) = q[1]
           /\ \A k \in DOMAIN Tail(q) : k + 1 \in DOMAIN q /\ Tail(q)[k] = q[k + 1]
BY HeadTailProperties, LenProperties

(* The flags of the kernel and of the timer thread stay Boolean.           *)
LEMMA FlagsStep ==
    TypeOK /\ [Next]_vars =>
        armed' \in BOOLEAN /\ pipe' \in BOOLEAN /\ timeout' \in BOOLEAN
        /\ lost' \in BOOLEAN
<1> SUFFICES ASSUME TypeOK, [Next]_vars
             PROVE  armed' \in BOOLEAN /\ pipe' \in BOOLEAN
                    /\ timeout' \in BOOLEAN /\ lost' \in BOOLEAN
  OBVIOUS
<1>0. armed \in BOOLEAN /\ pipe \in BOOLEAN /\ timeout \in BOOLEAN /\ lost \in BOOLEAN
  BY DEF TypeOK
<1>1. CASE Boot
  BY <1>0, <1>1, Zenon DEF Boot, init_IRQ, RegisterDevice, TimerInit,
                    clockevent_next_event, timer, thread
<1>2. CASE Reprogram \/ timer_irq
  BY <1>0, <1>2, Zenon DEF Reprogram, timer_irq, clockevent_next_event, timer, thread
<1>3. CASE Shutdown
  BY <1>0, <1>3, Zenon DEF Shutdown, StopTimer, free_IRQ, timer, thread
<1>4. CASE TimerThread
  BY <1>0, <1>4, Zenon DEF TimerThread, CreatePipe, FirstRead, Poll, ReadRequest,
                           Fire, kernel
<1>5. CASE PollFails
  BY <1>0, <1>5, Zenon DEF PollFails, kernel
<1>6. CASE UNCHANGED vars
  BY <1>0, <1>6, Zenon DEF vars, kernel, thread
<1> QED
  BY <1>1, <1>2, <1>3, <1>4, <1>5, <1>6 DEF Next

(* A step of the kernel that asks the host for an interrupt.               *)
LEMMA RequestStep ==
    ASSUME IInv, NEW delta \in Nat, timer(delta),
           UNCHANGED <<thread, pipe, fired>>, TypeOK', ReqsInv',
           delta = LKL_TIMER_SHUTDOWN => kpc' = "stopped",
           kpc \notin {"stopped", "halted"}
    PROVE  IInv'
<1> USE DEF IInv, thread
<1>1. ReadInv'
  BY WriteFacts DEF ReadInv
<1>2. ShutdownInv'
  BY WriteFacts DEF ShutdownInv
<1>3. StaysUntilShutdown'
  BY DEF StaysUntilShutdown
<1>4. (Credit <= reqs + errors)'
  BY WriteFacts DEF Credit, TypeOK
<1> QED
  BY <1>1, <1>2, <1>3, <1>4

(* Every step keeps the inductive invariant.                               *)
LEMMA InvStep == IInv /\ [Next]_vars => IInv'
<1> SUFFICES ASSUME IInv, [Next]_vars PROVE IInv'
  OBVIOUS
<1>0. armed' \in BOOLEAN /\ pipe' \in BOOLEAN /\ timeout' \in BOOLEAN /\ lost' \in BOOLEAN
  BY FlagsStep DEF IInv
<1>1. CASE init_IRQ
  BY <1>0, <1>1 DEF init_IRQ, IInv, TypeOK, ReqsInv, ReadInv, ShutdownInv,
               StaysUntilShutdown, Credit, thread
<1>2. CASE RegisterDevice
  <2>1. PICK delta \in 0 .. MaxDelta : timer(Clamped(delta))
    BY <1>2 DEF RegisterDevice, clockevent_next_event
  <2>2. Clamped(delta) \in Nat /\ Clamped(delta) # LKL_TIMER_SHUTDOWN
    BY ClampedApart
  <2>3. UNCHANGED <<irqs, pending, thread, pipe, fired>> /\ kpc = "irq" /\ kpc' = "time"
    BY <1>2 DEF RegisterDevice
  <2>4. TypeOK' /\ ReqsInv'
    BY <1>0, <2>1, <2>2, <2>3, WriteFacts DEF IInv, TypeOK, ReqsInv, thread
  <2> QED
    BY <2>1, <2>2, <2>3, <2>4, RequestStep
<1>3. CASE TimerInit
  <2>1. timer(LKL_TIMER_INIT) /\ kpc = "time" /\ kpc' = "up"
        /\ UNCHANGED <<irqs, pending, thread, pipe, fired>>
    BY <1>3 DEF TimerInit
  <2>2. TypeOK' /\ ReqsInv'
    BY <1>0, <2>1, WriteFacts DEF IInv, TypeOK, ReqsInv, thread
  <2> QED
    BY <2>1, <2>2, RequestStep
<1>4. CASE Reprogram
  <2>1. PICK delta \in 0 .. MaxDelta : timer(Clamped(delta))
    BY <1>4 DEF Reprogram, clockevent_next_event
  <2>2. Clamped(delta) \in Nat /\ Clamped(delta) # LKL_TIMER_SHUTDOWN
    BY ClampedApart
  <2>3. UNCHANGED <<kpc, irqs, pending, thread, pipe, fired>> /\ kpc = "up"
        /\ reqs < MaxReqs + 2
    BY <1>4 DEF Reprogram
  <2>4. TypeOK' /\ ReqsInv'
    BY <1>0, <2>1, <2>2, <2>3, WriteFacts DEF IInv, TypeOK, ReqsInv, thread
  <2> QED
    BY <2>1, <2>2, <2>3, <2>4, RequestStep
<1>5. CASE timer_irq
  <2>1. UNCHANGED <<kpc, irqs, thread, pipe, fired>> /\ kpc = "up"
        /\ pending > 0 /\ pending' = pending - 1
    BY <1>5 DEF timer_irq
  <2>2. CASE UNCHANGED <<fifo, reqs, lost>>
    BY <1>0, <2>1, <2>2 DEF IInv, TypeOK, ReqsInv, ReadInv, ShutdownInv,
                       StaysUntilShutdown, Credit, thread
  <2>3. CASE /\ reqs < MaxReqs + 2
             /\ \E delta \in 0 .. MaxDelta : clockevent_next_event(delta)
    <3>1. PICK delta \in 0 .. MaxDelta : timer(Clamped(delta))
      BY <2>3 DEF clockevent_next_event
    <3>2. Clamped(delta) \in Nat /\ Clamped(delta) # LKL_TIMER_SHUTDOWN
      BY ClampedApart
    <3>3. TypeOK' /\ ReqsInv'
      BY <1>0, <2>1, <2>3, <3>1, <3>2, WriteFacts DEF IInv, TypeOK, ReqsInv, thread
    <3> QED
      BY <2>1, <3>1, <3>2, <3>3, RequestStep
  <2> QED
    BY <1>5, <2>2, <2>3 DEF timer_irq
<1>6. CASE StopTimer
  <2>1. timer(LKL_TIMER_SHUTDOWN) /\ kpc = "up" /\ kpc' = "stopped"
        /\ UNCHANGED <<irqs, pending, thread, pipe, fired>>
    BY <1>6 DEF StopTimer
  <2>2. TypeOK' /\ ReqsInv'
    BY <1>0, <2>1, WriteFacts DEF IInv, TypeOK, ReqsInv, thread
  <2> QED
    BY <2>1, <2>2, RequestStep
<1>7. CASE free_IRQ
  BY <1>0, <1>7 DEF free_IRQ, IInv, TypeOK, ReqsInv, ReadInv, ShutdownInv,
               StaysUntilShutdown, Credit, thread
<1>8. CASE CreatePipe
  BY <1>0, <1>8 DEF CreatePipe, IInv, TypeOK, ReqsInv, ReadInv, ShutdownInv,
               StaysUntilShutdown, Credit, kernel
<1>9. CASE FirstRead
  <2>1. ShutdownInv'
    BY <1>9, ReadFacts DEF FirstRead, IInv, TypeOK, ShutdownInv, kernel
  <2> QED
    BY <1>0, <1>9, <2>1, ReadFacts DEF FirstRead, IInv, TypeOK, ReqsInv, ReadInv,
               StaysUntilShutdown, Credit, kernel
<1>10. CASE Poll \/ PollFails
  <2>1. /\ tpc = "poll" /\ tpc' \in {"read", "fire"}
        /\ tpc' = "read" => fifo # <<>>
        /\ UNCHANGED <<kernel, pending, pipe, fifo, reqs, fired, lost>>
    BY <1>10 DEF Poll, PollFails
  <2>2. errors' \in 0 .. MaxErrors /\ (Credit <= reqs + errors)'
    <3>1. CASE Poll /\ tpc' = "read"
      BY <2>1, <3>1 DEF Poll, IInv, TypeOK, Credit
    <3>2. CASE Poll /\ tpc' = "fire"
      BY <2>1, <3>2 DEF Poll, IInv, TypeOK, Credit
    <3>3. CASE PollFails
      BY <2>1, <3>3 DEF PollFails, IInv, TypeOK, Credit
    <3> QED
      BY <1>10, <2>1, <3>1, <3>2, <3>3
  <2>3. TypeOK' /\ ReqsInv' /\ ReadInv' /\ ShutdownInv' /\ StaysUntilShutdown'
    BY <1>0, <2>1, <2>2 DEF IInv, TypeOK, ReqsInv, ReadInv, ShutdownInv,
                            StaysUntilShutdown, kernel
  <2> QED
    BY <2>2, <2>3 DEF IInv
<1>11. CASE ReadRequest
  <2>1. fifo \in Seq(Nat) /\ fifo # <<>>
    BY <1>11 DEF ReadRequest, IInv, TypeOK, ReadInv
  <2>2. ShutdownInv'
    BY <1>11, <2>1, ReadFacts DEF ReadRequest, IInv, ShutdownInv, kernel
  <2>3. StaysUntilShutdown'
    BY <1>11, <2>1, ReadFacts DEF ReadRequest, IInv, ShutdownInv,
                                  StaysUntilShutdown, kernel
  <2> QED
    BY <1>0, <1>11, <2>1, <2>2, <2>3, ReadFacts
       DEF ReadRequest, IInv, TypeOK, ReqsInv, ReadInv, Credit, kernel
<1>12. CASE Fire
  BY <1>0, <1>12 DEF Fire, IInv, TypeOK, ReqsInv, ReadInv, ShutdownInv,
                StaysUntilShutdown, Credit, kernel
<1>13. CASE UNCHANGED vars
  BY <1>13 DEF vars, kernel, thread, IInv, TypeOK, ReqsInv, ReadInv, ShutdownInv,
                StaysUntilShutdown, Credit
<1> QED
  BY <1>1, <1>2, <1>3, <1>4, <1>5, <1>6, <1>7, <1>8, <1>9, <1>10, <1>11, <1>12,
     <1>13 DEF Next, TimerThread, Boot, Shutdown

(* The inductive invariant holds in every behaviour.                       *)
LEMMA Invariance == Spec => []IInv
<1>1. Init => IInv
  <2> SUFFICES ASSUME Init PROVE IInv
    OBVIOUS
  <2>1. armed \in BOOLEAN /\ pipe \in BOOLEAN /\ timeout \in BOOLEAN /\ lost \in BOOLEAN
    BY Zenon DEF Init
  <2>2. TypeOK
    BY <2>1 DEF Init, TypeOK
  <2> QED
    BY <2>2 DEF Init, IInv, ReqsInv, ReadInv, ShutdownInv, StaysUntilShutdown, Credit
<1> QED
  BY <1>1, InvStep, PTL DEF Spec

-----------------------------------------------------------------------------
(* The pipe never holds more than its size, the counters keep their        *)
(* bounds, and pending, from which timer_irq subtracts, is never negative. *)
THEOREM TypeCorrect == Spec => []TypeOK
<1>1. IInv => TypeOK
  BY DEF IInv
<1> QED
  BY <1>1, Invariance, PTL

(* For every delta the clock event code may ask for: the timer thread goes *)
(* away only after setup.c has sent LKL_TIMER_SHUTDOWN.                    *)
THEOREM EndsOnlyWhenTold == Spec => []StaysUntilShutdown
<1>1. IInv => StaysUntilShutdown
  BY DEF IInv
<1> QED
  BY <1>1, Invariance, PTL

(* However requests, timeouts and failing polls mix: a request raises at   *)
(* most one interrupt.                                                     *)
THEOREM RaisesOnce == Spec => []OneShot
<1>1. IInv => OneShot
  BY DEF IInv, OneShot, Credit, TypeOK
<1> QED
  BY <1>1, Invariance, PTL
=============================================================================
