------------------------------ MODULE LklTimer ------------------------------
(***************************************************************************)
(* The timer of arch/lkl: kernel/timer.c asks the host for an interrupt by *)
(* lkl_nops->timer(delta), and the timer thread of envs/posix.c, which     *)
(* gets the requests through a pipe, raises TIMER_IRQ when the time is     *)
(* over.  kernel/setup.c stops the timer and then frees the interrupt      *)
(* layer.  lkl_env_init creates the timer thread and then the thread of    *)
(* the kernel, and nothing orders the two afterwards.                      *)
(*                                                                         *)
(* Time is left out: a finite timeout may end whenever the pipe is empty.  *)
(***************************************************************************)
EXTENDS Naturals, Sequences

CONSTANTS MaxDelta,    \* largest delta the clock event code asks for
          PipeSize,    \* requests the pipe holds; a writer waits for room
          MaxReqs,     \* bound: requests made while the kernel is up
          MaxErrors    \* bound: polls that fail (a signal)

ASSUME BoundsAssumption ==
    MaxDelta \in Nat /\ PipeSize \in Nat \ {0} /\ MaxReqs \in Nat
    /\ MaxErrors \in Nat

LKL_TIMER_INIT == 0
LKL_TIMER_SHUTDOWN == 1
LKL_TIMER_LAST_OP == 1

VARIABLES
    kpc,       \* how far lkl_start_kernel is
    irqs,      \* the interrupt layer: "none", "up" or "freed"
    pending,   \* irqs[TIMER_IRQ].no_data_count
    armed,     \* BOOLEAN: the clock event device is programmed
    tpc,       \* the step the timer thread is at
    pipe,      \* BOOLEAN: timer_pipe[] is open
    fifo,      \* Seq(Nat): what is in the pipe
    timeout,   \* BOOLEAN: timeout_ms is not -1
    \* history
    reqs, errors, fired,   \* requests written, polls failed, interrupts raised
    lost                   \* BOOLEAN: a request was written with no pipe

kernel == <<kpc, irqs, armed>>
thread == <<tpc, timeout, errors>>
vars == <<kernel, pending, thread, pipe, fifo, reqs, fired, lost>>

TypeOK ==
    /\ kpc \in {"boot", "irq", "time", "up", "stopped", "halted"}
    /\ irqs \in {"none", "up", "freed"}
    /\ pending \in Nat /\ fired \in Nat
    /\ armed \in BOOLEAN /\ pipe \in BOOLEAN /\ timeout \in BOOLEAN
    /\ lost \in BOOLEAN
    /\ tpc \in {"create", "first", "poll", "read", "fire", "gone"}
    /\ fifo \in Seq(Nat) /\ Len(fifo) <= PipeSize
    /\ reqs \in 0 .. MaxReqs + 3 /\ errors \in 0 .. MaxErrors

Init ==
    /\ kpc = "boot" /\ irqs = "none" /\ pending = 0 /\ armed = FALSE
    /\ tpc = "create" /\ pipe = FALSE /\ fifo = <<>> /\ timeout = FALSE
    /\ reqs = 0 /\ errors = 0 /\ fired = 0 /\ lost = FALSE

-----------------------------------------------------------------------------
(* lkl_nops->timer and the kernel.                                         *)

\* timer: a write to the pipe.  With no pipe yet, timer_pipe[1] is 0 and the
\* request goes to the standard input.
timer(delta) ==
    /\ reqs' = reqs + 1
    /\ \/ pipe /\ Len(fifo) < PipeSize /\ fifo' = Append(fifo, delta)
          /\ UNCHANGED lost
       \/ ~pipe /\ lost' = TRUE /\ UNCHANGED fifo

\* Mutant: off by one.
ClampedLess(delta) ==
    IF delta < LKL_TIMER_LAST_OP THEN LKL_TIMER_LAST_OP + 1 ELSE delta

\* clockevent_next_event keeps a request apart from the special ones.
Clamped(delta) ==
    IF delta <= LKL_TIMER_LAST_OP THEN LKL_TIMER_LAST_OP + 1 ELSE delta

clockevent_next_event(delta) == timer(Clamped(delta)) /\ armed' = TRUE

init_IRQ ==
    /\ kpc = "boot"
    /\ kpc' = "irq" /\ irqs' = "up"
    /\ UNCHANGED <<pending, armed, thread, pipe, fifo, reqs, fired, lost>>

\* time_init: clockevents_register_device programs the first tick ...
RegisterDevice ==
    /\ kpc = "irq"
    /\ \E delta \in 0 .. MaxDelta : clockevent_next_event(delta)
    /\ kpc' = "time"
    /\ UNCHANGED <<irqs, pending, thread, pipe, fired>>

\* Mutant: LKL_TIMER_INIT is not sent.
TimerInitSkipped ==
    /\ kpc = "time"
    /\ kpc' = "up"
    /\ UNCHANGED <<irqs, pending, armed, thread, pipe, fifo, reqs, fired, lost>>

\* ... and only then LKL_TIMER_INIT is sent.
TimerInit ==
    /\ kpc = "time"
    /\ timer(LKL_TIMER_INIT)
    /\ kpc' = "up"
    /\ UNCHANGED <<irqs, pending, armed, thread, pipe, fired>>

\* The kernel programs the clock event device anew.
Reprogram ==
    /\ kpc = "up" /\ reqs < MaxReqs + 2
    /\ \E delta \in 0 .. MaxDelta : clockevent_next_event(delta)
    /\ UNCHANGED <<kpc, irqs, pending, thread, pipe, fired>>

\* Mutant: the handler runs with no interrupt pending.
timer_irq_spurious ==
    /\ kpc = "up"
    /\ pending' = pending - 1
    /\ armed' = FALSE
    /\ UNCHANGED <<kpc, irqs, thread, pipe, fifo, reqs, fired, lost>>

\* timer_irq; the event handler may program the next event.
timer_irq ==
    /\ kpc = "up" /\ pending > 0
    /\ pending' = pending - 1
    /\ \/ armed' = FALSE /\ UNCHANGED <<fifo, reqs, lost>>
       \/ /\ reqs < MaxReqs + 2
          /\ \E delta \in 0 .. MaxDelta : clockevent_next_event(delta)
    /\ UNCHANGED <<kpc, irqs, thread, pipe, fired>>

\* lkl_start_kernel, after threads_cleanup: timer(LKL_TIMER_SHUTDOWN)
StopTimer ==
    /\ kpc = "up"
    /\ timer(LKL_TIMER_SHUTDOWN)
    /\ kpc' = "stopped"
    /\ UNCHANGED <<irqs, pending, armed, thread, pipe, fired>>

\* free_syscall, which frees a lock of syscalls.c, and free_IRQ, which frees
\* every semaphore of irq.c
free_IRQ ==
    /\ kpc = "stopped"
    /\ kpc' = "halted" /\ irqs' = "freed"
    /\ UNCHANGED <<pending, armed, thread, pipe, fifo, reqs, fired, lost>>

-----------------------------------------------------------------------------
(* timer_thread.                                                           *)

\* pipe(timer_pipe); the thread ends when that fails.
CreatePipe ==
    /\ tpc = "create"
    /\ \/ tpc' = "first" /\ pipe' = TRUE
       \/ tpc' = "gone" /\ UNCHANGED pipe
    /\ UNCHANGED <<kernel, pending, fifo, timeout, reqs, errors, fired, lost>>

\* The read before the loop: whatever comes first is taken and dropped.
FirstRead ==
    /\ tpc = "first" /\ fifo # <<>>
    /\ tpc' = "poll" /\ fifo' = Tail(fifo)
    /\ UNCHANGED <<kernel, pending, timeout, pipe, reqs, errors, fired, lost>>

\* Mutant: timeout_ms is not set back to -1.
PollKeepsTimeout ==
    /\ tpc = "poll"
    /\ \/ fifo # <<>> /\ tpc' = "read"
       \/ fifo = <<>> /\ timeout /\ tpc' = "fire"
    /\ UNCHANGED <<kernel, pending, timeout, errors, pipe, fifo, reqs, fired,
                   lost>>

\* poll: the pipe is readable, or the time is over.
Poll ==
    /\ tpc = "poll"
    /\ \/ fifo # <<>> /\ tpc' = "read"
       \/ fifo = <<>> /\ timeout /\ tpc' = "fire"
    /\ timeout' = FALSE
    /\ UNCHANGED <<kernel, pending, errors, pipe, fifo, reqs, fired, lost>>

\* poll fails: reported, and then treated as the end of the timeout.
PollFails ==
    /\ tpc = "poll" /\ errors < MaxErrors
    /\ errors' = errors + 1
    /\ tpc' = "fire" /\ timeout' = FALSE
    /\ UNCHANGED <<kernel, pending, pipe, fifo, reqs, fired, lost>>

\* Mutant: LKL_TIMER_SHUTDOWN is taken for a request.
ReadAnything ==
    /\ tpc = "read"
    /\ fifo' = Tail(fifo)
    /\ tpc' = "poll" /\ timeout' = TRUE
    /\ UNCHANGED <<kernel, pending, pipe, reqs, errors, fired, lost>>

\* A request: the thread returns, or the next poll has a timeout (at least
\* one millisecond, LKL_TIMER_INIT included).
ReadRequest ==
    /\ tpc = "read"
    /\ fifo' = Tail(fifo)
    /\ \/ /\ Head(fifo) = LKL_TIMER_SHUTDOWN
          /\ tpc' = "gone" /\ UNCHANGED timeout
       \/ /\ Head(fifo) # LKL_TIMER_SHUTDOWN
          /\ tpc' = "poll" /\ timeout' = TRUE
    /\ UNCHANGED <<kernel, pending, pipe, reqs, errors, fired, lost>>

\* lkl_trigger_irq(TIMER_IRQ)
Fire ==
    /\ tpc = "fire"
    /\ tpc' = "poll"
    /\ pending' = pending + 1
    /\ fired' = fired + 1
    /\ UNCHANGED <<kernel, timeout, pipe, fifo, reqs, errors, lost>>

-----------------------------------------------------------------------------
TimerThread == CreatePipe \/ FirstRead \/ Poll \/ ReadRequest \/ Fire
Boot == init_IRQ \/ RegisterDevice \/ TimerInit
Shutdown == StopTimer \/ free_IRQ
Next == TimerThread \/ PollFails \/ Boot \/ Reprogram \/ timer_irq \/ Shutdown

Spec == Init /\ [][Next]_vars

(* The timer thread and the boot of the kernel go on; the idle thread      *)
(* delivers what is raised (LklIrq!Delivered).  No poll has to fail.       *)
FairSpec ==
    /\ Spec
    /\ WF_vars(TimerThread) /\ WF_vars(Boot) /\ WF_vars(timer_irq)

-----------------------------------------------------------------------------
(* Properties. *)

(* callbacks.h: the timer is to "Request a timer interrupt in delta        *)
(* nanoseconds".  A programmed event is followed by a timer interrupt the  *)
(* kernel handles, although the timer thread drops the first request it    *)
(* reads and a new request replaces the one before.  This needs the pipe   *)
(* to be there before the kernel first writes to it.                       *)
TickArrives == armed /\ ~lost ~> ~armed \/ lost \/ kpc \in {"stopped", "halted"}

(* LKL_TIMER_SHUTDOWN ends the timer thread, behind whatever requests are  *)
(* still in the pipe, when none was written before there was a pipe.       *)
TimerStops == kpc = "stopped" /\ ~lost ~> tpc = "gone"

(* The timer thread goes away only when it is told to: no delta that the   *)
(* clock event code asks for, 0 and 1 included, is taken for a special     *)
(* request.                                                                *)
StaysUntilShutdown == pipe /\ tpc = "gone" => kpc \in {"stopped", "halted"}

(* The device is CLOCK_EVT_FEAT_ONESHOT: a request raises at most one      *)
(* interrupt, and so does a failed poll.                                   *)
OneShot == fired <= reqs + errors

(* setup.c: "Stop the timer." comes before free_IRQ.  The timer thread     *)
(* raises no interrupt when the semaphores of irq.c have been freed.       *)
TriggerSafe == tpc = "fire" => irqs = "up"
=============================================================================
