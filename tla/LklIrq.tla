------------------------------- MODULE LklIrq -------------------------------
(***************************************************************************)
(* arch/lkl/kernel/irq.c: how host threads raise interrupts and how the    *)
(* idle thread of the kernel waits for them and runs their handlers.       *)
(*                                                                         *)
(* Every host thread may call lkl_trigger_irq and                          *)
(* lkl_trigger_irq_with_data at any time, in parallel with each other and  *)
(* with the kernel.  The kernel itself is cooperative: exactly one of its  *)
(* threads runs, and while the idle thread (cpu_idle, run_irqs) has the    *)
(* CPU no other kernel thread moves.  The other kernel threads are one     *)
(* process, Kern, that acts while idle is inside schedule(): it may call   *)
(* lkl_purge_irq_queue (the network driver's stop) and halt the machine.   *)
(*                                                                         *)
(* The native semaphores are counters: a down waits for a positive value.  *)
(* An up of a semaphore at SemMax is lost, as with the limit of 100 that   *)
(* envs/nt.c gives CreateSemaphore; envs/posix.c counts in an int.         *)
(***************************************************************************)
EXTENDS Naturals, Sequences

CONSTANTS Threads,    \* host threads that raise interrupts
          Kern,       \* the kernel threads other than idle
          NR_IRQS,    \* number of interrupt lines
          SemMax,     \* largest value of a native semaphore
          MaxCalls,   \* bound: calls into irq.c made by one host thread
          NoItem      \* the uninitialised struct pt_regs

ASSUME ThreadsAssumption == Kern \notin Threads
ASSUME NumIrqsAssumption == NR_IRQS \in Nat \ {0}
ASSUME SemMaxAssumption == SemMax \in Nat \ {0}
ASSUME MaxCallsAssumption == MaxCalls \in Nat

Irqs == 0 .. NR_IRQS - 1
Procs == Threads \cup {Kern}

\* The data pointer of a call: the calls of a thread are told apart by number.
Items == Threads \X (1 .. MaxCalls)

\* The arguments of a process that is in none of the calls.
NoCall == [op |-> "purge", irq |-> 0]

VARIABLES
    lock,           \* [Irqs -> 0..1]: irqs[i].lock
    no_data_count,  \* [Irqs -> Nat]: irqs[i].no_data_count
    data_list,      \* [Irqs -> Seq(Items)]: irqs[i].data_list
    sem,            \* 0..SemMax: the semaphore idle sleeps on
    pc,             \* [Procs -> step of the call the process is in]
    req,            \* [Procs -> the call: its operation and interrupt]
    calls,          \* [Threads -> Nat]: calls the thread has started
    ipc,            \* the step the idle thread is at
    cur,            \* run_irqs: the loop variable i
    part,           \* which of the two while loops of run_irqs idle is in
    got,            \* BOOLEAN: the dequeue found something
    regs,           \* the item the last dequeue_data found
    need_resched,   \* BOOLEAN: TIF_NEED_RESCHED of the idle thread
    linux_halted,   \* BOOLEAN
    rcu_start, rcu_done,  \* BOOLEAN
    loop,           \* cpu_idle's loop variable
    handled,        \* [Irqs -> Seq(Items)]: history, data given to handlers
    due,            \* history: items pending when linux_halted was set
    due_count       \* [Irqs -> Nat]: history, interrupts without data that were
                    \* pending then and are not yet handled or purged

queues == <<no_data_count, data_list>>
procs == <<pc, req, calls>>
idle == <<ipc, cur, part, got, regs, need_resched, rcu_start, loop>>
history == <<handled, due, due_count>>
vars == <<lock, queues, sem, procs, idle, linux_halted, rcu_done, history>>

QueueTypes ==
    /\ lock \in [Irqs -> 0 .. 1]
    /\ no_data_count \in [Irqs -> Nat]
    /\ data_list \in [Irqs -> Seq(Items)]
    /\ sem \in 0 .. SemMax

CallTypes ==
    /\ pc \in [Procs -> {"out", "alloc", "down", "update", "up", "post"}]
    /\ req \in [Procs -> [op : {"trigger", "data", "purge"}, irq : Irqs]]
    /\ calls \in [Threads -> 0 .. MaxCalls]

IdleTypes ==
    /\ ipc \in {"top", "wait", "down", "take", "up", "handle", "again",
                "resched", "sched", "exited"}
    /\ cur \in Irqs
    /\ part \in {"nodata", "data"}
    /\ got \in BOOLEAN
    /\ regs \in Items \cup {NoItem}
    /\ need_resched \in BOOLEAN /\ linux_halted \in BOOLEAN
    /\ rcu_start \in BOOLEAN /\ rcu_done \in BOOLEAN
    /\ loop \in 0 .. 1

HistoryTypes ==
    /\ handled \in [Irqs -> Seq(Items)]
    /\ due \in SUBSET Items
    /\ due_count \in [Irqs -> Nat]

(* The type invariant.  It says more than types of two variables: the      *)
(* semaphore that guards a line of irqs[] is never above 1, so that it is  *)
(* a lock, and cpu_idle's loop variable, which is counted down and up in   *)
(* every round after the halt, stays between 0 and 1.                      *)
TypeOK == QueueTypes /\ CallTypes /\ IdleTypes /\ HistoryTypes

-----------------------------------------------------------------------------
(* Native semaphores. *)

SemUp(s) == IF s < SemMax THEN s + 1 ELSE s

\* irqs[i].lock is a semaphore allocated with value 1.
LockDown(i) == lock[i] > 0 /\ lock' = [lock EXCEPT ![i] = @ - 1]
LockUp(i) == lock' = [lock EXCEPT ![i] = SemUp(@)]

-----------------------------------------------------------------------------
(* init_IRQ, the state in which lkl_trigger_irq may first be called, and   *)
(* the state in which cpu_idle is entered: the boot thread is the idle     *)
(* thread.                                                                 *)
Init ==
    /\ lock = [i \in Irqs |-> 1]
    /\ no_data_count = [i \in Irqs |-> 0]
    /\ data_list = [i \in Irqs |-> <<>>]
    /\ sem = 0
    /\ pc = [p \in Procs |-> "out"]
    /\ req = [p \in Procs |-> NoCall]
    /\ calls = [t \in Threads |-> 0]
    /\ ipc = "top" /\ cur = 0 /\ part = "nodata"
    /\ got = FALSE /\ regs = NoItem
    /\ need_resched = FALSE /\ linux_halted = FALSE
    /\ rcu_start = FALSE /\ rcu_done = FALSE /\ loop = 1
    /\ handled = [i \in Irqs |-> <<>>]
    /\ due = {} /\ due_count = [i \in Irqs |-> 0]

-----------------------------------------------------------------------------
(* The calls of host threads and of kernel threads.                        *)

Goto(p, l) == pc' = [pc EXCEPT ![p] = l]
Return(p) == Goto(p, "out") /\ req' = [req EXCEPT ![p] = NoCall]
ItemOf(t) == <<t, calls[t]>>

\* Mutant: list_add for list_add_tail.
EnqueueFirst(q, x) == <<x>> \o q

\* list_add_tail
Enqueue(q, x) == Append(q, x)

\* lkl_trigger_irq: the caller starts with the down of the lock.
lkl_trigger_irq(t, i) ==
    /\ pc[t] = "out" /\ calls[t] < MaxCalls
    /\ calls' = [calls EXCEPT ![t] = @ + 1]
    /\ req' = [req EXCEPT ![t] = [op |-> "trigger", irq |-> i]]
    /\ Goto(t, "down")
    /\ UNCHANGED <<lock, queues, sem, idle, linux_halted, rcu_done, history>>

\* lkl_trigger_irq_with_data: struct irq_data is allocated first.
lkl_trigger_irq_with_data(t, i) ==
    /\ pc[t] = "out" /\ calls[t] < MaxCalls
    /\ calls' = [calls EXCEPT ![t] = @ + 1]
    /\ req' = [req EXCEPT ![t] = [op |-> "data", irq |-> i]]
    /\ Goto(t, "alloc")
    /\ UNCHANGED <<lock, queues, sem, idle, linux_halted, rcu_done, history>>

\* mem_alloc succeeds, or the call returns -ENOMEM and nothing is raised.
AllocItem(t) ==
    /\ pc[t] = "alloc"
    /\ \/ Goto(t, "down") /\ UNCHANGED req
       \/ Return(t)
    /\ UNCHANGED <<lock, queues, sem, calls, idle, linux_halted,
                   rcu_done, history>>

\* lkl_purge_irq_queue, called by a kernel thread.
lkl_purge_irq_queue(i) ==
    /\ ipc = "sched" /\ pc[Kern] = "out"
    /\ req' = [req EXCEPT ![Kern] = [op |-> "purge", irq |-> i]]
    /\ Goto(Kern, "down")
    /\ UNCHANGED <<lock, queues, sem, calls, idle, linux_halted, rcu_done,
                   history>>

\* sem_down(irqs[irq].lock)
CallDown(p) ==
    /\ pc[p] = "down"
    /\ LockDown(req[p].irq)
    /\ Goto(p, "update")
    /\ UNCHANGED <<queues, sem, req, calls, idle, linux_halted, rcu_done,
                   history>>

\* The statements under the lock.
CallUpdate(p) ==
    LET i == req[p].irq IN
    /\ pc[p] = "update"
    /\ \/ /\ req[p].op = "trigger"
          /\ no_data_count' = [no_data_count EXCEPT ![i] = @ + 1]
          /\ UNCHANGED <<data_list, due_count>>
       \/ /\ req[p].op = "data"
          /\ data_list' = [data_list EXCEPT ![i] = Enqueue(@, ItemOf(p))]
          /\ UNCHANGED <<no_data_count, due_count>>
       \/ /\ req[p].op = "purge"
          /\ no_data_count' = [no_data_count EXCEPT ![i] = 0]
          /\ data_list' = [data_list EXCEPT ![i] = <<>>]
          /\ due_count' = [due_count EXCEPT ![i] = 0]
    /\ Goto(p, "up")
    /\ UNCHANGED <<lock, sem, req, calls, idle, linux_halted, rcu_done,
                   handled, due>>

\* sem_up(irqs[irq].lock); the triggers go on to wake the idle thread.
CallUp(p) ==
    /\ pc[p] = "up"
    /\ LockUp(req[p].irq)
    /\ \/ req[p].op = "purge" /\ Return(p)
       \/ req[p].op # "purge" /\ Goto(p, "post") /\ UNCHANGED req
    /\ UNCHANGED <<queues, sem, calls, idle, linux_halted, rcu_done,
                   history>>

\* Mutant: the idle thread is not woken.
CallPostSilent(p) ==
    /\ pc[p] = "post"
    /\ Return(p)
    /\ UNCHANGED <<lock, queues, sem, calls, idle, linux_halted, rcu_done,
                   history>>

\* sem_up(sem)
CallPost(p) ==
    /\ pc[p] = "post"
    /\ sem' = SemUp(sem)
    /\ Return(p)
    /\ UNCHANGED <<lock, queues, calls, idle, linux_halted, rcu_done,
                   history>>

\* What a call does once it has started.
CallStep(p) == CallDown(p) \/ CallUpdate(p) \/ CallUp(p) \/ CallPost(p)
ThreadStep(t) == AllocItem(t) \/ CallStep(t)

-----------------------------------------------------------------------------
(* The idle thread: cpu_idle and run_irqs.                                 *)

\* The head of cpu_idle's loop.  call_rcu is called once.
IdleTop ==
    /\ ipc = "top"
    /\ \/ /\ loop = 0
          /\ ipc' = "exited"
          /\ UNCHANGED <<loop, rcu_start>>
       \/ /\ loop > 0
          /\ ipc' = "wait"
          /\ rcu_start' = (rcu_start \/ linux_halted)
          /\ loop' = IF linux_halted THEN loop - 1 ELSE loop
    /\ UNCHANGED <<lock, queues, sem, procs, cur, part, got, regs,
                   need_resched, linux_halted, rcu_done, history>>

\* Mutant: idle sleeps for an interrupt even when halted.
IdleWaitAlways ==
    /\ ipc = "wait"
    /\ sem > 0 /\ sem' = sem - 1
    /\ ipc' = "down" /\ cur' = 0 /\ part' = "nodata"
    /\ UNCHANGED <<lock, queues, procs, got, regs, need_resched,
                   linux_halted, rcu_start, rcu_done, loop, history>>

\* run_irqs: sem_down(sem), not done once the machine is halted, and the
\* start of the pass over the interrupt lines.
IdleWait ==
    /\ ipc = "wait"
    /\ \/ linux_halted /\ UNCHANGED sem
       \/ ~linux_halted /\ sem > 0 /\ sem' = sem - 1
    /\ ipc' = "down" /\ cur' = 0 /\ part' = "nodata"
    /\ UNCHANGED <<lock, queues, procs, got, regs, need_resched,
                   linux_halted, rcu_start, rcu_done, loop, history>>

\* dequeue_nodata, dequeue_data: sem_down(irqs[irq].lock)
IdleDown ==
    /\ ipc = "down"
    /\ LockDown(cur)
    /\ ipc' = "take"
    /\ UNCHANGED <<queues, sem, procs, cur, part, got, regs, need_resched,
                   linux_halted, rcu_start, rcu_done, loop, history>>

\* dequeue_nodata: if (no_data_count > 0) no_data_count--
CountDown(n) == IF n > 0 THEN n - 1 ELSE n

\* The statements of dequeue_nodata and of dequeue_data under the lock.
IdleTake ==
    /\ ipc = "take"
    /\ \/ /\ part = "nodata"
          /\ got' = (no_data_count[cur] > 0)
          /\ no_data_count' = [no_data_count EXCEPT ![cur] = CountDown(@)]
          /\ UNCHANGED <<data_list, regs>>
       \/ /\ part = "data" /\ data_list[cur] # <<>>
          /\ got' = TRUE
          /\ regs' = Head(data_list[cur])
          /\ data_list' = [data_list EXCEPT ![cur] = Tail(@)]
          /\ UNCHANGED no_data_count
       \/ /\ part = "data" /\ data_list[cur] = <<>>
          /\ got' = FALSE
          /\ UNCHANGED <<queues, regs>>
    /\ ipc' = "up"
    /\ UNCHANGED <<lock, sem, procs, cur, part, need_resched, linux_halted,
                   rcu_start, rcu_done, loop, history>>

\* Mutant: off by one.
LastIrqLess == NR_IRQS - 2

\* for(i=0; i<NR_IRQS; i++)
LastIrq == NR_IRQS - 1

\* sem_up(irqs[irq].lock), and where the while and for loops go on.
IdleUp ==
    /\ ipc = "up"
    /\ LockUp(cur)
    /\ \/ got /\ ipc' = "handle" /\ UNCHANGED <<cur, part>>
       \/ /\ ~got /\ part = "nodata"
          /\ ipc' = "down" /\ part' = "data" /\ UNCHANGED cur
       \/ /\ ~got /\ part = "data" /\ cur < LastIrq
          /\ ipc' = "down" /\ part' = "nodata" /\ cur' = cur + 1
       \/ /\ ~got /\ part = "data" /\ cur = LastIrq
          /\ ipc' = "again" /\ part' = "nodata" /\ cur' = 0
    /\ UNCHANGED <<queues, sem, procs, got, regs, need_resched, linux_halted,
                   rcu_start, rcu_done, loop, history>>

\* do_IRQ: the handler, and the softirqs irq_exit runs, may wake a thread;
\* a pending RCU callback may be among those softirqs.
do_IRQ ==
    /\ ipc = "handle"
    /\ handled' = IF part = "data"
                  THEN [handled EXCEPT ![cur] = Append(@, regs)]
                  ELSE handled
    /\ due_count' = IF part = "nodata"
                    THEN [due_count EXCEPT ![cur] = CountDown(@)]
                    ELSE due_count
    /\ need_resched' \in {need_resched, TRUE}
    /\ rcu_done' \in {rcu_done, rcu_done \/ rcu_start}
    /\ got' = FALSE /\ regs' = NoItem
    /\ ipc' = "down"
    /\ UNCHANGED <<lock, queues, sem, procs, cur, part, linux_halted,
                   rcu_start, loop, due>>

\* The condition of run_irqs' do-while loop.
IdleAgain ==
    /\ ipc = "again"
    /\ ipc' = IF ~need_resched /\ ~linux_halted THEN "wait" ELSE "resched"
    /\ UNCHANGED <<lock, queues, sem, procs, cur, part, got, regs,
                   need_resched, linux_halted, rcu_start, rcu_done, loop,
                   history>>

\* Mutant: the RCU callback is not waited for.
MustScheduleOnly == need_resched

\* if (need_resched() || !rcu_done)
MustSchedule == need_resched \/ ~rcu_done

\* Mutant: counted up in every round.
LoopUpAlways == loop + 1

\* if (linux_halted) loop++
LoopUp == IF linux_halted THEN loop + 1 ELSE loop

\* The rest of cpu_idle's loop: schedule(), or straight to the loop head.
IdleResched ==
    /\ ipc = "resched"
    /\ \/ /\ MustSchedule
          /\ loop' = LoopUp
          /\ need_resched' = FALSE
          /\ ipc' = "sched"
       \/ /\ ~MustSchedule
          /\ ipc' = "top"
          /\ UNCHANGED <<loop, need_resched>>
    /\ UNCHANGED <<lock, queues, sem, procs, cur, part, got, regs,
                   linux_halted, rcu_start, rcu_done, history>>

\* schedule() returns when every other kernel thread sleeps.
IdleScheduled ==
    /\ ipc = "sched" /\ pc[Kern] = "out"
    /\ ipc' = "top"
    /\ UNCHANGED <<lock, queues, sem, procs, cur, part, got, regs,
                   need_resched, linux_halted, rcu_start, rcu_done, loop,
                   history>>

IdleStep ==
    \/ IdleTop \/ IdleWait \/ IdleDown \/ IdleTake \/ IdleUp
    \/ do_IRQ \/ IdleAgain \/ IdleResched \/ IdleScheduled

-----------------------------------------------------------------------------
(* What other kernel threads do while idle is in schedule().               *)

PendingItems(i) == {data_list[i][k] : k \in DOMAIN data_list[i]}

\* machine_halt, by the thread that runs kernel_halt.
machine_halt ==
    /\ ipc = "sched" /\ ~linux_halted
    /\ linux_halted' = TRUE
    /\ due' = UNION {PendingItems(i) : i \in Irqs}
    /\ due_count' = no_data_count
    /\ UNCHANGED <<lock, queues, sem, procs, idle, rcu_done, handled>>

\* The RCU core runs rcu_func from a softirq of another thread.
rcu_func ==
    /\ ipc = "sched" /\ rcu_start /\ ~rcu_done
    /\ rcu_done' = TRUE
    /\ UNCHANGED <<lock, queues, sem, procs, idle, linux_halted, history>>

-----------------------------------------------------------------------------
Next ==
    \/ \E t \in Threads : ThreadStep(t)
    \/ \E t \in Threads, i \in Irqs :
          lkl_trigger_irq(t, i) \/ lkl_trigger_irq_with_data(t, i)
    \/ \E i \in Irqs : lkl_purge_irq_queue(i)
    \/ CallStep(Kern)
    \/ IdleStep
    \/ machine_halt
    \/ rcu_func

(* A host thread in a call goes on, and so does the kernel thread that has *)
(* the CPU.  The load is finite: the other kernel threads come to sleep    *)
(* and schedule() returns to idle.  An RCU grace period ends because idle  *)
(* calls schedule().                                                       *)
Fairness ==
    /\ \A t \in Threads : WF_vars(ThreadStep(t))
    /\ WF_vars(CallStep(Kern))
    /\ WF_vars(IdleStep) /\ SF_vars(IdleScheduled)
    /\ SF_vars(rcu_func)

Spec == Init /\ [][Next]_vars
FairSpec == Spec /\ Fairness

-----------------------------------------------------------------------------
(* Properties. *)

\* A trigger that has queued its interrupt and not yet done sem_up(sem).
Posting(t) == pc[t] \in {"up", "post"} /\ req[t].op # "purge"

\* The parts of the queues that the pass of run_irqs has left behind empty:
\* everything while idle is not in the pass.
Clean(i, w) ==
    \/ ipc \in {"top", "wait", "again", "resched", "sched", "exited"}
    \/ i < cur
    \/ i = cur /\ part = "data" /\ w = "nodata"
    \/ i = cur /\ part = w /\ ipc = "up" /\ ~got

Empty(i, w) ==
    IF w = "nodata" THEN no_data_count[i] = 0 ELSE data_list[i] = <<>>

(* run_irqs consumes one unit of sem and then empties every queue, so the  *)
(* number of units and of interrupts do not match.  Still no interrupt is  *)
(* lost: whenever a queue that the pass is done with is not empty, either  *)
(* sem is positive, so that another pass follows, or the thread that       *)
(* queued the interrupt is still to do sem_up(sem).                        *)
NoLostIrq ==
    \A i \in Irqs, w \in {"nodata", "data"} :
        Clean(i, w) /\ ~Empty(i, w) =>
            sem > 0 \/ \E t \in Threads : Posting(t)

(* What one thread raises with data on one line reaches the handler at     *)
(* most once and in the order in which the thread raised it.               *)
InOrder ==
    \A i \in Irqs : \A k, l \in DOMAIN handled[i] :
        k < l /\ handled[i][k][1] = handled[i][l][1] =>
            handled[i][k][2] < handled[i][l][2]

(* cpu_idle: "We need to exit, but before we can do so we need to run any  *)
(* pending jobs, like RCU calls, IRQs, or runable processes."  When it     *)
(* exits, everything that was pending when the machine was halted, with    *)
(* data or without, has been handled or purged, the RCU callback has run   *)
(* and no thread is runnable.                                              *)
ExitAfterPending ==
    ipc = "exited" =>
        /\ rcu_done /\ ~need_resched
        /\ \A i \in Irqs : due \cap PendingItems(i) = {} /\ due_count[i] = 0

\* IrqQueue's view of the state: what dequeue_nodata or dequeue_data has taken
\* is in the abstract queue until its handler has run.
AbsCount ==
    [i \in Irqs |-> no_data_count[i] +
                      IF got /\ part = "nodata" /\ cur = i THEN 1 ELSE 0]
AbsQueue ==
    [i \in Irqs |-> IF got /\ part = "data" /\ cur = i
                    THEN <<regs>> \o data_list[i] ELSE data_list[i]]
AbsData ==
    [i \in Irqs |-> IF handled[i] = <<>> THEN NoItem
                    ELSE handled[i][Len(handled[i])]]

Abs == INSTANCE IrqQueue WITH
    count <- AbsCount, queue <- AbsQueue, irq_data <- AbsData

(* The interrupt layer implements IrqQueue: whatever the threads, idle and *)
(* a purge do between two steps of each other, the effect is that of one   *)
(* operation at a time on a counter and a first-in first-out queue.        *)
ImplementsQueue == Abs!Spec

(* An interrupt that is raised is handled (or purged), unless cpu_idle has *)
(* exited by then: under fairness every queue becomes empty.               *)
Delivered ==
    \A i \in Irqs :
        ~(Empty(i, "nodata") /\ Empty(i, "data")) ~>
            (Empty(i, "nodata") /\ Empty(i, "data")) \/ ipc = "exited"

(* Once the machine is halted cpu_idle returns to start_kernel.            *)
HaltExits == linux_halted ~> ipc = "exited"
=============================================================================
