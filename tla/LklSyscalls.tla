---------------------------- MODULE LklSyscalls -----------------------------
(***************************************************************************)
(* arch/lkl/kernel/syscalls.c: a host thread makes a system call by        *)
(* raising SYSCALL_IRQ with a struct syscall on its own stack and waiting  *)
(* on a semaphore in it; the handler moves it to a syscall queue (or to    *)
(* the kernel's work queue) and the kernel thread of the queue runs it and *)
(* answers.  The interrupt layer is the one IrqQueue specifies, which      *)
(* LklIrq implements.                                                      *)
(*                                                                         *)
(* Kernel threads are cooperative (LklThreads): `cpu' is the one that      *)
(* runs, and it runs until it sleeps.  Idle handles interrupts.            *)
(***************************************************************************)
EXTENDS Integers, Sequences, FiniteSets

CONSTANTS Callers,      \* host threads that make system calls
          Privates,     \* those that use lkl_syscall_thread_init / _cleanup
          Halters,      \* those that may call lkl_sys_halt
          Default,      \* default_queue
          Events,       \* the work queue and its thread, keventd
          Idle,         \* the idle thread
          NULL,
          Failing,      \* the callers whose allocations may fail
          HaltSems,     \* bound: semaphores for lkl_sys_halt, reused when
                        \* nobody refers to them
          Results,      \* what the handlers of a caller's system calls return:
                        \* longs
          IntSize       \* how many values an int has

ASSUME CallersAssumption ==
    /\ Privates \subseteq Callers /\ Halters \subseteq Callers
    /\ Failing \subseteq Callers /\ NULL \notin HaltSems
    /\ {Default, Events, Idle, NULL} \cap Callers = {}
    /\ Default # Events /\ Idle \notin {Default, Events}
    /\ NULL \notin {Default, Events, Idle}
ASSUME IntAssumption ==
    /\ IntSize \in Nat /\ IntSize >= 32 /\ IntSize = 2 * (IntSize \div 2)
    /\ Results \in [Callers -> SUBSET Int]

Queues == Callers \cup {Default}       \* the queue of a caller has its name
Workers == Queues \cup {Events}
SYSCALL_IRQ == 1
ENOMEM == -12                          \* any error code will do

VARIABLES
    count, queue, irq_data,  \* the interrupt layer
    pc,        \* [Callers -> step of the call the caller is in]
    s,         \* [Callers -> [no, queue]]: the struct syscall on the stack
    s_ret,     \* [Callers -> Int]: its field ret
    s_sem,     \* [Callers -> Nat]: the value of its semaphore
    res,       \* [Callers -> Int]: what the last call returned
    qstate,    \* [Queues -> {"none", "hashed", "freed"}]
    list,      \* [Workers -> Seq(Callers)]: sq->lh, or the work list
    wst,       \* [Workers -> state of the kernel thread]
    wcur,      \* [Workers -> the syscall it has in hand]
    cpu,       \* the kernel thread that runs
    halted,    \* BOOLEAN: linux_halted
    exited,    \* BOOLEAN: cpu_idle has returned
    finished,  \* BOOLEAN: lkl_start_kernel has returned
    halt_sem,  \* the halt_sem global: a semaphore or NULL
    halt_val,  \* [HaltSems -> Nat]: the values of these semaphores
    halt_arg,  \* [Callers -> the semaphore the caller's sem_down waits on]
    halt_free, \* the semaphores that sem_free(halt_sem) has freed
    ran,       \* [Callers -> set of Int], history: what the handler has
               \* returned, each time it was run for the caller's last call
    orphan,    \* history: callers whose lkl_syscall_thread_init failed in
               \* sem_alloc, with the queue hashed and no thread for it
    uaf        \* history: the freed queues that syscall_irq has added to

irq == <<count, queue, irq_data>>
caller == <<pc, s, s_ret, s_sem, res>>
kthread == <<list, wst, wcur, cpu>>
haltsem == <<halt_sem, halt_val, halt_arg, halt_free>>
halt == <<halted, exited, finished, haltsem>>
history == <<ran, orphan, uaf>>
vars == <<irq, caller, qstate, kthread, halt, history>>

IRQ == INSTANCE IrqQueue WITH Irqs <- {SYSCALL_IRQ}, Items <- Callers,
                              NoItem <- NULL

TypeOK ==
    /\ queue \in [{SYSCALL_IRQ} -> Seq(Callers)]
    /\ irq_data \in [{SYSCALL_IRQ} -> Callers \cup {NULL}]
    /\ count = [i \in {SYSCALL_IRQ} |-> 0]
    /\ pc \in [Callers -> {"out", "sem", "trigger", "down", "haltread",
                           "haltdown", "haltfree", "crashed"}]
    /\ s \in [Callers -> [no : {"none", "plain", "call", "reboot", "halt"},
                          queue : Workers]]
    /\ s_ret \in [Callers -> Int] /\ res \in [Callers -> Int]
    /\ s_sem \in [Callers -> Nat]
    /\ qstate \in [Queues -> {"none", "hashed", "freed"}]
    /\ list \in [Workers -> Seq(Callers)]
    /\ wst \in [Workers -> {"none", "ready", "asleep", "exec", "blocked",
                            "resumed", "up", "del", "upexit", "gone"}]
    /\ wcur \in [Workers -> Callers \cup {NULL}]
    /\ cpu \in Workers \cup {Idle}
    /\ halted \in BOOLEAN /\ exited \in BOOLEAN /\ finished \in BOOLEAN
    /\ ran \in [Callers -> SUBSET Int]
    /\ uaf \subseteq Queues /\ orphan \subseteq Callers
    /\ halt_sem \in HaltSems \cup {NULL}
    /\ halt_val \in [HaltSems -> Nat]
    /\ halt_arg \in [Callers -> HaltSems \cup {NULL}]
    /\ halt_free \subseteq HaltSems

\* After syscall_init and nops->init, as run_syscalls(NULL) is entered.
Init ==
    /\ IRQ!Init
    /\ pc = [c \in Callers |-> "out"]
    /\ s = [c \in Callers |-> [no |-> "none", queue |-> Default]]
    /\ s_ret = [c \in Callers |-> 0] /\ res = [c \in Callers |-> 0]
    /\ s_sem = [c \in Callers |-> 0]
    /\ qstate = [q \in Queues |-> IF q = Default THEN "hashed" ELSE "none"]
    /\ list = [w \in Workers |-> <<>>]
    /\ wst = [w \in Workers |-> CASE w = Default -> "ready"
                                  [] w = Events -> "asleep"
                                  [] OTHER -> "none"]
    /\ wcur = [w \in Workers |-> NULL]
    /\ cpu = Default
    /\ halted = FALSE /\ exited = FALSE /\ finished = FALSE
    /\ ran = [c \in Callers |-> {}] /\ uaf = {} /\ orphan = {}
    /\ halt_sem = NULL /\ halt_val = [h \in HaltSems |-> 0]
    /\ halt_arg = [c \in Callers |-> NULL] /\ halt_free = {}

-----------------------------------------------------------------------------
(* The callers.                                                            *)

Goto(c, l) == pc' = [pc EXCEPT ![c] = l]
Return(c, r) == Goto(c, "out") /\ res' = [res EXCEPT ![c] = r]

\* Mutant: a queue is found after it was freed.
get_syscall_queue_stale(c) == IF qstate[c] # "none" THEN c ELSE Default

\* get_syscall_queue(lkl_nops->thread_id())
get_syscall_queue(c) == IF qstate[c] = "hashed" THEN c ELSE Default

\* The start of SYSCALL_VIA_QUEUE: the struct syscall is initialised.
Start(c, no, q) ==
    /\ pc[c] = "out"
    /\ s' = [s EXCEPT ![c] = [no |-> no, queue |-> q]]
    /\ s_ret' = [s_ret EXCEPT ![c] = 0]
    /\ res' = [res EXCEPT ![c] = 0] /\ ran' = [ran EXCEPT ![c] = {}]
    /\ Goto(c, "sem")
    /\ UNCHANGED <<irq, s_sem, kthread, halted, exited, finished, orphan, uaf>>

\* SYSCALL: every lkl_sys_* function but lkl_sys_halt.
SYSCALL(c) ==
    /\ Start(c, "plain", get_syscall_queue(c))
    /\ UNCHANGED <<qstate, haltsem>>

\* The halt semaphores that somebody waits on.  One that was leaked when the
\* global was overwritten cannot be told from a new one.
HaltArgs == {halt_arg[c] : c \in Callers}

\* lkl_sys_halt: a semaphore of its own first, then reboot.
lkl_sys_halt(c) ==
    LET new == CHOOSE h \in HaltSems : h \notin HaltArgs IN
    /\ c \in Halters /\ HaltSems \ HaltArgs # {}
    /\ Start(c, "halt", Default)
    /\ halt_sem' = new /\ halt_val' = [halt_val EXCEPT ![new] = 0]
    /\ halt_free' = halt_free \ {new}
    /\ UNCHANGED <<qstate, halt_arg>>

\* That semaphore cannot be allocated: the global is overwritten all the same.
lkl_sys_halt_fails(c) ==
    /\ c \in Failing \cap Halters /\ pc[c] = "out"
    /\ s' = [s EXCEPT ![c] = [no |-> "halt", queue |-> Default]]
    /\ halt_sem' = NULL
    /\ Return(c, ENOMEM)
    /\ UNCHANGED <<irq, s_ret, s_sem, qstate, kthread, halted, exited,
                   finished, halt_val, halt_arg, halt_free, history>>

\* lkl_syscall_thread_init: a queue of the thread's own, and a call from the
\* work queue that starts a kernel thread for it.  Its early returns (-EINVAL
\* without thread_id, -EBUSY, -ENOMEM of new_syscall_queue), and -EINVAL of
\* lkl_syscall_thread_cleanup, change nothing.
lkl_syscall_thread_init(c) ==
    /\ c \in Privates /\ get_syscall_queue(c) = Default
    /\ Start(c, "call", Events)
    /\ qstate' = [qstate EXCEPT ![c] = "hashed"]
    /\ UNCHANGED haltsem

lkl_syscall_thread_cleanup(c) ==
    /\ c \in Privates /\ get_syscall_queue(c) # Default
    /\ Start(c, "reboot", c)
    /\ UNCHANGED <<qstate, haltsem>>

\* s.sem=sem_alloc(0); on failure the whole function returns -ENOMEM.
SemAlloc(c) ==
    /\ pc[c] = "sem"
    /\ \/ /\ Goto(c, "trigger")
          /\ s_sem' = [s_sem EXCEPT ![c] = 0]
          /\ UNCHANGED res
          /\ UNCHANGED orphan
       \/ /\ c \in Failing
          /\ Return(c, ENOMEM)
          /\ orphan' = IF s[c].no = "call" THEN orphan \cup {c} ELSE orphan
          /\ UNCHANGED s_sem
    /\ UNCHANGED <<irq, s, s_ret, qstate, kthread, halt, ran, uaf>>

\* Calls that are raised and not answered.
UnderWay == {c \in Callers : pc[c] = "down" /\ s_sem[c] = 0}

\* lkl_trigger_irq_with_data(SYSCALL_IRQ, &s), its result ignored.
Trigger(c) ==
    /\ pc[c] = "trigger"
    /\ IRQ!RaiseData(SYSCALL_IRQ, c) \/ (c \in Failing /\ UNCHANGED irq)
    /\ Goto(c, "down")
    /\ UNCHANGED <<s, s_ret, s_sem, res, qstate, kthread, halt, history>>

\* The conversion of a long to an int.
AsInt(x) == ((x + IntSize \div 2) % IntSize) - IntSize \div 2

\* Mutant: lkl_syscall_thread_init keeps the queue when kernel_thread failed.
QueueKept(c) == qstate

\* lkl_syscall_thread_init: del_syscall_queue on an error
QueueAfter(c) ==
    IF s[c].no = "call" /\ AsInt(s_ret[c]) < 0
    THEN [qstate EXCEPT ![c] = "freed"] ELSE qstate

\* Mutant: the answer is not waited for.
NotAwaited(c) == TRUE

\* sem_down(s.sem) goes through once the kernel thread has upped it.
IsAnswered(c) == s_sem[c] > 0

\* sem_down(s.sem), sem_free(s.sem) and the rest of the caller's function,
\* which takes s.ret through an int.
SemDown(c) ==
    LET err == AsInt(s_ret[c]) IN
    /\ pc[c] = "down" /\ IsAnswered(c)
    /\ s_sem' = [s_sem EXCEPT ![c] = @ - 1]
    /\ IF s[c].no = "halt" /\ err >= 0
       THEN Goto(c, "haltread") /\ UNCHANGED res
       ELSE Return(c, IF s[c].no = "call" /\ err >= 0 THEN 0 ELSE err)
    /\ s_ret' = [s_ret EXCEPT ![c] = 0]
    /\ qstate' = QueueAfter(c)
    /\ UNCHANGED <<irq, s, kthread, halt, history>>

\* lkl_nops->sem_down(halt_sem): the global is read once, whatever it holds
\* by now.  A NULL is dereferenced: the host process dies, and the call never
\* returns.
HaltRead(c) ==
    /\ pc[c] = "haltread"
    /\ halt_arg' = [halt_arg EXCEPT ![c] = halt_sem]
    /\ Goto(c, IF halt_sem = NULL THEN "crashed" ELSE "haltdown")
    /\ UNCHANGED <<irq, s, s_ret, s_sem, res, qstate, kthread, halted,
                   exited, finished, halt_sem, halt_val, halt_free, history>>

\* That semaphore has been upped.
HaltDown(c) ==
    /\ pc[c] = "haltdown" /\ halt_val[halt_arg[c]] > 0
    /\ halt_val' = [halt_val EXCEPT ![halt_arg[c]] = @ - 1]
    /\ halt_arg' = [halt_arg EXCEPT ![c] = NULL]
    /\ Goto(c, "haltfree")
    /\ UNCHANGED <<irq, s, s_ret, s_sem, res, qstate, kthread, halted,
                   exited, finished, halt_sem, halt_free, history>>

\* lkl_nops->sem_free(halt_sem): the global is read again.
HaltFree(c) ==
    /\ pc[c] = "haltfree"
    /\ halt_free' = halt_free \cup ({halt_sem} \ {NULL})
    /\ Return(c, 0)
    /\ UNCHANGED <<irq, s, s_ret, s_sem, qstate, kthread, halted,
                   exited, finished, halt_sem, halt_val, halt_arg, history>>

CallerStep(c) == SemAlloc(c) \/ Trigger(c) \/ SemDown(c)
HaltRest(c) == HaltRead(c) \/ HaltDown(c) \/ HaltFree(c)

-----------------------------------------------------------------------------
(* The kernel threads.  w runs when cpu = w.                               *)

Ready == {w \in Workers : wst'[w] \in {"ready", "resumed"}}
schedule == cpu' \in IF Ready = {} THEN {Idle} ELSE Ready

\* Mutant: the syscall stays on the list.
list_keep(w) == UNCHANGED list

\* dequeue_syscall: list_del of the first syscall
list_del(w) == list' = [list EXCEPT ![w] = Tail(@)]

\* wait_event: take the first syscall of the list, or sleep.
dequeue_syscall(w) ==
    /\ cpu = w /\ wst[w] = "ready"
    /\ \/ /\ list[w] = <<>>
          /\ wst' = [wst EXCEPT ![w] = "asleep"]
          /\ schedule
          /\ UNCHANGED <<list, wcur>>
       \/ /\ list[w] # <<>>
          /\ wcur' = [wcur EXCEPT ![w] = Head(list[w])]
          /\ list_del(w)
          /\ wst' = [wst EXCEPT ![w] =
                        IF s[Head(list[w])].no \in {"reboot", "halt"}
                        THEN "del" ELSE "exec"]
          /\ UNCHANGED cpu
    /\ UNCHANGED <<irq, caller, qstate, halt, history>>

\* The handler sleeps.
Block(w) ==
    /\ cpu = w /\ wst[w] = "exec"
    /\ wst' = [wst EXCEPT ![w] = "blocked"]
    /\ schedule
    /\ UNCHANGED <<irq, caller, qstate, list, wcur, halt, history>>

\* Mutant: the result is not stored before the caller is woken.
StoreNothing(c, r) == UNCHANGED s_ret

\* int ret=...; s->ret=ret
StoreRet(c, r) == s_ret' = [s_ret EXCEPT ![c] = AsInt(r)]

\* The pid that kernel_thread returns.
PID == 1

\* run_syscall: the handler runs and its result is stored.  sys_call of
\* kernel_thread starts the thread of the caller's queue, or fails.
run_syscall(w) ==
    LET c == wcur[w] IN
    /\ cpu = w /\ wst[w] \in {"exec", "resumed"}
    /\ \/ /\ s[c].no = "call"
          /\ StoreRet(c, ENOMEM)
          /\ wst' = [wst EXCEPT ![w] = "up"]
          /\ UNCHANGED ran
       \/ /\ s[c].no = "call"
          /\ StoreRet(c, PID)
          /\ wst' = [wst EXCEPT ![w] = "up", ![c] = "ready"]
          /\ UNCHANGED ran
       \/ /\ s[c].no = "plain"
          /\ \E r \in Results[c] : /\ StoreRet(c, r)
                                  /\ ran' = [ran EXCEPT ![c] = @ \cup {r}]
          /\ wst' = [wst EXCEPT ![w] = "up"]
    /\ UNCHANGED <<irq, pc, s, s_sem, res, qstate, list, wcur, cpu,
                   halt, orphan, uaf>>

\* run_syscall: sem_up(s->sem)
run_syscall_up(w) ==
    /\ cpu = w /\ wst[w] = "up"
    /\ s_sem' = [s_sem EXCEPT ![wcur[w]] = @ + 1]
    /\ wcur' = [wcur EXCEPT ![w] = NULL]
    /\ wst' = [wst EXCEPT ![w] = "ready"]
    /\ UNCHANGED <<irq, pc, s, s_ret, res, qstate, list, cpu, halt, history>>

\* run_syscalls after the loop: del_syscall_queue(sq) and s->ret=0
del_syscall_queue(w) ==
    /\ cpu = w /\ wst[w] = "del"
    /\ qstate' = [qstate EXCEPT ![w] = "freed"]
    /\ s_ret' = [s_ret EXCEPT ![wcur[w]] = 0]
    /\ wst' = [wst EXCEPT ![w] = "upexit"]
    /\ UNCHANGED <<irq, pc, s, s_sem, res, list, wcur, cpu, halt, history>>

\* sem_up(s->sem) and the end of the thread: kernel_halt for the default
\* queue, whose thread is init.
run_syscalls_exit(w) ==
    /\ cpu = w /\ wst[w] = "upexit"
    /\ s_sem' = [s_sem EXCEPT ![wcur[w]] = @ + 1]
    /\ wcur' = [wcur EXCEPT ![w] = NULL]
    /\ wst' = [wst EXCEPT ![w] = "gone"]
    /\ halted' = (halted \/ w = Default)
    /\ schedule
    /\ UNCHANGED <<irq, pc, s, s_ret, res, qstate, list, exited,
                   finished, haltsem, history>>

WorkerStep(w) ==
    \/ dequeue_syscall(w) \/ Block(w) \/ run_syscall(w) \/ run_syscall_up(w)
    \/ del_syscall_queue(w) \/ run_syscalls_exit(w)

\* Mutant: the thread of the queue is not woken.
NotWoken(q) == wst

\* wake_up, or queue_work: the thread of the queue, if it sleeps, is woken.
Woken(q) == IF wst[q] = "asleep" THEN [wst EXCEPT ![q] = "ready"] ELSE wst

\* syscall_irq: to the work queue, or to the front of the syscall queue.
syscall_irq ==
    LET c == Head(queue[SYSCALL_IRQ])
        q == s[c].queue IN
    /\ cpu = Idle /\ ~exited
    /\ IRQ!HandleData(SYSCALL_IRQ)
    /\ list' = [list EXCEPT ![q] = IF q = Events THEN Append(@, c)
                                                 ELSE <<c>> \o @]
    /\ wst' = Woken(q)
    /\ uaf' = IF q \in Queues /\ qstate[q] = "freed" THEN uaf \cup {q} ELSE uaf
    /\ UNCHANGED <<caller, qstate, wcur, cpu, halt, ran, orphan>>

\* Another interrupt ends the sleep of a handler.
Unblock(w) ==
    /\ cpu = Idle /\ ~exited /\ wst[w] = "blocked"
    /\ wst' = [wst EXCEPT ![w] = "resumed"]
    /\ UNCHANGED <<irq, caller, qstate, list, wcur, cpu, halt, history>>

\* Idle calls schedule() after it has handled every pending interrupt.
IdleSchedule ==
    /\ cpu = Idle /\ queue[SYSCALL_IRQ] = <<>>
    /\ \E w \in Workers : wst[w] \in {"ready", "resumed"} /\ cpu' = w
    /\ IRQ!Over
    /\ UNCHANGED <<caller, qstate, list, wst, wcur, halt, history>>

\* cpu_idle returns.
IdleExit ==
    /\ cpu = Idle /\ ~exited /\ halted /\ queue[SYSCALL_IRQ] = <<>>
    /\ \A w \in Workers : wst[w] \notin {"ready", "resumed"}
    /\ exited' = TRUE
    /\ IRQ!Over
    /\ UNCHANGED <<caller, qstate, kthread, halted, finished, haltsem,
                   history>>

\* Mutant: the halt is answered before cpu_idle has returned.
IdleOver == halted

\* rest_init returns to lkl_start_kernel when cpu_idle has returned.
IdleReturned == exited

\* The end of lkl_start_kernel: if (halt_sem) sem_up(halt_sem).
HaltUp ==
    /\ IdleReturned /\ ~finished
    /\ finished' = TRUE
    /\ halt_val' = [h \in HaltSems |-> IF h = halt_sem THEN halt_val[h] + 1
                                                      ELSE halt_val[h]]
    /\ UNCHANGED <<irq, caller, qstate, kthread, halted, exited, halt_sem,
                   halt_arg, halt_free, history>>

KernelStep ==
    \/ \E w \in Workers : WorkerStep(w)
    \/ syscall_irq \/ IdleSchedule \/ IdleExit

-----------------------------------------------------------------------------
Next ==
    \/ \E c \in Callers :
          \/ SYSCALL(c) \/ lkl_sys_halt(c) \/ lkl_sys_halt_fails(c)
          \/ lkl_syscall_thread_init(c) \/ lkl_syscall_thread_cleanup(c)
          \/ CallerStep(c) \/ HaltRest(c)
    \/ KernelStep
    \/ \E w \in Workers : Unblock(w)
    \/ HaltUp

Spec == Init /\ [][Next]_vars

(* A caller in a call goes on, the kernel thread that has the CPU goes on, *)
(* and what a handler sleeps for happens.  The scheduler need not be fair: *)
(* calls are handed out by Idle, which runs when no other thread can.      *)
FairSpec ==
    /\ Spec
    /\ \A c \in Callers : WF_vars(CallerStep(c))
    /\ WF_vars(KernelStep)
    /\ \A w \in Privates \cup {Default, Events} : SF_vars(Unblock(w))

-----------------------------------------------------------------------------
(* Properties. *)

\* The places where the kernel holds a pointer to the struct syscall of c:
\* the interrupt's queue, a list, and the hands of a kernel thread.
InIrq(c) ==
    {<<"irq", k>> : k \in {j \in DOMAIN queue[SYSCALL_IRQ] :
                              queue[SYSCALL_IRQ][j] = c}}
Listed(c) ==
    UNION {{<<w, k>> : k \in {j \in DOMAIN list[w] : list[w][j] = c}} :
              w \in Workers}
InHand(c) == {<<w, 0>> : w \in {v \in Workers : wcur[v] = c}}
Holders(c) == InIrq(c) \cup Listed(c) \cup InHand(c)

(* The struct syscall is on the caller's stack: while the kernel has a     *)
(* pointer to it the caller is inside the call and has not been answered,  *)
(* and it has one pointer, so that the call is run and answered once.      *)
StackFrameLive ==
    \A c \in Callers :
        /\ Cardinality(Holders(c)) <= 1
        /\ Holders(c) # {} => c \in UnderWay

(* A system call returns what its own handler returned, run once for it,   *)
(* or -ENOMEM, and then the handler has not run.  The result is taken      *)
(* through an int, in run_syscall and in SYSCALL: a long that does not fit *)
(* loses its upper half, but is never another call's result.               *)
OwnResult ==
    \A c \in Callers :
        pc[c] = "out" /\ s[c].no = "plain" =>
            \/ ran[c] = {} /\ res[c] = ENOMEM
            \/ \E r \in Results[c] : ran[c] = {r} /\ res[c] = AsInt(r)

(* A queue that a thread's calls are sent to has a kernel thread: after    *)
(* lkl_syscall_thread_init has returned, and until _cleanup runs, there is *)
(* somebody to run the calls, also when kernel_thread failed.  The one     *)
(* exception is a sem_alloc that fails inside lkl_syscall_thread_init.     *)
QueueServed ==
    \A c \in Privates \ orphan :
        qstate[c] = "hashed" /\ pc[c] = "out" => wst[c] \notin {"none", "gone"}

(* syscall_irq never adds to a thread's own queue after del_syscall_queue  *)
(* has freed it, however calls, _init, _cleanup and their failures mix.    *)
(* The one queue it may use after it was freed is default_queue, and that  *)
(* only once the kernel has been halted.                                   *)
NoFreedQueue == uaf \subseteq {Default} /\ (uaf # {} => halted)

(* syscalls.c: "Halt is special as we want to call syscall_done after the  *)
(* kernel has been halted".  lkl_sys_halt succeeds only after cpu_idle has *)
(* returned and lkl_start_kernel has upped halt_sem at its end, and the    *)
(* semaphore that lkl_start_kernel is to up has not been freed.            *)
HaltIsLast ==
    /\ \A c \in Callers :
          pc[c] = "out" /\ s[c].no = "halt" /\ res[c] # ENOMEM
          => exited /\ finished
    /\ ~finished => halt_sem \notin halt_free

\* The handler puts another call in front of that of c, on a syscall queue.
Overtakes(c) ==
    \E q \in Queues :
        /\ \E k \in DOMAIN list[q] : list[q][k] = c
        /\ Len(list'[q]) > Len(list[q])

(* A system call that the interrupt layer has accepted is answered while   *)
(* the kernel is not halted, though handlers sleep and other callers come  *)
(* and go and fail.  A syscall queue is a stack, so the exception is a     *)
(* call that others overtake again and again: with three callers the one   *)
(* at the bottom may wait for ever.  The work queue has no such exception. *)
Answered ==
    \A c \in Callers :
        <>[][~Overtakes(c)]_vars
        => (Holders(c) # {} ~> pc[c] # "down" \/ halted \/ c \in orphan)
=============================================================================
