----------------------------- MODULE LklThreads -----------------------------
(***************************************************************************)
(* arch/lkl/kernel/threads.c: every kernel thread is a host thread, and    *)
(* the context switch hands the right to run from one host thread to       *)
(* another through per-thread semaphores.  The module also has what the    *)
(* generic kernel does around it (fork, schedule, exit, the reference      *)
(* counts of a task) and the end of the life of the kernel in setup.c:     *)
(* kill_all_threads and threads_cleanup, run by the boot thread.           *)
(*                                                                         *)
(* A task is a slot that is forked at most once.  The counter of threads   *)
(* is under a semaphore of its own, so an access to it is one step.        *)
(***************************************************************************)
EXTENDS Naturals, FiniteSets

CONSTANTS Tasks,        \* the tasks that kernel_thread can create
          Idle,         \* init_task: the boot thread, later the idle thread
          NULL

ASSUME TasksAssumption == Idle \notin Tasks /\ IsFiniteSet(Tasks)
ASSUME NullAssumption == NULL \notin Tasks \cup {Idle}

AllTasks == Tasks \cup {Idle}

VARIABLES
    current,     \* _current_thread_info
    pc,          \* [AllTasks -> the step the host thread of the task is at]
    peer,        \* [AllTasks -> local variable: the task switched to or forked]
    state,       \* [AllTasks -> task_struct.state; "none": no task_struct]
    usage,       \* [AllTasks -> references to the task_struct]
    hashed,      \* [AllTasks -> BOOLEAN]: on the list for_each_process walks
    rcu,         \* [AllTasks -> BOOLEAN]: delayed_put_task_struct is pending
    sched_sem,   \* [AllTasks -> Nat]: __thread_info.sched_sem
    dead,        \* [AllTasks -> BOOLEAN]: __thread_info.dead
    prev_sched,  \* [AllTasks -> task or NULL]: __thread_info.prev_sched
    live,        \* [AllTasks -> BOOLEAN]: the __thread_info is allocated
    threads_counter,
    todo         \* tasks kill_all_threads has yet to visit

task == <<state, usage, hashed, rcu>>
ti == <<sched_sem, dead, prev_sched, live>>
vars == <<current, pc, peer, task, ti, threads_counter, todo>>

Labels ==
    {"none", "boot", "bwait", "btail", "run", "fork", "sched", "up", "down",
     "back", "free", "dec", "exited", "bug", "kill", "cleanup", "done"}

TypeOK ==
    /\ current \in AllTasks
    /\ pc \in [AllTasks -> Labels]
    /\ peer \in [AllTasks -> AllTasks \cup {NULL}]
    /\ state \in [AllTasks -> {"none", "new", "running", "sleep", "dead"}]
    /\ usage \in [AllTasks -> Nat]
    /\ hashed \in [AllTasks -> BOOLEAN]
    /\ rcu \in [AllTasks -> BOOLEAN]
    /\ sched_sem \in [AllTasks -> Nat]
    /\ dead \in [AllTasks -> BOOLEAN]
    /\ prev_sched \in [AllTasks -> AllTasks \cup {NULL}]
    /\ live \in [AllTasks -> BOOLEAN]
    /\ threads_counter \in Nat
    /\ todo \in SUBSET Tasks

\* threads_init: the boot thread runs, there is no other thread.
Init ==
    /\ current = Idle
    /\ pc = [t \in AllTasks |-> IF t = Idle THEN "run" ELSE "none"]
    /\ peer = [t \in AllTasks |-> NULL]
    /\ state = [t \in AllTasks |-> IF t = Idle THEN "running" ELSE "none"]
    /\ usage = [t \in AllTasks |-> IF t = Idle THEN 2 ELSE 0]
    /\ hashed = [t \in AllTasks |-> FALSE]
    /\ rcu = [t \in AllTasks |-> FALSE]
    /\ sched_sem = [t \in AllTasks |-> 0]
    /\ dead = [t \in AllTasks |-> FALSE]
    /\ prev_sched = [t \in AllTasks |-> NULL]
    /\ live = [t \in AllTasks |-> t = Idle]
    /\ threads_counter = 0
    /\ todo = {}

Goto(t, l) == pc' = [pc EXCEPT ![t] = l]

-----------------------------------------------------------------------------
(* Task references.                                                        *)

\* Mutant: the memory is freed at once.
free_thread_info_now(t) ==
    /\ dead' = [dead EXCEPT ![t] = TRUE]
    /\ sched_sem' = [sched_sem EXCEPT ![t] = @ + 1]
    /\ live' = [live EXCEPT ![t] = FALSE]
    /\ UNCHANGED prev_sched

\* free_thread_info: the thread of t is told to exit.  The memory and the
\* semaphore are left to that thread.
free_thread_info(t) ==
    /\ dead' = [dead EXCEPT ![t] = TRUE]
    /\ sched_sem' = [sched_sem EXCEPT ![t] = @ + 1]
    /\ UNCHANGED <<prev_sched, live>>

\* put_task_struct: the last reference frees the task and its thread_info.
put_task_struct(t) ==
    /\ usage' = [usage EXCEPT ![t] = @ - 1]
    /\ \/ /\ usage[t] = 1
          /\ state' = [state EXCEPT ![t] = "none"]
          /\ free_thread_info(t)
       \/ usage[t] # 1 /\ UNCHANGED <<state, ti>>
    /\ UNCHANGED hashed

\* finish_task_switch(prev): a dead task loses the reference it had as current.
finish_task_switch(prev) ==
    \/ state[prev] = "dead" /\ put_task_struct(prev) /\ UNCHANGED rcu
    \/ state[prev] # "dead" /\ UNCHANGED <<task, ti>>

-----------------------------------------------------------------------------
(* kernel_thread: do_fork and copy_process, by the running thread r.       *)

\* Mutant: no reference for the running task itself.
NewUsageOne == 1

\* dup_task_struct: "One for us, one for whoever does the release_task()"
NewUsage == 2

\* Mutant: the new thread is not counted.
threads_counter_keep == threads_counter' = threads_counter

threads_counter_inc == threads_counter' = threads_counter + 1

\* alloc_thread_info and copy_thread succeed.  (When the thread_info cannot
\* be allocated nothing changes.)
copy_thread(r, t) ==
    /\ pc[r] = "run" /\ state[t] = "none" /\ pc[t] = "none" /\ ~live[t]
    /\ live' = [live EXCEPT ![t] = TRUE]
    /\ state' = [state EXCEPT ![t] = "new"]
    /\ usage' = [usage EXCEPT ![t] = NewUsage]
    /\ pc' = [pc EXCEPT ![t] = "boot", ![r] = "fork"]
    /\ peer' = [peer EXCEPT ![r] = t]
    /\ threads_counter_inc
    /\ UNCHANGED <<current, hashed, rcu, sched_sem, dead, prev_sched, todo>>

\* thread_create fails: copy_process calls free_thread_info, but there is no
\* thread that would release the memory.
copy_thread_fails(r, t) ==
    /\ pc[r] = "run" /\ state[t] = "none" /\ pc[t] = "none" /\ ~live[t]
    /\ live' = [live EXCEPT ![t] = TRUE]
    /\ dead' = [dead EXCEPT ![t] = TRUE]
    /\ sched_sem' = [sched_sem EXCEPT ![t] = @ + 1]
    /\ UNCHANGED <<current, pc, peer, task, prev_sched, threads_counter, todo>>

\* The rest of copy_process, and wake_up_new_task.
wake_up_new_task(r) ==
    /\ pc[r] = "fork"
    /\ state' = [state EXCEPT ![peer[r]] = "running"]
    /\ hashed' = [hashed EXCEPT ![peer[r]] = TRUE]
    /\ Goto(r, "run")
    /\ peer' = [peer EXCEPT ![r] = NULL]
    /\ UNCHANGED <<current, usage, rcu, ti, threads_counter, todo>>

\* copy_process fails after copy_thread (alloc_pid): free_task.  The thread,
\* which exists already, will run into BUG_ON(ti->dead).
copy_process_fails(r) ==
    /\ pc[r] = "fork"
    /\ state' = [state EXCEPT ![peer[r]] = "none"]
    /\ usage' = [usage EXCEPT ![peer[r]] = 0]
    /\ free_thread_info(peer[r])
    /\ Goto(r, "run")
    /\ peer' = [peer EXCEPT ![r] = NULL]
    /\ UNCHANGED <<current, hashed, rcu, threads_counter, todo>>

-----------------------------------------------------------------------------
(* thread_bootstrap.                                                       *)

\* kfree(tba), before the thread was ever scheduled.
BootFree(t) ==
    /\ pc[t] = "boot"
    /\ Goto(t, "bwait")
    /\ UNCHANGED <<current, peer, task, ti, threads_counter, todo>>

\* sem_down(ti->sched_sem) and BUG_ON(ti->dead)
BootWait(t) ==
    /\ pc[t] = "bwait" /\ sched_sem[t] > 0
    /\ sched_sem' = [sched_sem EXCEPT ![t] = @ - 1]
    /\ Goto(t, IF dead[t] THEN "bug" ELSE "btail")
    /\ UNCHANGED <<current, peer, task, dead, prev_sched, live,
                   threads_counter, todo>>

\* schedule_tail(ti->prev_sched)
BootTail(t) ==
    /\ pc[t] = "btail"
    /\ \/ prev_sched[t] # NULL /\ finish_task_switch(prev_sched[t])
       \/ prev_sched[t] = NULL /\ UNCHANGED <<task, ti>>
    /\ Goto(t, "run")
    /\ UNCHANGED <<current, peer, threads_counter, todo>>

-----------------------------------------------------------------------------
(* What a running thread does: block, wake others, exit, schedule.         *)

\* schedule() from a thread that stays runnable.
yield(r) ==
    /\ pc[r] = "run"
    /\ Goto(r, "sched")
    /\ UNCHANGED <<current, peer, task, ti, threads_counter, todo>>

sleep(r) ==
    /\ pc[r] = "run" /\ r # Idle
    /\ state' = [state EXCEPT ![r] = "sleep"]
    /\ Goto(r, "sched")
    /\ UNCHANGED <<current, peer, usage, hashed, rcu, ti, threads_counter,
                   todo>>

wake_up(r, t) ==
    /\ pc[r] = "run" /\ state[t] = "sleep"
    /\ state' = [state EXCEPT ![t] = "running"]
    /\ UNCHANGED <<current, pc, peer, usage, hashed, rcu, ti,
                   threads_counter, todo>>

\* do_exit: exit_notify releases a task nobody waits for, else leaves a zombie.
do_exit(r) ==
    /\ pc[r] = "run" /\ r # Idle
    /\ state' = [state EXCEPT ![r] = "dead"]
    /\ \/ hashed' = [hashed EXCEPT ![r] = FALSE] /\ rcu' = [rcu EXCEPT ![r] = TRUE]
       \/ UNCHANGED <<hashed, rcu>>
    /\ Goto(r, "sched")
    /\ UNCHANGED <<current, peer, usage, ti, threads_counter, todo>>

\* release_task, by a parent that waits for the zombie t.
release_task(r, t) ==
    /\ pc[r] = "run" /\ state[t] = "dead" /\ hashed[t]
    /\ hashed' = [hashed EXCEPT ![t] = FALSE]
    /\ rcu' = [rcu EXCEPT ![t] = TRUE]
    /\ UNCHANGED <<current, pc, peer, state, usage, ti, threads_counter, todo>>

\* delayed_put_task_struct, from a softirq of the running thread.
delayed_put_task_struct(r, t) ==
    /\ pc[r] = "run" /\ rcu[t]
    /\ rcu' = [rcu EXCEPT ![t] = FALSE]
    /\ put_task_struct(t)
    /\ UNCHANGED <<current, pc, peer, threads_counter, todo>>

\* pick_next_task: idle is chosen when nothing else can run.
Runnable == {t \in Tasks : state[t] = "running"}
Candidates == IF Runnable = {} THEN {Idle} ELSE Runnable

\* Mutant: _current_thread_info is left alone.
schedule_stale(r, n) ==
    /\ pc[r] = "sched" /\ n \in Candidates
    /\ \/ n = r /\ Goto(r, "run") /\ UNCHANGED <<peer, prev_sched>>
       \/ /\ n # r
          /\ prev_sched' = [prev_sched EXCEPT ![n] = r]
          /\ peer' = [peer EXCEPT ![r] = n]
          /\ Goto(r, "up")
    /\ UNCHANGED <<current, task, sched_sem, dead, live, threads_counter, todo>>

\* schedule() and the start of __switch_to.
schedule(r, n) ==
    /\ pc[r] = "sched" /\ n \in Candidates
    /\ \/ n = r /\ Goto(r, "run") /\ UNCHANGED <<current, peer, prev_sched>>
       \/ /\ n # r
          /\ current' = n
          /\ prev_sched' = [prev_sched EXCEPT ![n] = r]
          /\ peer' = [peer EXCEPT ![r] = n]
          /\ Goto(r, "up")
    /\ UNCHANGED <<task, sched_sem, dead, live, threads_counter, todo>>

\* Mutant: the next thread is not woken.
SwitchSilent(r) ==
    /\ pc[r] = "up"
    /\ Goto(r, "down")
    /\ peer' = [peer EXCEPT ![r] = NULL]
    /\ UNCHANGED <<current, task, ti, threads_counter, todo>>

\* __switch_to: sem_up(_next->sched_sem)
SwitchUp(r) ==
    /\ pc[r] = "up"
    /\ sched_sem' = [sched_sem EXCEPT ![peer[r]] = @ + 1]
    /\ Goto(r, "down")
    /\ peer' = [peer EXCEPT ![r] = NULL]
    /\ UNCHANGED <<current, task, dead, prev_sched, live, threads_counter,
                   todo>>

\* Mutant: the thread that is switched away from goes on.
SwitchThrough(r) ==
    /\ pc[r] = "down"
    /\ Goto(r, IF dead[r] THEN "free" ELSE "back")
    /\ UNCHANGED <<current, peer, task, ti, threads_counter, todo>>

\* __switch_to: sem_down(_prev->sched_sem) and the test of _prev->dead
SwitchDown(r) ==
    /\ pc[r] = "down" /\ sched_sem[r] > 0
    /\ sched_sem' = [sched_sem EXCEPT ![r] = @ - 1]
    /\ Goto(r, IF dead[r] THEN "free" ELSE "back")
    /\ UNCHANGED <<current, peer, task, dead, prev_sched, live,
                   threads_counter, todo>>

\* What __switch_to returns to the thread that it resumes: its own argument.
Returned(r) == r

\* context_switch goes on with finish_task_switch(this_rq(), prev).
SwitchBack(r) ==
    /\ pc[r] = "back"
    /\ finish_task_switch(Returned(r))
    /\ Goto(r, "run")
    /\ UNCHANGED <<current, peer, threads_counter, todo>>

\* The end of a dead thread: sem_free, kfree(_prev) ...
ThreadFree(t) ==
    /\ pc[t] = "free"
    /\ live' = [live EXCEPT ![t] = FALSE]
    /\ Goto(t, "dec")
    /\ UNCHANGED <<current, peer, task, sched_sem, dead, prev_sched,
                   threads_counter, todo>>

\* ... threads_counter_dec and thread_exit.
ThreadDec(t) ==
    /\ pc[t] = "dec"
    /\ threads_counter' = threads_counter - 1
    /\ Goto(t, "exited")
    /\ UNCHANGED <<current, peer, task, ti, todo>>

-----------------------------------------------------------------------------
(* lkl_start_kernel, after cpu_idle has returned.                          *)

\* Mutant: cpu_idle returns at once when the machine is halted.
StartKernelReturnsEarly ==
    /\ pc[Idle] = "run"
    /\ todo' = {t \in Tasks : hashed[t]}
    /\ Goto(Idle, "kill")
    /\ UNCHANGED <<current, peer, task, ti, threads_counter>>

\* cpu_idle returns only when no thread is runnable (LklIrq!ExitAfterPending).
StartKernelReturns ==
    /\ pc[Idle] = "run" /\ Runnable = {}
    /\ todo' = {t \in Tasks : hashed[t]}
    /\ Goto(Idle, "kill")
    /\ UNCHANGED <<current, peer, task, ti, threads_counter>>

\* One round of kill_all_threads, with its BUG_ON.
kill_all_threads(t) ==
    /\ pc[Idle] = "kill" /\ t \in todo
    /\ todo' = todo \ {t}
    /\ \/ /\ state[t] = "running"
          /\ Goto(Idle, "bug")
          /\ UNCHANGED ti
       \/ /\ state[t] # "running"
          /\ free_thread_info(t)
          /\ UNCHANGED pc
    /\ UNCHANGED <<current, peer, task, threads_counter>>

KilledAll ==
    /\ pc[Idle] = "kill" /\ todo = {}
    /\ Goto(Idle, "cleanup")
    /\ UNCHANGED <<current, peer, task, ti, threads_counter, todo>>

\* threads_cleanup: loop while the counter is not 0, then free the semaphore.
threads_cleanup ==
    /\ pc[Idle] = "cleanup"
    /\ \/ threads_counter # 0 /\ UNCHANGED <<pc, live>>
       \/ /\ threads_counter = 0
          /\ live' = [live EXCEPT ![Idle] = FALSE]
          /\ Goto(Idle, "done")
    /\ UNCHANGED <<current, peer, task, sched_sem, dead, prev_sched,
                   threads_counter, todo>>

-----------------------------------------------------------------------------
\* The steps a thread takes by itself, once it is in the code of threads.c.
SwitchStep(t) ==
    \/ BootFree(t) \/ BootWait(t) \/ BootTail(t)
    \/ (\E n \in AllTasks : schedule(t, n))
    \/ SwitchUp(t) \/ SwitchDown(t) \/ SwitchBack(t)
    \/ ThreadFree(t) \/ ThreadDec(t)

RunStep(r) ==
    \/ \E t \in Tasks :
          \/ copy_thread(r, t) \/ copy_thread_fails(r, t)
          \/ wake_up(r, t) \/ release_task(r, t)
          \/ delayed_put_task_struct(r, t)
    \/ wake_up_new_task(r) \/ copy_process_fails(r)
    \/ yield(r) \/ sleep(r) \/ do_exit(r)

ShutdownStep ==
    \/ StartKernelReturns
    \/ \E t \in Tasks : kill_all_threads(t)
    \/ KilledAll
    \/ threads_cleanup

Next ==
    \/ \E t \in AllTasks : SwitchStep(t) \/ RunStep(t)
    \/ ShutdownStep

Spec == Init /\ [][Next]_vars

\* A host thread in a context switch is not stopped by the host.
FairSpec == Spec /\ \A t \in AllTasks : WF_vars(SwitchStep(t))

-----------------------------------------------------------------------------
(* Properties. *)

\* The host thread of t executes code of the kernel proper.
InKernel(t) ==
    pc[t] \in {"btail", "run", "fork", "sched", "up", "back", "kill",
               "cleanup", "done"}

\* t runs, or has been handed the right to run and has not taken it yet.
HasCpu(t) == InKernel(t) \/ (sched_sem[t] > 0 /\ ~dead[t])

(* The kernel is built without SMP and without preemption: its threads     *)
(* exclude each other by the hand-off in __switch_to.  At most one host    *)
(* thread runs kernel code or has been handed the right to, also while     *)
(* dead threads are woken to exit.                                         *)
OneRunner == \A t, u \in AllTasks : HasCpu(t) /\ HasCpu(u) => t = u

(* current_thread_info() is right for whoever runs: _current_thread_info,  *)
(* one global, names the thread that runs, except between its assignment   *)
(* in __switch_to and the sem_up that makes it true.                       *)
CurrentRuns ==
    \A t \in AllTasks :
        HasCpu(t) => current = IF pc[t] = "up" THEN peer[t] ELSE t

(* No thread touches a __thread_info or a task_struct that is freed: not   *)
(* the semaphores __switch_to uses, not the task a new thread is given as  *)
(* prev_sched, not those kill_all_threads visits.                          *)
NoUseAfterFree ==
    /\ \A t \in AllTasks :
          /\ pc[t] \in {"boot", "bwait", "down", "free"} => live[t]
          /\ pc[t] = "up" => live[peer[t]]
          /\ pc[t] = "btail" /\ prev_sched[t] # NULL =>
                state[prev_sched[t]] # "none"
    /\ \A t \in todo : live[t]

(* threads_cleanup returns, and memory goes, only when every host thread   *)
(* has left the kernel.                                                    *)
CleanupIsLast ==
    pc[Idle] = "done" =>
        \A t \in Tasks : pc[t] \in {"none", "exited"}

(* BUG_ON(p->state == TASK_RUNNING) of kill_all_threads never fires: no    *)
(* thread becomes runnable between the exit of cpu_idle and the visit of   *)
(* kill_all_threads.                                                       *)
NoRunnableKilled == pc[Idle] # "bug"

(* A context switch completes: once __switch_to has made a task current,   *)
(* some host thread runs kernel code as current.                           *)
SwitchCompletes == (\E r \in AllTasks : pc[r] = "up") ~> pc[current] = "run"

(* kernel/exit.c: setting TASK_DEAD "causes final put_task_struct in       *)
(* finish_task_switch()".  When another thread runs after the switch away  *)
(* from a dead task, the reference it had as current is dropped: what is   *)
(* left is the reference of release_task, if that is still to come.        *)
DeadReferenceDropped ==
    \A t \in Tasks :
        /\ state[t] = "dead" /\ pc[t] = "down"
        /\ \E r \in AllTasks : pc[r] = "run"
        => usage[t] = IF hashed[t] \/ rcu[t] THEN 1 ELSE 0

(* mm/slab.c: "The per-cpu arrays are never accessed from the wrong cpu,   *)
(* no locking".  With one CPU that asks for one thread at a time in code   *)
(* that may use the allocator; kfree(tba) of a thread that starts and      *)
(* kfree(_prev) of a thread that ends are such code too.                   *)
AllocatorExclusive ==
    \A t, u \in AllTasks :
        /\ InKernel(t) \/ pc[t] \in {"boot", "free"}
        /\ InKernel(u) \/ pc[u] \in {"boot", "free"}
        => t = u
=============================================================================
