-------------------------- MODULE LklThreads_proof --------------------------
(***************************************************************************)
(* Proofs about LklThreads, for any finite set of tasks: the hand-off in   *)
(* __switch_to gives mutual exclusion, _current_thread_info is right, no   *)
(* freed task or thread_info is touched, and the shutdown ends every host  *)
(* thread before it frees anything else.                                   *)
(***************************************************************************)
EXTENDS LklThreads, FiniteSetTheorems, TLAPS

USE TasksAssumption, NullAssumption DEF AllTasks

-----------------------------------------------------------------------------
(* The inductive invariant. *)

\* The types of what the hand-off uses.
ControlTypes ==
    /\ current \in AllTasks
    /\ pc \in [AllTasks -> Labels]
    /\ peer \in [AllTasks -> AllTasks \cup {NULL}]
    /\ sched_sem \in [AllTasks -> Nat]
    /\ dead \in [AllTasks -> BOOLEAN]

\* The semaphore of a living thread is a token: at most 1, and 0 while the
\* thread runs.
TokenInv ==
    \A t \in AllTasks :
        ~dead[t] => sched_sem[t] <= 1 /\ (InKernel(t) => sched_sem[t] = 0)

\* __switch_to is called for another task.
PeerInv ==
    \A t \in AllTasks : pc[t] = "up" => peer[t] \in AllTasks /\ peer[t] # t

IInv == ControlTypes /\ TokenInv /\ PeerInv /\ OneRunner /\ CurrentRuns

LEMMA InitInv == Init => IInv
  BY DEF Init, Labels, IInv, ControlTypes, TokenInv, PeerInv, OneRunner,
         CurrentRuns, HasCpu, InKernel

-----------------------------------------------------------------------------
(* An up of a semaphore, and the mark of a dead thread, keep their types. *)
LEMMA UpTypes ==
    ASSUME NEW f \in [AllTasks -> Nat], NEW t
    PROVE  [f EXCEPT ![t] = @ + 1] \in [AllTasks -> Nat]
<1>1. \A u \in AllTasks : [f EXCEPT ![t] = @ + 1][u] \in Nat
  BY SMT
<1> QED
  BY <1>1

LEMMA DeadTypes ==
    ASSUME ControlTypes, NEW t, free_thread_info(t)
    PROVE  sched_sem' \in [AllTasks -> Nat] /\ dead' \in [AllTasks -> BOOLEAN]
<1>1. dead' \in [AllTasks -> BOOLEAN]
  BY DEF free_thread_info, ControlTypes
<1> QED
  BY <1>1, UpTypes DEF free_thread_info, ControlTypes

LEMMA FinishTypes ==
    ASSUME ControlTypes, NEW t, finish_task_switch(t)
    PROVE  sched_sem' \in [AllTasks -> Nat] /\ dead' \in [AllTasks -> BOOLEAN]
  BY DeadTypes DEF finish_task_switch, put_task_struct, ControlTypes, task, ti

-----------------------------------------------------------------------------
(* Every step preserves the invariant: one step of the proof per action. *)
LEMMA NextInv == IInv /\ [Next]_vars => IInv'
<1> SUFFICES ASSUME IInv, [Next]_vars PROVE IInv'
  OBVIOUS
<1> USE DEF IInv
<1>1. ASSUME NEW r \in AllTasks, NEW t \in Tasks, copy_thread(r, t) PROVE IInv'
  <2>1. ControlTypes'
    BY <1>1 DEF copy_thread, task, ti, ControlTypes, Labels
  <2>2. TokenInv' /\ PeerInv'
    BY <1>1 DEF copy_thread, task, ti, ControlTypes, TokenInv, PeerInv,
           OneRunner, HasCpu, InKernel
  <2>3. OneRunner' /\ CurrentRuns'
    BY <1>1 DEF copy_thread, task, ti, ControlTypes, TokenInv, PeerInv,
           OneRunner, CurrentRuns, HasCpu, InKernel
  <2> QED
    BY <2>1, <2>2, <2>3
<1>2. ASSUME NEW r \in AllTasks, NEW t \in Tasks, copy_thread_fails(r, t) PROVE IInv'
  <2>1. ControlTypes'
    BY <1>2 DEF copy_thread_fails, task, ti, ControlTypes, Labels
  <2>2. TokenInv' /\ PeerInv'
    BY <1>2 DEF copy_thread_fails, task, ti, ControlTypes, TokenInv, PeerInv,
           OneRunner, HasCpu, InKernel
  <2>3. OneRunner' /\ CurrentRuns'
    BY <1>2 DEF copy_thread_fails, task, ti, ControlTypes, TokenInv, PeerInv,
           OneRunner, CurrentRuns, HasCpu, InKernel
  <2> QED
    BY <2>1, <2>2, <2>3
<1>3. ASSUME NEW r \in AllTasks, wake_up_new_task(r) PROVE IInv'
  <2>1. ControlTypes'
    BY <1>3 DEF wake_up_new_task, Goto, task, ti, ControlTypes, Labels
  <2>2. TokenInv' /\ PeerInv'
    BY <1>3 DEF wake_up_new_task, Goto, task, ti, ControlTypes, TokenInv,
           PeerInv, OneRunner, HasCpu, InKernel
  <2>3. OneRunner' /\ CurrentRuns'
    BY <1>3 DEF wake_up_new_task, Goto, task, ti, ControlTypes, TokenInv,
           PeerInv, OneRunner, CurrentRuns, HasCpu, InKernel
  <2> QED
    BY <2>1, <2>2, <2>3
<1>4. ASSUME NEW r \in AllTasks, copy_process_fails(r) PROVE IInv'
  <2>1. ControlTypes'
    BY <1>4, DeadTypes DEF copy_process_fails, Goto, ControlTypes, Labels
  <2>2. TokenInv' /\ PeerInv'
    BY <1>4 DEF copy_process_fails, Goto, free_thread_info, task, ti,
           ControlTypes, TokenInv, PeerInv, OneRunner, HasCpu, InKernel
  <2>3. OneRunner' /\ CurrentRuns'
    BY <1>4 DEF copy_process_fails, Goto, free_thread_info, task, ti,
           ControlTypes, TokenInv, PeerInv, OneRunner, CurrentRuns, HasCpu,
           InKernel
  <2> QED
    BY <2>1, <2>2, <2>3
<1>5. ASSUME NEW r \in AllTasks, BootFree(r) PROVE IInv'
  <2>1. ControlTypes'
    BY <1>5 DEF BootFree, Goto, task, ti, ControlTypes, Labels
  <2>2. TokenInv' /\ PeerInv'
    BY <1>5 DEF BootFree, Goto, task, ti, ControlTypes, TokenInv, PeerInv,
           OneRunner, HasCpu, InKernel
  <2>3. OneRunner' /\ CurrentRuns'
    BY <1>5 DEF BootFree, Goto, task, ti, ControlTypes, TokenInv, PeerInv,
           OneRunner, CurrentRuns, HasCpu, InKernel
  <2> QED
    BY <2>1, <2>2, <2>3
<1>6. ASSUME NEW r \in AllTasks, BootWait(r) PROVE IInv'
  <2>1. ControlTypes'
    BY <1>6 DEF BootWait, Goto, task, ti, ControlTypes, Labels
  <2>2. TokenInv' /\ PeerInv'
    BY <1>6 DEF BootWait, Goto, task, ti, ControlTypes, TokenInv, PeerInv,
           OneRunner, HasCpu, InKernel
  <2>3. OneRunner' /\ CurrentRuns'
    BY <1>6 DEF BootWait, Goto, task, ti, ControlTypes, TokenInv, PeerInv,
           OneRunner, CurrentRuns, HasCpu, InKernel
  <2> QED
    BY <2>1, <2>2, <2>3
<1>7. ASSUME NEW r \in AllTasks, BootTail(r) PROVE IInv'
  <2>1. ControlTypes'
    BY <1>7, FinishTypes DEF BootTail, Goto, ti, ControlTypes, Labels
  <2>2. TokenInv' /\ PeerInv'
    BY <1>7 DEF BootTail, Goto, finish_task_switch, put_task_struct,
           free_thread_info, task, ti, ControlTypes, TokenInv, PeerInv,
           OneRunner, HasCpu, InKernel
  <2>3. OneRunner' /\ CurrentRuns'
    BY <1>7 DEF BootTail, Goto, finish_task_switch, put_task_struct,
           free_thread_info, task, ti, ControlTypes, TokenInv, PeerInv,
           OneRunner, CurrentRuns, HasCpu, InKernel
  <2> QED
    BY <2>1, <2>2, <2>3
<1>8. ASSUME NEW r \in AllTasks, yield(r) PROVE IInv'
  <2>1. ControlTypes'
    BY <1>8 DEF yield, Goto, task, ti, ControlTypes, Labels
  <2>2. TokenInv' /\ PeerInv'
    BY <1>8 DEF yield, Goto, task, ti, ControlTypes, TokenInv, PeerInv,
           OneRunner, HasCpu, InKernel
  <2>3. OneRunner' /\ CurrentRuns'
    BY <1>8 DEF yield, Goto, task, ti, ControlTypes, TokenInv, PeerInv,
           OneRunner, CurrentRuns, HasCpu, InKernel
  <2> QED
    BY <2>1, <2>2, <2>3
<1>9. ASSUME NEW r \in AllTasks, sleep(r) PROVE IInv'
  <2>1. ControlTypes'
    BY <1>9 DEF sleep, Goto, task, ti, ControlTypes, Labels
  <2>2. TokenInv' /\ PeerInv'
    BY <1>9 DEF sleep, Goto, task, ti, ControlTypes, TokenInv, PeerInv,
           OneRunner, HasCpu, InKernel
  <2>3. OneRunner' /\ CurrentRuns'
    BY <1>9 DEF sleep, Goto, task, ti, ControlTypes, TokenInv, PeerInv,
           OneRunner, CurrentRuns, HasCpu, InKernel
  <2> QED
    BY <2>1, <2>2, <2>3
<1>10. ASSUME NEW r \in AllTasks, NEW t \in Tasks, wake_up(r, t) PROVE IInv'
  <2>1. ControlTypes'
    BY <1>10 DEF wake_up, task, ti, ControlTypes, Labels
  <2>2. TokenInv' /\ PeerInv'
    BY <1>10 DEF wake_up, task, ti, ControlTypes, TokenInv, PeerInv,
           OneRunner, HasCpu, InKernel
  <2>3. OneRunner' /\ CurrentRuns'
    BY <1>10 DEF wake_up, task, ti, ControlTypes, TokenInv, PeerInv,
           OneRunner, CurrentRuns, HasCpu, InKernel
  <2> QED
    BY <2>1, <2>2, <2>3
<1>11. ASSUME NEW r \in AllTasks, do_exit(r) PROVE IInv'
  <2>1. ControlTypes'
    BY <1>11 DEF do_exit, Goto, task, ti, ControlTypes, Labels
  <2>2. TokenInv' /\ PeerInv'
    BY <1>11 DEF do_exit, Goto, task, ti, ControlTypes, TokenInv, PeerInv,
           OneRunner, HasCpu, InKernel
  <2>3. OneRunner' /\ CurrentRuns'
    BY <1>11 DEF do_exit, Goto, task, ti, ControlTypes, TokenInv, PeerInv,
           OneRunner, CurrentRuns, HasCpu, InKernel
  <2> QED
    BY <2>1, <2>2, <2>3
<1>12. ASSUME NEW r \in AllTasks, NEW t \in Tasks, release_task(r, t) PROVE IInv'
  <2>1. ControlTypes'
    BY <1>12 DEF release_task, task, ti, ControlTypes, Labels
  <2>2. TokenInv' /\ PeerInv'
    BY <1>12 DEF release_task, task, ti, ControlTypes, TokenInv, PeerInv,
           OneRunner, HasCpu, InKernel
  <2>3. OneRunner' /\ CurrentRuns'
    BY <1>12 DEF release_task, task, ti, ControlTypes, TokenInv, PeerInv,
           OneRunner, CurrentRuns, HasCpu, InKernel
  <2> QED
    BY <2>1, <2>2, <2>3
<1>13. ASSUME NEW r \in AllTasks, NEW t \in Tasks,
            delayed_put_task_struct(r, t) PROVE IInv'
  <2>1. ControlTypes'
    BY <1>13, DeadTypes DEF delayed_put_task_struct, put_task_struct, ti,
           ControlTypes, Labels
  <2>2. TokenInv' /\ PeerInv'
    BY <1>13 DEF delayed_put_task_struct, put_task_struct, free_thread_info,
           task, ti, ControlTypes, TokenInv, PeerInv, OneRunner, HasCpu,
           InKernel
  <2>3. OneRunner' /\ CurrentRuns'
    BY <1>13 DEF delayed_put_task_struct, put_task_struct, free_thread_info,
           task, ti, ControlTypes, TokenInv, PeerInv, OneRunner, CurrentRuns,
           HasCpu, InKernel
  <2> QED
    BY <2>1, <2>2, <2>3
<1>14. ASSUME NEW r \in AllTasks, NEW n \in AllTasks, schedule(r, n) PROVE IInv'
  <2>1. ControlTypes'
    BY <1>14 DEF schedule, Goto, task, ti, ControlTypes, Labels
  <2>2. TokenInv' /\ PeerInv'
    BY <1>14 DEF schedule, Goto, task, ti, ControlTypes, TokenInv, PeerInv,
           OneRunner, HasCpu, InKernel
  <2>3. OneRunner' /\ CurrentRuns'
    BY <1>14 DEF schedule, Goto, task, ti, ControlTypes, TokenInv, PeerInv,
           OneRunner, CurrentRuns, HasCpu, InKernel
  <2> QED
    BY <2>1, <2>2, <2>3
<1>15. ASSUME NEW r \in AllTasks, SwitchUp(r) PROVE IInv'
  <2>1. ControlTypes'
    BY <1>15, UpTypes DEF SwitchUp, Goto, ControlTypes, Labels
  <2>2. TokenInv' /\ PeerInv'
    BY <1>15 DEF SwitchUp, Goto, task, ti, ControlTypes, TokenInv, PeerInv,
           OneRunner, HasCpu, InKernel
  <2>3. OneRunner' /\ CurrentRuns'
    BY <1>15 DEF SwitchUp, Goto, task, ti, ControlTypes, TokenInv, PeerInv,
           OneRunner, CurrentRuns, HasCpu, InKernel
  <2> QED
    BY <2>1, <2>2, <2>3
<1>16. ASSUME NEW r \in AllTasks, SwitchDown(r) PROVE IInv'
  <2>1. ControlTypes'
    BY <1>16 DEF SwitchDown, Goto, task, ti, ControlTypes, Labels
  <2>2. TokenInv' /\ PeerInv'
    BY <1>16 DEF SwitchDown, Goto, task, ti, ControlTypes, TokenInv, PeerInv,
           OneRunner, HasCpu, InKernel
  <2>3. OneRunner' /\ CurrentRuns'
    BY <1>16 DEF SwitchDown, Goto, task, ti, ControlTypes, TokenInv, PeerInv,
           OneRunner, CurrentRuns, HasCpu, InKernel
  <2> QED
    BY <2>1, <2>2, <2>3
<1>17. ASSUME NEW r \in AllTasks, SwitchBack(r) PROVE IInv'
  <2>1. ControlTypes'
    BY <1>17, FinishTypes DEF SwitchBack, Goto, ControlTypes, Labels
  <2>2. TokenInv' /\ PeerInv'
    BY <1>17 DEF SwitchBack, Goto, Returned, finish_task_switch,
           put_task_struct, free_thread_info, task, ti, ControlTypes,
           TokenInv, PeerInv, OneRunner, HasCpu, InKernel
  <2>3. OneRunner' /\ CurrentRuns'
    BY <1>17 DEF SwitchBack, Goto, Returned, finish_task_switch,
           put_task_struct, free_thread_info, task, ti, ControlTypes,
           TokenInv, PeerInv, OneRunner, CurrentRuns, HasCpu, InKernel
  <2> QED
    BY <2>1, <2>2, <2>3
<1>18. ASSUME NEW r \in AllTasks, ThreadFree(r) PROVE IInv'
  <2>1. ControlTypes'
    BY <1>18 DEF ThreadFree, Goto, task, ti, ControlTypes, Labels
  <2>2. TokenInv' /\ PeerInv'
    BY <1>18 DEF ThreadFree, Goto, task, ti, ControlTypes, TokenInv, PeerInv,
           OneRunner, HasCpu, InKernel
  <2>3. OneRunner' /\ CurrentRuns'
    BY <1>18 DEF ThreadFree, Goto, task, ti, ControlTypes, TokenInv, PeerInv,
           OneRunner, CurrentRuns, HasCpu, InKernel
  <2> QED
    BY <2>1, <2>2, <2>3
<1>19. ASSUME NEW r \in AllTasks, ThreadDec(r) PROVE IInv'
  <2>1. ControlTypes'
    BY <1>19 DEF ThreadDec, Goto, task, ti, ControlTypes, Labels
  <2>2. TokenInv' /\ PeerInv'
    BY <1>19 DEF ThreadDec, Goto, task, ti, ControlTypes, TokenInv, PeerInv,
           OneRunner, HasCpu, InKernel
  <2>3. OneRunner' /\ CurrentRuns'
    BY <1>19 DEF ThreadDec, Goto, task, ti, ControlTypes, TokenInv, PeerInv,
           OneRunner, CurrentRuns, HasCpu, InKernel
  <2> QED
    BY <2>1, <2>2, <2>3
<1>20. ASSUME StartKernelReturns PROVE IInv'
  <2>1. ControlTypes'
    BY <1>20 DEF StartKernelReturns, Goto, task, ti, ControlTypes, Labels
  <2>2. TokenInv' /\ PeerInv'
    BY <1>20 DEF StartKernelReturns, Goto, task, ti, ControlTypes, TokenInv,
           PeerInv, OneRunner, HasCpu, InKernel
  <2>3. OneRunner' /\ CurrentRuns'
    BY <1>20 DEF StartKernelReturns, Goto, task, ti, ControlTypes, TokenInv,
           PeerInv, OneRunner, CurrentRuns, HasCpu, InKernel
  <2> QED
    BY <2>1, <2>2, <2>3
<1>21. ASSUME NEW t \in Tasks, kill_all_threads(t) PROVE IInv'
  <2>1. ControlTypes'
    BY <1>21, DeadTypes DEF kill_all_threads, Goto, ti, ControlTypes, Labels
  <2>2. TokenInv' /\ PeerInv'
    BY <1>21 DEF kill_all_threads, Goto, free_thread_info, task, ti,
           ControlTypes, TokenInv, PeerInv, OneRunner, HasCpu, InKernel
  <2>3. OneRunner' /\ CurrentRuns'
    BY <1>21 DEF kill_all_threads, Goto, free_thread_info, task, ti,
           ControlTypes, TokenInv, PeerInv, OneRunner, CurrentRuns, HasCpu,
           InKernel
  <2> QED
    BY <2>1, <2>2, <2>3
<1>22. ASSUME KilledAll PROVE IInv'
  <2>1. ControlTypes'
    BY <1>22 DEF KilledAll, Goto, task, ti, ControlTypes, Labels
  <2>2. TokenInv' /\ PeerInv'
    BY <1>22 DEF KilledAll, Goto, task, ti, ControlTypes, TokenInv, PeerInv,
           OneRunner, HasCpu, InKernel
  <2>3. OneRunner' /\ CurrentRuns'
    BY <1>22 DEF KilledAll, Goto, task, ti, ControlTypes, TokenInv, PeerInv,
           OneRunner, CurrentRuns, HasCpu, InKernel
  <2> QED
    BY <2>1, <2>2, <2>3
<1>23. ASSUME threads_cleanup PROVE IInv'
  <2>1. ControlTypes'
    BY <1>23 DEF threads_cleanup, Goto, task, ti, ControlTypes, Labels
  <2>2. TokenInv' /\ PeerInv'
    BY <1>23 DEF threads_cleanup, Goto, task, ti, ControlTypes, TokenInv,
           PeerInv, OneRunner, HasCpu, InKernel
  <2>3. OneRunner' /\ CurrentRuns'
    BY <1>23 DEF threads_cleanup, Goto, task, ti, ControlTypes, TokenInv,
           PeerInv, OneRunner, CurrentRuns, HasCpu, InKernel
  <2> QED
    BY <2>1, <2>2, <2>3
<1>24. CASE UNCHANGED vars
  BY <1>24 DEF vars, task, ti, ControlTypes, TokenInv, PeerInv, OneRunner,
         CurrentRuns, HasCpu, InKernel
<1> QED
  BY <1>1, <1>2, <1>3, <1>4, <1>5, <1>6, <1>7, <1>8, <1>9, <1>10, <1>11,
     <1>12, <1>13, <1>14, <1>15, <1>16, <1>17, <1>18, <1>19, <1>20, <1>21,
     <1>22, <1>23, <1>24 DEF Next, SwitchStep, RunStep, ShutdownStep

(* Every reachable state satisfies the inductive invariant. *)
THEOREM Invariance == Spec => []IInv
  BY InitInv, NextInv, PTL DEF Spec

(* At most one host thread runs kernel code or has been handed the right   *)
(* to run it: the kernel needs no locks against its own threads.           *)
THEOREM MutualExclusion == Spec => []OneRunner
<1>1. IInv => OneRunner
  BY DEF IInv
<1> QED
  BY <1>1, Invariance, PTL

(* The thread that runs finds itself in _current_thread_info. *)
THEOREM CurrentIsRight == Spec => []CurrentRuns
<1>1. IInv => CurrentRuns
  BY DEF IInv
<1> QED
  BY <1>1, Invariance, PTL
-----------------------------------------------------------------------------
(* The life of a task: its memory, its references and its host thread.     *)

\* The types of what the life of a task uses.
DataTypes ==
    /\ state \in [AllTasks -> {"none", "new", "running", "sleep", "dead"}]
    /\ usage \in [AllTasks -> Nat]
    /\ hashed \in [AllTasks -> BOOLEAN]
    /\ rcu \in [AllTasks -> BOOLEAN]
    /\ prev_sched \in [AllTasks -> AllTasks \cup {NULL}]
    /\ live \in [AllTasks -> BOOLEAN]
    /\ todo \in SUBSET Tasks

\* The boot thread has not entered the end of lkl_start_kernel.
Booted == pc[Idle] \notin {"kill", "cleanup", "done"}

\* Where a host thread is that has not been told to exit.
Living ==
    {"boot", "bwait", "btail", "run", "fork", "sched", "up", "down", "back"}

\* The idle task is never released, and never meets a BUG_ON.
IdleInv ==
    /\ pc[Idle] \in {"run", "fork", "sched", "up", "down", "back", "kill",
                     "cleanup", "done"}
    /\ state[Idle] = "running" /\ ~dead[Idle] /\ ~hashed[Idle] /\ ~rcu[Idle]

\* A host thread that can still touch its thread_info has one, and a slot
\* that was never allocated is not dead.
LiveInv ==
    \A t \in AllTasks :
        /\ pc[t] \in Living \cup {"free", "kill", "cleanup"} => live[t]
        /\ pc[t] = "none" /\ ~live[t] => ~dead[t]

\* Up to the shutdown, a thread is told to exit only when its task is gone.
TaskInv ==
    Booted =>
        \A t \in AllTasks : state[t] # "none" => ~dead[t] /\ pc[t] \in Living

\* A fork in progress is about a task that nobody else knows.
ForkInv ==
    \A t \in AllTasks :
        pc[t] = "fork" => peer[t] \in Tasks /\ state[peer[t]] = "new"

\* t has been switched to and has not called finish_task_switch yet.
Resuming(t) == pc[t] \in {"btail", "back"} \/ (sched_sem[t] > 0 /\ ~dead[t])

\* Only a runnable task is switched to; one that schedules may have ended.
RunningInv ==
    \A t \in AllTasks :
        /\ Resuming(t) \/ pc[t] \in {"run", "fork"} => state[t] = "running"
        /\ pc[t] = "up" => state[peer[t]] = "running"
        /\ pc[t] \in {"sched", "up"} =>
              state[t] \in {"running", "sleep", "dead"}

\* prev_sched of a task that is switched to is the task that switched, which
\* is not freed before it was finished with.
PrevInv ==
    \A t \in AllTasks :
        /\ pc[t] = "up" => prev_sched[peer[t]] = t
        /\ Resuming(t) =>
              prev_sched[t] \in AllTasks /\ state[prev_sched[t]] # "none"

\* The reference that t has as a current task is not dropped yet.
Owned(t) ==
    \/ state[t] \in {"new", "running", "sleep"}
    \/ /\ state[t] = "dead"
       /\ \/ pc[t] \in {"sched", "up"}
          \/ \E u \in AllTasks : Resuming(u) /\ prev_sched[u] = t

\* What usage counts: one reference as current, one for release_task and the
\* delayed put after it.
UsageInv ==
    \A t \in AllTasks :
        /\ hashed[t] \/ rcu[t] => usage[t] >= 1 /\ state[t] # "none"
        /\ ~(hashed[t] /\ rcu[t]) /\ (rcu[t] => state[t] = "dead")
        /\ Owned(t) => usage[t] >= 1
        /\ Owned(t) /\ (hashed[t] \/ rcu[t]) => usage[t] >= 2
        /\ state[t] = "new" => usage[t] >= 2 /\ ~hashed[t] /\ ~rcu[t]
        /\ state[t] \in {"running", "sleep"} /\ t # Idle => hashed[t]

\* kill_all_threads runs when nothing is runnable, and what it has yet to
\* visit has not been told to exit.
KillInv ==
    /\ pc[Idle] = "kill" => Runnable = {}
    /\ todo # {} => pc[Idle] = "kill"
    /\ \A t \in todo : ~dead[t] /\ pc[t] \in Living

LifeInv ==
    /\ DataTypes /\ IdleInv /\ LiveInv /\ TaskInv /\ ForkInv /\ RunningInv
    /\ PrevInv /\ UsageInv /\ KillInv

(* The boot thread alone, with its two references, satisfies it. *)
LEMMA LifeInit == Init => LifeInv
<1> SUFFICES ASSUME Init PROVE LifeInv
  OBVIOUS
<1>1. DataTypes /\ IdleInv
  BY DEF Init, DataTypes, IdleInv
<1>2. LiveInv /\ TaskInv /\ ForkInv
  BY DEF Init, LiveInv, TaskInv, ForkInv, Booted, Living
<1>3. \A t \in AllTasks : ~Resuming(t)
  BY DEF Init, Resuming
<1>4. RunningInv /\ PrevInv /\ KillInv
  BY <1>3 DEF Init, RunningInv, PrevInv, KillInv
<1>5. UsageInv
  BY <1>3 DEF Init, UsageInv, Owned
<1> QED
  BY <1>1, <1>2, <1>4, <1>5 DEF LifeInv

(* Every step preserves it, given the mutual exclusion of IInv: whoever    *)
(* drops a reference or frees a task is alone in the kernel.               *)
LEMMA LifeStep == IInv /\ LifeInv /\ [Next]_vars => LifeInv'
<1> SUFFICES ASSUME IInv, LifeInv, [Next]_vars PROVE LifeInv'
  OBVIOUS
<1> USE DEF IInv, LifeInv, ControlTypes, DataTypes, IdleInv, Goto, task, ti,
        HasCpu, InKernel, Resuming, Booted, Living
<1>1. ASSUME NEW r \in AllTasks, NEW t \in Tasks, copy_thread(r, t)
      PROVE  LifeInv'
  <2>1. DataTypes' /\ IdleInv'
    BY <1>1 DEF copy_thread, NewUsage
  <2>2. LiveInv' /\ TaskInv' /\ ForkInv'
    BY <1>1 DEF copy_thread, LiveInv, TaskInv, ForkInv
  <2>3. RunningInv' /\ PrevInv'
    BY <1>1 DEF copy_thread, RunningInv, PrevInv
  <2>4. UsageInv'
    BY <1>1 DEF copy_thread, NewUsage, UsageInv, Owned
  <2>5. KillInv'
    BY <1>1 DEF copy_thread, KillInv, Runnable
  <2> QED
    BY <2>1, <2>2, <2>3, <2>4, <2>5
<1>2. ASSUME NEW r \in AllTasks, NEW t \in Tasks, copy_thread_fails(r, t)
    PROVE LifeInv'
  <2>1. DataTypes' /\ IdleInv'
    BY <1>2 DEF copy_thread_fails
  <2>2. LiveInv' /\ TaskInv' /\ ForkInv'
    BY <1>2 DEF copy_thread_fails, LiveInv, TaskInv, ForkInv
  <2>3. RunningInv' /\ PrevInv'
    BY <1>2 DEF copy_thread_fails, RunningInv, PrevInv
  <2>4. UsageInv'
    BY <1>2 DEF copy_thread_fails, UsageInv, Owned
  <2>5. KillInv'
    BY <1>2 DEF copy_thread_fails, KillInv, Runnable
  <2> QED
    BY <2>1, <2>2, <2>3, <2>4, <2>5
<1>3. ASSUME NEW r \in AllTasks, wake_up_new_task(r) PROVE LifeInv'
  <2>1. DataTypes' /\ IdleInv'
    BY <1>3 DEF wake_up_new_task, ForkInv
  <2>2. LiveInv' /\ TaskInv' /\ ForkInv'
    BY <1>3 DEF wake_up_new_task, LiveInv, TaskInv, ForkInv, OneRunner
  <2>3. RunningInv' /\ PrevInv'
    BY <1>3 DEF wake_up_new_task, RunningInv, PrevInv
  <2>4. UsageInv'
    BY <1>3 DEF wake_up_new_task, UsageInv, Owned, ForkInv
  <2>5. KillInv'
    BY <1>3 DEF wake_up_new_task, KillInv, OneRunner
  <2> QED
    BY <2>1, <2>2, <2>3, <2>4, <2>5
<1>4. ASSUME NEW r \in AllTasks, copy_process_fails(r) PROVE LifeInv'
  <2>1. DataTypes' /\ IdleInv'
    BY <1>4 DEF copy_process_fails, free_thread_info, ForkInv
  <2>2. LiveInv' /\ TaskInv' /\ ForkInv'
    BY <1>4 DEF copy_process_fails, free_thread_info, LiveInv, TaskInv,
        ForkInv, OneRunner
  <2>3. RunningInv' /\ PrevInv'
    BY <1>4 DEF copy_process_fails, free_thread_info, RunningInv, PrevInv,
        ForkInv, TokenInv, OneRunner
  <2>4. UsageInv'
    BY <1>4 DEF copy_process_fails, free_thread_info, UsageInv, Owned, ForkInv
  <2>5. KillInv'
    BY <1>4 DEF copy_process_fails, KillInv, OneRunner
  <2> QED
    BY <2>1, <2>2, <2>3, <2>4, <2>5
<1>5. ASSUME NEW r \in AllTasks, BootFree(r) PROVE LifeInv'
  <2>1. DataTypes' /\ IdleInv'
    BY <1>5 DEF BootFree
  <2>2. LiveInv' /\ TaskInv' /\ ForkInv'
    BY <1>5 DEF BootFree, LiveInv, TaskInv, ForkInv
  <2>3. RunningInv' /\ PrevInv'
    BY <1>5 DEF BootFree, RunningInv, PrevInv
  <2>4. UsageInv'
    BY <1>5 DEF BootFree, UsageInv, Owned
  <2>5. KillInv'
    BY <1>5 DEF BootFree, KillInv, Runnable
  <2> QED
    BY <2>1, <2>2, <2>3, <2>4, <2>5
<1>6. ASSUME NEW r \in AllTasks, BootWait(r) PROVE LifeInv'
  <2>1. DataTypes' /\ IdleInv'
    BY <1>6 DEF BootWait
  <2>2. LiveInv' /\ TaskInv' /\ ForkInv'
    BY <1>6 DEF BootWait, LiveInv, TaskInv, ForkInv
  <2>3. RunningInv' /\ PrevInv'
    BY <1>6 DEF BootWait, RunningInv, PrevInv
  <2>4. UsageInv'
    BY <1>6 DEF BootWait, UsageInv, Owned
  <2>5. KillInv'
    BY <1>6 DEF BootWait, KillInv, Runnable
  <2> QED
    BY <2>1, <2>2, <2>3, <2>4, <2>5
<1>7. ASSUME NEW r \in AllTasks, BootTail(r) PROVE LifeInv'
  <2>1. DataTypes' /\ IdleInv'
    BY <1>7 DEF BootTail, finish_task_switch, put_task_struct,
        free_thread_info, UsageInv, Owned
  <2>2. LiveInv' /\ TaskInv' /\ ForkInv'
    BY <1>7 DEF BootTail, finish_task_switch, put_task_struct,
        free_thread_info, LiveInv, TaskInv, ForkInv, OneRunner
  <2>3. RunningInv' /\ PrevInv'
    BY <1>7 DEF BootTail, finish_task_switch, put_task_struct,
        free_thread_info, RunningInv, PrevInv, TokenInv, OneRunner
  <2>4. UsageInv'
    <3>1. ~dead[r] /\ sched_sem[r] = 0 /\ r # Idle
      BY <1>7 DEF BootTail, TaskInv, RunningInv, TokenInv, OneRunner
    <3>2. \A u \in AllTasks : ~Resuming(u)'
      BY <1>7, <3>1 DEF BootTail, finish_task_switch, put_task_struct,
             free_thread_info, OneRunner
    <3>3. CASE UNCHANGED task
      BY <1>7, <3>2, <3>3 DEF BootTail, UsageInv, Owned, OneRunner
    <3>4. CASE prev_sched[r] # NULL /\ state[prev_sched[r]] = "dead"
               /\ put_task_struct(prev_sched[r]) /\ UNCHANGED rcu
      <4> PICK p \in AllTasks : p = prev_sched[r]
        BY <1>7, <3>4 DEF BootTail, PrevInv
      <4>1. p # r /\ pc[p] \notin {"sched", "up"} /\ Owned(p)
        BY <1>7, <3>4 DEF BootTail, RunningInv, Owned, OneRunner
      <4>2. ~Owned(p)'
        BY <1>7, <3>2, <3>4, <4>1 DEF BootTail, put_task_struct, Owned
      <4>3. \A t \in AllTasks : t # p => (Owned(t)' => Owned(t))
        BY <1>7, <3>2, <3>4, <4>1 DEF BootTail, put_task_struct, Owned
      <4> QED
        BY <3>4, <4>1, <4>2, <4>3 DEF put_task_struct, UsageInv
    <3> QED
      BY <1>7, <3>3, <3>4 DEF BootTail, finish_task_switch
  <2>5. KillInv'
    BY <1>7 DEF BootTail, KillInv, OneRunner
  <2> QED
    BY <2>1, <2>2, <2>3, <2>4, <2>5
<1>8. ASSUME NEW r \in AllTasks, yield(r) PROVE LifeInv'
  <2>1. DataTypes' /\ IdleInv'
    BY <1>8 DEF yield
  <2>2. LiveInv' /\ TaskInv' /\ ForkInv'
    BY <1>8 DEF yield, LiveInv, TaskInv, ForkInv
  <2>3. RunningInv' /\ PrevInv'
    BY <1>8 DEF yield, RunningInv, PrevInv
  <2>4. UsageInv'
    BY <1>8 DEF yield, UsageInv, Owned, RunningInv
  <2>5. KillInv'
    BY <1>8 DEF yield, KillInv, Runnable
  <2> QED
    BY <2>1, <2>2, <2>3, <2>4, <2>5
<1>9. ASSUME NEW r \in AllTasks, sleep(r) PROVE LifeInv'
  <2>1. DataTypes' /\ IdleInv'
    BY <1>9 DEF sleep
  <2>2. LiveInv' /\ TaskInv' /\ ForkInv'
    BY <1>9 DEF sleep, LiveInv, TaskInv, ForkInv, RunningInv
  <2>3. RunningInv' /\ PrevInv'
    BY <1>9 DEF sleep, RunningInv, PrevInv, TokenInv, OneRunner
  <2>4. UsageInv'
    BY <1>9 DEF sleep, UsageInv, Owned, RunningInv
  <2>5. KillInv'
    BY <1>9 DEF sleep, KillInv, Runnable
  <2> QED
    BY <2>1, <2>2, <2>3, <2>4, <2>5
<1>10. ASSUME NEW r \in AllTasks, NEW t \in Tasks, wake_up(r, t)
      PROVE  LifeInv'
  <2>1. DataTypes' /\ IdleInv'
    BY <1>10 DEF wake_up
  <2>2. LiveInv' /\ TaskInv' /\ ForkInv'
    BY <1>10 DEF wake_up, LiveInv, TaskInv, ForkInv
  <2>3. RunningInv' /\ PrevInv'
    BY <1>10 DEF wake_up, RunningInv, PrevInv
  <2>4. UsageInv'
    BY <1>10 DEF wake_up, UsageInv, Owned
  <2>5. KillInv'
    BY <1>10 DEF wake_up, KillInv, OneRunner
  <2> QED
    BY <2>1, <2>2, <2>3, <2>4, <2>5
<1>11. ASSUME NEW r \in AllTasks, do_exit(r) PROVE LifeInv'
  <2>1. DataTypes' /\ IdleInv'
    <3>1. state' = [state EXCEPT ![r] = "dead"] /\ r # Idle
      BY <1>11 DEF do_exit
    <3>2. hashed' \in [AllTasks -> BOOLEAN] /\ rcu' \in [AllTasks -> BOOLEAN]
      BY <1>11 DEF do_exit
    <3>3. ~hashed'[Idle] /\ ~rcu'[Idle]
      BY <1>11 DEF do_exit
    <3> QED
      BY <1>11, <3>1, <3>2, <3>3 DEF do_exit
  <2>2. LiveInv' /\ TaskInv' /\ ForkInv'
    BY <1>11 DEF do_exit, LiveInv, TaskInv, ForkInv, RunningInv
  <2>3. RunningInv' /\ PrevInv'
    BY <1>11 DEF do_exit, RunningInv, PrevInv, TokenInv, OneRunner
  <2>4. UsageInv'
    <3>1. \A u \in AllTasks : ~Resuming(u)'
      BY <1>11 DEF do_exit, TaskInv, TokenInv, OneRunner
    <3>2. state[r] = "running" /\ ~rcu[r]
      BY <1>11 DEF do_exit, RunningInv, UsageInv
    <3>3. \A t \in AllTasks : Owned(t)' => Owned(t)
      BY <1>11, <3>1, <3>2 DEF do_exit, Owned
    <3>4. CASE UNCHANGED <<hashed, rcu>>
      BY <1>11, <3>2, <3>3, <3>4 DEF do_exit, UsageInv
    <3>5. CASE /\ hashed' = [hashed EXCEPT ![r] = FALSE]
               /\ rcu' = [rcu EXCEPT ![r] = TRUE]
      <4>1. hashed'[r] = FALSE /\ rcu'[r] = TRUE /\ state'[r] = "dead"
        BY <1>11, <3>5 DEF do_exit
      <4>2. usage[r] >= 2
        BY <1>11, <3>2 DEF do_exit, UsageInv, Owned
      <4> QED
        BY <1>11, <3>2, <3>3, <3>5, <4>1, <4>2 DEF do_exit, UsageInv
    <3> QED
      BY <1>11, <3>4, <3>5 DEF do_exit
  <2>5. KillInv'
    BY <1>11 DEF do_exit, KillInv, Runnable
  <2> QED
    BY <2>1, <2>2, <2>3, <2>4, <2>5
<1>12. ASSUME NEW r \in AllTasks, NEW t \in Tasks, release_task(r, t)
      PROVE  LifeInv'
  <2>1. DataTypes' /\ IdleInv'
    BY <1>12 DEF release_task
  <2>2. LiveInv' /\ TaskInv' /\ ForkInv'
    BY <1>12 DEF release_task, LiveInv, TaskInv, ForkInv
  <2>3. RunningInv' /\ PrevInv'
    BY <1>12 DEF release_task, RunningInv, PrevInv
  <2>4. UsageInv'
    BY <1>12 DEF release_task, UsageInv, Owned
  <2>5. KillInv'
    BY <1>12 DEF release_task, KillInv, Runnable
  <2> QED
    BY <2>1, <2>2, <2>3, <2>4, <2>5
<1>13. ASSUME NEW r \in AllTasks, NEW t \in Tasks, delayed_put_task_struct(r,
    t) PROVE LifeInv'
  <2>1. DataTypes' /\ IdleInv'
    BY <1>13 DEF delayed_put_task_struct, put_task_struct, free_thread_info,
        UsageInv
  <2>2. LiveInv' /\ TaskInv' /\ ForkInv'
    BY <1>13 DEF delayed_put_task_struct, put_task_struct, free_thread_info,
        LiveInv, TaskInv, ForkInv, UsageInv, OneRunner
  <2>3. RunningInv' /\ PrevInv'
    BY <1>13 DEF delayed_put_task_struct, put_task_struct, free_thread_info,
        RunningInv, PrevInv, UsageInv, TokenInv, OneRunner
  <2>4. UsageInv'
    BY <1>13 DEF delayed_put_task_struct, put_task_struct, free_thread_info,
        UsageInv, Owned
  <2>5. KillInv'
    BY <1>13 DEF delayed_put_task_struct, KillInv, OneRunner
  <2> QED
    BY <2>1, <2>2, <2>3, <2>4, <2>5
<1>14. ASSUME NEW r \in AllTasks, NEW n \in AllTasks, schedule(r, n)
      PROVE  LifeInv'
  <2>1. DataTypes' /\ IdleInv'
    BY <1>14 DEF schedule
  <2>2. LiveInv' /\ TaskInv' /\ ForkInv'
    BY <1>14 DEF schedule, LiveInv, TaskInv, ForkInv
  <2>3. RunningInv' /\ PrevInv'
    BY <1>14 DEF schedule, Candidates, Runnable, RunningInv, PrevInv,
        OneRunner
  <2>4. UsageInv'
    BY <1>14 DEF schedule, UsageInv, Owned
  <2>5. KillInv'
    BY <1>14 DEF schedule, Runnable, KillInv
  <2> QED
    BY <2>1, <2>2, <2>3, <2>4, <2>5
<1>15. ASSUME NEW r \in AllTasks, SwitchUp(r) PROVE LifeInv'
  <2>1. DataTypes' /\ IdleInv'
    BY <1>15 DEF SwitchUp
  <2>2. LiveInv' /\ TaskInv' /\ ForkInv'
    BY <1>15 DEF SwitchUp, LiveInv, TaskInv, ForkInv
  <2>3. RunningInv' /\ PrevInv'
    BY <1>15 DEF SwitchUp, RunningInv, PrevInv
  <2>4. UsageInv'
    BY <1>15 DEF SwitchUp, UsageInv, Owned, PrevInv
  <2>5. KillInv'
    BY <1>15 DEF SwitchUp, KillInv, Runnable
  <2> QED
    BY <2>1, <2>2, <2>3, <2>4, <2>5
<1>16. ASSUME NEW r \in AllTasks, SwitchDown(r) PROVE LifeInv'
  <2>1. DataTypes' /\ IdleInv'
    BY <1>16 DEF SwitchDown
  <2>2. LiveInv' /\ TaskInv' /\ ForkInv'
    BY <1>16 DEF SwitchDown, LiveInv, TaskInv, ForkInv
  <2>3. RunningInv' /\ PrevInv'
    BY <1>16 DEF SwitchDown, RunningInv, PrevInv
  <2>4. UsageInv'
    BY <1>16 DEF SwitchDown, UsageInv, Owned
  <2>5. KillInv'
    BY <1>16 DEF SwitchDown, KillInv, Runnable
  <2> QED
    BY <2>1, <2>2, <2>3, <2>4, <2>5
<1>17. ASSUME NEW r \in AllTasks, SwitchBack(r) PROVE LifeInv'
  <2>1. DataTypes' /\ IdleInv'
    BY <1>17 DEF SwitchBack, Returned, finish_task_switch, RunningInv
  <2>2. LiveInv' /\ TaskInv' /\ ForkInv'
    BY <1>17 DEF SwitchBack, Returned, finish_task_switch, put_task_struct,
        free_thread_info, LiveInv, TaskInv, ForkInv
  <2>3. RunningInv' /\ PrevInv'
    BY <1>17 DEF SwitchBack, Returned, finish_task_switch, RunningInv, PrevInv
  <2>4. UsageInv'
    BY <1>17 DEF SwitchBack, Returned, finish_task_switch, UsageInv, Owned,
        RunningInv
  <2>5. KillInv'
    BY <1>17 DEF SwitchBack, KillInv, OneRunner
  <2> QED
    BY <2>1, <2>2, <2>3, <2>4, <2>5
<1>18. ASSUME NEW r \in AllTasks, ThreadFree(r) PROVE LifeInv'
  <2>1. DataTypes' /\ IdleInv'
    BY <1>18 DEF ThreadFree
  <2>2. LiveInv' /\ TaskInv' /\ ForkInv'
    BY <1>18 DEF ThreadFree, LiveInv, TaskInv, ForkInv
  <2>3. RunningInv' /\ PrevInv'
    BY <1>18 DEF ThreadFree, RunningInv, PrevInv
  <2>4. UsageInv'
    BY <1>18 DEF ThreadFree, UsageInv, Owned
  <2>5. KillInv'
    BY <1>18 DEF ThreadFree, KillInv, Runnable
  <2> QED
    BY <2>1, <2>2, <2>3, <2>4, <2>5
<1>19. ASSUME NEW r \in AllTasks, ThreadDec(r) PROVE LifeInv'
  <2>1. DataTypes' /\ IdleInv'
    BY <1>19 DEF ThreadDec
  <2>2. LiveInv' /\ TaskInv' /\ ForkInv'
    BY <1>19 DEF ThreadDec, LiveInv, TaskInv, ForkInv
  <2>3. RunningInv' /\ PrevInv'
    BY <1>19 DEF ThreadDec, RunningInv, PrevInv
  <2>4. UsageInv'
    BY <1>19 DEF ThreadDec, UsageInv, Owned
  <2>5. KillInv'
    BY <1>19 DEF ThreadDec, KillInv, Runnable
  <2> QED
    BY <2>1, <2>2, <2>3, <2>4, <2>5
<1>20. ASSUME StartKernelReturns PROVE LifeInv'
  <2>1. DataTypes' /\ IdleInv'
    BY <1>20 DEF StartKernelReturns
  <2>2. LiveInv' /\ TaskInv' /\ ForkInv'
    BY <1>20 DEF StartKernelReturns, LiveInv, TaskInv, ForkInv
  <2>3. RunningInv' /\ PrevInv'
    BY <1>20 DEF StartKernelReturns, RunningInv, PrevInv
  <2>4. UsageInv'
    BY <1>20 DEF StartKernelReturns, UsageInv, Owned
  <2>5. KillInv'
    BY <1>20 DEF StartKernelReturns, KillInv, Runnable, UsageInv, TaskInv
  <2> QED
    BY <2>1, <2>2, <2>3, <2>4, <2>5
<1>21. ASSUME NEW t \in Tasks, kill_all_threads(t) PROVE LifeInv'
  <2>1. DataTypes' /\ IdleInv'
    BY <1>21 DEF kill_all_threads, free_thread_info, KillInv, Runnable
  <2>2. LiveInv' /\ TaskInv' /\ ForkInv'
    BY <1>21 DEF kill_all_threads, free_thread_info, LiveInv, TaskInv,
        ForkInv, Runnable, KillInv
  <2>3. RunningInv' /\ PrevInv'
    BY <1>21 DEF kill_all_threads, free_thread_info, RunningInv, PrevInv
  <2>4. UsageInv'
    BY <1>21 DEF kill_all_threads, free_thread_info, UsageInv, Owned
  <2>5. KillInv'
    BY <1>21 DEF kill_all_threads, free_thread_info, KillInv, Runnable
  <2> QED
    BY <2>1, <2>2, <2>3, <2>4, <2>5
<1>22. ASSUME KilledAll PROVE LifeInv'
  <2>1. DataTypes' /\ IdleInv'
    BY <1>22 DEF KilledAll
  <2>2. LiveInv' /\ TaskInv' /\ ForkInv'
    BY <1>22 DEF KilledAll, LiveInv, TaskInv, ForkInv
  <2>3. RunningInv' /\ PrevInv'
    BY <1>22 DEF KilledAll, RunningInv, PrevInv
  <2>4. UsageInv'
    BY <1>22 DEF KilledAll, UsageInv, Owned
  <2>5. KillInv'
    BY <1>22 DEF KilledAll, KillInv
  <2> QED
    BY <2>1, <2>2, <2>3, <2>4, <2>5
<1>23. ASSUME threads_cleanup PROVE LifeInv'
  <2>1. DataTypes' /\ IdleInv'
    <3>1. live' \in [AllTasks -> BOOLEAN]
      BY <1>23 DEF threads_cleanup
    <3> QED
      BY <1>23, <3>1 DEF threads_cleanup
  <2>2. LiveInv' /\ TaskInv' /\ ForkInv'
    BY <1>23 DEF threads_cleanup, LiveInv, TaskInv, ForkInv
  <2>3. RunningInv' /\ PrevInv'
    BY <1>23 DEF threads_cleanup, RunningInv, PrevInv
  <2>4. UsageInv'
    BY <1>23 DEF threads_cleanup, UsageInv, Owned
  <2>5. KillInv'
    BY <1>23 DEF threads_cleanup, KillInv
  <2> QED
    BY <2>1, <2>2, <2>3, <2>4, <2>5
<1>24. CASE UNCHANGED vars
  BY <1>24 DEF vars, LiveInv, TaskInv, ForkInv, RunningInv, PrevInv, UsageInv,
         Owned, KillInv, Runnable
<1> QED
  BY <1>1, <1>2, <1>3, <1>4, <1>5, <1>6, <1>7, <1>8, <1>9, <1>10, <1>11,
      <1>12, <1>13, <1>14, <1>15, <1>16, <1>17, <1>18, <1>19, <1>20, <1>21,
      <1>22, <1>23, <1>24 DEF Next, SwitchStep, RunStep, ShutdownStep

(* In every reachable state references, memory and threads agree. *)
THEOREM LifeInvariance == Spec => [](IInv /\ LifeInv)
<1>1. Init => IInv /\ LifeInv
  BY InitInv, LifeInit
<1>2. IInv /\ LifeInv /\ [Next]_vars => (IInv /\ LifeInv)'
  BY NextInv, LifeStep
<1> QED
  BY <1>1, <1>2, PTL DEF Spec

(* A thread that waits in, or posts, a semaphore of threads.c finds the    *)
(* __thread_info that holds it allocated; a new thread finds the task that *)
(* it was switched from; kill_all_threads finds every task it visits.      *)
THEOREM MemorySafety == Spec => []NoUseAfterFree
<1>1. IInv /\ LifeInv => NoUseAfterFree
  <2> SUFFICES ASSUME IInv, LifeInv PROVE NoUseAfterFree
    OBVIOUS
  <2> USE DEF IInv, LifeInv
  <2>1. \A t \in AllTasks : pc[t] \in {"boot", "bwait", "down", "free"} => live[t]
    BY DEF LiveInv, Living
  <2>2. ASSUME NEW t \in AllTasks, pc[t] = "up" PROVE live[peer[t]]
    <3>1. Booted
      BY <2>2 DEF OneRunner, HasCpu, InKernel, Booted
    <3>2. peer[t] \in AllTasks /\ pc[peer[t]] \in Living
      BY <2>2, <3>1 DEF PeerInv, RunningInv, TaskInv
    <3> QED
      BY <3>2 DEF LiveInv
  <2>3. \A t \in AllTasks : pc[t] = "btail" => state[prev_sched[t]] # "none"
    BY DEF PrevInv, Resuming
  <2>4. \A t \in todo : live[t]
    BY DEF KillInv, LiveInv, DataTypes
  <2> QED
    BY <2>1, <2>2, <2>3, <2>4 DEF NoUseAfterFree
<1> QED
  BY <1>1, LifeInvariance, PTL

(* The BUG_ON of kill_all_threads does not fire. *)
THEOREM KillFindsNoRunnable == Spec => []NoRunnableKilled
<1>1. LifeInv => NoRunnableKilled
  BY DEF LifeInv, IdleInv, NoRunnableKilled
<1> QED
  BY <1>1, LifeInvariance, PTL

-----------------------------------------------------------------------------
(* The count of the host threads. *)

\* The host threads that have not yet decremented the counter.
HostThreads == {t \in Tasks : pc[t] \notin {"none", "exited"}}

\* threads_counter is their number, and the count is over before threads_cleanup
\* returns.
CounterInv ==
    /\ threads_counter = Cardinality(HostThreads)
    /\ CleanupIsLast

(* There are finitely many host threads: their number is one. *)
LEMMA HostThreadsFinite ==
    IsFiniteSet(HostThreads) /\ Cardinality(HostThreads) \in Nat
<1>1. IsFiniteSet(HostThreads)
  BY FS_Subset DEF HostThreads
<1> QED
  BY <1>1, FS_CardinalityType

(* threads_init: no host thread but the boot thread, which is not counted. *)
LEMMA CounterInit == Init => CounterInv
<1> SUFFICES ASSUME Init PROVE CounterInv
  OBVIOUS
<1>1. HostThreads = {} /\ threads_counter = 0 /\ pc[Idle] = "run"
  BY DEF Init, HostThreads
<1> QED
  BY <1>1, FS_EmptySet DEF CounterInv, CleanupIsLast

(* The counter follows the host threads: copy_thread and ThreadDec are the *)
(* only steps that change either, and they change both.                    *)
LEMMA CounterStep == IInv /\ LifeInv /\ CounterInv /\ [Next]_vars => CounterInv'
<1> SUFFICES ASSUME IInv, LifeInv, CounterInv, [Next]_vars PROVE CounterInv'
  OBVIOUS
<1> USE DEF IInv, LifeInv, ControlTypes
<1> DEFINE Others ==
      \/ \E r \in AllTasks, t \in Tasks :
            \/ copy_thread_fails(r, t) \/ wake_up(r, t) \/ release_task(r, t)
            \/ delayed_put_task_struct(r, t)
      \/ \E r \in AllTasks :
            \/ wake_up_new_task(r) \/ copy_process_fails(r) \/ BootFree(r)
            \/ BootWait(r) \/ BootTail(r) \/ yield(r) \/ sleep(r) \/ do_exit(r)
            \/ SwitchUp(r) \/ SwitchDown(r) \/ SwitchBack(r) \/ ThreadFree(r)
      \/ \E r, n \in AllTasks : schedule(r, n)
<1>1. ASSUME NEW r \in AllTasks, NEW t \in Tasks, copy_thread(r, t)
      PROVE CounterInv'
  <2>1. HostThreads' = HostThreads \cup {t} /\ t \notin HostThreads
    BY <1>1 DEF copy_thread, HostThreads
  <2>2. threads_counter' = Cardinality(HostThreads)'
    BY <1>1, <2>1, HostThreadsFinite, FS_AddElement
       DEF copy_thread, threads_counter_inc, CounterInv
  <2>3. pc'[Idle] # "done"
    BY <1>1 DEF copy_thread, OneRunner, HasCpu, InKernel
  <2> QED
    BY <2>2, <2>3 DEF CounterInv, CleanupIsLast
<1>2. ASSUME NEW r \in AllTasks, ThreadDec(r) PROVE CounterInv'
  <2>1. r \in Tasks /\ r \in HostThreads
    BY <1>2 DEF ThreadDec, IdleInv, HostThreads
  <2>2. HostThreads' = HostThreads \ {r}
    BY <1>2, <2>1 DEF ThreadDec, Goto, HostThreads
  <2>3. threads_counter' = Cardinality(HostThreads)'
    BY <1>2, <2>1, <2>2, HostThreadsFinite, FS_RemoveElement
       DEF ThreadDec, CounterInv
  <2>4. CleanupIsLast'
    BY <1>2, <2>1 DEF ThreadDec, Goto, CounterInv, CleanupIsLast
  <2> QED
    BY <2>3, <2>4 DEF CounterInv
<1>3. CASE threads_cleanup
  <2>1. HostThreads' = HostThreads /\ threads_counter' = threads_counter
    BY <1>3 DEF threads_cleanup, Goto, HostThreads
  <2>2. CASE threads_counter = 0
    <3>1. HostThreads = {}
      BY <2>2, HostThreadsFinite, FS_EmptySet DEF CounterInv
    <3>2. \A t \in Tasks : pc'[t] \in {"none", "exited"}
      BY <2>1, <3>1 DEF HostThreads
    <3> QED
      BY <2>1, <3>2 DEF CounterInv, CleanupIsLast
  <2>3. CASE threads_counter # 0
    BY <1>3, <2>1, <2>3 DEF threads_cleanup, CounterInv, CleanupIsLast
  <2> QED
    BY <2>2, <2>3
<1>4. CASE StartKernelReturns \/ KilledAll \/ \E t \in Tasks : kill_all_threads(t)
  <2>1. HostThreads' = HostThreads /\ threads_counter' = threads_counter
    BY <1>4 DEF StartKernelReturns, KilledAll, kill_all_threads, Goto,
           HostThreads
  <2>2. pc'[Idle] # "done"
    BY <1>4 DEF StartKernelReturns, KilledAll, kill_all_threads, Goto
  <2> QED
    BY <2>1, <2>2 DEF CounterInv, CleanupIsLast
<1>5. CASE Others
  <2>1. threads_counter' = threads_counter
    BY <1>5 DEF copy_thread_fails, wake_up, release_task,
           delayed_put_task_struct, wake_up_new_task, copy_process_fails,
           BootFree, BootWait, BootTail, yield, sleep, do_exit, SwitchUp,
           SwitchDown, SwitchBack, ThreadFree, schedule
  <2>2. \A t \in Tasks :
            pc'[t] \in {"none", "exited"} <=> pc[t] \in {"none", "exited"}
    BY <1>5 DEF copy_thread_fails, wake_up, release_task,
           delayed_put_task_struct, wake_up_new_task, copy_process_fails,
           BootFree, BootWait, BootTail, yield, sleep, do_exit, SwitchUp,
           SwitchDown, SwitchBack, ThreadFree, schedule, Goto
  <2>3. pc'[Idle] = "done" => pc[Idle] = "done"
    BY <1>5 DEF copy_thread_fails, wake_up, release_task,
           delayed_put_task_struct, wake_up_new_task, copy_process_fails,
           BootFree, BootWait, BootTail, yield, sleep, do_exit, SwitchUp,
           SwitchDown, SwitchBack, ThreadFree, schedule, Goto
  <2>4. HostThreads' = HostThreads
    BY <2>2 DEF HostThreads
  <2> QED
    BY <2>1, <2>2, <2>3, <2>4 DEF CounterInv, CleanupIsLast
<1>6. CASE UNCHANGED vars
  BY <1>6 DEF vars, CounterInv, CleanupIsLast, HostThreads
<1>7. \/ UNCHANGED vars \/ Others \/ threads_cleanup
      \/ StartKernelReturns \/ KilledAll
      \/ \E t \in Tasks : kill_all_threads(t)
      \/ \E r \in AllTasks, t \in Tasks : copy_thread(r, t)
      \/ \E r \in AllTasks : ThreadDec(r)
  BY Zenon DEF Next, SwitchStep, RunStep, ShutdownStep
<1> QED
  BY <1>1, <1>2, <1>3, <1>4, <1>5, <1>6, <1>7

(* Every invariant of the module at once. *)
THEOREM CounterInvariance == Spec => [](IInv /\ LifeInv /\ CounterInv)
<1>1. Init => CounterInv
  BY CounterInit
<1>2. IInv /\ LifeInv /\ CounterInv /\ [Next]_vars => CounterInv'
  BY CounterStep
<1> QED
  BY <1>1, <1>2, LifeInvariance, PTL DEF Spec

(* threads_cleanup returns, and lkl_start_kernel frees the memory of the   *)
(* kernel after it, only when every host thread is out of the kernel.      *)
THEOREM CleanupAfterAllThreads == Spec => []CleanupIsLast
<1>1. CounterInv => CleanupIsLast
  BY DEF CounterInv
<1> QED
  BY <1>1, CounterInvariance, PTL

(* Type correctness: no reference count and no counter drops below 0. *)
THEOREM TypeCorrect == Spec => []TypeOK
<1>1. IInv /\ LifeInv /\ CounterInv => TypeOK
  BY HostThreadsFinite DEF IInv, ControlTypes, LifeInv, DataTypes, CounterInv, TypeOK
<1> QED
  BY <1>1, CounterInvariance, PTL
=============================================================================
