------------------------- MODULE LklSyscalls_proof --------------------------
(***************************************************************************)
(* The safety of the system call path, for any number of callers and of    *)
(* calls.  A struct syscall lives on its caller's stack, so the heart of   *)
(* the invariant is where a pointer to it can be: in one place at most     *)
(* (OnceInv), and only while its caller waits (LinkInv).  From there       *)
(* follow what a queue's kernel thread has in hand (ExecInv), that it has  *)
(* run what it answers and nobody else's (RunInv), when a thread's own     *)
(* queue exists (ServeInv), which queues are used after they were freed    *)
(* (FreedInv), who has the CPU (CpuInv) and when a halt returns (HaltInv). *)
(***************************************************************************)
EXTENDS LklSyscalls, SeqRange
USE CallersAssumption
USE DEF SYSCALL_IRQ, Workers, Queues

(* The interrupt's queue of struct syscalls.                               *)
Line == queue[SYSCALL_IRQ]

(* The caller is in sem_down(s.sem) and has not been answered.             *)
Waiting(c) == pc[c] = "down" /\ s_sem[c] = 0

(* The caller is between the start of SYSCALL_VIA_QUEUE and its answer.    *)
InCall(c) == pc[c] \in {"sem", "trigger", "down"}

(* The kernel thread has a syscall in hand.                                *)
Busy == {"exec", "blocked", "resumed", "up", "del", "upexit"}

(* Which queue a struct syscall names is told by its number: sys_call goes *)
(* to the work queue, the reboot of lkl_syscall_thread_cleanup to the      *)
(* caller's own queue and that of lkl_sys_halt to the default queue.  The  *)
(* semaphore of a call is upped at most once, while the caller waits.      *)
KindInv ==
    \A c \in Callers :
        /\ s[c].no = "call" <=> s[c].queue = Events
        /\ s[c].no = "reboot" => s[c].queue = c
        /\ s[c].no = "halt" => s[c].queue = Default
        /\ s[c].queue \in {c, Default, Events}
        /\ pc[c] # "out" => s[c].no # "none"
        /\ pc[c] \in {"haltread", "haltdown", "haltfree", "crashed"}
           => s[c].no = "halt"
        /\ s_sem[c] \in {0, 1} /\ (s_sem[c] = 1 => pc[c] = "down")

(* Whoever holds a pointer to a struct syscall, its caller waits for the   *)
(* answer, and it is on the queue it names.                                *)
LinkInv ==
    /\ \A c \in Range(Line) : Waiting(c)
    /\ \A w \in Workers :
          /\ \A c \in Range(list[w]) : Waiting(c) /\ s[c].queue = w
          /\ wcur[w] \in Callers => Waiting(wcur[w]) /\ s[wcur[w]].queue = w
          /\ wcur[w] \in Callers <=> wst[w] \in Busy

(* No struct syscall is in two places: twice on the interrupt's queue or   *)
(* on a list, on both, or in hand and still on either.                     *)
OnceInv ==
    /\ IsInjective(Line)
    /\ \A w \in Workers :
          /\ IsInjective(list[w])
          /\ wcur[w] \notin Range(list[w]) \cup Range(Line)
          /\ Range(list[w]) \cap Range(Line) = {}

(* The handler of the call has run and its result is stored.               *)
Ran(c) ==
    \/ pc[c] = "down" /\ s_sem[c] = 1
    \/ \E w \in Workers : wcur[w] = c /\ wst[w] \in {"up", "upexit"}

(* run_syscall has only handlers to run, the end of run_syscalls only a    *)
(* reboot.                                                                 *)
ExecInv ==
    \A w \in Workers :
        /\ wst[w] \in {"exec", "blocked", "resumed", "up"}
           => s[wcur[w]].no \in {"plain", "call"}
        /\ wst[w] \in {"del", "upexit"} => s[wcur[w]].no \in {"reboot", "halt"}

(* A handler is run once for its call and stores, as an int, what it       *)
(* returned; a reboot gives 0.                                             *)
Runs(c) ==
    /\ Ran(c) /\ s[c].no = "plain" =>
          \E r \in Results[c] : ran[c] = {r} /\ s_ret[c] = AsInt(r)
    /\ ~Ran(c) /\ InCall(c) /\ s[c].no = "plain" => ran[c] = {}
    /\ Ran(c) /\ s[c].no \in {"reboot", "halt"} => s_ret[c] = 0

(* It holds of every caller.                                               *)
RunInv == \A c \in Callers : Runs(c)

(* A queue's kernel thread is not there to take calls.                     *)
Off == {"none", "gone", "upexit"}

(* The caller is in the sys_call of lkl_syscall_thread_init.               *)
Initing(c) == s[c].no = "call" /\ InCall(c)

(* The life of the queue of caller c: it is hashed exactly while it has a  *)
(* kernel thread, but for lkl_syscall_thread_init, which hashes it before  *)
(* it starts the thread, and its failures.  A call sent to it finds it     *)
(* hashed until the call has run, and only the caller's own reboot ends    *)
(* its thread.                                                             *)
Served(c) ==
    /\ c \notin Privates =>
          /\ qstate[c] = "none" /\ wst[c] = "none" /\ c \notin orphan
          /\ s[c].no \notin {"call", "reboot"}
    /\ c \in orphan =>
          qstate[c] = "hashed" /\ wst[c] \in {"none", "gone"} /\ ~Initing(c)
    /\ Initing(c) =>
          /\ qstate[c] = "hashed"
          /\ \/ wst[c] \in {"none", "gone"}
             \/ Ran(c) /\ AsInt(s_ret[c]) >= 0 /\ wst[c] \notin Off
          /\ Ran(c) /\ AsInt(s_ret[c]) >= 0 => wst[c] \notin Off
    /\ ~Initing(c) /\ c \notin orphan =>
          (qstate[c] = "hashed" <=> wst[c] \notin Off)
    /\ InCall(c) /\ s[c].queue = c /\ ~Ran(c) => qstate[c] = "hashed"
    /\ wst[c] \in {"del", "upexit"} => wcur[c] = c /\ s[c].no = "reboot"

(* It holds of every caller.                                               *)
ServeInv == \A c \in Callers : Served(c)

(* The semaphore of a halt is upped only at the end of lkl_start_kernel,   *)
(* which follows that of cpu_idle, so that whoever passes its sem_down,    *)
(* and frees a semaphore, comes after both.                                *)
HaltInv ==
    /\ finished => exited
    /\ \A h \in HaltSems : halt_val[h] > 0 => finished
    /\ \A c \in Callers :
          /\ pc[c] = "haltdown" => halt_arg[c] \in HaltSems
          /\ pc[c] = "haltfree" => finished
    /\ halt_free # {} => finished
    /\ HaltIsLast

(* A kernel thread that is not asleep has the CPU: Idle handles no         *)
(* interrupt while a thread is between two of its sleeps.                  *)
CpuInv ==
    \A w \in Workers : wst[w] \in {"exec", "up", "del", "upexit"} => cpu = w

(* The default queue is freed on the way to kernel_halt.                   *)
FreedInv ==
    /\ qstate[Default] = "freed" => halted \/ wst[Default] = "upexit"
    /\ NoFreedQueue

(* Types: the callers and their struct syscalls.                           *)
CallTypes ==
    /\ pc \in [Callers -> {"out", "sem", "trigger", "down", "haltread",
                           "haltdown", "haltfree", "crashed"}]
    /\ s \in [Callers -> [no : {"none", "plain", "call", "reboot", "halt"},
                          queue : Workers]]
    /\ s_ret \in [Callers -> Int] /\ res \in [Callers -> Int]
    /\ s_sem \in [Callers -> Nat]

(* Types: the interrupt's queue and the lists.                             *)
ListTypes ==
    /\ queue \in [{SYSCALL_IRQ} -> Seq(Callers)]
    /\ list \in [Workers -> Seq(Callers)]

(* Types: the queues and their kernel threads.                             *)
ThreadTypes ==
    /\ qstate \in [Queues -> {"none", "hashed", "freed"}]
    /\ wst \in [Workers -> {"none", "ready", "asleep", "exec", "blocked",
                            "resumed", "up", "del", "upexit", "gone"}]
    /\ wcur \in [Workers -> Callers \cup {NULL}]

(* Types: the rest.                                                        *)
OtherTypes ==
    /\ irq_data \in [{SYSCALL_IRQ} -> Callers \cup {NULL}]
    /\ count = [i \in {SYSCALL_IRQ} |-> 0]
    /\ cpu \in Workers \cup {Idle}
    /\ halted \in BOOLEAN /\ exited \in BOOLEAN /\ finished \in BOOLEAN
    /\ ran \in [Callers -> SUBSET Int]
    /\ uaf \subseteq Queues /\ orphan \subseteq Callers
    /\ halt_sem \in HaltSems \cup {NULL}
    /\ halt_val \in [HaltSems -> Nat]
    /\ halt_arg \in [Callers -> HaltSems \cup {NULL}]
    /\ halt_free \subseteq HaltSems

(* The conversion to int gives an int, leaves one alone, and keeps the two *)
(* answers of kernel_thread.                                               *)
LEMMA IntFacts ==
    /\ \A x \in Int : AsInt(x) \in Int /\ AsInt(AsInt(x)) = AsInt(x)
    /\ AsInt(PID) >= 0 /\ AsInt(ENOMEM) < 0 /\ AsInt(0) = 0
<1> DEFINE H == IntSize \div 2
<1>1. H \in Nat /\ H >= 16 /\ IntSize = H + H
  BY IntAssumption
<1>2. \A y \in Int : y >= 0 /\ y < IntSize => y % IntSize = y
  BY IntAssumption
<1>3. \A x \in Int : x % IntSize \in 0 .. IntSize - 1
  BY IntAssumption
<1> HIDE DEF H
<1>4. ASSUME NEW x \in Int PROVE AsInt(x) \in Int /\ AsInt(AsInt(x)) = AsInt(x)
  <2>1. AsInt(x) = ((x + H) % IntSize) - H /\ x + H \in Int
    BY <1>1 DEF AsInt, H
  <2>2. (x + H) % IntSize \in 0 .. IntSize - 1
    BY <1>3, <2>1
  <2>3. AsInt(x) \in Int /\ AsInt(x) + H = (x + H) % IntSize
    BY <1>1, <2>1, <2>2
  <2>4. (AsInt(x) + H) % IntSize = (x + H) % IntSize
    BY <1>1, <1>2, <2>2, <2>3
  <2> QED
    BY <2>1, <2>3, <2>4 DEF AsInt, H
<1>5. \A x \in Int : x + H >= 0 /\ x + H < IntSize => AsInt(x) = x
  BY <1>1, <1>2 DEF AsInt, H
<1> QED
  BY <1>1, <1>4, <1>5 DEF PID, ENOMEM

(* The interrupt's queue and the lists hold callers.                       *)
LEMMA RangeTypes ==
    ASSUME ListTypes
    PROVE  /\ Line \in Seq(Callers) /\ Range(Line) \subseteq Callers
           /\ \A w \in Workers : list[w] \in Seq(Callers)
              /\ Range(list[w]) \subseteq Callers
<1>1. Line \in Seq(Callers) /\ \A w \in Workers : list[w] \in Seq(Callers)
  BY DEF ListTypes, Line
<1> QED
  BY <1>1, SeqTypes

(* lkl_trigger_irq_with_data puts the struct syscall at the end of the     *)
(* interrupt's queue, or it fails and does nothing.                        *)
LEMMA TriggerFacts ==
    ASSUME ListTypes, NEW c \in Callers, Trigger(c)
    PROVE  /\ ListTypes'
           /\ \/ Range(Line)' = Range(Line) \cup {c}
              \/ Range(Line)' = Range(Line)
           /\ IsInjective(Line) /\ c \notin Range(Line) => IsInjective(Line)'
<1>1. CASE UNCHANGED queue
  BY <1>1 DEF Trigger, kthread, ListTypes, Line
<1>2. CASE IRQ!RaiseData(SYSCALL_IRQ, c)
  <2>1. queue' = [queue EXCEPT ![SYSCALL_IRQ] = Append(Line, c)]
    BY <1>2 DEF IRQ!RaiseData, Line
  <2>2. Line' = Append(Line, c)
    BY <2>1 DEF Line, ListTypes
  <2>3. Append(Line, c) \in Seq(Callers)
    BY RangeTypes, AppendRange
  <2>4. ListTypes'
    BY <2>1, <2>3 DEF Trigger, kthread, ListTypes
  <2> QED
    BY <2>2, <2>4, RangeTypes, AppendRange
<1> QED
  BY <1>1, <1>2 DEF Trigger, irq

(* dequeue_syscall takes the first syscall off the list, and touches no    *)
(* other.                                                                  *)
LEMMA DequeueFacts ==
    ASSUME ListTypes, NEW w \in Workers, dequeue_syscall(w), list[w] # <<>>
    PROVE  LET h == Head(list[w]) IN
           /\ ListTypes' /\ UNCHANGED Line
           /\ h \in Callers /\ h \in Range(list[w])
           /\ \A v \in Workers : v # w => list'[v] = list[v]
           /\ Range(list[w]) = Range(list'[w]) \cup {h}
           /\ IsInjective(list[w]) => IsInjective(list'[w])
              /\ h \notin Range(list'[w])
<1>1. list' = [list EXCEPT ![w] = Tail(list[w])] /\ UNCHANGED queue
  BY DEF dequeue_syscall, list_del, irq
<1>2. list[w] \in Seq(Callers) /\ Tail(list[w]) \in Seq(Callers)
  BY RangeTypes, TailRange
<1>3. ListTypes' /\ list'[w] = Tail(list[w])
  BY <1>1, <1>2 DEF ListTypes
<1>4. \A v \in Workers : v # w => list'[v] = list[v]
  BY <1>1 DEF ListTypes
<1> QED
  BY <1>1, <1>2, <1>3, <1>4, TailRange DEF Line

(* syscall_irq takes the first syscall off the interrupt's queue and puts  *)
(* it on the list of the queue it names.                                   *)
LEMMA IrqFacts ==
    ASSUME CallTypes, ListTypes, syscall_irq
    PROVE  LET h == Head(Line)
               q == s[h].queue IN
           /\ ListTypes'
           /\ h \in Callers /\ h \in Range(Line) /\ q \in Workers
           /\ Range(Line) = Range(Line)' \cup {h}
           /\ IsInjective(Line) => IsInjective(Line)' /\ h \notin Range(Line)'
           /\ \A v \in Workers : v # q => list'[v] = list[v]
           /\ Range(list'[q]) = Range(list[q]) \cup {h}
           /\ IsInjective(list[q]) /\ h \notin Range(list[q])
              => IsInjective(list'[q])
<1> DEFINE h == Head(Line)
           q == s[h].queue
           new == IF q = Events THEN Append(list[q], h) ELSE <<h>> \o list[q]
<1>1. /\ Line # <<>> /\ queue' = [queue EXCEPT ![SYSCALL_IRQ] = Tail(Line)]
      /\ list' = [list EXCEPT ![q] = new]
  BY DEF syscall_irq, IRQ!HandleData, Line
<1>2. /\ Line \in Seq(Callers) /\ h \in Callers /\ Tail(Line) \in Seq(Callers)
      /\ h \in Range(Line) /\ Range(Line) = Range(Tail(Line)) \cup {h}
      /\ IsInjective(Line) => IsInjective(Tail(Line))
         /\ h \notin Range(Tail(Line))
  BY <1>1, RangeTypes, TailRange
<1>3. q \in Workers
  BY <1>2 DEF CallTypes
<1>4. /\ new \in Seq(Callers) /\ Range(new) = Range(list[q]) \cup {h}
      /\ IsInjective(list[q]) /\ h \notin Range(list[q]) => IsInjective(new)
  BY <1>2, <1>3, RangeTypes, AppendRange, PushRange
<1> HIDE DEF h, new
<1>5. ListTypes' /\ list'[q] = new /\ \A v \in Workers : v # q
      => list'[v] = list[v]
  BY <1>1, <1>2, <1>3, <1>4 DEF ListTypes
<1>6. Line' = Tail(Line)
  BY <1>1 DEF ListTypes, Line
<1> QED
  BY <1>2, <1>3, <1>4, <1>5, <1>6 DEF h

(* The end of lkl_sys_halt concerns its caller and the halt semaphores.    *)
LEMMA HaltRestFacts ==
    ASSUME CallTypes, NEW c \in Callers, HaltRest(c)
    PROVE  /\ pc[c] \in {"haltread", "haltdown", "haltfree"}
           /\ pc'[c] \in {"haltdown", "haltfree", "crashed", "out"}
           /\ \A x \in Callers : x # c => pc'[x] = pc[x] /\ res'[x] = res[x]
           /\ UNCHANGED <<irq, s, s_ret, s_sem, qstate, kthread, halted,
                          exited, finished, history>>
<1> USE DEF CallTypes, Return, Goto
<1>1. CASE HaltRead(c)
  BY <1>1 DEF HaltRead
<1>2. CASE HaltDown(c)
  BY <1>2 DEF HaltDown
<1>3. CASE HaltFree(c)
  BY <1>3 DEF HaltFree
<1> QED
  BY <1>1, <1>2, <1>3 DEF HaltRest

(* No step leaves a pointer to the stack of a caller that does not wait: a *)
(* caller stops waiting only when run_syscall or the end of run_syscalls   *)
(* has answered it, and then its only holder lets it go.                   *)
LEMMA LinkStep ==
    CallTypes /\ ListTypes /\ ThreadTypes /\ KindInv /\ LinkInv /\ OnceInv
    /\ ExecInv /\ ServeInv
    /\ [Next]_vars => LinkInv'
<1> SUFFICES ASSUME CallTypes, ListTypes, ThreadTypes, KindInv, LinkInv,
                    OnceInv, ExecInv, ServeInv, [Next]_vars
             PROVE  LinkInv'
  OBVIOUS
<1> USE DEF CallTypes, ThreadTypes, caller, kthread, halt, haltsem, history
<1>1. ASSUME NEW c \in Callers, SYSCALL(c) PROVE LinkInv'
  BY <1>1 DEF SYSCALL, Start, Goto, LinkInv, Waiting, Line, irq
<1>2. ASSUME NEW c \in Callers, lkl_sys_halt(c) PROVE LinkInv'
  BY <1>2 DEF lkl_sys_halt, Start, Goto, LinkInv, Waiting, Line, irq
<1>3. ASSUME NEW c \in Callers, lkl_sys_halt_fails(c) PROVE LinkInv'
  BY <1>3 DEF lkl_sys_halt_fails, Return, Goto, LinkInv, Waiting, Line, irq
<1>4. ASSUME NEW c \in Callers, lkl_syscall_thread_init(c) PROVE LinkInv'
  BY <1>4 DEF lkl_syscall_thread_init, Start, Goto, LinkInv, Waiting, Line,
      irq
<1>5. ASSUME NEW c \in Callers, lkl_syscall_thread_cleanup(c) PROVE LinkInv'
  BY <1>5 DEF lkl_syscall_thread_cleanup, Start, Goto, LinkInv, Waiting, Line,
      irq
<1>6. ASSUME NEW c \in Callers, SemAlloc(c) PROVE LinkInv'
  BY <1>6, RangeTypes DEF SemAlloc, Goto, Return, LinkInv, Busy, Waiting,
      Line, irq
<1>7. ASSUME NEW c \in Callers, Trigger(c) PROVE LinkInv'
  <2>1. Waiting(c)'
    BY <1>7 DEF Trigger, Goto, KindInv, Waiting
  <2>2. \A x \in Callers : Waiting(x) => Waiting(x)'
    BY <1>7, <2>1 DEF Trigger, Goto, Waiting
  <2>3. \A x \in Range(Line)' : Waiting(x)'
    <3>1. \A x \in Range(Line)' : x \in Range(Line) \/ x = c
      BY <1>7, TriggerFacts
    <3> QED
      BY <2>1, <2>2, <3>1, RangeTypes DEF LinkInv
  <2>4. UNCHANGED <<s, list, wst, wcur>>
    BY <1>7 DEF Trigger
  <2> HIDE DEF CallTypes, ThreadTypes
  <2> QED
    BY <2>2, <2>3, <2>4, RangeTypes DEF LinkInv
<1>8. ASSUME NEW c \in Callers, SemDown(c) PROVE LinkInv'
  <2>1. \A x \in Callers : Waiting(x) => Waiting(x)'
    BY <1>8 DEF SemDown, IsAnswered, Return, Goto, Waiting
  <2>2. UNCHANGED <<s, list, wst, wcur>> /\ UNCHANGED Line
    BY <1>8 DEF SemDown, irq, Line
  <2> HIDE DEF CallTypes, ThreadTypes
  <2> QED
    BY <2>1, <2>2, RangeTypes DEF LinkInv
<1>9. ASSUME NEW c \in Callers, HaltRest(c) PROVE LinkInv'
  <2>1. \A x \in Callers : Waiting(x) <=> Waiting(x)'
    BY <1>9, HaltRestFacts DEF Waiting
  <2>2. UNCHANGED <<s, list, wst, wcur>> /\ UNCHANGED Line
    BY <1>9, HaltRestFacts DEF irq, Line
  <2> HIDE DEF CallTypes, ThreadTypes
  <2> QED
    BY <2>1, <2>2, RangeTypes DEF LinkInv
<1>10. ASSUME NEW w \in Workers, dequeue_syscall(w) PROVE LinkInv'
  <2>1. \A x \in Callers : Waiting(x)' <=> Waiting(x)
    BY <1>10 DEF dequeue_syscall, Waiting
  <2>2. CASE list[w] = <<>>
    <3>1. /\ UNCHANGED <<list, wcur, s, pc, s_sem>> /\ UNCHANGED Line
          /\ \A v \in Workers : wst'[v] \in Busy <=> wst[v] \in Busy
      BY <1>10, <2>2 DEF dequeue_syscall, Busy, Line, irq
    <3> QED
      BY <3>1 DEF LinkInv, Waiting
  <2>3. CASE list[w] # <<>>
    <3> DEFINE h == Head(list[w])
    <3>1. /\ h \in Callers /\ h \in Range(list[w]) /\ UNCHANGED Line
          /\ Range(list[w]) = Range(list'[w]) \cup {h}
          /\ \A v \in Workers : v # w => list'[v] = list[v]
      BY <1>10, <2>3, DequeueFacts
    <3>2. /\ wcur' = [wcur EXCEPT ![w] = h] /\ UNCHANGED <<s, pc, s_sem>>
          /\ \A v \in Workers : v # w => wst'[v] = wst[v]
          /\ wst'[w] \in {"del", "exec"}
      BY <1>10, <2>3 DEF dequeue_syscall
    <3>3. Waiting(h) /\ s[h].queue = w
      BY <3>1 DEF LinkInv
    <3> HIDE DEF h
    <3> QED
      BY <3>1, <3>2, <3>3 DEF LinkInv, Waiting, Busy
  <2> QED
    BY <2>2, <2>3
<1>11. ASSUME NEW w \in Workers, Block(w) PROVE LinkInv'
  BY <1>11 DEF Block, LinkInv, Busy, Waiting, Line, irq
<1>12. ASSUME NEW w \in Workers, run_syscall(w) PROVE LinkInv'
  BY <1>12 DEF run_syscall, KindInv, LinkInv, OnceInv, Busy, Waiting, Line,
      irq
<1>13. ASSUME NEW w \in Workers, run_syscall_up(w) PROVE LinkInv'
  BY <1>13 DEF run_syscall_up, LinkInv, OnceInv, Busy, Waiting, Line, irq
<1>14. ASSUME NEW w \in Workers, del_syscall_queue(w) PROVE LinkInv'
  BY <1>14 DEF del_syscall_queue, LinkInv, Busy, Waiting, Line, irq
<1>15. ASSUME NEW w \in Workers, run_syscalls_exit(w) PROVE LinkInv'
  BY <1>15 DEF run_syscalls_exit, LinkInv, OnceInv, Busy, Waiting, Line, irq
<1>16. ASSUME syscall_irq PROVE LinkInv'
  <2> DEFINE h == Head(Line)
             q == s[h].queue
  <2>1. /\ h \in Callers /\ q \in Workers /\ h \in Range(Line)
        /\ Range(Line) = Range(Line)' \cup {h}
        /\ \A v \in Workers : v # q => list'[v] = list[v]
        /\ Range(list'[q]) = Range(list[q]) \cup {h}
    BY <1>16, IrqFacts
  <2>2. /\ UNCHANGED <<s, pc, s_sem, wcur>>
        /\ \A v \in Workers : wst'[v] \in Busy <=> wst[v] \in Busy
    BY <1>16 DEF syscall_irq, Woken, Busy
  <2>3. Waiting(h)
    BY <2>1 DEF LinkInv
  <2>4. \A v \in Workers : \A x \in Range(list'[v]) : x \in Range(list[v])
        \/ (x = h /\ v = q)
    BY <2>1
  <2> HIDE DEF h
  <2>5. \A x \in Range(Line)' : Waiting(x)'
    BY <2>1, <2>2 DEF LinkInv, Waiting
  <2>6. \A v \in Workers : \A x \in Range(list'[v]) : Waiting(x)'
        /\ s'[x].queue = v
    <3> SUFFICES ASSUME NEW v \in Workers, NEW x \in Range(list'[v])
                 PROVE  Waiting(x)' /\ s'[x].queue = v
      OBVIOUS
    <3>1. CASE x \in Range(list[v])
      BY <2>2, <3>1 DEF LinkInv, Waiting
    <3>2. CASE x = h /\ v = q
      BY <2>2, <2>3, <3>2 DEF Waiting
    <3> QED
      BY <2>4, <3>1, <3>2
  <2> QED
    BY <2>2, <2>5, <2>6 DEF LinkInv, Waiting
<1>17. ASSUME IdleSchedule PROVE LinkInv'
  BY <1>17 DEF IdleSchedule, IRQ!Over, LinkInv, Waiting, Line, irq
<1>18. ASSUME IdleExit PROVE LinkInv'
  BY <1>18 DEF IdleExit, IRQ!Over, LinkInv, Waiting, Line, irq
<1>19. ASSUME NEW w \in Workers, Unblock(w) PROVE LinkInv'
  BY <1>19 DEF Unblock, LinkInv, Busy, Waiting, Line, irq
<1>20. ASSUME HaltUp PROVE LinkInv'
  BY <1>20 DEF HaltUp, LinkInv, Waiting, Line, irq
<1>21. CASE UNCHANGED vars
  BY <1>21 DEF vars, LinkInv, Waiting, Line, irq
<1> QED
  BY <1>1, <1>2, <1>3, <1>4, <1>5, <1>6, <1>7, <1>8, <1>9, <1>10, <1>11,
      <1>12, <1>13, <1>14, <1>15, <1>16, <1>17, <1>18, <1>19, <1>20, <1>21
     DEF Next, CallerStep, KernelStep, WorkerStep

(* No step makes a second pointer to a struct syscall: a caller raises its *)
(* own when nobody has it, and the handler and the threads move it on.     *)
LEMMA OnceStep ==
    CallTypes /\ ListTypes /\ ThreadTypes /\ KindInv /\ LinkInv /\ OnceInv
    /\ ExecInv /\ ServeInv
    /\ [Next]_vars => OnceInv'
<1> SUFFICES ASSUME CallTypes, ListTypes, ThreadTypes, KindInv, LinkInv,
                    OnceInv, ExecInv, ServeInv, [Next]_vars
             PROVE  OnceInv'
  OBVIOUS
<1> USE DEF ThreadTypes, caller, kthread, halt, haltsem, history
<1>1. ASSUME NEW c \in Callers, SYSCALL(c) PROVE OnceInv'
  BY <1>1 DEF SYSCALL, Start, OnceInv, Line, irq
<1>2. ASSUME NEW c \in Callers, lkl_sys_halt(c) PROVE OnceInv'
  BY <1>2 DEF lkl_sys_halt, Start, OnceInv, Line, irq
<1>3. ASSUME NEW c \in Callers, lkl_sys_halt_fails(c) PROVE OnceInv'
  BY <1>3 DEF lkl_sys_halt_fails, OnceInv, Line, irq
<1>4. ASSUME NEW c \in Callers, lkl_syscall_thread_init(c) PROVE OnceInv'
  BY <1>4 DEF lkl_syscall_thread_init, Start, OnceInv, Line, irq
<1>5. ASSUME NEW c \in Callers, lkl_syscall_thread_cleanup(c) PROVE OnceInv'
  BY <1>5 DEF lkl_syscall_thread_cleanup, Start, OnceInv, Line, irq
<1>6. ASSUME NEW c \in Callers, SemAlloc(c) PROVE OnceInv'
  BY <1>6 DEF SemAlloc, OnceInv, Line, irq
<1>7. ASSUME NEW c \in Callers, Trigger(c) PROVE OnceInv'
  <2>1. /\ c \notin Range(Line)
        /\ \A w \in Workers : c \notin Range(list[w]) /\ c # wcur[w]
    BY <1>7 DEF Trigger, LinkInv, Waiting
  <2> QED
    BY <1>7, <2>1, TriggerFacts DEF Trigger, OnceInv
<1>8. ASSUME NEW c \in Callers, SemDown(c) PROVE OnceInv'
  BY <1>8 DEF SemDown, OnceInv, Line, irq
<1>9. ASSUME NEW c \in Callers, HaltRest(c) PROVE OnceInv'
  BY <1>9, HaltRestFacts DEF HaltRest, HaltRead, HaltDown, HaltFree, OnceInv,
      Line, irq
<1>10. ASSUME NEW w \in Workers, dequeue_syscall(w) PROVE OnceInv'
  <2>1. CASE list[w] = <<>>
    BY <1>10, <2>1 DEF dequeue_syscall, OnceInv, Line, irq
  <2>2. CASE list[w] # <<>>
    <3> DEFINE h == Head(list[w])
    <3>1. /\ h \in Callers /\ h \in Range(list[w]) /\ UNCHANGED Line
          /\ Range(list[w]) = Range(list'[w]) \cup {h}
          /\ IsInjective(list[w]) => IsInjective(list'[w])
             /\ h \notin Range(list'[w])
          /\ \A v \in Workers : v # w => list'[v] = list[v]
      BY <1>10, <2>2, DequeueFacts
    <3>2. wcur' = [wcur EXCEPT ![w] = h]
      BY <1>10, <2>2 DEF dequeue_syscall
    <3> HIDE DEF h
    <3> QED
      BY <3>1, <3>2 DEF OnceInv
  <2> QED
    BY <2>1, <2>2
<1>11. ASSUME NEW w \in Workers, Block(w) PROVE OnceInv'
  BY <1>11 DEF Block, OnceInv, Line, irq
<1>12. ASSUME NEW w \in Workers, run_syscall(w) PROVE OnceInv'
  BY <1>12 DEF run_syscall, OnceInv, Line, irq
<1>13. ASSUME NEW w \in Workers, run_syscall_up(w) PROVE OnceInv'
  BY <1>13, RangeTypes DEF run_syscall_up, OnceInv, Line, irq
<1>14. ASSUME NEW w \in Workers, del_syscall_queue(w) PROVE OnceInv'
  BY <1>14 DEF del_syscall_queue, OnceInv, Line, irq
<1>15. ASSUME NEW w \in Workers, run_syscalls_exit(w) PROVE OnceInv'
  BY <1>15, RangeTypes DEF run_syscalls_exit, OnceInv, Line, irq
<1>16. ASSUME syscall_irq PROVE OnceInv'
  <2> DEFINE h == Head(Line)
             q == s[h].queue
  <2>1. /\ h \in Callers /\ q \in Workers /\ h \in Range(Line)
        /\ Range(Line) = Range(Line)' \cup {h}
        /\ IsInjective(Line) => IsInjective(Line)' /\ h \notin Range(Line)'
        /\ \A v \in Workers : v # q => list'[v] = list[v]
        /\ Range(list'[q]) = Range(list[q]) \cup {h}
        /\ IsInjective(list[q]) /\ h \notin Range(list[q])
           => IsInjective(list'[q])
    BY <1>16, IrqFacts
  <2>2. \A v \in Workers : h \notin Range(list[v]) /\ h # wcur[v]
    BY <2>1 DEF OnceInv
  <2>3. UNCHANGED wcur
    BY <1>16 DEF syscall_irq
  <2> HIDE DEF h, q
  <2> QED
    BY <2>1, <2>2, <2>3 DEF OnceInv
<1>17. ASSUME IdleSchedule PROVE OnceInv'
  BY <1>17 DEF IdleSchedule, IRQ!Over, OnceInv, Line, irq
<1>18. ASSUME IdleExit PROVE OnceInv'
  BY <1>18 DEF IdleExit, IRQ!Over, OnceInv, Line, irq
<1>19. ASSUME NEW w \in Workers, Unblock(w) PROVE OnceInv'
  BY <1>19 DEF Unblock, OnceInv, Line, irq
<1>20. ASSUME HaltUp PROVE OnceInv'
  BY <1>20 DEF HaltUp, OnceInv, Line, irq
<1>21. CASE UNCHANGED vars
  BY <1>21 DEF vars, OnceInv, Line, irq
<1> QED
  BY <1>1, <1>2, <1>3, <1>4, <1>5, <1>6, <1>7, <1>8, <1>9, <1>10, <1>11,
      <1>12, <1>13, <1>14, <1>15, <1>16, <1>17, <1>18, <1>19, <1>20, <1>21
     DEF Next, CallerStep, KernelStep, WorkerStep

(* Every step keeps the types of the callers' state.                       *)
LEMMA CallTypesStep ==
    CallTypes /\ ThreadTypes /\ LinkInv /\ [Next]_vars => CallTypes'
<1> SUFFICES ASSUME CallTypes, ThreadTypes, LinkInv, [Next]_vars
             PROVE  CallTypes'
  OBVIOUS
<1> USE DEF CallTypes, ThreadTypes, caller, kthread, halt, haltsem, history
<1>1. ASSUME NEW c \in Callers, SYSCALL(c) PROVE CallTypes'
  BY <1>1 DEF SYSCALL, Start, Goto, get_syscall_queue
<1>2. ASSUME NEW c \in Callers, lkl_sys_halt(c) PROVE CallTypes'
  BY <1>2 DEF lkl_sys_halt, Start, Goto
<1>3. ASSUME NEW c \in Callers, lkl_sys_halt_fails(c) PROVE CallTypes'
  BY <1>3 DEF lkl_sys_halt_fails, Return, Goto, ENOMEM
<1>4. ASSUME NEW c \in Callers, lkl_syscall_thread_init(c) PROVE CallTypes'
  BY <1>4 DEF lkl_syscall_thread_init, Start, Goto
<1>5. ASSUME NEW c \in Callers, lkl_syscall_thread_cleanup(c) PROVE CallTypes'
  BY <1>5 DEF lkl_syscall_thread_cleanup, Start, Goto
<1>6. ASSUME NEW c \in Callers, SemAlloc(c) PROVE CallTypes'
  <2>1. res' \in [Callers -> Int] /\ s_sem' \in [Callers -> Nat]
    BY <1>6 DEF SemAlloc, Return, ENOMEM
  <2> QED
    BY <1>6, <2>1 DEF SemAlloc, Return, Goto
<1>7. ASSUME NEW c \in Callers, Trigger(c) PROVE CallTypes'
  BY <1>7 DEF Trigger, Goto
<1>8. ASSUME NEW c \in Callers, SemDown(c) PROVE CallTypes'
  <2> DEFINE err == AsInt(s_ret[c])
  <2>1. err \in Int
    BY IntFacts
  <2> HIDE DEF err
  <2>2. res' \in [Callers -> Int]
    BY <1>8, <2>1 DEF SemDown, Return, err
  <2>3. pc' = [pc EXCEPT ![c] = "haltread"] \/ pc' = [pc EXCEPT ![c] = "out"]
    BY <1>8 DEF SemDown, Return, Goto
  <2>4. s_ret' \in [Callers -> Int] /\ s_sem' \in [Callers -> Nat]
    BY <1>8 DEF SemDown, IsAnswered
  <2>5. UNCHANGED <<s, halt_arg>>
    BY <1>8 DEF SemDown
  <2> QED
    BY <2>2, <2>3, <2>4, <2>5
<1>9. ASSUME NEW c \in Callers, HaltRest(c) PROVE CallTypes'
  <2>1. res' \in [Callers -> Int]
    BY <1>9 DEF HaltRest, HaltRead, HaltDown, HaltFree, Return
  <2> QED
    BY <1>9, <2>1 DEF HaltRest, HaltRead, HaltDown, HaltFree, Return, Goto
<1>10. ASSUME NEW w \in Workers, dequeue_syscall(w) PROVE CallTypes'
  BY <1>10 DEF dequeue_syscall
<1>11. ASSUME NEW w \in Workers, Block(w) PROVE CallTypes'
  BY <1>11 DEF Block
<1>12. ASSUME NEW w \in Workers, run_syscall(w) PROVE CallTypes'
  <2> PICK x \in Callers : x = wcur[w]
    BY <1>12 DEF run_syscall, LinkInv, Busy
  <2>1. PICK r \in Int : s_ret' = [s_ret EXCEPT ![x] = AsInt(r)]
    BY <1>12, IntAssumption DEF run_syscall, StoreRet, ENOMEM, PID
  <2>2. AsInt(r) \in Int
    BY IntFacts
  <2> QED
    BY <1>12, <2>1, <2>2 DEF run_syscall
<1>13. ASSUME NEW w \in Workers, run_syscall_up(w) PROVE CallTypes'
  BY <1>13 DEF run_syscall_up, LinkInv, Busy
<1>14. ASSUME NEW w \in Workers, del_syscall_queue(w) PROVE CallTypes'
  BY <1>14 DEF del_syscall_queue, LinkInv, Busy
<1>15. ASSUME NEW w \in Workers, run_syscalls_exit(w) PROVE CallTypes'
  BY <1>15 DEF run_syscalls_exit, LinkInv, Busy
<1>16. ASSUME syscall_irq PROVE CallTypes'
  BY <1>16 DEF syscall_irq
<1>17. ASSUME IdleSchedule PROVE CallTypes'
  BY <1>17 DEF IdleSchedule, IRQ!Over
<1>18. ASSUME IdleExit PROVE CallTypes'
  BY <1>18 DEF IdleExit, IRQ!Over
<1>19. ASSUME NEW w \in Workers, Unblock(w) PROVE CallTypes'
  BY <1>19 DEF Unblock
<1>20. ASSUME HaltUp PROVE CallTypes'
  BY <1>20 DEF HaltUp
<1>21. CASE UNCHANGED vars
  BY <1>21 DEF vars
<1> QED
  BY <1>1, <1>2, <1>3, <1>4, <1>5, <1>6, <1>7, <1>8, <1>9, <1>10, <1>11,
      <1>12, <1>13, <1>14, <1>15, <1>16, <1>17, <1>18, <1>19, <1>20, <1>21
     DEF Next, CallerStep, KernelStep, WorkerStep

(* Every step keeps the types of the lists.                                *)
LEMMA ListTypesStep ==
    CallTypes /\ ListTypes /\ [Next]_vars => ListTypes'
<1> SUFFICES ASSUME CallTypes, ListTypes, [Next]_vars
             PROVE  ListTypes'
  OBVIOUS
<1> USE DEF irq, caller, kthread, halt, haltsem, history
<1>1. ASSUME NEW c \in Callers, SYSCALL(c) PROVE ListTypes'
  BY <1>1 DEF SYSCALL, Start, ListTypes
<1>2. ASSUME NEW c \in Callers, lkl_sys_halt(c) PROVE ListTypes'
  BY <1>2 DEF lkl_sys_halt, Start, ListTypes
<1>3. ASSUME NEW c \in Callers, lkl_sys_halt_fails(c) PROVE ListTypes'
  BY <1>3 DEF lkl_sys_halt_fails, ListTypes
<1>4. ASSUME NEW c \in Callers, lkl_syscall_thread_init(c) PROVE ListTypes'
  BY <1>4 DEF lkl_syscall_thread_init, Start, ListTypes
<1>5. ASSUME NEW c \in Callers, lkl_syscall_thread_cleanup(c) PROVE ListTypes'
  BY <1>5 DEF lkl_syscall_thread_cleanup, Start, ListTypes
<1>6. ASSUME NEW c \in Callers, SemAlloc(c) PROVE ListTypes'
  BY <1>6 DEF SemAlloc, ListTypes
<1>7. ASSUME NEW c \in Callers, Trigger(c) PROVE ListTypes'
  BY <1>7, TriggerFacts
<1>8. ASSUME NEW c \in Callers, SemDown(c) PROVE ListTypes'
  BY <1>8 DEF SemDown, ListTypes
<1>9. ASSUME NEW c \in Callers, HaltRest(c) PROVE ListTypes'
  BY <1>9, HaltRestFacts DEF ListTypes
<1>10. ASSUME NEW w \in Workers, dequeue_syscall(w) PROVE ListTypes'
  BY <1>10, DequeueFacts DEF dequeue_syscall, ListTypes
<1>11. ASSUME NEW w \in Workers, Block(w) PROVE ListTypes'
  BY <1>11 DEF Block, ListTypes
<1>12. ASSUME NEW w \in Workers, run_syscall(w) PROVE ListTypes'
  BY <1>12 DEF run_syscall, ListTypes
<1>13. ASSUME NEW w \in Workers, run_syscall_up(w) PROVE ListTypes'
  BY <1>13 DEF run_syscall_up, ListTypes
<1>14. ASSUME NEW w \in Workers, del_syscall_queue(w) PROVE ListTypes'
  BY <1>14 DEF del_syscall_queue, ListTypes
<1>15. ASSUME NEW w \in Workers, run_syscalls_exit(w) PROVE ListTypes'
  BY <1>15 DEF run_syscalls_exit, ListTypes
<1>16. ASSUME syscall_irq PROVE ListTypes'
  BY <1>16, IrqFacts
<1>17. ASSUME IdleSchedule PROVE ListTypes'
  BY <1>17 DEF IdleSchedule, IRQ!Over, ListTypes
<1>18. ASSUME IdleExit PROVE ListTypes'
  BY <1>18 DEF IdleExit, IRQ!Over, ListTypes
<1>19. ASSUME NEW w \in Workers, Unblock(w) PROVE ListTypes'
  BY <1>19 DEF Unblock, ListTypes
<1>20. ASSUME HaltUp PROVE ListTypes'
  BY <1>20 DEF HaltUp, ListTypes
<1>21. CASE UNCHANGED vars
  BY <1>21 DEF vars, ListTypes
<1> QED
  BY <1>1, <1>2, <1>3, <1>4, <1>5, <1>6, <1>7, <1>8, <1>9, <1>10, <1>11,
      <1>12, <1>13, <1>14, <1>15, <1>16, <1>17, <1>18, <1>19, <1>20, <1>21
     DEF Next, CallerStep, KernelStep, WorkerStep

(* Every step keeps the types of the kernel threads.                       *)
LEMMA ThreadTypesStep ==
    CallTypes /\ ListTypes /\ ThreadTypes /\ LinkInv
    /\ [Next]_vars => ThreadTypes'
<1> SUFFICES ASSUME CallTypes, ListTypes, ThreadTypes, LinkInv, [Next]_vars
             PROVE  ThreadTypes'
  OBVIOUS
<1> USE DEF ThreadTypes, caller, kthread, halt, haltsem, history
<1>1. ASSUME NEW c \in Callers, SYSCALL(c) PROVE ThreadTypes'
  BY <1>1 DEF SYSCALL, Start
<1>2. ASSUME NEW c \in Callers, lkl_sys_halt(c) PROVE ThreadTypes'
  BY <1>2 DEF lkl_sys_halt, Start
<1>3. ASSUME NEW c \in Callers, lkl_sys_halt_fails(c) PROVE ThreadTypes'
  BY <1>3 DEF lkl_sys_halt_fails
<1>4. ASSUME NEW c \in Callers, lkl_syscall_thread_init(c) PROVE ThreadTypes'
  BY <1>4 DEF lkl_syscall_thread_init, Start
<1>5. ASSUME NEW c \in Callers, lkl_syscall_thread_cleanup(c)
      PROVE  ThreadTypes'
  BY <1>5 DEF lkl_syscall_thread_cleanup, Start
<1>6. ASSUME NEW c \in Callers, SemAlloc(c) PROVE ThreadTypes'
  BY <1>6 DEF SemAlloc
<1>7. ASSUME NEW c \in Callers, Trigger(c) PROVE ThreadTypes'
  BY <1>7 DEF Trigger
<1>8. ASSUME NEW c \in Callers, SemDown(c) PROVE ThreadTypes'
  BY <1>8 DEF SemDown, QueueAfter
<1>9. ASSUME NEW c \in Callers, HaltRest(c) PROVE ThreadTypes'
  BY <1>9, HaltRestFacts
<1>10. ASSUME NEW w \in Workers, dequeue_syscall(w) PROVE ThreadTypes'
  <2>1. list[w] # <<>> => Head(list[w]) \in Callers
    BY <1>10, DequeueFacts
  <2> QED
    BY <1>10, <2>1 DEF dequeue_syscall
<1>11. ASSUME NEW w \in Workers, Block(w) PROVE ThreadTypes'
  BY <1>11 DEF Block
<1>12. ASSUME NEW w \in Workers, run_syscall(w) PROVE ThreadTypes'
  <2>1. wcur[w] \in Callers
    BY <1>12 DEF run_syscall, LinkInv, Busy
  <2>2. \/ wst' = [wst EXCEPT ![w] = "up"]
        \/ wst' = [wst EXCEPT ![w] = "up", ![wcur[w]] = "ready"]
    BY <1>12 DEF run_syscall
  <2> QED
    BY <1>12, <2>1, <2>2 DEF run_syscall
<1>13. ASSUME NEW w \in Workers, run_syscall_up(w) PROVE ThreadTypes'
  BY <1>13 DEF run_syscall_up
<1>14. ASSUME NEW w \in Workers, del_syscall_queue(w) PROVE ThreadTypes'
  BY <1>14 DEF del_syscall_queue
<1>15. ASSUME NEW w \in Workers, run_syscalls_exit(w) PROVE ThreadTypes'
  BY <1>15 DEF run_syscalls_exit
<1>16. ASSUME syscall_irq PROVE ThreadTypes'
  BY <1>16, IrqFacts DEF syscall_irq, Woken
<1>17. ASSUME IdleSchedule PROVE ThreadTypes'
  BY <1>17 DEF IdleSchedule, IRQ!Over
<1>18. ASSUME IdleExit PROVE ThreadTypes'
  BY <1>18 DEF IdleExit, IRQ!Over
<1>19. ASSUME NEW w \in Workers, Unblock(w) PROVE ThreadTypes'
  BY <1>19 DEF Unblock
<1>20. ASSUME HaltUp PROVE ThreadTypes'
  BY <1>20 DEF HaltUp
<1>21. CASE UNCHANGED vars
  BY <1>21 DEF vars
<1> QED
  BY <1>1, <1>2, <1>3, <1>4, <1>5, <1>6, <1>7, <1>8, <1>9, <1>10, <1>11,
      <1>12, <1>13, <1>14, <1>15, <1>16, <1>17, <1>18, <1>19, <1>20, <1>21
     DEF Next, CallerStep, KernelStep, WorkerStep

(* Every step keeps the types of the rest.                                 *)
LEMMA OtherTypesStep ==
    CallTypes /\ ListTypes /\ ThreadTypes /\ OtherTypes /\ LinkInv
    /\ [Next]_vars => OtherTypes'
<1> SUFFICES ASSUME CallTypes, ListTypes, ThreadTypes, OtherTypes, LinkInv,
                    [Next]_vars
             PROVE  OtherTypes'
  OBVIOUS
<1> USE DEF OtherTypes, irq, caller, kthread, halt, haltsem, history
<1>1. ASSUME NEW c \in Callers, SYSCALL(c) PROVE OtherTypes'
  BY <1>1 DEF SYSCALL, Start
<1>2. ASSUME NEW c \in Callers, lkl_sys_halt(c) PROVE OtherTypes'
  BY <1>2 DEF lkl_sys_halt, Start
<1>3. ASSUME NEW c \in Callers, lkl_sys_halt_fails(c) PROVE OtherTypes'
  BY <1>3 DEF lkl_sys_halt_fails
<1>4. ASSUME NEW c \in Callers, lkl_syscall_thread_init(c) PROVE OtherTypes'
  BY <1>4 DEF lkl_syscall_thread_init, Start
<1>5. ASSUME NEW c \in Callers, lkl_syscall_thread_cleanup(c) PROVE OtherTypes'
  BY <1>5 DEF lkl_syscall_thread_cleanup, Start
<1>6. ASSUME NEW c \in Callers, SemAlloc(c) PROVE OtherTypes'
  BY <1>6 DEF SemAlloc
<1>7. ASSUME NEW c \in Callers, Trigger(c) PROVE OtherTypes'
  BY <1>7 DEF Trigger, IRQ!RaiseData, IRQ!HandleData
<1>8. ASSUME NEW c \in Callers, SemDown(c) PROVE OtherTypes'
  BY <1>8 DEF SemDown
<1>9. ASSUME NEW c \in Callers, HaltRest(c) PROVE OtherTypes'
  BY <1>9 DEF HaltRest, HaltRead, HaltDown, HaltFree
<1>10. ASSUME NEW w \in Workers, dequeue_syscall(w) PROVE OtherTypes'
  BY <1>10 DEF dequeue_syscall, schedule, Ready
<1>11. ASSUME NEW w \in Workers, Block(w) PROVE OtherTypes'
  BY <1>11 DEF Block, schedule, Ready
<1>12. ASSUME NEW w \in Workers, run_syscall(w) PROVE OtherTypes'
  <2> PICK x \in Callers : x = wcur[w]
    BY <1>12 DEF run_syscall, LinkInv, Busy
  <2>1. ran' \in [Callers -> SUBSET Int]
    BY <1>12, IntAssumption DEF run_syscall
  <2> QED
    BY <1>12, <2>1 DEF run_syscall
<1>13. ASSUME NEW w \in Workers, run_syscall_up(w) PROVE OtherTypes'
  BY <1>13 DEF run_syscall_up
<1>14. ASSUME NEW w \in Workers, del_syscall_queue(w) PROVE OtherTypes'
  BY <1>14 DEF del_syscall_queue
<1>15. ASSUME NEW w \in Workers, run_syscalls_exit(w) PROVE OtherTypes'
  BY <1>15 DEF run_syscalls_exit, schedule, Ready
<1>16. ASSUME syscall_irq PROVE OtherTypes'
  <2>1. Head(Line) \in Callers
    BY <1>16, IrqFacts
  <2> QED
    BY <1>16, <2>1 DEF syscall_irq, IRQ!HandleData, Line
<1>17. ASSUME IdleSchedule PROVE OtherTypes'
  BY <1>17 DEF IdleSchedule, IRQ!Over
<1>18. ASSUME IdleExit PROVE OtherTypes'
  BY <1>18 DEF IdleExit, IRQ!Over
<1>19. ASSUME NEW w \in Workers, Unblock(w) PROVE OtherTypes'
  BY <1>19 DEF Unblock
<1>20. ASSUME HaltUp PROVE OtherTypes'
  BY <1>20 DEF HaltUp
<1>21. CASE UNCHANGED vars
  BY <1>21 DEF vars
<1> QED
  BY <1>1, <1>2, <1>3, <1>4, <1>5, <1>6, <1>7, <1>8, <1>9, <1>10, <1>11,
      <1>12, <1>13, <1>14, <1>15, <1>16, <1>17, <1>18, <1>19, <1>20, <1>21
     DEF Next, CallerStep, KernelStep, WorkerStep

(* Every step keeps KindInv: the answer of a call is given to a caller     *)
(* that waits, whose semaphore is 0.                                       *)
LEMMA KindStep ==
    CallTypes /\ ThreadTypes /\ KindInv /\ LinkInv /\ [Next]_vars => KindInv'
<1> SUFFICES ASSUME CallTypes, ThreadTypes, KindInv, LinkInv, [Next]_vars
             PROVE  KindInv'
  OBVIOUS
<1> USE DEF CallTypes, ThreadTypes, caller, kthread, halt, haltsem, history
<1>1. ASSUME NEW c \in Callers, SYSCALL(c) PROVE KindInv'
  BY <1>1 DEF SYSCALL, Start, Goto, get_syscall_queue, KindInv
<1>2. ASSUME NEW c \in Callers, lkl_sys_halt(c) PROVE KindInv'
  BY <1>2 DEF lkl_sys_halt, Start, Goto, KindInv
<1>3. ASSUME NEW c \in Callers, lkl_sys_halt_fails(c) PROVE KindInv'
  BY <1>3 DEF lkl_sys_halt_fails, Return, Goto, KindInv
<1>4. ASSUME NEW c \in Callers, lkl_syscall_thread_init(c) PROVE KindInv'
  BY <1>4 DEF lkl_syscall_thread_init, Start, Goto, KindInv
<1>5. ASSUME NEW c \in Callers, lkl_syscall_thread_cleanup(c) PROVE KindInv'
  BY <1>5 DEF lkl_syscall_thread_cleanup, Start, Goto, KindInv
<1>6. ASSUME NEW c \in Callers, SemAlloc(c) PROVE KindInv'
  BY <1>6 DEF SemAlloc, Goto, Return, KindInv
<1>7. ASSUME NEW c \in Callers, Trigger(c) PROVE KindInv'
  BY <1>7 DEF Trigger, Goto, KindInv
<1>8. ASSUME NEW c \in Callers, SemDown(c) PROVE KindInv'
  BY <1>8 DEF SemDown, IsAnswered, Return, Goto, KindInv
<1>9. ASSUME NEW c \in Callers, HaltRest(c) PROVE KindInv'
  <2>1. s[c].no = "halt"
    BY <1>9, HaltRestFacts DEF KindInv
  <2> QED
    BY <1>9, <2>1, HaltRestFacts DEF KindInv
<1>10. ASSUME NEW w \in Workers, dequeue_syscall(w) PROVE KindInv'
  BY <1>10 DEF dequeue_syscall, KindInv
<1>11. ASSUME NEW w \in Workers, Block(w) PROVE KindInv'
  BY <1>11 DEF Block, KindInv
<1>12. ASSUME NEW w \in Workers, run_syscall(w) PROVE KindInv'
  BY <1>12 DEF run_syscall, KindInv
<1>13. ASSUME NEW w \in Workers, run_syscall_up(w) PROVE KindInv'
  BY <1>13 DEF run_syscall_up, KindInv, LinkInv, Waiting
<1>14. ASSUME NEW w \in Workers, del_syscall_queue(w) PROVE KindInv'
  BY <1>14 DEF del_syscall_queue, KindInv
<1>15. ASSUME NEW w \in Workers, run_syscalls_exit(w) PROVE KindInv'
  BY <1>15 DEF run_syscalls_exit, KindInv, LinkInv, Waiting
<1>16. ASSUME syscall_irq PROVE KindInv'
  BY <1>16 DEF syscall_irq, KindInv
<1>17. ASSUME IdleSchedule PROVE KindInv'
  BY <1>17 DEF IdleSchedule, IRQ!Over, KindInv
<1>18. ASSUME IdleExit PROVE KindInv'
  BY <1>18 DEF IdleExit, IRQ!Over, KindInv
<1>19. ASSUME NEW w \in Workers, Unblock(w) PROVE KindInv'
  BY <1>19 DEF Unblock, KindInv
<1>20. ASSUME HaltUp PROVE KindInv'
  BY <1>20 DEF HaltUp, KindInv
<1>21. CASE UNCHANGED vars
  BY <1>21 DEF vars, KindInv
<1> QED
  BY <1>1, <1>2, <1>3, <1>4, <1>5, <1>6, <1>7, <1>8, <1>9, <1>10, <1>11,
      <1>12, <1>13, <1>14, <1>15, <1>16, <1>17, <1>18, <1>19, <1>20, <1>21
     DEF Next, CallerStep, KernelStep, WorkerStep

(* Every step keeps ExecInv: dequeue_syscall tells the reboots from the    *)
(* rest.                                                                   *)
LEMMA ExecStep ==
    CallTypes /\ ListTypes /\ ThreadTypes /\ KindInv /\ LinkInv /\ OnceInv
    /\ ExecInv /\ ServeInv
    /\ [Next]_vars => ExecInv'
<1> SUFFICES ASSUME CallTypes, ListTypes, ThreadTypes, KindInv, LinkInv,
                    OnceInv, ExecInv, ServeInv, [Next]_vars
             PROVE  ExecInv'
  OBVIOUS
<1> USE DEF CallTypes, ThreadTypes, caller, kthread, halt, haltsem, history
<1>1. ASSUME NEW c \in Callers, SYSCALL(c) PROVE ExecInv'
  BY <1>1 DEF SYSCALL, Start, Goto, LinkInv, ExecInv, Ran, Waiting
<1>2. ASSUME NEW c \in Callers, lkl_sys_halt(c) PROVE ExecInv'
  BY <1>2 DEF lkl_sys_halt, Start, Goto, LinkInv, ExecInv, Ran, Waiting
<1>3. ASSUME NEW c \in Callers, lkl_sys_halt_fails(c) PROVE ExecInv'
  BY <1>3 DEF lkl_sys_halt_fails, Return, Goto, LinkInv, ExecInv, Ran, Waiting
<1>4. ASSUME NEW c \in Callers, lkl_syscall_thread_init(c) PROVE ExecInv'
  BY <1>4 DEF lkl_syscall_thread_init, Start, Goto, LinkInv, ExecInv, Ran,
      Waiting
<1>5. ASSUME NEW c \in Callers, lkl_syscall_thread_cleanup(c) PROVE ExecInv'
  BY <1>5 DEF lkl_syscall_thread_cleanup, Start, Goto, LinkInv, ExecInv, Ran,
      Waiting
<1>6. ASSUME NEW c \in Callers, SemAlloc(c) PROVE ExecInv'
  BY <1>6 DEF SemAlloc, Goto, Return, ExecInv, Ran
<1>7. ASSUME NEW c \in Callers, Trigger(c) PROVE ExecInv'
  BY <1>7 DEF Trigger, KindInv, ExecInv, Ran
<1>8. ASSUME NEW c \in Callers, SemDown(c) PROVE ExecInv'
  BY <1>8 DEF SemDown, Return, Goto, ExecInv, Ran
<1>9. ASSUME NEW c \in Callers, HaltRest(c) PROVE ExecInv'
  BY <1>9, HaltRestFacts DEF ExecInv
<1>10. ASSUME NEW w \in Workers, dequeue_syscall(w) PROVE ExecInv'
  <2>1. CASE list[w] = <<>>
    BY <1>10, <2>1 DEF dequeue_syscall, ExecInv, Ran, LinkInv, Busy, Waiting,
       KindInv
  <2>2. CASE list[w] # <<>>
    <3> DEFINE h == Head(list[w])
    <3>1. h \in Callers /\ Waiting(h) /\ s[h].queue = w
      BY <1>10, <2>2, DequeueFacts DEF LinkInv
    <3>2. /\ wcur' = [wcur EXCEPT ![w] = h] /\ wcur[w] \notin Callers
          /\ \/ wst' = [wst EXCEPT ![w] = "del"]
                /\ s[h].no \in {"reboot", "halt"}
             \/ wst' = [wst EXCEPT ![w] = "exec"]
                /\ s[h].no \notin {"reboot", "halt"}
      BY <1>10, <2>2 DEF dequeue_syscall, LinkInv, Busy
    <3>3. s[h].no # "none"
      BY <3>1 DEF KindInv, Waiting
    <3> HIDE DEF h
    <3> QED
      BY <1>10, <3>1, <3>2, <3>3 DEF dequeue_syscall, ExecInv, Ran, LinkInv,
         Busy, Waiting, KindInv
  <2> QED
    BY <2>1, <2>2
<1>11. ASSUME NEW w \in Workers, Block(w) PROVE ExecInv'
  BY <1>11 DEF Block, ExecInv, Ran
<1>12. ASSUME NEW w \in Workers, run_syscall(w) PROVE ExecInv'
  BY <1>12 DEF run_syscall, LinkInv, KindInv, ExecInv, Ran
<1>13. ASSUME NEW w \in Workers, run_syscall_up(w) PROVE ExecInv'
  BY <1>13 DEF run_syscall_up, ExecInv, Ran
<1>14. ASSUME NEW w \in Workers, del_syscall_queue(w) PROVE ExecInv'
  BY <1>14 DEF del_syscall_queue, KindInv, ExecInv, Ran
<1>15. ASSUME NEW w \in Workers, run_syscalls_exit(w) PROVE ExecInv'
  BY <1>15 DEF run_syscalls_exit, ExecInv, Ran
<1>16. ASSUME syscall_irq PROVE ExecInv'
  BY <1>16 DEF syscall_irq, Woken, ExecInv, Ran
<1>17. ASSUME IdleSchedule PROVE ExecInv'
  BY <1>17 DEF IdleSchedule, IRQ!Over, ExecInv, Ran
<1>18. ASSUME IdleExit PROVE ExecInv'
  BY <1>18 DEF IdleExit, IRQ!Over, ExecInv, Ran
<1>19. ASSUME NEW w \in Workers, Unblock(w) PROVE ExecInv'
  BY <1>19 DEF Unblock, ExecInv, Ran
<1>20. ASSUME HaltUp PROVE ExecInv'
  BY <1>20 DEF HaltUp, ExecInv, Ran
<1>21. CASE UNCHANGED vars
  BY <1>21 DEF vars, ExecInv, Ran
<1> QED
  BY <1>1, <1>2, <1>3, <1>4, <1>5, <1>6, <1>7, <1>8, <1>9, <1>10, <1>11,
      <1>12, <1>13, <1>14, <1>15, <1>16, <1>17, <1>18, <1>19, <1>20, <1>21
     DEF Next, CallerStep, KernelStep, WorkerStep

(* Every step keeps RunInv: a call has run when its result is stored, and  *)
(* until then its handler has not been run for it.                         *)
LEMMA RunStep ==
    CallTypes /\ ListTypes /\ ThreadTypes /\ OtherTypes /\ KindInv /\ LinkInv
    /\ ExecInv /\ ServeInv /\ RunInv /\ [Next]_vars => RunInv'
<1> SUFFICES ASSUME CallTypes, ListTypes, ThreadTypes, OtherTypes, KindInv,
                    LinkInv, ExecInv, ServeInv, RunInv, [Next]_vars
             PROVE  RunInv'
  OBVIOUS
<1> USE DEF CallTypes, ThreadTypes, caller, kthread, halt, haltsem, history
<1>1. ASSUME NEW x \in Callers, s'[x] = s[x], s_ret'[x] = s_ret[x],
             ran'[x] = ran[x], Ran(x)' <=> Ran(x), InCall(x)' => InCall(x)
      PROVE  Runs(x)'
  BY <1>1 DEF RunInv, Runs
<1>2. ASSUME NEW c \in Callers,
             \/ SYSCALL(c) \/ lkl_sys_halt(c) \/ lkl_syscall_thread_init(c)
             \/ lkl_syscall_thread_cleanup(c)
      PROVE  RunInv'
  <2>1. /\ pc[c] = "out" /\ pc' = [pc EXCEPT ![c] = "sem"]
        /\ s_ret' = [s_ret EXCEPT ![c] = 0] /\ ran' = [ran EXCEPT ![c] = {}]
        /\ UNCHANGED <<s_sem, wst, wcur>>
        /\ \A x \in Callers : x # c => s'[x] = s[x]
    BY <1>2 DEF SYSCALL, lkl_sys_halt, lkl_syscall_thread_init,
       lkl_syscall_thread_cleanup, Start, Goto
  <2>2. \A w \in Workers : wcur[w] # c
    BY <2>1 DEF LinkInv, Waiting
  <2>3. ~Ran(c)'
    BY <2>1, <2>2 DEF Ran
  <2>4. Runs(c)'
    BY <2>1, <2>3 DEF Runs, OtherTypes
  <2>5. ASSUME NEW x \in Callers, x # c PROVE Runs(x)'
    <3>1. (Ran(x)' <=> Ran(x)) /\ (InCall(x)' => InCall(x))
      BY <2>1, <2>5 DEF Ran, InCall
    <3>2. s'[x] = s[x] /\ s_ret'[x] = s_ret[x] /\ ran'[x] = ran[x]
      BY <2>1, <2>5 DEF OtherTypes
    <3> QED
      BY <1>1, <3>1, <3>2
  <2> QED
    BY <2>4, <2>5 DEF RunInv
<1>3. ASSUME NEW c \in Callers, lkl_sys_halt_fails(c) PROVE RunInv'
  <2>1. /\ pc[c] = "out" /\ pc'[c] = "out" /\ s'[c].no = "halt"
        /\ UNCHANGED <<s_ret, s_sem, ran, wst, wcur>>
        /\ \A x \in Callers : x # c => s'[x] = s[x] /\ pc'[x] = pc[x]
    BY <1>3 DEF lkl_sys_halt_fails, Return, Goto
  <2>2. \A w \in Workers : wcur[w] # c
    BY <2>1 DEF LinkInv, Waiting
  <2>3. ~Ran(c)' /\ ~InCall(c)'
    BY <2>1, <2>2 DEF Ran, InCall
  <2>4. ASSUME NEW x \in Callers, x # c PROVE Runs(x)'
    <3>1. (Ran(x)' <=> Ran(x)) /\ (InCall(x)' => InCall(x))
      BY <2>1, <2>4 DEF Ran, InCall
    <3> QED
      BY <1>1, <2>1, <2>4, <3>1
  <2> QED
    BY <2>3, <2>4 DEF RunInv, Runs
<1>4. ASSUME NEW c \in Callers, SemAlloc(c) \/ Trigger(c) \/ HaltRest(c)
      PROVE  RunInv'
  <2>1. /\ UNCHANGED <<s, s_ret, ran, wst, wcur>>
        /\ \A x \in Callers : x # c => pc'[x] = pc[x] /\ s_sem'[x] = s_sem[x]
        /\ pc[c] # "down"
        /\ pc'[c] = "down" => s_sem'[c] = s_sem[c]
        /\ pc'[c] \in {"sem", "trigger", "down"} => pc[c] \in {"sem", "trigger"}
    BY <1>4 DEF SemAlloc, Trigger, HaltRest, HaltRead, HaltDown, HaltFree,
       Return, Goto
  <2>2. s_sem[c] # 1
    BY <2>1 DEF KindInv
  <2>3. ASSUME NEW x \in Callers PROVE Runs(x)'
    <3>1. (Ran(x)' <=> Ran(x)) /\ (InCall(x)' => InCall(x))
      BY <2>1, <2>2 DEF Ran, InCall
    <3> QED
      BY <1>1, <2>1, <3>1
  <2> QED
    BY <2>3 DEF RunInv
<1>5. ASSUME NEW c \in Callers, SemDown(c) PROVE RunInv'
  <2>1. /\ UNCHANGED <<s, ran, wst, wcur>> /\ s_sem[c] > 0
        /\ \A x \in Callers : x # c => /\ pc'[x] = pc[x]
                                       /\ s_sem'[x] = s_sem[x]
                                       /\ s_ret'[x] = s_ret[x]
        /\ pc'[c] \in {"haltread", "out"}
    BY <1>5 DEF SemDown, IsAnswered, Return, Goto
  <2>2. ~Ran(c)' /\ ~InCall(c)'
    BY <2>1 DEF Ran, InCall, LinkInv, Waiting
  <2>3. ASSUME NEW x \in Callers, x # c PROVE Runs(x)'
    <3>1. (Ran(x)' <=> Ran(x)) /\ (InCall(x)' => InCall(x))
      BY <2>1, <2>3 DEF Ran, InCall
    <3> QED
      BY <1>1, <2>1, <2>3, <3>1
  <2> QED
    BY <2>2, <2>3 DEF RunInv, Runs
<1>6. ASSUME NEW w \in Workers, dequeue_syscall(w) PROVE RunInv'
  <2>1. /\ UNCHANGED <<pc, s, s_ret, s_sem, ran>> /\ wst[w] = "ready"
        /\ \A v \in Workers : v # w => wst'[v] = wst[v] /\ wcur'[v] = wcur[v]
        /\ wst'[w] \in {"asleep", "del", "exec"}
    BY <1>6 DEF dequeue_syscall
  <2>2. ASSUME NEW x \in Callers PROVE Runs(x)'
    <3>1. (Ran(x)' <=> Ran(x)) /\ (InCall(x)' => InCall(x))
      BY <2>1 DEF Ran, InCall
    <3> QED
      BY <1>1, <2>1, <3>1
  <2> QED
    BY <2>2 DEF RunInv
<1>7. ASSUME NEW w \in Workers, run_syscall(w) PROVE RunInv'
  <2> PICK c \in Callers : c = wcur[w]
    BY <1>7 DEF run_syscall, LinkInv, Busy
  <2>1. /\ UNCHANGED <<pc, s, s_sem, wcur>> /\ wst'[w] = "up"
        /\ wst[w] \in {"exec", "resumed"}
        /\ \A x \in Callers : x # c => s_ret'[x] = s_ret[x] /\ ran'[x] = ran[x]
        /\ \A v \in Workers : v # w => \/ wst'[v] = wst[v]
                                       \/ v = c /\ s[c].no = "call"
    BY <1>7 DEF run_syscall, StoreRet, OtherTypes
  <2>2. Waiting(c) /\ s[c].queue = w /\ s[c].no \in {"plain", "call"}
    BY <2>1 DEF LinkInv, ExecInv
  <2>3. \A v \in Workers : wcur[v] = c => v = w
    BY <2>2 DEF LinkInv
  <2>4. Ran(c)' /\ ~Ran(c) /\ InCall(c)
    BY <2>1, <2>2, <2>3 DEF Ran, Waiting, InCall
  <2>5. Runs(c)'
    <3>1. CASE s[c].no = "call"
      BY <2>1, <3>1 DEF Runs
    <3>2. CASE s[c].no = "plain"
      <4>1. ran[c] = {}
        BY <2>4, <3>2 DEF RunInv, Runs
      <4>2. PICK r \in Results[c] : /\ s_ret' = [s_ret EXCEPT ![c] = AsInt(r)]
                                    /\ ran' = [ran EXCEPT ![c] = @ \cup {r}]
        BY <1>7, <3>2 DEF run_syscall, StoreRet
      <4>3. s_ret'[c] = AsInt(r) /\ ran'[c] = {r}
        BY <4>1, <4>2 DEF OtherTypes
      <4> QED
        BY <2>1, <2>4, <3>2, <4>3 DEF Runs
    <3> QED
      BY <2>2, <3>1, <3>2
  <2>6. ASSUME NEW x \in Callers, x # c PROVE Runs(x)'
    <3>1. Ran(x)' <=> Ran(x)
      <4>1. CASE s[c].no = "plain"
        BY <2>1, <2>6, <4>1 DEF Ran
      <4>2. CASE s[c].no = "call"
        <5>1. w = Events
          BY <2>2, <4>2 DEF KindInv
        <5>2. wst[c] \in {"none", "gone"}
          BY <2>4, <4>2 DEF ServeInv, Served, Initing
        <5>3. wst'[c] \in {"none", "gone", "ready"}
          BY <1>7, <4>2, <5>1, <5>2 DEF run_syscall
        <5> QED
          BY <2>1, <2>6, <5>1, <5>2, <5>3 DEF Ran
      <4> QED
        BY <2>2, <4>1, <4>2
    <3> QED
      BY <1>1, <2>1, <2>6, <3>1 DEF InCall
  <2> QED
    BY <2>5, <2>6 DEF RunInv
<1>8. ASSUME NEW w \in Workers, run_syscall_up(w) \/ run_syscalls_exit(w)
      PROVE  RunInv'
  <2> PICK c \in Callers : c = wcur[w]
    BY <1>8 DEF run_syscall_up, run_syscalls_exit, LinkInv, Busy
  <2>1. /\ UNCHANGED <<pc, s, s_ret, ran>> /\ wst[w] \in {"up", "upexit"}
        /\ s_sem' = [s_sem EXCEPT ![c] = @ + 1] /\ wst'[w] \in {"ready", "gone"}
        /\ \A v \in Workers : v # w => wst'[v] = wst[v] /\ wcur'[v] = wcur[v]
    BY <1>8 DEF run_syscall_up, run_syscalls_exit
  <2>2. Waiting(c)
    BY DEF LinkInv
  <2>3. Ran(c) /\ Ran(c)'
    BY <2>1, <2>2 DEF Ran, Waiting
  <2>4. ASSUME NEW x \in Callers PROVE Runs(x)'
    <3>1. Ran(x)' <=> Ran(x)
      <4>1. CASE x = c
        BY <2>3, <4>1
      <4>2. CASE x # c
        BY <2>1, <4>2 DEF Ran
      <4> QED
        BY <4>1, <4>2
    <3> QED
      BY <1>1, <2>1, <3>1 DEF InCall
  <2> QED
    BY <2>4 DEF RunInv
<1>9. ASSUME NEW w \in Workers, del_syscall_queue(w) PROVE RunInv'
  <2> PICK c \in Callers : c = wcur[w]
    BY <1>9 DEF del_syscall_queue, LinkInv, Busy
  <2>1. /\ UNCHANGED <<pc, s, s_sem, ran, wcur>> /\ wst[w] = "del"
        /\ s_ret' = [s_ret EXCEPT ![c] = 0] /\ wst'[w] = "upexit"
        /\ \A v \in Workers : v # w => wst'[v] = wst[v]
    BY <1>9 DEF del_syscall_queue
  <2>2. s[c].no \in {"reboot", "halt"}
    BY <2>1 DEF ExecInv
  <2>3. Runs(c)'
    BY <2>1, <2>2 DEF Runs
  <2>4. ASSUME NEW x \in Callers, x # c PROVE Runs(x)'
    <3>1. Ran(x)' <=> Ran(x)
      BY <2>1, <2>4 DEF Ran
    <3> QED
      BY <1>1, <2>1, <2>4, <3>1 DEF InCall
  <2> QED
    BY <2>3, <2>4 DEF RunInv
<1>10. ASSUME \/ \E w \in Workers : Block(w) \/ Unblock(w)
              \/ syscall_irq \/ IdleSchedule \/ IdleExit \/ HaltUp
              \/ UNCHANGED vars
       PROVE  RunInv'
  <2>1. /\ UNCHANGED <<pc, s, s_ret, s_sem, ran, wcur>>
        /\ \A v \in Workers : \/ wst'[v] = wst[v]
                              \/ /\ wst[v] \notin {"up", "upexit"}
                                 /\ wst'[v] \notin {"up", "upexit"}
    <3>1. CASE \E w \in Workers : Block(w) \/ Unblock(w)
      BY <3>1 DEF Block, Unblock
    <3>2. CASE syscall_irq
      BY <3>2, IrqFacts DEF syscall_irq, Woken
    <3>3. CASE IdleSchedule \/ IdleExit \/ HaltUp \/ UNCHANGED vars
      BY <3>3 DEF IdleSchedule, IdleExit, HaltUp, vars
    <3> QED
      BY <1>10, <3>1, <3>2, <3>3
  <2>2. ASSUME NEW x \in Callers PROVE Runs(x)'
    <3>1. Ran(x)' <=> Ran(x)
      BY <2>1 DEF Ran
    <3> QED
      BY <1>1, <2>1, <3>1 DEF InCall
  <2> QED
    BY <2>2 DEF RunInv
<1> QED
  BY <1>2, <1>3, <1>4, <1>5, <1>6, <1>7, <1>8, <1>9, <1>10
     DEF Next, CallerStep, KernelStep, WorkerStep

(* Every step keeps ServeInv.  The delicate ones are run_syscall of the    *)
(* kernel_thread that lkl_syscall_thread_init asks for, which starts the   *)
(* thread or fails, and the end of run_syscalls, which frees the queue.    *)
LEMMA ServeStep ==
    CallTypes /\ ListTypes /\ ThreadTypes /\ KindInv /\ LinkInv /\ OnceInv
    /\ ExecInv /\ ServeInv /\ OtherTypes
    /\ [Next]_vars => ServeInv'
<1> SUFFICES ASSUME CallTypes, ListTypes, ThreadTypes, KindInv, LinkInv,
                    OnceInv, ExecInv, ServeInv, OtherTypes, [Next]_vars
             PROVE  ServeInv'
  OBVIOUS
<1> USE DEF CallTypes, ThreadTypes, caller, kthread, halt, haltsem, history
<1>1. ASSUME NEW c \in Callers, SYSCALL(c) PROVE ServeInv'
  BY <1>1 DEF SYSCALL, Start, Goto, get_syscall_queue, LinkInv, ExecInv, Ran,
      ServeInv, Served, Initing, InCall, Waiting
<1>2. ASSUME NEW c \in Callers, lkl_sys_halt(c) PROVE ServeInv'
  BY <1>2 DEF lkl_sys_halt, Start, Goto, LinkInv, ExecInv, Ran, ServeInv,
      Served, Initing, InCall, Waiting
<1>3. ASSUME NEW c \in Callers, lkl_sys_halt_fails(c) PROVE ServeInv'
  BY <1>3 DEF lkl_sys_halt_fails, Return, Goto, LinkInv, ExecInv, Ran,
      ServeInv, Served, Initing, InCall, Waiting
<1>4. ASSUME NEW c \in Callers, lkl_syscall_thread_init(c) PROVE ServeInv'
  BY <1>4 DEF lkl_syscall_thread_init, get_syscall_queue, Start, Goto,
      LinkInv, ExecInv, Ran, ServeInv, Served, Initing, InCall, Off, Waiting
<1>5. ASSUME NEW c \in Callers, lkl_syscall_thread_cleanup(c) PROVE ServeInv'
  BY <1>5 DEF lkl_syscall_thread_cleanup, get_syscall_queue, Start, Goto,
      ExecInv, Ran, ServeInv, Served, Initing, InCall
<1>6. ASSUME NEW c \in Callers, SemAlloc(c) PROVE ServeInv'
  BY <1>6 DEF SemAlloc, Goto, Return, LinkInv, ExecInv, Ran, ServeInv, Served,
      Initing, InCall, Waiting
<1>7. ASSUME NEW c \in Callers, Trigger(c) PROVE ServeInv'
  BY <1>7 DEF Trigger, Goto, KindInv, ExecInv, Ran, ServeInv, Served, Initing,
      InCall, Off
<1>8. ASSUME NEW c \in Callers, SemDown(c) PROVE ServeInv'
  <2> DEFINE err == AsInt(s_ret[c])
  <2>1. err \in Int
    BY IntFacts
  <2>2. /\ UNCHANGED <<s, wst, wcur, orphan>> /\ pc'[c] \in {"haltread", "out"}
        /\ qstate' = IF s[c].no = "call" /\ err < 0
                     THEN [qstate EXCEPT ![c] = "freed"] ELSE qstate
        /\ \A x \in Callers : x # c => /\ pc'[x] = pc[x]
                                       /\ s_sem'[x] = s_sem[x]
                                       /\ s_ret'[x] = s_ret[x]
        /\ pc[c] = "down" /\ s_sem[c] = 1
    BY <1>8 DEF SemDown, IsAnswered, QueueAfter, Return, Goto, KindInv
  <2>3. Ran(c) /\ InCall(c) /\ ~Ran(c)' /\ ~InCall(c)'
    BY <2>2 DEF Ran, InCall, LinkInv, Waiting
  <2>4. \A x \in Callers : x # c =>
            (Ran(x)' <=> Ran(x)) /\ (InCall(x)' <=> InCall(x))
    BY <2>2 DEF Ran, InCall
  <2>5. ASSUME NEW x \in Callers, x # c PROVE Served(x)'
    <3>1. qstate'[x] = qstate[x]
      BY <2>2, <2>5
    <3> QED
      BY <2>2, <2>4, <2>5, <3>1 DEF ServeInv, Served, Initing
  <2>6. Served(c)'
    <3>1. CASE s[c].no = "call"
      <4>1. c \notin orphan /\ c \in Privates /\ qstate[c] = "hashed"
        BY <2>3, <3>1 DEF ServeInv, Served, Initing
      <4>2. err >= 0 <=> wst[c] \notin Off
        BY <2>1, <2>3, <3>1 DEF ServeInv, Served, Initing, Off
      <4>3. qstate'[c] = "hashed" <=> err >= 0
        BY <2>1, <2>2, <3>1, <4>1
      <4>4. wst[c] \notin {"del", "upexit"}
        BY <3>1 DEF ServeInv, Served
      <4> QED
        BY <2>2, <2>3, <3>1, <4>1, <4>2, <4>3, <4>4 DEF Served, Initing
    <3>2. CASE s[c].no # "call"
      BY <2>2, <2>3, <3>2 DEF ServeInv, Served, Initing
    <3> QED
      BY <3>1, <3>2
  <2> QED
    BY <2>5, <2>6 DEF ServeInv
<1>9. ASSUME NEW c \in Callers, HaltRest(c) PROVE ServeInv'
  <2>1. \A x \in Callers : (Ran(x)' <=> Ran(x)) /\ (InCall(x)' <=> InCall(x))
    BY <1>9, HaltRestFacts DEF Ran, InCall
  <2> QED
    BY <1>9, <2>1, HaltRestFacts DEF ServeInv, Served, Initing
<1>10. ASSUME NEW w \in Workers, dequeue_syscall(w) PROVE ServeInv'
  <2>1. CASE list[w] = <<>>
    BY <1>10, <2>1 DEF dequeue_syscall, ServeInv, Served, Ran, Initing, InCall,
       Off, LinkInv, KindInv, Waiting, Busy
  <2>2. CASE list[w] # <<>>
    <3> DEFINE h == Head(list[w])
    <3>1. h \in Callers /\ Waiting(h) /\ s[h].queue = w
      BY <1>10, <2>2, DequeueFacts DEF LinkInv
    <3>2. /\ wcur' = [wcur EXCEPT ![w] = h] /\ wcur[w] \notin Callers
          /\ \/ wst' = [wst EXCEPT ![w] = "del"]
                /\ s[h].no \in {"reboot", "halt"}
             \/ wst' = [wst EXCEPT ![w] = "exec"]
                /\ s[h].no \notin {"reboot", "halt"}
      BY <1>10, <2>2 DEF dequeue_syscall, LinkInv, Busy
    <3>3. s[h].no # "none"
      BY <3>1 DEF KindInv, Waiting
    <3> HIDE DEF h
    <3> QED
      BY <1>10, <3>1, <3>2, <3>3 DEF dequeue_syscall, ServeInv, Served, Ran,
         Initing, InCall, Off, LinkInv, KindInv, Waiting, Busy
  <2> QED
    BY <2>1, <2>2
<1>11. ASSUME NEW w \in Workers, Block(w) PROVE ServeInv'
  BY <1>11 DEF Block, ExecInv, Ran, ServeInv, Served, Initing, InCall, Off
<1>12. ASSUME NEW w \in Workers, run_syscall(w) PROVE ServeInv'
  <2> PICK x \in Callers : x = wcur[w]
    BY <1>12 DEF run_syscall, LinkInv, Busy
  <2>1. Waiting(x) /\ s[x].queue = w /\ s[x].no \in {"plain", "call"}
    BY <1>12 DEF run_syscall, LinkInv, ExecInv
  <2>2. ~Ran(x) /\ \A v \in Workers : wcur[v] = x => v = w
    BY <1>12, <2>1 DEF run_syscall, Ran, Waiting, LinkInv
  <2>3. /\ UNCHANGED <<s, pc, s_sem, wcur, qstate, orphan>>
        /\ wst[w] \in {"exec", "resumed"}
        /\ \A y \in Callers : y # x => s_ret'[y] = s_ret[y]
    BY <1>12 DEF run_syscall, StoreRet
  <2>4. CASE s[x].no = "plain"
    <3>1. wst'[w] = "up" /\ \A v \in Workers : v # w => wst'[v] = wst[v]
      BY <1>12, <2>4 DEF run_syscall
    <3>2. Ran(x)' /\ \A y \in Callers : y # x => (Ran(y)' <=> Ran(y))
      BY <2>3, <3>1 DEF Ran
    <3> QED
      BY <2>1, <2>2, <2>3, <2>4, <3>1, <3>2 DEF ServeInv, Served, Initing,
         InCall, Off
  <2>5. CASE s[x].no = "call"
    <3>1. w = Events /\ Initing(x) /\ wst[x] \in {"none", "gone"}
      BY <2>1, <2>2, <2>5 DEF KindInv, Waiting, Initing, InCall, ServeInv,
         Served
    <3>2. /\ wst'[w] = "up" /\ \A v \in Workers : v \notin {w, x}
             => wst'[v] = wst[v]
          /\ AsInt(s_ret'[x]) \in Int
          /\ \/ wst'[x] = wst[x] /\ AsInt(s_ret'[x]) < 0
             \/ wst'[x] = "ready" /\ AsInt(s_ret'[x]) >= 0
      <4>1. ENOMEM \in Int /\ PID \in Int
        BY DEF ENOMEM, PID
      <4>2. \/ wst' = [wst EXCEPT ![w] = "up"] /\ s_ret'[x] = AsInt(ENOMEM)
            \/ /\ wst' = [wst EXCEPT ![w] = "up", ![x] = "ready"]
               /\ s_ret'[x] = AsInt(PID)
        BY <1>12, <2>5 DEF run_syscall, StoreRet
      <4> QED
        BY <3>1, <4>1, <4>2, IntFacts
    <3>3. Ran(x)' /\ \A y \in Callers : y # x => (Ran(y)' <=> Ran(y))
      BY <2>3, <3>1, <3>2 DEF Ran
    <3>4. \A y \in Callers : y # x => wst'[y] = wst[y]
      BY <3>1, <3>2
    <3>5. /\ x \in Privates /\ x \notin orphan /\ qstate[x] = "hashed"
          /\ s[x].queue # x
      BY <2>1, <2>5, <3>1 DEF ServeInv, Served
    <3> SUFFICES ASSUME NEW y \in Callers PROVE Served(y)'
      BY DEF ServeInv
    <3>6. CASE y = x
      BY <2>3, <2>5, <3>1, <3>2, <3>3, <3>5, <3>6 DEF Served, Initing, InCall,
         Off
    <3>7. CASE y # x
      BY <2>3, <3>3, <3>4, <3>7 DEF ServeInv, Served, Initing, InCall, Off
    <3> QED
      BY <3>6, <3>7
  <2> QED
    BY <2>1, <2>4, <2>5
<1>13. ASSUME NEW w \in Workers, run_syscall_up(w) PROVE ServeInv'
  BY <1>13 DEF run_syscall_up, LinkInv, ExecInv, Ran, ServeInv, Served,
      Initing, InCall, Off, Waiting
<1>14. ASSUME NEW w \in Workers, del_syscall_queue(w) PROVE ServeInv'
  BY <1>14 DEF del_syscall_queue, ExecInv, Ran, ServeInv, Served, Initing,
      InCall, Off
<1>15. ASSUME NEW w \in Workers, run_syscalls_exit(w) PROVE ServeInv'
  BY <1>15 DEF run_syscalls_exit, LinkInv, ExecInv, Ran, ServeInv, Served,
      Initing, InCall, Busy, Off, Waiting
<1>16. ASSUME syscall_irq PROVE ServeInv'
  <2>1. \A v \in Workers : \/ wst'[v] = wst[v]
                           \/ wst[v] = "asleep" /\ wst'[v] = "ready"
    BY <1>16, IrqFacts DEF syscall_irq, Woken
  <2>2. UNCHANGED <<s, pc, s_sem, s_ret, wcur, qstate, orphan>>
    BY <1>16 DEF syscall_irq
  <2> QED
    BY <2>1, <2>2 DEF ServeInv, Served, Ran, Initing, InCall, Off
<1>17. ASSUME IdleSchedule PROVE ServeInv'
  BY <1>17 DEF IdleSchedule, IRQ!Over, ExecInv, Ran, ServeInv, Served, Initing,
     InCall
<1>18. ASSUME IdleExit PROVE ServeInv'
  BY <1>18 DEF IdleExit, IRQ!Over, ExecInv, Ran, ServeInv, Served, Initing,
     InCall
<1>19. ASSUME NEW w \in Workers, Unblock(w) PROVE ServeInv'
  BY <1>19 DEF Unblock, ExecInv, Ran, ServeInv, Served, Initing, InCall, Off
<1>20. ASSUME HaltUp PROVE ServeInv'
  BY <1>20 DEF HaltUp, ExecInv, Ran, ServeInv, Served, Initing, InCall
<1>21. CASE UNCHANGED vars
  BY <1>21 DEF vars, ServeInv, Served, Initing, InCall, Ran
<1> QED
  BY <1>1, <1>2, <1>3, <1>4, <1>5, <1>6, <1>7, <1>8, <1>9, <1>10, <1>11,
      <1>12, <1>13, <1>14, <1>15, <1>16, <1>17, <1>18, <1>19, <1>20, <1>21
     DEF Next, CallerStep, KernelStep, WorkerStep

(* Every step keeps HaltInv: HaltUp alone ups the semaphore, after         *)
(* cpu_idle.                                                               *)
LEMMA HaltStep ==
    CallTypes /\ OtherTypes /\ KindInv /\ RunInv /\ HaltInv
    /\ [Next]_vars => HaltInv'
<1> SUFFICES ASSUME CallTypes, OtherTypes, KindInv, RunInv, HaltInv,
                    [Next]_vars
             PROVE  HaltInv'
  OBVIOUS
<1> USE DEF CallTypes, OtherTypes, caller, kthread, halt, haltsem, history
<1>1. ASSUME NEW c \in Callers, SYSCALL(c) PROVE HaltInv'
  BY <1>1 DEF SYSCALL, Start, Goto, HaltInv, HaltIsLast
<1>2. ASSUME NEW c \in Callers, lkl_sys_halt(c) PROVE HaltInv'
  BY <1>2 DEF lkl_sys_halt, Start, Goto, HaltInv, HaltIsLast
<1>3. ASSUME NEW c \in Callers, lkl_sys_halt_fails(c) PROVE HaltInv'
  BY <1>3 DEF lkl_sys_halt_fails, Return, Goto, HaltInv, HaltIsLast
<1>4. ASSUME NEW c \in Callers, lkl_syscall_thread_init(c) PROVE HaltInv'
  BY <1>4 DEF lkl_syscall_thread_init, Start, Goto, HaltInv, HaltIsLast
<1>5. ASSUME NEW c \in Callers, lkl_syscall_thread_cleanup(c) PROVE HaltInv'
  BY <1>5 DEF lkl_syscall_thread_cleanup, Start, Goto, HaltInv, HaltIsLast
<1>6. ASSUME NEW c \in Callers, SemAlloc(c) PROVE HaltInv'
  BY <1>6 DEF SemAlloc, Goto, Return, HaltInv, HaltIsLast
<1>7. ASSUME NEW c \in Callers, Trigger(c) PROVE HaltInv'
  BY <1>7 DEF Trigger, Goto, HaltInv, HaltIsLast
<1>8. ASSUME NEW c \in Callers, SemDown(c) PROVE HaltInv'
  <2>1. s[c].no = "halt" => pc'[c] = "haltread"
    <3>1. Ran(c)
      BY <1>8 DEF SemDown, IsAnswered, KindInv, Ran
    <3>2. s[c].no = "halt" => s_ret[c] = 0
      BY <3>1 DEF RunInv, Runs
    <3> QED
      BY <1>8, <3>2, IntFacts DEF SemDown, Goto
  <2>2. /\ UNCHANGED <<s, halt>> /\ pc'[c] \in {"haltread", "out"}
        /\ \A x \in Callers : x # c => pc'[x] = pc[x] /\ res'[x] = res[x]
    BY <1>8 DEF SemDown, Return, Goto
  <2> QED
    BY <2>1, <2>2 DEF HaltInv, HaltIsLast
<1>9. ASSUME NEW c \in Callers, HaltRest(c) PROVE HaltInv'
  <2>1. CASE HaltRead(c)
    BY <2>1 DEF HaltRead, Goto, HaltInv, HaltIsLast
  <2>2. CASE HaltDown(c)
    <3>1. halt_arg[c] \in HaltSems /\ finished
      BY <2>2 DEF HaltDown, HaltInv
    <3>2. \A h \in HaltSems : halt_val'[h] > 0 => finished'
      BY <2>2, <3>1 DEF HaltDown
    <3> QED
      BY <2>2, <3>1, <3>2 DEF HaltDown, Goto, HaltInv, HaltIsLast
  <2>3. CASE HaltFree(c)
    <3>1. finished /\ exited
      BY <2>3 DEF HaltFree, HaltInv
    <3> QED
      BY <2>3, <3>1 DEF HaltFree, Return, Goto, HaltInv, HaltIsLast
  <2> QED
    BY <1>9, <2>1, <2>2, <2>3 DEF HaltRest
<1>10. ASSUME NEW w \in Workers, dequeue_syscall(w) PROVE HaltInv'
  BY <1>10 DEF dequeue_syscall, HaltInv, HaltIsLast
<1>11. ASSUME NEW w \in Workers, Block(w) PROVE HaltInv'
  BY <1>11 DEF Block, HaltInv, HaltIsLast
<1>12. ASSUME NEW w \in Workers, run_syscall(w) PROVE HaltInv'
  BY <1>12 DEF run_syscall, HaltInv, HaltIsLast
<1>13. ASSUME NEW w \in Workers, run_syscall_up(w) PROVE HaltInv'
  BY <1>13 DEF run_syscall_up, HaltInv, HaltIsLast
<1>14. ASSUME NEW w \in Workers, del_syscall_queue(w) PROVE HaltInv'
  BY <1>14 DEF del_syscall_queue, HaltInv, HaltIsLast
<1>15. ASSUME NEW w \in Workers, run_syscalls_exit(w) PROVE HaltInv'
  BY <1>15 DEF run_syscalls_exit, HaltInv, HaltIsLast
<1>16. ASSUME syscall_irq PROVE HaltInv'
  BY <1>16 DEF syscall_irq, HaltInv, HaltIsLast
<1>17. ASSUME IdleSchedule PROVE HaltInv'
  BY <1>17 DEF IdleSchedule, IRQ!Over, HaltInv, HaltIsLast
<1>18. ASSUME IdleExit PROVE HaltInv'
  BY <1>18 DEF IdleExit, IRQ!Over, HaltInv, HaltIsLast
<1>19. ASSUME NEW w \in Workers, Unblock(w) PROVE HaltInv'
  BY <1>19 DEF Unblock, HaltInv, HaltIsLast
<1>20. ASSUME HaltUp PROVE HaltInv'
  BY <1>20 DEF HaltUp, IdleReturned, HaltInv, HaltIsLast
<1>21. CASE UNCHANGED vars
  BY <1>21 DEF vars, HaltInv, HaltIsLast
<1> QED
  BY <1>1, <1>2, <1>3, <1>4, <1>5, <1>6, <1>7, <1>8, <1>9, <1>10, <1>11,
      <1>12, <1>13, <1>14, <1>15, <1>16, <1>17, <1>18, <1>19, <1>20, <1>21
     DEF Next, CallerStep, KernelStep, WorkerStep

(* Every step keeps CpuInv: a thread gives up the CPU only when it sleeps  *)
(* or ends, and only the thread that has it starts on a call.              *)
LEMMA CpuStep ==
    CallTypes /\ ListTypes /\ ThreadTypes /\ LinkInv /\ CpuInv
    /\ [Next]_vars => CpuInv'
<1> SUFFICES ASSUME CallTypes, ListTypes, ThreadTypes, LinkInv, CpuInv,
                    [Next]_vars
             PROVE  CpuInv'
  OBVIOUS
<1> USE DEF ThreadTypes, caller, kthread, halt, haltsem, history
<1>1. ASSUME NEW c \in Callers,
             \/ SYSCALL(c) \/ lkl_sys_halt(c) \/ lkl_sys_halt_fails(c)
             \/ lkl_syscall_thread_init(c) \/ lkl_syscall_thread_cleanup(c)
             \/ SemAlloc(c) \/ Trigger(c) \/ SemDown(c) \/ HaltRest(c)
      PROVE  CpuInv'
  <2>1. UNCHANGED <<wst, cpu>>
    BY <1>1 DEF SYSCALL, Start, lkl_sys_halt, lkl_sys_halt_fails,
       lkl_syscall_thread_init, lkl_syscall_thread_cleanup, SemAlloc, Trigger,
       SemDown, HaltRest, HaltRead, HaltDown, HaltFree
  <2> QED
    BY <2>1 DEF CpuInv
<1>2. ASSUME NEW w \in Workers, dequeue_syscall(w) PROVE CpuInv'
  BY <1>2 DEF dequeue_syscall, CpuInv
<1>3. ASSUME NEW w \in Workers, Block(w) PROVE CpuInv'
  BY <1>3 DEF Block, CpuInv
<1>4. ASSUME NEW w \in Workers, run_syscall(w) PROVE CpuInv'
  <2> PICK c \in Callers : c = wcur[w]
    BY <1>4 DEF run_syscall, LinkInv, Busy
  <2>1. /\ UNCHANGED cpu /\ cpu = w
        /\ \A v \in Workers : v = w \/ wst'[v] = wst[v] \/ wst'[v] = "ready"
    BY <1>4 DEF run_syscall
  <2> QED
    BY <2>1 DEF CpuInv
<1>5. ASSUME NEW w \in Workers, run_syscall_up(w) PROVE CpuInv'
  BY <1>5 DEF run_syscall_up, CpuInv
<1>6. ASSUME NEW w \in Workers, del_syscall_queue(w) PROVE CpuInv'
  BY <1>6 DEF del_syscall_queue, CpuInv
<1>7. ASSUME NEW w \in Workers, run_syscalls_exit(w) PROVE CpuInv'
  BY <1>7 DEF run_syscalls_exit, CpuInv
<1>8. ASSUME syscall_irq PROVE CpuInv'
  BY <1>8, IrqFacts DEF syscall_irq, Woken, CpuInv
<1>9. ASSUME NEW w \in Workers, Unblock(w) PROVE CpuInv'
  BY <1>9 DEF Unblock, CpuInv
<1>10. ASSUME IdleSchedule \/ IdleExit \/ HaltUp \/ UNCHANGED vars
       PROVE  CpuInv'
  BY <1>10 DEF IdleSchedule, IdleExit, HaltUp, vars, CpuInv
<1> QED
  BY <1>1, <1>2, <1>3, <1>4, <1>5, <1>6, <1>7, <1>8, <1>9, <1>10
     DEF Next, CallerStep, KernelStep, WorkerStep

(* syscall_irq uses no freed queue but the default one, after the halt:    *)
(* the call at the head of the interrupt's queue has not run, so that the  *)
(* queue of its caller is still hashed; and Idle, which runs the handler,  *)
(* does not have the CPU between del_syscall_queue and kernel_halt.        *)
LEMMA FreedStep ==
    CallTypes /\ ListTypes /\ ThreadTypes /\ OtherTypes /\ KindInv /\ LinkInv
    /\ OnceInv /\ ServeInv /\ CpuInv /\ FreedInv
    /\ [Next]_vars => FreedInv'
<1> SUFFICES ASSUME CallTypes, ListTypes, ThreadTypes, OtherTypes, KindInv,
                    LinkInv, OnceInv, ServeInv, CpuInv, FreedInv, [Next]_vars
             PROVE  FreedInv'
  OBVIOUS
<1> USE DEF ThreadTypes, caller, kthread, halt, haltsem, history
<1>1. ASSUME NEW c \in Callers,
             \/ SYSCALL(c) \/ lkl_sys_halt(c) \/ lkl_sys_halt_fails(c)
             \/ lkl_syscall_thread_init(c) \/ lkl_syscall_thread_cleanup(c)
             \/ SemAlloc(c) \/ Trigger(c) \/ SemDown(c) \/ HaltRest(c)
      PROVE  FreedInv'
  <2>1. UNCHANGED <<wst, halted, uaf>> /\ qstate'[Default] = qstate[Default]
    BY <1>1 DEF SYSCALL, Start, lkl_sys_halt, lkl_sys_halt_fails,
       lkl_syscall_thread_init, lkl_syscall_thread_cleanup, SemAlloc, Trigger,
       SemDown, QueueAfter, HaltRest, HaltRead, HaltDown, HaltFree
  <2> QED
    BY <2>1 DEF FreedInv, NoFreedQueue
<1>2. ASSUME NEW w \in Workers,
             dequeue_syscall(w) \/ Block(w) \/ run_syscall_up(w) \/ Unblock(w)
      PROVE  FreedInv'
  <2>1. /\ UNCHANGED <<qstate, halted, uaf>>
        /\ wst[Default] = "upexit" => wst'[Default] = "upexit"
    BY <1>2 DEF dequeue_syscall, Block, run_syscall_up, Unblock
  <2> QED
    BY <2>1 DEF FreedInv, NoFreedQueue
<1>3. ASSUME NEW w \in Workers, run_syscall(w) PROVE FreedInv'
  <2> PICK c \in Callers : c = wcur[w]
    BY <1>3 DEF run_syscall, LinkInv, Busy
  <2>1. /\ UNCHANGED <<qstate, halted, uaf>>
        /\ wst[Default] = "upexit" => wst'[Default] = "upexit"
    BY <1>3 DEF run_syscall
  <2> QED
    BY <2>1 DEF FreedInv, NoFreedQueue
<1>4. ASSUME NEW w \in Workers, del_syscall_queue(w) PROVE FreedInv'
  BY <1>4 DEF del_syscall_queue, FreedInv, NoFreedQueue
<1>5. ASSUME NEW w \in Workers, run_syscalls_exit(w) PROVE FreedInv'
  BY <1>5 DEF run_syscalls_exit, FreedInv, NoFreedQueue
<1>6. ASSUME syscall_irq PROVE FreedInv'
  <2> DEFINE h == Head(Line)
             q == s[h].queue
  <2>1. h \in Callers /\ h \in Range(Line) /\ Waiting(h) /\ q \in Workers
    BY <1>6, IrqFacts DEF LinkInv
  <2>2. ~Ran(h)
    BY <2>1 DEF Ran, Waiting, OnceInv
  <2>3. q \in Callers => qstate[q] = "hashed"
    BY <2>1, <2>2 DEF KindInv, ServeInv, Served, InCall, Waiting
  <2>4. /\ UNCHANGED <<qstate, halted>> /\ cpu = Idle
        /\ uaf' = IF q \in Queues /\ qstate[q] = "freed" THEN uaf \cup {q}
                                                       ELSE uaf
        /\ wst[Default] = "upexit" => wst'[Default] = "upexit"
    BY <1>6, <2>1 DEF syscall_irq, Woken, Line
  <2>5. qstate[Default] = "freed" => halted
    BY <2>4 DEF CpuInv, FreedInv
  <2> HIDE DEF h, q
  <2> QED
    BY <2>1, <2>3, <2>4, <2>5 DEF FreedInv, NoFreedQueue
<1>7. ASSUME IdleSchedule \/ IdleExit \/ HaltUp \/ UNCHANGED vars
      PROVE  FreedInv'
  BY <1>7 DEF IdleSchedule, IdleExit, HaltUp, vars, FreedInv, NoFreedQueue
<1> QED
  BY <1>1, <1>2, <1>3, <1>4, <1>5, <1>6, <1>7
     DEF Next, CallerStep, KernelStep, WorkerStep

(* Every step keeps OwnResult: an answered call returns what RunInv says.  *)
LEMMA ResultStep ==
    CallTypes /\ ThreadTypes /\ OtherTypes /\ KindInv /\ LinkInv /\ RunInv
    /\ OwnResult /\ [Next]_vars => OwnResult'
<1> SUFFICES ASSUME CallTypes, ThreadTypes, OtherTypes, KindInv, LinkInv,
                    RunInv, OwnResult, [Next]_vars
             PROVE  OwnResult'
  OBVIOUS
<1> USE DEF CallTypes, caller, kthread, halt, haltsem, history
<1>1. ASSUME NEW c \in Callers, SYSCALL(c) PROVE OwnResult'
  BY <1>1 DEF SYSCALL, Start, Goto, OwnResult
<1>2. ASSUME NEW c \in Callers, lkl_sys_halt(c) PROVE OwnResult'
  BY <1>2 DEF lkl_sys_halt, Start, Goto, OwnResult
<1>3. ASSUME NEW c \in Callers, lkl_sys_halt_fails(c) PROVE OwnResult'
  BY <1>3 DEF lkl_sys_halt_fails, Return, Goto, OwnResult
<1>4. ASSUME NEW c \in Callers, lkl_syscall_thread_init(c) PROVE OwnResult'
  BY <1>4 DEF lkl_syscall_thread_init, Start, Goto, OwnResult
<1>5. ASSUME NEW c \in Callers, lkl_syscall_thread_cleanup(c) PROVE OwnResult'
  BY <1>5 DEF lkl_syscall_thread_cleanup, Start, Goto, OwnResult
<1>6. ASSUME NEW c \in Callers, SemAlloc(c) PROVE OwnResult'
  <2>1. ~Ran(c) /\ InCall(c)
    BY <1>6 DEF SemAlloc, Ran, InCall, LinkInv, Waiting
  <2>2. s[c].no = "plain" => ran[c] = {}
    BY <2>1 DEF RunInv, Runs
  <2> QED
    BY <1>6, <2>2 DEF SemAlloc, Goto, Return, OwnResult
<1>7. ASSUME NEW c \in Callers, Trigger(c) PROVE OwnResult'
  BY <1>7 DEF Trigger, Goto, OwnResult
<1>8. ASSUME NEW c \in Callers, SemDown(c) PROVE OwnResult'
  <2>1. Ran(c)
    BY <1>8 DEF SemDown, IsAnswered, KindInv, Ran
  <2>2. /\ UNCHANGED <<s, ran>>
        /\ \A x \in Callers : x # c => pc'[x] = pc[x] /\ res'[x] = res[x]
        /\ s[c].no = "plain" => res'[c] = AsInt(s_ret[c])
    BY <1>8 DEF SemDown, Return, Goto
  <2>3. s[c].no = "plain" =>
            \E r \in Results[c] : ran[c] = {r} /\ res'[c] = AsInt(r)
    <3> SUFFICES ASSUME s[c].no = "plain"
                 PROVE  \E r \in Results[c] : ran[c] = {r} /\ res'[c] = AsInt(r)
      OBVIOUS
    <3>1. PICK r \in Results[c] : ran[c] = {r} /\ s_ret[c] = AsInt(r)
      BY <2>1 DEF RunInv, Runs
    <3>2. AsInt(AsInt(r)) = AsInt(r)
      BY IntFacts, IntAssumption
    <3> QED
      BY <2>2, <3>1, <3>2
  <2> QED
    BY <2>2, <2>3 DEF OwnResult
<1>9. ASSUME NEW c \in Callers, HaltRest(c) PROVE OwnResult'
  <2>1. s[c].no = "halt"
    BY <1>9, HaltRestFacts DEF KindInv
  <2> QED
    BY <1>9, <2>1, HaltRestFacts DEF OwnResult
<1>10. ASSUME NEW w \in Workers, dequeue_syscall(w) PROVE OwnResult'
  BY <1>10 DEF dequeue_syscall, OwnResult
<1>11. ASSUME NEW w \in Workers, Block(w) PROVE OwnResult'
  BY <1>11 DEF Block, OwnResult
<1>12. ASSUME NEW w \in Workers, run_syscall(w) PROVE OwnResult'
  <2> PICK x \in Callers : x = wcur[w] /\ Waiting(x)
    BY <1>12 DEF run_syscall, LinkInv, Busy
  <2>1. UNCHANGED <<pc, s, res>> /\ \A y \in Callers : y # x => ran'[y] = ran[y]
    BY <1>12 DEF run_syscall, OtherTypes
  <2> QED
    BY <2>1 DEF OwnResult, Waiting
<1>13. ASSUME NEW w \in Workers, run_syscall_up(w) PROVE OwnResult'
  BY <1>13 DEF run_syscall_up, OwnResult
<1>14. ASSUME NEW w \in Workers, del_syscall_queue(w) PROVE OwnResult'
  BY <1>14 DEF del_syscall_queue, OwnResult
<1>15. ASSUME NEW w \in Workers, run_syscalls_exit(w) PROVE OwnResult'
  BY <1>15 DEF run_syscalls_exit, OwnResult
<1>16. ASSUME syscall_irq PROVE OwnResult'
  BY <1>16 DEF syscall_irq, OwnResult
<1>17. ASSUME IdleSchedule PROVE OwnResult'
  BY <1>17 DEF IdleSchedule, IRQ!Over, OwnResult
<1>18. ASSUME IdleExit PROVE OwnResult'
  BY <1>18 DEF IdleExit, IRQ!Over, OwnResult
<1>19. ASSUME NEW w \in Workers, Unblock(w) PROVE OwnResult'
  BY <1>19 DEF Unblock, OwnResult
<1>20. ASSUME HaltUp PROVE OwnResult'
  BY <1>20 DEF HaltUp, OwnResult
<1>21. CASE UNCHANGED vars
  BY <1>21 DEF vars, OwnResult
<1> QED
  BY <1>1, <1>2, <1>3, <1>4, <1>5, <1>6, <1>7, <1>8, <1>9, <1>10, <1>11,
      <1>12, <1>13, <1>14, <1>15, <1>16, <1>17, <1>18, <1>19, <1>20, <1>21
     DEF Next, CallerStep, KernelStep, WorkerStep

(* The inductive invariant.                                                *)
IInv ==
    /\ CallTypes /\ ListTypes /\ ThreadTypes /\ OtherTypes
    /\ KindInv /\ LinkInv /\ OnceInv /\ ExecInv /\ RunInv /\ ServeInv
    /\ OwnResult /\ HaltInv /\ CpuInv /\ FreedInv

(* syscall_init: no caller is in a call, the default queue has its thread. *)
LEMMA InitInv == Init => IInv
<1> SUFFICES ASSUME Init PROVE IInv
  OBVIOUS
<1> USE DEF Init, IRQ!Init
<1>1. CallTypes /\ ListTypes /\ ThreadTypes /\ OtherTypes
  <2>1. CallTypes
    BY DEF CallTypes
  <2>2. ListTypes
    BY DEF ListTypes
  <2>3. ThreadTypes
    BY DEF ThreadTypes
  <2>4. OtherTypes
    BY DEF OtherTypes
  <2> QED
    BY <2>1, <2>2, <2>3, <2>4
<1>2. Line = <<>> /\ \A w \in Workers : list[w] = <<>> /\ wcur[w] = NULL
  BY DEF Line
<1>3. KindInv /\ OwnResult /\ HaltInv /\ CpuInv /\ FreedInv
  BY DEF KindInv, OwnResult, HaltInv, HaltIsLast, CpuInv, FreedInv,
     NoFreedQueue
<1>4. LinkInv /\ OnceInv
  <2>1. \A w \in Workers : wst[w] \notin Busy
    BY DEF Busy
  <2> QED
    BY <1>2, <2>1, EmptyRange DEF LinkInv, OnceInv
<1>5. ExecInv /\ RunInv /\ ServeInv
  <2>1. \A c \in Callers : ~Ran(c) /\ ~InCall(c)
    BY <1>2 DEF Ran, InCall
  <2>2. \A w \in Workers : wst[w] \notin Busy
    BY DEF Busy
  <2> QED
    BY <2>1, <2>2 DEF ExecInv, RunInv, Runs, ServeInv, Served, Initing, Off,
       Busy
<1> QED
  BY <1>1, <1>3, <1>4, <1>5 DEF IInv

(* Every reachable state satisfies the inductive invariant.                *)
THEOREM Invariance == Spec => []IInv
<1>1. IInv /\ [Next]_vars => IInv'
  BY CallTypesStep, ListTypesStep, ThreadTypesStep, OtherTypesStep, KindStep,
     LinkStep, OnceStep, ExecStep, RunStep, ServeStep, ResultStep, HaltStep,
     CpuStep, FreedStep
     DEF IInv
<1> QED
  BY <1>1, InitInv, PTL DEF Spec

(* Every variable keeps its type, for any number of callers and calls.     *)
THEOREM TypeCorrect == Spec => []TypeOK
<1>1. IInv => TypeOK
  BY DEF IInv, CallTypes, ListTypes, ThreadTypes, OtherTypes, TypeOK
<1> QED
  BY <1>1, Invariance, PTL

(* While the kernel holds a pointer to a struct syscall its caller is      *)
(* inside the call, unanswered, and the pointer is the only one: no system *)
(* call uses a stack frame that is gone, and none is run or answered       *)
(* twice.                                                                  *)
THEOREM FrameOutlivesCall == Spec => []StackFrameLive
<1>1. IInv => StackFrameLive
  <2> SUFFICES ASSUME IInv, NEW c \in Callers
               PROVE  /\ Cardinality(Holders(c)) <= 1
                      /\ Holders(c) # {} => c \in UnderWay
    BY DEF StackFrameLive
  <2> USE DEF IInv
  <2> DEFINE I == InIrq(c)
             L == Listed(c)
             W == InHand(c)
  <2>1. I # {} => c \in Range(Line)
    BY DEF InIrq, Range, Line
  <2>2. \A p \in L : \E w \in Workers : \E k \in DOMAIN list[w] :
            p = <<w, k>> /\ list[w][k] = c /\ c \in Range(list[w])
    BY DEF Listed, Range
  <2>3. \A p \in W : \E w \in Workers : p = <<w, 0>> /\ wcur[w] = c
    BY DEF InHand
  <2>4. \A p, q \in I : p = q
    BY DEF OnceInv, IsInjective, InIrq, Line
  <2>5. \A p, q \in L : p = q
    BY <2>2 DEF OnceInv, LinkInv, IsInjective
  <2>6. \A p, q \in W : p = q
    BY <2>3 DEF LinkInv
  <2> HIDE DEF I, L, W
  <2>7. (I = {} \/ L = {}) /\ (I = {} \/ W = {}) /\ (L = {} \/ W = {})
    BY <2>1, <2>2, <2>3 DEF OnceInv, LinkInv
  <2>8. \A p, q \in Holders(c) : p = q
    BY <2>4, <2>5, <2>6, <2>7 DEF Holders, I, L, W
  <2>9. Holders(c) # {} => Waiting(c)
    BY <2>1, <2>2, <2>3 DEF LinkInv, Holders, I, L, W
  <2> QED
    BY <2>8, <2>9, AtMostOne DEF Waiting, UnderWay
<1> QED
  BY <1>1, Invariance, PTL

(* A system call returns what its own handler returned, run once for it,   *)
(* converted to an int, so that the upper half of a long is lost; or       *)
(* -ENOMEM, and then the handler has not run.                              *)
THEOREM ResultIsOwn == Spec => []OwnResult
<1>1. IInv => OwnResult
  BY DEF IInv
<1> QED
  BY <1>1, Invariance, PTL

(* A queue that lkl_syscall_thread_init leaves hashed has a kernel thread, *)
(* until the caller's own lkl_syscall_thread_cleanup; a failed sem_alloc   *)
(* is the one exception.                                                   *)
THEOREM QueuesAreServed == Spec => []QueueServed
<1>1. IInv => QueueServed
  BY DEF IInv, QueueServed, ServeInv, Served, Initing, InCall, Off
<1> QED
  BY <1>1, Invariance, PTL

(* syscall_irq never adds to a private queue that del_syscall_queue has    *)
(* freed, and to the default queue, when it is freed, only once the kernel *)
(* has been halted.                                                        *)
THEOREM FreedQueueUnused == Spec => []NoFreedQueue
<1>1. IInv => NoFreedQueue
  BY DEF IInv, FreedInv
<1> QED
  BY <1>1, Invariance, PTL

(* lkl_sys_halt returns success only after cpu_idle has returned and       *)
(* lkl_start_kernel has upped halt_sem, and the semaphore that it is still *)
(* to up has not been freed.                                               *)
THEOREM HaltReturnsLast == Spec => []HaltIsLast
<1>1. IInv => HaltIsLast
  BY DEF IInv, HaltInv
<1> QED
  BY <1>1, Invariance, PTL

(* The kernel writes a caller's stack only while the caller waits there:   *)
(* run_syscall and the end of run_syscalls store a result or up the        *)
(* semaphore of a struct syscall only if its caller is in sem_down without *)
(* an answer.  Once answered, a frame is not written again, whatever the   *)
(* caller's thread does with its stack next.                               *)
THEOREM KernelWritesLiveFrames ==
    Spec => [][KernelStep => \A c \in Callers :
                  s_ret'[c] # s_ret[c] \/ s_sem'[c] # s_sem[c]
                  => c \in UnderWay]_vars
<1>1. IInv /\ [Next]_vars =>
          [KernelStep => \A c \in Callers :
              s_ret'[c] # s_ret[c] \/ s_sem'[c] # s_sem[c]
              => c \in UnderWay]_vars
  <2> SUFFICES ASSUME IInv, KernelStep, NEW c \in Callers,
                      s_ret'[c] # s_ret[c] \/ s_sem'[c] # s_sem[c]
               PROVE  c \in UnderWay
    OBVIOUS
  <2>1. \A w \in Workers : wcur[w] = c => c \in UnderWay
    BY DEF IInv, LinkInv, Waiting, UnderWay
  <2>2. ASSUME NEW w \in Workers,
               \/ run_syscall(w) \/ run_syscall_up(w)
               \/ del_syscall_queue(w) \/ run_syscalls_exit(w)
        PROVE  wcur[w] = c
    BY <2>2 DEF IInv, CallTypes, run_syscall, StoreRet, run_syscall_up,
       del_syscall_queue, run_syscalls_exit
  <2>3. ASSUME \/ \E w \in Workers : dequeue_syscall(w) \/ Block(w)
               \/ syscall_irq \/ IdleSchedule \/ IdleExit
        PROVE  FALSE
    BY <2>3 DEF dequeue_syscall, Block, syscall_irq, IdleSchedule, IdleExit,
       caller
  <2> QED
    BY <2>1, <2>2, <2>3 DEF KernelStep, WorkerStep
<1> QED
  BY <1>1, Invariance, PTL DEF Spec

(* Callers and handler use the interrupt layer only as IrqQueue, and so    *)
(* irq.c, offers it.                                                       *)
THEOREM UsesIrqQueue == Spec => IRQ!Spec
<1>1. Init => IRQ!Init
  BY DEF Init
<1>2. [Next]_vars => [IRQ!Next]_(IRQ!vars)
  <2> SUFFICES ASSUME Next PROVE IRQ!Next \/ UNCHANGED irq
    BY DEF vars, irq, IRQ!vars
  <2>1. ASSUME NEW c \in Callers, Trigger(c) PROVE IRQ!Next \/ UNCHANGED irq
    BY <2>1 DEF Trigger, IRQ!Next
  <2>2. ASSUME syscall_irq PROVE IRQ!Next
    BY <2>2 DEF syscall_irq, IRQ!Next
  <2>3. ASSUME IdleSchedule \/ IdleExit PROVE IRQ!Next
    BY <2>3 DEF IdleSchedule, IdleExit, IRQ!Next
  <2>4. ASSUME ~syscall_irq, ~IdleSchedule, ~IdleExit,
               ~\E c \in Callers : Trigger(c)
        PROVE  UNCHANGED irq
    BY <2>4 DEF Next, SYSCALL, Start, lkl_sys_halt, lkl_sys_halt_fails,
       lkl_syscall_thread_init, lkl_syscall_thread_cleanup, CallerStep,
       SemAlloc, SemDown, HaltRest, HaltRead, HaltDown, HaltFree, KernelStep,
       WorkerStep, dequeue_syscall, Block, run_syscall, run_syscall_up, del_syscall_queue,
       run_syscalls_exit, Unblock, HaltUp
  <2> QED
    BY <2>1, <2>2, <2>3, <2>4
<1> QED
  BY <1>1, <1>2, PTL DEF Spec, IRQ!Spec
=============================================================================
