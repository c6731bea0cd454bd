---------------------------- MODULE LklIrq_proof ----------------------------
(***************************************************************************)
(* Proofs about LklIrq, for any number of host threads and interrupt lines *)
(* and any limit of the native semaphores.                                 *)
(***************************************************************************)
EXTENDS LklIrq, SeqRange

-----------------------------------------------------------------------------
(* The inductive invariant. *)

\* p, a process in a call, or the idle thread, holds irqs[i].lock.
CallHolds(p, i) == pc[p] \in {"update", "up"} /\ req[p].irq = i
IdleHolds(i) == ipc \in {"take", "up"} /\ cur = i

\* The semaphore of a line is a lock.
LockInv ==
    \A i \in Irqs :
        /\ lock[i] = 1 => ~IdleHolds(i) /\ \A p \in Procs : ~CallHolds(p, i)
        /\ IdleHolds(i) => \A p \in Procs : ~CallHolds(p, i)
        /\ \A p, q \in Procs : CallHolds(p, i) /\ CallHolds(q, i) => p = q

\* The kernel threads only purge; a host thread in a call has counted it.
CallInv ==
    /\ req[Kern].op = "purge" /\ pc[Kern] \notin {"alloc", "post"}
    /\ \A t \in Threads : pc[t] # "out" => calls[t] > 0

\* What dequeue_data found is given to the handler.
RegsInv ==
    part = "data" /\ (ipc = "handle" \/ (ipc = "up" /\ got)) => regs \in Items

\* cpu_idle's loop variable counts down once per round when halted.
LoopInv ==
    /\ ipc \in {"wait", "down", "take", "up", "handle", "again", "resched"} =>
          loop = IF linux_halted THEN 0 ELSE 1
    /\ ipc = "sched" => loop = 1

IInv == TypeOK /\ LockInv /\ CallInv /\ RegsInv /\ LoopInv

USE ThreadsAssumption, NumIrqsAssumption, SemMaxAssumption, MaxCallsAssumption
    DEF Irqs, Procs

LEMMA InitInv == Init => IInv
<1> SUFFICES ASSUME Init PROVE IInv
  OBVIOUS
<1>1. QueueTypes /\ HistoryTypes
  BY DEF Init, QueueTypes, HistoryTypes
<1>2. CallTypes /\ CallInv
  BY DEF Init, NoCall, CallTypes, CallInv
<1>3. RegsInv /\ LoopInv
  BY DEF Init, RegsInv, LoopInv
<1>5. IdleTypes
  <2>1. /\ got \in BOOLEAN /\ need_resched \in BOOLEAN
           /\ linux_halted \in BOOLEAN
        /\ rcu_start \in BOOLEAN /\ rcu_done \in BOOLEAN
    BY Zenon DEF Init
  <2> QED
    BY <2>1 DEF Init, IdleTypes
<1>4. LockInv
  BY DEF Init, LockInv, CallHolds, IdleHolds
<1> QED
  BY <1>1, <1>2, <1>3, <1>4, <1>5 DEF IInv, TypeOK

(* Every step preserves the invariant: one step of the proof per action. *)
LEMMA NextInv == IInv /\ [Next]_vars => IInv'
<1> SUFFICES ASSUME IInv, [Next]_vars PROVE IInv'
  OBVIOUS
<1> USE DEF IInv, TypeOK
<1>1. ASSUME NEW t \in Threads, AllocItem(t) PROVE IInv'
  <2>1. QueueTypes'
    BY <1>1 DEF AllocItem, Goto, Return, NoCall, QueueTypes, CallTypes,
       IdleTypes, queues, procs, idle, history
  <2>2. CallTypes' /\ CallInv'
    BY <1>1 DEF AllocItem, Goto, Return, NoCall, CallTypes, CallInv, queues,
       procs, idle, history
  <2>3. IdleTypes'
    BY <1>1 DEF AllocItem, Goto, Return, NoCall, IdleTypes, queues, procs, idle,
       history
  <2>4. RegsInv' /\ LoopInv'
    BY <1>1 DEF AllocItem, Goto, Return, NoCall, QueueTypes, IdleTypes, RegsInv,
       LoopInv, queues, procs, idle, history
  <2>5. HistoryTypes'
    BY <1>1 DEF AllocItem, Goto, Return, NoCall, HistoryTypes, IdleTypes,
       RegsInv, queues, procs, idle, history
  <2>6. LockInv'
    <3>1. \A q \in Procs, j \in Irqs : CallHolds(q, j)' <=> CallHolds(q, j)
      BY <1>1 DEF AllocItem, Goto, Return, NoCall, CallTypes, CallHolds
    <3>2. \A j \in Irqs : lock'[j] = lock[j] /\ (IdleHolds(j)' <=> IdleHolds(j))
      BY <1>1 DEF AllocItem, IdleHolds, idle
    <3> QED
      BY <3>1, <3>2 DEF LockInv
  <2> QED
    BY <2>1, <2>2, <2>3, <2>4, <2>5, <2>6
<1>2. ASSUME NEW t \in Threads, NEW i \in Irqs, lkl_trigger_irq(t, i)
             PROVE IInv'
  <2>1. QueueTypes'
    BY <1>2 DEF lkl_trigger_irq, Goto, QueueTypes, CallTypes, IdleTypes, queues,
       procs, idle, history
  <2>2. CallTypes' /\ CallInv'
    BY <1>2 DEF lkl_trigger_irq, Goto, CallTypes, CallInv, queues, procs, idle,
       history
  <2>3. IdleTypes'
    BY <1>2 DEF lkl_trigger_irq, Goto, IdleTypes, queues, procs, idle, history
  <2>4. RegsInv' /\ LoopInv'
    BY <1>2 DEF lkl_trigger_irq, Goto, QueueTypes, IdleTypes, RegsInv, LoopInv,
       queues, procs, idle, history
  <2>5. HistoryTypes'
    BY <1>2 DEF lkl_trigger_irq, Goto, HistoryTypes, IdleTypes, RegsInv, queues,
       procs, idle, history
  <2>6. LockInv'
    <3>1. \A q \in Procs, j \in Irqs : CallHolds(q, j)' <=> CallHolds(q, j)
      BY <1>2 DEF lkl_trigger_irq, Goto, CallTypes, CallHolds
    <3>2. \A j \in Irqs : lock'[j] = lock[j] /\ (IdleHolds(j)' <=> IdleHolds(j))
      BY <1>2 DEF lkl_trigger_irq, IdleHolds, idle
    <3> QED
      BY <3>1, <3>2 DEF LockInv
  <2> QED
    BY <2>1, <2>2, <2>3, <2>4, <2>5, <2>6
<1>3. ASSUME NEW t \in Threads, NEW i \in Irqs,
            lkl_trigger_irq_with_data(t, i) PROVE IInv'
  <2>1. QueueTypes'
    BY <1>3 DEF lkl_trigger_irq_with_data, Goto, QueueTypes, CallTypes,
       IdleTypes, queues, procs, idle, history
  <2>2. CallTypes' /\ CallInv'
    BY <1>3 DEF lkl_trigger_irq_with_data, Goto, CallTypes, CallInv, queues,
       procs, idle, history
  <2>3. IdleTypes'
    BY <1>3 DEF lkl_trigger_irq_with_data, Goto, IdleTypes, queues, procs, idle,
       history
  <2>4. RegsInv' /\ LoopInv'
    BY <1>3 DEF lkl_trigger_irq_with_data, Goto, QueueTypes, IdleTypes, RegsInv,
       LoopInv, queues, procs, idle, history
  <2>5. HistoryTypes'
    BY <1>3 DEF lkl_trigger_irq_with_data, Goto, HistoryTypes, IdleTypes,
       RegsInv, queues, procs, idle, history
  <2>6. LockInv'
    <3>1. \A q \in Procs, j \in Irqs : CallHolds(q, j)' <=> CallHolds(q, j)
      BY <1>3 DEF lkl_trigger_irq_with_data, Goto, CallTypes, CallHolds
    <3>2. \A j \in Irqs : lock'[j] = lock[j] /\ (IdleHolds(j)' <=> IdleHolds(j))
      BY <1>3 DEF lkl_trigger_irq_with_data, IdleHolds, idle
    <3> QED
      BY <3>1, <3>2 DEF LockInv
  <2> QED
    BY <2>1, <2>2, <2>3, <2>4, <2>5, <2>6
<1>4. ASSUME NEW i \in Irqs, lkl_purge_irq_queue(i) PROVE IInv'
  <2>1. QueueTypes'
    BY <1>4 DEF lkl_purge_irq_queue, Goto, QueueTypes, CallTypes, IdleTypes,
       queues, procs, idle, history
  <2>2. CallTypes' /\ CallInv'
    BY <1>4 DEF lkl_purge_irq_queue, Goto, CallTypes, CallInv, queues, procs,
       idle, history
  <2>3. IdleTypes'
    BY <1>4 DEF lkl_purge_irq_queue, Goto, IdleTypes, queues, procs, idle,
       history
  <2>4. RegsInv' /\ LoopInv'
    BY <1>4 DEF lkl_purge_irq_queue, Goto, QueueTypes, IdleTypes, RegsInv,
       LoopInv, queues, procs, idle, history
  <2>5. HistoryTypes'
    BY <1>4 DEF lkl_purge_irq_queue, Goto, HistoryTypes, IdleTypes, RegsInv,
       queues, procs, idle, history
  <2>6. LockInv'
    <3>1. \A q \in Procs, j \in Irqs : CallHolds(q, j)' <=> CallHolds(q, j)
      BY <1>4 DEF lkl_purge_irq_queue, Goto, CallTypes, CallHolds
    <3>2. \A j \in Irqs : lock'[j] = lock[j] /\ (IdleHolds(j)' <=> IdleHolds(j))
      BY <1>4 DEF lkl_purge_irq_queue, IdleHolds, idle
    <3> QED
      BY <3>1, <3>2 DEF LockInv
  <2> QED
    BY <2>1, <2>2, <2>3, <2>4, <2>5, <2>6
<1>5. ASSUME NEW p \in Procs, CallDown(p) PROVE IInv'
  <2>1. QueueTypes'
    <3>1. req[p].irq \in Irqs
      BY DEF CallTypes
    <3>2. lock' \in [Irqs -> 0 .. 1]
      BY <1>5, <3>1 DEF CallDown, LockDown, QueueTypes
    <3> QED
      BY <1>5, <3>2 DEF CallDown, QueueTypes, queues
  <2>2. CallTypes' /\ CallInv'
    BY <1>5 DEF CallDown, Goto, LockDown, CallTypes, CallInv, queues, procs,
       idle, history
  <2>3. IdleTypes'
    BY <1>5 DEF CallDown, Goto, LockDown, IdleTypes, queues, procs, idle,
       history
  <2>4. RegsInv' /\ LoopInv'
    BY <1>5 DEF CallDown, Goto, LockDown, QueueTypes, IdleTypes, RegsInv,
       LoopInv, queues, procs, idle, history
  <2>5. HistoryTypes'
    BY <1>5 DEF CallDown, Goto, LockDown, HistoryTypes, IdleTypes, RegsInv,
       queues, procs, idle, history
  <2>6. LockInv'
    <3> DEFINE j == req[p].irq
    <3>1. j \in Irqs /\ lock[j] = 1 /\ lock'[j] = 0
      BY <1>5 DEF CallDown, LockDown, QueueTypes, CallTypes
    <3>2. \A i \in Irqs : i # j => lock'[i] = lock[i]
      BY <1>5 DEF CallDown, LockDown, QueueTypes
    <3>3. \A q \in Procs, i \in Irqs :
            CallHolds(q, i)' <=> CallHolds(q, i) \/ (q = p /\ i = j)
      BY <1>5 DEF CallDown, Goto, CallTypes, CallHolds
    <3>4. \A i \in Irqs : IdleHolds(i)' <=> IdleHolds(i)
      BY <1>5 DEF CallDown, IdleHolds, idle
    <3> HIDE DEF j
    <3> QED
      BY <3>1, <3>2, <3>3, <3>4 DEF LockInv
  <2> QED
    BY <2>1, <2>2, <2>3, <2>4, <2>5, <2>6
<1>6. ASSUME NEW p \in Procs, CallUpdate(p) PROVE IInv'
  <2>1. QueueTypes'
    <3> DEFINE j == req[p].irq
    <3>1. /\ j \in Irqs /\ data_list[j] \in Seq(Items)
          /\ no_data_count[j] \in Nat /\ <<>> \in Seq(Items)
      BY DEF QueueTypes, CallTypes
    <3>2. req[p].op = "data" => Append(data_list[j], ItemOf(p)) \in Seq(Items)
      <4> SUFFICES ASSUME req[p].op = "data"
                   PROVE  ItemOf(p) \in Items
        BY <3>1
      <4> QED
        BY <1>6 DEF CallUpdate, Enqueue, CallTypes, CallInv, ItemOf, Items
    <3>3. data_list' \in [Irqs -> Seq(Items)]
      BY <1>6, <3>1, <3>2 DEF CallUpdate, Enqueue, QueueTypes
    <3>4. no_data_count' \in [Irqs -> Nat]
      <4>1. CASE no_data_count' = [no_data_count EXCEPT ![j] = @ + 1]
        BY <3>1, <4>1 DEF QueueTypes
      <4>2. CASE no_data_count' = [no_data_count EXCEPT ![j] = 0]
        BY <3>1, <4>2 DEF QueueTypes
      <4>3. CASE UNCHANGED no_data_count
        BY <4>3 DEF QueueTypes
      <4> QED
        BY <1>6, <4>1, <4>2, <4>3 DEF CallUpdate
    <3> QED
      BY <1>6, <3>3, <3>4 DEF CallUpdate, Enqueue, QueueTypes
  <2>2. CallTypes' /\ CallInv'
    BY <1>6 DEF CallUpdate, Goto, Enqueue, CallTypes, CallInv, queues, procs,
       idle, history
  <2>3. IdleTypes'
    BY <1>6 DEF CallUpdate, Goto, Enqueue, IdleTypes, queues, procs, idle,
       history
  <2>4. RegsInv' /\ LoopInv'
    BY <1>6 DEF CallUpdate, Goto, Enqueue, QueueTypes, IdleTypes, RegsInv,
       LoopInv, queues, procs, idle, history
  <2>5. HistoryTypes'
    <3>1. \/ due_count' = due_count
          \/ \E j \in Irqs : due_count' = [due_count EXCEPT ![j] = 0]
      BY <1>6 DEF CallUpdate, CallTypes
    <3>2. due_count' \in [Irqs -> Nat]
      <4>1. due_count \in [Irqs -> Nat]
        BY DEF HistoryTypes
      <4> QED
        BY <3>1, <4>1
    <3>3. UNCHANGED <<handled, due>>
      BY <1>6 DEF CallUpdate
    <3> QED
      BY <3>2, <3>3 DEF HistoryTypes
  <2>6. LockInv'
    <3>1. \A q \in Procs, j \in Irqs : CallHolds(q, j)' <=> CallHolds(q, j)
      BY <1>6 DEF CallUpdate, Goto, CallTypes, CallHolds
    <3>2. \A j \in Irqs : lock'[j] = lock[j] /\ (IdleHolds(j)' <=> IdleHolds(j))
      BY <1>6 DEF CallUpdate, IdleHolds, idle
    <3> QED
      BY <3>1, <3>2 DEF LockInv
  <2> QED
    BY <2>1, <2>2, <2>3, <2>4, <2>5, <2>6
<1>7. ASSUME NEW p \in Procs, CallUp(p) PROVE IInv'
  <2>1. QueueTypes'
    <3>1. req[p].irq \in Irqs /\ lock[req[p].irq] = 0
      BY <1>7 DEF CallUp, QueueTypes, CallTypes, LockInv, CallHolds
    <3> QED
      BY <1>7, <3>1 DEF CallUp, LockUp, SemUp, QueueTypes, queues
  <2>2. CallTypes' /\ CallInv'
    BY <1>7 DEF CallUp, Goto, Return, NoCall, LockUp, SemUp, CallTypes, CallInv,
       queues, procs, idle, history
  <2>3. IdleTypes'
    BY <1>7 DEF CallUp, Goto, Return, NoCall, LockUp, SemUp, IdleTypes, queues,
       procs, idle, history
  <2>4. RegsInv' /\ LoopInv'
    BY <1>7 DEF CallUp, Goto, Return, NoCall, LockUp, SemUp, QueueTypes,
       IdleTypes, RegsInv, LoopInv, queues, procs, idle, history
  <2>5. HistoryTypes'
    BY <1>7 DEF CallUp, Goto, Return, NoCall, LockUp, SemUp, HistoryTypes,
       IdleTypes, RegsInv, queues, procs, idle, history
  <2>6. LockInv'
    <3>1. CallHolds(p, req[p].irq) /\ req[p].irq \in Irqs
      BY <1>7 DEF CallUp, CallTypes, CallHolds
    <3>2. \A q \in Procs, i \in Irqs : CallHolds(q, i)' => CallHolds(q, i)
          /\ q # p
      BY <1>7 DEF CallUp, Goto, Return, NoCall, CallTypes, CallHolds
    <3>3. \A i \in Irqs : IdleHolds(i)' = IdleHolds(i)
      BY <1>7 DEF CallUp, IdleHolds, idle
    <3>4. \A i \in Irqs : i # req[p].irq => lock'[i] = lock[i]
      BY <1>7 DEF CallUp, LockUp, QueueTypes
    <3> QED
      BY <3>1, <3>2, <3>3, <3>4 DEF LockInv
  <2> QED
    BY <2>1, <2>2, <2>3, <2>4, <2>5, <2>6
<1>8. ASSUME NEW p \in Procs, CallPost(p) PROVE IInv'
  <2>1. QueueTypes'
    BY <1>8 DEF CallPost, Goto, Return, NoCall, SemUp, QueueTypes, CallTypes,
       IdleTypes, queues, procs, idle, history
  <2>2. CallTypes' /\ CallInv'
    BY <1>8 DEF CallPost, Goto, Return, NoCall, SemUp, CallTypes, CallInv,
       queues, procs, idle, history
  <2>3. IdleTypes'
    BY <1>8 DEF CallPost, Goto, Return, NoCall, SemUp, IdleTypes, queues, procs,
       idle, history
  <2>4. RegsInv' /\ LoopInv'
    BY <1>8 DEF CallPost, Goto, Return, NoCall, SemUp, QueueTypes, IdleTypes,
       RegsInv, LoopInv, queues, procs, idle, history
  <2>5. HistoryTypes'
    BY <1>8 DEF CallPost, Goto, Return, NoCall, SemUp, HistoryTypes, IdleTypes,
       RegsInv, queues, procs, idle, history
  <2>6. LockInv'
    <3>1. \A q \in Procs, j \in Irqs : CallHolds(q, j)' <=> CallHolds(q, j)
      BY <1>8 DEF CallPost, Goto, Return, NoCall, CallTypes, CallHolds
    <3>2. \A j \in Irqs : lock'[j] = lock[j] /\ (IdleHolds(j)' <=> IdleHolds(j))
      BY <1>8 DEF CallPost, IdleHolds, idle
    <3> QED
      BY <3>1, <3>2 DEF LockInv
  <2> QED
    BY <2>1, <2>2, <2>3, <2>4, <2>5, <2>6
<1>9. ASSUME IdleTop PROVE IInv'
  <2>1. QueueTypes'
    BY <1>9 DEF IdleTop, QueueTypes, CallTypes, IdleTypes, queues, procs, idle,
       history
  <2>2. CallTypes' /\ CallInv'
    BY <1>9 DEF IdleTop, CallTypes, CallInv, queues, procs, idle, history
  <2>3. IdleTypes'
    BY <1>9 DEF IdleTop, IdleTypes, queues, procs, idle, history
  <2>4. RegsInv' /\ LoopInv'
    BY <1>9 DEF IdleTop, QueueTypes, IdleTypes, RegsInv, LoopInv, queues, procs,
       idle, history
  <2>5. HistoryTypes'
    BY <1>9 DEF IdleTop, HistoryTypes, IdleTypes, RegsInv, queues, procs, idle,
       history
  <2>6. LockInv'
    BY <1>9 DEF IdleTop, QueueTypes, CallTypes, IdleTypes, LockInv, CallHolds,
       IdleHolds, queues, procs, idle, history
  <2> QED
    BY <2>1, <2>2, <2>3, <2>4, <2>5, <2>6
<1>10. ASSUME IdleWait PROVE IInv'
  <2>1. QueueTypes'
    BY <1>10 DEF IdleWait, QueueTypes, CallTypes, IdleTypes, queues, procs,
       idle, history
  <2>2. CallTypes' /\ CallInv'
    BY <1>10 DEF IdleWait, CallTypes, CallInv, queues, procs, idle, history
  <2>3. IdleTypes'
    BY <1>10 DEF IdleWait, IdleTypes, queues, procs, idle, history
  <2>4. RegsInv' /\ LoopInv'
    BY <1>10 DEF IdleWait, QueueTypes, IdleTypes, RegsInv, LoopInv, queues,
       procs, idle, history
  <2>5. HistoryTypes'
    BY <1>10 DEF IdleWait, HistoryTypes, IdleTypes, RegsInv, queues, procs,
       idle, history
  <2>6. LockInv'
    BY <1>10 DEF IdleWait, QueueTypes, CallTypes, IdleTypes, LockInv, CallHolds,
       IdleHolds, queues, procs, idle, history
  <2> QED
    BY <2>1, <2>2, <2>3, <2>4, <2>5, <2>6
<1>11. ASSUME IdleDown PROVE IInv'
  <2>1. QueueTypes'
    BY <1>11 DEF IdleDown, LockDown, QueueTypes, CallTypes, IdleTypes, queues,
       procs, idle, history
  <2>2. CallTypes' /\ CallInv'
    BY <1>11 DEF IdleDown, LockDown, CallTypes, CallInv, queues, procs, idle,
       history
  <2>3. IdleTypes'
    BY <1>11 DEF IdleDown, LockDown, IdleTypes, queues, procs, idle, history
  <2>4. RegsInv' /\ LoopInv'
    BY <1>11 DEF IdleDown, LockDown, QueueTypes, IdleTypes, RegsInv, LoopInv,
       queues, procs, idle, history
  <2>5. HistoryTypes'
    BY <1>11 DEF IdleDown, LockDown, HistoryTypes, IdleTypes, RegsInv, queues,
       procs, idle, history
  <2>6. LockInv'
    <3>1. lock[cur] = 1 /\ lock'[cur] = 0
      BY <1>11 DEF IdleDown, LockDown, QueueTypes, IdleTypes
    <3>2. \A i \in Irqs : i # cur => lock'[i] = lock[i]
      BY <1>11 DEF IdleDown, LockDown, QueueTypes
    <3>3. \A q \in Procs, i \in Irqs : CallHolds(q, i)' <=> CallHolds(q, i)
      BY <1>11 DEF IdleDown, CallHolds, procs
    <3>4. \A i \in Irqs : IdleHolds(i)' <=> i = cur
      BY <1>11 DEF IdleDown, IdleHolds
    <3> QED
      BY <3>1, <3>2, <3>3, <3>4 DEF LockInv, IdleTypes
  <2> QED
    BY <2>1, <2>2, <2>3, <2>4, <2>5, <2>6
<1>12. ASSUME IdleTake PROVE IInv'
  <2>1. QueueTypes'
    <3>1. CASE part = "nodata"
      BY <1>12, <3>1 DEF IdleTake, CountDown, QueueTypes, IdleTypes
    <3>2. CASE part = "data" /\ data_list[cur] # <<>>
      <4>1. data_list[cur] \in Seq(Items) /\ Tail(data_list[cur]) \in Seq(Items)
        BY <3>2 DEF QueueTypes, IdleTypes
      <4> QED
        BY <1>12, <3>2, <4>1 DEF IdleTake, CountDown, QueueTypes, IdleTypes
    <3>3. CASE part = "data" /\ data_list[cur] = <<>>
      BY <1>12, <3>3 DEF IdleTake, CountDown, QueueTypes, IdleTypes, queues
    <3> QED
      BY <3>1, <3>2, <3>3 DEF IdleTypes
  <2>2. CallTypes' /\ CallInv'
    BY <1>12 DEF IdleTake, CountDown, CallTypes, CallInv, queues, procs, idle,
       history
  <2>3. IdleTypes'
    <3>1. data_list[cur] # <<>> => Head(data_list[cur]) \in Items
      BY DEF QueueTypes, IdleTypes
    <3>2. regs' \in Items \cup {NoItem}
      BY <1>12, <3>1 DEF IdleTake, CountDown, IdleTypes
    <3>3. got' \in BOOLEAN
      <4>1. (no_data_count[cur] > 0) \in BOOLEAN
        OBVIOUS
      <4> QED
        BY <1>12, <4>1, Zenon DEF IdleTake
    <3> QED
      BY <1>12, <3>2, <3>3 DEF IdleTake, CountDown, IdleTypes
  <2>4. RegsInv' /\ LoopInv'
    BY <1>12 DEF IdleTake, CountDown, QueueTypes, IdleTypes, RegsInv, LoopInv,
       queues, procs, idle, history
  <2>5. HistoryTypes'
    BY <1>12 DEF IdleTake, CountDown, HistoryTypes, IdleTypes, RegsInv, queues,
       procs, idle, history
  <2>6. LockInv'
    BY <1>12 DEF IdleTake, CountDown, QueueTypes, CallTypes, IdleTypes, LockInv,
       CallHolds, IdleHolds, queues, procs, idle, history
  <2> QED
    BY <2>1, <2>2, <2>3, <2>4, <2>5, <2>6
<1>13. ASSUME IdleUp PROVE IInv'
  <2>1. QueueTypes'
    <3>1. lock[cur] = 0
      BY <1>13 DEF IdleUp, LastIrq, QueueTypes, IdleTypes, LockInv, IdleHolds
    <3> QED
      BY <1>13, <3>1 DEF IdleUp, LastIrq, LockUp, SemUp, QueueTypes, IdleTypes,
         queues
  <2>2. CallTypes' /\ CallInv'
    BY <1>13 DEF IdleUp, LastIrq, LockUp, SemUp, CallTypes, CallInv, queues,
       procs, idle, history
  <2>3. IdleTypes'
    BY <1>13 DEF IdleUp, LastIrq, LockUp, SemUp, IdleTypes, queues, procs, idle,
       history
  <2>4. RegsInv' /\ LoopInv'
    BY <1>13 DEF IdleUp, LastIrq, LockUp, SemUp, QueueTypes, IdleTypes, RegsInv,
       LoopInv, queues, procs, idle, history
  <2>5. HistoryTypes'
    BY <1>13 DEF IdleUp, LastIrq, LockUp, SemUp, HistoryTypes, IdleTypes,
       RegsInv, queues, procs, idle, history
  <2>6. LockInv'
    BY <1>13 DEF IdleUp, LastIrq, LockUp, SemUp, QueueTypes, CallTypes,
       IdleTypes, LockInv, CallHolds, IdleHolds, queues, procs, idle, history
  <2> QED
    BY <2>1, <2>2, <2>3, <2>4, <2>5, <2>6
<1>14. ASSUME do_IRQ PROVE IInv'
  <2>1. QueueTypes'
    BY <1>14 DEF do_IRQ, QueueTypes, CallTypes, IdleTypes, queues, procs, idle,
       history
  <2>2. CallTypes' /\ CallInv'
    BY <1>14 DEF do_IRQ, CallTypes, CallInv, queues, procs, idle, history
  <2>3. IdleTypes'
    BY <1>14 DEF do_IRQ, IdleTypes, queues, procs, idle, history
  <2>4. RegsInv' /\ LoopInv'
    BY <1>14 DEF do_IRQ, QueueTypes, IdleTypes, RegsInv, LoopInv, queues, procs,
       idle, history
  <2>5. HistoryTypes'
    <3>1. handled' \in [Irqs -> Seq(Items)]
      BY <1>14 DEF do_IRQ, HistoryTypes, IdleTypes, RegsInv
    <3>2. due_count' \in [Irqs -> Nat]
      <4>1. \A n \in Nat : CountDown(n) \in Nat
        BY DEF CountDown
      <4> QED
        BY <1>14, <4>1 DEF do_IRQ, HistoryTypes
    <3> QED
      BY <1>14, <3>1, <3>2 DEF do_IRQ, HistoryTypes
  <2>6. LockInv'
    BY <1>14 DEF do_IRQ, QueueTypes, CallTypes, IdleTypes, LockInv, CallHolds,
       IdleHolds, queues, procs, idle, history
  <2> QED
    BY <2>1, <2>2, <2>3, <2>4, <2>5, <2>6
<1>15. ASSUME IdleAgain PROVE IInv'
  <2>1. QueueTypes'
    BY <1>15 DEF IdleAgain, QueueTypes, CallTypes, IdleTypes, queues, procs,
       idle, history
  <2>2. CallTypes' /\ CallInv'
    BY <1>15 DEF IdleAgain, CallTypes, CallInv, queues, procs, idle, history
  <2>3. IdleTypes'
    BY <1>15 DEF IdleAgain, IdleTypes, queues, procs, idle, history
  <2>4. RegsInv' /\ LoopInv'
    BY <1>15 DEF IdleAgain, QueueTypes, IdleTypes, RegsInv, LoopInv, queues,
       procs, idle, history
  <2>5. HistoryTypes'
    BY <1>15 DEF IdleAgain, HistoryTypes, IdleTypes, RegsInv, queues, procs,
       idle, history
  <2>6. LockInv'
    BY <1>15 DEF IdleAgain, QueueTypes, CallTypes, IdleTypes, LockInv,
       CallHolds, IdleHolds, queues, procs, idle, history
  <2> QED
    BY <2>1, <2>2, <2>3, <2>4, <2>5, <2>6
<1>16. ASSUME IdleResched PROVE IInv'
  <2>1. QueueTypes'
    BY <1>16 DEF IdleResched, MustSchedule, LoopUp, QueueTypes, CallTypes,
       IdleTypes, queues, procs, idle, history
  <2>2. CallTypes' /\ CallInv'
    BY <1>16 DEF IdleResched, MustSchedule, LoopUp, CallTypes, CallInv, queues,
       procs, idle, history
  <2>3. IdleTypes'
    <3>1. loop' \in 0 .. 1
      BY <1>16 DEF IdleResched, MustSchedule, LoopUp, IdleTypes, LoopInv
    <3> QED
      BY <1>16, <3>1 DEF IdleResched, MustSchedule, LoopUp, IdleTypes
  <2>4. RegsInv' /\ LoopInv'
    BY <1>16 DEF IdleResched, MustSchedule, LoopUp, QueueTypes, IdleTypes,
       RegsInv, LoopInv, queues, procs, idle, history
  <2>5. HistoryTypes'
    BY <1>16 DEF IdleResched, MustSchedule, LoopUp, HistoryTypes, IdleTypes,
       RegsInv, queues, procs, idle, history
  <2>6. LockInv'
    BY <1>16 DEF IdleResched, MustSchedule, LoopUp, QueueTypes, CallTypes,
       IdleTypes, LockInv, CallHolds, IdleHolds, queues, procs, idle, history
  <2> QED
    BY <2>1, <2>2, <2>3, <2>4, <2>5, <2>6
<1>17. ASSUME IdleScheduled PROVE IInv'
  <2>1. QueueTypes'
    BY <1>17 DEF IdleScheduled, QueueTypes, CallTypes, IdleTypes, queues, procs,
       idle, history
  <2>2. CallTypes' /\ CallInv'
    BY <1>17 DEF IdleScheduled, CallTypes, CallInv, queues, procs, idle, history
  <2>3. IdleTypes'
    BY <1>17 DEF IdleScheduled, IdleTypes, queues, procs, idle, history
  <2>4. RegsInv' /\ LoopInv'
    BY <1>17 DEF IdleScheduled, QueueTypes, IdleTypes, RegsInv, LoopInv, queues,
       procs, idle, history
  <2>5. HistoryTypes'
    BY <1>17 DEF IdleScheduled, HistoryTypes, IdleTypes, RegsInv, queues, procs,
       idle, history
  <2>6. LockInv'
    BY <1>17 DEF IdleScheduled, QueueTypes, CallTypes, IdleTypes, LockInv,
       CallHolds, IdleHolds, queues, procs, idle, history
  <2> QED
    BY <2>1, <2>2, <2>3, <2>4, <2>5, <2>6
<1>18. ASSUME machine_halt PROVE IInv'
  <2>1. QueueTypes'
    BY <1>18 DEF machine_halt, QueueTypes, CallTypes, IdleTypes, queues, procs,
       idle, history
  <2>2. CallTypes' /\ CallInv'
    BY <1>18 DEF machine_halt, CallTypes, CallInv, queues, procs, idle, history
  <2>3. IdleTypes'
    BY <1>18 DEF machine_halt, IdleTypes, queues, procs, idle, history
  <2>4. RegsInv' /\ LoopInv'
    BY <1>18 DEF machine_halt, QueueTypes, IdleTypes, RegsInv, LoopInv, queues,
       procs, idle, history
  <2>5. HistoryTypes'
    <3>1. \A i \in Irqs : PendingItems(i) \subseteq Items
      BY DEF QueueTypes, PendingItems
    <3> QED
      BY <1>18, <3>1 DEF machine_halt, HistoryTypes, QueueTypes
  <2>6. LockInv'
    BY <1>18 DEF machine_halt, QueueTypes, CallTypes, IdleTypes, LockInv,
       CallHolds, IdleHolds, queues, procs, idle, history
  <2> QED
    BY <2>1, <2>2, <2>3, <2>4, <2>5, <2>6
<1>19. ASSUME rcu_func PROVE IInv'
  <2>1. QueueTypes'
    BY <1>19 DEF rcu_func, QueueTypes, CallTypes, IdleTypes, queues, procs,
       idle, history
  <2>2. CallTypes' /\ CallInv'
    BY <1>19 DEF rcu_func, CallTypes, CallInv, queues, procs, idle, history
  <2>3. IdleTypes'
    BY <1>19 DEF rcu_func, IdleTypes, queues, procs, idle, history
  <2>4. RegsInv' /\ LoopInv'
    BY <1>19 DEF rcu_func, QueueTypes, IdleTypes, RegsInv, LoopInv, queues,
       procs, idle, history
  <2>5. HistoryTypes'
    BY <1>19 DEF rcu_func, HistoryTypes, IdleTypes, RegsInv, queues, procs,
       idle, history
  <2>6. LockInv'
    BY <1>19 DEF rcu_func, QueueTypes, CallTypes, IdleTypes, LockInv, CallHolds,
       IdleHolds, queues, procs, idle, history
  <2> QED
    BY <2>1, <2>2, <2>3, <2>4, <2>5, <2>6
<1>20. CASE UNCHANGED vars
  <2>1. QueueTypes'
    BY <1>20 DEF vars, QueueTypes, CallTypes, IdleTypes, queues, procs, idle,
       history
  <2>2. CallTypes' /\ CallInv'
    BY <1>20 DEF vars, CallTypes, CallInv, queues, procs, idle, history
  <2>3. IdleTypes'
    BY <1>20 DEF vars, IdleTypes, queues, procs, idle, history
  <2>4. RegsInv' /\ LoopInv'
    BY <1>20 DEF vars, QueueTypes, IdleTypes, RegsInv, LoopInv, queues, procs,
       idle, history
  <2>5. HistoryTypes'
    BY <1>20 DEF vars, HistoryTypes, IdleTypes, RegsInv, queues, procs, idle,
       history
  <2>6. LockInv'
    BY <1>20 DEF vars, QueueTypes, CallTypes, IdleTypes, LockInv, CallHolds,
       IdleHolds, queues, procs, idle, history
  <2> QED
    BY <2>1, <2>2, <2>3, <2>4, <2>5, <2>6
<1> QED
  BY <1>1, <1>2, <1>3, <1>4, <1>5, <1>6, <1>7, <1>8, <1>9, <1>10, <1>11, <1>12,
     <1>13, <1>14, <1>15, <1>16, <1>17, <1>18, <1>19, <1>20 DEF Next,
     ThreadStep, CallStep, IdleStep

(* Every reachable state satisfies the inductive invariant. *)
THEOREM Invariance == Spec => []IInv
  BY InitInv, NextInv, PTL DEF Spec

(* Type correctness of irq.c's state; in particular irqs[i].lock is 0 or 1. *)
THEOREM TypeCorrect == Spec => []TypeOK
<1>1. IInv => TypeOK
  BY DEF IInv
<1> QED
  BY <1>1, Invariance, PTL

-----------------------------------------------------------------------------
(* No interrupt is lost. *)

\* Another pass of run_irqs is certain.
WakeUp == sem > 0 \/ \E t \in Threads : Posting(t)

LEMMA NoLostStep == IInv /\ NoLostIrq /\ [Next]_vars => NoLostIrq'
<1> SUFFICES ASSUME IInv, NoLostIrq, [Next]_vars,
                    NEW i \in Irqs, NEW w \in {"nodata", "data"},
                    Clean(i, w)', ~Empty(i, w)'
             PROVE  WakeUp'
  BY DEF NoLostIrq, WakeUp
<1> USE DEF IInv, TypeOK
<1>0. Clean(i, w) /\ ~Empty(i, w) => WakeUp
  BY DEF NoLostIrq, WakeUp
<1>1. ASSUME NEW t \in Threads, AllocItem(t) PROVE WakeUp'
  BY <1>0, <1>1 DEF AllocItem, Goto, Return, NoCall, QueueTypes, CallTypes,
     IdleTypes, WakeUp, Posting, Clean, Empty, queues, procs, idle, history
<1>2. ASSUME NEW t \in Threads, NEW j \in Irqs, lkl_trigger_irq(t, j)
             PROVE WakeUp'
  BY <1>0, <1>2 DEF lkl_trigger_irq, Goto, QueueTypes, CallTypes, IdleTypes,
     WakeUp, Posting, Clean, Empty, queues, procs, idle, history
<1>3. ASSUME NEW t \in Threads, NEW j \in Irqs,
            lkl_trigger_irq_with_data(t, j) PROVE WakeUp'
  BY <1>0, <1>3 DEF lkl_trigger_irq_with_data, Goto, QueueTypes, CallTypes,
     IdleTypes, WakeUp, Posting, Clean, Empty, queues, procs, idle, history
<1>4. ASSUME NEW j \in Irqs, lkl_purge_irq_queue(j) PROVE WakeUp'
  BY <1>0, <1>4 DEF lkl_purge_irq_queue, Goto, QueueTypes, CallTypes, IdleTypes,
     WakeUp, Posting, Clean, Empty, queues, procs, idle, history
<1>5. ASSUME NEW p \in Procs, CallDown(p) PROVE WakeUp'
  BY <1>0, <1>5 DEF CallDown, Goto, LockDown, QueueTypes, CallTypes, IdleTypes,
     WakeUp, Posting, Clean, Empty, queues, procs, idle, history
<1>6. ASSUME NEW p \in Procs, CallUpdate(p) PROVE WakeUp'
  BY <1>0, <1>6 DEF CallUpdate, Goto, Enqueue, CallInv, QueueTypes, CallTypes,
     IdleTypes, WakeUp, Posting, Clean, Empty, queues, procs, idle, history
<1>7. ASSUME NEW p \in Procs, CallUp(p) PROVE WakeUp'
  BY <1>0, <1>7 DEF CallUp, Goto, Return, NoCall, LockUp, QueueTypes, CallTypes,
     IdleTypes, WakeUp, Posting, Clean, Empty, queues, procs, idle, history
<1>8. ASSUME NEW p \in Procs, CallPost(p) PROVE WakeUp'
  BY <1>0, <1>8 DEF CallPost, SemUp, QueueTypes, CallTypes, IdleTypes, WakeUp,
     Posting, Clean, Empty, queues, procs, idle, history
<1>9. ASSUME IdleTop PROVE WakeUp'
  BY <1>0, <1>9 DEF IdleTop, QueueTypes, CallTypes, IdleTypes, WakeUp, Posting,
     Clean, Empty, queues, procs, idle, history
<1>10. ASSUME IdleWait PROVE WakeUp'
  BY <1>0, <1>10 DEF IdleWait, QueueTypes, CallTypes, IdleTypes, WakeUp,
     Posting, Clean, Empty, queues, procs, idle, history
<1>11. ASSUME IdleDown PROVE WakeUp'
  BY <1>0, <1>11 DEF IdleDown, LockDown, QueueTypes, CallTypes, IdleTypes,
     WakeUp, Posting, Clean, Empty, queues, procs, idle, history
<1>12. ASSUME IdleTake PROVE WakeUp'
  <2>1. WakeUp => WakeUp'
    BY <1>12 DEF IdleTake, CountDown, WakeUp, Posting, procs
  <2>2. ~(i = cur /\ part = w)
    \* got is FALSE only when the queue at hand is empty
    <3> SUFFICES ASSUME i = cur, part = w PROVE FALSE
      OBVIOUS
    <3>1. ~got'
      BY <1>12 DEF IdleTake, CountDown, Clean, IdleTypes
    <3>2. CASE part = "nodata"
      <4>1. got' = (no_data_count[cur] > 0)
        BY <1>12, <3>2 DEF IdleTake
      <4>3. ~(no_data_count[cur] > 0)
        BY <3>1, <4>1, Zenon
      <4>2. no_data_count[cur] = 0
        BY <4>3 DEF QueueTypes, IdleTypes
      <4> QED
        BY <1>12, <3>2, <4>2 DEF IdleTake, CountDown, Empty, QueueTypes,
           IdleTypes
    <3>3. CASE part = "data"
      BY <1>12, <3>1, <3>3 DEF IdleTake, CountDown, Empty, queues
    <3> QED
      BY <3>2, <3>3
  <2>3. Clean(i, w)
    BY <1>12, <2>2 DEF IdleTake, CountDown, Clean
  <2>4. ~Empty(i, w)
    BY <1>12, <2>2 DEF IdleTake, CountDown, Empty, QueueTypes, IdleTypes, queues
  <2> QED
    BY <1>0, <2>1, <2>3, <2>4
<1>13. ASSUME IdleUp PROVE WakeUp'
  <2>1. WakeUp => WakeUp'
    BY <1>13 DEF IdleUp, LastIrq, WakeUp, Posting, procs
  <2>2. ~Empty(i, w)
    BY <1>13 DEF IdleUp, LastIrq, Empty, queues
  <2>3. Clean(i, w)
    <3>1. CASE got
      BY <1>13, <3>1 DEF IdleUp, LastIrq, Clean
    <3>2. CASE ~got /\ part = "nodata"
      BY <1>13, <3>2 DEF IdleUp, LastIrq, Clean
    <3>3. CASE ~got /\ part = "data"
      BY <1>13, <3>3 DEF IdleUp, LastIrq, Clean, IdleTypes
    <3> QED
      BY <3>1, <3>2, <3>3 DEF IdleTypes
  <2> QED
    BY <1>0, <2>1, <2>2, <2>3
<1>14. ASSUME do_IRQ PROVE WakeUp'
  BY <1>0, <1>14 DEF do_IRQ, QueueTypes, CallTypes, IdleTypes, WakeUp, Posting,
     Clean, Empty, queues, procs, idle, history
<1>15. ASSUME IdleAgain PROVE WakeUp'
  BY <1>0, <1>15 DEF IdleAgain, QueueTypes, CallTypes, IdleTypes, WakeUp,
     Posting, Clean, Empty, queues, procs, idle, history
<1>16. ASSUME IdleResched PROVE WakeUp'
  BY <1>0, <1>16 DEF IdleResched, MustSchedule, LoopUp, QueueTypes, CallTypes,
     IdleTypes, WakeUp, Posting, Clean, Empty, queues, procs, idle, history
<1>17. ASSUME IdleScheduled PROVE WakeUp'
  BY <1>0, <1>17 DEF IdleScheduled, QueueTypes, CallTypes, IdleTypes, WakeUp,
     Posting, Clean, Empty, queues, procs, idle, history
<1>18. ASSUME machine_halt PROVE WakeUp'
  BY <1>0, <1>18 DEF machine_halt, QueueTypes, CallTypes, IdleTypes, WakeUp,
     Posting, Clean, Empty, queues, procs, idle, history
<1>19. ASSUME rcu_func PROVE WakeUp'
  BY <1>0, <1>19 DEF rcu_func, QueueTypes, CallTypes, IdleTypes, WakeUp,
     Posting, Clean, Empty, queues, procs, idle, history
<1>20. CASE UNCHANGED vars
  BY <1>0, <1>20 DEF vars, WakeUp, Posting, Clean, Empty, queues, procs, idle,
     history
<1> QED
  BY <1>1, <1>2, <1>3, <1>4, <1>5, <1>6, <1>7, <1>8, <1>9, <1>10, <1>11, <1>12,
     <1>13, <1>14, <1>15, <1>16, <1>17, <1>18, <1>19, <1>20 DEF Next,
     ThreadStep, CallStep, IdleStep

(* No interrupt is lost, for any number of threads and lines: run_irqs     *)
(* consumes one unit of sem and then serves all queues, and whatever is    *)
(* queued behind its back comes with a unit of sem of its own.             *)
THEOREM NothingLost == Spec => []NoLostIrq
<1>1. Init => NoLostIrq
  BY DEF Init, NoLostIrq, Empty
<1> QED
  BY <1>1, Invariance, NoLostStep, PTL DEF Spec

-----------------------------------------------------------------------------
(* The order of handling. *)

(* Of two items of one thread, the first was raised before the second.     *)
Less(a, b) == a[1] = b[1] => a[2] < b[2]

(* A sequence holds the items of each thread in the order they were        *)
(* raised.                                                                 *)
Ordered(q) == \A k, l \in DOMAIN q : k < l => Less(q[k], q[l])

(* The last call of thread t that may have queued its item: the one it is  *)
(* in counts from the update under the lock.                               *)
Sent(t) ==
    IF pc[t] \in {"alloc", "down", "update"} THEN calls[t] - 1 ELSE calls[t]

(* Every item of the set was queued by such a call.                        *)
WasSent(S) == \A e \in S : e[2] <= Sent(e[1])

(* The item of line i that dequeue_data has taken and do_IRQ not yet       *)
(* handled.                                                                *)
InHand(i) == IF got /\ part = "data" /\ cur = i THEN {regs} ELSE {}

(* Idle has something in hand only from the dequeue to its handler, a      *)
(* kernel thread purges only while idle is in schedule(), and host threads *)
(* do not purge.                                                           *)
GotInv ==
    /\ got => ipc \in {"up", "handle"}
    /\ ipc = "handle" => got
    /\ got /\ part = "data" => regs \in Items
    /\ pc[Kern] # "out" => ipc = "sched"
    /\ \A t \in Threads : pc[t] # "out" => req[t].op # "purge"

(* Line i: what was handled comes before what is in hand, and that before  *)
(* what is queued; nothing is there that was not raised, so what a thread  *)
(* raises next comes behind.                                               *)
OrderOf(i) ==
    /\ Ordered(handled[i]) /\ Ordered(data_list[i])
    /\ \A a \in Range(handled[i]) :
          \A b \in InHand(i) \cup Range(data_list[i]) : Less(a, b)
    /\ \A a \in InHand(i) : \A b \in Range(data_list[i]) : Less(a, b)
    /\ WasSent(Range(handled[i]) \cup InHand(i) \cup Range(data_list[i]))

(* It holds of every line.                                                 *)
OrderInv == \A i \in Irqs : OrderOf(i)

(* What dequeue_data takes comes before what it leaves.                    *)
LEMMA OrderedTail ==
    ASSUME NEW q \in Seq(Items), q # <<>>, Ordered(q)
    PROVE  Ordered(Tail(q)) /\ \A b \in Range(Tail(q)) : Less(Head(q), b)
<1>1. /\ 1 \in DOMAIN q /\ Head(q) = q[1]
      /\ \A k \in DOMAIN Tail(q) :
            k \in Nat \ {0} /\ k + 1 \in DOMAIN q /\ Tail(q)[k] = q[k + 1]
  BY TailIndex
<1>2. Ordered(Tail(q))
  BY <1>1 DEF Ordered
<1>3. \A k \in DOMAIN Tail(q) : Less(Head(q), Tail(q)[k])
  BY <1>1 DEF Ordered
<1> QED
  BY <1>2, <1>3 DEF Range

(* list_add_tail of an item raised after those of the list keeps the       *)
(* order.                                                                  *)
LEMMA OrderedAppend ==
    ASSUME NEW q \in Seq(Items), NEW x \in Items, Ordered(q),
           \A a \in Range(q) : Less(a, x)
    PROVE  Ordered(Append(q, x))
<1>1. /\ \A k \in DOMAIN q : k \in Nat /\ k <= Len(q) /\ Append(q, x)[k] = q[k]
      /\ \A k \in DOMAIN Append(q, x) :
            k \in DOMAIN q \/ (k = Len(q) + 1 /\ Append(q, x)[k] = x)
      /\ Len(q) \in Nat
  BY AppendIndex
<1>2. \A k \in DOMAIN q : Less(q[k], x)
  BY DEF Range
<1> QED
  BY <1>1, <1>2 DEF Ordered

(* Every step preserves GotInv.                                            *)
LEMMA GotStep == IInv /\ GotInv /\ [Next]_vars => GotInv'
<1> SUFFICES ASSUME IInv, GotInv, [Next]_vars PROVE GotInv'
  OBVIOUS
<1> USE DEF IInv, TypeOK, GotInv
<1>1. ASSUME NEW t \in Threads, NEW i \in Irqs,
             lkl_trigger_irq(t, i) \/ lkl_trigger_irq_with_data(t, i)
      PROVE  GotInv'
  BY <1>1 DEF lkl_trigger_irq, lkl_trigger_irq_with_data, Goto, idle, CallTypes
<1>2. ASSUME NEW t \in Threads, AllocItem(t) PROVE GotInv'
  BY <1>2 DEF AllocItem, Return, Goto, idle, CallTypes
<1>3. ASSUME NEW i \in Irqs, lkl_purge_irq_queue(i) PROVE GotInv'
  BY <1>3 DEF lkl_purge_irq_queue, Goto, idle, CallTypes
<1>4. ASSUME NEW p \in Procs, CallStep(p) PROVE GotInv'
  BY <1>4 DEF CallStep, CallDown, CallUpdate, CallUp, CallPost, Return, Goto,
     idle, CallTypes
<1>5. CASE IdleTake
  <2>1. part = "data" /\ data_list[cur] # <<>> => Head(data_list[cur]) \in Items
    BY DEF QueueTypes, IdleTypes
  <2> QED
    BY <1>5, <2>1 DEF IdleTake, procs
<1>6. CASE IdleTop \/ IdleWait \/ IdleDown \/ IdleAgain \/ IdleResched
           \/ IdleScheduled
  BY <1>6 DEF IdleTop, IdleWait, IdleDown, IdleAgain, IdleResched,
     IdleScheduled, procs
<1>7. CASE IdleUp \/ do_IRQ
  <2>1. CASE IdleUp
    <3>1. /\ UNCHANGED <<got, regs, pc, req>>
          /\ got => ipc' = "handle" /\ UNCHANGED part
      BY <2>1 DEF IdleUp, procs
    <3>2. ~got => ipc' # "handle"
      BY <2>1 DEF IdleUp
    <3> QED
      BY <2>1, <3>1, <3>2 DEF IdleUp
  <2>2. CASE do_IRQ
    <3>1. ~got' /\ ipc' = "down" /\ UNCHANGED <<pc, req>>
      BY <2>2 DEF do_IRQ, procs
    <3> QED
      BY <2>2, <3>1 DEF do_IRQ
  <2> QED
    BY <1>7, <2>1, <2>2
<1>8. CASE machine_halt \/ rcu_func \/ UNCHANGED vars
  BY <1>8 DEF machine_halt, rcu_func, vars, procs, idle
<1> QED
  BY <1>1, <1>2, <1>3, <1>4, <1>5, <1>6, <1>7, <1>8 DEF Next, ThreadStep,
     IdleStep, Procs

(* The calls of a thread that may have queued their item only grow.        *)
LEMMA SentGrows ==
    IInv /\ [Next]_vars =>
        \A t \in Threads :
            Sent(t) \in Int /\ Sent(t)' \in Int /\ Sent(t) <= Sent(t)'
<1> SUFFICES ASSUME IInv, [Next]_vars, NEW t \in Threads
             PROVE  Sent(t) \in Int /\ Sent(t)' \in Int /\ Sent(t) <= Sent(t)'
  OBVIOUS
<1>1. /\ calls[t] \in Nat
      /\ pc \in [Procs -> {"out", "alloc", "down", "update", "up", "post"}]
      /\ calls \in [Threads -> 0 .. MaxCalls]
  BY DEF IInv, TypeOK, CallTypes
<1>2. CASE UNCHANGED <<pc, calls>>
  BY <1>1, <1>2 DEF Sent
<1>3. ASSUME NEW u \in Threads, NEW i \in Irqs,
             lkl_trigger_irq(u, i) \/ lkl_trigger_irq_with_data(u, i)
      PROVE  Sent(t)' \in Int /\ Sent(t) <= Sent(t)'
  <2>1. /\ pc[u] = "out" /\ calls' = [calls EXCEPT ![u] = @ + 1]
        /\ \E l \in {"down", "alloc"} : pc' = [pc EXCEPT ![u] = l]
    BY <1>3 DEF lkl_trigger_irq, lkl_trigger_irq_with_data, Goto
  <2> QED
    BY <1>1, <2>1 DEF Sent
<1>4. ASSUME NEW u \in Procs, AllocItem(u) \/ CallStep(u)
      PROVE  Sent(t)' \in Int /\ Sent(t) <= Sent(t)'
  <2>1. /\ calls' = calls
        /\ \/ /\ pc[u] = "alloc"
              /\ \E l \in {"down", "out"} : pc' = [pc EXCEPT ![u] = l]
           \/ pc[u] = "down" /\ pc' = [pc EXCEPT ![u] = "update"]
           \/ pc[u] = "update" /\ pc' = [pc EXCEPT ![u] = "up"]
           \/ /\ pc[u] \in {"up", "post"}
              /\ \E l \in {"post", "out"} : pc' = [pc EXCEPT ![u] = l]
    BY <1>4 DEF AllocItem, CallStep, CallDown, CallUpdate, CallUp, CallPost,
       Return, Goto
  <2> QED
    BY <1>1, <2>1 DEF Sent
<1>5. ASSUME NEW i \in Irqs, lkl_purge_irq_queue(i)
      PROVE  Sent(t)' \in Int /\ Sent(t) <= Sent(t)'
  <2>1. calls' = calls /\ t # Kern /\ pc' = [pc EXCEPT ![Kern] = "down"]
    BY <1>5 DEF lkl_purge_irq_queue, Goto
  <2> QED
    BY <1>1, <2>1 DEF Sent
<1>6. CASE IdleStep \/ machine_halt \/ rcu_func \/ UNCHANGED vars
  BY <1>2, <1>6 DEF IdleStep, IdleTop, IdleWait, IdleDown, IdleTake, IdleUp,
     do_IRQ, IdleAgain, IdleResched, IdleScheduled, machine_halt, rcu_func,
     vars, procs
<1>7. Sent(t) \in Int
  BY <1>1 DEF Sent
<1> QED
  BY <1>3, <1>4, <1>5, <1>6, <1>7 DEF Next, ThreadStep, Procs

(* So what was raised stays raised.                                        *)
LEMMA SentKept ==
    ASSUME IInv, [Next]_vars, NEW S \in SUBSET Items, WasSent(S)
    PROVE  WasSent(S)'
<1>1. \A e \in S : e[1] \in Threads /\ e[2] \in Nat
  BY DEF Items
<1> QED
  BY <1>1, SentGrows DEF WasSent

(* Every step preserves OrderInv.  The update of a call puts its item      *)
(* behind those of the earlier calls of the thread, and dequeue_data and   *)
(* do_IRQ move the first one on; nothing else touches the items.           *)
LEMMA OrderStep == IInv /\ GotInv /\ OrderInv /\ [Next]_vars => OrderInv'
<1> SUFFICES ASSUME IInv, GotInv, OrderInv, [Next]_vars, NEW i \in Irqs
             PROVE  OrderOf(i)'
  BY DEF OrderInv
<1>0. /\ OrderOf(i) /\ cur \in Irqs
      /\ handled[i] \in Seq(Items) /\ data_list[i] \in Seq(Items)
      /\ InHand(i) \subseteq Items
      /\ Range(handled[i]) \subseteq Items
         /\ Range(data_list[i]) \subseteq Items
  <2>1. /\ handled[i] \in Seq(Items) /\ data_list[i] \in Seq(Items)
           /\ cur \in Irqs
    BY DEF IInv, TypeOK, QueueTypes, HistoryTypes, IdleTypes
  <2>2. InHand(i) \subseteq Items
    BY DEF InHand, GotInv
  <2> QED
    BY <2>1, <2>2, SeqTypes DEF OrderInv
<1> DEFINE All == Range(handled[i]) \cup InHand(i) \cup Range(data_list[i])
<1>1. ASSUME NEW x \in Items, All' \subseteq All \cup {x}, x[2] <= Sent(x[1])'
      PROVE  WasSent(All)'
  <2>1. PICK S \in SUBSET Items : S = All
    BY <1>0
  <2>2. WasSent(S)'
    BY <1>0, <2>1, SentKept DEF OrderOf
  <2> HIDE DEF All
  <2> QED
    BY <1>1, <2>1, <2>2 DEF WasSent
<1>2. ASSUME All' \subseteq All PROVE WasSent(All)'
  <2>1. PICK S \in SUBSET Items : S = All
    BY <1>0
  <2>2. WasSent(S)'
    BY <1>0, <2>1, SentKept DEF OrderOf
  <2> HIDE DEF All
  <2> QED
    BY <1>2, <2>1, <2>2 DEF WasSent
<1>3. ASSUME UNCHANGED <<handled[i], data_list[i], InHand(i)>> PROVE OrderOf(i)'
  BY <1>0, <1>2, <1>3 DEF OrderOf
<1>4. ASSUME NEW p \in Procs, CallUpdate(p) PROVE OrderOf(i)'
  <2>1. UNCHANGED <<handled[i], InHand(i)>>
    BY <1>4 DEF CallUpdate, history, idle, InHand
  <2>2. CASE UNCHANGED data_list[i]
    BY <1>3, <2>1, <2>2
  <2>3. CASE data_list'[i] = <<>>
    <3>1. Range(data_list[i])' = {} /\ Ordered(data_list[i])'
      BY <2>3, EmptyRange DEF Ordered
    <3> QED
      BY <1>0, <1>2, <2>1, <3>1 DEF OrderOf
  <2>4. CASE req[p].op = "data"
             /\ data_list'[i] = Append(data_list[i], ItemOf(p))
    <3>1. /\ p \in Threads /\ calls[p] \in 1 .. MaxCalls /\ pc[p] = "update"
          /\ calls' = calls /\ pc'[p] = "up"
      BY <1>4, <2>4 DEF CallUpdate, Goto, IInv, TypeOK, CallTypes, CallInv
    <3>2. PICK x \in Items : x = <<p, calls[p]>>
      BY <3>1 DEF Items
    <3>3. /\ data_list'[i] = Append(data_list[i], x)
          /\ Range(data_list[i])' = Range(data_list[i]) \cup {x}
      <4>1. data_list'[i] = Append(data_list[i], x)
        BY <2>4, <3>2 DEF ItemOf
      <4> QED
        BY <1>0, <4>1, AppendRange
    <3>4. Sent(p) = calls[p] - 1 /\ Sent(p)' = calls[p]
      BY <3>1 DEF Sent
    <3>5. \A a \in All : Less(a, x)
      <4>1. \A a \in All : a[2] <= Sent(a[1]) /\ a[2] \in Nat
        BY <1>0 DEF OrderOf, WasSent, Items
      <4> HIDE DEF All
      <4> QED
        BY <3>1, <3>2, <3>4, <4>1 DEF Less
    <3>6. WasSent(All)'
      <4>1. All' \subseteq All \cup {x}
        BY <2>1, <3>3
      <4>2. x[1] = p /\ x[2] = calls[p] /\ calls[p] \in Nat
        BY <3>1, <3>2
      <4>3. x[2] <= Sent(x[1])'
        BY <3>4, <4>2
      <4> HIDE DEF All
      <4> QED
        BY <1>1, <4>1, <4>3
    <3>7. Ordered(data_list[i])'
      BY <1>0, <3>3, <3>5, OrderedAppend DEF OrderOf
    <3> QED
      BY <1>0, <2>1, <3>3, <3>5, <3>6, <3>7 DEF OrderOf
  <2>5. \/ UNCHANGED data_list
        \/ \E j \in Irqs : data_list' = [data_list EXCEPT ![j] = <<>>]
        \/ /\ req[p].op = "data"
           /\ \E j \in Irqs :
                 data_list' = [data_list EXCEPT ![j] = Append(@, ItemOf(p))]
    BY <1>4 DEF CallUpdate, Enqueue, IInv, TypeOK, CallTypes
  <2> QED
    BY <2>2, <2>3, <2>4, <2>5 DEF IInv, TypeOK, QueueTypes
<1>5. CASE IdleTake
  <2>1. UNCHANGED <<handled[i], cur, part>> /\ InHand(i) = {}
    BY <1>5 DEF IdleTake, history, InHand, GotInv
  <2>2. CASE part = "data" /\ cur = i /\ data_list[i] # <<>>
    <3>1. data_list'[i] = Tail(data_list[i])
          /\ InHand(i)' = {Head(data_list[i])}
      BY <1>5, <2>2 DEF IdleTake, InHand, IInv, TypeOK, QueueTypes
    <3>2. PICK h \in Items : h = Head(data_list[i])
      BY <1>0, <2>2, TailRange
    <3>3. /\ Range(data_list[i]) = Range(data_list[i])' \cup {h}
          /\ Ordered(data_list[i])' /\ \A b \in Range(data_list[i])' :
               Less(h, b)
      BY <1>0, <2>2, <3>1, <3>2, TailRange, OrderedTail DEF OrderOf
    <3> QED
      BY <1>0, <1>2, <2>1, <3>1, <3>2, <3>3 DEF OrderOf
  <2>3. CASE ~(part = "data" /\ cur = i /\ data_list[i] # <<>>)
    <3>1. UNCHANGED data_list[i] /\ InHand(i)' = {}
      BY <1>5, <2>3 DEF IdleTake, queues, InHand, IInv, TypeOK, QueueTypes
    <3> QED
      BY <1>3, <2>1, <3>1
  <2> QED
    BY <2>2, <2>3
<1>6. CASE do_IRQ
  <2>1. UNCHANGED data_list[i] /\ InHand(i)' = {}
    BY <1>6 DEF do_IRQ, queues, InHand
  <2>2. CASE part = "data" /\ cur = i
    <3>1. PICK r \in Items : r = regs
      BY <1>6, <2>2 DEF do_IRQ, GotInv
    <3>2. InHand(i) = {r} /\ handled'[i] = Append(handled[i], r)
      BY <1>6, <2>2, <3>1 DEF do_IRQ, GotInv, InHand, IInv, TypeOK, HistoryTypes
    <3>3. Range(handled[i])' = Range(handled[i]) \cup {r}
          /\ Ordered(handled[i])'
      BY <1>0, <3>2, AppendRange, OrderedAppend DEF OrderOf
    <3> QED
      BY <1>0, <1>2, <2>1, <3>2, <3>3 DEF OrderOf
  <2>3. CASE ~(part = "data" /\ cur = i)
    <3>1. UNCHANGED handled[i] /\ InHand(i) = {}
      BY <1>6, <2>3 DEF do_IRQ, InHand, IInv, TypeOK, HistoryTypes
    <3> QED
      BY <1>3, <2>1, <3>1
  <2> QED
    BY <2>2, <2>3
<1>7. CASE IdleUp \/ IdleWait
  <2>1. UNCHANGED <<handled[i], data_list[i], got, regs>>
    BY <1>7 DEF IdleUp, IdleWait, queues, history
  <2>2. got => UNCHANGED <<cur, part>>
    BY <1>7 DEF IdleUp, IdleWait, GotInv
  <2> QED
    BY <1>3, <2>1, <2>2 DEF InHand
<1>8. ASSUME UNCHANGED <<handled, data_list, got, part, cur, regs>>
             PROVE OrderOf(i)'
  BY <1>3, <1>8 DEF InHand
<1>9. ASSUME NEW t \in Threads, NEW j \in Irqs,
             lkl_trigger_irq(t, j) \/ lkl_trigger_irq_with_data(t, j)
      PROVE  OrderOf(i)'
  BY <1>8, <1>9 DEF lkl_trigger_irq, lkl_trigger_irq_with_data, queues, idle,
     history
<1>10. ASSUME NEW p \in Procs, AllocItem(p) \/ CallDown(p) \/ CallUp(p)
              \/ CallPost(p)
       PROVE  OrderOf(i)'
  BY <1>8, <1>10 DEF AllocItem, CallDown, CallUp, CallPost, queues, idle,
     history
<1>11. CASE \/ IdleTop \/ IdleDown \/ IdleAgain \/ IdleResched \/ IdleScheduled
            \/ machine_halt \/ rcu_func \/ UNCHANGED vars
  BY <1>8, <1>11 DEF IdleTop, IdleDown, IdleAgain, IdleResched, IdleScheduled,
     machine_halt, rcu_func, vars, queues, idle, history
<1>12. ASSUME NEW j \in Irqs, lkl_purge_irq_queue(j) PROVE OrderOf(i)'
  BY <1>8, <1>12 DEF lkl_purge_irq_queue, queues, idle, history
<1> QED
  BY <1>4, <1>5, <1>6, <1>7, <1>9, <1>10, <1>11, <1>12 DEF Next, ThreadStep,
     CallStep, IdleStep, Procs

-----------------------------------------------------------------------------
(* The exit of cpu_idle. *)

(* The pass of run_irqs that follows the halt has emptied the data queue   *)
(* of line i, or cpu_idle has gone on from that pass.                      *)
Passed(i) ==
    \/ ipc \in {"down", "take", "up", "handle"} /\ i < cur
    \/ ipc = "up" /\ part = "data" /\ ~got /\ i = cur
    \/ ipc \in {"again", "resched", "exited"}
    \/ ipc = "top" /\ loop = 0

(* What was pending at the halt has left the lines that are passed, since  *)
(* what is queued later is not among it, and cpu_idle leaves its loop only *)
(* with the RCU callback done and no thread to run.                        *)
ExitInv ==
    /\ WasSent(due) /\ (~linux_halted => due = {})
    /\ \A i \in Irqs : Passed(i) => due \cap Range(data_list[i]) = {}
    /\ ipc = "exited" \/ (ipc = "top" /\ loop = 0) => rcu_done /\ ~need_resched

(* The same of the interrupts without data: the pass that follows the halt *)
(* has counted those of line i down to 0.                                  *)
Counted(i) ==
    \/ Passed(i)
    \/ ipc \in {"down", "take", "up", "handle"} /\ i = cur /\ part = "data"
    \/ ipc = "up" /\ part = "nodata" /\ ~got /\ i = cur

(* Those pending at the halt are among those that are counted or in hand,  *)
(* and none is left on a line that is counted down.                        *)
DueInv ==
    \A i \in Irqs : /\ due_count[i] <= AbsCount[i]
                    /\ Counted(i) => due_count[i] = 0

(* Every step preserves DueInv: an interrupt without data is dropped from  *)
(* due_count by its handler or a purge, and from the counter before that.  *)
LEMMA DueStep == IInv /\ GotInv /\ DueInv /\ [Next]_vars => DueInv'
<1> SUFFICES ASSUME IInv, GotInv, DueInv, [Next]_vars PROVE DueInv'
  OBVIOUS
<1>0. /\ cur \in Irqs /\ no_data_count \in [Irqs -> Nat]
      /\ due_count \in [Irqs -> Nat] /\ part \in {"nodata", "data"}
      /\ Irqs \subseteq Nat
  BY DEF IInv, TypeOK, QueueTypes, IdleTypes, HistoryTypes, Irqs
<1>01. /\ \A n \in Nat : CountDown(n) = IF n = 0 THEN 0 ELSE n - 1
       /\ \A i \in Irqs : /\ no_data_count[i] \in Nat /\ due_count[i] \in Nat
                          /\ due_count[i] <= AbsCount[i]
                          /\ Counted(i) => due_count[i] = 0
  BY <1>0 DEF CountDown, DueInv
<1>1. ASSUME UNCHANGED <<due_count, AbsCount>>,
             \A i \in Irqs : Counted(i)' => Counted(i)
      PROVE  DueInv'
  BY <1>1 DEF DueInv
<1>2. ASSUME UNCHANGED <<due_count, no_data_count, idle>> PROVE DueInv'
  BY <1>1, <1>2 DEF idle, Counted, Passed, AbsCount
<1>3. ASSUME NEW t \in Threads, NEW j \in Irqs,
             lkl_trigger_irq(t, j) \/ lkl_trigger_irq_with_data(t, j)
      PROVE  DueInv'
  BY <1>2, <1>3 DEF lkl_trigger_irq, lkl_trigger_irq_with_data, queues, history
<1>4. ASSUME NEW p \in Procs, AllocItem(p) \/ CallDown(p) \/ CallUp(p)
             \/ CallPost(p)
      PROVE  DueInv'
  BY <1>2, <1>4 DEF AllocItem, CallDown, CallUp, CallPost, queues, history
<1>5. ASSUME NEW j \in Irqs, lkl_purge_irq_queue(j) PROVE DueInv'
  BY <1>2, <1>5 DEF lkl_purge_irq_queue, queues, history
<1>6. ASSUME NEW p \in Procs, CallUpdate(p) PROVE DueInv'
  <2> PICK j \in Irqs : j = req[p].irq
    BY DEF IInv, TypeOK, CallTypes
  <2>1. UNCHANGED idle
    BY <1>6 DEF CallUpdate
  <2>2. \A i \in Irqs : Counted(i)' <=> Counted(i)
    BY <2>1 DEF idle, Counted, Passed
  <2>3. \/ UNCHANGED <<due_count, no_data_count>>
        \/ /\ UNCHANGED due_count
           /\ no_data_count' = [no_data_count EXCEPT ![j] = @ + 1]
        \/ /\ due_count' = [due_count EXCEPT ![j] = 0]
           /\ no_data_count' = [no_data_count EXCEPT ![j] = 0]
    BY <1>6 DEF CallUpdate
  <2>4. \A i \in Irqs :
           /\ due_count'[i] \in {0, due_count[i]} /\ no_data_count'[i] \in Nat
           /\ \/ due_count'[i] = 0
              \/ no_data_count'[i] >= no_data_count[i]
    <3>1. CASE UNCHANGED <<due_count, no_data_count>>
      BY <1>01, <3>1
    <3>2. CASE /\ UNCHANGED due_count
               /\ no_data_count' = [no_data_count EXCEPT ![j] = @ + 1]
      <4>1. \A i \in Irqs : no_data_count'[i] = IF i = j
                                                THEN no_data_count[i] + 1
                                                ELSE no_data_count[i]
        BY <1>0, <3>2
      <4> QED
        BY <1>01, <3>2, <4>1
    <3>3. CASE /\ due_count' = [due_count EXCEPT ![j] = 0]
               /\ no_data_count' = [no_data_count EXCEPT ![j] = 0]
      BY <1>0, <1>01, <3>3
    <3> QED
      BY <2>3, <3>1, <3>2, <3>3
  <2>5. \A i \in Irqs : due_count'[i] <= AbsCount'[i]
    <3> SUFFICES ASSUME NEW i \in Irqs PROVE due_count'[i] <= AbsCount'[i]
      OBVIOUS
    <3> DEFINE x == IF got /\ part = "nodata" /\ cur = i THEN 1 ELSE 0
    <3>1. /\ AbsCount[i] = no_data_count[i] + x
          /\ AbsCount'[i] = no_data_count'[i] + x /\ x \in Nat
      BY <2>1 DEF AbsCount, idle
    <3> HIDE DEF x
    <3> QED
      BY <1>01, <2>4, <3>1
  <2>6. \A i \in Irqs : Counted(i)' => due_count'[i] = 0
    BY <1>01, <2>2, <2>4
  <2> QED
    BY <2>5, <2>6 DEF DueInv
<1>7. CASE IdleTake
  <2>1. /\ UNCHANGED <<due_count, cur, part, loop>> /\ ipc' = "up"
        /\ ipc = "take" /\ ~got
    BY <1>7 DEF IdleTake, history, GotInv
  <2>2. CASE part = "nodata"
    <3>1. /\ got' = (no_data_count[cur] > 0)
          /\ no_data_count' = [no_data_count EXCEPT ![cur] = CountDown(@)]
      BY <1>7, <2>2 DEF IdleTake
    <3> DEFINE x == IF no_data_count[cur] > 0 THEN 1 ELSE 0
    <3>0. no_data_count'[cur] = no_data_count[cur] - x /\ x \in {0, 1}
      BY <1>0, <1>01, <3>1
    <3>2. ASSUME NEW i \in Irqs PROVE AbsCount'[i] = AbsCount[i]
      <4>1. CASE i = cur
        <5>1. AbsCount[i] = no_data_count[cur] + 0
          BY <2>1, <4>1 DEF AbsCount
        <5>2. AbsCount'[i] = no_data_count'[cur] + x
          BY <2>1, <2>2, <3>1, <4>1 DEF AbsCount
        <5> QED
          BY <1>0, <1>01, <3>0, <5>1, <5>2
      <4>2. CASE i # cur
        BY <1>0, <2>1, <3>1, <4>2 DEF AbsCount
      <4> QED
        BY <4>1, <4>2
    <3>3. ~got' => AbsCount[cur] = 0
      <4>1. AbsCount[cur] = no_data_count[cur] + 0
        BY <1>0, <2>1 DEF AbsCount
      <4>2. got' \/ ~(no_data_count[cur] > 0)
        BY <3>1, Zenon
      <4> QED
        BY <1>0, <1>01, <4>1, <4>2
    <3>4. \A i \in Irqs : Counted(i)' => Counted(i) \/ (i = cur /\ ~got')
      BY <2>1, <2>2 DEF Counted, Passed
    <3>5. \A i \in Irqs : Counted(i)' => due_count[i] = 0
      BY <1>0, <1>01, <3>3, <3>4
    <3> QED
      BY <2>1, <3>2, <3>5 DEF DueInv
  <2>3. CASE part = "data"
    <3>1. UNCHANGED no_data_count
      BY <1>7, <2>3 DEF IdleTake, queues
    <3>2. \A i \in Irqs : AbsCount'[i] = AbsCount[i]
      BY <2>1, <2>3, <3>1 DEF AbsCount
    <3>3. \A i \in Irqs : Counted(i)' => Counted(i)
      BY <2>1, <2>3 DEF Counted, Passed
    <3> QED
      BY <2>1, <3>2, <3>3 DEF DueInv
  <2> QED
    BY <1>0, <2>2, <2>3
<1>8. CASE IdleUp
  <2>1. UNCHANGED <<due_count, no_data_count, got, loop>> /\ ipc = "up"
    BY <1>8 DEF IdleUp, history, queues
  <2>2. got => UNCHANGED <<cur, part>>
    BY <1>8 DEF IdleUp
  <2>3. \A i \in Irqs : AbsCount'[i] = AbsCount[i]
    BY <2>1, <2>2 DEF AbsCount
  <2>4. \A i \in Irqs : Counted(i)' => Counted(i)
    BY <1>0, <1>8 DEF IdleUp, Counted, Passed, LastIrq, Irqs
  <2> QED
    BY <2>1, <2>3, <2>4 DEF DueInv
<1>9. CASE do_IRQ
  <2>1. /\ UNCHANGED <<no_data_count, cur, part, loop>> /\ ipc = "handle"
        /\ got /\ ~got' /\ ipc' = "down"
    BY <1>9 DEF do_IRQ, queues, GotInv
  <2>2. \A i \in Irqs : Counted(i)' => Counted(i)
    BY <2>1 DEF Counted, Passed
  <2>3. CASE part = "nodata"
    <3>1. due_count' = [due_count EXCEPT ![cur] = CountDown(@)]
      BY <1>9, <2>3 DEF do_IRQ
    <3>2. \A i \in Irqs : AbsCount'[i] = IF i = cur THEN AbsCount[i] - 1
                                                    ELSE AbsCount[i]
      BY <1>0, <2>1, <2>3 DEF AbsCount
    <3>3. \A i \in Irqs : AbsCount[i] \in Nat /\ AbsCount'[i] \in Nat
      BY <1>0, <2>1 DEF AbsCount
    <3>4. \A i \in Irqs : due_count'[i] = IF i = cur THEN CountDown(due_count[i])
                                                     ELSE due_count[i]
      BY <1>0, <3>1
    <3>5. \A i \in Irqs : due_count'[i] <= AbsCount'[i]
      BY <1>01, <3>2, <3>3, <3>4
    <3>6. \A i \in Irqs : Counted(i)' => due_count'[i] = 0
      BY <1>01, <2>2, <3>4
    <3> QED
      BY <3>5, <3>6 DEF DueInv
  <2>4. CASE part = "data"
    <3>1. UNCHANGED due_count
      BY <1>9, <2>4 DEF do_IRQ
    <3>2. \A i \in Irqs : AbsCount'[i] = AbsCount[i]
      BY <2>1, <2>4 DEF AbsCount
    <3> QED
      BY <2>2, <3>1, <3>2 DEF DueInv
  <2> QED
    BY <1>0, <2>3, <2>4
<1>10. CASE IdleWait \/ IdleDown \/ IdleTop \/ IdleAgain
  <2>1. UNCHANGED <<due_count, no_data_count, got>> /\ ~got
    BY <1>10 DEF IdleWait, IdleDown, IdleTop, IdleAgain, history, queues, GotInv
  <2>2. \A i \in Irqs : AbsCount'[i] = AbsCount[i]
    BY <2>1 DEF AbsCount
  <2>3. \A i \in Irqs : Counted(i)' => Counted(i)
    <3>1. CASE IdleWait
      BY <1>0, <3>1 DEF IdleWait, Counted, Passed, Irqs
    <3>2. CASE IdleDown
      BY <3>2 DEF IdleDown, Counted, Passed
    <3>3. CASE IdleTop
      BY <3>3 DEF IdleTop, Counted, Passed
    <3>4. CASE IdleAgain
      BY <3>4 DEF IdleAgain, Counted, Passed
    <3> QED
      BY <1>10, <3>1, <3>2, <3>3, <3>4
  <2> QED
    BY <2>1, <2>2, <2>3 DEF DueInv
<1>11. CASE IdleResched
  <2>1. UNCHANGED <<due_count, no_data_count, got, cur, part>>
    BY <1>11 DEF IdleResched, history, queues
  <2>2. \A i \in Irqs : Counted(i) /\ AbsCount'[i] = AbsCount[i]
    BY <1>11, <2>1 DEF IdleResched, Counted, Passed, AbsCount
  <2> QED
    BY <2>1, <2>2 DEF DueInv
<1>12. CASE IdleScheduled
  <2>1. UNCHANGED <<due_count, no_data_count, got, cur, part>>
        /\ loop' = 1 /\ ipc' = "top"
    BY <1>12 DEF IdleScheduled, history, queues, IInv, LoopInv
  <2>2. \A i \in Irqs : ~Counted(i)' /\ AbsCount'[i] = AbsCount[i]
    BY <2>1 DEF Counted, Passed, AbsCount
  <2> QED
    BY <2>1, <2>2 DEF DueInv
<1>13. CASE machine_halt
  <2>1. /\ due_count' = no_data_count /\ ipc' = "sched" /\ ~got'
        /\ UNCHANGED no_data_count
    BY <1>13 DEF machine_halt, idle, queues, GotInv
  <2>2. \A i \in Irqs : ~Counted(i)' /\ AbsCount'[i] = no_data_count[i]
    BY <1>0, <2>1 DEF Counted, Passed, AbsCount
  <2> QED
    BY <1>0, <2>1, <2>2 DEF DueInv
<1>14. CASE rcu_func
  BY <1>2, <1>14 DEF rcu_func, history, queues
<1>15. CASE UNCHANGED vars
  BY <1>2, <1>15 DEF vars, history, queues
<1> QED
  BY <1>3, <1>4, <1>5, <1>6, <1>7, <1>8, <1>9, <1>10, <1>11, <1>12, <1>13,
     <1>14, <1>15 DEF Next, ThreadStep, CallStep, IdleStep, Procs

(* Every step preserves ExitInv.  Only an update under the lock adds to a  *)
(* queue, and its item was not raised at the halt; idle moves on from a    *)
(* line only when it has found it empty.                                   *)
LEMMA ExitStep ==
    IInv /\ GotInv /\ OrderInv /\ ExitInv /\ [Next]_vars => ExitInv'
<1> SUFFICES ASSUME IInv, GotInv, OrderInv, ExitInv, [Next]_vars PROVE ExitInv'
  OBVIOUS
<1>0. /\ due \subseteq Items /\ cur \in Irqs
      /\ \A i \in Irqs : data_list[i] \in Seq(Items)
  BY DEF IInv, TypeOK, QueueTypes, HistoryTypes, IdleTypes
<1>1. ASSUME UNCHANGED due PROVE WasSent(due)'
  <2>1. PICK S \in SUBSET Items : S = due
    BY <1>0
  <2>2. WasSent(S)'
    BY <2>1, SentKept DEF ExitInv
  <2> QED
    BY <1>1, <2>1, <2>2
<1>2. ASSUME UNCHANGED <<due, linux_halted, rcu_done, ipc, cur, part, got,
                         loop, need_resched>>,
             \A i \in Irqs :
                due \cap Range(data_list[i])' \subseteq Range(data_list[i])
      PROVE  ExitInv'
  <2>1. \A i \in Irqs : Passed(i)' <=> Passed(i)
    BY <1>2 DEF Passed
  <2> QED
    BY <1>1, <1>2, <2>1 DEF ExitInv
<1>3. ASSUME UNCHANGED <<due, data_list, linux_halted, rcu_done, idle>>
             PROVE ExitInv'
  BY <1>2, <1>3 DEF idle
<1>4. ASSUME NEW t \in Threads, NEW j \in Irqs,
             lkl_trigger_irq(t, j) \/ lkl_trigger_irq_with_data(t, j)
      PROVE  ExitInv'
  BY <1>3, <1>4 DEF lkl_trigger_irq, lkl_trigger_irq_with_data, queues, history
<1>5. ASSUME NEW p \in Procs, AllocItem(p) \/ CallDown(p) \/ CallUp(p)
             \/ CallPost(p)
      PROVE  ExitInv'
  BY <1>3, <1>5 DEF AllocItem, CallDown, CallUp, CallPost, queues, history
<1>6. ASSUME NEW j \in Irqs, lkl_purge_irq_queue(j) PROVE ExitInv'
  BY <1>3, <1>6 DEF lkl_purge_irq_queue, queues, history
<1>7. ASSUME NEW p \in Procs, CallUpdate(p) PROVE ExitInv'
  <2>1. UNCHANGED <<due, linux_halted, rcu_done, idle>>
    BY <1>7 DEF CallUpdate, history
  <2>2. \/ UNCHANGED data_list
        \/ \E j \in Irqs : data_list' = [data_list EXCEPT ![j] = <<>>]
        \/ /\ req[p].op = "data"
           /\ \E j \in Irqs :
                 data_list' = [data_list EXCEPT ![j] = Append(@, ItemOf(p))]
    BY <1>7 DEF CallUpdate, Enqueue, IInv, TypeOK, CallTypes
  <2>3. CASE UNCHANGED data_list
    BY <1>3, <2>1, <2>3
  <2>4. ASSUME NEW j \in Irqs, data_list' = [data_list EXCEPT ![j] = <<>>]
               PROVE ExitInv'
    <3>1. \A i \in Irqs : Range(data_list[i])' \subseteq Range(data_list[i])
      BY <2>4, EmptyRange DEF IInv, TypeOK, QueueTypes
    <3> QED
      BY <1>2, <2>1, <3>1 DEF idle
  <2>5. ASSUME req[p].op = "data", NEW j \in Irqs,
               data_list' = [data_list EXCEPT ![j] = Append(@, ItemOf(p))]
        PROVE  ExitInv'
    <3>1. p \in Threads /\ calls[p] \in 1 .. MaxCalls /\ pc[p] = "update"
      BY <1>7, <2>5 DEF CallUpdate, IInv, TypeOK, CallTypes, CallInv
    <3>2. PICK x \in Items : x = <<p, calls[p]>>
      BY <3>1 DEF Items
    <3>3. x \notin due
      <4>1. x[1] = p /\ x[2] = calls[p] /\ Sent(p) = calls[p] - 1
            /\ calls[p] \in Nat
        BY <3>1, <3>2 DEF Sent
      <4> QED
        BY <4>1 DEF ExitInv, WasSent
    <3>4. \A i \in Irqs : data_list'[i] = IF i = j THEN Append(data_list[i], x)
                                                   ELSE data_list[i]
      BY <2>5, <3>2 DEF ItemOf, IInv, TypeOK, QueueTypes
    <3>5. \A i \in Irqs :
            Range(data_list'[i]) \subseteq Range(data_list[i]) \cup {x}
      BY <1>0, <3>4, AppendRange
    <3> QED
      BY <1>2, <2>1, <3>3, <3>5 DEF idle
  <2> QED
    BY <2>2, <2>3, <2>4, <2>5
<1>8. CASE IdleTake
  <2>1. /\ UNCHANGED <<due, linux_halted, rcu_done, cur, part, loop,
                       need_resched>>
        /\ ipc' = "up" /\ ipc = "take"
    BY <1>8 DEF IdleTake, history
  <2>2. \A i \in Irqs : \/ data_list'[i] = data_list[i]
                        \/ data_list[i] # <<>>
                           /\ data_list'[i] = Tail(data_list[i])
    BY <1>8 DEF IdleTake, queues, IInv, TypeOK, QueueTypes
  <2>3. \A i \in Irqs : Range(data_list'[i]) \subseteq Range(data_list[i])
    BY <1>0, <2>2, TailRange
  <2>4. part = "data" /\ ~got' => data_list'[cur] = <<>>
    BY <1>8 DEF IdleTake, queues
  <2>5. \A i \in Irqs : Passed(i)' => Passed(i) \/ Range(data_list'[i]) = {}
    BY <2>1, <2>4, EmptyRange DEF Passed
  <2> QED
    BY <1>1, <2>1, <2>3, <2>5 DEF ExitInv
<1>9. CASE IdleUp
  <2>1. UNCHANGED <<due, data_list, linux_halted, rcu_done, loop, need_resched>>
    BY <1>9 DEF IdleUp, history, queues
  <2>2. \A i \in Irqs : Passed(i)' => Passed(i)
    BY <1>0, <1>9 DEF IdleUp, Passed, LastIrq
  <2>3. ipc' # "exited" /\ ipc' # "top"
    BY <1>9 DEF IdleUp
  <2> QED
    BY <1>1, <2>1, <2>2, <2>3 DEF ExitInv
<1>10. CASE IdleWait \/ IdleDown \/ do_IRQ
  <2>1. UNCHANGED <<due, data_list, linux_halted>> /\ ipc' # "exited"
        /\ ipc' # "top"
    BY <1>10 DEF IdleWait, IdleDown, do_IRQ, history, queues
  <2>2. \A i \in Irqs : Passed(i)' => Passed(i)
    <3>1. CASE IdleWait
      BY <3>1 DEF IdleWait, Passed
    <3>2. CASE IdleDown
      BY <3>2 DEF IdleDown, Passed
    <3>3. CASE do_IRQ
      BY <3>3 DEF do_IRQ, Passed
    <3> QED
      BY <1>10, <3>1, <3>2, <3>3
  <2> QED
    BY <1>1, <2>1, <2>2 DEF ExitInv
<1>11. CASE IdleTop
  <2>1. UNCHANGED <<due, data_list, linux_halted, rcu_done, need_resched>>
    BY <1>11 DEF IdleTop, history, queues
  <2>2. \A i \in Irqs : Passed(i)' => Passed(i)
    BY <1>11 DEF IdleTop, Passed
  <2>3. ipc' # "top" /\ (ipc' = "exited" => ipc = "top" /\ loop = 0)
    BY <1>11 DEF IdleTop
  <2> QED
    BY <1>1, <2>1, <2>2, <2>3 DEF ExitInv
<1>12. CASE IdleAgain
  <2>1. UNCHANGED <<due, data_list, linux_halted, rcu_done, need_resched, loop>>
    BY <1>12 DEF IdleAgain, history, queues
  <2>2. \A i \in Irqs : Passed(i)' => Passed(i)
    BY <1>12 DEF IdleAgain, Passed
  <2>3. ipc' # "exited" /\ ipc' # "top"
    BY <1>12 DEF IdleAgain
  <2> QED
    BY <1>1, <2>1, <2>2, <2>3 DEF ExitInv
<1>13. CASE IdleResched
  <2>1. UNCHANGED <<due, data_list, linux_halted, rcu_done>>
    BY <1>13 DEF IdleResched, history, queues
  <2>2. \A i \in Irqs : Passed(i)
    BY <1>13 DEF IdleResched, Passed
  <2>3. ipc' # "exited" /\ (ipc' = "top" => rcu_done' /\ ~need_resched')
    BY <1>13 DEF IdleResched, MustSchedule
  <2> QED
    BY <1>1, <2>1, <2>2, <2>3 DEF ExitInv
<1>14. CASE IdleScheduled
  <2>1. UNCHANGED <<due, data_list, linux_halted, loop>> /\ loop = 1
        /\ ipc' = "top"
    BY <1>14 DEF IdleScheduled, history, queues, IInv, LoopInv
  <2>2. \A i \in Irqs : ~Passed(i)'
    BY <2>1 DEF Passed
  <2> QED
    BY <1>1, <2>1, <2>2 DEF ExitInv
<1>15. CASE machine_halt
  <2>1. ipc' = "sched" /\ linux_halted' /\ UNCHANGED <<pc, calls>>
    BY <1>15 DEF machine_halt, idle, procs
  <2>2. \A e \in due' : \E i \in Irqs : e \in Range(data_list[i])
    BY <1>15 DEF machine_halt, PendingItems, Range
  <2>3. WasSent(due)'
    BY <2>1, <2>2 DEF OrderInv, OrderOf, WasSent, Sent
  <2> QED
    BY <2>1, <2>3 DEF ExitInv, Passed
<1>16. CASE rcu_func
  <2>1. UNCHANGED <<due, data_list, linux_halted>> /\ ipc' = "sched"
    BY <1>16 DEF rcu_func, history, queues, idle
  <2> QED
    BY <1>1, <2>1 DEF ExitInv, Passed
<1>17. CASE UNCHANGED vars
  BY <1>3, <1>17 DEF vars, queues, history
<1> QED
  BY <1>4, <1>5, <1>6, <1>7, <1>8, <1>9, <1>10, <1>11, <1>12, <1>13, <1>14,
     <1>15, <1>16, <1>17 DEF Next, ThreadStep, CallStep, IdleStep, Procs

(* init_IRQ: nothing is raised, and nothing in hand.                       *)
LEMMA InitOrderAndExit == Init => GotInv /\ OrderInv /\ ExitInv /\ DueInv
<1> SUFFICES ASSUME Init PROVE GotInv /\ OrderInv /\ ExitInv /\ DueInv
  OBVIOUS
<1>1. GotInv
  BY DEF Init, GotInv
<1>2. ASSUME NEW i \in Irqs PROVE OrderOf(i)
  <2>1. handled[i] = <<>> /\ data_list[i] = <<>> /\ InHand(i) = {}
    BY DEF Init, InHand
  <2> QED
    BY <2>1, EmptyRange DEF OrderOf, Ordered, WasSent
<1>3. ExitInv
  BY DEF Init, ExitInv, WasSent, Passed
<1>4. DueInv
  BY DEF Init, DueInv, Counted, Passed, AbsCount
<1> QED
  BY <1>1, <1>2, <1>3, <1>4 DEF OrderInv

(* These are invariants too.                                               *)
THEOREM OrderAndExit == Spec => [](GotInv /\ OrderInv /\ ExitInv /\ DueInv)
BY InitOrderAndExit, Invariance, GotStep, OrderStep, ExitStep, DueStep,
   PTL DEF Spec

(* What one thread raises with data on one line is handled at most once    *)
(* and in the order in which it was raised, for any number of threads and  *)
(* lines.                                                                  *)
THEOREM HandledInOrder == Spec => []InOrder
<1>1. OrderInv => InOrder
  BY DEF OrderInv, OrderOf, Ordered, Less, InOrder
<1> QED
  BY <1>1, OrderAndExit, PTL

(* When cpu_idle returns, everything that was pending at the halt, with    *)
(* data or without, has been handled or purged, the RCU callback has run   *)
(* and no thread is runnable.                                              *)
THEOREM ExitsAfterPending == Spec => []ExitAfterPending
<1>1. ExitInv /\ DueInv => ExitAfterPending
  BY DEF ExitInv, DueInv, Counted, Passed, ExitAfterPending, PendingItems,
     Range
<1> QED
  BY <1>1, OrderAndExit, PTL

-----------------------------------------------------------------------------
(* Refinement of IrqQueue. *)

(* Every step is a step of IrqQueue, or leaves its view alone.  A trigger  *)
(* and a purge take effect at their update under the lock, and a handler   *)
(* at do_IRQ: dequeue_nodata and dequeue_data change nothing, as what is   *)
(* in hand still counts as queued.                                         *)
LEMMA AbsStep == IInv /\ GotInv /\ [Next]_vars => [Abs!Next]_(Abs!vars)
<1> SUFFICES ASSUME IInv, GotInv, [Next]_vars
             PROVE  Abs!Next \/ UNCHANGED Abs!vars
  OBVIOUS
<1>0. /\ cur \in Irqs /\ data_list \in [Irqs -> Seq(Items)]
      /\ no_data_count \in [Irqs -> Nat] /\ handled \in [Irqs -> Seq(Items)]
  BY DEF IInv, TypeOK, QueueTypes, IdleTypes, HistoryTypes
<1>1. /\ AbsCount = [i \in Irqs |-> AbsCount[i]]
      /\ AbsCount' = [i \in Irqs |-> AbsCount'[i]]
      /\ AbsQueue = [i \in Irqs |-> AbsQueue[i]]
      /\ AbsQueue' = [i \in Irqs |-> AbsQueue'[i]]
  BY DEF AbsCount, AbsQueue
<1>2. ASSUME UNCHANGED <<no_data_count, data_list, handled, got, part, cur,
                         regs>>
      PROVE  UNCHANGED Abs!vars
  BY <1>2 DEF Abs!vars, AbsCount, AbsQueue, AbsData
<1>3. ASSUME UNCHANGED <<no_data_count, data_list, handled>>, ~got, ~got'
      PROVE  UNCHANGED Abs!vars
  BY <1>3 DEF Abs!vars, AbsCount, AbsQueue, AbsData
<1>4. ASSUME NEW p \in Procs, CallUpdate(p) PROVE Abs!Next
  <2> PICK i \in Irqs : i = req[p].irq
    BY DEF IInv, TypeOK, CallTypes
  <2>1. UNCHANGED <<handled, got, part, cur, regs>> /\ AbsData' = AbsData
    BY <1>4 DEF CallUpdate, idle, history, AbsData
  <2>2. CASE req[p].op = "trigger"
    <3>1. /\ no_data_count' = [no_data_count EXCEPT ![i] = @ + 1]
          /\ UNCHANGED data_list
      BY <1>4, <2>2 DEF CallUpdate
    <3>2. \A j \in Irqs : AbsCount'[j] = IF j = i THEN AbsCount[j] + 1
                                                  ELSE AbsCount[j]
      BY <1>0, <2>1, <3>1 DEF AbsCount
    <3>3. AbsCount' = [AbsCount EXCEPT ![i] = @ + 1]
      BY <3>2 DEF AbsCount
    <3>4. UNCHANGED AbsQueue
      BY <2>1, <3>1 DEF AbsQueue
    <3> QED
      BY <2>1, <3>3, <3>4 DEF Abs!Next, Abs!Raise
  <2>3. CASE req[p].op = "data"
    <3>1. PICK x \in Items : x = ItemOf(p)
      BY <1>4, <2>3 DEF CallUpdate, IInv, TypeOK, CallTypes, CallInv, ItemOf,
         Items
    <3>2. /\ data_list' = [data_list EXCEPT ![i] = Append(@, x)]
          /\ UNCHANGED no_data_count
      BY <1>4, <2>3, <3>1 DEF CallUpdate, Enqueue
    <3>3. \A j \in Irqs : AbsQueue'[j] = IF j = i THEN Append(AbsQueue[j], x)
                                                  ELSE AbsQueue[j]
      <4>1. ASSUME got, part = "data"
            PROVE  <<regs>> \o Append(data_list[i], x)
                      = Append(<<regs>> \o data_list[i], x)
        <5>1. regs \in Items /\ data_list[i] \in Seq(Items)
          BY <1>0, <4>1 DEF GotInv
        <5> QED
          BY <5>1, PushAppend, SMTT(30)
      <4> QED
        BY <1>0, <2>1, <3>2, <4>1 DEF AbsQueue
    <3>4. AbsQueue' = [AbsQueue EXCEPT ![i] = Append(@, x)]
      BY <1>1, <3>3
    <3>5. UNCHANGED AbsCount
      BY <2>1, <3>2 DEF AbsCount
    <3> QED
      BY <2>1, <3>4, <3>5 DEF Abs!Next, Abs!RaiseData
  <2>4. CASE req[p].op = "purge"
    <3>1. ~got
      BY <1>4, <2>4 DEF CallUpdate, GotInv
    <3>2. /\ data_list' = [data_list EXCEPT ![i] = <<>>]
          /\ no_data_count' = [no_data_count EXCEPT ![i] = 0]
      BY <1>4, <2>4 DEF CallUpdate
    <3>3. AbsQueue' = [AbsQueue EXCEPT ![i] = <<>>]
      BY <1>0, <2>1, <3>1, <3>2 DEF AbsQueue
    <3>4. AbsCount' = [AbsCount EXCEPT ![i] = 0]
      <4>1. \A j \in Irqs : AbsCount'[j] = IF j = i THEN 0 ELSE AbsCount[j]
        BY <1>0, <2>1, <3>1, <3>2 DEF AbsCount
      <4> QED
        BY <1>1, <4>1
    <3> QED
      BY <2>1, <3>3, <3>4 DEF Abs!Next, Abs!Purge
  <2> QED
    BY <1>4, <2>2, <2>3, <2>4 DEF CallUpdate
<1>5. CASE IdleTake
  <2>1. ~got /\ UNCHANGED <<handled, part, cur>> /\ AbsData' = AbsData
    BY <1>5 DEF IdleTake, GotInv, history, AbsData
  <2>2. CASE part = "nodata"
    <3>1. /\ got' = (no_data_count[cur] > 0)
          /\ no_data_count' = [no_data_count EXCEPT ![cur] = CountDown(@)]
          /\ UNCHANGED data_list
      BY <1>5, <2>2 DEF IdleTake
    <3>2. CASE no_data_count[cur] > 0
      <4>1. got'
        BY <3>1, <3>2, Zenon
      <4>2. \A i \in Irqs : no_data_count'[i] = IF i = cur
                                                 THEN no_data_count[i] - 1
                                                 ELSE no_data_count[i]
        BY <1>0, <3>1, <3>2 DEF CountDown
      <4>3. UNCHANGED AbsCount
        BY <1>0, <2>1, <2>2, <4>1, <4>2 DEF AbsCount
      <4> QED
        BY <2>1, <2>2, <3>1, <4>3 DEF Abs!vars, AbsQueue
    <3>3. CASE ~(no_data_count[cur] > 0)
      <4>1. ~got'
        BY <3>1, <3>3, Zenon
      <4>2. UNCHANGED no_data_count
        BY <1>0, <3>1, <3>3 DEF CountDown
      <4> QED
        BY <1>3, <2>1, <3>1, <4>1, <4>2
    <3> QED
      BY <3>2, <3>3
  <2>3. CASE part = "data" /\ data_list[cur] # <<>>
    <3>1. /\ got' /\ regs' = Head(data_list[cur]) /\ UNCHANGED no_data_count
          /\ data_list' = [data_list EXCEPT ![cur] = Tail(@)]
      BY <1>5, <2>3 DEF IdleTake
    <3>2. <<regs'>> \o data_list'[cur] = data_list[cur]
      BY <1>0, <2>3, <3>1, PushHead
    <3>3. UNCHANGED AbsQueue
      BY <1>0, <2>1, <2>3, <3>1, <3>2 DEF AbsQueue
    <3> QED
      BY <2>1, <2>3, <3>1, <3>3 DEF Abs!vars, AbsCount
  <2>4. CASE part = "data" /\ data_list[cur] = <<>>
    <3>1. ~got' /\ UNCHANGED <<no_data_count, data_list>>
      BY <1>5, <2>4 DEF IdleTake, queues
    <3> QED
      BY <1>3, <2>1, <3>1
  <2> QED
    BY <1>5, <2>2, <2>3, <2>4 DEF IdleTake
<1>6. CASE do_IRQ
  <2>1. got /\ ~got' /\ UNCHANGED <<no_data_count, data_list, cur, part>>
    BY <1>6 DEF do_IRQ, GotInv, queues
  <2>2. CASE part = "nodata"
    <3>1. UNCHANGED AbsData /\ UNCHANGED AbsQueue
      BY <1>6, <2>1, <2>2 DEF do_IRQ, AbsData, AbsQueue
    <3>2. /\ no_data_count[cur] \in Nat /\ AbsCount'[cur] = no_data_count[cur]
          /\ AbsCount[cur] = no_data_count[cur] + 1
      BY <1>0, <2>1, <2>2 DEF AbsCount
    <3>3. AbsCount[cur] > 0 /\ AbsCount' = [AbsCount EXCEPT ![cur] = @ - 1]
      <4>1. \A i \in Irqs : i # cur => AbsCount'[i] = AbsCount[i]
        BY <1>0, <2>1 DEF AbsCount
      <4>2. AbsCount[cur] > 0 /\ AbsCount'[cur] = AbsCount[cur] - 1
        BY <3>2
      <4> QED
        BY <1>1, <4>1, <4>2
    <3> QED
      BY <1>0, <3>1, <3>3 DEF Abs!Next, Abs!Handle
  <2>3. CASE part = "data"
    <3>1. PICK r \in Items : r = regs
      BY <2>1, <2>3 DEF GotInv
    <3>2. AbsQueue[cur] = <<r>> \o data_list[cur]
          /\ AbsQueue'[cur] = data_list[cur]
      BY <1>0, <2>1, <2>3, <3>1 DEF AbsQueue
    <3>3. /\ AbsQueue[cur] # <<>> /\ Head(AbsQueue[cur]) = r
          /\ Tail(AbsQueue[cur]) = AbsQueue'[cur]
      <4>1. data_list[cur] \in Seq(Items)
        BY <1>0
      <4> QED
        BY <3>1, <3>2, <4>1, PushParts
    <3>4. AbsQueue' = [AbsQueue EXCEPT ![cur] = Tail(@)]
      <4>1. \A i \in Irqs : i # cur => AbsQueue'[i] = AbsQueue[i]
        BY <2>1 DEF AbsQueue
      <4> QED
        BY <3>3, <4>1 DEF AbsQueue
    <3>5. AbsData' = [AbsData EXCEPT ![cur] = r]
      <4>1. handled' = [handled EXCEPT ![cur] = Append(@, r)]
        BY <1>6, <2>3, <3>1 DEF do_IRQ
      <4>2. /\ handled'[cur] # <<>> /\ handled'[cur][Len(handled'[cur])] = r
            /\ \A i \in Irqs : i # cur => handled'[i] = handled[i]
        <5>1. handled[cur] \in Seq(Items)
              /\ handled'[cur] = Append(handled[cur], r)
          BY <1>0, <4>1
        <5>2. \A i \in Irqs : i # cur => handled'[i] = handled[i]
          BY <1>0, <4>1
        <5> QED
          BY <5>1, <5>2, AppendIndex
      <4> QED
        BY <1>0, <4>2 DEF AbsData
    <3>6. UNCHANGED AbsCount
      BY <2>1, <2>3 DEF AbsCount
    <3> QED
      BY <1>0, <3>3, <3>4, <3>5, <3>6 DEF Abs!Next, Abs!HandleData
  <2> QED
    BY <2>2, <2>3 DEF IInv, TypeOK, IdleTypes
<1>7. CASE IdleUp \/ IdleWait
  <2>1. UNCHANGED <<no_data_count, data_list, handled, got, regs>>
    BY <1>7 DEF IdleUp, IdleWait, queues, history
  <2>2. got => UNCHANGED <<cur, part>>
    BY <1>7 DEF IdleUp, IdleWait, GotInv
  <2> QED
    BY <1>2, <1>3, <2>1, <2>2
<1>8. ASSUME NEW t \in Threads, NEW j \in Irqs,
             lkl_trigger_irq(t, j) \/ lkl_trigger_irq_with_data(t, j)
      PROVE  UNCHANGED Abs!vars
  BY <1>2, <1>8 DEF lkl_trigger_irq, lkl_trigger_irq_with_data, queues, idle,
     history
<1>9. ASSUME NEW p \in Procs, AllocItem(p) \/ CallDown(p) \/ CallUp(p)
             \/ CallPost(p)
      PROVE  UNCHANGED Abs!vars
  BY <1>2, <1>9 DEF AllocItem, CallDown, CallUp, CallPost, queues, idle, history
<1>10. CASE \/ IdleTop \/ IdleDown \/ IdleAgain \/ IdleResched \/ IdleScheduled
           \/ machine_halt \/ rcu_func \/ UNCHANGED vars
  BY <1>2, <1>10 DEF IdleTop, IdleDown, IdleAgain, IdleResched, IdleScheduled,
     machine_halt, rcu_func, vars, queues, idle, history
<1>11. ASSUME NEW j \in Irqs, lkl_purge_irq_queue(j) PROVE UNCHANGED Abs!vars
  BY <1>2, <1>11 DEF lkl_purge_irq_queue, queues, idle, history
<1> QED
  BY <1>4, <1>5, <1>6, <1>7, <1>8, <1>9, <1>10, <1>11 DEF Next, ThreadStep,
     CallStep, IdleStep, Procs

(* The interrupt layer implements IrqQueue, the specification that the     *)
(* system calls, the timer and the drivers rely on.                        *)
THEOREM Refinement == Spec => ImplementsQueue
<1>1. Init => Abs!Init
  BY DEF Init, Abs!Init, AbsCount, AbsQueue, AbsData
<1> QED
  BY <1>1, Invariance, OrderAndExit, AbsStep, PTL DEF Spec, ImplementsQueue,
     Abs!Spec
=============================================================================
