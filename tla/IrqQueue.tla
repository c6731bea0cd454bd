------------------------------ MODULE IrqQueue ------------------------------
(***************************************************************************)
(* What the interrupt layer of arch/lkl promises to its users (the timer,  *)
(* the system call dispatcher, the disk and the network drivers), with no  *)
(* threads, locks or semaphores: an interrupt raised without data is       *)
(* counted, one raised with data is queued, and the idle thread hands both *)
(* to their handler, each once and the data in the order it was accepted.  *)
(* lkl_purge_irq_queue drops what is pending.                              *)
(***************************************************************************)
EXTENDS Naturals, Sequences

CONSTANTS Irqs,      \* interrupt numbers
          Items,     \* what an interrupt can carry
          NoItem     \* the data of a line that has delivered none

VARIABLES count,     \* [Irqs -> Nat]: raised without data, not yet handled
          queue,     \* [Irqs -> Seq(Items)]: raised with data, not yet handled
          irq_data   \* [Irqs -> Items or NoItem]: the data the handler of the
                     \* line was last given, regs->irq_data

vars == <<count, queue, irq_data>>

Init ==
    /\ count = [i \in Irqs |-> 0]
    /\ queue = [i \in Irqs |-> <<>>]
    /\ irq_data = [i \in Irqs |-> NoItem]

Raise(i) ==
    /\ count' = [count EXCEPT ![i] = @ + 1]
    /\ UNCHANGED <<queue, irq_data>>

RaiseData(i, d) ==
    /\ queue' = [queue EXCEPT ![i] = Append(@, d)]
    /\ UNCHANGED <<count, irq_data>>

Purge(i) ==
    /\ count' = [count EXCEPT ![i] = 0]
    /\ queue' = [queue EXCEPT ![i] = <<>>]
    /\ UNCHANGED irq_data

Handle(i) ==
    /\ count[i] > 0
    /\ count' = [count EXCEPT ![i] = @ - 1]
    /\ UNCHANGED <<queue, irq_data>>

HandleData(i) ==
    /\ queue[i] # <<>>
    /\ irq_data' = [irq_data EXCEPT ![i] = Head(queue[i])]
    /\ queue' = [queue EXCEPT ![i] = Tail(@)]
    /\ UNCHANGED count

\* set_irq_regs(old_regs): no handler looks at the data any more.
Over ==
    /\ irq_data' = [i \in Irqs |-> NoItem]
    /\ UNCHANGED <<count, queue>>

Next ==
    \/ Over
    \/ \E i \in Irqs :
          \/ Raise(i)
          \/ \E d \in Items : RaiseData(i, d)
          \/ Purge(i)
          \/ Handle(i)
          \/ HandleData(i)

Spec == Init /\ [][Next]_vars
=============================================================================
