---------------------------- MODULE LklNet_proof ----------------------------
(***************************************************************************)
(* Proofs about the network.  First LklEth, for any set of devices, any    *)
(* ring and any number of frames and faults: nothing refers to a device    *)
(* when it is freed, no entry of a ring is lost or used twice, and frames  *)
(* are delivered in the order they came.  Then LklCsum, for any width and  *)
(* every block: the checksum verifies, and may be computed in parts.       *)
(***************************************************************************)
EXTENDS LklEth, LklCsum, SeqRange, WellFoundedInduction

\* open has succeeded and stop has not returned.
IsOpen(d) == dev[d] \in {"up", "stop", "close"}

\* The types the argument needs.
EthType ==
    /\ dev \in [Devs -> {"none", "down", "up", "stop", "close", "unreg"}]
    /\ rpc \in [Devs -> {"none", "poll", "desc", "drop", "recv", "trigger",
                         "done", "uninit"}]
    /\ led \in [Devs -> Entries \cup {NULL}]
    /\ handle \in [Devs -> BOOLEAN]
    /\ queue \in [{ETH_IRQ} -> Seq(Entries)]
    /\ ready \in [Devs -> Seq(Entries)]

\* A device has a handle exactly while it is open.
HandleInv == \A d \in Devs : handle[d] <=> IsOpen(d)

\* It has a thread exactly while it is open, and the thread has an entry of
\* this device in hand only on the way from get_rx_desc to the trigger.
RxInv ==
    \A d \in Devs :
        /\ rpc[d] = "none" <=> ~IsOpen(d)
        /\ led[d] # NULL => /\ rpc[d] \in {"poll", "recv", "trigger"}
                            /\ led[d] \in EntriesOf(d)
        /\ rpc[d] \in {"recv", "trigger"} => led[d] # NULL

\* The ready list of a device holds its own entries.
ReadyInv == \A d \in Devs : ready[d] \in Seq(EntriesOf(d))

\* A pending interrupt carries an entry of an open device.
QueueInv == \A k \in DOMAIN queue[ETH_IRQ] : IsOpen(queue[ETH_IRQ][k][1])

-----------------------------------------------------------------------------
\* The pending interrupts.
Line == queue[ETH_IRQ]

\* The sets of entries: rx_ring_inuse, and the history of those given away.
SetType ==
    /\ inuse \in [Devs -> SUBSET Entries]
    /\ given \subseteq Entries /\ leaked \subseteq Entries

\* The frames: in the buffers, in the sockets, and given to the stack.
FrameType ==
    /\ frame \in [Entries -> Nat] /\ arrived \in [Devs -> Nat]
    /\ sock \in [Devs -> Seq(Nat)] /\ delivered \in [Devs -> Seq(Nat)]

\* What else TypeOK says.
RestType ==
    /\ count = [i \in {ETH_IRQ} |-> 0]
    /\ irq_data \in [{ETH_IRQ} -> Entries \cup {NULL}]
    /\ pod \in [Devs -> BOOLEAN] /\ faults \in 0 .. MaxFaults
    /\ eintr \subseteq Devs

\* Every entry of the device is on rx_ring_ready, once, or in use in exactly
\* one way: pending, in the hands of the thread, or lost.
RingOf(d) ==
    /\ IsInjective(ready[d])
    /\ Range(ready[d]) \cup inuse[d] = EntriesOf(d)
    /\ Range(ready[d]) \cap inuse[d] = {}
    /\ \A e \in EntriesOf(d) :
          /\ e \in inuse[d] <=> e \in Range(Line) \/ e = led[d] \/ e \in leaked
          /\ ~(e \in Range(Line) /\ e = led[d])
          /\ ~(e \in Range(Line) /\ e \in leaked)
          /\ ~(e = led[d] /\ e \in leaked)

\* No entry is pending twice, and what the stack owns is not in the ring.
RingInv ==
    /\ IsInjective(Line) /\ given \subseteq leaked
    /\ \A d \in Devs : dev[d] # "none" => RingOf(d)

\* The elements grow.
Increasing(q) == \A i, j \in DOMAIN q : i < j => q[i] < q[j]

\* Frame n of device d is later than those delivered and those pending.
Later(d, n) ==
    /\ \A i \in DOMAIN delivered[d] : delivered[d][i] < n
    /\ \A k \in DOMAIN Line : Line[k] \in EntriesOf(d) => frame[Line[k]] < n

\* The pending frames of d are in order, and later than those delivered.
PendingOrder(d) ==
    \A k \in DOMAIN Line : Line[k] \in EntriesOf(d) =>
        /\ \A i \in DOMAIN delivered[d] : delivered[d][i] < frame[Line[k]]
        /\ \A j \in DOMAIN Line :
              Line[j] \in EntriesOf(d) /\ j < k
              => frame[Line[j]] < frame[Line[k]]

\* The frame rx_thread is about to raise comes after them.
HandOrder(d) ==
    rpc[d] = "trigger" =>
        /\ Later(d, frame[led[d]]) /\ frame[led[d]] <= arrived[d]
        /\ \A m \in DOMAIN sock[d] : frame[led[d]] < sock[d][m]

\* And then come the frames in the socket, and those that have not arrived.
SockOrder(d) ==
    /\ Increasing(sock[d]) /\ Later(d, arrived[d] + 1)
    /\ \A m \in DOMAIN sock[d] :
          Later(d, sock[d][m]) /\ sock[d][m] <= arrived[d]

\* The frames of a device, from the stack back to the network.
OrderOf(d) ==
    Increasing(delivered[d]) /\ PendingOrder(d) /\ HandOrder(d) /\ SockOrder(d)

OrderInv == \A d \in Devs : OrderOf(d)

\* The inductive invariant.
IInv ==
    /\ EthType /\ HandleInv /\ RxInv /\ ReadyInv /\ QueueInv
    /\ SetType /\ FrameType /\ RestType /\ RingInv /\ OrderInv

USE EthAssumption
USE DEF ETH_IRQ

(* An entry is a pair of its device and a number, and is not NULL.         *)
LEMMA EntryFacts ==
    /\ \A d \in Devs : EntriesOf(d) \subseteq Entries
    /\ \A d \in Devs : \A e \in EntriesOf(d) : e[1] = d
    /\ \A e \in Entries : e[1] \in Devs /\ e \in EntriesOf(e[1])
    /\ NULL \notin Entries
BY DEF EntriesOf, Entries

-----------------------------------------------------------------------------
(* The steps of rx_thread and of the network leave the netdev open.        *)
LEMMA NativeSteps ==
    ASSUME NEW d \in Devs,
           Arrive(d) \/ RxStep(d) \/ PollInterrupted(d) \/ RecvFails(d)
    PROVE  UNCHANGED <<dev, handle>>
BY DEF Arrive, RxStep, Poll, lkl_eth_get_rx_desc, Drop, Recv, Trigger,
       PollInterrupted, RecvFails, netdev

(* open sets native_handle, the end of stop clears it.                     *)
LEMMA HandleStep == EthType /\ HandleInv /\ [Next]_vars => HandleInv'
<1> SUFFICES ASSUME EthType, HandleInv, [Next]_vars PROVE HandleInv'
  OBVIOUS
<1> USE DEF HandleInv, IsOpen, EthType
<1>1. ASSUME NEW d \in Devs, open(d) PROVE HandleInv'
  BY <1>1 DEF open
<1>2. ASSUME NEW d \in Devs, Joined(d) PROVE HandleInv'
  BY <1>2 DEF Joined, Joining
<1>3. ASSUME NEW d \in Devs, _lkl_add_eth(d) PROVE HandleInv'
  BY <1>3 DEF _lkl_add_eth
<1>4. ASSUME NEW d \in Devs, stop(d) \/ _lkl_del_eth(d) PROVE HandleInv'
  BY <1>4 DEF stop, _lkl_del_eth, lkl_eth_native_cleanup
<1>5. ASSUME NEW d \in Devs, cleanup_netdev(d) PROVE HandleInv'
  BY <1>5 DEF cleanup_netdev
<1>6. ASSUME NEW d \in Devs,
             Arrive(d) \/ RxStep(d) \/ PollInterrupted(d) \/ RecvFails(d)
      PROVE UNCHANGED <<dev, handle>>
  BY <1>6, NativeSteps
<1>7. CASE lkl_net_irq
  BY <1>7 DEF lkl_net_irq
<1>8. CASE UNCHANGED vars
  BY <1>8 DEF vars, netdev
<1> QED
  BY <1>1, <1>2, <1>3, <1>4, <1>5, <1>6, <1>7, <1>8 DEF Next

(* Every action keeps the types the argument needs.                        *)
LEMMA TypeStep == EthType /\ RxInv /\ ReadyInv /\ [Next]_vars => EthType'
<1> SUFFICES ASSUME EthType, RxInv, ReadyInv, [Next]_vars PROVE EthType'
  OBVIOUS
<1> USE EntryFacts DEF EthType
<1>1. ASSUME NEW d \in Devs, open(d) PROVE EthType'
  BY ZenonT(40), <1>1 DEF open, lkl_eth_native_init, Goto, irq
<1>2. ASSUME NEW d \in Devs, Joined(d) PROVE EthType'
  BY <1>2 DEF Joined, Goto, PurgeQueue, IRQ!Purge
<1>3. ASSUME NEW d \in Devs, _lkl_add_eth(d) PROVE EthType'
  <2>1. [k \in 1 .. RingLen |-> <<d, RingLen + 1 - k>>] \in Seq(Entries)
    BY DEF Entries
  <2> QED
    BY <1>3, <2>1 DEF _lkl_add_eth, native, irq
<1>4. ASSUME NEW d \in Devs, stop(d) \/ _lkl_del_eth(d) PROVE EthType'
  BY ZenonT(40), <1>4 DEF stop, _lkl_del_eth, lkl_eth_native_cleanup, native, irq
<1>5. ASSUME NEW d \in Devs, cleanup_netdev(d) PROVE EthType'
  BY <1>5 DEF cleanup_netdev, native, irq
<1>6. ASSUME NEW d \in Devs, Arrive(d) \/ Drop(d) \/ Recv(d)
             \/ PollInterrupted(d) \/ RecvFails(d) PROVE EthType'
  BY ZenonT(40), <1>6
     DEF Arrive, Drop, Recv, PollInterrupted, RecvFails, Goto, netdev, irq
<1>7. ASSUME NEW d \in Devs, Poll(d) PROVE EthType'
  BY ZenonT(40), <1>7 DEF Poll, Goto, netdev, irq
<1>8. ASSUME NEW d \in Devs, lkl_eth_get_rx_desc(d) PROVE EthType'
  <2>1. ready[d] # <<>> => /\ Head(ready[d]) \in Entries
                           /\ Tail(ready[d]) \in Seq(Entries)
    BY HeadTailProperties
  <2>2. ready' \in [Devs -> Seq(Entries)]
        /\ led' \in [Devs -> Entries \cup {NULL}]
    <3>1. CASE ready[d] = <<>>
      BY <1>8, <3>1 DEF lkl_eth_get_rx_desc
    <3>2. CASE ready[d] # <<>>
      <4>1. /\ ready' = [ready EXCEPT ![d] = Tail(ready[d])]
            /\ led' = [led EXCEPT ![d] = Head(ready[d])]
        BY <1>8, <3>2 DEF lkl_eth_get_rx_desc, TakeReady
      <4> QED
        BY <2>1, <3>2, <4>1
    <3> QED
      BY <3>1, <3>2
  <2> QED
    BY <1>8, <2>2 DEF lkl_eth_get_rx_desc, Goto, irq
<1>9. ASSUME NEW d \in Devs, Trigger(d) PROVE EthType'
  <2>1. led[d] \in Entries
    BY <1>9 DEF Trigger, RxInv
  <2>2. queue' \in [{ETH_IRQ} -> Seq(Entries)]
    <3>1. Append(queue[ETH_IRQ], led[d]) \in Seq(Entries)
      BY <2>1
    <3>2. \/ queue' = [queue EXCEPT ![ETH_IRQ] = Append(queue[ETH_IRQ], led[d])]
          \/ queue' = queue
      BY <1>9 DEF Trigger, Raise, IRQ!RaiseData, irq
    <3> QED
      BY ZenonT(40), <3>1, <3>2
  <2> QED
    BY <1>9, <2>2 DEF Trigger, Goto, netdev
<1>10. CASE lkl_net_irq
  <2> DEFINE e == Head(queue[ETH_IRQ])
  <2>1. e \in Entries /\ e[1] \in Devs
    BY <1>10 DEF lkl_net_irq, IRQ!HandleData
  <2>2. <<e>> \o ready[e[1]] \in Seq(Entries)
    BY <2>1
  <2>3. ready' \in [Devs -> Seq(Entries)]
    BY ZenonT(40), <1>10, <2>1, <2>2
       DEF lkl_net_irq, reload_rx_ring_entry, ReloadFails
  <2>4. queue' \in [{ETH_IRQ} -> Seq(Entries)]
    BY <1>10 DEF lkl_net_irq, IRQ!HandleData
  <2> QED
    BY <1>10, <2>3, <2>4 DEF lkl_net_irq, native
<1>11. CASE UNCHANGED vars
  BY <1>11 DEF vars, netdev, native, irq
<1> QED
  BY <1>1, <1>2, <1>3, <1>4, <1>5, <1>6, <1>7, <1>8, <1>9, <1>10, <1>11
     DEF Next, RxStep

(* A thread exists exactly while its device is open, with its own entry.   *)
LEMMA RxStepInv == EthType /\ RxInv /\ ReadyInv /\ [Next]_vars => RxInv'
<1> SUFFICES ASSUME EthType, RxInv, ReadyInv, [Next]_vars PROVE RxInv'
  OBVIOUS
<1> USE DEF EthType, RxInv, IsOpen
<1>1. ASSUME NEW d \in Devs, open(d) PROVE RxInv'
  BY <1>1 DEF open, lkl_eth_native_init, Goto
<1>2. ASSUME NEW d \in Devs, Joined(d) PROVE RxInv'
  BY <1>2 DEF Joined, Joining, Goto
<1>3. ASSUME NEW d \in Devs, _lkl_add_eth(d) PROVE RxInv'
  BY <1>3 DEF _lkl_add_eth, native
<1>4. ASSUME NEW d \in Devs, stop(d) \/ _lkl_del_eth(d) PROVE RxInv'
  BY <1>4 DEF stop, _lkl_del_eth, lkl_eth_native_cleanup, native
<1>5. ASSUME NEW d \in Devs, cleanup_netdev(d) PROVE RxInv'
  BY <1>5 DEF cleanup_netdev, native
<1>6. ASSUME NEW d \in Devs, Arrive(d) \/ Drop(d) \/ Recv(d)
             \/ PollInterrupted(d) \/ RecvFails(d) PROVE RxInv'
  BY <1>6 DEF Arrive, Drop, Recv, PollInterrupted, RecvFails, Goto, netdev
<1>7. ASSUME NEW d \in Devs, Poll(d) PROVE RxInv'
  BY <1>7 DEF Poll, Goto, netdev
<1>8. ASSUME NEW d \in Devs, lkl_eth_get_rx_desc(d) PROVE RxInv'
  <2>1. CASE ready[d] = <<>>
    BY <1>8, <2>1 DEF lkl_eth_get_rx_desc, Goto
  <2>2. CASE ready[d] # <<>>
    <3>1. Head(ready[d]) \in EntriesOf(d) /\ Head(ready[d]) # NULL
      <4>1. ready[d] \in Seq(EntriesOf(d))
        BY DEF ReadyInv
      <4> QED
        BY <2>2, <4>1, EntryFacts
    <3> QED
      BY <1>8, <2>2, <3>1 DEF lkl_eth_get_rx_desc, Goto
  <2> QED
    BY <2>1, <2>2
<1>9. ASSUME NEW d \in Devs, Trigger(d) PROVE RxInv'
  BY <1>9 DEF Trigger, Goto, netdev
<1>10. CASE lkl_net_irq
  BY <1>10 DEF lkl_net_irq, native
<1>11. CASE UNCHANGED vars
  BY <1>11 DEF vars, netdev, native
<1> QED
  BY <1>1, <1>2, <1>3, <1>4, <1>5, <1>6, <1>7, <1>8, <1>9, <1>10, <1>11
     DEF Next, RxStep

(* Entries return to the list of the device they were taken from.          *)
LEMMA ReadyStep == EthType /\ ReadyInv /\ [Next]_vars => ReadyInv'
<1> SUFFICES ASSUME EthType, ReadyInv, [Next]_vars PROVE ReadyInv'
  OBVIOUS
<1> USE DEF EthType, ReadyInv
<1>1. ASSUME NEW d \in Devs, NEW s \in Seq(EntriesOf(d)),
             ready' = [ready EXCEPT ![d] = s]
      PROVE  ReadyInv'
  BY <1>1
<1>2. ASSUME UNCHANGED ready PROVE ReadyInv'
  BY <1>2
<1>3. ASSUME NEW d \in Devs, _lkl_add_eth(d) PROVE ReadyInv'
  <2>1. [k \in 1 .. RingLen |-> <<d, RingLen + 1 - k>>] \in Seq(EntriesOf(d))
    BY DEF EntriesOf
  <2>2. ready' = [ready EXCEPT ![d] = [k \in 1 .. RingLen |-> <<d, RingLen + 1 - k>>]]
    BY <1>3 DEF _lkl_add_eth
  <2> QED
    BY <1>1, <2>1, <2>2
<1>4. ASSUME NEW d \in Devs, cleanup_netdev(d) PROVE ReadyInv'
  <2>1. <<>> \in Seq(EntriesOf(d)) /\ ready' = [ready EXCEPT ![d] = <<>>]
    BY <1>4 DEF cleanup_netdev
  <2> QED
    BY <1>1, <2>1
<1>5. ASSUME NEW d \in Devs, lkl_eth_get_rx_desc(d) PROVE ReadyInv'
  <2>1. CASE ready[d] = <<>>
    BY <1>2, <1>5, <2>1 DEF lkl_eth_get_rx_desc
  <2>2. CASE ready[d] # <<>>
    <3>1. ready' = [ready EXCEPT ![d] = Tail(ready[d])]
      BY <1>5, <2>2 DEF lkl_eth_get_rx_desc, TakeReady
    <3>2. ready[d] \in Seq(EntriesOf(d))
      OBVIOUS
    <3>3. Tail(ready[d]) \in Seq(EntriesOf(d))
      BY <2>2, <3>2, HeadTailProperties
    <3> QED
      BY <1>1, <3>1, <3>3
  <2> QED
    BY <2>1, <2>2
<1>6. CASE lkl_net_irq
  <2> DEFINE e == Head(queue[ETH_IRQ])
             d == e[1]
  <2>1. e \in Entries
    BY <1>6 DEF lkl_net_irq, IRQ!HandleData
  <2>2. d \in Devs /\ e \in EntriesOf(d)
    BY <2>1, EntryFacts
  <2>3. <<e>> \o ready[d] \in Seq(EntriesOf(d))
    BY <2>2, ConcatProperties
  <2>4. \/ ready' = [ready EXCEPT ![d] = <<e>> \o ready[d]]
        \/ ready' = ready
    BY <1>6 DEF lkl_net_irq, reload_rx_ring_entry, ReloadFails
  <2> QED
    BY <1>1, <1>2, <2>2, <2>3, <2>4
<1>7. ASSUME NEW d \in Devs,
             \/ open(d) \/ stop(d) \/ Joined(d) \/ _lkl_del_eth(d)
             \/ Arrive(d) \/ Poll(d) \/ Drop(d) \/ Recv(d) \/ Trigger(d)
             \/ PollInterrupted(d) \/ RecvFails(d)
      PROVE  ReadyInv'
  BY <1>2, <1>7 DEF open, stop, Joined, _lkl_del_eth, lkl_eth_native_cleanup,
                    Arrive, Poll, Drop, Recv, Trigger, PollInterrupted,
                    RecvFails, netdev
<1>8. CASE UNCHANGED vars
  BY <1>2, <1>8 DEF vars, netdev
<1> QED
  BY <1>3, <1>4, <1>5, <1>6, <1>7, <1>8 DEF Next, RxStep

(* What the thread raises is an entry of its own device, which is open, a  *)
(* device is closed only by the step that purges the line, and a device    *)
(* that is not open is not freed before.                                   *)
LEMMA QueueStep == EthType /\ RxInv /\ QueueInv /\ [Next]_vars => QueueInv'
<1> SUFFICES ASSUME EthType, RxInv, QueueInv, [Next]_vars PROVE QueueInv'
  OBVIOUS
<1> USE DEF EthType, QueueInv, IsOpen
<1>1. ASSUME UNCHANGED queue,
             \A d \in Devs : IsOpen(d) => IsOpen(d)'
      PROVE  QueueInv'
  <2>1. \A k \in DOMAIN queue[ETH_IRQ] : queue[ETH_IRQ][k] \in Entries
    OBVIOUS
  <2> QED
    BY <1>1, <2>1, EntryFacts
<1>2. ASSUME NEW d \in Devs, Joined(d) PROVE QueueInv'
  <2>1. queue'[ETH_IRQ] = <<>>
    BY <1>2 DEF Joined, PurgeQueue, IRQ!Purge
  <2> QED
    BY <2>1
<1>3. ASSUME NEW d \in Devs, Trigger(d) PROVE QueueInv'
  <2>1. led[d] \in EntriesOf(d) /\ led[d] \in Entries /\ IsOpen(d)
        /\ led[d][1] = d
    BY <1>3, EntryFacts DEF Trigger, RxInv
  <2>2. \/ queue' = [queue EXCEPT ![ETH_IRQ] = Append(queue[ETH_IRQ], led[d])]
        \/ queue' = queue
    BY <1>3 DEF Trigger, Raise, IRQ!RaiseData, irq
  <2>3. UNCHANGED dev
    BY <1>3 DEF Trigger, netdev
  <2>4. CASE queue' = queue
    BY <1>1, <2>3, <2>4
  <2>5. CASE queue' = [queue EXCEPT ![ETH_IRQ] = Append(queue[ETH_IRQ], led[d])]
    <3>1. queue'[ETH_IRQ] = Append(queue[ETH_IRQ], led[d])
      BY <2>5
    <3>2. \A k \in DOMAIN queue'[ETH_IRQ] :
              \/ k \in DOMAIN queue[ETH_IRQ]
                 /\ queue'[ETH_IRQ][k] = queue[ETH_IRQ][k]
              \/ queue'[ETH_IRQ][k] = led[d]
      BY <2>1, <3>1, AppendProperties
    <3> QED
      BY <2>1, <2>3, <3>2
  <2> QED
    BY <2>2, <2>4, <2>5
<1>4. CASE lkl_net_irq
  <2>1. queue[ETH_IRQ] # <<>> /\ queue'[ETH_IRQ] = Tail(queue[ETH_IRQ])
        /\ UNCHANGED dev
    BY <1>4 DEF lkl_net_irq, IRQ!HandleData
  <2>2. \A k \in DOMAIN Tail(queue[ETH_IRQ]) :
            /\ k + 1 \in DOMAIN queue[ETH_IRQ]
            /\ Tail(queue[ETH_IRQ])[k] = queue[ETH_IRQ][k + 1]
    BY <2>1
  <2> QED
    BY <2>1, <2>2
<1>5. ASSUME NEW d \in Devs,
             \/ _lkl_add_eth(d) \/ open(d) \/ stop(d) \/ _lkl_del_eth(d)
             \/ cleanup_netdev(d)
      PROVE  QueueInv'
  BY <1>1, <1>5 DEF _lkl_add_eth, open, stop, _lkl_del_eth, cleanup_netdev,
                    lkl_eth_native_cleanup, irq
<1>6. ASSUME NEW d \in Devs,
             \/ Arrive(d) \/ Poll(d) \/ lkl_eth_get_rx_desc(d) \/ Drop(d)
             \/ Recv(d) \/ PollInterrupted(d) \/ RecvFails(d)
      PROVE  QueueInv'
  BY <1>1, <1>6 DEF Arrive, Poll, lkl_eth_get_rx_desc, Drop, Recv,
                    PollInterrupted, RecvFails, irq, netdev
<1>7. CASE UNCHANGED vars
  BY <1>1, <1>7 DEF vars, irq, netdev
<1> QED
  BY <1>2, <1>3, <1>4, <1>5, <1>6, <1>7 DEF Next, RxStep

-----------------------------------------------------------------------------
(* The receive ring.                                                       *)

(* What the lists hold, from their types.                                  *)
LEMMA LineTypes ==
    ASSUME EthType, QueueInv
    PROVE  /\ Line \in Seq(Entries) /\ Range(Line) \subseteq Entries
           /\ \A e \in Range(Line) : IsOpen(e[1])
<1>1. Line \in Seq(Entries)
  BY DEF EthType, Line
<1> QED
  BY <1>1, SeqTypes DEF QueueInv, Range, Line

(* _lkl_add_eth puts every entry of the device on rx_ring_ready, once.     *)
LEMMA NewRing ==
    ASSUME NEW d \in Devs
    PROVE  LET r == [k \in 1 .. RingLen |-> <<d, RingLen + 1 - k>>]
           IN  Range(r) = EntriesOf(d) /\ IsInjective(r)
<1> DEFINE r == [k \in 1 .. RingLen |-> <<d, RingLen + 1 - k>>]
<1>1. Range(r) \subseteq EntriesOf(d)
  BY DEF Range, EntriesOf
<1>2. ASSUME NEW n \in 1 .. RingLen PROVE <<d, n>> \in Range(r)
  <2>1. RingLen + 1 - n \in 1 .. RingLen /\ RingLen + 1 - (RingLen + 1 - n) = n
    OBVIOUS
  <2>2. r[RingLen + 1 - n] = <<d, n>>
    BY <2>1
  <2> QED
    BY <2>1, <2>2 DEF Range
<1>3. EntriesOf(d) \subseteq Range(r)
  <2> HIDE DEF r
  <2>1. \A x \in EntriesOf(d) : \E n \in 1 .. RingLen : x = <<d, n>>
    BY DEF EntriesOf
  <2> QED
    BY <1>2, <2>1
<1>4. IsInjective(r)
  BY DEF IsInjective
<1> QED
  BY <1>1, <1>3, <1>4

(* A step that changes the ring of one device leaves the others' alone.    *)
LEMMA RingElsewhere ==
    ASSUME EthType, RxInv, NEW d \in Devs, NEW x \in Devs, x # d, RingOf(x),
           ready'[x] = ready[x], inuse'[x] = inuse[x], led'[x] = led[x],
           \A e \in Entries : e[1] # d =>
                /\ e \in Range(Line)' <=> e \in Range(Line)
                /\ e \in leaked' <=> e \in leaked
    PROVE  RingOf(x)'
<1>1. \A e \in EntriesOf(x) : e \in Entries /\ e[1] # d
  BY EntryFacts
<1> QED
  BY <1>1 DEF RingOf

(* get_rx_desc, the trigger, the handler and reload_rx_ring_entry each     *)
(* move an entry from one place to the next, stop and the end of a thread  *)
(* only lose entries, and no step touches the entries of another device.   *)
LEMMA RingStep ==
    EthType /\ SetType /\ RxInv /\ ReadyInv /\ QueueInv /\ RingInv
    /\ [Next]_vars
    => RingInv'
<1> SUFFICES ASSUME EthType, SetType, RxInv, ReadyInv, QueueInv, RingInv,
                    [Next]_vars
             PROVE  RingInv'
  OBVIOUS
<1>1. ASSUME UNCHANGED <<queue, ready, inuse, given, leaked, led>>,
             \A d \in Devs : dev'[d] # "none" => dev[d] # "none"
      PROVE  RingInv'
  <2>1. \A d \in Devs : RingOf(d)' <=> RingOf(d)
    BY <1>1 DEF RingOf, Line
  <2> QED
    BY <1>1, <2>1 DEF RingInv, Line
<1>2. ASSUME NEW d \in Devs, _lkl_add_eth(d) PROVE RingInv'
  <2>1. /\ UNCHANGED <<queue, led>>
        /\ dev[d] = "none"
        /\ \A x \in Devs : x # d => UNCHANGED <<dev[x], ready[x], inuse[x]>>
    BY <1>2 DEF _lkl_add_eth, irq, native, EthType
  <2>2. /\ Range(ready'[d]) = EntriesOf(d) /\ IsInjective(ready'[d])
        /\ inuse'[d] = {}
    BY <1>2, NewRing DEF _lkl_add_eth, EthType, SetType
  <2>3. given' = given \ EntriesOf(d) /\ leaked' = leaked \ EntriesOf(d)
    BY <1>2 DEF _lkl_add_eth
  <2>4. led[d] = NULL /\ Range(Line) \cap EntriesOf(d) = {} /\ Line' = Line
    <3>1. led[d] = NULL
      BY <2>1 DEF RxInv, IsOpen, EthType
    <3>2. \A e \in Range(Line) : e \notin EntriesOf(d)
      BY <2>1, LineTypes, EntryFacts DEF IsOpen
    <3> QED
      BY <2>1, <3>1, <3>2 DEF Line
  <2>5. RingOf(d)'
    BY <2>1, <2>2, <2>3, <2>4, EntryFacts DEF RingOf, Line
  <2>6. \A x \in Devs : x # d /\ dev'[x] # "none" => RingOf(x)'
    BY <2>1, <2>3, <2>4, RingElsewhere, EntryFacts DEF RingInv
  <2> QED
    BY <2>3, <2>4, <2>5, <2>6 DEF RingInv
<1>3. ASSUME NEW d \in Devs, open(d) PROVE RingInv'
  <2>1. led' = led
    <3>1. led[d] = NULL
      BY <1>3 DEF open, RxInv, IsOpen, EthType
    <3> QED
      BY <1>3, <3>1 DEF open, lkl_eth_native_init, EthType
  <2>2. UNCHANGED <<queue, ready, inuse, given, leaked>>
    BY <1>3 DEF open, irq, history
  <2>3. \A x \in Devs : dev'[x] # "none" => dev[x] # "none"
    BY <1>3 DEF open, EthType
  <2> QED
    BY <1>1, <2>1, <2>2, <2>3
<1>4. ASSUME NEW d \in Devs, stop(d) \/ _lkl_del_eth(d) \/ cleanup_netdev(d)
      PROVE  RingInv'
  <2>1. CASE stop(d) \/ _lkl_del_eth(d)
    BY <1>1, <2>1 DEF stop, _lkl_del_eth, lkl_eth_native_cleanup, EthType,
       irq, native, history
  <2>2. CASE cleanup_netdev(d)
    <3>1. /\ UNCHANGED <<queue, led, given, leaked>> /\ dev'[d] = "none"
          /\ \A x \in Devs : x # d => UNCHANGED <<dev[x], ready[x], inuse[x]>>
      BY <2>2 DEF cleanup_netdev, EthType, SetType, irq, native, history
    <3> QED
      BY <3>1, RingElsewhere DEF RingInv, Line
  <2> QED
    BY <1>4, <2>1, <2>2
<1>5. ASSUME NEW d \in Devs, Joined(d) PROVE RingInv'
  <2>1. Line' = <<>> /\ leaked' = leaked \cup Range(Line)
    BY <1>5 DEF Joined, PurgeQueue, IRQ!Purge, Queued, Line, EthType, Range
  <2>2. UNCHANGED <<ready, inuse, given, led>>
    BY <1>5 DEF Joined
  <2>3. \A x \in Devs : dev'[x] # "none" => dev[x] # "none"
    BY <1>5 DEF Joined, Joining, EthType
  <2>4. \A x \in Devs : RingOf(x) => RingOf(x)'
    BY <2>1, <2>2, EmptyRange DEF RingOf
  <2> QED
    BY <2>1, <2>2, <2>3, <2>4, EmptyRange DEF RingInv
<1>6. ASSUME NEW d \in Devs, Arrive(d) \/ Drop(d) \/ Recv(d)
                             \/ PollInterrupted(d) \/ RecvFails(d)
      PROVE  RingInv'
  BY <1>1, <1>6 DEF Arrive, Drop, Recv, PollInterrupted, RecvFails, irq, netdev,
                    history
<1>7. ASSUME NEW d \in Devs, Poll(d) PROVE RingInv'
  <2>1. UNCHANGED <<queue, dev, ready, inuse, given>> /\ Line' = Line
    BY <1>7 DEF Poll, irq, netdev, Line
  <2>2. CASE UNCHANGED <<led, leaked>>
    BY <1>1, <2>1, <2>2
  <2>3. CASE /\ led' = [led EXCEPT ![d] = NULL]
             /\ leaked' = leaked \cup ({led[d]} \ {NULL})
    <3>1. dev[d] # "none"
      BY <1>7 DEF Poll, RxInv, IsOpen
    <3>2. led'[d] = NULL /\ \A x \in Devs : x # d => led'[x] = led[x]
      BY <2>3 DEF EthType
    <3>3. RingOf(d)'
      BY <2>1, <2>3, <3>1, <3>2, EntryFacts DEF RingInv, RingOf
    <3>4. \A e \in Entries : e[1] # d => (e \in leaked' <=> e \in leaked)
      BY <2>3, EntryFacts DEF RxInv
    <3>5. \A x \in Devs : x # d /\ dev'[x] # "none" => RingOf(x)'
      BY <2>1, <3>2, <3>4, RingElsewhere DEF RingInv
    <3> QED
      BY <2>1, <2>3, <3>3, <3>5 DEF RingInv
  <2> QED
    BY <1>7, <2>2, <2>3 DEF Poll
<1>8. ASSUME NEW d \in Devs, lkl_eth_get_rx_desc(d) PROVE RingInv'
  <2>1. UNCHANGED <<queue, dev, given, leaked>> /\ Line' = Line
    BY <1>8 DEF lkl_eth_get_rx_desc, irq, history, Line
  <2>2. CASE ready[d] = <<>>
    BY <1>1, <1>8, <2>1, <2>2 DEF lkl_eth_get_rx_desc
  <2>3. CASE ready[d] # <<>>
    <3> DEFINE e == Head(ready[d])
    <3>1. dev[d] # "none" /\ led[d] = NULL
      BY <1>8 DEF lkl_eth_get_rx_desc, RxInv, IsOpen
    <3>2. /\ ready'[d] = Tail(ready[d]) /\ led'[d] = e
          /\ inuse'[d] = inuse[d] \cup {e}
          /\ \A x \in Devs : x # d =>
                /\ ready'[x] = ready[x] /\ led'[x] = led[x]
                /\ inuse'[x] = inuse[x]
      BY <1>8, <2>3 DEF lkl_eth_get_rx_desc, TakeReady, EthType, SetType
    <3>3. ready[d] \in Seq(EntriesOf(d))
      BY DEF ReadyInv
    <3>4. /\ e \in EntriesOf(d) /\ e \in Range(ready[d])
          /\ Range(ready[d]) = Range(ready'[d]) \cup {e}
          /\ IsInjective(ready[d]) => IsInjective(ready'[d])
             /\ e \notin Range(ready'[d])
      BY <2>3, <3>2, <3>3, TailRange
    <3> HIDE DEF e
    <3>5. RingOf(d)'
      <4> USE <3>1 DEF RingInv, RingOf
      <4>1. Range(ready'[d]) \cup inuse'[d] = EntriesOf(d)
            /\ Range(ready'[d]) \cap inuse'[d] = {}
        BY <3>2, <3>4
      <4>2. e \notin Range(Line) /\ e \notin leaked
        BY <3>4
      <4> QED
        BY <2>1, <3>2, <3>4, <4>1, <4>2, EntryFacts
    <3>6. \A x \in Devs : x # d /\ dev'[x] # "none" => RingOf(x)'
      BY <2>1, <3>2, RingElsewhere DEF RingInv
    <3> QED
      BY <2>1, <3>5, <3>6 DEF RingInv
  <2> QED
    BY <2>2, <2>3
<1>9. ASSUME NEW d \in Devs, Trigger(d) PROVE RingInv'
  <2>1. UNCHANGED <<dev, ready, inuse, given>>
    BY <1>9 DEF Trigger, netdev
  <2>2. led[d] \in EntriesOf(d) /\ led[d] \in Entries /\ dev[d] # "none"
    BY <1>9, EntryFacts DEF Trigger, RxInv, IsOpen
  <2>3. led'[d] = NULL /\ \A x \in Devs : x # d => led'[x] = led[x]
    BY <1>9 DEF Trigger, EthType
  <2>4. led[d] \notin Range(Line) /\ led[d] \notin leaked
    BY <2>2 DEF RingInv, RingOf
  <2>5. \/ Line' = Line /\ leaked' = leaked \cup {led[d]}
        \/ Range(Line)' = Range(Line) \cup {led[d]} /\ IsInjective(Line)'
           /\ leaked' = leaked
    <3>1. CASE Line' = Append(Line, led[d]) /\ UNCHANGED leaked
      BY <2>2, <2>4, <3>1, LineTypes, AppendRange DEF RingInv
    <3>2. CASE Line' = Line /\ leaked' = leaked \cup {led[d]}
      BY <3>2
    <3> QED
      BY <1>9, <3>1, <3>2 DEF Trigger, Raise, IRQ!RaiseData, irq, Line, EthType
  <2>6. RingOf(d)'
    BY <2>1, <2>2, <2>3, <2>4, <2>5, EntryFacts DEF RingInv, RingOf
  <2>7. \A e \in Entries : e[1] # d =>
                /\ e \in Range(Line)' <=> e \in Range(Line)
                /\ e \in leaked' <=> e \in leaked
    BY <2>2, <2>5, EntryFacts
  <2>8. \A x \in Devs : x # d /\ dev'[x] # "none" => RingOf(x)'
    BY <2>1, <2>3, <2>7, RingElsewhere DEF RingInv
  <2> QED
    BY <2>1, <2>5, <2>6, <2>8 DEF RingInv
<1>10. ASSUME lkl_net_irq PROVE RingInv'
  <2>1. Line # <<>> /\ Line' = Tail(Line) /\ UNCHANGED <<dev, led>>
    BY <1>10 DEF lkl_net_irq, IRQ!HandleData, native, Line, EthType
  <2> PICK e \in Entries : e = Head(Line)
    BY <2>1, LineTypes, TailRange
  <2> PICK d \in Devs : d = e[1]
    BY EntryFacts
  <2>2. /\ e \in Range(Line) /\ e \in Entries /\ e \notin Range(Line)'
        /\ Range(Line) = Range(Line)' \cup {e} /\ IsInjective(Line)'
    BY <2>1, LineTypes, TailRange DEF RingInv
  <2>3. d \in Devs /\ e \in EntriesOf(d) /\ dev[d] # "none"
    BY <2>2, LineTypes, EntryFacts DEF IsOpen
  <2>4. e # led[d] /\ e \notin leaked /\ e \in inuse[d]
        /\ e \notin Range(ready[d])
    BY <2>2, <2>3 DEF RingInv, RingOf
  <2>5. reload_rx_ring_entry(d, e)
    BY <1>10 DEF lkl_net_irq, Line
  <2>6. CASE UNCHANGED <<given, leaked>>
    <3>1. ready[d] \in Seq(EntriesOf(d))
      BY <2>3 DEF ReadyInv
    <3>2. CASE /\ inuse' = [inuse EXCEPT ![d] = @ \ {e}]
               /\ ready' = [ready EXCEPT ![d] = <<e>> \o @]
      <4>1. /\ ready'[d] = <<e>> \o ready[d] /\ inuse'[d] = inuse[d] \ {e}
            /\ \A x \in Devs : x # d => ready'[x] = ready[x]
               /\ inuse'[x] = inuse[x]
        BY <2>3, <3>2 DEF EthType, SetType
      <4>2. Range(ready'[d]) = Range(ready[d]) \cup {e}
            /\ IsInjective(ready'[d])
        BY <2>3, <2>4, <3>1, <4>1, PushRange DEF RingInv, RingOf
      <4>3. RingOf(d)'
        <5> USE <2>3 DEF RingInv, RingOf
        <5>1. Range(ready'[d]) \cup inuse'[d] = EntriesOf(d)
              /\ Range(ready'[d]) \cap inuse'[d] = {}
          BY <2>4, <4>1, <4>2
        <5> QED
          BY <2>1, <2>2, <2>4, <2>6, <4>1, <4>2, <5>1
      <4>4. \A x \in Devs : x # d /\ dev'[x] # "none" => RingOf(x)'
        <5>1. \A y \in Entries : y[1] # d
              => (y \in Range(Line)' <=> y \in Range(Line))
          BY <2>2, <2>3, EntryFacts
        <5> QED
          BY <2>1, <2>3, <2>6, <4>1, <5>1, RingElsewhere DEF RingInv
      <4> QED
        BY <2>2, <2>6, <4>3, <4>4 DEF RingInv
    <3>3. CASE leaked' = leaked \cup {e}
      BY <2>4, <2>6, <3>3
    <3> QED
      BY <2>5, <3>2, <3>3 DEF reload_rx_ring_entry
  <2>7. CASE given' = given \cup {e} /\ leaked' = leaked \cup {e}
             /\ UNCHANGED <<ready, inuse>>
    <3>1. RingOf(d)'
      BY <2>1, <2>2, <2>3, <2>4, <2>7 DEF RingInv, RingOf
    <3>2. \A y \in Entries : y[1] # d =>
                /\ y \in Range(Line)' <=> y \in Range(Line)
                /\ y \in leaked' <=> y \in leaked
      BY <2>2, <2>3, <2>7, EntryFacts
    <3>3. \A x \in Devs : x # d /\ dev'[x] # "none" => RingOf(x)'
      BY <2>1, <2>3, <2>7, <3>2, RingElsewhere DEF RingInv
    <3> QED
      BY <2>2, <2>7, <3>1, <3>3 DEF RingInv
  <2> QED
    BY <2>5, <2>6, <2>7 DEF reload_rx_ring_entry, ReloadFails
<1>11. CASE UNCHANGED vars
  BY <1>1, <1>11 DEF vars, irq, netdev, native, history
<1> QED
  BY <1>2, <1>3, <1>4, <1>5, <1>6, <1>7, <1>8, <1>9, <1>10, <1>11 DEF Next,
     RxStep

-----------------------------------------------------------------------------
(* The order of the frames.                                                *)

(* The sets keep to the entries that exist.                                *)
LEMMA SetTypeStep == EthType /\ SetType /\ RxInv /\ [Next]_vars => SetType'
<1> SUFFICES ASSUME EthType, SetType, RxInv, [Next]_vars PROVE SetType'
  OBVIOUS
<1> USE EntryFacts DEF SetType
<1>1. ASSUME NEW d \in Devs, _lkl_add_eth(d) \/ cleanup_netdev(d) PROVE SetType'
  BY <1>1 DEF _lkl_add_eth, cleanup_netdev, history
<1>2. ASSUME NEW d \in Devs, open(d) \/ stop(d) \/ _lkl_del_eth(d)
      PROVE  SetType'
  BY <1>2 DEF open, stop, _lkl_del_eth, lkl_eth_native_cleanup, history
<1>3. ASSUME NEW d \in Devs, Joined(d) PROVE SetType'
  <2>1. Queued \subseteq Entries
    BY DEF Queued, EthType
  <2> QED
    BY <1>3, <2>1 DEF Joined, PurgeQueue
<1>4. ASSUME NEW d \in Devs,
             Arrive(d) \/ Drop(d) \/ Recv(d) \/ PollInterrupted(d)
             \/ RecvFails(d)
      PROVE  SetType'
  BY <1>4 DEF Arrive, Drop, Recv, PollInterrupted, RecvFails, netdev, history
<1>5. ASSUME NEW d \in Devs, Poll(d) \/ Trigger(d) PROVE SetType'
  <2>1. led[d] \in Entries \cup {NULL} /\ (rpc[d] = "trigger" => led[d] # NULL)
    BY DEF EthType, RxInv
  <2> QED
    BY <1>5, <2>1 DEF Poll, Trigger, netdev
<1>6. ASSUME NEW d \in Devs, lkl_eth_get_rx_desc(d) PROVE SetType'
  <2>1. ready[d] # <<>> => Head(ready[d]) \in Entries
    BY DEF EthType
  <2> QED
    BY <1>6, <2>1 DEF lkl_eth_get_rx_desc, history
<1>7. CASE lkl_net_irq
  <2> PICK e \in Entries : e = Head(queue[ETH_IRQ])
    BY <1>7 DEF lkl_net_irq, IRQ!HandleData, EthType
  <2>1. reload_rx_ring_entry(e[1], e)
    BY <1>7 DEF lkl_net_irq
  <2>2. inuse' = inuse \/ inuse' = [inuse EXCEPT ![e[1]] = inuse[e[1]] \ {e}]
    BY <2>1 DEF reload_rx_ring_entry
  <2>3. /\ given' = given \/ given' = given \cup {e}
        /\ leaked' = leaked \/ leaked' = leaked \cup {e}
    BY <2>1 DEF reload_rx_ring_entry
  <2> QED
    BY <2>2, <2>3
<1>8. CASE UNCHANGED vars
  BY <1>8 DEF vars, netdev, history
<1> QED
  BY <1>1, <1>2, <1>3, <1>4, <1>5, <1>6, <1>7, <1>8 DEF Next, RxStep

(* Frames are numbers wherever they are.                                   *)
LEMMA FrameTypeStep ==
    EthType /\ RxInv /\ FrameType /\ [Next]_vars => FrameType'
<1> SUFFICES ASSUME EthType, RxInv, FrameType, [Next]_vars PROVE FrameType'
  OBVIOUS
<1> USE DEF FrameType
<1>1. ASSUME UNCHANGED <<frame, arrived, sock, delivered>> PROVE FrameType'
  BY <1>1
<1>2. ASSUME NEW d \in Devs,
             \/ _lkl_add_eth(d) \/ cleanup_netdev(d) \/ stop(d)
             \/ _lkl_del_eth(d) \/ Poll(d) \/ PollInterrupted(d) \/ RecvFails(d)
             \/ lkl_eth_get_rx_desc(d) \/ Trigger(d)
      PROVE  FrameType'
  BY <1>1, <1>2 DEF _lkl_add_eth, cleanup_netdev, stop, _lkl_del_eth,
         lkl_eth_native_cleanup, Poll, PollInterrupted, RecvFails,
         lkl_eth_get_rx_desc, Trigger, native, history
<1>3. ASSUME NEW d \in Devs, open(d) \/ Joined(d) PROVE FrameType'
  <2>1. sock' = sock \/ sock' = [sock EXCEPT ![d] = <<>>]
    BY <1>3 DEF open, lkl_eth_native_init, Joined
  <2>2. UNCHANGED <<frame, arrived, delivered>>
    BY <1>3 DEF open, Joined, history
  <2>3. <<>> \in Seq(Nat)
    OBVIOUS
  <2> QED
    BY <2>1, <2>2, <2>3
<1>4. ASSUME NEW d \in Devs, Arrive(d) PROVE FrameType'
  <2>1. Append(sock[d], arrived[d] + 1) \in Seq(Nat)
    OBVIOUS
  <2> QED
    BY <1>4, <2>1 DEF Arrive, history
<1>5. ASSUME NEW d \in Devs, Drop(d) \/ Recv(d) PROVE FrameType'
  <2>1. Head(sock[d]) \in Nat /\ Tail(sock[d]) \in Seq(Nat)
    BY <1>5 DEF Drop, Recv
  <2> QED
    BY <1>5, <2>1 DEF Drop, Recv, history
<1>6. CASE lkl_net_irq
  <2> PICK e \in Entries : e = Head(queue[ETH_IRQ])
    BY <1>6 DEF lkl_net_irq, IRQ!HandleData, EthType
  <2>1. e[1] \in Devs /\ Append(delivered[e[1]], frame[e]) \in Seq(Nat)
    BY EntryFacts
  <2>2. delivered' = [delivered EXCEPT ![e[1]] = Append(delivered[e[1]], frame[e])]
    BY <1>6 DEF lkl_net_irq
  <2> QED
    BY <1>6, <2>1, <2>2 DEF lkl_net_irq, native
<1>7. CASE UNCHANGED vars
  BY <1>1, <1>7 DEF vars, native, history
<1> QED
  BY <1>2, <1>3, <1>4, <1>5, <1>6, <1>7 DEF Next, RxStep

(* The remaining variables keep their types.                               *)
LEMMA RestTypeStep == EthType /\ RestType /\ RxInv /\ [Next]_vars => RestType'
<1> SUFFICES ASSUME EthType, RestType, RxInv, [Next]_vars PROVE RestType'
  OBVIOUS
<1>1. faults' \in 0 .. MaxFaults
  <2>1. faults' = faults \/ Fault
    BY DEF Next, _lkl_add_eth, open, lkl_eth_native_init, stop,
         _lkl_del_eth, lkl_eth_native_cleanup, Joined, cleanup_netdev, Arrive,
         RxStep, Poll, lkl_eth_get_rx_desc, Drop, Recv, Trigger,
         PollInterrupted, RecvFails, lkl_net_irq, reload_rx_ring_entry,
         NoFault, vars
  <2> QED
    BY <2>1 DEF Fault, RestType
<1>2. eintr' \subseteq Devs
  BY DEF RestType, Next, _lkl_add_eth, open, stop, _lkl_del_eth,
         lkl_eth_native_cleanup, Joined, cleanup_netdev, Arrive, RxStep, Poll,
         lkl_eth_get_rx_desc, Drop, Recv, Trigger, PollInterrupted, RecvFails,
         lkl_net_irq, vars, history
<1>3. pod' \in [Devs -> BOOLEAN]
  BY DEF RestType, Next, _lkl_add_eth, open, lkl_eth_native_init, stop,
         _lkl_del_eth, lkl_eth_native_cleanup, Joined, cleanup_netdev, Arrive,
         RxStep, Poll, lkl_eth_get_rx_desc, Drop, Recv, Trigger,
         PollInterrupted, RecvFails, lkl_net_irq, vars, native
<1>4. count' = [i \in {ETH_IRQ} |-> 0]
      /\ irq_data' \in [{ETH_IRQ} -> Entries \cup {NULL}]
  <2>1. UNCHANGED irq => count' = count /\ irq_data' = irq_data
    BY DEF irq
  <2>2. CASE UNCHANGED irq
    BY <2>1, <2>2 DEF RestType
  <2>3. ASSUME NEW d \in Devs, Joined(d)
        PROVE  count' = [i \in {ETH_IRQ} |-> 0]
               /\ irq_data' \in [{ETH_IRQ} -> Entries \cup {NULL}]
    BY <2>3 DEF Joined, PurgeQueue, IRQ!Purge, RestType
  <2>4. ASSUME NEW d \in Devs, Trigger(d)
        PROVE  count' = [i \in {ETH_IRQ} |-> 0]
               /\ irq_data' \in [{ETH_IRQ} -> Entries \cup {NULL}]
    BY <2>1, <2>2, <2>4 DEF Trigger, Raise, IRQ!RaiseData, RestType
  <2>5. CASE lkl_net_irq
    <3>1. Head(queue[ETH_IRQ]) \in Entries
      BY <2>5 DEF lkl_net_irq, IRQ!HandleData, EthType
    <3> QED
      BY <2>5, <3>1 DEF lkl_net_irq, IRQ!HandleData, RestType
  <2> QED
    BY <2>2, <2>3, <2>4, <2>5 DEF Next, _lkl_add_eth, open, stop,
         _lkl_del_eth, lkl_eth_native_cleanup, cleanup_netdev, Arrive,
         RxStep, Poll, lkl_eth_get_rx_desc, Drop, Recv,
         PollInterrupted, RecvFails, vars
<1> QED
  BY <1>1, <1>2, <1>3, <1>4 DEF RestType

(* The order of a device does not depend on the others.                    *)
LEMMA OrderElsewhere ==
    ASSUME EthType, NEW x \in Devs, OrderOf(x), UNCHANGED Line,
           UNCHANGED <<delivered[x], sock[x], arrived[x], led[x]>>,
           rpc'[x] = "trigger" => rpc[x] = "trigger",
           \A e \in EntriesOf(x) : frame'[e] = frame[e],
           rpc[x] = "trigger" => led[x] \in EntriesOf(x)
    PROVE  OrderOf(x)'
BY DEF OrderOf, Increasing, PendingOrder, HandOrder, SockOrder, Later

(* Delivered and pending frames are numbers, so that what is later than    *)
(* them stays so when it grows.                                            *)
LEMMA LaterFacts ==
    ASSUME EthType, QueueInv, FrameType, NEW x \in Devs
    PROVE  /\ \A i \in DOMAIN delivered[x] : delivered[x][i] \in Nat
           /\ \A k \in DOMAIN Line : Line[k] \in Entries
              /\ frame[Line[k]] \in Nat
           /\ \A n, m \in Nat : Later(x, n) /\ n <= m => Later(x, m)
<1>1. \A i \in DOMAIN delivered[x] : delivered[x][i] \in Nat
  BY DEF FrameType
<1>2. \A k \in DOMAIN Line : Line[k] \in Entries
  BY DEF EthType, Line
<1>3. \A k \in DOMAIN Line : frame[Line[k]] \in Nat
  BY <1>2 DEF FrameType
<1>4. ASSUME NEW n \in Nat, NEW m \in Nat, Later(x, n), n <= m PROVE Later(x, m)
  BY <1>1, <1>3, <1>4 DEF Later
<1> QED
  BY <1>1, <1>2, <1>3, <1>4

(* Frames move from the network to the socket, to the hands of the thread, *)
(* to the pending interrupts and to the stack, and are taken from each in  *)
(* the order they came in. recv writes the buffer of an entry that is not  *)
(* pending (RingInv), so that no frame is overwritten on the way.          *)
LEMMA OrderStep ==
    EthType /\ FrameType /\ RxInv /\ QueueInv /\ RingInv /\ OrderInv
    /\ [Next]_vars
    => OrderInv'
<1> SUFFICES ASSUME EthType, FrameType, RxInv, QueueInv, RingInv, OrderInv,
                    [Next]_vars, NEW x \in Devs
             PROVE  OrderOf(x)'
  BY DEF OrderInv
<1>0. OrderOf(x) /\ (rpc[x] = "trigger" => led[x] \in EntriesOf(x))
  BY DEF OrderInv, RxInv
<1>1. ASSUME UNCHANGED <<queue, delivered, sock, arrived, frame>>,
             rpc'[x] = "trigger" => rpc[x] = "trigger" /\ led'[x] = led[x]
      PROVE  OrderOf(x)'
  BY <1>0, <1>1 DEF OrderOf, Increasing, PendingOrder, HandOrder, SockOrder,
     Later, Line
<1>2. ASSUME NEW d \in Devs,
             _lkl_add_eth(d) \/ cleanup_netdev(d) \/ stop(d) \/ _lkl_del_eth(d)
      PROVE  OrderOf(x)'
  BY <1>1, <1>2 DEF _lkl_add_eth, cleanup_netdev, stop, _lkl_del_eth,
         lkl_eth_native_cleanup, irq, native, history
<1>3. ASSUME NEW d \in Devs,
             \/ Poll(d) \/ PollInterrupted(d) \/ RecvFails(d)
             \/ lkl_eth_get_rx_desc(d)
      PROVE  OrderOf(x)'
  <2>1. UNCHANGED <<queue, delivered, sock, arrived, frame>>
    BY <1>3 DEF Poll, PollInterrupted, RecvFails, lkl_eth_get_rx_desc, irq,
       history
  <2>2. rpc'[x] = "trigger" => rpc[x] = "trigger" /\ led'[x] = led[x]
    BY <1>3 DEF Poll, PollInterrupted, RecvFails, lkl_eth_get_rx_desc, Goto,
       EthType
  <2> QED
    BY <1>1, <2>1, <2>2
<1>4. ASSUME NEW d \in Devs, open(d) PROVE OrderOf(x)'
  <2>1. /\ UNCHANGED <<queue, delivered, arrived, frame>>
        /\ sock'[x] = sock[x] \/ sock'[x] = <<>>
        /\ rpc'[x] = "trigger" => rpc[x] = "trigger" /\ led'[x] = led[x]
    BY <1>4 DEF open, lkl_eth_native_init, irq, history, Goto, EthType,
       FrameType
  <2> QED
    BY <1>0, <2>1 DEF OrderOf, Increasing, PendingOrder, HandOrder, SockOrder,
       Later, Line
<1>5. ASSUME NEW d \in Devs, Joined(d) PROVE OrderOf(x)'
  <2>1. /\ Line' = <<>> /\ UNCHANGED <<delivered, arrived, frame, led>>
        /\ sock'[x] = sock[x] \/ sock'[x] = <<>>
        /\ rpc'[x] = "trigger" => rpc[x] = "trigger"
    BY <1>5 DEF Joined, PurgeQueue, IRQ!Purge, Goto, EthType, FrameType, Line
  <2>2. DOMAIN Line' = {}
    BY <2>1
  <2> QED
    BY <1>0, <2>1, <2>2 DEF OrderOf, Increasing, PendingOrder, HandOrder,
       SockOrder, Later
<1>6. ASSUME NEW d \in Devs, Arrive(d) PROVE OrderOf(x)'
  <2>1. UNCHANGED <<queue, delivered, frame, rpc, led>> /\ Line' = Line
    BY <1>6 DEF Arrive, irq, history, Line
  <2>2. CASE x # d
    <3>1. UNCHANGED <<sock[x], arrived[x]>>
      BY <1>6, <2>2 DEF Arrive, FrameType
    <3> QED
      BY <1>0, <2>1, <3>1, OrderElsewhere
  <2>3. CASE x = d
    <3>1. arrived'[x] = arrived[x] + 1
          /\ sock'[x] = Append(sock[x], arrived[x] + 1)
      BY <1>6, <2>3 DEF Arrive, FrameType
    <3>2. arrived[x] \in Nat /\ sock[x] \in Seq(Nat) /\ arrived[x] + 1 \in Nat
      BY DEF FrameType
    <3>3. /\ \A k \in DOMAIN sock[x] : k \in Nat /\ k <= Len(sock[x])
             /\ sock'[x][k] = sock[x][k] /\ sock[x][k] \in Nat
          /\ \A k \in DOMAIN sock'[x] : k \in DOMAIN sock[x]
             \/ (k = Len(sock[x]) + 1 /\ sock'[x][k] = arrived[x] + 1)
          /\ Len(sock[x]) \in Nat
      BY <3>1, <3>2, AppendIndex
    <3>4. Increasing(sock[x])' /\ \A m \in DOMAIN sock'[x] :
            sock'[x][m] <= arrived'[x]
      <4>1. \A k \in DOMAIN sock[x] : sock[x][k] < arrived[x] + 1
        BY <1>0, <3>2, <3>3 DEF OrderOf, SockOrder
      <4>2. \A m \in DOMAIN sock'[x] : sock'[x][m] <= arrived'[x]
        BY <3>1, <3>2, <3>3, <4>1
      <4>3. \A i, j \in DOMAIN sock[x] : i < j => sock[x][i] < sock[x][j]
        BY <1>0 DEF OrderOf, SockOrder, Increasing
      <4> QED
        BY <3>3, <4>1, <4>2, <4>3 DEF Increasing
    <3>5. \A n : Later(x, n)' <=> Later(x, n)
      BY <2>1 DEF Later
    <3>6. Later(x, arrived[x] + 1) /\ Later(x, arrived'[x] + 1)
      BY <1>0, <3>1, <3>2, LaterFacts DEF OrderOf, SockOrder
    <3>7. SockOrder(x)'
      BY <1>0, <3>1, <3>3, <3>4, <3>5, <3>6 DEF OrderOf, SockOrder
    <3>8. HandOrder(x)'
      <4> SUFFICES ASSUME rpc[x] = "trigger" PROVE HandOrder(x)'
        BY <2>1 DEF HandOrder
      <4>1. led[x] \in Entries /\ frame[led[x]] \in Nat
        BY <1>0, EntryFacts DEF FrameType
      <4> QED
        BY <1>0, <2>1, <3>1, <3>2, <3>3, <3>5, <4>1 DEF OrderOf, HandOrder
    <3> QED
      BY <1>0, <2>1, <3>7, <3>8 DEF OrderOf, Increasing, PendingOrder
  <2> QED
    BY <2>2, <2>3
<1>7. ASSUME NEW d \in Devs, Drop(d) PROVE OrderOf(x)'
  <2>1. /\ UNCHANGED <<queue, delivered, frame, arrived, led>> /\ Line' = Line
        /\ rpc'[x] = "trigger" => rpc[x] = "trigger"
    BY <1>7 DEF Drop, Goto, irq, history, Line, EthType
  <2>2. CASE x # d
    <3>1. UNCHANGED sock[x]
      BY <1>7, <2>2 DEF Drop, FrameType
    <3> QED
      BY <1>0, <2>1, <3>1, OrderElsewhere
  <2>3. CASE x = d
    <3>1. sock[x] # <<>> /\ sock'[x] = Tail(sock[x]) /\ sock[x] \in Seq(Nat)
      BY <1>7, <2>3 DEF Drop, FrameType
    <3>2. \A k \in DOMAIN sock'[x] :
             k \in Nat /\ k + 1 \in DOMAIN sock[x]
             /\ sock'[x][k] = sock[x][k + 1]
      BY SMTT(30), <3>1, TailIndex
    <3>3. Increasing(sock[x])'
      BY <1>0, <3>2 DEF OrderOf, SockOrder, Increasing
    <3> QED
      BY <1>0, <2>1, <3>2, <3>3
         DEF OrderOf, Increasing, PendingOrder, HandOrder, SockOrder, Later
  <2> QED
    BY <2>2, <2>3
<1>8. ASSUME NEW d \in Devs, Recv(d) PROVE OrderOf(x)'
  <2>1. UNCHANGED <<queue, delivered, arrived, led>> /\ Line' = Line
    BY <1>8 DEF Recv, irq, history, Line
  <2>2. led[d] \in EntriesOf(d) /\ led[d] \in Entries /\ dev[d] # "none"
    BY <1>8, EntryFacts DEF Recv, RxInv, IsOpen
  <2>3. /\ frame'[led[d]] = Head(sock[d])
        /\ \A e \in Entries : e # led[d] => frame'[e] = frame[e]
    BY <1>8, <2>2 DEF Recv, FrameType
  <2>4. CASE x # d
    <3>1. UNCHANGED sock[x] /\ rpc'[x] = rpc[x]
      BY <1>8, <2>4 DEF Recv, Goto, FrameType, EthType
    <3>2. \A e \in EntriesOf(x) : frame'[e] = frame[e]
      BY <2>2, <2>3, <2>4, EntryFacts
    <3> QED
      BY <1>0, <2>1, <3>1, <3>2, OrderElsewhere
  <2>5. CASE x = d
    <3>1. sock[x] # <<>> /\ sock'[x] = Tail(sock[x]) /\ sock[x] \in Seq(Nat)
      BY <1>8, <2>5 DEF Recv, FrameType
    <3>2. /\ \A k \in DOMAIN sock'[x] :
               k \in Nat \ {0} /\ k + 1 \in DOMAIN sock[x]
               /\ sock'[x][k] = sock[x][k + 1]
          /\ 1 \in DOMAIN sock[x] /\ Head(sock[x]) = sock[x][1]
      BY <3>1, TailIndex
    <3>3. \A k \in DOMAIN Line : Line[k] \in Entries /\ Line[k] # led[x]
      <4>1. led[x] \notin Range(Line)
        BY <2>2, <2>5 DEF RingInv, RingOf
      <4> QED
        BY <4>1, LaterFacts DEF Range
    <3>4. \A k \in DOMAIN Line : frame'[Line[k]] = frame[Line[k]]
      BY <2>3, <2>5, <3>3
    <3>5. \A n : Later(x, n)' <=> Later(x, n)
      BY <2>1, <3>4 DEF Later
    <3>6. SockOrder(x)'
      BY <1>0, <2>1, <3>2, <3>5 DEF OrderOf, SockOrder, Increasing
    <3>7. HandOrder(x)'
      <4>1. frame'[led'[x]] = sock[x][1]
        BY <2>1, <2>3, <2>5, <3>2
      <4>2. \A m \in DOMAIN sock'[x] : sock[x][1] < sock'[x][m]
        BY <1>0, <3>2 DEF OrderOf, SockOrder, Increasing
      <4> QED
        BY <1>0, <2>1, <3>2, <3>5, <4>1, <4>2 DEF OrderOf, HandOrder, SockOrder
    <3> QED
      BY <1>0, <2>1, <3>4, <3>6, <3>7 DEF OrderOf, Increasing, PendingOrder
  <2> QED
    BY <2>4, <2>5
<1>9. ASSUME NEW d \in Devs, Trigger(d) PROVE OrderOf(x)'
  <2>1. UNCHANGED <<delivered, arrived, frame, sock>> /\ rpc'[d] # "trigger"
    BY <1>9 DEF Trigger, Goto, history, EthType
  <2>2. x # d => rpc'[x] = rpc[x] /\ led'[x] = led[x]
    BY <1>9 DEF Trigger, Goto, EthType
  <2>3. rpc[d] = "trigger" /\ led[d] \in EntriesOf(d) /\ led[d] \in Entries
    BY <1>9, EntryFacts DEF Trigger, RxInv
  <2>4. CASE UNCHANGED queue
    BY <1>1, <2>1, <2>2, <2>4
  <2>5. CASE Line' = Append(Line, led[d])
    <3>1. /\ \A k \in DOMAIN Line : k \in Nat /\ k <= Len(Line)
             /\ k \in DOMAIN Line' /\ Line'[k] = Line[k]
          /\ \A k \in DOMAIN Line' : \/ k \in DOMAIN Line
                                     \/ k = Len(Line) + 1 /\ Line'[k] = led[d]
          /\ Len(Line) \in Nat
      BY <2>3, <2>5, LineTypes, AppendIndex
    <3>2. CASE x # d
      <4>1. led[d] \notin EntriesOf(x)
        BY <2>3, <3>2, EntryFacts
      <4>2. \A n : Later(x, n)' <=> Later(x, n)
        BY <2>1, <3>1, <4>1 DEF Later
      <4>3. PendingOrder(x)'
        BY <1>0, <2>1, <3>1, <4>1 DEF OrderOf, PendingOrder
      <4> QED
        BY <1>0, <2>1, <2>2, <3>2, <4>2, <4>3 DEF OrderOf, Increasing,
           HandOrder, SockOrder
    <3>3. CASE x = d
      <4> DEFINE n0 == frame[led[x]]
      <4>1. Later(x, n0) /\ n0 <= arrived[x] /\ \A m \in DOMAIN sock[x] :
              n0 < sock[x][m]
        BY <1>0, <2>3, <3>3 DEF OrderOf, HandOrder
      <4>2. \A n : Later(x, n) /\ n0 < n => Later(x, n)'
        BY <2>1, <3>1, <3>3 DEF Later
      <4>3. n0 \in Nat /\ arrived[x] \in Nat
        BY <2>3, <3>3 DEF FrameType
      <4>4. PendingOrder(x)'
        BY <1>0, <2>1, <3>1, <3>3, <4>1 DEF OrderOf, PendingOrder, Later
      <4>5. n0 < arrived[x] + 1
        BY <4>1, <4>3
      <4> QED
        BY <1>0, <2>1, <3>3, <4>1, <4>2, <4>4, <4>5 DEF OrderOf, Increasing,
           HandOrder, SockOrder
    <3> QED
      BY <3>2, <3>3
  <2> QED
    BY <1>9, <2>4, <2>5 DEF Trigger, Raise, IRQ!RaiseData, irq, Line, EthType
<1>10. CASE lkl_net_irq
  <2>1. /\ Line # <<>> /\ Line' = Tail(Line)
        /\ UNCHANGED <<frame, sock, arrived, rpc, led>>
    BY <1>10 DEF lkl_net_irq, IRQ!HandleData, native, Line, EthType
  <2> PICK e \in Entries : e = Head(Line)
    BY <2>1, LineTypes, TailRange
  <2>2. /\ \A k \in DOMAIN Line' :
               k \in Nat \ {0} /\ k + 1 \in DOMAIN Line
               /\ Line'[k] = Line[k + 1]
        /\ 1 \in DOMAIN Line /\ e = Line[1]
    BY <2>1, LineTypes, TailIndex
  <2>3. e[1] \in Devs /\ e \in EntriesOf(e[1])
    BY EntryFacts
  <2>4. delivered' = [delivered EXCEPT ![e[1]] = Append(delivered[e[1]], frame[e])]
    BY <1>10 DEF lkl_net_irq, Line
  <2>5. CASE x # e[1]
    <3>1. UNCHANGED delivered[x]
      BY <2>4, <2>5 DEF FrameType
    <3>2. \A n : Later(x, n) => Later(x, n)'
      BY <2>1, <2>2, <3>1 DEF Later
    <3>3. PendingOrder(x)'
      BY <1>0, <2>1, <2>2, <3>1 DEF OrderOf, PendingOrder
    <3> QED
      BY <1>0, <2>1, <3>1, <3>2, <3>3 DEF OrderOf, Increasing, HandOrder,
         SockOrder
  <2>6. CASE x = e[1]
    <3>1. delivered'[x] = Append(delivered[x], frame[e]) /\ frame[e] \in Nat
      BY <2>3, <2>4, <2>6 DEF FrameType
    <3>2. /\ \A i \in DOMAIN delivered[x] :
                i \in Nat /\ i <= Len(delivered[x])
                /\ delivered'[x][i] = delivered[x][i]
          /\ \A i \in DOMAIN delivered'[x] :
                \/ i \in DOMAIN delivered[x]
                \/ i = Len(delivered[x]) + 1 /\ delivered'[x][i] = frame[e]
          /\ Len(delivered[x]) \in Nat
      BY <3>1, AppendIndex DEF FrameType
    <3>3. \A i \in DOMAIN delivered[x] : delivered[x][i] < frame[e]
      BY <1>0, <2>2, <2>3, <2>6 DEF OrderOf, PendingOrder
    <3>4. Increasing(delivered[x])'
      BY <1>0, <3>2, <3>3 DEF OrderOf, Increasing
    <3>5. \A n : Later(x, n) => Later(x, n)'
      BY <2>1, <2>2, <2>3, <2>6, <3>2 DEF Later
    <3>6. PendingOrder(x)'
      <4>1. \A k \in DOMAIN Line' : Line'[k] \in EntriesOf(x)
            => frame[e] < frame[Line'[k]]
        BY <1>0, <2>2, <2>3, <2>6 DEF OrderOf, PendingOrder
      <4>2. \A k \in DOMAIN Line' : Line'[k] \in EntriesOf(x) =>
                /\ \A i \in DOMAIN delivered[x] :
                     delivered[x][i] < frame[Line'[k]]
                /\ \A j \in DOMAIN Line' : Line'[j] \in EntriesOf(x) /\ j < k
                   => frame[Line'[j]] < frame[Line'[k]]
        BY <1>0, <2>2 DEF OrderOf, PendingOrder
      <4> QED
        BY <2>1, <3>2, <4>1, <4>2 DEF PendingOrder
    <3> QED
      BY <1>0, <2>1, <3>4, <3>5, <3>6 DEF OrderOf, HandOrder, SockOrder
  <2> QED
    BY <2>5, <2>6
<1>11. CASE UNCHANGED vars
  BY <1>1, <1>11 DEF vars, irq, native, history
<1> QED
  BY <1>2, <1>3, <1>4, <1>5, <1>6, <1>7, <1>8, <1>9, <1>10, <1>11 DEF Next,
     RxStep

-----------------------------------------------------------------------------
(* No device exists and nothing is pending.                                *)
LEMMA InitInv == Init => IInv
<1> SUFFICES ASSUME Init PROVE IInv
  OBVIOUS
<1>1. EthType /\ HandleInv /\ RxInv /\ ReadyInv /\ QueueInv
  BY DEF Init, IRQ!Init, EthType, HandleInv, RxInv, ReadyInv, QueueInv, IsOpen
<1>2. SetType
  BY DEF Init, SetType
<1>3. FrameType
  BY DEF Init, FrameType
<1>4. RestType
  BY DEF Init, IRQ!Init, RestType
<1>5. Line = <<>>
  BY DEF Init, IRQ!Init, Line
<1>6. RingInv
  BY <1>5, EmptyRange DEF Init, RingInv
<1>7. OrderInv
  BY <1>5 DEF Init, OrderInv, OrderOf, Increasing, PendingOrder, HandOrder,
     SockOrder, Later
<1> QED
  BY <1>1, <1>2, <1>3, <1>4, <1>6, <1>7 DEF IInv

(* Every reachable state satisfies the inductive invariant.                *)
LEMMA Invariance == Spec => []IInv
<1>1. IInv /\ [Next]_vars => IInv'
  BY TypeStep, HandleStep, RxStepInv, ReadyStep, QueueStep, SetTypeStep,
     FrameTypeStep, RestTypeStep, RingStep, OrderStep DEF IInv
<1> QED
  BY <1>1, InitInv, PTL DEF Spec

(* TypeOK for any devices and rings.                                       *)
THEOREM TypeCorrect == Spec => []TypeOK
<1>1. IInv => TypeOK
  BY DEF IInv, EthType, SetType, FrameType, RestType, TypeOK
<1> QED
  BY <1>1, Invariance, PTL

(* NoUseAfterFree for any devices and rings: when cleanup_netdev frees a   *)
(* device, its receive thread has been joined, holds no entry, no pending  *)
(* ETH_IRQ carries one, and native_handle is clear.                        *)
THEOREM FreeIsSafe == Spec => []NoUseAfterFree
<1>1. IInv => NoUseAfterFree
  <2> SUFFICES ASSUME IInv, NEW d \in Devs
      PROVE  /\ dev[d] \in {"none", "unreg"} =>
                    /\ rpc[d] = "none" /\ led[d] = NULL /\ ~handle[d]
                    /\ Queued \cap EntriesOf(d) = {}
             /\ dev[d] = "up" => handle[d]
    BY DEF NoUseAfterFree
  <2> USE DEF IInv, EthType, IsOpen
  <2>1. dev[d] = "up" => handle[d]
    BY DEF HandleInv
  <2>2. ASSUME dev[d] \in {"none", "unreg"}
        PROVE  rpc[d] = "none" /\ led[d] = NULL /\ ~handle[d]
    BY <2>2 DEF HandleInv, RxInv
  <2>3. ASSUME dev[d] \in {"none", "unreg"} PROVE Queued \cap EntriesOf(d) = {}
    <3> SUFFICES ASSUME NEW k \in DOMAIN queue[ETH_IRQ],
                        queue[ETH_IRQ][k] \in EntriesOf(d)
                 PROVE  FALSE
      BY DEF Queued
    <3> QED
      BY <2>3, EntryFacts DEF QueueInv
  <2> QED
    BY <2>1, <2>2, <2>3
<1> QED
  BY <1>1, Invariance, PTL

(* FramesInOrder for any devices, rings and number of frames: netif_rx     *)
(* gets the frames of a device in the order of their arrival, each at most *)
(* once, and rx_thread never writes into a buffer that the stack owns.     *)
THEOREM FramesStayInOrder == Spec => []FramesInOrder
<1>1. IInv => FramesInOrder
  <2> SUFFICES ASSUME IInv, NEW d \in Devs
               PROVE  Increasing(delivered[d]) /\ led[d] \notin given
    BY DEF FramesInOrder, Increasing
  <2> USE DEF IInv
  <2>1. Increasing(delivered[d])
    BY DEF OrderInv, OrderOf
  <2>2. CASE led[d] = NULL
    BY <2>1, <2>2, EntryFacts DEF SetType
  <2>3. CASE led[d] # NULL
    <3>1. led[d] \in EntriesOf(d) /\ dev[d] # "none"
      BY <2>3 DEF RxInv, IsOpen
    <3> QED
      BY <2>1, <3>1 DEF RingInv, RingOf
  <2> QED
    BY <2>2, <2>3
<1> QED
  BY <1>1, Invariance, PTL

(* RingConserved for any devices and rings: whatever the order of the      *)
(* thread, the handler, stop and the failures, an entry is in exactly one  *)
(* place, so that a ring never shrinks but by the four losses the property *)
(* names, and never holds an entry twice.                                  *)
THEOREM RingIsConserved == Spec => []RingConserved
<1>1. IInv => RingConserved
  <2> SUFFICES ASSUME IInv, NEW d \in Devs, dev[d] # "none"
      PROVE  LET r == {ready[d][k] : k \in DOMAIN ready[d]}
                 pending(e) == {k \in DOMAIN queue[ETH_IRQ] : queue[ETH_IRQ][k] = e}
             IN  /\ r \cup inuse[d] = EntriesOf(d) /\ r \cap inuse[d] = {}
                 /\ Cardinality(r) = Len(ready[d])
                 /\ \A e \in EntriesOf(d) :
                       Cardinality(pending(e))
                       + Cardinality({x \in Devs : led[x] = e})
                       + Cardinality({e} \cap leaked) + Cardinality({e} \cap r) = 1
    BY DEF RingConserved
  <2> DEFINE r == {ready[d][k] : k \in DOMAIN ready[d]}
             pending(e) == {k \in DOMAIN queue[ETH_IRQ] : queue[ETH_IRQ][k] = e}
             hands(e) == {x \in Devs : led[x] = e}
  <2>1. RingOf(d) /\ IsInjective(Line) /\ RxInv
    BY DEF IInv, RingInv
  <2>2. r = Range(ready[d])
    BY DEF Range
  <2>3. Cardinality(r) = Len(ready[d])
    BY <2>1, <2>2, RangeCardinality DEF RingOf, IInv, EthType
  <2>4. ASSUME NEW e \in EntriesOf(d)
        PROVE  /\ Cardinality(pending(e)) = IF e \in Range(Line) THEN 1 ELSE 0
               /\ Cardinality(hands(e)) = IF e = led[d] THEN 1 ELSE 0
               /\ Cardinality({e} \cap leaked) = IF e \in leaked THEN 1 ELSE 0
               /\ Cardinality({e} \cap r) = IF e \in r THEN 1 ELSE 0
    <3>1. (\A i, j \in pending(e) : i = j)
          /\ (pending(e) = {} <=> e \notin Range(Line))
      BY <2>1 DEF IsInjective, Range, Line
    <3>2. \A x \in hands(e) : x = d
      BY <2>1, EntryFacts DEF RxInv
    <3>3. hands(e) = {} <=> e # led[d]
      BY <3>2
    <3> HIDE DEF pending, hands, r
    <3>4. Cardinality(pending(e)) = IF e \in Range(Line) THEN 1 ELSE 0
      BY <3>1, AtMostOne
    <3>5. Cardinality(hands(e)) = IF e = led[d] THEN 1 ELSE 0
      BY <3>2, <3>3, AtMostOne
    <3>6. Cardinality({e} \cap leaked) = IF e \in leaked THEN 1 ELSE 0
      BY AtMostOne
    <3>7. Cardinality({e} \cap r) = IF e \in r THEN 1 ELSE 0
      BY AtMostOne
    <3> QED
      BY <3>4, <3>5, <3>6, <3>7
  <2> HIDE DEF pending, hands, r
  <2>5. \A e \in EntriesOf(d) :
            Cardinality(pending(e)) + Cardinality(hands(e))
            + Cardinality({e} \cap leaked) + Cardinality({e} \cap r) = 1
    BY <2>1, <2>2, <2>4 DEF RingOf
  <2> QED
    BY <2>1, <2>2, <2>3, <2>5 DEF RingOf, r, pending, hands
<1> QED
  BY <1>1, Invariance, PTL

(* A buffer that waits in an interrupt or that the stack owns is not       *)
(* written: recv fills only the entry that rx_thread has in hand, which is *)
(* neither, so what lkl_net_irq hands to netif_rx is what recv put there.  *)
THEOREM BuffersAreKept ==
    Spec => [][\A e \in Queued \cup given : frame'[e] = frame[e]]_vars
<1>1. IInv /\ [Next]_vars =>
          [\A e \in Queued \cup given : frame'[e] = frame[e]]_vars
  <2> SUFFICES ASSUME IInv, Next, NEW e \in Queued \cup given
               PROVE  frame'[e] = frame[e]
    OBVIOUS
  <2>1. e \in Entries /\ frame \in [Entries -> Nat]
    BY DEF IInv, EthType, SetType, FrameType, Queued
  <2>2. ASSUME NEW d \in Devs, Recv(d) PROVE frame'[e] = frame[e]
    <3>1. led[d] \in EntriesOf(d) /\ led[d] # NULL /\ dev[d] # "none"
      BY <2>2 DEF IInv, RxInv, IsOpen, Recv
    <3>2. led[d] \notin Queued /\ led[d] \notin given
      BY <3>1 DEF IInv, RingInv, RingOf, Range, Line, Queued
    <3> QED
      BY <2>1, <2>2, <3>2 DEF Recv
  <2>3. ASSUME ~\E d \in Devs : Recv(d) PROVE UNCHANGED frame
    BY <2>3 DEF Next, native, _lkl_add_eth, open, stop, Joined,
       lkl_eth_native_cleanup, _lkl_del_eth, cleanup_netdev, Arrive, RxStep,
       PollInterrupted, RecvFails, lkl_net_irq, Poll, lkl_eth_get_rx_desc,
       Drop, Trigger
  <2> QED
    BY <2>2, <2>3
<1> QED
  BY <1>1, Invariance, PTL DEF Spec

(* The driver and its thread use the interrupt layer only as IrqQueue, and *)
(* so irq.c, offers it: an interrupt always carries an entry, never NULL,  *)
(* and the handler runs only on one that is pending.                       *)
THEOREM UsesIrqQueue == Spec => IRQ!Spec
<1>1. Init => IRQ!Init
  BY DEF Init
<1>2. IInv /\ [Next]_vars => [IRQ!Next]_(IRQ!vars)
  <2> SUFFICES ASSUME IInv, Next PROVE IRQ!Next \/ UNCHANGED irq
    BY DEF vars, irq, IRQ!vars
  <2>1. ASSUME NEW d \in Devs, Trigger(d) PROVE IRQ!Next \/ UNCHANGED irq
    <3>1. led[d] \in Entries
      BY <2>1, EntryFacts DEF IInv, RxInv, EthType, Trigger
    <3> QED
      BY <2>1, <3>1 DEF Trigger, Raise, IRQ!Next
  <2>2. ASSUME NEW d \in Devs, Joined(d) PROVE IRQ!Next
    BY <2>2 DEF Joined, PurgeQueue, IRQ!Next
  <2>3. ASSUME lkl_net_irq PROVE IRQ!Next
    BY <2>3 DEF lkl_net_irq, IRQ!Next
  <2>4. ASSUME ~lkl_net_irq, ~\E d \in Devs : Trigger(d) \/ Joined(d)
        PROVE  UNCHANGED irq
    BY <2>4 DEF Next, _lkl_add_eth, open, stop,
       lkl_eth_native_cleanup, _lkl_del_eth, cleanup_netdev, Arrive, RxStep,
       PollInterrupted, RecvFails, Poll, lkl_eth_get_rx_desc, Drop, Recv
  <2> QED
    BY <2>1, <2>2, <2>3, <2>4
<1> QED
  BY <1>1, <1>2, Invariance, PTL DEF Spec, IRQ!Spec

-----------------------------------------------------------------------------
HIDE EthAssumption
HIDE DEF ETH_IRQ

(* A set of numbers that is not empty has a least element.                 *)
LEMMA LeastNumber ==
    ASSUME NEW T, T \subseteq Nat, T # {}
    PROVE  \E m \in T : \A k \in T : m <= k
<1> DEFINE R == OpToRel(<, Nat)
<1>1. IsWellFoundedOn(R, Nat)
  BY NatLessThanWellFounded
<1>2. PICK m \in T : \A k \in T : ~(<<k, m>> \in R)
  <2> HIDE DEF R
  <2> QED
    BY <1>1, WFMin
<1>3. \A k \in T : ~(k < m)
  BY <1>2 DEF OpToRel
<1> QED
  BY <1>3

(* Induction, for a set of numbers.                                        *)
LEMMA SetInduction ==
    ASSUME NEW S, 0 \in S, \A n \in Nat : n \in S => n + 1 \in S
    PROVE  Nat \subseteq S
<1> SUFFICES ASSUME Nat \ S # {} PROVE FALSE
  OBVIOUS
<1>1. PICK m \in Nat \ S : \A k \in Nat \ S : m <= k
  BY LeastNumber
<1>2. m - 1 \in Nat /\ m - 1 \in S
  BY <1>1
<1>3. (m - 1) + 1 \in S
  BY <1>2
<1> QED
  BY <1>1, <1>3

(* A function whose steps are at most m grows by at most m for each.       *)
LEMMA BoundedSteps ==
    ASSUME NEW n \in Nat, NEW m \in Nat, NEW f \in [0 .. n -> Int],
           \A k \in 0 .. n - 1 : f[k + 1] - f[k] \in 0 .. m
    PROVE  f[n] - f[0] \in 0 .. m * n
<1> DEFINE S == {k \in Nat : k <= n => f[k] - f[0] \in 0 .. m * k}
<1>1. 0 \in S
  OBVIOUS
<1>2. ASSUME NEW k \in Nat, k \in S PROVE k + 1 \in S
  <2> SUFFICES ASSUME k + 1 <= n PROVE f[k + 1] - f[0] \in 0 .. m * (k + 1)
    OBVIOUS
  <2>1. f[k] - f[0] \in 0 .. m * k
    BY <1>2
  <2>2. f[k + 1] - f[k] \in 0 .. m
    OBVIOUS
  <2>3. f[k] \in Int /\ f[k + 1] \in Int /\ f[0] \in Int
    OBVIOUS
  <2>4. m * (k + 1) = m * k + m /\ m * k \in Nat
    OBVIOUS
  <2> QED
    BY SMTT(30), <2>1, <2>2, <2>3, <2>4
<1> HIDE DEF S
<1>3. n \in S
  BY <1>1, <1>2, SetInduction
<1> QED
  BY <1>3 DEF S

(* Two functions that grow by the same steps grow by the same amount.      *)
LEMMA SameSteps ==
    ASSUME NEW n \in Nat, NEW f \in [0 .. n -> Int], NEW g \in [0 .. n -> Int],
           \A k \in 0 .. n - 1 : f[k + 1] - f[k] = g[k + 1] - g[k]
    PROVE  f[n] - f[0] = g[n] - g[0]
<1> DEFINE h == [k \in 0 .. n |-> f[k] - g[k]]
<1>1. h \in [0 .. n -> Int]
  OBVIOUS
<1>2. ASSUME NEW k \in 0 .. n - 1 PROVE h[k + 1] - h[k] \in 0 .. 0
  <2>1. /\ f[k] \in Int /\ g[k] \in Int /\ f[k + 1] \in Int /\ g[k + 1] \in Int
        /\ h[k] = f[k] - g[k] /\ h[k + 1] = f[k + 1] - g[k + 1]
    OBVIOUS
  <2>2. f[k + 1] - f[k] = g[k + 1] - g[k]
    OBVIOUS
  <2> QED
    BY SMTT(30), <2>1, <2>2
<1>3. h[n] - h[0] \in 0 .. 0 * n
  <2> HIDE DEF h
  <2> QED
    BY <1>1, <1>2, BoundedSteps
<1>4. h[n] = f[n] - g[n] /\ h[0] = f[0] - g[0] /\ 0 * n = 0
  OBVIOUS
<1>5. f[n] \in Int /\ g[n] \in Int /\ f[0] \in Int /\ g[0] \in Int
  OBVIOUS
<1> QED
  BY <1>3, <1>4, <1>5

(* The sums of a sequence of numbers exist, so Partial is what its         *)
(* definition says.                                                        *)
LEMMA PartialExists ==
    ASSUME NEW q \in Seq(Int)
    PROVE  \E t \in [0 .. Len(q) -> Int] :
              t[0] = 0 /\ \A k \in 0 .. Len(q) - 1 : t[k + 1] = t[k] + q[k + 1]
<1> DEFINE Sums(t, n) ==
             t[0] = 0 /\ \A k \in 0 .. n - 1 : t[k + 1] = t[k] + q[k + 1]
           S == {n \in Nat : n <= Len(q) =>
                    \E t \in [0 .. n -> Int] : Sums(t, n)}
<1>1. 0 \in S
  <2>1. /\ [k \in 0 .. 0 |-> 0] \in [0 .. 0 -> Int]
        /\ Sums([k \in 0 .. 0 |-> 0], 0)
    OBVIOUS
  <2> QED
    BY <2>1
<1>2. ASSUME NEW n \in Nat, n \in S PROVE n + 1 \in S
  <2> HIDE DEF Sums
  <2> SUFFICES ASSUME n + 1 <= Len(q)
               PROVE  \E t \in [0 .. n + 1 -> Int] : Sums(t, n + 1)
    OBVIOUS
  <2>1. PICK t \in [0 .. n -> Int] : Sums(t, n)
    <3>1. n <= Len(q)
      OBVIOUS
    <3> QED
      BY <1>2, <3>1
  <2> USE DEF Sums
  <2> DEFINE u == [k \in 0 .. n + 1 |->
                      IF k = n + 1 THEN t[n] + q[n + 1] ELSE t[k]]
  <2>2. q[n + 1] \in Int /\ t[n] \in Int
    OBVIOUS
  <2>3. u \in [0 .. n + 1 -> Int]
    BY <2>2
  <2>4. u[0] = 0
    BY <2>1
  <2>5. ASSUME NEW k \in 0 .. n PROVE u[k + 1] = u[k] + q[k + 1]
    BY <2>1, <2>5
  <2>6. Sums(u, n + 1)
    <3>1. (n + 1) - 1 = n
      OBVIOUS
    <3> HIDE DEF u
    <3> QED
      BY <2>4, <2>5, <3>1
  <2> HIDE DEF u, Sums
  <2> QED
    BY <2>3, <2>6
<1> HIDE DEF S
<1>3. Len(q) \in S
  BY SMTT(30), <1>1, <1>2, SetInduction
<1> QED
  BY <1>3 DEF S

(* What Partial computes: the first sum is 0, and each adds one element.   *)
LEMMA PartialSums ==
    ASSUME NEW q \in Seq(Int)
    PROVE  /\ Partial(q) \in [0 .. Len(q) -> Int] /\ Partial(q)[0] = 0
           /\ \A k \in 0 .. Len(q) - 1 :
                 Partial(q)[k + 1] = Partial(q)[k] + q[k + 1]
<1> DEFINE Body(t) ==
             [k \in 0 .. Len(q) |-> IF k = 0 THEN 0 ELSE t[k - 1] + q[k]]
<1>1. PICK u \in [0 .. Len(q) -> Int] :
           u[0] = 0 /\ \A k \in 0 .. Len(q) - 1 : u[k + 1] = u[k] + q[k + 1]
  BY PartialExists
<1>2. u = Body(u)
  BY <1>1
<1>3. Partial(q) = Body(Partial(q))
  <2>1. Partial(q) = CHOOSE t : t = Body(t)
    BY DEF Partial
  <2> HIDE DEF Body
  <2> QED
    BY <1>2, <2>1
<1>4. /\ Partial(q)[0] = 0
      /\ \A k \in 0 .. Len(q) - 1 :
                 Partial(q)[k + 1] = Partial(q)[k] + q[k + 1]
  BY <1>3
<1>5. \A k \in 0 .. Len(q) : Partial(q)[k] = u[k]
  <2> DEFINE S == {k \in Nat : k <= Len(q) => Partial(q)[k] = u[k]}
  <2>1. 0 \in S
    BY <1>1, <1>4
  <2>2. ASSUME NEW k \in Nat, k \in S PROVE k + 1 \in S
    <3> SUFFICES ASSUME k + 1 <= Len(q) PROVE Partial(q)[k + 1] = u[k + 1]
      OBVIOUS
    <3>1. k \in 0 .. Len(q) - 1 /\ Partial(q)[k] = u[k]
      BY <2>2
    <3> QED
      BY <1>1, <1>4, <3>1
  <2> HIDE DEF S
  <2>3. Nat \subseteq S
    BY <2>1, <2>2, SetInduction
  <2> QED
    BY <2>3 DEF S
<1>6. Partial(q) = [k \in 0 .. Len(q) |-> Partial(q)[k]]
  BY <1>3
<1>7. Partial(q) \in [0 .. Len(q) -> Int]
  BY <1>5, <1>6
<1> QED
  BY <1>4, <1>7

(* Division with remainder.                                                *)
LEMMA DivMod ==
    ASSUME NEW a \in Nat, NEW d \in Nat \ {0}
    PROVE  /\ a \div d \in Nat /\ a % d \in 0 .. d - 1
           /\ a = d * (a \div d) + (a % d)
<1> DEFINE q == a \div d
           r == a % d
<1>1. q \in Int /\ r \in 0 .. d - 1 /\ a = d * q + r
  OBVIOUS
<1> HIDE DEF q, r
<1>2. q >= 0
  <2> SUFFICES ASSUME q <= -1 PROVE FALSE
    BY <1>1
  <2>1. d * q <= d * (-1) /\ d * (-1) = -d /\ d * q \in Int
    BY <1>1
  <2> QED
    BY <1>1, <2>1
<1> QED
  BY <1>1, <1>2 DEF q, r

(* Quotient and remainder are unique.                                      *)
LEMMA DivModUnique ==
    ASSUME NEW d \in Nat \ {0}, NEW q \in Nat, NEW r \in 0 .. d - 1
    PROVE  (d * q + r) \div d = q /\ (d * q + r) % d = r
<1> DEFINE a == d * q + r
           p == a \div d
           t == a % d
<1>1. a \in Nat /\ d * q \in Nat
  OBVIOUS
<1>2. p \in Nat /\ t \in 0 .. d - 1 /\ a = d * p + t
  BY <1>1, DivMod
<1> HIDE DEF p, t
<1>3. d * q + r = d * p + t
  BY <1>2
<1>4. CASE p >= q + 1
  <2>1. d * p >= d * (q + 1) /\ d * (q + 1) = d * q + d
    BY <1>2, <1>4
  <2>2. d * p \in Nat
    BY <1>2
  <2> QED
    BY <1>1, <1>2, <1>3, <2>1, <2>2
<1>5. CASE q >= p + 1
  <2>1. d * q >= d * (p + 1) /\ d * (p + 1) = d * p + d
    BY <1>2, <1>5
  <2>2. d * p \in Nat
    BY <1>2
  <2> QED
    BY <1>1, <1>2, <1>3, <2>1, <2>2
<1>6. CASE p = q
  BY <1>1, <1>2, <1>3, <1>6 DEF p, t
<1> QED
  BY <1>2, <1>4, <1>5, <1>6

(* The remainder of a negative number is not negative.                     *)
LEMMA NegativeMod ==
    ASSUME NEW d \in Nat \ {0}, NEW r \in 0 .. d - 1
    PROVE  (r - d) % d = r
<1> DEFINE a == r - d
           p == a \div d
           t == a % d
<1>1. a \in Int /\ p \in Int /\ t \in 0 .. d - 1 /\ a = d * p + t
  OBVIOUS
<1> HIDE DEF p, t
<1>2. p < 0
  <2> SUFFICES ASSUME p >= 0 PROVE FALSE
    BY <1>1
  <2>1. d * p >= 0
    BY <1>1
  <2> QED
    BY <1>1, <2>1
<1>3. p > -2
  <2> SUFFICES ASSUME p <= -2 PROVE FALSE
    BY <1>1
  <2>1. d * p <= d * (-2) /\ d * p \in Int
    BY <1>1
  <2> QED
    BY <1>1, <2>1
<1>4. p = -1 /\ d * (-1) = -d
  BY <1>1, <1>2, <1>3
<1>5. t = r
  BY <1>1, <1>4
<1> QED
  BY <1>5 DEF t

(* The widths.                                                             *)
LEMMA Widths ==
    /\ Byte \in Nat /\ Byte >= 2 /\ Half \in Nat /\ Half >= 4 /\ Word \in Nat
    /\ Half <= Word \div 2 /\ Word \div 2 \in Nat /\ 2 * (Word \div 2) <= Word
    /\ Long \in Nat /\ Word <= Long
<1>1. Byte \in Nat /\ Byte >= 2
  BY WidthAssumption
<1>2. Byte * Byte \in Nat /\ Byte * Byte >= 4
  <2>1. Byte * Byte >= 2 * Byte
    BY <1>1
  <2> QED
    BY <1>1, <2>1
<1>3. Half \in Nat /\ Half >= 4
  BY <1>2 DEF Half
<1>4. Word \in Nat /\ Word >= 4 * Half
  <2>1. Half * Half >= 4 * Half /\ Half * Half \in Nat
    BY <1>3
  <2> QED
    BY <2>1 DEF Word
<1>5. /\ Word \div 2 \in Nat /\ 2 * (Word \div 2) <= Word
      /\ Half <= Word \div 2
  BY <1>3, <1>4
<1>6. Word * Word \in Nat /\ Word * Word >= Word
  BY <1>3, <1>4
<1> QED
  BY <1>1, <1>3, <1>4, <1>5, <1>6, WidthAssumption

(* from32to16 keeps the number modulo 0xffff, and gives 0 only for 0.      *)
LEMMA FoldFacts ==
    ASSUME NEW x \in 0 .. Word - 1
    PROVE  /\ from32to16(x) \in 0 .. Half - 1 /\ from32to16(x) <= x
           /\ x > 0 => from32to16(x) > 0
           /\ \E k \in Nat : x = (Half - 1) * k + from32to16(x)
<1> DEFINE q == x \div Half
           r == x % Half
           y == r + q
           z == (y % Half) + (y \div Half)
<1>1. x \in Nat /\ Half \in Nat \ {0} /\ Half >= 4 /\ x < Half * Half
  BY Widths DEF Word
<1>2. q \in Nat /\ r \in 0 .. Half - 1 /\ x = Half * q + r
  BY <1>1, DivMod
<1>3. from32to16(x) = z % Half
  BY DEF from32to16
<1> HIDE DEF q, r
<1>4. q <= Half - 1
  <2> SUFFICES ASSUME q >= Half PROVE FALSE
    BY <1>1, <1>2
  <2>1. Half * q >= Half * Half
    BY <1>1, <1>2
  <2>2. Half * q \in Nat /\ Half * Half \in Nat
    BY <1>1, <1>2
  <2> QED
    BY <1>1, <1>2, <2>1, <2>2
<1>5. x = (Half - 1) * q + y /\ (Half - 1) * q \in Nat /\ y \in Nat
  <2>1. (Half - 1) * q = Half * q - q /\ Half * q \in Nat
    BY <1>1, <1>2
  <2> QED
    BY <1>1, <1>2, <2>1
<1>6. CASE y < Half
  <2>1. y \div Half = 0 /\ y % Half = y
    <3>1. y \in 0 .. Half - 1 /\ Half * 0 + y = y
      BY <1>1, <1>5, <1>6
    <3> HIDE DEF y
    <3> QED
      BY <1>1, <3>1, DivModUnique
  <2>2. z = y
    BY <1>5, <2>1
  <2>3. from32to16(x) = y
    BY <1>3, <2>1, <2>2
  <2>4. x > 0 => y > 0
    BY <1>1, <1>2
  <2>5. \E k \in Nat : x = (Half - 1) * k + y
    BY <1>2, <1>5
  <2>6. y \in 0 .. Half - 1 /\ y <= x
    BY <1>1, <1>5, <1>6
  <2> HIDE DEF y
  <2> QED
    BY <2>3, <2>4, <2>5, <2>6
<1>7. CASE y >= Half
  <2>1. y \div Half = 1 /\ y % Half = y - Half
    <3>1. y - Half \in 0 .. Half - 1 /\ Half * 1 + (y - Half) = y
      BY <1>1, <1>2, <1>4, <1>7
    <3> DEFINE s == y - Half
    <3> HIDE DEF s
    <3>2. (Half * 1 + s) \div Half = 1 /\ (Half * 1 + s) % Half = s
      BY <1>1, <3>1, DivModUnique DEF s
    <3> QED
      BY <3>1, <3>2 DEF s
  <2>2. z = (y - Half) + 1 /\ z \in 1 .. Half - 1
    BY <1>1, <1>2, <1>4, <1>7, <2>1
  <2>3. z % Half = z
    <3>1. z \in 0 .. Half - 1 /\ Half * 0 + z = z
      BY <1>1, <2>2
    <3> HIDE DEF z
    <3> QED
      BY <1>1, <3>1, DivModUnique
  <2>4. from32to16(x) = (y - Half) + 1
    BY <1>3, <2>2, <2>3
  <2>5. x = (Half - 1) * (q + 1) + from32to16(x)
    <3>1. (Half - 1) * (q + 1) = (Half - 1) * q + (Half - 1)
      BY <1>1, <1>2
    <3> HIDE DEF y
    <3> QED
      BY <1>1, <1>2, <1>5, <2>4, <3>1
  <2>6. from32to16(x) \in 1 .. Half - 1
    BY <2>2, <2>4
  <2>7. from32to16(x) <= x
    <3>1. (Half - 1) * (q + 1) \in Nat
      BY <1>1, <1>2
    <3> QED
      BY <1>1, <2>5, <2>6, <3>1
  <2>8. \E k \in Nat : x = (Half - 1) * k + from32to16(x)
    <3>1. q + 1 \in Nat
      BY <1>2
    <3> QED
      BY <2>5, <3>1
  <2>9. from32to16(x) \in 0 .. Half - 1 /\ from32to16(x) > 0
    BY <1>1, <2>6
  <2> QED
    BY <2>7, <2>8, <2>9, Zenon
<1> QED
  BY <1>1, <1>5, <1>6, <1>7

(* Small numbers are left as they are.                                     *)
LEMMA FoldSmall == ASSUME NEW x \in 0 .. Half - 1 PROVE from32to16(x) = x
<1>1. x \in 0 .. Word - 1
  BY Widths
<1>2. PICK k \in Nat : x = (Half - 1) * k + from32to16(x)
  BY <1>1, FoldFacts
<1> DEFINE z == from32to16(x)
<1>3. z \in 0 .. Half - 1 /\ z <= x /\ (x > 0 => z > 0)
  BY <1>1, FoldFacts
<1> HIDE DEF z
<1>4. k # 0 => (Half - 1) * k >= Half - 1
  BY Widths
<1>5. (Half - 1) * k \in Nat /\ (k = 0 => (Half - 1) * k = 0)
  BY Widths
<1>6. x = (Half - 1) * k + z
  BY <1>2 DEF z
<1>7. z = x
  BY <1>3, <1>4, <1>5, <1>6, Widths
<1> QED
  BY <1>7 DEF z

(* Two u16 that are congruent modulo 0xffff, and both 0 or both not, are   *)
(* equal.                                                                  *)
LEMMA SameClass ==
    ASSUME NEW y \in 0 .. Half - 1, NEW z \in 0 .. Half - 1, y = 0 <=> z = 0,
           NEW j \in Nat, NEW k \in Nat,
           (Half - 1) * j + y = (Half - 1) * k + z
    PROVE  y = z
<1> DEFINE d == Half - 1
<1>1. d \in Nat \ {0}
  BY Widths
<1>2. y \in 0 .. d /\ z \in 0 .. d /\ d * j + y = d * k + z
  OBVIOUS
<1> HIDE DEF d
<1>3. d * j \in Nat /\ d * k \in Nat
  BY <1>1
<1>4. CASE j >= k + 1
  <2>1. d * j >= d * (k + 1) /\ d * (k + 1) = d * k + d
    BY <1>1, <1>4
  <2> QED
    BY <1>1, <1>2, <1>3, <2>1
<1>5. CASE k >= j + 1
  <2>1. d * k >= d * (j + 1) /\ d * (j + 1) = d * j + d
    BY <1>1, <1>5
  <2> QED
    BY <1>1, <1>2, <1>3, <2>1
<1>6. CASE j = k
  BY <1>2, <1>3, <1>6
<1> QED
  BY <1>4, <1>5, <1>6

(* Adding to a sum before or after it is folded gives the same.            *)
LEMMA FoldAdd ==
    ASSUME NEW x \in 0 .. Word - 1, NEW y \in Nat, x + y \in 0 .. Word - 1
    PROVE  from32to16(from32to16(x) + y) = from32to16(x + y)
<1> DEFINE u == from32to16(x)
           v == from32to16(u + y)
           w == from32to16(x + y)
<1>1. u \in Nat /\ u <= x /\ (x > 0 => u > 0)
  BY FoldFacts, Widths
<1>2. PICK i \in Nat : x = (Half - 1) * i + u
  BY FoldFacts
<1> HIDE DEF u
<1>3. u + y \in 0 .. Word - 1 /\ (u + y = 0 <=> x + y = 0)
  BY <1>1, Widths
<1>4. /\ v \in 0 .. Half - 1 /\ v <= u + y
      /\ u + y > 0 => v > 0
  BY <1>3, FoldFacts
<1>5. PICK j \in Nat : u + y = (Half - 1) * j + v
  BY <1>3, FoldFacts
<1>6. w \in 0 .. Half - 1 /\ w <= x + y /\ (x + y > 0 => w > 0)
  BY FoldFacts
<1>7. PICK k \in Nat : x + y = (Half - 1) * k + w
  BY FoldFacts
<1> HIDE DEF v, w
<1>8. (Half - 1) * (i + j) + v = (Half - 1) * k + w
  <2>1. (Half - 1) * (i + j) = (Half - 1) * i + (Half - 1) * j
    BY Widths
  <2>2. /\ (Half - 1) * i \in Int /\ (Half - 1) * j \in Int
        /\ (Half - 1) * k \in Int
    BY Widths
  <2> QED
    BY <1>1, <1>2, <1>4, <1>5, <1>6, <1>7, <2>1, <2>2
<1>9. v = 0 <=> w = 0
  BY <1>1, <1>3, <1>4, <1>6
<1>10. i + j \in Nat
  OBVIOUS
<1>11. v = w
  BY <1>4, <1>6, <1>8, <1>9, <1>10, SameClass
<1> QED
  BY <1>11 DEF u, v, w

(* What is passed to from32to16 when the int does not overflow.            *)
LEMMA NoOverflow ==
    ASSUME NEW x \in 0 .. (Word \div 2) - 1 PROVE ULong(Int32(x)) = x
<1> DEFINE h == Word \div 2
<1>1. /\ h \in Nat /\ h + h <= Word /\ Word \in Nat \ {0}
      /\ x + h \in 0 .. Word - 1 /\ Long \in Nat \ {0} /\ x \in 0 .. Long - 1
  BY Widths
<1> HIDE DEF h
<1>2. (Word * 0 + (x + h)) % Word = x + h /\ (Long * 0 + x) % Long = x
  BY <1>1, DivModUnique
<1>3. Word * 0 + (x + h) = x + h /\ Long * 0 + x = x
  BY <1>1
<1>4. Int32(x) = (x + h) - h
  BY <1>2, <1>3 DEF Int32, h
<1>5. Int32(x) = x
  BY <1>1, <1>4
<1> QED
  BY <1>2, <1>3, <1>5 DEF ULong

(* The sum of a sequence that is cut in two.                               *)
LEMMA SumSplit ==
    ASSUME NEW q \in Seq(Int), NEW p \in Seq(Int), NEW r \in Seq(Int),
           Len(q) = Len(p) + Len(r),
           \A k \in 1 .. Len(p) : q[k] = p[k],
           \A k \in 1 .. Len(r) : q[Len(p) + k] = r[k]
    PROVE  SumOf(q) = SumOf(p) + SumOf(r)
<1> DEFINE P == Partial(p)
           Q == Partial(q)
           R == Partial(r)
           m == Len(p)
           n == Len(r)
<1>1. /\ P \in [0 .. m -> Int] /\ P[0] = 0
      /\ \A k \in 0 .. m - 1 : P[k + 1] = P[k] + p[k + 1]
  BY PartialSums
<1>2. /\ R \in [0 .. n -> Int] /\ R[0] = 0
      /\ \A k \in 0 .. n - 1 : R[k + 1] = R[k] + r[k + 1]
  BY PartialSums
<1>3. /\ Q \in [0 .. m + n -> Int] /\ Q[0] = 0
      /\ \A k \in 0 .. (m + n) - 1 : Q[k + 1] = Q[k] + q[k + 1]
  BY PartialSums
<1>4. SumOf(p) = P[m] /\ SumOf(r) = R[n] /\ SumOf(q) = Q[m + n]
  BY DEF SumOf
<1>5. m \in Nat /\ n \in Nat
  OBVIOUS
<1>6. /\ \A k \in 1 .. m : q[k] = p[k] /\ p[k] \in Int
      /\ \A k \in 1 .. n : q[m + k] = r[k] /\ r[k] \in Int
  OBVIOUS
<1> HIDE DEF P, Q, R, m, n
<1>7. Q[m] = P[m]
  <2> DEFINE f == [k \in 0 .. m |-> Q[k]]
  <2>1. f \in [0 .. m -> Int]
    BY <1>3, <1>5
  <2>2. ASSUME NEW k \in 0 .. m - 1 PROVE f[k + 1] - f[k] = P[k + 1] - P[k]
    <3>0. /\ k \in 0 .. (m + n) - 1 /\ k + 1 \in 1 .. m
          /\ f[k + 1] = Q[k + 1] /\ f[k] = Q[k]
      BY <1>5
    <3>1. f[k + 1] = f[k] + p[k + 1] /\ P[k + 1] = P[k] + p[k + 1]
      BY <1>1, <1>3, <1>6, <3>0
    <3>2. f[k] \in Int /\ P[k] \in Int /\ p[k + 1] \in Int
      BY <1>1, <1>3, <1>5, <1>6
    <3> HIDE DEF f
    <3> QED
      BY SMTT(30), <3>1, <3>2
  <2>3. f[m] = Q[m] /\ f[0] = 0
    BY <1>3, <1>5
  <2> HIDE DEF f
  <2>4. f[m] - f[0] = P[m] - P[0]
    BY <1>1, <1>5, <2>1, <2>2, SameSteps
  <2>5. f[m] \in Int /\ P[m] \in Int
    BY <1>1, <1>5, <2>1
  <2> QED
    BY <1>1, <2>3, <2>4, <2>5
<1>8. Q[m + n] - Q[m] = R[n]
  <2> DEFINE f == [k \in 0 .. n |-> Q[m + k]]
  <2>1. f \in [0 .. n -> Int]
    BY <1>3, <1>5
  <2>2. ASSUME NEW k \in 0 .. n - 1 PROVE f[k + 1] - f[k] = R[k + 1] - R[k]
    <3>1. m + k \in 0 .. (m + n) - 1 /\ k + 1 \in 1 .. n
      BY <1>5
    <3>2. Q[(m + k) + 1] = Q[m + k] + q[(m + k) + 1]
      BY <1>3, <3>1
    <3>3. (m + k) + 1 = m + (k + 1)
      BY <1>5
    <3>4. q[m + (k + 1)] = r[k + 1] /\ r[k + 1] \in Int
      BY <1>6, <3>1
    <3>5. f[k + 1] = Q[m + (k + 1)] /\ f[k] = Q[m + k]
      BY <1>5
    <3>6. f[k + 1] = f[k] + r[k + 1]
      BY <3>2, <3>3, <3>4, <3>5
    <3>7. R[k + 1] = R[k] + r[k + 1]
      BY <1>2
    <3>8. f[k] \in Int /\ R[k] \in Int
      BY <1>2, <1>5, <2>1
    <3> HIDE DEF f
    <3> QED
      BY <3>4, <3>6, <3>7, <3>8
  <2>3. f[n] = Q[m + n] /\ f[0] = Q[m]
    BY <1>5
  <2> HIDE DEF f
  <2>4. f[n] - f[0] = R[n] - R[0]
    BY <1>2, <1>5, <2>1, <2>2, SameSteps
  <2>5. f[n] \in Int /\ f[0] \in Int /\ R[n] \in Int
    BY <1>2, <1>5, <2>1
  <2> QED
    BY <1>2, <2>3, <2>4, <2>5
<1>9. Q[m + n] \in Int /\ Q[m] \in Int /\ R[n] \in Int
  BY <1>2, <1>3, <1>5
<1> QED
  BY <1>4, <1>7, <1>8, <1>9

(* Two bytes make a u16.                                                   *)
LEMMA WordRange ==
    ASSUME NEW x \in Bytes, NEW y \in Bytes
    PROVE  x + Byte * y \in 0 .. Half - 1
<1>1. Byte * y <= Byte * (Byte - 1) /\ Byte * y \in Nat
  BY Widths DEF Bytes
<1>2. Byte * (Byte - 1) = Byte * Byte - Byte /\ Byte * Byte \in Nat
  BY Widths
<1> QED
  BY <1>1, <1>2, Widths DEF Bytes, Half

(* The words of a block, and the weights of its bytes.                     *)
LEMMA WordsFacts ==
    ASSUME NEW b \in Seq(Bytes)
    PROVE  /\ Words(b) \in Seq(Int) /\ Weights(b) \in Seq(Int)
           /\ Len(Words(b)) = (Len(b) + 1) \div 2 /\ Len(Weights(b)) = Len(b)
           /\ \A k \in 1 .. Len(Words(b)) : Words(b)[k] \in 0 .. Half - 1
<1> DEFINE n == (Len(b) + 1) \div 2
<1>1. n \in Nat /\ Len(b) \in Nat /\ \A i \in 1 .. Len(b) : b[i] \in Bytes
  OBVIOUS
<1>2. ASSUME NEW k \in 1 .. n PROVE u16(b, 2 * k - 1) \in 0 .. Half - 1
  <2>1. 2 * k - 1 \in 1 .. Len(b)
    BY <1>1
  <2>2. CASE 2 * k - 1 < Len(b)
    <3>1. b[2 * k - 1] \in Bytes /\ b[(2 * k - 1) + 1] \in Bytes
      BY <1>1, <2>1, <2>2
    <3> QED
      BY <2>2, <3>1, WordRange DEF u16
  <2>3. CASE ~(2 * k - 1 < Len(b))
    <3>1. b[2 * k - 1] \in Bytes /\ 0 \in Bytes
      BY <1>1, <2>1, Widths DEF Bytes
    <3>2. b[2 * k - 1] + Byte * 0 \in 0 .. Half - 1
      BY <3>1, WordRange
    <3>3. b[2 * k - 1] + Byte * 0 = b[2 * k - 1]
      BY <3>1, Widths DEF Bytes
    <3> QED
      BY <2>3, <3>2, <3>3 DEF u16
  <2> QED
    BY <2>2, <2>3
<1>3. ASSUME NEW i \in 1 .. Len(b)
      PROVE  (IF i % 2 = 1 THEN b[i] ELSE Byte * b[i]) \in Int
  <2>1. b[i] \in Int /\ Byte * b[i] \in Int
    BY <1>1, Widths DEF Bytes
  <2> QED
    BY <2>1
<1>4. Words(b) = [k \in 1 .. n |-> u16(b, 2 * k - 1)]
  BY DEF Words
<1> HIDE DEF n
<1>5. Words(b) \in [1 .. n -> Int]
  BY <1>2, <1>4, Widths
<1>6. Words(b) \in Seq(Int) /\ Len(Words(b)) = n
  BY <1>1, <1>5
<1>7. Weights(b) \in [1 .. Len(b) -> Int]
  BY <1>3 DEF Weights
<1>8. Weights(b) \in Seq(Int) /\ Len(Weights(b)) = Len(b)
  BY <1>1, <1>7
<1>9. \A k \in 1 .. n : Words(b)[k] \in 0 .. Half - 1
  BY <1>2, <1>4
<1> QED
  BY <1>6, <1>8, <1>9 DEF n

(* The total is at most 0xffff for each word.                              *)
LEMMA TotalRange ==
    ASSUME NEW b \in Seq(Bytes)
    PROVE  Total(b) \in 0 .. (Half - 1) * ((Len(b) + 1) \div 2)
<1> DEFINE q == Words(b)
           n == Len(q)
           P == Partial(q)
           m == Half - 1
<1>1. /\ q \in Seq(Int) /\ n = (Len(b) + 1) \div 2 /\ n \in Nat /\ m \in Nat
      /\ \A k \in 1 .. n : q[k] \in 0 .. m
  BY WordsFacts, Widths
<1>2. /\ P \in [0 .. n -> Int] /\ P[0] = 0
      /\ \A k \in 0 .. n - 1 : P[k + 1] = P[k] + q[k + 1]
  BY <1>1, PartialSums
<1>3. Total(b) = P[n]
  BY DEF Total, SumOf
<1> HIDE DEF q, n, P, m
<1>4. ASSUME NEW k \in 0 .. n - 1 PROVE P[k + 1] - P[k] \in 0 .. m
  <2>0. k + 1 \in 1 .. n /\ k \in 0 .. n
    BY <1>1
  <2>1. P[k + 1] = P[k] + q[k + 1] /\ P[k] \in Int /\ q[k + 1] \in 0 .. m
    <3>1. q[k + 1] \in 0 .. m
      BY <1>1, <2>0
    <3>2. P[k] \in Int
      BY <1>2, <2>0
    <3>3. P[k + 1] = P[k] + q[k + 1]
      BY <1>2
    <3> QED
      BY <3>1, <3>2, <3>3
  <2> QED
    BY <1>1, <2>1
<1>5. P[n] - P[0] \in 0 .. m * n
  BY <1>1, <1>2, <1>4, BoundedSteps
<1>6. P[n] \in Int /\ m * n \in Int
  BY <1>1, <1>2
<1>7. Total(b) \in 0 .. m * n
  BY <1>2, <1>3, <1>5, <1>6
<1> QED
  BY <1>1, <1>7 DEF m

(* A length is a number.                                                   *)
LEMMA LenIsNat == ASSUME NEW S, NEW q \in Seq(S) PROVE Len(q) \in Nat
OBVIOUS

(* The words of two blocks, of which the first has an even length.         *)
LEMMA HalfLengths ==
    ASSUME NEW i \in Nat, NEW j \in Nat, i % 2 = 0
    PROVE  /\ i = 2 * ((i + 1) \div 2)
           /\ (i + 1) \div 2 \in Nat /\ (j + 1) \div 2 \in Nat
           /\ ((i + j) + 1) \div 2 = ((i + 1) \div 2) + ((j + 1) \div 2)
OBVIOUS

(* The total of a block that is cut at an even length.                     *)
LEMMA TotalSplit ==
    ASSUME NEW b \in Seq(Bytes), NEW c \in Seq(Bytes), NEW d \in Seq(Bytes),
           Len(b) = Len(c) + Len(d), Len(c) % 2 = 0,
           \A i \in 1 .. Len(c) : b[i] = c[i],
           \A i \in 1 .. Len(d) : b[Len(c) + i] = d[i]
    PROVE  Total(b) = Total(c) + Total(d)
<1> DEFINE m == (Len(c) + 1) \div 2
           n == (Len(d) + 1) \div 2
<1>0. Len(c) \in Nat /\ Len(d) \in Nat
  BY LenIsNat
<1>1. Len(c) = 2 * m /\ m \in Nat /\ n \in Nat /\ (Len(b) + 1) \div 2 = m + n
  <2>1. /\ Len(c) = 2 * m /\ m \in Nat /\ n \in Nat
        /\ ((Len(c) + Len(d)) + 1) \div 2 = m + n
    BY <1>0, HalfLengths, Zenon
  <2> QED
    BY <2>1, Zenon
<1>2. /\ Words(b) \in Seq(Int) /\ Words(c) \in Seq(Int)
      /\ Words(d) \in Seq(Int)
      /\ Len(Words(b)) = m + n /\ Len(Words(c)) = m /\ Len(Words(d)) = n
  BY <1>1, WordsFacts
<1>3. ASSUME NEW k \in 1 .. m PROVE Words(b)[k] = Words(c)[k]
  <2>1. /\ 2 * k - 1 < Len(c) /\ 2 * k - 1 < Len(b)
        /\ 2 * k - 1 \in 1 .. Len(c) /\ (2 * k - 1) + 1 \in 1 .. Len(c)
    <3> DEFINE i == Len(c)
               j == Len(d)
    <3>1. i \in Nat /\ j \in Nat /\ i = 2 * m /\ Len(b) = i + j
      BY <1>0, <1>1
    <3> HIDE DEF i, j, m
    <3>2. /\ 2 * k - 1 < i /\ 2 * k - 1 < i + j /\ 2 * k - 1 \in 1 .. i
          /\ (2 * k - 1) + 1 \in 1 .. i
      BY <1>1, <3>1
    <3> QED
      BY <3>1, <3>2 DEF i
  <2>2. u16(b, 2 * k - 1) = u16(c, 2 * k - 1)
    BY <2>1 DEF u16
  <2>3. k \in 1 .. m + n
    BY <1>1
  <2> QED
    BY <1>1, <2>2, <2>3 DEF Words
<1>4. ASSUME NEW k \in 1 .. n PROVE Words(b)[m + k] = Words(d)[k]
  <2>1. /\ 2 * (m + k) - 1 = Len(c) + (2 * k - 1)
        /\ (2 * (m + k) - 1) + 1 = Len(c) + ((2 * k - 1) + 1)
        /\ 2 * (m + k) - 1 < Len(b) <=> 2 * k - 1 < Len(d)
        /\ 2 * k - 1 \in 1 .. Len(d)
        /\ 2 * k - 1 < Len(d) => (2 * k - 1) + 1 \in 1 .. Len(d)
    <3>1. 2 * k - 1 \in 1 .. Len(d)
      BY <1>0
    <3> DEFINE l == Len(d)
    <3>2. l \in Nat /\ Len(b) = 2 * m + l /\ Len(c) = 2 * m
      BY <1>0, <1>1
    <3> HIDE DEF l, m, n
    <3> QED
      BY <1>1, <3>1, <3>2 DEF l
  <2>2. u16(b, 2 * (m + k) - 1) = u16(d, 2 * k - 1)
    <3>1. b[Len(c) + (2 * k - 1)] = d[2 * k - 1]
      BY <2>1
    <3>2. CASE 2 * k - 1 < Len(d)
      <4>1. b[Len(c) + ((2 * k - 1) + 1)] = d[(2 * k - 1) + 1]
        BY <2>1, <3>2
      <4> QED
        BY <2>1, <3>1, <3>2, <4>1 DEF u16
    <3>3. CASE ~(2 * k - 1 < Len(d))
      BY <2>1, <3>1, <3>3 DEF u16
    <3> QED
      BY <3>2, <3>3
  <2>3. m + k \in 1 .. m + n
    BY <1>1
  <2> QED
    BY <1>1, <2>2, <2>3 DEF Words
<1> HIDE DEF m, n
<1>5. SumOf(Words(b)) = SumOf(Words(c)) + SumOf(Words(d))
  <2> DEFINE q == Words(b)
             p == Words(c)
             r == Words(d)
  <2> HIDE DEF q, p, r
  <2>1. /\ q \in Seq(Int) /\ p \in Seq(Int) /\ r \in Seq(Int)
        /\ Len(q) = Len(p) + Len(r) /\ Len(p) = m /\ Len(r) = n
    BY <1>2 DEF q, p, r
  <2>2. \A k \in 1 .. Len(p) : q[k] = p[k]
    BY <1>3, <2>1 DEF q, p
  <2>3. \A k \in 1 .. Len(r) : q[Len(p) + k] = r[k]
    BY <1>4, <2>1 DEF q, r
  <2>4. SumOf(q) = SumOf(p) + SumOf(r)
    BY <2>1, <2>2, <2>3, SumSplit
  <2> QED
    BY <2>4 DEF q, p, r
<1> QED
  BY <1>5 DEF Total

(* The total of two bytes is the u16 they make.                            *)
LEMMA TotalOfWord ==
    ASSUME NEW x \in Bytes, NEW y \in Bytes
    PROVE  <<x, y>> \in Seq(Bytes) /\ Total(<<x, y>>) = x + Byte * y
<1> DEFINE b == <<x, y>>
           q == Words(b)
<1>1. b \in Seq(Bytes) /\ Len(b) = 2 /\ b[1] = x /\ b[2] = y
  OBVIOUS
<1> HIDE DEF b
<1>2. q \in Seq(Int) /\ Len(q) = 1 /\ q[1] = u16(b, 1)
  <2>1. (Len(b) + 1) \div 2 = 1 /\ 2 * 1 - 1 = 1
    BY <1>1
  <2> QED
    <3>1. q = [k \in 1 .. 1 |-> u16(b, 2 * k - 1)]
      BY <2>1 DEF Words
    <3>2. q[1] = u16(b, 1)
      BY <2>1, <3>1
    <3> QED
      BY <1>1, <2>1, <3>2, WordsFacts
<1>3. u16(b, 1) = x + Byte * y
  BY <1>1 DEF u16
<1> HIDE DEF q
<1>4. Partial(q)[1] = q[1]
  <2>1. Partial(q)[0] = 0 /\ Partial(q)[0 + 1] = Partial(q)[0] + q[0 + 1]
    BY <1>2, PartialSums
  <2>2. q[1] \in Int
    BY <1>2
  <2> QED
    BY <2>1, <2>2
<1> QED
  BY <1>1, <1>2, <1>3, <1>4 DEF Total, SumOf, b, q

(* What the loop adds up is the number that the bytes stand for: a byte at *)
(* an odd offset counts Byte times, and an odd last byte once.             *)
LEMMA TotalIsValue == ASSUME NEW b \in Seq(Bytes) PROVE Total(b) = Value(b)
<1> DEFINE l == Len(b)
           n == l \div 2
           w == Words(b)
           v == Weights(b)
           W == Partial(w)
           V == Partial(v)
<1>1. l \in Nat /\ n \in Nat /\ (l = 2 * n \/ l = 2 * n + 1)
  <2>1. l \in Nat
    BY LenIsNat
  <2> HIDE DEF l
  <2> QED
    BY <2>1
<1>2. /\ w \in Seq(Int) /\ v \in Seq(Int)
      /\ Len(w) = (l + 1) \div 2 /\ Len(v) = l
  BY WordsFacts
<1>3. /\ W \in [0 .. Len(w) -> Int] /\ W[0] = 0
      /\ \A k \in 0 .. Len(w) - 1 : W[k + 1] = W[k] + w[k + 1]
  BY <1>2, PartialSums
<1>4. /\ V \in [0 .. Len(v) -> Int] /\ V[0] = 0
      /\ \A k \in 0 .. Len(v) - 1 : V[k + 1] = V[k] + v[k + 1]
  BY <1>2, PartialSums
<1>5. Total(b) = W[Len(w)] /\ Value(b) = V[Len(v)]
  BY DEF Total, Value, SumOf
<1>6. \A i \in 1 .. l : b[i] \in Int /\ Byte * b[i] \in Int
  BY Widths DEF Bytes
<1>7. ASSUME NEW k \in 0 .. n - 1
      PROVE  /\ w[k + 1] = b[2 * k + 1] + Byte * b[2 * k + 2]
             /\ v[2 * k + 1] = b[2 * k + 1]
             /\ v[2 * k + 2] = Byte * b[2 * k + 2]
  <2>1. /\ 2 * (k + 1) - 1 = 2 * k + 1 /\ (2 * k + 1) + 1 = 2 * k + 2
        /\ 2 * k + 1 < l /\ k + 1 \in 1 .. (l + 1) \div 2
        /\ 2 * k + 1 \in 1 .. l /\ 2 * k + 2 \in 1 .. l
        /\ (2 * k + 1) % 2 = 1 /\ (2 * k + 2) % 2 = 0
    <3> HIDE DEF l, n
    <3>1. k \in Nat
      BY <1>1
    <3>2. (2 * k + 1) % 2 = 1 /\ (2 * k + 2) % 2 = 0
      BY <3>1
    <3> QED
      BY <1>1, <3>1, <3>2
  <2>2. w[k + 1] = u16(b, 2 * k + 1)
    BY <2>1 DEF Words
  <2>3. u16(b, 2 * k + 1) = b[2 * k + 1] + Byte * b[2 * k + 2]
    BY <2>1 DEF u16
  <2>4. v[2 * k + 1] = b[2 * k + 1] /\ v[2 * k + 2] = Byte * b[2 * k + 2]
    BY <2>1 DEF Weights
  <2> QED
    BY <2>2, <2>3, <2>4
<1>8. ASSUME l = 2 * n + 1
      PROVE  Len(w) = n + 1 /\ w[n + 1] = b[l] /\ v[l] = b[l]
  <2>1. /\ 2 * (n + 1) - 1 = l /\ n + 1 \in 1 .. (l + 1) \div 2
        /\ (l + 1) \div 2 = n + 1 /\ l \in 1 .. l /\ l % 2 = 1 /\ ~(l < l)
    <3>1. (2 * n + 1) % 2 = 1 /\ ((2 * n + 1) + 1) \div 2 = n + 1
      <4> HIDE DEF n
      <4> QED
        BY <1>1
    <3> HIDE DEF l, n
    <3> QED
      BY <1>1, <1>8, <3>1
  <2>2. w[n + 1] = u16(b, 2 * (n + 1) - 1)
    BY <2>1 DEF Words
  <2>3. u16(b, l) = b[l]
    BY <2>1 DEF u16
  <2>4. v[l] = b[l]
    BY <2>1 DEF Weights
  <2> QED
    BY <1>2, <2>1, <2>2, <2>3, <2>4
<1>9. n <= Len(w) /\ (l = 2 * n => Len(w) = n)
  <2> HIDE DEF l, n, w
  <2> QED
    BY <1>1, <1>2
<1> HIDE DEF l, n, w, v, W, V
<1>10. W[n] = V[2 * n]
  <2> DEFINE f == [k \in 0 .. n |-> W[k]]
             g == [k \in 0 .. n |-> V[2 * k]]
  <2>0. Len(w) \in Nat
    BY <1>2, LenIsNat
  <2>1. f \in [0 .. n -> Int]
    BY <1>1, <1>3, <1>9, <2>0
  <2>2. g \in [0 .. n -> Int]
    <3>1. \A k \in 0 .. n : 2 * k \in 0 .. l
      BY <1>1
    <3> QED
      BY <1>2, <1>4, <3>1
  <2>3. ASSUME NEW k \in 0 .. n - 1 PROVE f[k + 1] - f[k] = g[k + 1] - g[k]
    <3>1. /\ k \in 0 .. n /\ k + 1 \in 0 .. n /\ k \in 0 .. Len(w) - 1
          /\ 2 * k \in 0 .. l - 1 /\ 2 * k + 1 \in 0 .. l - 1
          /\ (2 * k + 1) + 1 = 2 * k + 2 /\ 2 * (k + 1) = 2 * k + 2
          /\ 2 * k + 1 \in 1 .. l /\ 2 * k + 2 \in 1 .. l
      BY <1>1, <1>9, <2>0
    <3>2. W[k + 1] = W[k] + w[k + 1]
      BY <1>3, <3>1
    <3>3. V[2 * k + 1] = V[2 * k] + v[2 * k + 1]
      BY <1>2, <1>4, <3>1
    <3>4. V[2 * k + 2] = V[2 * k + 1] + v[2 * k + 2]
      BY <1>2, <1>4, <3>1
    <3>5. /\ f[k + 1] = W[k + 1] /\ f[k] = W[k]
          /\ g[k + 1] = V[2 * k + 2] /\ g[k] = V[2 * k]
      BY <3>1
    <3>6. /\ w[k + 1] = b[2 * k + 1] + Byte * b[2 * k + 2]
          /\ v[2 * k + 1] = b[2 * k + 1] /\ v[2 * k + 2] = Byte * b[2 * k + 2]
      BY <1>7
    <3>7. /\ b[2 * k + 1] \in Int /\ Byte * b[2 * k + 2] \in Int
          /\ f[k] \in Int /\ g[k] \in Int
      BY <1>6, <2>1, <2>2, <3>1
    <3> HIDE DEF f, g
    <3> QED
      BY <3>2, <3>3, <3>4, <3>5, <3>6, <3>7
  <2>4. f[n] = W[n] /\ f[0] = 0 /\ g[n] = V[2 * n] /\ g[0] = 0
    BY <1>1, <1>3, <1>4
  <2> HIDE DEF f, g
  <2>5. f[n] - f[0] = g[n] - g[0]
    BY <1>1, <2>1, <2>2, <2>3, SameSteps
  <2>6. f[n] \in Int /\ g[n] \in Int
    BY <1>1, <2>1, <2>2
  <2> QED
    BY <2>4, <2>5, <2>6
<1>11. CASE l = 2 * n
  BY <1>2, <1>5, <1>9, <1>10, <1>11
<1>12. CASE l = 2 * n + 1
  <2>1. W[n + 1] = W[n] + w[n + 1]
    BY <1>1, <1>3, <1>8, <1>12
  <2>2. V[2 * n + 1] = V[2 * n] + v[2 * n + 1]
    BY <1>1, <1>2, <1>4, <1>12
  <2> QED
    BY <1>2, <1>5, <1>8, <1>10, <1>12, <2>1, <2>2
<1> QED
  BY <1>1, <1>11, <1>12

(* A multiple of the modulus does not count.                               *)
LEMMA ModAdd ==
    ASSUME NEW d \in Nat \ {0}, NEW k \in Nat, NEW r \in Nat
    PROVE  (d * k + r) % d = r % d
<1> DEFINE p == r \div d
           t == r % d
<1>1. p \in Nat /\ t \in 0 .. d - 1 /\ r = d * p + t
  BY DivMod
<1> HIDE DEF p, t
<1>2. d * k + r = d * (k + p) + t
  <2>1. d * (k + p) = d * k + d * p /\ d * k \in Nat /\ d * p \in Nat
    BY <1>1
  <2> QED
    BY <1>1, <2>1
<1>3. k + p \in Nat
  BY <1>1
<1>4. (d * (k + p) + t) % d = t
  BY <1>1, <1>3, DivModUnique
<1> QED
  BY <1>2, <1>4 DEF t

(* What the loop adds up to is a number.                                   *)
LEMMA TotalIsNat == ASSUME NEW b \in Seq(Bytes) PROVE Total(b) \in Nat
<1>1. (Half - 1) * ((Len(b) + 1) \div 2) \in Int
  <2>1. (Len(b) + 1) \div 2 \in Int
    BY LenIsNat
  <2> QED
    BY <2>1, Widths
<1> QED
  BY <1>1, TotalRange

(* csum_partial, when the int does not overflow.                           *)
LEMMA PartialFolds ==
    ASSUME NEW b \in Seq(Bytes), NEW s \in Nat, s + Total(b) < Word \div 2
    PROVE  csum_partial(b, s) = from32to16(s + Total(b))
<1>1. Total(b) \in Nat
  BY TotalIsNat
<1>2. s + Total(b) \in 0 .. (Word \div 2) - 1
  BY <1>1, Widths
<1>3. ULong(Int32(s + Total(b))) = s + Total(b)
  BY <1>2, NoOverflow
<1> QED
  BY <1>3 DEF csum_partial

(* A block of up to 64 kB does not make the int overflow.                  *)
LEMMA TotalFits ==
    ASSUME NEW b \in Seq(Bytes), Len(b) <= Half
    PROVE  Total(b) \in Nat /\ Total(b) < Word \div 2
<1> DEFINE l == Len(b)
           n == (l + 1) \div 2
           j == Byte \div 2
           e == j * Byte
<1>1. Half \in Nat /\ Half = 2 * e /\ e \in Nat
  <2>1. j \in Nat /\ Byte = 2 * j
    BY WidthAssumption, Widths
  <2> HIDE DEF j
  <2>2. (2 * j) * Byte = 2 * (j * Byte) /\ j * Byte \in Nat
    BY <2>1, Widths
  <2> QED
    BY <2>1, <2>2, Widths DEF Half
<1>2. l \in Nat /\ l <= Half
  BY LenIsNat
<1>3. Total(b) \in 0 .. (Half - 1) * n
  BY TotalRange
<1> HIDE DEF l, e
<1>4. n \in Nat /\ n <= e
  BY <1>1, <1>2
<1> HIDE DEF n
<1>5. (Half - 1) * n <= (Half - 1) * e /\ (Half - 1) * n \in Nat
  BY <1>1, <1>4, Widths
<1>6. 2 * ((Half - 1) * e) = Word - Half
  <2>1. 2 * ((Half - 1) * e) = (Half - 1) * (2 * e)
    BY <1>1
  <2>2. (Half - 1) * Half = Half * Half - Half
    BY <1>1
  <2> QED
    BY <1>1, <2>1, <2>2 DEF Word
<1>7. (Half - 1) * e < Word \div 2 /\ (Half - 1) * e \in Int
  <2> DEFINE x == (Half - 1) * e
  <2>1. x \in Int
    BY <1>1
  <2> HIDE DEF x
  <2>2. 2 * x = Word - Half
    BY <1>6 DEF x
  <2>3. x < Word \div 2
    BY <2>1, <2>2, Widths
  <2> QED
    BY <2>1, <2>3 DEF x
<1> QED
  BY <1>3, <1>5, <1>7, Widths

(* The two bytes of a u16.                                                 *)
LEMMA BytesOf ==
    ASSUME NEW c \in 0 .. Half - 1
    PROVE  /\ c % Byte \in Bytes /\ c \div Byte \in Bytes
           /\ (c % Byte) + Byte * (c \div Byte) = c
<1> DEFINE q == c \div Byte
           r == c % Byte
<1>1. /\ c \in Nat /\ Byte \in Nat \ {0} /\ c < Byte * Byte
      /\ Byte * Byte \in Nat
  BY Widths DEF Half
<1>2. q \in Nat /\ r \in 0 .. Byte - 1 /\ c = Byte * q + r
  BY <1>1, DivMod
<1> HIDE DEF q, r
<1>3. q <= Byte - 1
  <2> SUFFICES ASSUME q >= Byte PROVE FALSE
    BY <1>1, <1>2
  <2>1. Byte * q >= Byte * Byte /\ Byte * q \in Nat
    BY <1>1, <1>2
  <2> QED
    BY <1>1, <1>2, <2>1
<1>4. q \in Bytes /\ r \in Bytes
  BY <1>1, <1>2, <1>3 DEF Bytes
<1>5. r + Byte * q = c
  <2>1. Byte * q \in Nat
    BY <1>1, <1>2
  <2> QED
    BY <1>1, <1>2, <2>1
<1> QED
  BY <1>4, <1>5 DEF q, r

(* A word has an even number of values.                                    *)
LEMMA WordIsEven == Word = (Word \div 2) + (Word \div 2)
<1> DEFINE j == Byte \div 2
<1>1. j \in Nat /\ Byte = 2 * j
  BY WidthAssumption, Widths
<1> HIDE DEF j
<1>2. Half = 2 * (j * Byte) /\ j * Byte \in Nat
  BY <1>1, Widths DEF Half
<1>3. Word = 2 * ((j * Byte) * Half) /\ (j * Byte) * Half \in Nat
  BY <1>2, Widths DEF Word
<1> QED
  BY <1>3

(* In a 32-bit number the two rounds leave nothing to truncate.            *)
LEMMA TwoRounds ==
    ASSUME NEW x \in 0 .. Word - 1
    PROVE  LET y == (x % Half) + (x \div Half) IN
           /\ y \in Nat /\ from32to16(x) = (y % Half) + (y \div Half)
<1> DEFINE q == x \div Half
           r == x % Half
           y == r + q
           p == y \div Half
           t == y % Half
<1>1. /\ x \in Nat /\ Half \in Nat \ {0} /\ Half >= 4 /\ x < Half * Half
      /\ Half * Half \in Nat
  BY Widths DEF Word
<1>2. q \in Nat /\ r \in 0 .. Half - 1 /\ x = Half * q + r
  BY <1>1, DivMod
<1>3. from32to16(x) = (t + p) % Half
  BY DEF from32to16
<1> HIDE DEF q, r
<1>4. q <= Half - 1
  <2> SUFFICES ASSUME q >= Half PROVE FALSE
    BY <1>1, <1>2
  <2>1. Half * q >= Half * Half /\ Half * q \in Nat
    BY <1>1, <1>2
  <2> QED
    BY <1>1, <1>2, <2>1
<1>5. y \in Nat /\ y <= 2 * Half - 2
  BY <1>1, <1>2, <1>4
<1> HIDE DEF y
<1>6. p \in Nat /\ t \in 0 .. Half - 1 /\ y = Half * p + t
  BY <1>1, <1>5, DivMod
<1> HIDE DEF p, t
<1>7. p <= 1
  <2> SUFFICES ASSUME p >= 2 PROVE FALSE
    BY <1>6
  <2>1. Half * p >= Half * 2 /\ Half * p \in Nat
    BY <1>1, <1>6
  <2> QED
    BY <1>1, <1>5, <1>6, <2>1
<1>8. t + p \in 0 .. Half - 1 /\ Half * 0 + (t + p) = t + p
  BY <1>1, <1>5, <1>6, <1>7
<1>9. (t + p) % Half = t + p
  BY <1>1, <1>8, DivModUnique
<1> QED
  BY <1>3, <1>5, <1>9 DEF p, t, y, q, r

(* What is passed to from32to16 when the top bit of the int is set, and    *)
(* what it makes of it.                                                    *)
LEMMA HighSums ==
    ASSUME NEW x \in Word \div 2 .. Word - 1
    PROVE  from32to16(ULong(Int32(x)))
              = from32to16(x) - (IF Long = Word THEN 0 ELSE 1)
<1> DEFINE h == Word \div 2
<1>1. /\ h \in Nat /\ h + h = Word /\ Word \in Nat \ {0} /\ h > 0
      /\ Half \in Nat \ {0} /\ Half >= 4 /\ x \in Nat /\ x > 0
      /\ Word = Half * Half /\ x \in 0 .. Word - 1
  BY Widths, WordIsEven DEF Word
<1>2. Int32(x) = x - Word
  <2>1. /\ (x + h) - Word \in 0 .. Word - 1
        /\ Word * 1 + ((x + h) - Word) = x + h
    BY <1>1
  <2>2. (x + h) % Word = (x + h) - Word
    <3> DEFINE v == (x + h) - Word
    <3>1. v \in 0 .. Word - 1 /\ Word * 1 + v = x + h
      BY <2>1
    <3> HIDE DEF v
    <3>2. (Word * 1 + v) % Word = v
      BY <1>1, <3>1, DivModUnique
    <3> QED
      BY <3>1, <3>2 DEF v
  <2> QED
    BY <1>1, <2>2 DEF Int32
<1> HIDE DEF h
<1>3. CASE Long = Word
  <2>1. (x - Word) % Word = x
    BY <1>1, NegativeMod
  <2>2. from32to16(x) \in Int
    BY <1>1, FoldFacts, Widths
  <2> QED
    BY <1>2, <1>3, <2>1, <2>2 DEF ULong
<1>4. CASE Long = Word * Word
  <2> DEFINE X == (Word * Word - Word) + x
             q == x \div Half
             r == x % Half
             y == r + q
             z == (y % Half) + (y \div Half)
             W == Word - 1
  <2>1. Long # Word
    <3>1. Word * Word >= Word * 2
      BY <1>1
    <3> QED
      BY <1>1, <1>4, <3>1
  <2>2. ULong(Int32(x)) = X
    <3>1. /\ Long \in Nat \ {0} /\ X \in 0 .. Long - 1
          /\ X - Long = x - Word
      <4>1. Word * Word \in Nat /\ Word * Word >= Word
        BY <1>1
      <4> QED
        BY <1>1, <1>4, <4>1
    <3> HIDE DEF X
    <3>2. (x - Word) % Long = X
      BY <3>1, NegativeMod
    <3> QED
      BY <1>2, <3>2 DEF ULong
  <2>3. q \in Nat /\ r \in 0 .. Half - 1 /\ x = Half * q + r
    BY <1>1, DivMod
  <2>4. y \in Nat /\ from32to16(x) = z
    BY <1>1, TwoRounds
  <2>5. W \in Nat /\ Half * W + q \in Nat /\ X = Half * (Half * W + q) + r
    <3>1. W \in Nat /\ Half * W \in Nat
      BY <1>1
    <3>2. Half * (Half * W + q) = Half * (Half * W) + Half * q
      BY <1>1, <2>3, <3>1
    <3>3. Half * (Half * W) = Word * Word - Word
      <4>1. Half * (Half * W) = (Half * Half) * W
        BY <1>1, <3>1
      <4>2. Word * W = Word * Word - Word
        BY <1>1
      <4> QED
        BY <1>1, <4>1, <4>2
    <3>4. Half * q \in Nat /\ Word * Word \in Nat
      BY <1>1, <2>3
    <3> HIDE DEF W, q, r
    <3> QED
      BY <1>1, <2>3, <3>1, <3>2, <3>3, <3>4
  <2> HIDE DEF W, q, r
  <2>6. X % Half = r /\ X \div Half = Half * W + q
    <3> HIDE DEF X
    <3> QED
      BY SMTT(30), <1>1, <2>3, <2>5, DivModUnique
  <2> DEFINE p == y \div Half
             t == y % Half
  <2>7. p \in Nat /\ t \in 0 .. Half - 1 /\ y = Half * p + t
    BY <1>1, <2>4, DivMod
  <2> HIDE DEF p, t
  <2>8. /\ r + (Half * W + q) = Half * (W + p) + t
        /\ W + p \in Nat
    <3>1. Half * (W + p) = Half * W + Half * p /\ Half * W \in Nat
      BY <1>1, <2>5, <2>7
    <3>2. Half * p \in Nat /\ r + q = Half * p + t
      BY <1>1, <2>7
    <3> QED
      BY <1>1, <2>3, <2>5, <2>7, <3>1, <3>2
  <2>9. /\ (r + (Half * W + q)) % Half = t
        /\ (r + (Half * W + q)) \div Half = W + p
    <3> DEFINE v == W + p
    <3>1. v \in Nat
      BY <2>8
    <3> HIDE DEF v
    <3>2. (Half * v + t) % Half = t /\ (Half * v + t) \div Half = v
      BY <1>1, <2>7, <3>1, DivModUnique
    <3> QED
      BY <2>8, <3>2 DEF v
  <2>10. t + p = from32to16(x) /\ t + p \in 1 .. Half - 1
    <3>1. t + p = from32to16(x)
      BY <2>4 DEF t, p
    <3> QED
      BY <1>1, <3>1, FoldFacts
  <2>11. (t + (W + p)) % Half = (t + p) - 1
    <3>1. Half * Half + ((t + p) - 1) = t + (W + p)
      BY <1>1, <2>5, <2>7 DEF W
    <3> DEFINE v == (t + p) - 1
    <3>2. v \in 0 .. Half - 1
      BY <1>1, <2>10
    <3> HIDE DEF v
    <3>3. (Half * Half + v) % Half = v
      BY <1>1, <3>2, DivModUnique
    <3> QED
      BY <3>1, <3>3 DEF v
  <2>12. from32to16(X) = (t + p) - 1
    BY <2>6, <2>9, <2>11 DEF from32to16
  <2> QED
    BY <2>1, <2>2, <2>10, <2>12
<1> QED
  BY <1>3, <1>4, WidthAssumption

(* What the calls keep: a block is made of bytes and is not too long.      *)
CallInv == buff \in Seq(Bytes) /\ Len(buff) <= MaxBytes /\ sum \in Nat

(* A block, and what is appended to it.                                    *)
LEMMA AppendedBlock ==
    ASSUME NEW S, NEW a \in Seq(S), NEW e \in Seq(S)
    PROVE  /\ a \o e \in Seq(S) /\ Len(a \o e) = Len(a) + Len(e)
           /\ \A i \in 1 .. Len(a) : (a \o e)[i] = a[i]
           /\ \A i \in 1 .. Len(e) : (a \o e)[Len(a) + i] = e[i]
<1> DEFINE b == a \o e
<1>1. /\ b \in Seq(S) /\ Len(b) = Len(a) + Len(e)
      /\ \A i \in 1 .. Len(a) + Len(e) :
             b[i] = IF i <= Len(a) THEN a[i] ELSE e[i - Len(a)]
  BY ConcatProperties
<1>2. Len(a) \in Nat /\ Len(e) \in Nat
  BY LenIsNat
<1> HIDE DEF b
<1>3. ASSUME NEW i \in 1 .. Len(a) PROVE b[i] = a[i]
  <2>1. i \in 1 .. Len(a) + Len(e) /\ i <= Len(a)
    BY <1>2
  <2> QED
    BY <1>1, <2>1
<1>4. ASSUME NEW i \in 1 .. Len(e) PROVE b[Len(a) + i] = e[i]
  <2> DEFINE j == Len(a) + i
  <2>1. j \in 1 .. Len(a) + Len(e) /\ ~(j <= Len(a)) /\ j - Len(a) = i
    BY <1>2
  <2> HIDE DEF j
  <2>2. b[j] = e[j - Len(a)]
    BY <1>1, <2>1
  <2> QED
    BY <2>1, <2>2 DEF j
<1> QED
  BY <1>1, <1>3, <1>4 DEF b

(* CsumFeeds holds of every call.                                          *)
LEMMA Feeds == CallInv => CsumFeeds
<1> SUFFICES ASSUME CallInv, Fits PROVE CsumFeeds
  BY DEF CsumFeeds
<1> DEFINE x == sum + Value(buff)
           r == csum_partial(buff, sum)
           d == Half - 1
<1>1. /\ buff \in Seq(Bytes) /\ sum \in Nat /\ Len(buff) \in Nat
      /\ d \in Nat \ {0}
  BY LenIsNat, Widths DEF CallInv
<1>2. Total(buff) = Value(buff) /\ x < Word \div 2
  BY <1>1, TotalIsValue DEF Fits
<1>3. \A b \in Seq(Bytes) : Total(b) \in Nat
  BY TotalIsNat
<1>4. x \in 0 .. Word - 1 /\ x \in Nat
  BY <1>1, <1>2, <1>3, Widths
<1>5. r = from32to16(x)
  BY <1>1, <1>2, PartialFolds
<1>6. r % d = x % d
  <2>1. PICK k \in Nat : x = d * k + from32to16(x)
    BY <1>4, FoldFacts
  <2>2. from32to16(x) \in Nat
    BY <1>4, FoldFacts, Widths
  <2> HIDE DEF x, d
  <2>3. (d * k + from32to16(x)) % d = from32to16(x) % d
    BY <1>1, <2>2, ModAdd
  <2> QED
    BY <1>5, <2>1, <2>3
<1>7. ASSUME NEW n \in 0 .. Len(buff), n % 2 = 0
      PROVE  csum_partial(SubSeq(buff, n + 1, Len(buff)),
                          csum_partial(SubSeq(buff, 1, n), sum)) = r
  <2> DEFINE c == SubSeq(buff, 1, n)
             e == SubSeq(buff, n + 1, Len(buff))
             u == csum_partial(c, sum)
  <2>1. /\ c \in Seq(Bytes) /\ e \in Seq(Bytes)
        /\ Len(c) = n /\ Len(e) = Len(buff) - n
        /\ \A i \in 1 .. n : c[i] = buff[i]
        /\ \A i \in 1 .. Len(buff) - n : e[i] = buff[n + i]
    BY <1>1
  <2> HIDE DEF c, e
  <2>2. /\ Total(buff) = Total(c) + Total(e)
        /\ Total(c) \in Nat /\ Total(e) \in Nat
    <3>1. /\ Len(buff) = Len(c) + Len(e) /\ Len(c) % 2 = 0
          /\ \A i \in 1 .. Len(c) : buff[i] = c[i]
          /\ \A i \in 1 .. Len(e) : buff[Len(c) + i] = e[i]
      <4>1. Len(buff) = Len(c) + Len(e) /\ Len(c) % 2 = 0
        BY <1>1, <1>7, <2>1
      <4>2. \A i \in 1 .. Len(c) : buff[i] = c[i]
        BY <2>1
      <4>3. \A i \in 1 .. Len(e) : buff[Len(c) + i] = e[i]
        BY <2>1
      <4> QED
        BY <4>1, <4>2, <4>3
    <3> QED
      BY <1>1, <1>3, <2>1, <3>1, TotalSplit
  <2>3. x = (sum + Total(c)) + Total(e)
    BY <1>1, <1>2, <2>2
  <2>4. sum + Total(c) \in 0 .. Word - 1 /\ sum + Total(c) < Word \div 2
    BY <1>1, <1>2, <2>2, <2>3, Widths
  <2>5. u = from32to16(sum + Total(c))
    BY <1>1, <2>1, <2>4, PartialFolds
  <2>6. u \in Nat /\ u <= sum + Total(c)
    BY <2>4, <2>5, FoldFacts, Widths
  <2> HIDE DEF u
  <2>7. u + Total(e) < Word \div 2
    BY <1>1, <1>2, <2>2, <2>3, <2>6, Widths
  <2>8. csum_partial(e, u) = from32to16(u + Total(e))
    BY <2>1, <2>6, <2>7, PartialFolds
  <2>9. from32to16(u + Total(e)) = from32to16((sum + Total(c)) + Total(e))
    BY <1>4, <2>2, <2>3, <2>4, <2>5, FoldAdd
  <2> QED
    BY <1>5, <2>3, <2>8, <2>9 DEF c, e, u
<1> QED
  BY <1>6, <1>7 DEF CsumFeeds

(* ChecksumVerifies holds of every call.                                   *)
LEMMA Verifies == CallInv => ChecksumVerifies
<1> SUFFICES ASSUME CallInv, Len(buff) % 2 = 0
             PROVE  LET c == ip_fast_csum(buff) IN
                    /\ ip_fast_csum(buff \o <<c % Byte, c \div Byte>>) = 0
                    /\ ip_compute_csum(buff) = c
  BY DEF ChecksumVerifies
<1> DEFINE T == Total(buff)
           z == from32to16(T)
           c == ip_fast_csum(buff)
           e == <<c % Byte, c \div Byte>>
           b == buff \o e
           d == Half - 1
<1>1. buff \in Seq(Bytes) /\ Len(buff) \in Nat /\ Len(buff) + 2 <= Half
  BY LenIsNat, WidthAssumption, Widths DEF CallInv
<1>2. T \in Nat /\ T < Word \div 2 /\ T \in 0 .. Word - 1
  BY <1>1, TotalFits, Widths
<1>3. csum_partial(buff, 0) = z
  BY <1>1, <1>2, PartialFolds
<1>4. z \in 0 .. d /\ z <= T /\ (T > 0 => z > 0)
  BY <1>2, FoldFacts
<1>5. PICK k \in Nat : T = d * k + z
  BY <1>2, FoldFacts
<1>6. c = d - z
  BY <1>3, <1>4, FoldSmall DEF ip_fast_csum, csum_fold
<1>7. ip_compute_csum(buff) = c
  BY <1>3, <1>6 DEF ip_compute_csum
<1>8. c \in 0 .. d
  BY <1>4, <1>6, Widths
<1> HIDE DEF T, z, c
<1>9. e \in Seq(Bytes) /\ Total(e) = c /\ Len(e) = 2
  BY <1>8, BytesOf, TotalOfWord
<1> HIDE DEF e
<1>10. /\ b \in Seq(Bytes) /\ Len(b) = Len(buff) + Len(e) /\ Len(b) <= Half
       /\ \A i \in 1 .. Len(buff) : b[i] = buff[i]
       /\ \A i \in 1 .. Len(e) : b[Len(buff) + i] = e[i]
  <2>1. /\ b \in Seq(Bytes) /\ Len(b) = Len(buff) + Len(e)
        /\ \A i \in 1 .. Len(buff) : b[i] = buff[i]
        /\ \A i \in 1 .. Len(e) : b[Len(buff) + i] = e[i]
    BY <1>1, <1>9, AppendedBlock
  <2> HIDE DEF b
  <2>2. Len(b) <= Half
    BY <1>1, <1>9, <2>1, Widths
  <2> QED
    BY <2>1, <2>2
<1> HIDE DEF b
<1>11. Total(b) = T + c
  BY <1>1, <1>9, <1>10, TotalSplit DEF T
<1>12. Total(b) \in Nat /\ Total(b) < Word \div 2
  BY <1>10, TotalFits
<1>13. csum_partial(b, 0) = from32to16(T + c)
  <2>1. 0 + Total(b) = T + c
    BY <1>11, <1>12
  <2> QED
    BY <1>10, <1>11, <1>12, <2>1, PartialFolds
<1>14. from32to16(T + c) = d
  <2> DEFINE v == from32to16(T + c)
  <2>1. T + c \in 0 .. Word - 1 /\ T + c > 0
    BY <1>2, <1>4, <1>6, <1>8, <1>11, <1>12, Widths
  <2>2. v \in 0 .. Half - 1 /\ v > 0
    BY <2>1, FoldFacts
  <2>3. PICK j \in Nat : T + c = d * j + v
    BY <2>1, FoldFacts
  <2> HIDE DEF v
  <2>4. d * j + v = d * k + d
    BY <1>2, <1>4, <1>5, <1>6, <2>3, Widths
  <2>5. d \in 0 .. Half - 1 /\ d > 0
    BY Widths
  <2>6. v = d
    BY <2>2, <2>4, <2>5, SameClass
  <2> QED
    BY <2>6 DEF v
<1>15. ip_fast_csum(b) = 0
  <2>1. from32to16(d) = d /\ d - d = 0
    BY FoldSmall, Widths
  <2> QED
    BY <1>13, <1>14, <2>1 DEF ip_fast_csum, csum_fold
<1> QED
  BY <1>7, <1>15 DEF b, c, e

(* The calls are made with blocks of bytes that are not too long.          *)
LEMMA CallInvariance ==
    ASSUME NEW CONSTANT S \in SUBSET Nat
    PROVE  CallInit(S) /\ [][CallNext]_args => []CallInv
<1>1. CallInit(S) => CallInv
  BY WidthAssumption DEF CallInit, CallInv
<1>2. CallInv /\ [CallNext]_args => CallInv'
  <2> SUFFICES ASSUME CallInv, [CallNext]_args PROVE CallInv'
    OBVIOUS
  <2>1. CASE CallNext
    BY <2>1, WidthAssumption DEF CallInv, CallNext
  <2>2. CASE UNCHANGED args
    BY <2>2 DEF CallInv, args
  <2> QED
    BY <2>1, <2>2
<1> QED
  BY <1>1, <1>2, PTL

(* ChecksumVerifies for bytes of any even number of values, a long of      *)
(* either width and every block of up to 64 kB: the checksum that          *)
(* ip_fast_csum stores makes the sum over the block and it come out as     *)
(* zero.                                                                   *)
THEOREM ChecksumHolds ==
    ASSUME NEW CONSTANT S \in SUBSET Nat
    PROVE  CallInit(S) /\ [][CallNext]_args => []ChecksumVerifies
BY CallInvariance, Verifies, PTL

(* CsumFeeds for the same widths and blocks and every sum that fits an     *)
(* int: csum_partial is the ones' complement sum, and may be fed with its  *)
(* own result at every even offset.                                        *)
THEOREM PartialFeedsItself ==
    ASSUME NEW CONSTANT S \in SUBSET Nat
    PROVE  CallInit(S) /\ [][CallNext]_args => []CsumFeeds
BY CallInvariance, Feeds, PTL

(* Beyond the sums that fit an int, up to 2^32, AddsInSum depends on the   *)
(* width of a long: with 32 bits csum_partial is still right, and with 64  *)
(* bits, where the int is sign-extended on the way to from32to16, it is    *)
(* one too small for every block and every sum.                            *)
THEOREM SignExtensionOffByOne ==
    ASSUME NEW CONSTANT S \in SUBSET Nat
    PROVE  CallInit(S) /\ [][CallNext]_args =>
             [](sum + Value(buff) \in Word \div 2 .. Word - 1 =>
                   csum_partial(buff, sum) =
                      from32to16(sum + Value(buff))
                      - (IF Long = Word THEN 0 ELSE 1))
<1>1. CallInv => (sum + Value(buff) \in Word \div 2 .. Word - 1 =>
                     csum_partial(buff, sum) =
                        from32to16(sum + Value(buff))
                        - (IF Long = Word THEN 0 ELSE 1))
  <2> SUFFICES ASSUME CallInv, sum + Value(buff) \in Word \div 2 .. Word - 1
               PROVE  csum_partial(buff, sum) =
                        from32to16(sum + Value(buff))
                        - (IF Long = Word THEN 0 ELSE 1)
    OBVIOUS
  <2>1. Total(buff) = Value(buff)
    BY TotalIsValue DEF CallInv
  <2> QED
    BY <2>1, HighSums DEF csum_partial
<1> QED
  BY <1>1, CallInvariance, PTL
=============================================================================
