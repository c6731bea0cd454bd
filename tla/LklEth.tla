------------------------------- MODULE LklEth -------------------------------
(***************************************************************************)
(* arch/lkl/drivers/eth.c and envs/drivers/linux/eth.c: the network        *)
(* driver.  A native thread per open device takes an entry of the receive  *)
(* ring, reads a frame from a packet socket into the entry's buffer and    *)
(* raises ETH_IRQ with the entry; the interrupt handler gives the buffer   *)
(* to the network stack and returns the entry with a new one.  stop() ends *)
(* the thread with a byte in the "pipe of death" and joins it, and the     *)
(* whole kernel stands still while it waits.                               *)
(***************************************************************************)
EXTENDS Naturals, Sequences, FiniteSets, Functions

CONSTANTS Devs,        \* devices: a host interface, and the netdev for it
          RingLen,     \* rx_ring_len
          MaxFrames,   \* bound: frames that arrive
          MaxFaults,   \* bound: failing calls
          NULL

ASSUME EthAssumption ==
    /\ RingLen \in Nat /\ MaxFrames \in Nat /\ MaxFaults \in Nat
    /\ NULL \notin Devs \X (1 .. RingLen)

ETH_IRQ == 1
Entries == Devs \X (1 .. RingLen)          \* the struct rx_ring_entry of a device
EntriesOf(d) == {d} \X (1 .. RingLen)

VARIABLES
    count, queue, irq_data,  \* the interrupt layer
    dev,        \* [Devs -> state of the netdev]; "stop" and "close": in stop(),
                \* called by ifdown or by unregister_netdev
    handle,     \* [Devs -> BOOLEAN]: native_handle # NULL
    ready,      \* [Devs -> Seq(Entries)]: rx_ring_ready
    inuse,      \* [Devs -> SUBSET Entries]: rx_ring_inuse
    given,      \* entries whose skb belongs to the network stack
    frame,      \* [Entries -> Nat]: the frame in the buffer, 0 for none
    rpc,        \* [Devs -> step of rx_thread]; "uninit": h->thread names none
    led,        \* [Devs -> the entry rx_thread has in hand, or NULL]
    pod,        \* [Devs -> BOOLEAN]: the pipe of death has been written
    sock,       \* [Devs -> Seq(Nat)]: frames the socket holds
    arrived,    \* [Devs -> Nat]: frames that have arrived, the last one's number
    faults,     \* failing calls so far
    delivered,  \* history, [Devs -> Seq(Nat)]: frames given to netif_rx
    leaked,     \* history: entries that nobody will put back on rx_ring_ready
    eintr       \* history: devices whose poll has been interrupted

irq == <<count, queue, irq_data>>
netdev == <<dev, handle, ready, inuse, given>>
native == <<frame, rpc, led, pod, sock, arrived>>
history == <<delivered, leaked, eintr>>
vars == <<irq, netdev, native, faults, history>>

IRQ == INSTANCE IrqQueue WITH Irqs <- {ETH_IRQ}, Items <- Entries,
                              NoItem <- NULL

TypeOK ==
    /\ queue \in [{ETH_IRQ} -> Seq(Entries)] /\ count = [i \in {ETH_IRQ} |-> 0]
    /\ irq_data \in [{ETH_IRQ} -> Entries \cup {NULL}]
    /\ dev \in [Devs -> {"none", "down", "up", "stop", "close", "unreg"}]
    /\ handle \in [Devs -> BOOLEAN] /\ pod \in [Devs -> BOOLEAN]
    /\ ready \in [Devs -> Seq(Entries)] /\ inuse \in [Devs -> SUBSET Entries]
    /\ given \subseteq Entries /\ leaked \subseteq Entries
    /\ frame \in [Entries -> Nat]
    /\ rpc \in [Devs -> {"none", "poll", "desc", "drop", "recv", "trigger",
                         "done", "uninit"}]
    /\ led \in [Devs -> Entries \cup {NULL}]
    /\ sock \in [Devs -> Seq(Nat)]
    /\ delivered \in [Devs -> Seq(Nat)]
    /\ arrived \in [Devs -> Nat]
    /\ faults \in 0 .. MaxFaults /\ eintr \subseteq Devs

Init ==
    /\ IRQ!Init
    /\ dev = [d \in Devs |-> "none"] /\ handle = [d \in Devs |-> FALSE]
    /\ ready = [d \in Devs |-> <<>>] /\ inuse = [d \in Devs |-> {}]
    /\ given = {} /\ frame = [e \in Entries |-> 0]
    /\ rpc = [d \in Devs |-> "none"] /\ led = [d \in Devs |-> NULL]
    /\ pod = [d \in Devs |-> FALSE] /\ sock = [d \in Devs |-> <<>>]
    /\ arrived = [d \in Devs |-> 0] /\ faults = 0
    /\ delivered = [d \in Devs |-> <<>>] /\ leaked = {} /\ eintr = {}

Fault == faults < MaxFaults /\ faults' = faults + 1
NoFault == UNCHANGED faults
Goto(d, l) == rpc' = [rpc EXCEPT ![d] = l]
Queued == {queue[ETH_IRQ][k] : k \in DOMAIN queue[ETH_IRQ]}

-----------------------------------------------------------------------------
(* The driver.  It runs in the kernel, which does nothing while a thread   *)
(* of it is in pthread_join.                                               *)

Joining(d) == dev[d] \in {"stop", "close"}
KernelRuns == \A d \in Devs : ~Joining(d)

\* _lkl_add_eth.  When it fails it frees what it has made and nothing changes.
_lkl_add_eth(d) ==
    /\ KernelRuns /\ dev[d] = "none"
    /\ dev' = [dev EXCEPT ![d] = "down"]
    /\ ready' = [ready EXCEPT ![d] = [k \in 1 .. RingLen |-> <<d, RingLen + 1 - k>>]]
    /\ inuse' = [inuse EXCEPT ![d] = {}]
    /\ given' = given \ EntriesOf(d) /\ leaked' = leaked \ EntriesOf(d)
    /\ UNCHANGED <<irq, handle, native, faults, delivered, eintr>>

\* lkl_eth_native_init: a new socket, pipe and thread.  The result of
\* pthread_create is tested for `< 0', so that it succeeds without a thread
\* too, and leaves h->thread uninitialised.
lkl_eth_native_init(d) ==
    /\ \/ NoFault /\ Goto(d, "poll")
       \/ Fault /\ Goto(d, "uninit")
    /\ sock' = [sock EXCEPT ![d] = <<>>]
    /\ pod' = [pod EXCEPT ![d] = FALSE]
    /\ led' = [led EXCEPT ![d] = NULL]

open(d) ==
    /\ KernelRuns /\ dev[d] = "down"
    /\ \/ Fault /\ UNCHANGED <<dev, handle, sock, pod, rpc, led>>
       \/ /\ lkl_eth_native_init(d)
          /\ dev' = [dev EXCEPT ![d] = "up"]
          /\ handle' = [handle EXCEPT ![d] = TRUE]
    /\ UNCHANGED <<irq, ready, inuse, given, frame, arrived, history>>

\* lkl_eth_native_cleanup: write(h->pod[1], &c, 1) and pthread_join
lkl_eth_native_cleanup(d, s) ==
    /\ KernelRuns /\ dev[d] = "up"
    /\ dev' = [dev EXCEPT ![d] = s]
    /\ pod' = [pod EXCEPT ![d] = TRUE]
    /\ UNCHANGED <<irq, handle, ready, inuse, given, frame, rpc, led, sock,
                   arrived, faults, history>>

stop(d) == lkl_eth_native_cleanup(d, "stop")

\* Mutant: what is pending is left to the interrupt handler.
NoPurge == UNCHANGED <<irq, leaked>>

\* lkl_purge_irq_queue(ETH_IRQ): the entries of every device are dropped.
PurgeQueue == IRQ!Purge(ETH_IRQ) /\ leaked' = leaked \cup Queued

\* The rest of stop, after pthread_join: the handle is freed, and with it go
\* the pipe and what the socket holds.  The join of an uninitialised
\* pthread_t is undefined: it may return, at any time, or never.
Joined(d) ==
    /\ Joining(d) /\ rpc[d] \in {"done", "uninit"}
    /\ Goto(d, "none")
    /\ handle' = [handle EXCEPT ![d] = FALSE]
    /\ PurgeQueue
    /\ dev' = [dev EXCEPT ![d] = IF @ = "close" THEN "unreg" ELSE "down"]
    /\ sock' = [sock EXCEPT ![d] = <<>>] /\ pod' = [pod EXCEPT ![d] = FALSE]
    /\ UNCHANGED <<ready, inuse, given, frame, led, arrived, faults, delivered,
                   eintr>>

\* _lkl_del_eth, unregister_netdev: the device is closed if it is up.
_lkl_del_eth(d) ==
    \/ lkl_eth_native_cleanup(d, "close")
    \/ /\ KernelRuns /\ dev[d] = "down"
       /\ dev' = [dev EXCEPT ![d] = "unreg"]
       /\ UNCHANGED <<irq, handle, ready, inuse, given, native, faults, history>>

\* unregister_netdev has waited for the last reference, and stop has left no
\* native_handle to clean up (NoUseAfterFree).
cleanup_netdev(d) ==
    /\ KernelRuns /\ dev[d] = "unreg" /\ ~handle[d]
    /\ dev' = [dev EXCEPT ![d] = "none"]
    /\ ready' = [ready EXCEPT ![d] = <<>>] /\ inuse' = [inuse EXCEPT ![d] = {}]
    /\ UNCHANGED <<irq, handle, given, native, faults, history>>

\* Mutant: the entry returns to the ring with the skb it has just given away.
ReloadAnyway(e) == ready' = [ready EXCEPT ![e[1]] = <<e>> \o @]

\* reload_rx_ring_entry without memory for an skb returns -ENOMEM.
ReloadFails(e) == UNCHANGED ready

\* A new skb, and the entry to the front of rx_ring_ready; or -ENOMEM.
reload_rx_ring_entry(d, e) ==
    \/ /\ inuse' = [inuse EXCEPT ![d] = @ \ {e}]
       /\ ready' = [ready EXCEPT ![d] = <<e>> \o @]
       /\ NoFault /\ UNCHANGED <<given, leaked>>
    \/ /\ Fault /\ ReloadFails(e) /\ UNCHANGED inuse
       /\ given' = given \cup {e}
       /\ leaked' = leaked \cup {e}

\* lkl_net_irq: netif_rx, then reload_rx_ring_entry, whose result is ignored.
lkl_net_irq ==
    LET e == Head(queue[ETH_IRQ])
        d == e[1] IN
    /\ KernelRuns
    /\ IRQ!HandleData(ETH_IRQ)
    /\ delivered' = [delivered EXCEPT ![d] = Append(@, frame[e])]
    /\ reload_rx_ring_entry(d, e)
    /\ UNCHANGED <<dev, handle, native, eintr>>

-----------------------------------------------------------------------------
(* rx_thread of the host, and the network.                                 *)

Arrive(d) ==
    /\ handle[d] /\ SumFunction(arrived) < MaxFrames
    /\ arrived' = [arrived EXCEPT ![d] = @ + 1]
    /\ sock' = [sock EXCEPT ![d] = Append(@, arrived[d] + 1)]
    /\ UNCHANGED <<irq, netdev, frame, rpc, led, pod, faults, history>>

\* Mutant: poll does not look at the pipe of death.
PodUnpolled(d) == FALSE

\* pfd[1].revents
PodReady(d) == pod[d]

\* poll returns.  A thread that ends drops the entry it has in hand.
Poll(d) ==
    /\ rpc[d] = "poll"
    /\ \/ /\ PodReady(d)
          /\ Goto(d, "done")
          /\ led' = [led EXCEPT ![d] = NULL]
          /\ leaked' = leaked \cup ({led[d]} \ {NULL})
       \/ /\ ~PodReady(d) /\ sock[d] # <<>>
          /\ Goto(d, IF led[d] = NULL THEN "desc" ELSE "recv")
          /\ UNCHANGED <<led, leaked>>
    /\ UNCHANGED <<irq, netdev, frame, pod, sock, arrived, faults, delivered, eintr>>

\* A signal interrupts poll; the thread goes on as if a frame were there.
PollInterrupted(d) ==
    /\ rpc[d] = "poll" /\ ~pod[d] /\ sock[d] = <<>> /\ Fault
    /\ eintr' = eintr \cup {d}
    /\ Goto(d, IF led[d] = NULL THEN "desc" ELSE "recv")
    /\ UNCHANGED <<irq, netdev, frame, led, pod, sock, arrived, delivered, leaked>>

\* Mutant: the entry stays on rx_ring_ready.
StaysReady(d) == UNCHANGED ready

\* list_del(&rre->list)
TakeReady(d) == ready' = [ready EXCEPT ![d] = Tail(@)]

\* lkl_eth_get_rx_desc, under rx_ring_lock
lkl_eth_get_rx_desc(d) ==
    /\ rpc[d] = "desc"
    /\ \/ /\ ready[d] = <<>>
          /\ Goto(d, "drop")
          /\ UNCHANGED <<ready, inuse, led>>
       \/ /\ ready[d] # <<>>
          /\ Goto(d, "recv")
          /\ led' = [led EXCEPT ![d] = Head(ready[d])]
          /\ inuse' = [inuse EXCEPT ![d] = @ \cup {Head(ready[d])}]
          /\ TakeReady(d)
    /\ UNCHANGED <<irq, dev, handle, given, frame, pod, sock, arrived, faults,
                   history>>

\* recv(h->sock, NULL, 0, 0): blocks until there is a frame.
Drop(d) ==
    /\ rpc[d] = "drop" /\ sock[d] # <<>>
    /\ sock' = [sock EXCEPT ![d] = Tail(@)]
    /\ Goto(d, "poll")
    /\ UNCHANGED <<irq, netdev, frame, led, pod, arrived, faults, history>>

\* recv into the buffer of the entry: blocks until there is a frame.
Recv(d) ==
    /\ rpc[d] = "recv" /\ sock[d] # <<>>
    /\ frame' = [frame EXCEPT ![led[d]] = Head(sock[d])]
    /\ sock' = [sock EXCEPT ![d] = Tail(@)]
    /\ Goto(d, "trigger")
    /\ UNCHANGED <<irq, netdev, led, pod, arrived, faults, history>>

\* recv fails: the entry is kept for the next frame.
RecvFails(d) ==
    /\ rpc[d] = "recv" /\ Fault
    /\ Goto(d, "poll")
    /\ UNCHANGED <<irq, netdev, frame, led, pod, sock, arrived, history>>

\* Mutant: led is cleared before it is passed on.
RaiseCleared(d) == IRQ!RaiseData(ETH_IRQ, NULL)

Raise(d) == IRQ!RaiseData(ETH_IRQ, led[d])

\* lkl_trigger_irq_with_data(ETH_IRQ, led), its result ignored.
Trigger(d) ==
    /\ rpc[d] = "trigger"
    /\ \/ Raise(d) /\ NoFault /\ UNCHANGED leaked
       \/ Fault /\ leaked' = leaked \cup {led[d]} /\ UNCHANGED irq
    /\ led' = [led EXCEPT ![d] = NULL]
    /\ Goto(d, "poll")
    /\ UNCHANGED <<netdev, frame, pod, sock, arrived, delivered, eintr>>

RxStep(d) ==
    Poll(d) \/ lkl_eth_get_rx_desc(d) \/ Drop(d) \/ Recv(d) \/ Trigger(d)

-----------------------------------------------------------------------------
Next ==
    \/ \E d \in Devs :
          \/ _lkl_add_eth(d) \/ open(d) \/ stop(d) \/ Joined(d)
          \/ _lkl_del_eth(d) \/ cleanup_netdev(d)
          \/ Arrive(d) \/ RxStep(d) \/ PollInterrupted(d) \/ RecvFails(d)
    \/ lkl_net_irq

Spec == Init /\ [][Next]_vars

(* Host threads run, and the pthread_join of a thread that has ended       *)
(* returns; frames need not arrive.                                        *)
Fairness ==
    \A d \in Devs : /\ WF_vars(RxStep(d))
                    /\ WF_vars(rpc[d] = "done" /\ Joined(d))

FairSpec == Spec /\ Fairness

-----------------------------------------------------------------------------
(* Properties. *)

(* The two lists of a device that exists hold its entries, each once, and  *)
(* an entry in use is with the receive thread, in one pending interrupt,   *)
(* or was lost in one of four ways: no memory to raise the interrupt or    *)
(* for the next skb, a purge, and the end of a thread that held it.  The   *)
(* thread, the handler, stop and the faults may come in any order.         *)
RingConserved ==
    \A d \in {x \in Devs : dev[x] # "none"} :
        LET r == {ready[d][k] : k \in DOMAIN ready[d]}
            pending(e) == {k \in DOMAIN queue[ETH_IRQ] : queue[ETH_IRQ][k] = e}
        IN  /\ r \cup inuse[d] = EntriesOf(d) /\ r \cap inuse[d] = {}
            /\ Cardinality(r) = Len(ready[d])
            /\ \A e \in EntriesOf(d) :
                  Cardinality(pending(e))
                  + Cardinality({x \in Devs : led[x] = e})
                  + Cardinality({e} \cap leaked) + Cardinality({e} \cap r) = 1

(* The stack gets the frames of a device in the order they arrived, each   *)
(* at most once and as it arrived: no buffer is written again before its   *)
(* interrupt is handled (the ring is a stack, the interrupts are a queue), *)
(* and none is written that the stack already owns.                        *)
FramesInOrder ==
    \A d \in Devs :
        /\ \A i, j \in DOMAIN delivered[d] :
               i < j => delivered[d][i] < delivered[d][j]
        /\ led[d] \notin given

(* When cleanup_netdev frees a device, its ring and its handle, no thread  *)
(* and no pending interrupt refers to them: stop has joined the thread     *)
(* before it purged, and the handle is not cleaned up a second time.       *)
NoUseAfterFree ==
    \A d \in Devs :
        /\ dev[d] \in {"none", "unreg"} =>
               /\ rpc[d] = "none" /\ led[d] = NULL /\ ~handle[d]
               /\ Queued \cap EntriesOf(d) = {}
        /\ dev[d] = "up" => handle[d]

(* stop() returns, and the kernel goes on, even when no frame ever comes   *)
(* again.  Two exceptions: a signal has interrupted the poll of the        *)
(* thread, or pthread_create failed and the join is of no thread.          *)
StopReturns ==
    \A d \in Devs :
        Joining(d) ~> ~Joining(d) \/ d \in eintr \/ rpc[d] = "uninit"
=============================================================================
