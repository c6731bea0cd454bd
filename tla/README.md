# Verification of the Linux Kernel Library port

The repository turns Linux 2.6 into a library: `lkl-2.6/arch/lkl` is an
architecture whose "hardware" is a handful of native operations (threads,
semaphores, memory, a timer) that the embedding program supplies. A host
program starts the kernel in one of its threads and then calls `lkl_sys_*`
functions from any thread. The rest of `lkl-2.6` is stock Linux.

This directory holds TLA+ models of `arch/lkl`, configurations that check them
with TLC, and proofs that TLAPS checks. All paths below are relative to
`src/lkl-2.6/arch/lkl` unless they start with `src/`.

## 1. Inventory

| component | state | operations | who it talks to |
|---|---|---|---|
| interrupts and idle loop, `kernel/irq.c` | per line: `lock`, `no_data_count`, `data_list`; `sem`; `linux_halted`, `rcu_done` | `lkl_trigger_irq[_with_data]`, `lkl_purge_irq_queue`, `dequeue_*`, `run_irqs`, `cpu_idle` | called by every host thread; hands data to the handlers of syscalls, timer, disk, eth |
| kernel threads, `kernel/threads.c` | `_current_thread_info`, per thread `sched_sem`, `dead`, `prev_sched`; `threads_counter` | `copy_thread`, `thread_bootstrap`, `__switch_to`, `free_thread_info`, `threads_init/_cleanup` | called by the generic scheduler, fork and exit |
| start and shutdown, `kernel/setup.c` | `halt_sem`, order of tear-down | `lkl_start_kernel`, `kill_all_threads`, `machine_halt`, `lkl_env_init` | all of the others |
| system calls, `kernel/syscalls.c` | hash of `struct syscall_queue`s, lists of `struct syscall` that live on callers' stacks | `SYSCALL_VIA_QUEUE`, `syscall_irq`, `run_syscalls`, `lkl_syscall_thread_init/_cleanup`, `lkl_sys_halt` | interrupts, work queue, semaphores |
| timer, `kernel/timer.c` | the clock event device | `clockevent_next_event`, `timer_irq`, `time_init` | `lkl_nops->timer`, interrupts |
| POSIX and APR environments, `envs/posix.c`, `envs/apr.c` | semaphores, `timer_pipe`, the timer thread's timeout | `sem_*`, `timer`, `timer_thread`, `lkl_env_init/_fini` | the kernel calls them; the timer thread raises interrupts |
| native interface, `include/asm/callbacks.h` | - | `struct lkl_native_operations` | - |
| network driver, `drivers/eth.c`, `envs/drivers/linux/eth.c` | receive rings `ready` and `inuse`, `native_handle`; socket and "pipe of death" of the native thread | `lkl_eth_get_rx_desc`, `lkl_net_irq`, `open`, `stop`, add, delete; `rx_thread` | interrupts, the host's network |
| disk driver, `drivers/disk.c` | request queue, count of disks | `lkl_disk_request`, add, delete | native disk |
| mount library, `envs/lib/fs.c` | the files `/dev/<devt>`, `/mnt`, `/mnt/<devt>` | `lkl_mount_dev`, `lkl_umount_dev`, `lkl_mount` | system calls, disks; called by any host thread |
| checksum, `lib/checksum.c`, `include/asm/checksum.h` | - | `csum_partial`, `csum_fold`, `ip_fast_csum`, `ip_compute_csum` | generic network code |
| memory, `kernel/mem.c` | the page pool; with `LKL_SLAB` a tree of blocks | `mem_init`, `mem_cleanup`; with `LKL_SLAB` `__kmalloc`, `kfree`, `kmem_cache_*` | native `mem_alloc` |
| other environments (`nt.c`, `ntk.c`, `khaiku.c`), `envs/lib/net.c`, console, traps, image writer | - | - | - |

What is hard in this code, and where a test hardly reaches:

- *Concurrency.* Host threads raise interrupts in parallel with the kernel.
  The kernel is single-threaded only because `__switch_to` passes a token from
  host thread to host thread, waking the next one before it sleeps itself.
- *Lost wake-ups.* `run_irqs` takes one unit of `sem` and then empties all
  queues, so units and interrupts do not match; a semaphore with a limit drops
  units; a semaphore built from a condition variable can lose signals.
- *Lifetimes.* `struct syscall` is on the caller's stack while three parties
  hold pointers to it; a dead thread frees its own `__thread_info`; the
  interrupt layer is freed while the timer thread may still use it; a network
  device is freed that a native thread and pending interrupts refer to.
- *Ordering.* `time_init` programs the timer before it initialises it; halt
  must wait for RCU, interrupts and runnable threads; a thread may be killed
  only when it cannot run.
- *Failure.* Allocation, thread creation and `poll` may fail half-way; a mount
  is a sequence of system calls each of which may fail, with other threads in
  between.
- *Widths.* The checksum is kept in an `int` and folded as an `unsigned long`.

`PROJECT.json` lists each hazard at its line with the property that covers it,
or why none does.

## 2. Modules

| module | models | remarks |
|---|---|---|
| `IrqQueue` | what `irq.c` promises its users | abstract; used by `LklSyscalls` and `LklEth` |
| `LklIrq` | `kernel/irq.c` | implements `IrqQueue` |
| `LklThreads` | `kernel/threads.c`, the end of `lkl_start_kernel`, references of tasks | |
| `LklSyscalls` | `kernel/syscalls.c` over `IrqQueue` | composition: `INSTANCE IrqQueue` is its interrupt layer |
| `LklTimer` | `kernel/timer.c` with the timer thread of `envs/posix.c` and the shutdown order of `setup.c` | |
| `LklEth` | `drivers/eth.c` and the native thread of `envs/drivers/linux/eth.c` over `IrqQueue` | composition, as above |
| `LklCsum` | `lib/checksum.c`, `include/asm/checksum.h` | operators, with the widths as parameters; the sum of the loop is a recursive function |
| `LklFs` | `envs/lib/fs.c` with the disks of `drivers/disk.c` | one step is one system call |
| `Semaphore` | what the kernel expects of native semaphores | abstract |
| `PosixSem` | the semaphore of `envs/posix.c` (and `apr.c`) | implements `Semaphore` |
| `LklIrq_proof`, `LklThreads_proof`, `LklSyscalls_proof`, `LklTimer_proof`, `PosixSem_proof`, `LklFs_proof`, `LklNet_proof` | theorems and proofs | `LklNet_proof`: of `LklEth` and of `LklCsum` |
| `SeqRange` | lemmas about the elements of a sequence after `Append`, `Tail` and a push at the front | cited by the proofs about queues |
| `MC*` | instances for TLC (symmetry sets) | |

Conventions. Variables and actions carry the names of the C code where that is
possible. An action is one atomic step of one thread: between two native
operations (semaphore, mutex, pipe) a thread touches only what it owns or what
the lock or the CPU token protects. Definitions commented `Mutant:` are
plausible bugs; no specification uses them, they exist to show that a property
can fail.

### LklIrq

Host threads (`Threads`) call `lkl_trigger_irq` and `lkl_trigger_irq_with_data`;
each call is `down`, `update`, `up`, `post` as in the C function, after an
allocation that may fail. The idle thread is a second state machine: `IdleTop`,
`IdleWait`, `IdleDown`, `IdleTake`, `IdleUp`, `do_IRQ`, `IdleAgain`,
`IdleResched`, `IdleScheduled` follow `cpu_idle`, `run_irqs`, `dequeue_nodata`
and `dequeue_data` statement by statement. The other kernel threads are one
process, `Kern`, that acts while idle is in `schedule()`: it may purge a line,
halt the machine, and run the RCU callback. `handled`, `due` and `due_count` are
history variables: what was handled, and what was pending when the machine was
halted, with data and without. `tick_nohz_*`, the `irqs_enabled` flag (set and
read only by the kernel's own thread and never by a trigger) and the formatting
of `/proc/interrupts` are left out.

### LklThreads

A task is a slot forked at most once. `current`, `sched_sem`, `dead`,
`prev_sched` and `live` are the fields of `threads.c`; `state`, `usage`,
`hashed` and `rcu` are what generic Linux keeps, as far as `threads.c` depends on
it: their steps are mapped to `kernel/fork.c`, `exit.c` and `sched.c` of
`src/lkl-2.6`. `SwitchUp`, `SwitchDown`, `SwitchBack` are the
three parts of a context switch, the `Boot*` actions are `thread_bootstrap`,
`ThreadFree` and `ThreadDec` the end of a thread, and `StartKernelReturns`,
`kill_all_threads`, `KilledAll`, `threads_cleanup` the end of the kernel.

### LklSyscalls

Callers go through `SYSCALL_VIA_QUEUE`: `Start`, `SemAlloc`, `Trigger`,
`SemDown`. The kernel side has one worker per queue plus keventd; `cpu` is the
one that runs (kernel threads are cooperative, which `LklThreads` shows).
`syscall_irq` runs on the idle thread. Handlers may block. A handler returns one
of the caller's `Results`, a `long`; `run_syscall` and `SYSCALL` take it through
an `int` (`AsInt`, with `IntSize` values), so a result that does not fit loses
its upper half. `ran` records what the handler itself has returned. Callers make
any number of calls. `sem_alloc` and `mem_alloc` may fail for the callers in
`Failing`, several threads may halt, and a thread may create and remove its own
queue. `orphan` marks a thread whose `lkl_syscall_thread_init` failed between
the hashing of the queue and the start of its kernel thread: the queue is never
served, and the properties about service name that exception.

`lkl_sys_halt` writes the global `halt_sem`, reads it once for `sem_down`
(`HaltRead`, where a `NULL` left by another thread's failed halt crashes the
process), waits on what it has read (`HaltDown`) and reads the global again for
`sem_free` (`HaltFree`), so that with two halts a thread may wait on a semaphore
that nobody ups or free one that is not its own. `HaltSems` are the semaphores
it can get. The table of system calls and argument passing are left out; so are
the early returns of `lkl_syscall_thread_init` and `_cleanup`, which change
nothing.

### LklTimer

Time is abstracted: a poll with a finite timeout may end whenever the pipe is
empty. `lkl_env_init` does not wait for the timer thread, so the kernel may
write requests before there is a pipe; `lost` records that, and the liveness
properties speak of the other behaviours.

### LklEth

Each device has a state of its netdev, the two lists of `struct rx_ring_entry`,
and a native thread with the steps of `rx_thread`: `Poll`,
`lkl_eth_get_rx_desc`, `Drop`, `Recv`, `Trigger`. Frames are numbered, so that a
buffer that is overwritten or delivered twice is noticed. `stop` (or
`_lkl_del_eth` of a device that is up) writes to the pipe of death and waits in
`pthread_join` inside the kernel, which does nothing meanwhile (`KernelRuns`);
`Joined` is the rest. Faults: `open` fails, `pthread_create` fails (its positive
error is taken for success, and the join is then one of an uninitialised
`pthread_t`, which may return at any time or never: `rpc` is `"uninit"`), `poll`
is interrupted, `recv` fails, no memory for the interrupt or for the next skb.
`leaked` and `eintr` are history variables. `cleanup_netdev` finds no native
handle: that its other branch is never reached follows from `NoUseAfterFree`.
The socket that `lkl_eth_native_cleanup` does not close is left out.

### LklCsum

The operators follow the C functions, with the conversions to `int`, `unsigned
long` and `unsigned short` where the code has them. A width is given by the number
of values: `Byte`, its square for a `u16`, the square of that for an `int`, and
for a `long` the same or once more the square. The loop of `csum_partial` is
`Words` and their sum (`Partial`, a recursive function). The variables are only
the arguments of a call.

### LklFs

Threads make the system calls of `lkl_mount_dev` and `lkl_umount_dev` one by
one; what the calls do (`mknod` and `mkdir` answer `-EEXIST`, `rmdir` of a mount
point fails) is the file system's part. Disks are added and deleted at any
time. `left` is a history variable.

### PosixSem and Semaphore

`PosixSem` has the mutex, the condition variable's waiters, signals that wake
any waiter, overtaking between signal and mutex, and spurious wake-ups.

## 3. Runs

| run | instance | checks |
|---|---|---|
| `irq` | 2 threads, 2 lines, 2 calls each, semaphores up to 2; symmetric threads | `TypeOK`, `NoLostIrq`, `InOrder`, `ExitAfterPending` |
| `irq_live` | 2 threads, 1 call each, semaphore limit 1 | `Delivered`, `HaltExits`, `ImplementsQueue` |
| `threads` | idle and 3 tasks | `TypeOK`, `OneRunner`, `CurrentRuns`, `NoUseAfterFree`, `CleanupIsLast`, `NoRunnableKilled`, `SwitchCompletes` |
| `threads_dead_ref` | the same | finding 1 |
| `threads_alloc` | the same | finding 2 |
| `syscalls` | 3 callers, one with its own queue and failing allocations, two that may halt, a result that does not fit an `int` | `TypeOK`, `StackFrameLive`, `OwnResult`, `QueueServed`, `NoFreedQueue`, `HaltIsLast`, `Answered` |
| `timer` | deltas 0..3, 4 requests, pipe of 3, one failed poll | `TypeOK`, `StaysUntilShutdown`, `OneShot`, `TickArrives`, `TimerStops` |
| `timer_shutdown` | the same without failed polls | finding 3 |
| `posix_sem` | 4 threads, 2 calls each, one spurious wake-up | `TypeOK`, `NoLostWakeup`, `FreeAfterDown`, `ImplementsSemaphore` |
| `net` | 2 devices, rings of 2, 3 frames, 2 faults; and all blocks of up to 6 bytes with 4 values | `TypeOK`, `RingConserved`, `FramesInOrder`, `NoUseAfterFree`, `StopReturns`; `ChecksumVerifies`, `CsumFeeds` |
| `csum_wide` | the same blocks, sums of 2^31 and more | finding 4 |
| `fs` | 3 threads, 2 disks, 0 to 2 file systems to try, 1 fault; symmetric threads and disks | `TypeOK`, `MountExclusive`, `NothingLeft` |

What they show:

- **Interrupts.** Whenever the pass of `run_irqs` has left a queue behind and
  the queue is not empty, another pass is certain (`NoLostIrq`), even with a
  semaphore that saturates at 1, and so every interrupt is handled or purged
  (`Delivered`). Data of one thread and line is handled once, in order
  (`InOrder`). `cpu_idle` returns after a halt (`HaltExits`) and only when the
  RCU callback has run, nothing is runnable and what was pending at the halt,
  with data or without, is handled or purged (`ExitAfterPending`). To its users
  the layer is a set of queues with atomic operations (`ImplementsQueue`).
- **Threads.** At most one host thread runs kernel code or has been given the
  right to (`OneRunner`), `current` names it (`CurrentRuns`), a switch always
  completes (`SwitchCompletes`), no freed `__thread_info` or `task_struct` is
  used (`NoUseAfterFree`), `kill_all_threads` never meets a runnable thread
  (`NoRunnableKilled`), and memory goes when all threads have left
  (`CleanupIsLast`).
- **System calls.** The kernel holds at most one pointer to a caller's stack
  frame, and only until it answers (`StackFrameLive`); a call returns what its
  own handler has returned, run once, as far as it fits an `int` (`OwnResult`).
  A queue in use has a thread (`QueueServed`), and a thread's own queue is not
  added to after it was freed, however `_init`, `_cleanup` and their failures
  mix; the default queue is, but only once the kernel is halted
  (`NoFreedQueue`). `lkl_sys_halt` succeeds only after the kernel has ended, also
  when two threads halt, and no semaphore is freed that the kernel has still to
  up (`HaltIsLast`). Every call that the interrupt layer has accepted is answered
  while the kernel is not halted (`Answered`), with these exceptions: a queue is
  a stack, so a call that others overtake again and again may wait for ever,
  for which three callers and handlers that sleep are enough; and a queue whose
  thread was never started. A call whose interrupt could not be raised hangs,
  for `SYSCALL_VIA_QUEUE` ignores that; `Answered` does not speak of it.
- **Timer.** A programmed event is followed by an interrupt (`TickArrives`),
  although the thread drops its first request; no delta is mistaken for a
  special request (`StaysUntilShutdown`); a request raises at most one
  interrupt (`OneShot`); shutdown ends the thread (`TimerStops`).
- **Network driver.** Each entry of a ring is on the ready list, with the
  thread, in one pending interrupt, or lost in one of four ways that the code
  has: no memory for the interrupt or the next skb, a purge (which `stop` does
  for the entries of every device), the end of a thread that held one
  (`RingConserved`). The stack gets frames in order, once and intact
  (`FramesInOrder`). Nothing refers to a device that is freed
  (`NoUseAfterFree`). `stop` returns although it stops the kernel
  (`StopReturns`), with two exceptions: a signal has interrupted `poll`, so that
  the thread blocks in `recv` until a frame comes, or `pthread_create` had failed
  and the join is undefined.
- **Checksum.** What a sender stores makes the receiver's sum zero, for all
  carries (`ChecksumVerifies`); `csum_partial` can be fed its own results, with
  an odd last byte, up to the sums that just fit an `int` (`CsumFeeds`).
- **Mounting.** `mknod` is the lock of a disk: no two threads work on its files,
  and those of a mounted disk stay (`MountExclusive`). A call that fails leaves
  no file behind (`NothingLeft`), but for the exceptions it names: a removal
  that fails, the error paths of `/mnt`, and a mount without a type when no
  file system is registered, which reports success.
- **Semaphore.** No wake-up is lost, the semaphore may be freed by the thread
  that takes the last unit, and it implements the atomic one, its progress
  included.

### Findings

1. `threads_dead_ref`: `kernel/exit.c` of Linux says that `TASK_DEAD` "causes
   final put_task_struct in finish_task_switch()". `__switch_to` of `arch/lkl`
   returns the task that called it rather than the one that was switched away
   from, so unless the next thread is a new one the dead task keeps a
   reference and its host thread sleeps forever.
2. `threads_alloc`: `mm/slab.c` relies on one thread at a time using the per-CPU
   arrays; `thread_bootstrap` calls `kfree(tba)` before it was ever scheduled,
   and a dying thread calls `kfree` after it was switched away from, both in
   parallel with the thread that runs.
3. `timer_shutdown`: `setup.c` says "Stop the timer." before it frees the
   interrupt layer, but in `posix.c` that is only a request in a pipe, and the
   timer thread can be between the end of its `poll` and `lkl_trigger_irq`.
4. `csum_wide`: `checksum.c` says that `csum_partial` "adds in "sum" (32-bit)".
   The sum is an `int` and is converted to `unsigned long`; from 2^31 on, with
   64 bits, it is sign-extended and the two rounds of `from32to16` do not reach
   the upper half. The result is one too small, for every block and every such
   sum below 2^32 (`SignExtensionOffByOne`). `inet_proto_csum_replace4`
   (`src/lkl-2.6/net/core/utils.c:291`) passes such sums.

### Bounds

- Two host threads and two lines are the least that let a trigger on a line
  the pass has left race with one it has yet to visit; a second call of each
  thread lets `sem` saturate and lets one thread raise on both lines.
- Three tasks besides idle allow a thread that dies, one that is switched to
  and one that starts at the same time.
- Three callers let two of them overtake the third one for ever on the default
  queue, and let one create, use and remove a queue while the others call and
  halt. Their calls are not bounded. Two halt semaphores let two threads halt
  at the same time; one that nobody refers to any more is used again. An `int`
  has 32 values, and the result of `c2` needs more.
- A ring of two entries and three frames let the ring run out, so that a frame
  is dropped, and let an entry be used again; two devices let one's `stop` purge
  the other's entries; two faults combine.
- Checksums are scaled: a byte has 4 values, a `u16` 16, an `int` 256, a `long`
  65536. The ratios are the real ones, and three words make the carry of the
  first round carry again. The driver and the checksum share no state: a
  behaviour of `net` is one of the driver or a sequence of calls.
- Three threads let one remove files while two others compete for them; two
  disks let threads meet at `/mnt` only.
- Requests, poll errors, spurious wake-ups, frames, faults and the calls of
  `LklIrq` and `PosixSem` are capped by `MaxReqs`, `MaxErrors`, `MaxCalls`,
  `MaxSpurious`, `MaxFrames`, `MaxFaults`; nothing else is.
- The theorems of section 4 remove these bounds for every safety property.

`CHECK_DEADLOCK FALSE` is set except in `fs`: calls are bounded, or wait for a
kernel that has ended, so the models come to rest. That nothing rests with work
to do is what `Delivered`, `SwitchCompletes`, `Answered`, `TickArrives`,
`StopReturns` and `ImplementsSemaphore` say.

### Fairness

- `LklIrq`: weak fairness of every host thread inside a call, of the kernel
  thread and of idle: the host schedules its threads. Strong fairness of
  `IdleScheduled`: other kernel threads eventually sleep and `schedule()`
  returns to idle. Strong fairness of `rcu_func`: a grace period ends, for
  idle calls `schedule()` again and again.
- `LklThreads`: weak fairness of the steps of a host thread that is inside
  `threads.c`; none for the kernel proper or for the shutdown.
- `LklSyscalls`: weak fairness of each caller inside a call (`CallerStep`) and of
  the kernel thread that has the CPU (`KernelStep`); strong fairness of
  `Unblock`: what a handler waits for happens. No fairness makes a caller call
  or halt, and none is asked of the scheduler's choice.
- `LklTimer`: weak fairness of the timer thread, of the boot, and of
  `timer_irq` (which `Delivered` justifies); none of a failing `poll`.
- `LklEth`: weak fairness of the receive threads and of the return of
  `pthread_join` for a thread that has ended (not for an uninitialised one);
  none of frames, of the handler or of faults.
- `LklFs`: none, it has only safety properties.
- `PosixSem`: weak fairness of each thread. A mutex that is not fair may make
  one thread wait as long as others keep taking it; with bounded calls that
  ends, and `Semaphore` asks only that some call is served.

## 4. Proofs

| theorem | statement | module |
|---|---|---|
| `TypeCorrect` | `Spec => []TypeOK`: a line's semaphore is a lock, `loop` stays in 0..1 | `LklIrq_proof` |
| `NothingLost` | `Spec => []NoLostIrq` | `LklIrq_proof` |
| `HandledInOrder` | `Spec => []InOrder` | `LklIrq_proof` |
| `ExitsAfterPending` | `Spec => []ExitAfterPending`, interrupts with data and without | `LklIrq_proof` |
| `Refinement` | `Spec => ImplementsQueue` | `LklIrq_proof` |
| `TypeCorrect` | `Spec => []TypeOK`: no counter is negative | `LklThreads_proof` |
| `MutualExclusion` | `Spec => []OneRunner` | `LklThreads_proof` |
| `CurrentIsRight` | `Spec => []CurrentRuns` | `LklThreads_proof` |
| `MemorySafety` | `Spec => []NoUseAfterFree` | `LklThreads_proof` |
| `KillFindsNoRunnable` | `Spec => []NoRunnableKilled` | `LklThreads_proof` |
| `CleanupAfterAllThreads` | `Spec => []CleanupIsLast` | `LklThreads_proof` |
| `TypeCorrect` | `Spec => []TypeOK` | `LklSyscalls_proof` |
| `FrameOutlivesCall` | `Spec => []StackFrameLive` | `LklSyscalls_proof` |
| `ResultIsOwn` | `Spec => []OwnResult`: the handler's result, taken through an `int` | `LklSyscalls_proof` |
| `QueuesAreServed` | `Spec => []QueueServed` | `LklSyscalls_proof` |
| `FreedQueueUnused` | `Spec => []NoFreedQueue`: no freed queue but the default one is used, and that after the halt only | `LklSyscalls_proof` |
| `HaltReturnsLast` | `Spec => []HaltIsLast`: a halt returns after the kernel's end, whose semaphore was not freed before | `LklSyscalls_proof` |
| `KernelWritesLiveFrames` | `Spec => [][...]_vars`: the kernel writes a frame only while its caller waits unanswered | `LklSyscalls_proof` |
| `TypeCorrect` | `Spec => []TypeOK`: the pipe never overflows | `LklTimer_proof` |
| `EndsOnlyWhenTold` | `Spec => []StaysUntilShutdown` | `LklTimer_proof` |
| `RaisesOnce` | `Spec => []OneShot` | `LklTimer_proof` |
| `TypeCorrect` | `Spec => []TypeOK`: the counter is never negative | `PosixSem_proof` |
| `WakeupKept` | `Spec => []NoLostWakeup` | `PosixSem_proof` |
| `FreeIsSafe` | `Spec => []FreeAfterDown` | `PosixSem_proof` |
| `ActsAtomically` | `Spec => Abs!Safety`: the safety half of `ImplementsSemaphore` | `PosixSem_proof` |
| `TypeCorrect` | `Spec => []TypeOK`: the names to try never run out below 0 | `LklFs_proof` |
| `MountIsExclusive` | `Spec => []MountExclusive` | `LklFs_proof` |
| `FailureCleansUp` | `Spec => []NothingLeft` | `LklFs_proof` |
| `TypeCorrect` | `Spec => []TypeOK` | `LklNet_proof` |
| `FreeIsSafe` | `Spec => []NoUseAfterFree` | `LklNet_proof` |
| `RingIsConserved` | `Spec => []RingConserved` | `LklNet_proof` |
| `FramesStayInOrder` | `Spec => []FramesInOrder` | `LklNet_proof` |
| `BuffersAreKept` | `Spec => [][...]_vars`: no step writes a buffer that is pending or that the stack owns | `LklNet_proof` |
| `UsesIrqQueue` | `Spec => IRQ!Spec` | `LklNet_proof`, `LklSyscalls_proof` |
| `ChecksumHolds` | `CallInit(S) /\ [][CallNext]_args => []ChecksumVerifies` | `LklNet_proof` |
| `PartialFeedsItself` | `CallInit(S) /\ [][CallNext]_args => []CsumFeeds` | `LklNet_proof` |
| `SignExtensionOffByOne` | sums from 2^31 to 2^32 - 1: right with a 32-bit `long`, one too small with 64 bits | `LklNet_proof` |

They hold for any number of threads, lines, calls, callers, tasks, requests,
disks, devices and ring entries, and any semaphore limit or pipe size of at
least 1. Assumptions: `Kern` is not a host thread, `NR_IRQS` and `SemMax` are
positive; the tasks are a finite set without `Idle` and `NULL`; the default
queue, keventd, idle and `NULL` are different from each other and from the
callers; the threads of a semaphore are a finite set; `NULL` is not an entry of
a ring. The checksum is proved for bytes of any even number of values, a `long`
that is as wide as an `int` or twice as wide, and blocks that have, with their
checksum, at most as many bytes as a `u16` has values: IP counts lengths in 16
bits, and longer blocks could overflow the `int`.

`UsesIrqQueue` joins the components: `LklSyscalls` and `LklEth` take only steps
that `IrqQueue` allows, and `Refinement` shows that `irq.c` provides them.

The arguments:

- **LklIrq.** `TypeOK` is not inductive: a lock stays at most 1 only because
  whoever ups it has downed it. `LockInv` gives each lock at most one holder,
  among the callers and idle, and none while its value is 1; `CallInv` says that
  `Kern` only purges and that a thread in a call has counted it (its data item
  is one of `Items`); `RegsInv` that `do_IRQ` gets an item that was dequeued;
  `LoopInv` relates `loop` to the position in `cpu_idle`. `NoLostIrq` is then
  inductive relative to these (`NoLostStep`): a trigger that queues behind the
  pass becomes `Posting`; when it stops posting, `sem` is positive, at its limit
  too; when idle takes the unit it starts a pass, so no queue is behind it any
  more; and a queue is left only when it is empty. Order and exit rest on what
  idle holds between a dequeue and its handler (`GotInv`). `OrderInv`: on a
  line, what was handled comes before what is in hand, and that before what is
  queued; nothing of a thread is there that is later than its last update under
  the lock (`Sent`), so that the next one comes behind all of it. `ExitInv`:
  what was pending at the halt has left the lines that the pass has gone by
  (`Passed`); what is queued later was not `Sent` at the halt. `DueInv` does the
  same for the counts: `due_count` is never more than what is counted and not
  handled, and 0 on the lines whose counts the pass has emptied (`Counted`). For
  `Refinement` a trigger and a purge take effect at their update under the lock
  and a handler at `do_IRQ`: what is in hand still counts as queued (`AbsCount`,
  `AbsQueue`), so a dequeue is a stutter. That the head of the abstract queue is
  what idle has in hand needs that nobody purges in between, which is a part of
  `GotInv`: `Kern` acts only while idle is in `schedule()`.
- **LklThreads.** `OneRunner` is about a token. `TokenInv`: the semaphore of a
  thread that is not dead is at most 1, and 0 while the thread runs, so the
  token is not duplicated. `PeerInv`: `__switch_to` is called for another
  task. With these `OneRunner` and `CurrentRuns` are inductive together: the
  thread that does `sem_up` gives the token away in the step in which it
  stops having it. Dead threads are woken without the token and leave
  through `free` or `bug`, never through kernel code, which is why `HasCpu`
  excludes them. `LifeInv` is about references. A task has one reference as
  current until a thread that was switched to has called `finish_task_switch`
  for it (`Owned`), and one until `release_task` and its RCU callback are done;
  `UsageInv` says that `usage` covers both, `PrevInv` that `prev_sched` of a
  thread that resumes names a task that is `Owned`, or at least not freed.
  Up to the shutdown a thread is told to exit only when its task is gone
  (`TaskInv`), so whoever can be switched to still has its `__thread_info`
  (`LiveInv`). When the shutdown begins nothing is runnable (`KillInv`), and
  only a running thread can wake another. `CounterInv`: `threads_counter` is the
  number of host threads that have started and not yet decremented it.
- **LklSyscalls.** `StackFrameLive` counts pointers. `LinkInv`: whoever holds a
  pointer to a `struct syscall`, its caller is in `sem_down` without an answer.
  `OnceInv`: no frame is in two places. They are inductive only together, for
  the worker that answers must hold the last pointer. Which list a frame can be
  on is told by its number (`KindInv`): hence a frame that is on one worker's
  list is on no other. `ExecInv` says what each worker may be running and
  `RunInv` follows the result from the handler, which runs once (`ran`), through
  the conversion to the caller. `ServeInv` is the life of a private queue: it is
  hashed exactly while it has a kernel thread, except inside
  `lkl_syscall_thread_init` and after its failure, and only the caller's own
  reboot, which it waits for, ends that thread; hence no call reaches a thread's
  own queue after it was freed. `FreedInv`: the default queue is freed on the
  way to `kernel_halt`; its worker keeps the CPU from there to the halt
  (`CpuInv`), so that idle, which would add to it, runs after the halt only.
  `HaltInv`: the semaphore of a halt is upped only after `cpu_idle` has
  returned, and freed only after that.
- **LklTimer.** `ShutdownInv`: a message in the pipe that equals
  `LKL_TIMER_SHUTDOWN` was written by `setup.c`, since the deltas are clamped to
  more than `LKL_TIMER_LAST_OP`. `Credit`: a request is a message in the pipe, a
  timeout, an interrupt about to be raised or one that was raised, and never two
  of these; `OneShot` is what is left when the first three are dropped.
  `ReadInv`: the thread reads only when the pipe has something.
- **PosixSem.** `MutexInv`: exactly the owner is in a critical section.
  `UnitsInv`: units added are those in `count`, those taken, and the one in
  the hands of a down that is about to return; an up that has not unlocked
  still finds its unit in `count`. `NoLostWakeup` is inductive with these; the
  steps are about the size of `Contenders` when one thread leaves it and a
  signal brings another one in. `ActsAtomically` is a step simulation: an up is
  the atomic one at its `count++`, a down at its `count--`, and everything else
  is a stutter of `Semaphore`.
- **LklFs.** Two locks. `NodeInv`: a thread between its `mknod` and its `unlink`
  is the only one for its disk, the device file exists and the disk is not
  mounted; `DirInv` says the same of the mount point, from `mkdir` to `rmdir`.
  The step that needs both is `Umount`, which hands the files of a mounted disk
  to the thread that unmounts it: `MountedInv` gives it the files, and the
  other two that nobody else has them. `NothingLeft` needs the converse
  (`NodeOwned`, `DirOwned`): a file that no failure has left behind belongs to
  a mounted disk or to a thread that will give it away or remove it.
- **LklEth.** `NoUseAfterFree` speaks of devices that are freed; the invariant is
  about those that are open. `HandleInv` and `RxInv`: handle and thread exist
  exactly while the device is open, and what the thread holds is an entry of
  its own device (`ReadyInv`: the list it is taken from has no other).
  `QueueInv`: a pending interrupt carries an entry of an open device; the step
  that closes a device purges the line, and the thread has been joined before,
  so that nothing is raised after the purge. `RingInv` puts each entry in one
  place, and has to say that no entry is twice on the ready list or pending
  twice: otherwise taking one away would not remove it. `OrderInv` follows the
  frames of a device from the stack back to the network: delivered, pending, in
  the thread's hands, in the socket, not yet arrived. It relies on `RingInv`:
  the buffer that `recv` fills is not one that is pending, which `BuffersAreKept`
  states of every step.
- **LklCsum.** The library's induction theorems are out of reach, but a set of
  numbers that is not empty has a least element (`LeastNumber`, from the
  well-foundedness of `<`), and that gives induction for a set of numbers
  (`SetInduction`). With it `PartialExists` and `PartialSums` show that the
  recursive function adds up its sequence, `SumSplit` that sums can be cut in
  two, and from there `TotalSplit` and `TotalIsValue` that the loop over words
  adds what the bytes stand for, cut at any even length and with an odd last
  byte. The other half is arithmetic. `FoldFacts`: `from32to16` keeps a number
  modulo 0xffff, does not make it larger, and gives 0 for 0 only; such a `u16` is
  unique (`SameClass`). So adding before or after a fold gives the same
  (`FoldAdd`), which is `CsumFeeds`; and a block with its checksum, which is
  congruent to 0 and not 0, folds to 0xffff, which is `ChecksumVerifies`.
  `TotalFits` is where the 64 kB are needed. For `SignExtensionOffByOne`
  (`HighSums`) a sign-extended sum is 2^64 - 2^32 larger; after the two rounds
  that is 2^32 - 1 more, and the truncation to 16 bits makes it 1 less.

Only model-checked: liveness (`Delivered`, `HaltExits`, `SwitchCompletes`,
`Answered`, `TickArrives`, `TimerStops`, `StopReturns`) and the fairness part of
`ImplementsSemaphore`, which are out of the reach of the prover. Every other
property of a passing run is a theorem.

## 5. Not modelled

- Stock Linux, except for what `arch/lkl` depends on (above).
- `envs/nt.c`, `ntk.c`, `khaiku.c`: thin calls of the host. The limit of 100
  of `nt.c`'s semaphores is `SemMax` of `LklIrq`.
- `console.c`, `traps.c`: no state. `lib/string.c`: one loop that copies bytes.
- `lkl_disk_request` serves one request after the other, synchronously, under
  the queue's lock; the interrupt for asynchronous completion is never raised.
- `start_xmit` of `eth.c`: one `send` per skb; it changes no state of the driver.
  When the send fails it returns a negative error without freeing the skb, which
  its caller takes for consumed; memory of the stack is not modelled.
- The other checksum functions: `csum_partial_copy_nocheck`,
  `csum_partial_copy_from_user` (which sets `len` to the number of bytes it could
  not copy when the copy fails), `csum_tcpudp_nofold` and `csum_tcpudp_magic`.
- `envs/lib/net.c`: each function is a socket, an `ioctl` or two and a `close`.
- `kernel/mem.c`: without `CONFIG_LKL_SLAB`, which `defconfig` does not choose,
  it hands a block of host memory to the boot allocator and frees it at the
  end. The tree of blocks belongs to the other case.
- `src/lkl-image-writer`: sequential file copying over `lkl_sys_*`.
- Early returns of `lkl_start_kernel` when native initialisation fails.
- `NULL` results that are dereferenced at once, but for `sem_down(halt_sem)`.

## 6. Plan

Done, in this order: `LklIrq` (everything else is driven by interrupts),
`LklThreads` (on which "one kernel thread at a time" rests), `LklSyscalls`,
`LklTimer`, `PosixSem`; `LklEth`, `LklCsum`, `LklFs`; allocation failures and
two halts in `LklSyscalls`; the theorems above, component by component.

Every safety property and refinement that a passing run checks is proved; what
is left to TLC is liveness (section 4).

Possible modules: the block tree of `LKL_SLAB` with blocks freed through RCU.
