# TLA+ models of rdma-sw (YMPI)

The repository contains YMPI, a small messaging library over InfiniBand verbs
(`src/ympi.c`), the queue it is built on (`include/linkedlist.h`), test and
benchmark programs that use it, and a set of verbs programs from which it grew
(ping-pongs, `iballputall.c`, `ibprobe.c`). These modules specify the library and
programs on top of it, model-check them with TLC, and prove some of the results with
TLAPS. Paths below are relative to the repository.

## The system

| Component | State | Operations | Interacts with | Hard part | Correct when |
|---|---|---|---|---|---|
| Vbuf queue, `include/linkedlist.h` | one node array holding a queue and a free list, head and tail pointers | `_init`, `_enqueue`, `_dequeue`, `_dequeue_inplace`, `_clear` | used by the core for `pending_recv_queue` and `vbuf_fetched` | tail pointers, the full check | it is a bounded FIFO queue and no node is lost |
| Messaging core, `src/ympi.c` 758-994 | send counters, receive window (buffers, lengths, queues), and the queues of the device | `YMPI_Zsend`, `YMPI_Write`, `YMPI_Read`, `YMPI_Zflush`, `YMPI_Zrecv`, `YMPI_Return`, `process_wc` | with the HCA through send queues, one shared receive queue (SRQ), one completion queue (CQ); with other ranks through messages | every call handles the completions of all others; failures; limits of queues | each pair of ranks has a FIFO channel, buffers are conserved, counters exact, flush complete |
| Core with threads | the same counters, without a lock | `YMPI_Write`, `YMPI_Zflush` | threads of `benchmark/inbound_outbound_assymetry.c` | loads and stores of different threads interleave, and so do the polls | as with one thread |
| Programs | position in a sequence of calls | loops of `test/test_ympi.c`, `benchmark/ympi_fan.c`, `ympi_allputall.c`, `ympi_latency.c`, `osu_benchmark/osu_ympi_zalltoall.c` | the core, `MPI_Barrier` | all ranks' messages compete for the receive buffers | they end |
| Initialisation and teardown, `src/ympi.c` 155-377, 494-756 | device objects, QP maps | `YMPI_Init`, `YMPI_Finalize`, cleanup labels | MPI collectives | failure half way | what was made is released, once |
| Registered buffers | memory regions | `YMPI_Allocate`, `YMPI_Dealloc`, ... | the HCA uses them until a WR completes | freed while in use | a region outlives its WRs |
| Write-based collectives, `src/ympi.c` 1144-1295 | one cache of addresses for two functions | `YMPI_Alltoall_write`, `_ptr` | `YMPI_Write`, `YMPI_Zflush`, `MPI_Barrier`, `osu_ympi_rdma_alltoall.c` | stale cache, a rank ahead of the others | a rank reads the blocks of this call and of no other |
| `iballputall.c` | receive window of consecutive buffers, its device objects | refill, on_recv, on_flush, benchmark and main loop | HCA, other ranks | assumes that buffers complete in order, posts them again only at the end of a round | the window describes what the HCA holds |
| `ibprobe.c` | counts of a window of sends, the number of rounds | main loop | HCA, MPI | queues exactly as large as the window | both ranks finish |
| Ping-pongs `rc`, `uc`, `ud`, `srq`, `xsrq` | counts of sends and receives, pending flags | connection, main loop, release | HCA, events, TCP sockets | lost wake-ups, unreliable transports, termination, partial failure | both sides reach their count and leave nothing |
| Shuffle, device tools, OSU support, MPI benchmark | - | - | - | - | not modelled, see below |

## Modules

| Module | Models | Kind |
|---|---|---|
| `BoundedFifo` | what the queue promises: a FIFO queue of bounded length | abstract |
| `LinkedList` | `include/linkedlist.h`, pointer by pointer | detailed |
| `LinkedListProofs` | theorems about `LinkedList` | proofs |
| `ZChannel` | what the core promises: a FIFO channel per ordered pair of ranks that keeps contents and length together | abstract |
| `Ympi` | the messaging core and the HCAs | detailed |
| `YmpiProofs` | theorems about `Ympi`: its counters and its receive buffers | proofs |
| `YmpiChannelProofs` | theorems about its messages, and about the programs on it; extends the one before | proofs |
| `YmpiApp` | programs of the repository, running on `Ympi` | composition |
| `YmpiThreads` | `YMPI_Write` and `YMPI_Zflush` called by several threads | detailed |
| `YmpiThreadsProofs` | theorems about `YmpiThreads` | proofs |
| `Alltoall` | the write-based collectives and the programs that call them | detailed |
| `AlltoallProofs` | theorems about `Alltoall` | proofs |
| `RxWindow` | the receive window and the two loops of `iballputall.c` | detailed |
| `RxWindowProofs` | theorems about `RxWindow`: what the window describes, and who waits for whom | proofs |
| `VerbsDevice` | the HCAs, event channels and TCP connections as the verbs programs use them | external |
| `VerbsSetup` | set-up tables: what is made in which order, what each cleanup label releases | functions |
| `PingPong` | the state of a verbs process and the steps the programs share | detailed |
| `RcPingPong`, `UcPingPong`, `UdPingPong`, `SrqPingPong`, `XsrqPingPong`, `IbProbe` | one program each | detailed |
| `MpiSetup` | creation, connection and release of YMPI and of `iballputall.c` | detailed |
| `VerbsPrograms` | the choice of a program, its processes and the device together; the properties | composition |
| `PingPongProofs` | theorems about `VerbsPrograms` when it runs one of the four ping-pongs of two processes: its queues and wake-ups | proofs |
| `PingPongCountProofs` | theorems about the same: its messages, its end, and what it makes and releases; extends the one before | proofs |
| `MC...` | constants for TLC | |

### LinkedList

`next` and `elem` are the fields of the node array, `qtail` and `ftail` the two tail
pointers; the heads never change. Each operation is one action. `enqueue_full` is the
`exit(1)` of a full list. Two history variables hold the nodes each chain ought to
have; no action reads them.

### Ympi

`pc[p]` says which call rank p is in. The six calls are actions that start a call; a
call that polls stays in `"throttle"`, `"flush"` or `"recv"` while completions are
handled one at a time. `batch` remembers that `ibv_poll_cq` handed out more of them, so
that the loop's condition is evaluated where the code evaluates it: after a batch, not
after each completion. `process_wc_sent`, `process_wc_recv` and `process_wc_failed` are
the cases of `process_wc`; `poll_failed` is a negative result of `ibv_poll_cq`, on which
the throttle loop just ends and the others exit. `Return_post` is one turn of the loop
of `YMPID_Return`, including its early return with a buffer that is neither listed nor
posted (`lost`).

The device is modelled from its use: `sq` holds the work requests (WRs) of each QP until
their completion is polled, `done` how many of them took effect; `hca_deliver` executes
the next one. A send takes any buffer of the receiver's SRQ (the note at
`src/ympi.c` 426-433 says buffers do not come back in the order they were posted), or
waits for one (`rnr_retry = 7`). WRs of a QP complete in order, those of different QPs
in any. A completion with an error status can come at any time up to `MaxFaults` times,
and whenever the peer has exited.

A message stands for its bytes and its length. `data` is what the HCA wrote into a
buffer, `buf_bytes` what `process_wc` noted as its length, and `got` pairs the two as
`YMPI_Zrecv` hands them out: the channel property fails if they ever belong to different
messages.

### YmpiApp and YmpiThreads

A program is a sequence of calls and barriers per rank, written with the loops of the
source: the writes and the point-to-point rounds of the test, the put-all, fan-in, fan-out
and ping-pong rounds of `ympi_fan.c` (and `benchmark_ympi.c`, a copy), the latency test, the
OSU all-to-all. `Then` runs one after another. `YmpiApp` drives `Ympi` with it: a call of the program is a call action of
`Ympi`, everything else is a step of `Ympi`. `program` is chosen from a set at the
start, so one run covers several programs.

`YmpiThreads` splits the counter updates into load and store, which `Ympi` does not need
to. All writes go to one peer. A configuration says whether the counters are atomic
(`ATOMIC_PENDING_SEND_WR`) and which threads are started.

### Alltoall

The blocks are modelled byte by byte, because whether they overlap is the question: a byte
holds who wrote it and in which call. `cache` is the set of static variables the two
functions share; the first call of either fills it (`first_call`, `gather`), every later
one takes it as it is (`later_call`) and aborts if it is called with other buffers.
`write` and `hca_write` are the two ends of an RDMA write, each with its check of bounds:
the assertion of `YMPI_Write` and the region of the target. `flush` waits for all writes
of the rank (what `Ympi` shows of `YMPI_Zflush`). A program is a sequence of calls, the same
on every rank; `osu` builds the loops of `osu_ympi_rdma_alltoall.c`.

The number of registered bytes is the one of the source: `YMPID_Register` is given a size
that already counts the processes and multiplies by them again, so the region is larger
than the buffer by that factor. For this reason a benchmark whose size doubles aborts only
once the size exceeds the number of ranks, not at the second size.

### RxWindow

`ctx[r]` holds `rx_win` (`idx`, `len`), the list of receive WRs, the rest of the current
batch and the counts of the loop; `dev[r]` the receive queue, the sends under way and the
CQ. One rank talks to one other, so that messages arrive in order, which is what
`pp_on_recv` asserts. `pp_on_recv`, `pp_on_flush` and `leave_loop` are the operations; a rank
leaves a round of the benchmark when all is counted, and a main round when its sends are
through and both ranks are in the non-blocking barrier, with whatever is still in the CQ.
`pp_on_flush_full` is the flush of a window from which nothing was taken: the source
computes zero buffers to post, writes to element -1 of the list and posts the list as the
last refill left it. That write is undefined; the model lets the process go on or die, and
remembers it in `stale`.

### The verbs programs

`rc_pingpong.c`, `uc_pingpong.c`, `ud_pingpong.c` and `srq_pingpong.c` are four copies of one
program, and `xsrq_pingpong.c` and `ibprobe.c` descend from it. What they share is in
`PingPong`; each has a module that says with which queues, limits, transport and order of steps
it differs. `program` holds the choice made at the start: the name, the options (`-e`, `-t`),
the sizes of queues. `proc[n]` is a process: where it is in `main`, the objects it holds
(`made`), the completions of the last poll it has not handled (`todo`), `pending`, `routs`,
`scnt` and `rcnt` under their names in the source.

Set-up is one step, made from a table (`VerbsSetup`): the objects in the order in which
`pp_init_ctx` asks for them, the label each failure jumps to, and what each label releases
before it falls through. `init_fails` takes a failure at any line of the table. The release
functions are sequences over the same objects, and a verb refuses to release an object that
others depend on, which is what makes an order wrong.

In `VerbsDevice` a send takes a receive of the target if there is one. Without one, a
reliable transport waits (`rnr_retry = 7`) and an unreliable one drops the message, which
also may be lost on the way. Completions go to the CQ; an entry takes the armed
notification and leaves an event, and `get_cq_event` sleeps until there is one. A target
that is gone answers nothing, and the send comes back with an error. A socket is a queue of
tokens: an address, `done`, `END`. A process may fail in any call after set-up
(`main_fails`). Whatever goes wrong beside the code's own doing is counted in `faults`,
so that properties can say what holds if nothing does.

`xsrq_pingpong.c` has one server and several clients on one XRC receive queue, and a
handshake over the sockets at the end. `Xsrq` runs it with two clients.

## What the runs check

Deadlock checking is off everywhere because every model may stop: calls are made or not
at the caller's will, programs end, processes exit.

| Run | Instance | Properties | States |
|---|---|---|---|
| `linked_list` | 3 nodes, 2 values and the zero value | `TypeOK`, `ChainsLinked`, `NodesConserved`, `FifoSpec` | 3,942 |
| `ympi_star` | 1 rank with QPs to itself and to another, 1 buffer and a CQ of 4, throttle at 2, 3 messages, 2 failures, all kinds of WR | `TypeOK`, `CountersExact`, `OverrunsOnlyOverdrawn`, `FlushCompletes` | 1,179,237 |
| `ympi_hub` | 2 ranks, rank 0 receives from both, 2 buffers, 3+1 messages, 1 failure | `MessagesConserved`, `VbufsConserved`, `ExitsOnlyOnFault`, `PointersStable`, `ChannelSpec` | 192,327 |
| `app_pair` | 7 programs on 2 ranks | `PostsSucceed`, `AllReceived`, `Termination`, `ReceiveReturns` | 21,493 |
| `app_ring` | 2 rounds of all-put-all without a barrier between, 3 ranks, 3 buffers | `NeverStuck` | 420,398 |
| `app_fan_in` | fan-in, 3 ranks, 2 buffers, 2 rounds | `ReceiveReturns` (violated) | |
| `threads_safe` | 2 threads with atomic counters or 1 without, 3 rounds | `TypeOK`, `CountersTrack`, `DeallocSafe`, `AllJoin` | 2,240 |
| `threads_flush` | 2 threads, counters of the source | `FlushCompletes` (violated) | |
| `verbs_programs` | 13 programs with their options, a server and one or two clients, 1 failure | `TypeOK`, `QueuesFit`, `NoLostWakeup`, `NothingDropped`, `FailsOnlyOnFault`, `OneInFlight`, `NoOrphans`, `LeavesNothingElse`, `Termination` | 264,387 |
| `verbs_events_ts` | `rc_pingpong -e -t` | `FailsOnlyOnFault` (violated) | |
| `rx_window` | 2 ranks, window of 4, counts 1 and 2, 2 main rounds | `TypeOK`, `WindowTracks`, `WaitsOnlyAtLaggard`, `FailsOnlyAfterFullFlush`, `Termination` | 143,820 |
| `alltoall` | 8 programs on 3 ranks, buffers of 12 bytes | `TypeOK`, `ResultStable`, `AbortsOnlyOnMisuse`, `Termination` | 32,666 |

**Bounds.** Two buffers, a throttle at two and batches of two completions are the least
at which order matters, a limit is reached with work outstanding, and a batch can end
early. Three nodes are the least for which a chain has an inner node. The messages
outnumber the buffers, so that each is reused, and the lists (`RecvCap`) are just large
enough. The send queues are as deep as the throttle's limit; a device may
grant deeper ones, which the theorems cover. The number of writes and reads is bounded by the send queue only. Buffers are
interchangeable (symmetry); ranks are numbered because the programs compute with them.

`ympi_star` has two QPs, so that completions of one QP end the throttle of the other, and one
buffer, so that the CQ has four entries: two send queues of two and a message already are more. In
this instance the CQ does overrun, as it can in the source beyond three peers; the invariant
says when. Rank 1 makes no calls, its HCA serves those of rank 0.

`app_ring` has two rounds, so that a rank can be a round ahead of another, as nothing separates
the rounds of `ympi_fan.c` 149. Three buffers are the least for which it works on three ranks:
with two, the same run ends in a deadlock (below). It polls
one completion at a time, which keeps it small and loses no wait: a batch is a shorter
way to a state that single polls reach too. For the same reason states are told apart by
`ProgressView`, which has the number of buffers in each list and queue, not their names, and not
what was returned: no guard reads more, and neither does `NeverStuck`.

For the verbs programs `RxDepth = 2` makes the refill threshold and the number of posted
receives meet, so that receives are posted again in the middle of a run; `Iters = 3` lets
every phase be entered again; `NumTests = 2` is what `xsrq` needs to have a client still
sending while another leaves. `MaxFaults = 1` takes each failure by itself; two failures in
one run are not covered. In `RxWindow` a window of 4 is the least that the counts 1 and 2
leave in the middle, at the wrap and empty; two main rounds let one rank be a round ahead (three
rounds were checked too: 1.9 million states, no difference); `Batch = 2` ends a batch before and after a refill. `Room = 1` is a receive queue with
one entry more than asked for, and old entries are posted once. The source runs its list of
counts twice with the same steps; the model runs it once. In `Alltoall` three ranks are the least
for which a rank is not everyone's neighbour, and 12 bytes hold 3 blocks of 4, the size at
which the benchmark aborts.

**Fairness.** `Ympi` has none: its properties are safety properties. `AppSpec` assumes
that while anything can happen something does. A poll that returns nothing is no step,
so this says that CPUs and adapters run, and promises no particular sender a buffer.
`YmpiThreads` gives each thread and the HCA weak fairness: the scheduler runs every
thread, and a spinning thread does not stop the others. `RxWindow` and `Alltoall` assume
weak fairness of `Next`, as `AppSpec` does. `VerbsPrograms` assumes it of `Progress`, the
steps in which nothing goes wrong: no failure is ever due. `NeverStuck` is the safety form
of `Termination`: programs are finite and every step is progress, so a run that does not
end, ends in a state in which everyone waits.

**Mutants.** Beside some operators there is a variant marked *Mutant*: the same operator
with a plausible mistake. Put in place of the original it breaks the property listed with
it in `PROJECT.json`, under the configuration of the passing run. No specification refers
to one.

### What the violations show

- `threads_flush`: the threads of `benchmark/inbound_outbound_assymetry.c` share the
  counters. `YMPI_Zflush` of one thread returns because another thread has taken its
  completion, or because an update was lost, while its own write is outstanding. "this
  call assures that send has completed" (`src/ympi.c` 883) does not hold with threads,
  and it would not with atomic counters either: between `ibv_post_send` and the increment
  a WR is not counted, and between poll and decrement another is counted still. What does
  hold with atomic counters is `DeallocSafe`: when all threads are joined everything has
  completed. It also needs the throttle's limit to be larger than what the threads have
  outstanding; with a limit of two and two threads, a thread in the throttle loop can
  wait for a completion the other has taken, and `AllJoin` fails.
- `app_fan_in`: rank 0 of `do_fanin` (`benchmark/ympi_fan.c` 105-120) receives from ranks 1
  to np-1 in turn, and the rounds are not separated by a barrier. A sender's flush only
  waits until its message is in a buffer of rank 0, so it can run ahead and fill them all;
  rank 0 then waits for a rank whose message finds no buffer. With the 16 iterations and 256
  buffers of the source this takes 16 ranks that run ahead, so it can happen from 32 ranks on
  (the program doubles the number of ranks).

- `verbs_events_ts`: with `-e`, `rc_pingpong.c` arms the notification again (938) and then
  takes up to two completions. Without `-t` an event whose completion was taken by an earlier
  poll is harmless: `ibv_poll_cq` returns 0 and the loop goes on. With `-t` the same event makes
  `ibv_start_poll` return `ENOENT`, which line 951 takes for a failure, although line 974 knows
  that it is none. The program ends with "poll CQ failed" though nothing failed.

What the passing runs found to be narrower than it may look, and state as such:

- `FailsOnlyAfterFullFlush`: the assertion of `pp_on_recv` can fail, but only after a round in
  which a rank received nothing at all (or exactly a window) and flushed.
- `AbortsOnlyOnMisuse` allows the abort of `osu_ympi_rdma_alltoall.c`, which doubles the size
  and so does not keep to the caution at `src/ympi.c` 1239-1243.
- `ResultStable` needs the program's own barrier between two collectives: without it a rank that
  is ahead writes into what another still reads. Every program of the repository has it.
- `NeverStuck` of all-put-all depends on the number of buffers. With two of them the run
  `app_ring` finds a deadlock of three ranks: rank 0 is a round ahead and its second message takes
  rank 1's last buffer; rank 1 waits for the message of rank 2, whose flush waits for a buffer of
  rank 1, and rank 0's for one of rank 2. A rank may hold two messages of each rank but itself and
  the one it asks, so it needs more than `2 * (ranks - 2)` buffers. `ASSUME AllputallRoom` of
  `MCYmpiApp` has TLC compare this with `KeepsGoing`, for two and three rounds, on two ranks and on
  three with two and with three buffers; for more ranks it is an argument, not a check. By that
  argument the 256 buffers of the source suffice for the groups of 128 ranks of `ympi_allputall.c`, and
  not for `do_allputall` of `ympi_fan.c` on 256 ranks, which runs 16 rounds without a barrier.
- `OverrunsOnlyOverdrawn`: the CQ can overrun, with sends to four peers at the limit and the messages
  received meanwhile (`src/ympi.c` 192). It does so only while `pending_send_wr` exceeds
  `3 * YMPI_PREPOST_DEPTH`, so a test of this counter before a post would be enough; the code has none.
- `LeavesNothingElse` claims the failing set-ups of `uc`, `ud`, `srq` and of `rc` without timestamps
  only. The labels of `rc -t`, `ibprobe` and YMPI leak on some failures, those of `iballputall`
  on most, and `xsrq` has none. `pp_close_ctx` of `iballputall.c` never destroys the
  SRQ, so the domain cannot be released and the function always fails.
- The good end of YMPI releases every object of the device, and leaks memory (`YmpiMemory`): the list of
  devices (`src/ympi.c` 636), `qp_pending_send_wr` (164), `buf_bytes` (228), `pending_recv_queue` and
  the nodes of all vbuf queues (243-248), `qp_rank` (262), the lists of receive WRs (657-658) and the
  five lists of addresses (707-723). Neither `YMPID_Context_destroy` (379-424) nor `YMPI_Finalize`
  (751-756) frees them, and neither do the labels of `YMPID_Context_create`.
- `NoOrphans` leaves out `srq`: its counts are over all QPs, so one of them may be left in
  mid-exchange.

## What is proved

Checked by TLAPS, for every value of the constants allowed by the assumptions the modules
state. `Spec` is that of the module whose name comes first.

| Theorem | Says |
|---|---|
| `LinkedListProofs!TypeCorrect`, `ChainsCorrect`, `NodesCorrect` | `Spec => []TypeOK`, `[]ChainsLinked`, `[]NodesConserved` |
| `LinkedListProofs!ImplementsFifo` | `Spec => FifoSpec`: the pointer structure implements the bounded queue |
| `YmpiProofs!TypeCorrect`, `CountersCorrect` | `Spec => []TypeOK`, `[]CountersExact` |
| `YmpiProofs!FlushCorrect` | `Spec => FlushCompletes`: when `YMPI_Zflush` returns, nothing is outstanding |
| `YmpiProofs!VbufsCorrect` | `Spec => []VbufsConserved`: a receive buffer is in one place |
| `YmpiProofs!PointersCorrect` | `Spec => PointersStable`: what a returned pointer points at does not change |
| `YmpiProofs!ExitsCorrect` | `Spec => []ExitsOnlyOnFault`: no receive list is ever full |
| `YmpiProofs!OverrunCorrect` | `Spec => []OverrunsOnlyOverdrawn`: the CQ overruns only while the process counts more than `3 * PrepostDepth` sends |
| `YmpiChannelProofs!MessagesCorrect` | `Spec => []MessagesConserved`: no message is lost or doubled |
| `YmpiChannelProofs!ChannelCorrect` | `Spec => ChannelSpec`: the core implements `ZChannel` |
| `YmpiChannelProofs!ProgramsRunOnCore`, `ProgramsRelyOn` | `AppSpec => Spec`: what is proved of the core holds while a program runs |
| `YmpiChannelProofs!PostsSucceedCorrect` | `AppSafety => [](faults = 0 => PostsSucceed)`, for programs that are `Throttled` |
| `YmpiChannelProofs!AllReceivedCorrect` | `AppSafety => [](faults = 0 => AllReceived)`, for programs that are `Throttled` and `Matched` |
| `YmpiChannelProofs!NeverStuckCorrect` | `AppSafety => [](faults = 0 => NeverStuck)`, for programs that are `Throttled` and `KeepsGoing` |
| `YmpiThreadsProofs!TypeCorrect` | `Spec => []TypeOK` |
| `YmpiThreadsProofs!CountersCorrect`, `DeallocCorrect` | `Spec => []CountersTrack`, `[]DeallocSafe`, with atomic counters or one thread |
| `RxWindowProofs!TypeCorrect`, `WindowCorrect` | `Spec => []TypeOK`, `[]WindowTracks` |
| `RxWindowProofs!AssertionHolds` | `Spec => []FailsOnlyAfterFullFlush` |
| `RxWindowProofs!NoMutualWait` | `Spec => []WaitsOnlyAtLaggard` |
| `AlltoallProofs!TypeCorrect` | `Spec => []TypeOK` |
| `AlltoallProofs!AbortsCorrect`, `ResultsCorrect` | `Spec => []AbortsOnlyOnMisuse`, `[]ResultStable` |
| `PingPongProofs!OneInFlightCorrect` | `Spec => []OneInFlight` |
| `PingPongProofs!QueuesFitCorrect`, `NoLostWakeupCorrect` | `Spec => [](program.name \in PingPongs => QueuesFit)`, and `NoLostWakeup` likewise |
| `PingPongCountProofs!TypeOKCorrect`, `LeavesNothingCorrect`, `NothingDroppedCorrect` | `Spec => [](program.name \in PingPongs => TypeOK)`, and `LeavesNothingElse` (with `neverFreed = {}`) and `NothingDropped` likewise |
| `PingPongCountProofs!FailsOnlyOnFaultCorrect`, `NoOrphansCorrect` | `Spec => [](Steady(program) => FailsOnlyOnFault)`, and `NoOrphans` likewise; `Steady`: `rc` (not with both `-e` and `-t`), `uc` and `ud` |
| `PingPongCountProofs!SafeCorrect` | `Spec => [](program.name \in PingPongs => PairInv /\ Safe)`: the invariant of the five above |

**LinkedList.** The inductive invariant is `TypeOK /\ ChainsLinked /\ NodesConserved`:
none of the three is inductive alone. That a chain is linked survives an update of one
pointer only because no node is on both chains; that no node is lost is counted on the
chains, which only mean something if they are linked. The only assumption is that the pool
is not empty. The refinement follows: the contents are a function of chain and elements,
each action changes them as the abstract one does, and the full check is true exactly when
`PoolSize` elements are queued, because the lengths of the chains add up.

**Ympi, counters.** `CountersExact` with `TypeOK` is inductive. The per-QP part is direct;
the total counts the outstanding WRs as a set of pairs (peer, position), and each action adds
or removes one such pair, which the lemmas about cardinality turn into plus and minus one.
Finiteness of `Proc` is what makes the count a number. `FlushCorrect` uses the invariant in
the other direction: `YMPI_Zflush` returns when the counter is not positive, so the set of
outstanding WRs is empty, so every send queue is.

**Ympi, buffers.** `VbufsConserved` compares numbers; what is inductive is `BuffersInv`: the
places a buffer can be in partition the set of all buffers, and no queue names one twice.
Each action takes a buffer from one place to another. `ExitsOnlyOnFault` follows: a
receive list with room for all buffers cannot be full when `process_wc` appends one that is not
in it. `PointersStable` follows too: what the HCA writes into comes from the SRQ, so it is not
among the fetched buffers. `OverrunCorrect` needs both invariants and no hypothesis: a completion of a
receive occupies one of `PrepostDepth` buffers, so more than `CqSize` completions are more than
`CqSize - PrepostDepth` of sends, each of which is a WR that `pending_send_wr` counts.

The CQ of `Ympi` holds any number of completions. What the device does after an overrun is not
modelled beyond that: completions that get lost, and polls and WRs that fail for it, count among the
failures (`faults`), and what a rank then waits for never comes, which safety properties allow. So
the properties that say what happens while nothing fails (`NeverStuck`, `PostsSucceed`, `AllReceived`,
`Termination`) are about programs that do not overrun the CQ: with the limits of the
source, those that have no more than 768 sends outstanding at a time, and among them all with at most
three peers, itself included, if the device grants no longer send queues than it is asked for. All
programs in the runs are such. `do_allputall` on n ranks has n-1 outstanding.

**Ympi, messages.** The invariant is `FlowInv`: for each pair of ranks the sequence of what
was returned, what is pending, what is in the CQ and what is in the send queue, is numbered
1, 2, 3, ... , and each buffer on the way holds the message of its place together with that
message's length. It needs `BuffersInv`, or a delivery could overwrite a buffer on the way.
`MessagesCorrect` and the refinement of `ZChannel` read it off; under the refinement
mapping `YMPI_Zsend` and the return of `YMPI_Zrecv` are the steps of the channel and every
other action stutters.

**Programs.** `AppSpec => Spec` holds step by step: a call of the list is the call of the core
with the rank it names, which is a rank because the core checks that it is connected; the
barrier leaves the core alone. Nothing is assumed of the lists.

What a program brings about depends on its calls. `Throttled`: each rank either posts no more to
a rank between two flushes than a send queue holds, or posts to one rank only and is sent
nothing. `Matched`: per pair of ranks there are as many receives as sends, and every receive is
followed by a return. `KeepsGoing`: wherever the ranks may be in their lists, as far as the
numbers of barriers, of sends and of receives tell, all are at a barrier, all are at the end, or
one can go on: it is before a call, or in a call that needs nothing more from the others, because what
it asks for was sent and the vbufs suffice for what is kept and what was sent (`Room`). These are
conditions on the lists and on the sizes of the queues; `ASSUME ProgramsFit` of
`MCYmpiApp` has TLC evaluate them for every program of the runs, and fan-in is the one of which
`KeepsGoing` is not required: on 3 ranks with 2 vbufs it is false. The invariant `AppInv` relates the
place in the list to the core: `Rank` says that what was sent and what was returned are what the
list has up to the next call, and that the send queue holds no more than what was posted since
the last flush; `Silence`, that a rank that is sent nothing finds only completions of its own
posts in its CQ, so that its throttle loop ends with room for one more. With `FlowInv` and
`BuffersInv` the end of all lists then leaves nothing on the way and every vbuf in the SRQ.

A state in which everyone waits is brought back to the lists by counting. If a rank waits although
its call does not stall, a message for which there must be a vbuf is not taken, so the SRQ of its
destination is empty: all `PrepostDepth` vbufs hold messages that were taken, and these are kept by the
program or sent and not asked for (`VbufsTaken`). But a rank that sends has a message there that is not
taken (`NoRoomTo`), and a rank that receives asks for one more than it holds (`NoRoomFrom`):
either contradicts `Room`. It needs three invariants: `WaitInv` (a rank in a call
has it behind it in its list, keeps no more vbufs than receives without a return, and has passed
as many barriers as the others), `BatchInv` (a batch that is not handled has its completions in the CQ, so
that a rank waits only at the condition of its loop) and `ThrottleInv` (a rank about to poll
in the throttle has posted something). The three
theorems are about runs in which no verbs call fails (`faults = 0`): a failed post does return -1.

**YmpiThreads.** The counters are not exact while threads are between their steps. `ExactInv`
says by how much they are off: plus the completions polled and not subtracted, minus the WRs
posted and not added. It holds if no update is lost: `AloneInv` and `LoadedInv` say that a
loaded value is still current, because updates are atomic or nobody else runs. `FlushedInv`
says that the last thread to leave leaves an empty queue. The hypothesis `SafeConfigs` of the two
theorems (every configuration is atomic or starts one thread at most) excludes what
the source does with several threads, as `ATOMIC_PENDING_SEND_WR` is 0; for that
`threads_flush` has the counterexample.

**RxWindow.** As long as no old entries were posted (`stale` is empty), the inductive
invariant says that the batch being handled, the completions in the CQ and the receive queue
name, in this order, the buffers from `rx_win.idx` on, and that the list of WRs, which
`pp_on_flush` cuts and posts, names them too. Both theorems follow. `NoMutualWait` counts
instead (`WaitInv`): how many messages of its current round a rank has sent, how many it has
handled, how many are under way, split by where the rank is (`PhaseInv`, `BarrierInv`,
`SendInv`) and by the kind of round (`TestInv`, `MainInv`); `RoomInv` compares this with the
receives it has posted. It needs that a count is at most half a window, which
`CountsAssumption` states and the source's list of counts keeps. A window has two buffers at
least and there is one round at least.

**Alltoall.** All ranks run the same program, so a rank's place in it says how many of MPI's
collectives it has entered (`StandInv`), and it leaves one only after all have entered it
(`GatherInv`, `OrderInv`): two ranks are never further apart than one collective. `NetInv` and
`MemInv` say which call a write under way and a byte in memory belong to, by the place of
the rank that sent it; `CacheInv` says that the cached registration is that of the first call,
and has room for it. The assumptions on programs are `ProgramsAssumption`: the buffers
have room for a block of every rank, and a barrier comes before each collective but the first,
as in `osu_ympi_rdma_alltoall.c` (78, 111, 124). Without the barrier `ResultStable` is false.

**Ping-pongs.** The invariant `PairInv` follows a ball on each QP: it is a message on the
wire, a completion of a receive that is not handled, or a side that has received and not
sent again. The two sides together have at most one (`Balls`), which
gives `OneInFlight`. The rest is local to a process (`LocalInv`). `SendInv`: a send is
under way, acknowledged or completed only while `pending` says so. With the ball, that is at most one
completion of each operation on each QP (`CqLength`), and a CQ of `rx_depth` entries and one per
QP has room for them because there are at least as many receives as QPs (`DepthAssumption`).
`RecvInv`: `routs` is the number of receives that are posted or whose completion is not handled,
and never 0, so that a message finds a receive. `WakeInv`: what is in
the CQ of a process that sleeps has left an event. The poll after the notification is armed takes
all that can be there, by `CqLength` again: there are at most two on the one QP, and
`srq_pingpong.c`, which has several, polls for as many as its CQ holds. Nothing is assumed about failures, losses or
the number of iterations; `ProgramsAssumption` says that the programs are those of the
modules, with any number of iterations.

**Ping-pongs, counts.** Why nothing is dropped over UC and UD, and nobody gives up, is not local
to a process: it depends on what the other has still to send. `CountInv` counts for each side:
what it has received, what has arrived and is not handled, and what is on the wire to it, add up
to what its peer has posted. `SteadyInv` says that nobody posts more than its iterations, that the
server (process 0) has never posted more than it has received, less one while it owes an answer,
and that who is gone had its count of both. So to a process that is gone nothing is left to be
delivered (`NoOrphans`), and no completion of an error comes from a peer that closed too early
(`FailsOnlyOnFault`). That the first message finds its receiver connected is `SetupInv`: once the
server's address is on its way to the client, or the client is past reading it, the server has
connected. These facts hold while `faults` is 0 (`RunInv`); `dropped = 0` over the transports that
are reliable holds without them. `Steady` leaves out `rc -e -t`, of which `FailsOnlyOnFault` is
false (`verbs_events_ts`), and `srq`, whose counts are over all QPs and so do not bound a single
one.

**Ping-pongs, set-up and release.** `LeavesNothingElse` needs to know what a series of release calls
leaves, each of which the verb may refuse, because another object still depends on that one;
`VerbsSetup` computes it by a recursive function. The library's induction theorems cannot be used
here, but a set of numbers that is not empty has a least one (`Least`, from the well-founded order
of the subsets of a finite set), and the least place at which a recursive function goes wrong is a
contradiction (`LeftDefined`, `LeftAll`; `FlattenSteps` for the cleanup labels, which are series
of series). With that, `LeftEnd` says: if no call is refused, exactly the named objects are
released. The cleanup labels of a program are the rungs of a ladder (`Ladder`): those from the
k-th on release the end of one list of objects, in whose order nothing is released before what
depends on it (`Downhill`). The steps of the set-up climb it: what was made before a step is among
what its label and those after it release (`Upto`). That is true of every step of `uc`, `ud`,
`srq` and of `rc` without `-t`; the query of `rc -t` (line 390) jumps too far: the PD is left.

**Model-checked only.**

- The liveness properties: `Termination`, `ReceiveReturns`, `AllJoin`.
- `YmpiApp`: programs outside the hypotheses. Two ranks that both receive first are stuck; so is a
  rank whose vbufs are full of messages it does not ask for yet (`app_fan_in`). In a program that
  is not `Throttled` a post can fail: one with writes to many peers can find a send queue full,
  because the throttle loop ends with the first batch of completions, whosesoever they are.
- The verbs programs: `FailsOnlyOnFault` of `srq_pingpong.c`, whose counts are over all QPs; and
  `FailsOnlyOnFault` and `NoOrphans` of `rc_pingpong.c -e -t` (the first is false of it). All
  properties of `xsrq_pingpong.c`, of `ibprobe.c` and of the set-ups of YMPI and `iballputall.c`
  have no theorem: the first two exchange messages in other patterns than the ball that `PairInv`
  follows, and of the set-ups TLC examines every path.


## Not modelled

- Bytes, addresses, keys, inline sends in the core: a message is its number. So the run of
  `test_ympi.c` in which a buffer is deallocated right after a write (lines 103-104), which
  relies on the write being inline, is not examined. The getters and `YMPI_Allocate` and
  `YMPI_Dealloc` wrap one verb each.
- Misuse of the interface (an offset out of bounds, an unconnected rank): assertions that a
  program of the repository does not meet. Collectives on a communicator smaller than
  `MPI_COMM_WORLD`: no program makes one.
- `iballputall.c` with three or more ranks: its buffers then complete out of order, and its
  assertion fails; the device of `RxWindow` delivers in order. Line 243, which frees an element
  beyond its list, is reached only after a failed allocation.
- Failures of the verbs programs that need the peer's host to die without closing its
  connection; the read loops of `srq` and `xsrq`, which do not test for the end of the
  connection and would spin, are modelled as they are, and count as a fault.
- The number of rounds that `ibprobe.c` reads before it is set (line 505) is any value up to
  `Iters`; ranks that start with different ones count as a fault.
- The batched and group tests of `test_ympi.c`: calls of the same kinds as those of the
  programs that are modelled.
- Device tools (`device_list.c`, `devinfo.c`, `ibstat.c`, `asyncwatch.c`): they query and
  print. `pingpong.c` converts addresses and settings. OSU support code, `osu_coll.c` and
  `benchmark_mpi.c`: third-party or not using the library.
- `test/test_ympi_coll.c`: calls functions the library no longer has.
  `YMPI_Zrecvany` is declared in `include/ympi.h` and commented out in `src/ympi.c`.
- `src/ympi_shuffle.c`: not built by the Makefile, and does not compile.
- The maps from queue pair numbers to ranks (`src/ympi.c` 302): whether two numbers collide is
  the device's doing.

## Plan

Done: the queue, the core, programs and threads, the collectives, the prototype, `ibprobe` and
the ping-pongs; the theorems above, which state every safety property of the core, of threads, of
programs on the core, of the prototype, of the collectives and of the ping-pongs of two processes
that a run checks. What remains, in order of value:

1. The queues and wake-ups of `xsrq_pingpong.c` and `ibprobe.c`.
2. `FailsOnlyOnFault` of `srq_pingpong.c`, with counts per QP and what each process is still willing to
   send on all of them.
Runs are kept few: one per question, several programs to a run.
