# dmaplane: a TLA+ model of the driver

dmaplane is a Linux kernel module that gives user space a DMA data plane
through one character device: channels with rings and a worker thread, DMA
buffers that can be mapped and exported, an RDMA engine over a loopback pair of
queue pairs (and a peer), credit-based flow control, and GPU peer-to-peer
memory. The concurrency is that of the kernel: user threads inside ioctls,
one worker kthread per channel, callbacks (`vma_close`, dma-buf release, GPU
revocation), and completions that the network hardware delivers when it likes.

## Inventory

| Component (source) | State | Operations | What is hard |
|---|---|---|---|
| Rings and channel data path (`driver/main.c`, `driver/dmaplane.h`) | two rings with free-running 32-bit indices, `in_flight`, statistics, the worker | SUBMIT, COMPLETE, worker loop, destroy | unlocked tests, counters outside the lock, sleeping and waking, stop while the completion ring is full |
| Channel table and file lifecycle (`driver/main.c`) | `channels[]`, `kref`, fd context, device counters | open, CREATE_CHANNEL, release, module exit | check then act, mutex held over `kthread_stop`, failures after a claim |
| DMA buffers, mmap, dma-buf export (`dmabuf_rdma.c`, `dmabuf_export.c`, `main.c`) | buffer table, `mmap_count`, export flag, dma-buf context | create, destroy, mmap, vma open/close, export, attach, map, unmap, detach, release | lifetimes counted by callbacks, handle wrap, release deferred by `fput` |
| Module load and unload (`main.c`) | what `dmaplane_init` has allocated and registered | init, its unwinding, the self-test, exit | users come in before init has returned, callbacks may be pending at exit |
| RDMA context and regions (`rdma_engine.c`, `main.c`, `benchmark.c`) | device, PD, CQs, QPs, `mrs[]`, `rdma_sem` | setup, teardown, register, deregister, transfers | snapshots used after the unlock, undo in a second locked section |
| Flow control and sustained stream (`flow_control.c`) | credits, watermarks, `paused`, the stream's counters | CONFIGURE_FLOW, SUSTAINED_STREAM | hysteresis, receive replenishment, drain timeout, shared state without a lock |
| Benchmarks and queue depth sweep (`benchmark.c`, `flow_control.c`) | counters of the call under way; receives left on QP-B | LOOPBACK, PINGPONG, STREAMING, QDEPTH_SWEEP | the same queue pairs and CQs as the streams, flushed by some calls and not by others |
| Peer QP and WRITE_IMM (`rdma_engine.c`, `main.c`) | peer QP and CQ, `peer_connected` | init, connect, destroy, remote send/receive, write with immediate, post and poll of its receives | one CQ for two kinds of completion, late completions after a timeout, destroy against polls of 30 s |
| GPU P2P (`gpu_p2p.c`, `main.c`) | pinned buffers, BAR mappings, revoked flag, GPU regions | pin, unpin, copies, benchmark, regions, loopback, the revocation callback, module exit | revocation at any step, NVIDIA's lock against the driver's, use after the unlock |
| Latency histogram (`dmaplane_histogram.c`, `main.c`) | buckets, count, sum, minimum, maximum, all atomic | record, summarize, reset | no lock at all |
| KV cache example (`examples/kvcache/`) | credit window, bitmap of received chunks, the TCP stream, acquired resources | sender and receiver programs, peer and loopback mode | credits and acknowledgements on one stream, end of transfer, failure of any call |
| NUMA, debugfs, tracing, other examples, Python binding | none that others depend on | queries, printing | |

What makes each part correct: a ring never overflows and delivers in order, no
submission is forgotten, and every close ends; one file never stops another
file's channel and the counters balance; memory that is mapped or exported is
not freed, a buffer does not stay busy for ever, and none outlives the device it
is freed through; the RDMA context outlives
whoever reads it; in-flight operations stay inside the window, every send finds
a receive, and a stalled stream resumes; a benchmark ends and, unless an
earlier call left work behind, takes only its own completions and leaves the
queue pairs as it found them; a poll keeps its peer
queue pair; a GPU callback finds the buffer it was registered for and no page
table leaks; the histogram loses no sample; a KV transfer ends, with every
chunk in place. `PROJECT.json` lists the hazards line
by line.

## Modules

| Module | Models |
|---|---|
| `Ring` | `struct dmaplane_ring` as pure operators; indices are taken modulo `IdxMod`, which stands for 2^32 |
| `Pipeline` | what a channel promises: a FIFO from SUBMIT to COMPLETE whose entries are each incremented once |
| `Channel` | one channel: submitters, worker, COMPLETE, close and re-creation; implements `Pipeline` |
| `ChannelProofs`, `ChannelTableProofs`, `DeviceProofs`, `RdmaProofs`, `BenchProofs`, `PeerProofs`, `GpuP2PProofs`, `KvCacheProofs` | TLAPS proofs about the module each is named after and the modules it extends |
| `ChannelTable` | slots, references, file descriptors, CREATE_CHANNEL races, module exit |
| `Buffers` | the buffer table, user mappings, the exported dma-buf and its importers |
| `Device` | extends `Buffers`: module load with its unwinding, the dma-buf self-test, open and close, unload |
| `Rdma` | the context under `rdma_sem`, the MR table, transfers, buffer destruction |
| `Flow` | credits and watermarks, the sustained stream, the loopback pair as environment |
| `Bench` | extends `Flow`: loopback and ping-pong ("paired"), streaming and the sweep, composed with the streams on the same queue pairs |
| `Peer` | two machines, their peer queue pairs and a reliable connection that may break |
| `GpuP2P` | pinned GPU buffers, NVIDIA's callback and its lock, copies, GPU regions, module exit |
| `Histogram` | the lock-free histogram, one step per atomic operation of a recorder |
| `KvCommon`, `KvPeer`, `KvLoopback`, `KvCache` | the KV cache programs: what both modes share, the two-machine mode, the loopback mode, and their composition with the properties |
| `MC*` | instances for TLC |

How the code becomes steps. A critical section under a spinlock or mutex is one
step, as is an atomic operation; whatever the code does between two sections is
open to interleaving. In `Channel` the program counter `wpc` follows
`dmaplane_worker_fn` from the test of the stop flag over `prepare_to_wait`, the
condition, the sleep, the unlocked test, the dequeue under the lock, the push,
`atomic_dec` and the totals; `upc` follows the tail of
`dmaplane_ioctl_submit` (counter, total, wake-up). In `ChannelTable`, `rpc`
follows `dmaplane_release`, which keeps `dev_mutex` over `kthread_stop`. In
`Rdma` a section under the write side of `rdma_sem` is a step that needs the
absence of readers, and a section under the read side has one step per lock
taken inside it. In `Flow` each phase of the loop of
`dmaplane_sustained_stream` is a step, and in `Bench` each post and each poll.
In `Peer` a call is its post, under the read side of `rdma_sem`, and its poll,
which takes the next completion of the shared CQ whoever it belongs to, or
times out. In `GpuP2P` pin and unpin are the sections between the calls into
NVIDIA's driver, whose callback runs in between under a lock of its own; the
copies look the buffer up under `gpu_buf_lock` and work after the unlock. In
the `Kv*` modules every system call of the two programs is a step that may fail,
`sp` and `rp` are the places of sender and receiver, and the TCP stream is a
sequence of bytes without types, as in the code. Memory is sequentially
consistent.

Abstractions. Payloads are small numbers, because the worker increments them;
pages and addresses are the fact that they are allocated. `recv_posted` and
`sent` of a stream occur only as their difference, so `Flow` keeps that
(`ahead`) and streams have no bound on their length. Verbs calls succeed or
fail as a whole. A failing `copy_to_user` of COMPLETE loses the entry it has
taken, which is the same step as taking it. GET_STATS and the other queries
change nothing. Statistics nobody relates to other state (`total_opens`, NUMA
allocation counters, throughput windows) are left out. `CONFIGURE_FLOW` takes
no lock; `Flow` calls it between runs, as `driver/main.c` expects of its users.

`Device` leaves out failures before `device_create` with users inside: until then
`/dev/dmaplane` does not exist, so nobody opens the device. The kernel refuses
`rmmod` while the module is referenced, which is the guard of its first exit step.

Two restrictions are assumptions about the users and not guarantees of the
code. In `Bench` one call runs at a time on the loopback pair. In `Peer` the
threads that initialise, connect and destroy are the constant `Control`; the run
has one per machine, and the theorems name that as the hypothesis
`OneControlThread`.

A call on the loopback pair that fails or times out may leave sends on the wire
and completions on the CQs, and the driver lets any call follow. So does `Bench`:
the next stream or benchmark begins with what is there, and may count it as its
own. The history variable `left` is true from the moment a call ends and leaves
work until a later call begins with none or the pair is set up again; it
changes nothing a call does. `CreditsSafe` beyond its types, `ReceiveIsPosted`,
`StallEnds`, `NoReceiveLeft` and the part of `BenchSafe` that says whose
completions are counted speak of the time when it is false. That a benchmark counts at most its iterations, and that it ends, hold
whatever was left.

## Runs

Passing runs:

| Run | Shows | Bounds |
|---|---|---|
| `channel` | Ring occupancy is bounded across index wrap; `in_flight` and the two totals never drift; the worker's second test never fails; FIFO refinement of `Pipeline`; a submission is eventually taken; a close ends | rings of 2 slots with indices modulo 4, so that full rings and wrap-around happen together; payloads modulo 2; two threads, so that both a submitter and a second submitter or COMPLETE can be mid-way |
| `channel_table` | Counters and references balance, no two files share a channel, slots are freed after their worker, unload leaves nothing, a close ends | two slots, files and threads, four creations: the smallest with a reused slot and a racing create |
| `buffers` | Mapped, exported and imported memory is live, `mmap_count` is exact, a buffer becomes destroyable once its exports are gone, also when `dma_buf_fd` fails; nothing outlives the device context, the platform device or the module | two slots, handles modulo 3 (they wrap and collide with old ones), two mappings, two dma-bufs with two references each, one importer; loads that fail at every step, with and without the self-test |
| `rdma` | Readers keep the context, an undo takes only its own region, registrations are counted out once, only the undo of SETUP_RDMA leaves regions behind | two threads, two MR slots, three handles, one buffer destroyed and created again |
| `flow` | In-flight operations within queue depth and watermark; every send on the wire has a receive; credits exact; a stall ends; benchmarks count their own completions and leave no receive behind unless an earlier call left work, never count more than they were asked, and end | queue depths 1 to 3, credit windows smaller and larger than that and the automatic ones (cap 5), QP-B with 7 receives, so that what streams leave behind fills it; benchmarks of 1 and 3 iterations at depths 1 and 2, so that pre-posting is bounded by either; sends and polls that fail, and up to two sends or completions that an earlier call left when the next begins (`MaxStray`) |
| `peer` | A poll keeps its queue pair and CQ; nothing leaks when INIT_PEER fails; a call alone on the CQ never reports a false success; DESTROY_PEER ends | two machines, the first with two threads and a second queue pair, one work request of each kind, two messages |
| `gpu` | A callback reaches its buffer; the revoked flag is exact; no page table leaks; the counts balance; the page walk is exact; calls end; module exit leaves no page pinned | two threads, slots and pins, so that a slot is reused after a revocation; pages of 2 bytes, buffers of 3 pages |
| `histogram` | No sample and no extreme is lost; a summary beside recordings finds its percentiles; alone it is exact | two recorders, three samples of three latencies: below a microsecond, in the middle and in the overflow bucket |
| `kvcache` | Writes find receives, the receive loop ends whole, a reported success is one, a program that exits has released everything (a receiver killed by SIGPIPE leaves what the module shows), transfers end, every chunk arrives | two layers of two chunks, a window of two, three iterations, CQs of four completions (`CqDepth`), any call failing |

Every passing property is paired in `PROJECT.json` with a changed definition of
the code (a dropped guard, a missing count, a swapped order) under which TLC
finds it violated.

Runs that show a disagreement between the code and what the repository says of
it (the findings of `PROJECT.json` quote both):

| Run | Shows |
|---|---|
| `dmabuf_fd_comment` | after a failed `dma_buf_fd` the export context is freed and used again by the release callback |
| `gpu_unlocked_copy` | GPU_UNPIN frees the mappings under a copy that has looked its buffer up and released the lock |
| `kvcache_done_ack` | the sender takes a credit for the receiver's "done" and leaves while the receiver is still polling |

Met while modelling, in the models but without a run of their own:

- two threads that share an fd can both pass the test of CREATE_CHANNEL, so that
  the fd owns one of two channels, where `driver/dmaplane.h:166` promises at
  most one (`TableSafe` shows that the other is not shared and is freed at exit);
- the undo of SETUP_RDMA destroys a context in which another thread has
  registered a region (`OrphansOnlyByUndo` shows that nothing else does); after a
  further SETUP_RDMA, `dmaplane_exit` deregisters that region although its
  protection domain is gone, which its comment sets out to avoid;
- `/dev/dmaplane` exists before `dmaplane_init` has set up the GPU table and may
  free it again (`driver/main.c:2215`); `GpuP2P` starts after that;
- the snapshot of a transfer keeps neither its region nor its pages, against
  the comment at `driver/benchmark.c:12`;
- two streams at once exceed `max_credits`;
- a send that outlives the drain timeout of a stream (`driver/flow_control.c:480`)
  or a benchmark that failed is completed into the next call, which counts it as
  its own (`driver/rdma_engine.c:1009` warns of it);
- `tcp_send_all` (`examples/kvcache/kvcache_common.h:463`) sends without
  `MSG_NOSIGNAL` and no program ignores SIGPIPE: a receiver whose sender has left
  is killed by its second send, before its cleanup, and the RDMA context, the
  peer queue pair, the region and the buffer, which belong to the driver, stay;
- a stream leaves its unused receives on QP-B, so that after enough runs no
  further receive fits; benchmarks do not (`NoReceiveLeft`);
- a buffer with a registered region can be destroyed, where
  `examples/kvcache/PYTHON_GUIDE.md` promises EBUSY;
- a paused stream resumes at the low watermark and not below it, as
  `include/dmaplane_uapi.h` has it, and must, because the automatic low
  watermark of queue depth 1 is 0;
- `in_flight` can be -1 for a moment, because SUBMIT counts an entry after
  publishing it;
- a GPU region keeps the address of a mapping that GPU_UNPIN removes, and after a
  racing unpin it reads the page table through a null pointer
  (`driver/gpu_p2p.c:1107`, here address 0);
- INIT_PEER runs under the read side of `rdma_sem` (`driver/main.c:1875`), so a
  second one at the same time creates a second peer queue pair and leaks the first;
- the revocation callback calls `complete_all` (`driver/gpu_p2p.c:173`) after it
  has marked the buffer revoked, when the slot may already be unpinned, reused
  or, at module exit, gone;
- the bounds check of the GPU copies adds offset and size in 64 bits
  (`driver/gpu_p2p.c:776`, `:789`) and may wrap; `GpuP2P` takes it as effective;
- layers from `MAX_LAYERS` on have no word in the bitmap: `bitmap_set` drops
  them and `bitmap_layer_complete` reads past the end; the models assume that
  there are no more layers than that;
- the KV receiver's pre-posting fails with a credit window above the 64
  receives of the peer queue pair; with 64 chunks per layer the mask of
  `kvcache_common.h:743` shifts by the width of its word.

## Fairness

- `Channel`: weak fairness of the worker (a runnable kthread is scheduled), of
  the rest of a SUBMIT that has begun, and of the rest of a destroy. Nobody is
  obliged to submit, to drain or to close.
- `ChannelTable`: weak fairness of a release that has begun, and strong
  fairness of its taking `dev_mutex`, since a kernel mutex hands itself over to
  its waiters and other closes may take it any number of times before.
- `Device`: a deferred `fput` runs its release callback.
- `Flow`: a stream's thread keeps running, and the queue pair completes what is
  posted, with success or with an error. That a deadline passes is not assumed:
  a stalled stream must resume by its completions.
- `Bench`: the same, and a benchmark keeps polling; its polls have a deadline,
  and `ib_poll_cq`, which streaming and the sweep call again at once when it
  reports an error, does not do so for ever.
- `Peer`: weak fairness of a call that has begun. Every poll has a deadline, so
  this includes its timeout; nothing is assumed of the network. The write lock
  of `rdma_sem` keeps new readers out once it is waited for.
- `GpuP2P`: weak fairness of a call's steps and of NVIDIA's callback, strong
  fairness of taking `gpu_buf_lock` and NVIDIA's lock, which others may take any
  number of times before.
- `Kv*`: both programs keep running and what was written is delivered or fails.
  TCP delivers in order or closes. Nobody is obliged to connect to a receiver
  that listens.

Deadlock is checked wherever the system may not stop; `channel_table` turns it
off because an unloaded module does nothing more, and so do the runs of
`GpuP2P`, `Peer` and `Histogram`, whose bounds on pins, messages and samples end
the behaviours.

## Proofs

Eight modules hold the proofs. Each states an inductive invariant as a
conjunction of named parts, proves it with one lemma per action (or per group
of actions that move the same variables), and derives from it the properties
that the runs check on small instances. TLC checked every inductive invariant as
an invariant of the component's run before it was proved. The theorems hold for
every value of the constants that satisfies the assumptions named in the
modules; those say what the code fixes (a ring size that divides the index
width, queue depths below the width of a counter) or that sets are finite.

| Theorem | Property it proves | Invariant |
|---|---|---|
| `ChannelProofs`: `TypeCorrect`, `NoOverflow`, `InFlightNeverDrifts`, `RecheckNeverFails` | `TypeOK`, `OccupancyBounded`, `InFlightExact`, `DequeueFindsEntry` | `IInv` |
| `ChannelProofs`: `TotalsNeverDrift` | `TotalsAgree` | `IInv /\ TotalsAgree` |
| `ChannelProofs`: `ChannelIsPipeline` | `ImplementsPipeline` (refinement) | `IInv` |
| `ChannelTableProofs`: `TableIsSafe`, `SlotFreedAfterWorker` | `TableSafe`, `FreedAfterWorker` (action property) | `TInv` |
| `DeviceProofs`: `MappedMemoryNotFreed`, `ExportedMemoryNotFreed`, `UnloadLeavesNothing` | `MappingsSafe`, `ExportedMemoryIsLive` (of behaviours in which `dma_buf_fd` does not fail), `NothingOutlivesItsBase` | `DInv` |
| `RdmaProofs`: `ContextIsSafe`, `UndoTakesOnlyItsRegion`, `TeardownOrphansNothing` | `ContextSafe`, `UndoTakesOwnRegion` and `OrphansOnlyByUndo` (action properties) | `RInv` |
| `BenchProofs`: `CreditsAreExact`, `SendsFindReceives`, `BenchCountsItsOwn`, `BenchLeavesNoReceive` | `CreditsSafe`, `ReceiveIsPosted`, `BenchSafe`, `NoReceiveLeft` | `PairInv`, one stream |
| `PeerProofs`: `PeerIsSafe`, `PollKeepsPeer`, `AloneTellsTruth` | `PeerSafe`, `ReadersKeepPeer`, `FalseOnlyIfShared` | `PInv`, one control thread per machine |
| `GpuP2PProofs`: `PinsAreSafe`, `FlagTellsTruth`, `UnpinReleases` | `PinsSafe`, `RevokedFlagExact`, `UnpinnedIsReleased` | `GInv` |
| `GpuP2PProofs`: `WalkMovesEveryByte` | `WalkIsExact` | none: it is about the operator `BarMemcpy` |
| `KvCacheProofs`: `CleanupIsComplete`, `SuccessMeansDelivered` | `ExitReleasesAll`, `SenderSuccessDelivered` | `KInv` |
| `KvCacheProofs`: `TransferIsSafe` | `TransferSafe` | `KInv /\ TInv`, a layer's chunks fit its bitmap |
| `BenchProofs`: `HistogramIsSafe`, `SummaryIsSound` | `HistogramSafe`, `SummarySound` | `HInv` |

**Channel.** `IInv` adds two facts to the four properties it proves:
`QuietUnlessOpen` (threads are inside SUBMIT only while the channel is open, so
that the `in_flight` of zero with which CREATE_CHANNEL starts is right) and
`StopOnlyWhenClosing` (an entry is dropped, and `in_flight` left behind, only in
a channel that is being destroyed). Occupancy needs the arithmetic of wrapping
indices: `IdxStep`, `IdxDiff`, `PutFacts` and their companions show that a put
into a ring that is not full adds exactly one to its count and a get from one
that is not empty takes exactly one, also at the wrap; full is an equality test
in the code, so the bound is what makes it an inequality. `InFlightExact` counts
the submitters between their put and their `atomic_inc` as a set cardinality;
every step changes at most one of its three terms and `in_flight` together. The
totals wrap too, so `TotalsNeverDrift` compares remainders, with the lemmas
`DivMod` to `ModDistinct`. For the refinement a ring is read as the sequence of
its slots from tail to head (`RingSeqType`, `HeadSlot`, `PutSeq`, `DropSeq`): a
put appends, a get takes the head, and everything else the worker and the
submitters do is a stutter of `Pipeline`.

**Channel table.** `AccountingExact` is the sum of what the counters should be;
`FileInv` says which file owns which slot, that no two files in use own the same
one (`OwnersDistinct`), and what references and worker a channel has at each
stage of its destruction (`Stages`), without which a release could drop the
reference of another file's channel.

**Buffers and device.** `MappingsSafe` counts mappings as a cardinality and is
nearly inductive. The dma-buf needs more: a release that has begun but not yet
cleared the record in the buffer must still be related to that buffer
(`RecordExact`), or it could clear the record of a later export; a reference
count covers the importers (`RefsCoverImporters`). `ExportedMemoryNotFreed` is about the behaviours without
the step `FdFails`: after a failed `dma_buf_fd` the context is freed twice, as the
run `dmabuf_fd_comment` shows, and nothing can be said of what it refers to.
Without that step `ContextFreedOnce` is an invariant, and the memory is live.
`LifeInv` orders what module
load builds, so that unload finds only buffers that nothing refers to.

**RDMA.** Handles given out are unique and below `next_mr_id` (`HandlesUnique`),
so the lookup of an undo finds its own region and no other.

**Flow control and benchmarks.** `PairInv` has two layers. `WeakInv` holds
always: types, a window with room between its watermarks, one call at a time, and
counters of a benchmark between zero and its iterations. `FInv` holds while
`left` is false and has a part for the running stream, for
the running benchmark and for the time between calls. Three sums carry it. For a
stream, `ahead + outstanding >= min(qdepth, max_credits)`: a send is allowed only
with fewer outstanding than either, so a receive is ahead of it. For a
benchmark, `rq + completed + cq_ok = found + recv_posted` with
`recv_posted = min(iterations, pre-post + completed)`: a receive is replenished
only after one was consumed, so that QP-B never refuses it and the last
completion leaves the count it found. Between calls the wire and both CQs are
empty unless `left` is true, which is what ping-pong, which never flushes,
relies on. The unsigned differences `outstanding` and `sent - completed` are
shown not to wrap while `left` is false; with work of an earlier call about they
can. The theorems have the hypothesis `OneStream`: the driver does
not stop two threads from streaming at once under the read lock, and then the
credits are shared and not exact; that is a hazard listed in `PROJECT.json`, not
a state the theorems speak of.

**Peer.** The queue pairs and CQs that exist are exactly those the contexts name
(`NamedExactly`), a CQ without queue pair belongs to an INIT_PEER in progress
(`BareCq`), and each thread relies on what the lock it holds keeps in place
(`Relies`). `AloneInv` says what a call that has been alone on the CQ can find
there; `FalseOnlyIfShared` follows because it finds only its own work. The
theorems hold for any number of threads that send, receive and poll, under
`OneControlThread`: the code does not keep two INIT_PEER apart, and two leak a
queue pair.

**GPU.** The properties speak of pinned memory, but a callback that has begun
still writes `gpu_revoked` of its slot: `SlotInv`, `OwnerInv` and `NvInv` relate
slots, pins and the lock holder until it has finished. `StatInv` counts pins born
and buffers in use as cardinalities; `ExitInv` says that module exit runs alone.

`WalkIsExact` is about a recursive function, and what one computes is normally
out of the prover's reach: the induction theorems of the library take an operator
as parameter. Two facts get around it. `WFMin`, that a non-empty set of naturals
has a least element, has a set and no operator as parameter; and a recursive
function can be compared with a closed form. `WalkCalls` is that form (the chunk
of every page the range touches): it satisfies the recursion (`WalkExists`), every
solution is equal to it because there would be a least remaining length at which
one is not (`WalkUnique`), so `BarMemcpy` is the closed form (`WalkIs`). From it
follow that chunks lie inside their pages (`WalkInside`), are disjoint
(`WalkDisjoint`) and cover the range (`WalkCovers`), and so that each byte is
moved once (`WalkOnce`).

**KV cache.** `SHeld` and `RHeld` give each stage of the two cleanups an upper
bound on what is still held, and tie a region to its buffer while it is being
acquired; a receiver killed by SIGPIPE leaves everything but its connection to
the driver, and is killed only after its sender has closed the connection
(`KilledLate`). `SentInv` and `WrInv` say that the chunks below `idx` are in place and
that the write under way is the chunk `idx` or, after the last, the sentinel;
that an acknowledged sentinel means a complete transfer rests on
`SentinelIsNoChunk`: no chunk's immediate value is all ones, because the number
of chunks is an `int` and the immediate value has a bit more.

`TransferSafe` needs the books of a transfer under way, `TInv`. In `--peer` mode
each receive is posted, completed or being replaced (`RecvInv`), and each credit
of the first transfer is with the sender, a byte in TCP, a completion or a
receive being replaced (`CreditInv`), so a sender that has a credit has a receive;
`StageInv` says how far each program can be while the other stands at a stage. In
`--loopback` mode credits are posted receives (`LCreditInv`). What is marked in
the bitmap or completed is in the buffer (`MarkInv`), a chunk in the buffer is
marked or its completion is ahead of every sentinel (`AheadInv`), and in the first
loopback transfer each chunk completes once (`FirstInv`), which is why that one
ends with an empty queue. `TransferIsSafe` has the hypothesis
`Chunks < BitmapBits`: `bitmap_layer_complete` shifts by the number of chunks of a
layer, and at 64 the shift wraps, the mask is empty and a layer counts as complete
before it has arrived. The default is 4 chunks; the sender does not check the
number it is given with `-C`.

**Histogram.** Its proofs are the last section of `BenchProofs`, the module of
what records in it. `HInv` gives the state between two atomic operations of a
recorder: the buckets are the samples that have got so far, and the count and
the sum are those less the recorders still to add (`ExactInv`); a sample may be
under the minimum only while its recorder is still to lower it, and what a
recorder compares with is a minimum there has been (`MinInv`, `MaxInv`
likewise). `WalkInv` is why a concurrent summary misses no percentile: what the
walk has added up and what is left in the buckets are at least the total it read
first, because samples enter their bucket before they are counted; `FoundInv`
says that a percentile found is at the first bucket that reaches its share.
`SizeInv` bounds the counters also when a reset overlaps recordings. The sums
are folds of the community modules; `SumUnique`, `SumRemove`, `SumChange` and
their companions derive how they behave from induction over subsets in the
least-element form. `Pow2` is a recursive function because the prover has no
theory of exponentiation, and `BucketChoice` and `BucketBelow` tie the bucket of
a latency to the upper bounds of the buckets. The model asks that there be a
recorder and a sample to record, and that the sets be finite, as any run of the
driver has.

Only model-checked: the liveness properties (`SubmissionsAreTaken`, `StallEnds`,
`BenchEnds` and the like), since fairness and `ENABLED` are out of the prover's
reach, and the three runs that expect a violation, which show a trace. Every
invariant and every action property of the passing runs is proved.

## Plan

The modules planned are written and their safety properties proved. What could be
added:

- the theorems of `BenchProofs` with two streams at once would need the model to
  say which sums two streams keep together, and the driver keeps none of them;
- the loopback transfers of `KvCache` after the first share a bitmap that is never
  reset and may find completions of an earlier one; what their loops wait for could
  be stated as a property of its own.

## Not modelled

Formatting for debugfs and tracepoints, NUMA queries and the bandwidth
benchmark, the arithmetic of latency and throughput results (with it the
saturation point of the sweep), the GID scan and the transitions of queue pairs
inside SETUP_RDMA, the contents of SG tables, the Python bindings, the
streamer, netshare and GPU RDMA examples, option parsing and statistics of the
KV programs and the receiver's loopback self-test, tests, scripts and deployment
files: they keep no state that other parts depend on, or are sequential code
over the ioctls modelled here. The RDMA context is up for the whole of a run of
`Peer`, `GpuP2P` and `Bench`, except for the reconnection in `Bench`; its life is
the subject of `Rdma`.
