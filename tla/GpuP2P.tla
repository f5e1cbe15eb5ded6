------------------------------- MODULE GpuP2P -------------------------------
(***************************************************************************)
(* GPU peer-to-peer memory (driver/gpu_p2p.c, its ioctls and the GPU part  *)
(* of module exit in driver/main.c): pinning VRAM through the NVIDIA       *)
(* driver, the copies through the BAR mappings, GPU memory regions and the *)
(* revocation callback, which runs with NVIDIA's lock held at any time     *)
(* between get_pages and put_pages.                                        *)
(*                                                                         *)
(* A section under gpu_buf_lock is one step where nothing in it can block  *)
(* or be raced by the callback; pin and unpin, which call into NVIDIA with *)
(* the mutex held, are split at those calls.  The RDMA context is up until *)
(* module exit: the module Rdma has its life and the read side of rdma_sem *)
(* that GPU_REGISTER_MR and GPU_LOOPBACK hold.                             *)
(***************************************************************************)
EXTENDS Integers, FiniteSets

CONSTANTS Threads,       \* user threads inside ioctls
          MaxGpuBuffers, \* DMAPLANE_MAX_GPU_BUFFERS
          MaxMrs,        \* DMAPLANE_MAX_MRS
          MaxPins,       \* bound on the successful get_pages calls
          PageSize,      \* DMAPLANE_GPU_PAGE_SIZE, in units of a copy
          NumPages,      \* pages of a pinned buffer
          MaxIterations, \* iterations of GPU_BENCH
          None

Slots == 1..MaxGpuBuffers
Pins == 1..MaxPins
Mrs == 1..MaxMrs
BufSize == PageSize * NumPages
NoCall == [slot |-> None, pin |-> None, left |-> 0, was |-> FALSE]

ASSUME GpuAssumption ==
    /\ MaxGpuBuffers \in Nat \ {0} /\ MaxMrs \in Nat \ {0} /\ MaxPins \in Nat \ {0}
    /\ PageSize \in Nat \ {0} /\ NumPages \in Nat \ {0} /\ MaxIterations \in Nat \ {0}
    /\ None \notin Nat /\ None \notin Threads
    /\ IsFiniteSet(Threads)

VARIABLES
    loaded,          \* module exit has not begun
    in_use,          \* gpu_buffers[].in_use
    page_table,      \* gpu_buffers[].page_table: the pin it describes
    bar_pages,       \* the pin the per-page mappings lead to
    rdma_vaddr,      \* the pin the contiguous mapping leads to
    gpu_revoked,     \* gpu_buffers[].gpu_revoked
    gpu_buf_lock,    \* its holder
    mrs,             \* the mapping (a pin) behind each GPU memory region
    pins_total, unpins_total, callbacks_fired,
    nv,              \* NVIDIA: the state of each pin
    data,            \* NVIDIA: the callback argument of each pin
    nvlock,          \* NVIDIA: the pin whose callback is running
    cb,              \* where that callback is
    pc,              \* where each thread is
    call             \* the locals of each thread's call

slotvars == <<in_use, page_table, bar_pages, rdma_vaddr, gpu_revoked>>
stats == <<pins_total, unpins_total, callbacks_fired>>
nvvars == <<nv, data, nvlock, cb>>
vars == <<loaded, slotvars, gpu_buf_lock, mrs, stats, nvvars, pc, call>>

TypeOK ==
    /\ loaded \in BOOLEAN
    /\ in_use \in [Slots -> BOOLEAN]
    /\ page_table \in [Slots -> Pins \cup {None}]
    /\ bar_pages \in [Slots -> Pins \cup {None}]
    /\ rdma_vaddr \in [Slots -> Pins \cup {None}]
    /\ gpu_revoked \in [Slots -> BOOLEAN]
    /\ gpu_buf_lock \in Threads \cup {None}
    /\ mrs \in [Mrs -> Pins \cup {None, 0}]
    /\ pins_total \in 0..MaxPins /\ unpins_total \in 0..MaxPins
    /\ callbacks_fired \in 0..MaxPins
    /\ nv \in [Pins -> {"unborn", "pinned", "revoked", "released"}]
    /\ data \in [Pins -> Slots \cup {None}]
    /\ nvlock \in Pins \cup {None}
    /\ cb \in {"none", "set", "complete"}
    /\ pc \in [Threads -> {"idle", "getting", "mapping", "pinned", "undo", "releasing",
                           "putting", "counting", "found", "copying", "registering",
                           "sending", "exit", "gone"}]
    /\ \A t \in Threads : /\ call[t].slot \in Slots \cup {None}
                          /\ call[t].pin \in Pins \cup {None}
                          /\ call[t].left \in (IF pc[t] \in {"found", "copying"}
                                              THEN 1..2 * MaxIterations ELSE {0})
                          /\ call[t].was \in BOOLEAN

Init ==
    /\ loaded = TRUE
    /\ in_use = [s \in Slots |-> FALSE]
    /\ page_table = [s \in Slots |-> None]
    /\ bar_pages = [s \in Slots |-> None]
    /\ rdma_vaddr = [s \in Slots |-> None]
    /\ gpu_revoked = [s \in Slots |-> FALSE]
    /\ gpu_buf_lock = None
    /\ mrs = [m \in Mrs |-> None]
    /\ pins_total = 0 /\ unpins_total = 0 /\ callbacks_fired = 0
    /\ nv = [p \in Pins |-> "unborn"]
    /\ data = [p \in Pins |-> None]
    /\ nvlock = None /\ cb = "none"
    /\ pc = [t \in Threads |-> "idle"]
    /\ call = [t \in Threads |-> NoCall]

Entering(t) == loaded /\ pc[t] = "idle"
Goto(t, l) == pc' = [pc EXCEPT ![t] = l]
Return(t) == Goto(t, "idle") /\ call' = [call EXCEPT ![t] = NoCall]
\* Exit runs unpin too, and goes on with its loop.
Leave(t) ==
    /\ call' = [call EXCEPT ![t] = NoCall]
    /\ Goto(t, IF loaded THEN "idle" ELSE "exit")

-----------------------------------------------------------------------------
(* The NVIDIA driver.                                                      *)

\* put_pages waits for NVIDIA's lock; a pin revoked meanwhile is no longer its.
PutPages(p) ==
    /\ nvlock = None
    /\ nv' = IF nv[p] = "pinned" THEN [nv EXCEPT ![p] = "released"] ELSE nv
    /\ UNCHANGED <<data, nvlock, cb>>

\* cudaFree of pinned memory: the pages are reclaimed and the callback starts.
Revoke(p) ==
    /\ nvlock = None /\ nv[p] = "pinned"
    /\ nv' = [nv EXCEPT ![p] = "revoked"]
    /\ nvlock' = p /\ cb' = "set"
    /\ UNCHANGED <<loaded, slotvars, gpu_buf_lock, mrs, stats, data, pc, call>>

\* Mutant: the callback takes gpu_buf_lock to find its buffer
CallbackSetsLocked ==
    /\ cb = "set" /\ gpu_buf_lock = None
    /\ gpu_revoked' = [gpu_revoked EXCEPT ![data[nvlock]] = TRUE]
    /\ cb' = "complete"
    /\ UNCHANGED <<loaded, in_use, page_table, bar_pages, rdma_vaddr, gpu_buf_lock, mrs, stats,
                   nv, data, nvlock, pc, call>>

CallbackSets ==
    /\ cb = "set"
    /\ gpu_revoked' = [gpu_revoked EXCEPT ![data[nvlock]] = TRUE]
    /\ cb' = "complete"
    /\ UNCHANGED <<loaded, in_use, page_table, bar_pages, rdma_vaddr, gpu_buf_lock, mrs, stats,
                   nv, data, nvlock, pc, call>>

\* complete_all on revoke_done of the slot, for which nobody waits.  Nothing holds the
\* slot for it: an unpin that has read the flag may have freed it by now, or a pin taken it
\* again and module exit ended, and the write then meets whatever is there.
CallbackReturns ==
    /\ cb = "complete"
    /\ cb' = "none" /\ nvlock' = None
    /\ UNCHANGED <<loaded, slotvars, gpu_buf_lock, mrs, stats, nv, data, pc, call>>

-----------------------------------------------------------------------------
(* GPU_PIN.                                                                *)

FreeSlots == {s \in Slots : ~in_use[s]}

PinLock(t) ==
    /\ Entering(t) /\ gpu_buf_lock = None
    /\ FreeSlots # {}
    /\ LET s == CHOOSE s \in FreeSlots : \A r \in FreeSlots : s <= r IN
         /\ page_table' = [page_table EXCEPT ![s] = None]
         /\ bar_pages' = [bar_pages EXCEPT ![s] = None]
         /\ rdma_vaddr' = [rdma_vaddr EXCEPT ![s] = None]
         /\ gpu_revoked' = [gpu_revoked EXCEPT ![s] = FALSE]
         /\ call' = [call EXCEPT ![t].slot = s]
    /\ gpu_buf_lock' = t
    /\ Goto(t, "getting")
    /\ UNCHANGED <<loaded, in_use, mrs, stats, nvvars>>

GetPages(t) ==
    /\ pc[t] = "getting" /\ nvlock = None
    /\ \E p \in Pins :
         /\ nv[p] = "unborn" /\ \A q \in Pins : q < p => nv[q] # "unborn"
         /\ nv' = [nv EXCEPT ![p] = "pinned"]
         /\ data' = [data EXCEPT ![p] = call[t].slot]
         /\ page_table' = [page_table EXCEPT ![call[t].slot] = p]
         /\ call' = [call EXCEPT ![t].pin = p]
    /\ Goto(t, "mapping")
    /\ UNCHANGED <<loaded, in_use, bar_pages, rdma_vaddr, gpu_revoked, gpu_buf_lock, mrs, stats,
                   nvlock, cb>>

GetPagesFails(t) ==
    /\ pc[t] = "getting"
    /\ gpu_buf_lock' = None
    /\ Return(t)
    /\ UNCHANGED <<loaded, slotvars, mrs, stats, nvvars>>

\* Mutant: a failing pin returns without put_pages
MappingFailsKeepsPin(t) ==
    /\ pc[t] = "mapping"
    /\ gpu_buf_lock' = None
    /\ Return(t)
    /\ UNCHANGED <<loaded, slotvars, mrs, stats, nvvars>>

\* The version check, the scatterlist, bar_pages or a page's ioremap fails.
MappingFails(t) ==
    /\ pc[t] = "mapping"
    /\ PutPages(call[t].pin)
    /\ gpu_buf_lock' = None
    /\ Return(t)
    /\ UNCHANGED <<loaded, slotvars, mrs, stats>>

\* Mutant: the revocation flag is initialised with the rest of the buffer, at the end
MappedResetsFlag(t, contiguous) ==
    /\ pc[t] = "mapping"
    /\ LET s == call[t].slot IN
         /\ in_use' = [in_use EXCEPT ![s] = TRUE]
         /\ bar_pages' = [bar_pages EXCEPT ![s] = call[t].pin]
         /\ rdma_vaddr' = [rdma_vaddr EXCEPT ![s] = IF contiguous THEN call[t].pin ELSE None]
         /\ gpu_revoked' = [gpu_revoked EXCEPT ![s] = FALSE]
    /\ gpu_buf_lock' = None
    /\ Goto(t, "pinned")
    /\ UNCHANGED <<loaded, page_table, mrs, stats, nvvars, call>>

Mapped(t, contiguous) ==
    /\ pc[t] = "mapping"
    /\ LET s == call[t].slot IN
         /\ in_use' = [in_use EXCEPT ![s] = TRUE]
         /\ bar_pages' = [bar_pages EXCEPT ![s] = call[t].pin]
         /\ rdma_vaddr' = [rdma_vaddr EXCEPT ![s] = IF contiguous THEN call[t].pin ELSE None]
    /\ gpu_buf_lock' = None
    /\ Goto(t, "pinned")
    /\ UNCHANGED <<loaded, page_table, gpu_revoked, mrs, stats, nvvars, call>>

\* pins_total is counted after the unlock; then the handle goes to the user.
PinReturns(t, copied) ==
    /\ pc[t] = "pinned"
    /\ pins_total' = pins_total + 1
    /\ IF copied THEN Return(t) ELSE Goto(t, "undo") /\ UNCHANGED call
    /\ UNCHANGED <<loaded, slotvars, gpu_buf_lock, mrs, unpins_total, callbacks_fired, nvvars>>

-----------------------------------------------------------------------------
(* GPU_UNPIN.  A handle is the pin it was given for: handles are never     *)
(* reused within the bound MaxPins.                                        *)

Find(p) == {s \in Slots : in_use[s] /\ page_table[s] = p}

UnpinLock(t, p) ==
    /\ \/ Entering(t) /\ Find(p) # {}
       \/ pc[t] = "undo" /\ p = call[t].pin /\ Find(p) # {}
       \/ pc[t] = "exit" /\ Find(p) # {}
    /\ gpu_buf_lock = None
    /\ \E s \in Find(p) :
         /\ call' = [call EXCEPT ![t].slot = s, ![t].pin = p, ![t].was = gpu_revoked[s]]
         /\ rdma_vaddr' = [rdma_vaddr EXCEPT ![s] = None]
         /\ bar_pages' = [bar_pages EXCEPT ![s] = None]
    /\ gpu_buf_lock' = t
    /\ Goto(t, "releasing")
    /\ UNCHANGED <<loaded, in_use, page_table, gpu_revoked, mrs, stats, nvvars>>

\* The undo of a pin whose handle another thread has unpinned: -ENOENT.
UndoFindsNothing(t) ==
    /\ pc[t] = "undo" /\ gpu_buf_lock = None /\ Find(call[t].pin) = {}
    /\ Return(t)
    /\ UNCHANGED <<loaded, slotvars, gpu_buf_lock, mrs, stats, nvvars>>

SlotFreed(s) ==
    /\ page_table' = [page_table EXCEPT ![s] = None]
    /\ in_use' = [in_use EXCEPT ![s] = FALSE]
    /\ gpu_buf_lock' = None
    /\ UNCHANGED <<bar_pages, rdma_vaddr, gpu_revoked>>

\* Mutant: pages are put back whether they were revoked or not
ReadRevokedAlwaysPuts(t) ==
    /\ pc[t] = "releasing"
    /\ Goto(t, "putting")
    /\ UNCHANGED <<loaded, slotvars, gpu_buf_lock, mrs, stats, nvvars, call>>

\* The second read of gpu_revoked chooses put_pages or free_page_table.
ReadRevoked(t) ==
    /\ pc[t] = "releasing"
    /\ IF ~gpu_revoked[call[t].slot]
       THEN Goto(t, "putting") /\ UNCHANGED <<slotvars, gpu_buf_lock, nvvars>>
       ELSE /\ nv' = [nv EXCEPT ![call[t].pin] = "released"]
            /\ SlotFreed(call[t].slot)
            /\ Goto(t, "counting")
            /\ UNCHANGED <<data, nvlock, cb>>
    /\ UNCHANGED <<loaded, mrs, stats, call>>

UnpinPuts(t) ==
    /\ pc[t] = "putting"
    /\ PutPages(call[t].pin)
    /\ SlotFreed(call[t].slot)
    /\ Goto(t, "counting")
    /\ UNCHANGED <<loaded, mrs, stats, call>>

UnpinReturns(t) ==
    /\ pc[t] = "counting"
    /\ unpins_total' = unpins_total + 1
    /\ callbacks_fired' = callbacks_fired + (IF call[t].was THEN 1 ELSE 0)
    /\ Leave(t)
    /\ UNCHANGED <<loaded, slotvars, gpu_buf_lock, mrs, pins_total, nvvars>>

-----------------------------------------------------------------------------
(* GPU_DMA_TO_HOST, GPU_DMA_FROM_HOST and GPU_BENCH: the buffer is looked  *)
(* up under gpu_buf_lock, then the host buffer under buf_lock, and the     *)
(* copies are made under no lock.  A lookup that fails changes nothing.    *)

Usable(s) == in_use[s] /\ ~gpu_revoked[s]

\* A transfer inside both buffers is one copy; the benchmark makes n in each direction.  The
\* tests of offset + size against the two sizes are made in 64 bits and could wrap: the
\* ranges here are the ones they are meant to let through.
CopyLookup(t, s, n) ==
    /\ Entering(t) /\ gpu_buf_lock = None
    /\ Usable(s)
    /\ call' = [call EXCEPT ![t] = [NoCall EXCEPT !.slot = s, !.pin = page_table[s],
                                                  !.left = n]]
    /\ Goto(t, "found")
    /\ UNCHANGED <<loaded, slotvars, gpu_buf_lock, mrs, stats, nvvars>>

Dma(t) == \E s \in Slots : CopyLookup(t, s, 1)
Benchmark(t) == \E s \in Slots, n \in 1..MaxIterations : CopyLookup(t, s, 2 * n)

\* The last test before a copy finds the pages revoked.
CopyRefused(t) ==
    /\ pc[t] = "found" /\ gpu_revoked[call[t].slot]
    /\ Return(t)
    /\ UNCHANGED <<loaded, slotvars, gpu_buf_lock, mrs, stats, nvvars>>

CopyStart(t) ==
    /\ pc[t] = "found" /\ ~gpu_revoked[call[t].slot]
    /\ Goto(t, "copying")
    /\ UNCHANGED <<loaded, slotvars, gpu_buf_lock, mrs, stats, nvvars, call>>

CopyEnd(t) ==
    /\ pc[t] = "copying"
    /\ IF call[t].left > 1
       THEN Goto(t, "found") /\ call' = [call EXCEPT ![t].left = @ - 1]
       ELSE Return(t)
    /\ UNCHANGED <<loaded, slotvars, gpu_buf_lock, mrs, stats, nvvars>>

\* Mutant: a chunk is cut at the page size, whatever the offset in the page
ChunkWholePage(at, remaining) == IF PageSize > remaining THEN remaining ELSE PageSize

\* The bytes one memcpy_fromio or memcpy_toio moves: up to the end of the page.
Chunk(at, remaining) ==
    LET room == PageSize - (at % PageSize)
    IN  IF room > remaining THEN remaining ELSE room

\* The calls the walk makes: page, offset in the page, offset in the host buffer, length.
BarMemcpy(offset, size) ==
    LET walk[pos \in 0..size] ==
          IF pos = size THEN {}
          ELSE LET n == Chunk(offset + pos, size - pos)
               IN  {<<(offset + pos) \div PageSize, (offset + pos) % PageSize, pos, n>>}
                   \cup walk[pos + n]
    IN  walk[0]

-----------------------------------------------------------------------------
(* GPU_REGISTER_MR, DEREGISTER_MR of a GPU region, GPU_LOOPBACK.           *)

RegisterLookup(t, s) ==
    /\ Entering(t) /\ gpu_buf_lock = None
    /\ Usable(s) /\ rdma_vaddr[s] # None
    /\ call' = [call EXCEPT ![t].slot = s]
    /\ Goto(t, "registering")
    /\ UNCHANGED <<loaded, slotvars, gpu_buf_lock, mrs, stats, nvvars>>

\* The slot is read again, with no lock on it: one unpinned since the lookup gives address
\* 0 here, where the code may also read its page table, by then a null pointer.
RegisterPublish(t, copied) ==
    /\ pc[t] = "registering"
    /\ \E m \in Mrs :
         /\ mrs[m] = None /\ \A k \in Mrs : k < m => mrs[k] # None
         /\ mrs' = [mrs EXCEPT ![m] = IF ~copied THEN None
                                      ELSE IF rdma_vaddr[call[t].slot] = None THEN 0
                                      ELSE rdma_vaddr[call[t].slot]]
    /\ Return(t)
    /\ UNCHANGED <<loaded, slotvars, gpu_buf_lock, stats, nvvars>>

\* No memory for the scatterlist, or no free region.
RegisterFails(t) ==
    /\ pc[t] = "registering"
    /\ Return(t)
    /\ UNCHANGED <<loaded, slotvars, gpu_buf_lock, mrs, stats, nvvars>>

Deregister(t, m) ==
    /\ Entering(t) /\ mrs[m] # None
    /\ mrs' = [mrs EXCEPT ![m] = None]
    /\ UNCHANGED <<loaded, slotvars, gpu_buf_lock, stats, nvvars, pc, call>>

\* The region is copied under mr_lock; the receive and then the send are posted.
LoopbackPosts(t, m) ==
    /\ Entering(t) /\ mrs[m] # None
    /\ Goto(t, "sending")
    /\ UNCHANGED <<loaded, slotvars, gpu_buf_lock, mrs, stats, nvvars, call>>

\* Both completions, an error completion or the 5 s timeout.
LoopbackReturns(t) ==
    /\ pc[t] = "sending"
    /\ Return(t)
    /\ UNCHANGED <<loaded, slotvars, gpu_buf_lock, mrs, stats, nvvars>>

-----------------------------------------------------------------------------
(* Module exit.  No file is open, so no ioctl runs.                        *)

ExitStart(t) ==
    /\ loaded /\ \A u \in Threads : pc[u] = "idle"
    /\ loaded' = FALSE
    /\ mrs' = [m \in Mrs |-> None]
    /\ Goto(t, "exit")
    /\ UNCHANGED <<slotvars, gpu_buf_lock, stats, nvvars, call>>

\* gpu_buffers is freed and the NVIDIA symbols are put.
ExitEnd(t) ==
    /\ pc[t] = "exit" /\ FreeSlots = Slots
    /\ Goto(t, "gone")
    /\ UNCHANGED <<loaded, slotvars, gpu_buf_lock, mrs, stats, nvvars, call>>

-----------------------------------------------------------------------------
\* A call under way waits for gpu_buf_lock.
Waits(t) == pc[t] \in {"undo", "exit"} /\ (UndoFindsNothing(t) \/ \E p \in Pins : UnpinLock(t, p))

Steps(t) ==
    \/ GetPages(t) \/ GetPagesFails(t) \/ MappingFails(t)
    \/ \E b \in BOOLEAN : Mapped(t, b) \/ PinReturns(t, b)
    \/ ReadRevoked(t) \/ UnpinPuts(t) \/ UnpinReturns(t)
    \/ CopyRefused(t) \/ CopyStart(t) \/ CopyEnd(t)
    \/ RegisterFails(t) \/ \E b \in BOOLEAN : RegisterPublish(t, b)
    \/ LoopbackReturns(t) \/ ExitEnd(t)

Enters(t) ==
    \/ PinLock(t)
    \/ pc[t] = "idle" /\ \E p \in Pins : UnpinLock(t, p)
    \/ Dma(t) \/ Benchmark(t)
    \/ \E s \in Slots : RegisterLookup(t, s)
    \/ \E m \in Mrs : Deregister(t, m) \/ LoopbackPosts(t, m)
    \/ ExitStart(t)

Nvidia == CallbackSets \/ CallbackReturns

Next ==
    \/ \E t \in Threads : Enters(t) \/ Waits(t) \/ Steps(t)
    \/ \E p \in Pins : Revoke(p)
    \/ Nvidia

Spec ==
    /\ Init /\ [][Next]_vars
    /\ \A t \in Threads : WF_vars(Steps(t)) /\ SF_vars(Waits(t))
    /\ WF_vars(Nvidia)

-----------------------------------------------------------------------------
(* Properties.                                                             *)

\* The callback's argument is the buffer the pin was made for: as long as NVIDIA may call
\* back, that slot still describes the pin and belongs to a buffer in use or to the call
\* that holds gpu_buf_lock.  A failing GPU_PIN that kept its pin would let a later
\* callback mark whatever buffer took the slot (gpu_p2p.c, dmaplane_gpu_pin).
CallbackReachesOwner ==
    \A p \in Pins : nv[p] = "pinned" =>
        /\ page_table[data[p]] = p
        /\ in_use[data[p]] \/ (gpu_buf_lock # None /\ call[gpu_buf_lock].slot = data[p])

\* The flag that every copy tests tells the truth about the buffer in the slot: outside a
\* running callback, gpu_revoked is set if and only if NVIDIA has reclaimed the pages,
\* however the revocation falls between the steps of pin, unpin and the reuse of the slot.
RevokedFlagExact ==
    \A s \in Slots : in_use[s] /\ nvlock # page_table[s] =>
        (gpu_revoked[s] <=> nv[page_table[s]] = "revoked")

\* No page table leaks: after an unpin the table of the buffer has been freed, by put_pages
\* or by free_page_table, unless the revocation fell between the two reads of gpu_revoked
\* and the put_pages; and a pin that was revoked when the unpin began is never put back.
UnpinnedIsReleased ==
    \A t \in Threads : pc[t] = "counting" =>
        \/ nv[call[t].pin] = "released"
        \/ nv[call[t].pin] = "revoked" /\ ~call[t].was

\* GET_GPU_STATS: the pins and unpins counted after the unlocks, with those about to be
\* counted, differ by the buffers in use.
StatsBalance ==
    pins_total + Cardinality({t \in Threads : pc[t] = "pinned"})
    = unpins_total + Cardinality({t \in Threads : pc[t] = "counting"})
      + Cardinality({s \in Slots : in_use[s]})

\* Once the module is gone NVIDIA holds no pin whose callback would be started; one that
\* has set the flag and not yet returned is not waited for.
ExitLeavesNoPin ==
    (\E t \in Threads : pc[t] = "gone") => \A p \in Pins : nv[p] # "pinned"

\* gpu_bar_memcpy_fromio and gpu_bar_memcpy_toio move every byte of the range once, from
\* or to its own place in its own page, and stay inside the pages of the buffer.
WalkIsExact ==
    (\E t \in Threads : pc[t] = "copying") =>
    \A o, n \in 0..BufSize : o + n <= BufSize =>
        LET w == BarMemcpy(o, n)
        IN  /\ \A c \in w : c[1] < NumPages /\ c[2] + c[4] <= PageSize
            /\ \A k \in 0..n - 1 :
                 Cardinality({c \in w : c[3] <= k /\ k < c[3] + c[4]
                                        /\ c[1] * PageSize + c[2] + (k - c[3]) = o + k}) = 1

\* Every GPU call returns although pin and unpin hold gpu_buf_lock while they wait for
\* NVIDIA's lock, under which the callback runs: the callback takes no driver lock.
CallsEnd ==
    \A t \in Threads : pc[t] \notin {"idle", "gone"} ~> pc[t] \in {"idle", "gone"}

\* gpu_p2p.h: "all fields except gpu_revoked and revoke_done are protected by
\* edev->gpu_buf_lock": a copy under way has the mappings of the buffer it looked up.
CopyKeepsMapping ==
    \A t \in Threads : pc[t] = "copying" => bar_pages[call[t].slot] = call[t].pin

\* Pinned memory through failing pins, undone pins, unpins and module exit: a callback finds
\* its buffer, the counts balance, and no pin outlives the module.
PinsSafe == TypeOK /\ CallbackReachesOwner /\ StatsBalance /\ ExitLeavesNoPin
=============================================================================
