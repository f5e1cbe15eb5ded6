-------------------------------- MODULE Rdma --------------------------------
(***************************************************************************)
(* The RDMA context and its memory regions: SETUP_RDMA and TEARDOWN_RDMA   *)
(* under the write side of rdma_sem; REGISTER_MR, DEREGISTER_MR and the    *)
(* transfers under its read side; DESTROY_BUFFER under neither             *)
(* (driver/main.c, driver/rdma_engine.c, driver/benchmark.c).              *)
(*                                                                         *)
(* A section under the write lock is one step that needs the absence of    *)
(* readers.  A section under the read lock is one step per lock it takes   *)
(* inside (buf_lock, mr_lock), so that other readers come in between.      *)
(* Buffers are page-backed, unmapped and unexported: the module Buffers    *)
(* has the rest of their life.                                             *)
(***************************************************************************)
EXTENDS Integers, FiniteSets

CONSTANTS Threads,      \* user threads inside ioctls
          Bufs,         \* buffers
          MaxMrs,       \* DMAPLANE_MAX_MRS
          MaxId,        \* bound on the MR handles given out
          None,
          Gone          \* marks a snapshot whose buffer was destroyed

ASSUME RdmaAssumption ==
    /\ MaxMrs \in Nat \ {0}
    /\ MaxId \in Nat \ {0}
    /\ None \notin Bufs /\ Gone \notin Bufs /\ None # Gone

Mrs == 1..MaxMrs

VARIABLES
    initialized,  \* rdma.initialized: device, PD, CQs and QPs exist
    live,         \* which buffers exist
    mr_used,      \* mrs[].in_use
    mr_id,        \* mrs[].id
    mr_buf,       \* the buffer whose pages the region maps
    mr_mem,       \* those pages have not been freed
    mr_ctx,       \* the context the region was mapped in still exists
    next_mr_id,
    mrs_registered,
    mrs_deregistered,
    pc,           \* where each thread is
    snap,         \* the buffer of a thread's snapshot
    handle        \* the MR handle a thread works with

mrvars == <<mr_used, mr_id, mr_buf, mr_mem, mr_ctx>>
counts == <<mrs_registered, mrs_deregistered>>
vars == <<initialized, live, mr_used, mr_id, mr_buf, mr_mem, mr_ctx, next_mr_id,
          mrs_registered, mrs_deregistered, pc, snap, handle>>

TypeOK ==
    /\ initialized \in BOOLEAN
    /\ live \in SUBSET Bufs
    /\ mr_used \in [Mrs -> BOOLEAN]
    /\ mr_id \in [Mrs -> 0..MaxId]
    /\ mr_buf \in [Mrs -> Bufs \cup {None, Gone}]
    /\ mr_mem \in [Mrs -> BOOLEAN]
    /\ mr_ctx \in [Mrs -> BOOLEAN]
    /\ next_mr_id \in 1..MaxId+1
    /\ mrs_registered \in 0..MaxId
    /\ mrs_deregistered \in 0..MaxId
    /\ pc \in [Threads -> {"idle", "setup_copy", "reg", "reg_copy", "op_buf", "op"}]
    /\ snap \in [Threads -> Bufs \cup {None, Gone}]
    /\ handle \in [Threads -> 0..MaxId]

Init ==
    /\ initialized = FALSE
    /\ live = {}
    /\ mr_used = [m \in Mrs |-> FALSE]
    /\ mr_id = [m \in Mrs |-> 0]
    /\ mr_buf = [m \in Mrs |-> None]
    /\ mr_mem = [m \in Mrs |-> FALSE]
    /\ mr_ctx = [m \in Mrs |-> FALSE]
    /\ next_mr_id = 1
    /\ mrs_registered = 0
    /\ mrs_deregistered = 0
    /\ pc = [t \in Threads |-> "idle"]
    /\ snap = [t \in Threads |-> None]
    /\ handle = [t \in Threads |-> 0]

\* Threads that hold rdma_sem for reading between two of their steps.
Readers == {t \in Threads : pc[t] \in {"reg", "op_buf", "op"}}

Used == {m \in Mrs : mr_used[m]}

(* The region with a handle, as dmabuf_rdma_find_mr looks it up. *)
FindMr(i) == {m \in Used : mr_id[m] = i}

Goto(t, to) == pc' = [pc EXCEPT ![t] = to]

-----------------------------------------------------------------------------
\* The context, under the write lock

Setup(t) ==
    /\ pc[t] = "idle"
    /\ Readers = {}
    /\ ~initialized
    /\ initialized' = TRUE
    /\ Goto(t, "setup_copy")
    /\ UNCHANGED <<live, mrvars, next_mr_id, counts, snap, handle>>

SetupCopied(t) ==
    /\ pc[t] = "setup_copy"
    /\ Goto(t, "idle")
    /\ UNCHANGED <<initialized, live, mrvars, next_mr_id, counts, snap, handle>>

(* The result cannot be copied out: rdma_engine_teardown, which leaves the *)
(* regions that were registered in the meantime where they are.            *)
SetupUndone(t) ==
    /\ pc[t] = "setup_copy"
    /\ Readers = {}
    /\ initialized' = FALSE
    /\ mr_ctx' = [m \in Mrs |-> FALSE]
    /\ Goto(t, "idle")
    /\ UNCHANGED <<live, mr_used, mr_id, mr_buf, mr_mem, next_mr_id, counts,
                   snap, handle>>

(* Mutant: teardown does not wait for the readers of rdma_sem. *)
TeardownUnlocked ==
    /\ initialized' = FALSE
    /\ mr_used' = [m \in Mrs |-> FALSE]
    /\ mr_ctx' = [m \in Mrs |-> FALSE]
    /\ mrs_deregistered' = mrs_deregistered + Cardinality(Used)
    /\ UNCHANGED <<live, mr_id, mr_buf, mr_mem, next_mr_id, mrs_registered, pc,
                   snap, handle>>

(* Mutant: the regions are not deregistered first. *)
TeardownKeepsRegions ==
    /\ Readers = {}
    /\ initialized' = FALSE
    /\ mr_ctx' = [m \in Mrs |-> FALSE]
    /\ UNCHANGED <<live, mr_used, mr_id, mr_buf, mr_mem, next_mr_id, counts, pc,
                   snap, handle>>

(* Deregister every region, then destroy the context. *)
Teardown ==
    /\ Readers = {}
    /\ initialized' = FALSE
    /\ mr_used' = [m \in Mrs |-> FALSE]
    /\ mr_ctx' = [m \in Mrs |-> FALSE]
    /\ mrs_deregistered' = mrs_deregistered + Cardinality(Used)
    /\ UNCHANGED <<live, mr_id, mr_buf, mr_mem, next_mr_id, mrs_registered, pc,
                   snap, handle>>

-----------------------------------------------------------------------------
\* REGISTER_MR and DEREGISTER_MR, under the read lock

(* Take the read lock; under buf_lock find the buffer, copy its pages. *)
RegisterSnapshot(t, b) ==
    /\ pc[t] = "idle"
    /\ initialized
    /\ b \in live
    /\ Goto(t, "reg")
    /\ snap' = [snap EXCEPT ![t] = b]
    /\ UNCHANGED <<initialized, live, mrvars, next_mr_id, counts, handle>>

(* Under mr_lock: fill the first free slot; release the read lock. *)
RegisterFill(t) ==
    /\ pc[t] = "reg"
    /\ next_mr_id <= MaxId
    /\ \E m \in Mrs \ Used :
          /\ \A n \in Mrs \ Used : m <= n
          /\ mr_used' = [mr_used EXCEPT ![m] = TRUE]
          /\ mr_id' = [mr_id EXCEPT ![m] = next_mr_id]
          /\ mr_buf' = [mr_buf EXCEPT ![m] = snap[t]]
          /\ mr_mem' = [mr_mem EXCEPT ![m] = snap[t] # Gone]
          /\ mr_ctx' = [mr_ctx EXCEPT ![m] = TRUE]
    /\ next_mr_id' = next_mr_id + 1
    /\ mrs_registered' = mrs_registered + 1
    /\ handle' = [handle EXCEPT ![t] = next_mr_id]
    /\ snap' = [snap EXCEPT ![t] = None]
    /\ Goto(t, "reg_copy")
    /\ UNCHANGED <<initialized, live, mrs_deregistered>>

(* No memory, no mapping, a failed fast registration or no free slot. *)
RegisterFails(t) ==
    /\ pc[t] = "reg"
    /\ snap' = [snap EXCEPT ![t] = None]
    /\ Goto(t, "idle")
    /\ UNCHANGED <<initialized, live, mrvars, next_mr_id, counts, handle>>

RegisterCopied(t) ==
    /\ pc[t] = "reg_copy"
    /\ Goto(t, "idle")
    /\ UNCHANGED <<initialized, live, mrvars, next_mr_id, counts, snap, handle>>

(* rdma_engine_deregister_mr: one section under mr_lock. *)
Remove(m) ==
    /\ mr_used' = [mr_used EXCEPT ![m] = FALSE]
    /\ mrs_deregistered' = mrs_deregistered + 1
    /\ UNCHANGED <<live, mr_id, mr_buf, mr_mem, mr_ctx, next_mr_id,
                   mrs_registered, initialized, snap>>

(* Mutant: the undo takes the first region in use instead of its own. *)
RegisterUndoneBySlot(t) ==
    /\ pc[t] = "reg_copy"
    /\ \E m \in Used : (\A n \in Used : m <= n) /\ Remove(m)
    /\ Goto(t, "idle")
    /\ UNCHANGED handle

(* The handle cannot be copied out: deregister it, under a new read lock.  *)
(* A teardown may have taken the region in between.                        *)
RegisterUndone(t) ==
    /\ pc[t] = "reg_copy"
    /\ \/ \E m \in FindMr(handle[t]) : Remove(m)
       \/ /\ FindMr(handle[t]) = {}
          /\ UNCHANGED <<initialized, live, mrvars, next_mr_id, counts, snap>>
    /\ Goto(t, "idle")
    /\ UNCHANGED handle

Deregister(t, i) ==
    /\ pc[t] = "idle"
    /\ \E m \in FindMr(i) : Remove(m)
    /\ UNCHANGED <<pc, handle>>

-----------------------------------------------------------------------------
\* A transfer on a region, under the read lock

(* Under mr_lock: look the handle up and copy the entry by value. *)
OpSnapshotMr(t, i) ==
    /\ pc[t] = "idle"
    /\ initialized
    /\ \E m \in FindMr(i) :
          snap' = [snap EXCEPT ![t] = IF mr_mem[m] THEN mr_buf[m] ELSE Gone]
    /\ handle' = [handle EXCEPT ![t] = i]
    /\ Goto(t, "op_buf")
    /\ UNCHANGED <<initialized, live, mrvars, next_mr_id, counts>>

(* Under buf_lock: the buffer still exists; copy its address, start the I/O. *)
OpSnapshotBuffer(t) ==
    /\ pc[t] = "op_buf"
    /\ snap[t] # Gone
    /\ Goto(t, "op")
    /\ UNCHANGED <<initialized, live, mrvars, next_mr_id, counts, snap, handle>>

(* The buffer is gone, or smaller than the transfer. *)
OpRejected(t) ==
    /\ pc[t] = "op_buf"
    /\ snap' = [snap EXCEPT ![t] = None]
    /\ Goto(t, "idle")
    /\ UNCHANGED <<initialized, live, mrvars, next_mr_id, counts, handle>>

(* The completions were polled, or polling timed out or failed. *)
OpEnd(t) ==
    /\ pc[t] = "op"
    /\ snap' = [snap EXCEPT ![t] = None]
    /\ Goto(t, "idle")
    /\ UNCHANGED <<initialized, live, mrvars, next_mr_id, counts, handle>>

-----------------------------------------------------------------------------
\* CREATE_BUFFER and DESTROY_BUFFER

CreateBuffer(b) ==
    /\ b \notin live
    /\ live' = live \cup {b}
    /\ UNCHANGED <<initialized, mrvars, next_mr_id, counts, pc, snap, handle>>

(* Frees the pages; neither the regions nor the snapshots are looked at. *)
DestroyBuffer(b) ==
    /\ b \in live
    /\ live' = live \ {b}
    /\ mr_mem' = [m \in Mrs |-> mr_mem[m] /\ mr_buf[m] # b]
    /\ snap' = [t \in Threads |-> IF snap[t] = b THEN Gone ELSE snap[t]]
    /\ UNCHANGED <<initialized, mr_used, mr_id, mr_buf, mr_ctx, next_mr_id,
                   counts, pc, handle>>

-----------------------------------------------------------------------------

Next ==
    \/ \E t \in Threads :
          \/ Setup(t) \/ SetupCopied(t) \/ SetupUndone(t)
          \/ RegisterFill(t) \/ RegisterFails(t)
          \/ RegisterCopied(t) \/ RegisterUndone(t)
          \/ OpSnapshotBuffer(t) \/ OpRejected(t) \/ OpEnd(t)
          \/ \E b \in Bufs : RegisterSnapshot(t, b)
          \/ \E i \in 1..MaxId : Deregister(t, i) \/ OpSnapshotMr(t, i)
    \/ Teardown
    \/ \E b \in Bufs : CreateBuffer(b) \/ DestroyBuffer(b)

Spec == Init /\ [][Next]_vars

-----------------------------------------------------------------------------
\* Properties

(* A registration or a transfer in progress keeps the context alive:       *)
(* neither TEARDOWN_RDMA nor the undo of SETUP_RDMA destroys the PD, CQs   *)
(* and QPs under it.                                                       *)
ReadersKeepContext == Readers # {} => initialized

(* The statistics balance: every registration is deregistered at most      *)
(* once, whether by its owner, by its own undo or by a teardown.           *)
RegistrationsBalance == mrs_registered - mrs_deregistered = Cardinality(Used)

(* A region that user space knows, or is being told, about disappears only *)
(* by DEREGISTER_MR of its handle or by TEARDOWN_RDMA; the undo of one     *)
(* registration never takes another thread's region.                       *)
UndoTakesOwnRegion ==
    [][\A t \in Threads : pc[t] = "reg_copy" /\ pc'[t] = "idle" =>
          \A m \in Used : mr_id[m] # handle[t] => mr_used'[m]]_vars

(* A region is not left behind when the context it was mapped in is        *)
(* destroyed: TEARDOWN_RDMA deregisters all of them first, whatever         *)
(* registrations it raced with.  Only the undo of a SETUP_RDMA whose result *)
(* could not be copied out leaves the regions that other threads registered *)
(* in the meantime.                                                         *)
OrphansOnlyByUndo ==
    [][(\E m \in Used : mr_ctx[m] /\ mr_used'[m] /\ ~mr_ctx'[m]) =>
          \E t \in Threads : pc[t] = "setup_copy" /\ pc'[t] = "idle"]_vars

(* The context and its regions under setup, teardown, registration and     *)
(* transfers: kept for the readers, and every region counted out once.     *)
ContextSafe == TypeOK /\ ReadersKeepContext /\ RegistrationsBalance
=============================================================================
