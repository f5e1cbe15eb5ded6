------------------------------ MODULE Buffers ------------------------------
(***************************************************************************)
(* DMA buffers and who keeps them alive: the buffer table                  *)
(* (driver/dmabuf_rdma.c), the user mappings counted by mmap_count         *)
(* (driver/main.c) and the dma-buf a buffer may be exported as             *)
(* (driver/dmabuf_export.c).                                               *)
(*                                                                         *)
(* Everything done under buf_lock is one step.  vma_open and vma_close run *)
(* without it.  The last reference to a dma-buf is dropped by fput, which  *)
(* runs the release callback later, when the task returns to user mode.    *)
(***************************************************************************)
EXTENDS Integers, FiniteSets

CONSTANTS MaxBuffers,  \* DMAPLANE_MAX_BUFFERS
          IdMod,       \* 2^32: values of a buffer handle, 0 is "no buffer"
          Vmas,        \* user mappings that may exist at a time
          Dmabufs,     \* dma-buf objects that may exist at a time
          MaxRefs,     \* bound on the references held to one dma-buf
          Importers,   \* devices whose drivers import dma-bufs
          None

ASSUME BuffersAssumption ==
    /\ MaxBuffers \in Nat \ {0}
    /\ IdMod \in Nat /\ IdMod > 1
    /\ MaxRefs \in Nat \ {0}
    /\ IsFiniteSet(Vmas) /\ IsFiniteSet(Importers)
    /\ None \notin Dmabufs
    /\ None \notin 1..MaxBuffers

Slots == 1..MaxBuffers
Ids == 1..IdMod-1
Kinds == {"pages", "coherent"}

VARIABLES
    in_use, id, alloc_type, mmap_count, dmabuf_exported, dmabuf,  \* per slot
    next_buf_id,
    vma,       \* vm_private_data of each mapping: a slot, or None
    dstate,    \* "none", "live", or "releasing" once its last reference went
    drefs,     \* references to the dma-buf: fds, mappings, importers
    dbuf,      \* ctx->buf of the dma-buf's private context, until that is freed
    ctxfrees,  \* how often that context has been passed to kfree
    import,    \* the dma-buf each importer is attached to, or None
    sgt        \* the slot whose pages the importer's SG table names, or None

slotvars == <<in_use, id, alloc_type, mmap_count, dmabuf_exported, dmabuf>>
dvars == <<dstate, drefs, dbuf, ctxfrees, import, sgt>>
vars == <<in_use, id, alloc_type, mmap_count, dmabuf_exported, dmabuf,
          next_buf_id, vma, dstate, drefs, dbuf, ctxfrees, import, sgt>>

TypeOK ==
    /\ in_use \in [Slots -> BOOLEAN]
    /\ id \in [Slots -> 0..IdMod-1]
    /\ alloc_type \in [Slots -> Kinds]
    /\ mmap_count \in [Slots -> 0..Cardinality(Vmas)]
    /\ dmabuf_exported \in [Slots -> BOOLEAN]
    /\ dmabuf \in [Slots -> Dmabufs \cup {None}]
    /\ next_buf_id \in Ids
    /\ vma \in [Vmas -> Slots \cup {None}]
    /\ dstate \in [Dmabufs -> {"none", "live", "releasing"}]
    /\ drefs \in [Dmabufs -> 0..MaxRefs]
    /\ dbuf \in [Dmabufs -> Slots \cup {None}]
    /\ ctxfrees \in [Dmabufs -> 0..2]
    /\ import \in [Importers -> Dmabufs \cup {None}]
    /\ sgt \in [Importers -> Slots \cup {None}]

Init ==
    /\ in_use = [s \in Slots |-> FALSE]
    /\ id = [s \in Slots |-> 0]
    /\ alloc_type = [s \in Slots |-> "coherent"]
    /\ mmap_count = [s \in Slots |-> 0]
    /\ dmabuf_exported = [s \in Slots |-> FALSE]
    /\ dmabuf = [s \in Slots |-> None]
    /\ next_buf_id = 1
    /\ vma = [v \in Vmas |-> None]
    /\ dstate = [d \in Dmabufs |-> "none"]
    /\ drefs = [d \in Dmabufs |-> 0]
    /\ dbuf = [d \in Dmabufs |-> None]
    /\ ctxfrees = [d \in Dmabufs |-> 0]
    /\ import = [m \in Importers |-> None]
    /\ sgt = [m \in Importers |-> None]

First(S) == {s \in S : \A r \in S : s <= r}

(* dmabuf_rdma_find_buffer: the lowest slot in use that has the handle. *)
Find(i) == First({s \in Slots : in_use[s] /\ id[s] = i})

-----------------------------------------------------------------------------
\* CREATE_BUFFER and DESTROY_BUFFER

(* The lowest free slot is zeroed and gets the next handle, before the      *)
(* memory is allocated; used says whether the allocation succeeded.  Nobody *)
(* reads the handle and the type of a free slot: they are kept zero.        *)
Allocate(kind, used) ==
    /\ \E s \in First({r \in Slots : ~in_use[r]}) :
          /\ in_use' = [in_use EXCEPT ![s] = used]
          /\ id' = [id EXCEPT ![s] = IF used THEN next_buf_id ELSE 0]
          /\ alloc_type' = [alloc_type EXCEPT ![s] = IF used THEN kind ELSE "coherent"]
          /\ mmap_count' = [mmap_count EXCEPT ![s] = 0]
          /\ dmabuf_exported' = [dmabuf_exported EXCEPT ![s] = FALSE]
          /\ dmabuf' = [dmabuf EXCEPT ![s] = None]
    /\ next_buf_id' = IF next_buf_id + 1 = IdMod THEN 1 ELSE next_buf_id + 1
    /\ UNCHANGED <<vma, dvars>>

Free(s) ==
    /\ in_use' = [in_use EXCEPT ![s] = FALSE]
    /\ id' = [id EXCEPT ![s] = 0]
    /\ alloc_type' = [alloc_type EXCEPT ![s] = "coherent"]

CreateBuffer(kind) == Allocate(kind, TRUE)
CreateFails(kind) == Allocate(kind, FALSE)

(* Mutant: the export of the buffer is not looked at. *)
DestroyExported(i) ==
    /\ \E s \in Find(i) :
          /\ mmap_count[s] = 0
          /\ Free(s)
    /\ UNCHANGED <<mmap_count, dmabuf_exported, dmabuf, next_buf_id, vma, dvars>>

(* Free the memory unless it is mapped or exported (-EBUSY).  A             *)
(* CREATE_BUFFER whose result cannot be copied out ends the same way.       *)
DestroyBuffer(i) ==
    /\ \E s \in Find(i) :
          /\ mmap_count[s] = 0
          /\ ~dmabuf_exported[s]
          /\ Free(s)
    /\ UNCHANGED <<mmap_count, dmabuf_exported, dmabuf, next_buf_id, vma, dvars>>

-----------------------------------------------------------------------------
\* mmap of the device

(* All pages could be inserted: the mapping is counted.  A mapping that     *)
(* fails on the way changes nothing.                                        *)
Mmap(v, i) ==
    /\ vma[v] = None
    /\ \E s \in Find(i) :
          /\ vma' = [vma EXCEPT ![v] = s]
          /\ mmap_count' = [mmap_count EXCEPT ![s] = @ + 1]
    /\ UNCHANGED <<in_use, id, alloc_type, dmabuf_exported, dmabuf,
                   next_buf_id, dvars>>

(* Mutant: a mapping split in two is not counted again. *)
VmaOpenUncounted(v, w) ==
    /\ vma[v] # None
    /\ vma[w] = None
    /\ vma' = [vma EXCEPT ![w] = vma[v]]
    /\ UNCHANGED <<slotvars, next_buf_id, dvars>>

(* The kernel splits or moves a mapping. *)
VmaOpen(v, w) ==
    /\ vma[v] # None
    /\ vma[w] = None
    /\ vma' = [vma EXCEPT ![w] = vma[v]]
    /\ mmap_count' = [mmap_count EXCEPT ![vma[v]] = @ + 1]
    /\ UNCHANGED <<in_use, id, alloc_type, dmabuf_exported, dmabuf,
                   next_buf_id, dvars>>

VmaClose(v) ==
    /\ vma[v] # None
    /\ vma' = [vma EXCEPT ![v] = None]
    /\ mmap_count' = [mmap_count EXCEPT ![vma[v]] = @ - 1]
    /\ UNCHANGED <<in_use, id, alloc_type, dmabuf_exported, dmabuf,
                   next_buf_id, dvars>>

-----------------------------------------------------------------------------
\* EXPORT_DMABUF and the life of the dma-buf

(* What both outcomes of dma_buf_fd start from.  The name of a context that *)
(* was freed twice is not used again, so that this stays visible.           *)
Exportable(s, d) ==
    /\ alloc_type[s] = "pages"
    /\ ~dmabuf_exported[s]
    /\ dstate[d] = "none" /\ ctxfrees[d] < 2

Export(i, d) ==
    /\ \E s \in Find(i) :
          /\ Exportable(s, d)
          /\ dmabuf_exported' = [dmabuf_exported EXCEPT ![s] = TRUE]
          /\ dmabuf' = [dmabuf EXCEPT ![s] = d]
          /\ dbuf' = [dbuf EXCEPT ![d] = s]
    /\ dstate' = [dstate EXCEPT ![d] = "live"]
    /\ drefs' = [drefs EXCEPT ![d] = 1]
    /\ ctxfrees' = [ctxfrees EXCEPT ![d] = 0]
    /\ UNCHANGED <<in_use, id, alloc_type, mmap_count, next_buf_id, vma, import, sgt>>

(* dma_buf_fd failed: dma_buf_put, whose release is still to come, and      *)
(* kfree of the context.                                                    *)
ExportFdFails(i, d) ==
    /\ \E s \in Find(i) :
          /\ Exportable(s, d)
          /\ dbuf' = [dbuf EXCEPT ![d] = s]
    /\ dstate' = [dstate EXCEPT ![d] = "releasing"]
    /\ ctxfrees' = [ctxfrees EXCEPT ![d] = 1]
    /\ UNCHANGED <<slotvars, next_buf_id, vma, drefs, import, sgt>>

(* Users dup the fd and map it (which holds the file), and let go again. *)
DmabufGet(d) ==
    /\ dstate[d] = "live"
    /\ drefs[d] < MaxRefs
    /\ drefs' = [drefs EXCEPT ![d] = @ + 1]
    /\ UNCHANGED <<slotvars, next_buf_id, vma, dstate, dbuf, ctxfrees, import, sgt>>

(* fput runs the release callback when the last reference is gone. *)
Drop(d) ==
    /\ drefs' = [drefs EXCEPT ![d] = @ - 1]
    /\ dstate' = [dstate EXCEPT ![d] = IF drefs[d] = 1 THEN "releasing" ELSE "live"]
    /\ UNCHANGED <<slotvars, next_buf_id, vma, dbuf, ctxfrees>>

DmabufPut(d) ==
    /\ dstate[d] = "live"
    /\ drefs[d] > Cardinality({m \in Importers : import[m] = d})
    /\ Drop(d)
    /\ UNCHANGED <<import, sgt>>

(* An importer takes a reference and attaches: every device is accepted. *)
Attach(m, d) ==
    /\ import[m] = None
    /\ dstate[d] = "live" /\ drefs[d] < MaxRefs
    /\ drefs' = [drefs EXCEPT ![d] = @ + 1]
    /\ import' = [import EXCEPT ![m] = d]
    /\ UNCHANGED <<slotvars, next_buf_id, vma, dstate, dbuf, ctxfrees, sgt>>

(* The SG table for the importer names the pages of ctx->buf.  A mapping    *)
(* that fails frees its table and changes nothing.                          *)
MapDmabuf(m) ==
    /\ import[m] # None /\ sgt[m] = None
    /\ sgt' = [sgt EXCEPT ![m] = dbuf[import[m]]]
    /\ UNCHANGED <<slotvars, next_buf_id, vma, dstate, drefs, dbuf, ctxfrees, import>>

UnmapDmabuf(m) ==
    /\ sgt[m] # None
    /\ sgt' = [sgt EXCEPT ![m] = None]
    /\ UNCHANGED <<slotvars, next_buf_id, vma, dstate, drefs, dbuf, ctxfrees, import>>

(* It detaches, unmapped, and drops its reference. *)
Detach(m) ==
    /\ import[m] # None /\ sgt[m] = None
    /\ import' = [import EXCEPT ![m] = None]
    /\ Drop(import[m])
    /\ UNCHANGED sgt

(* Mutant: the release frees the context and leaves the buffer exported. *)
DmabufReleaseKeepsFlag(d) ==
    /\ dstate[d] = "releasing"
    /\ dstate' = [dstate EXCEPT ![d] = "none"]
    /\ ctxfrees' = [ctxfrees EXCEPT ![d] = @ + 1]
    /\ dbuf' = [dbuf EXCEPT ![d] = None]
    /\ UNCHANGED <<slotvars, next_buf_id, vma, drefs, import, sgt>>

(* dmaplane_dmabuf_release, under buf_lock.  ctx->buf is read from the      *)
(* context whether or not that was freed before.                            *)
DmabufRelease(d) ==
    /\ dstate[d] = "releasing"
    /\ dmabuf_exported' = [dmabuf_exported EXCEPT ![dbuf[d]] = FALSE]
    /\ dmabuf' = [dmabuf EXCEPT ![dbuf[d]] = None]
    /\ dstate' = [dstate EXCEPT ![d] = "none"]
    /\ ctxfrees' = [ctxfrees EXCEPT ![d] = @ + 1]
    /\ dbuf' = [dbuf EXCEPT ![d] = None]
    /\ UNCHANGED <<in_use, id, alloc_type, mmap_count, next_buf_id, vma,
                   drefs, import, sgt>>

-----------------------------------------------------------------------------

(* What a process does through the open device. *)
DeviceCall ==
    \/ \E k \in Kinds : CreateBuffer(k) \/ CreateFails(k)
    \/ \E i \in Ids : DestroyBuffer(i)
    \/ \E v \in Vmas, i \in Ids : Mmap(v, i)
    \/ \E i \in Ids, d \in Dmabufs : Export(i, d) \/ ExportFdFails(i, d)

(* What happens to the mappings and dma-bufs that exist. *)
Callback ==
    \/ \E v, w \in Vmas : VmaOpen(v, w)
    \/ \E v \in Vmas : VmaClose(v)
    \/ \E d \in Dmabufs : DmabufGet(d) \/ DmabufPut(d) \/ DmabufRelease(d)
    \/ \E m \in Importers : \/ \E d \in Dmabufs : Attach(m, d)
                            \/ MapDmabuf(m) \/ UnmapDmabuf(m) \/ Detach(m)

Next == DeviceCall \/ Callback

Spec == Init /\ [][Next]_vars

-----------------------------------------------------------------------------
\* Properties

(* No user mapping outlives its buffer: pages a process can still reach    *)
(* are never freed, however mappings are split, moved and closed while     *)
(* DESTROY_BUFFER is tried and slots and handles are reused.               *)
MappedMemoryIsLive == \A v \in Vmas : vma[v] # None => in_use[vma[v]]

(* mmap_count is exactly the number of mappings of the slot.               *)
MmapCountExact ==
    \A s \in Slots : mmap_count[s] = Cardinality({v \in Vmas : vma[v] = s})

(* The context of a dma-buf is freed exactly once: the release callback    *)
(* does no harm after a failed dma_buf_fd, as the comment there says.      *)
ContextFreedOnce == \A d \in Dmabufs : ctxfrees[d] <= 1

(* The memory behind a dma-buf that somebody can still use is not freed,   *)
(* nor are the pages an importer's SG table names; and a buffer has at     *)
(* most one such dma-buf, the one it records.  Only the stray release      *)
(* after a failed dma_buf_fd may clear another's record.                   *)
ExportedMemoryIsLive ==
    ContextFreedOnce =>
        /\ \A d \in Dmabufs : dstate[d] = "live" =>
              /\ in_use[dbuf[d]]
              /\ dmabuf_exported[dbuf[d]]
              /\ dmabuf[dbuf[d]] = d
        /\ \A m \in Importers : sgt[m] # None =>
              /\ dstate[import[m]] = "live"
              /\ sgt[m] = dbuf[import[m]]

Unreferenced(s) ==
    /\ in_use[s]
    /\ \A v \in Vmas : vma[v] # s
    /\ \A d \in Dmabufs : dstate[d] = "live" => dbuf[d] # s

(* A buffer that nothing refers to any more does not stay busy: it becomes *)
(* destroyable (or is referred to again) once the releases have run.       *)
BuffersBecomeDestroyable ==
    \A s \in Slots :
        Unreferenced(s) ~> (~Unreferenced(s) \/ (mmap_count[s] = 0 /\ ~dmabuf_exported[s]))

(* User mappings: every one is counted once, whatever splits, moves and    *)
(* closes it, so that no mapped memory is freed.                           *)
MappingsSafe == TypeOK /\ MappedMemoryIsLive /\ MmapCountExact
=============================================================================
