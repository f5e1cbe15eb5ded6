---------------------------- MODULE DeviceProofs ----------------------------
(***************************************************************************)
(* Proofs about Buffers and Device for every number of slots, handles,     *)
(* mappings, dma-bufs and importers: mapped, exported and imported memory  *)
(* is not freed, and nothing outlives the module.                          *)
(***************************************************************************)
EXTENDS Device, FiniteSetTheorems, TLAPS

Mapped(s) == {v \in Vmas : vma[v] = s}
Importing(d) == {m \in Importers : import[m] = d}

-----------------------------------------------------------------------------
\* The inductive invariant of the buffers

(* The references of a dma-buf cover its importers.                        *)
RefsCoverImporters == \A d \in Dmabufs : Cardinality(Importing(d)) <= drefs[d]

(* A dma-buf is referenced exactly while it is live; the context of a live *)
(* one has not been freed, that of a releasing one at most once.           *)
DmabufLife ==
    \A d \in Dmabufs :
        /\ (drefs[d] > 0) <=> (dstate[d] = "live")
        /\ dstate[d] = "live" => ctxfrees[d] = 0
        /\ dstate[d] = "releasing" => ctxfrees[d] <= 1
        /\ dstate[d] # "none" => dbuf[d] \in Slots

(* Importers are attached to live dma-bufs, and their SG tables name the   *)
(* pages of the buffer behind it.                                          *)
ImportersHold ==
    \A m \in Importers :
        /\ import[m] # None => dstate[import[m]] = "live"
        /\ sgt[m] # None => import[m] # None /\ sgt[m] = dbuf[import[m]]

(* ExportedMemoryIsLive, also for a dma-buf whose release is still to run: *)
(* without that, the release of one dma-buf could clear another's record.  *)
RecordExact ==
    ContextFreedOnce =>
        \A d \in Dmabufs :
            dstate[d] = "live" \/ (dstate[d] = "releasing" /\ ctxfrees[d] = 0) =>
                /\ in_use[dbuf[d]]
                /\ dmabuf_exported[dbuf[d]]
                /\ dmabuf[dbuf[d]] = d

(* A buffer is marked exported only while the dma-buf it records exists,   *)
(* so that nothing but a release to come keeps it busy.                    *)
ExportHasDmabuf ==
    \A s \in Slots : dmabuf_exported[s] =>
        /\ dmabuf[s] \in Dmabufs
        /\ dstate[dmabuf[s]] # "none"
        /\ dbuf[dmabuf[s]] = s

DmabufInv == /\ RefsCoverImporters
             /\ DmabufLife
             /\ ImportersHold
             /\ RecordExact
             /\ ExportHasDmabuf

BInv == MappingsSafe /\ DmabufInv

-----------------------------------------------------------------------------
\* Facts about the tables

(* The mappings of a slot and the importers of a dma-buf are finitely many. *)
LEMMA FiniteFacts ==
    /\ \A s : IsFiniteSet(Mapped(s)) /\ Cardinality(Mapped(s)) \in 0..Cardinality(Vmas)
    /\ \A d : IsFiniteSet(Importing(d)) /\ Cardinality(Importing(d)) \in Nat
    /\ Cardinality(Vmas) \in Nat
  <1>1. Cardinality(Vmas) \in Nat
    BY FS_CardinalityType, BuffersAssumption
  <1>2. ASSUME NEW s PROVE IsFiniteSet(Mapped(s)) /\ Cardinality(Mapped(s)) \in 0..Cardinality(Vmas)
    <2>1. Mapped(s) \in SUBSET Vmas
      BY DEF Mapped
    <2>2. IsFiniteSet(Mapped(s)) /\ Cardinality(Mapped(s)) <= Cardinality(Vmas)
      BY <2>1, FS_Subset, BuffersAssumption
    <2> QED
      BY <2>2, <1>1, FS_CardinalityType
  <1>3. ASSUME NEW d PROVE IsFiniteSet(Importing(d)) /\ Cardinality(Importing(d)) \in Nat
    <2>1. Importing(d) \in SUBSET Importers
      BY DEF Importing
    <2> QED
      BY <2>1, FS_Subset, FS_CardinalityType, BuffersAssumption
  <1> QED
    BY <1>1, <1>2, <1>3

(* A lookup finds slots that are in use.                                   *)
LEMMA FindFacts == \A i : \A s \in Find(i) : s \in Slots /\ in_use[s]
  BY DEF Find, First

(* An empty count means that nothing is there.                             *)
LEMMA NoneCounted ==
    /\ \A s : Cardinality(Mapped(s)) = 0 => Mapped(s) = {}
    /\ \A d : Cardinality(Importing(d)) = 0 => Importing(d) = {}
  BY FiniteFacts, FS_EmptySet

(* The conjuncts about dma-bufs depend on the dma-bufs and on their        *)
(* records in the slots only.                                              *)
LEMMA DmabufInvFrame ==
    ASSUME DmabufInv, UNCHANGED <<in_use, dmabuf_exported, dmabuf, dvars>>
    PROVE  DmabufInv'
  BY DEF DmabufInv, RefsCoverImporters, DmabufLife, ImportersHold, RecordExact,
     ExportHasDmabuf, ContextFreedOnce, Importing, dvars

(* The conjuncts about mappings depend on the table and the mappings only. *)
LEMMA MappingsFrame ==
    ASSUME MappedMemoryIsLive, MmapCountExact, UNCHANGED <<in_use, mmap_count, vma>>
    PROVE  MappedMemoryIsLive' /\ MmapCountExact'
  BY DEF MappedMemoryIsLive, MmapCountExact

-----------------------------------------------------------------------------
\* The initial state and the steps of the device's users

(* The device starts without buffers, mappings and exports.                *)
LEMMA InitBInv == Init => BInv
  <1> SUFFICES ASSUME Init PROVE BInv
    OBVIOUS
  <1>1. TypeOK
    BY FiniteFacts, BuffersAssumption DEF Init, TypeOK, Slots, Ids, Kinds
  <1>2. MappedMemoryIsLive
    BY DEF Init, MappedMemoryIsLive
  <1>3. \A s \in Slots : Mapped(s) = {}
    BY BuffersAssumption DEF Init, Mapped, Slots
  <1>4. MmapCountExact
    BY <1>3, FS_EmptySet DEF Init, MmapCountExact, Mapped
  <1>5. \A d \in Dmabufs : Importing(d) = {}
    BY BuffersAssumption DEF Init, Importing
  <1>6. RefsCoverImporters
    <2> SUFFICES ASSUME NEW d \in Dmabufs PROVE Cardinality(Importing(d)) <= drefs[d]
      BY DEF RefsCoverImporters
    <2>1. Importing(d) = {}
      BY <1>5
    <2> QED
      BY <2>1, FS_EmptySet DEF Init
  <1>7. DmabufLife /\ ImportersHold /\ RecordExact /\ ExportHasDmabuf
    BY DEF Init, DmabufLife, ImportersHold, RecordExact, ExportHasDmabuf
  <1> QED
    BY <1>1, <1>2, <1>4, <1>6, <1>7 DEF BInv, MappingsSafe, DmabufInv

(* A free slot is taken: nobody maps it and no dma-buf records it.         *)
LEMMA AllocateStep ==
    ASSUME BInv, NEW kind \in Kinds, NEW used \in BOOLEAN, Allocate(kind, used)
    PROVE  BInv'
  <1> USE DEF BInv, MappingsSafe
  <1>1. PICK s \in Slots :
          /\ ~in_use[s]
          /\ in_use' = [in_use EXCEPT ![s] = used]
          /\ id' = [id EXCEPT ![s] = IF used THEN next_buf_id ELSE 0]
          /\ alloc_type' = [alloc_type EXCEPT ![s] = IF used THEN kind ELSE "coherent"]
          /\ mmap_count' = [mmap_count EXCEPT ![s] = 0]
          /\ dmabuf_exported' = [dmabuf_exported EXCEPT ![s] = FALSE]
          /\ dmabuf' = [dmabuf EXCEPT ![s] = None]
    BY DEF Allocate, First
  <1>2. UNCHANGED <<vma, dvars>>
    BY DEF Allocate
  <1>3. next_buf_id' \in Ids
    BY BuffersAssumption DEF Allocate, TypeOK, Ids
  <1>4. TypeOK'
    BY <1>1, <1>2, <1>3, FiniteFacts, BuffersAssumption DEF TypeOK, Kinds, Ids, dvars
  <1>5. Mapped(s) = {}
    BY <1>1, BuffersAssumption DEF Mapped, MappedMemoryIsLive, Slots
  <1>6. MappedMemoryIsLive'
    BY <1>1, <1>2 DEF MappedMemoryIsLive, TypeOK
  <1>7. MmapCountExact'
    BY <1>1, <1>2, <1>5, FS_EmptySet DEF MmapCountExact, Mapped, TypeOK
  <1>8. RefsCoverImporters' /\ DmabufLife' /\ ImportersHold'
    BY <1>2 DEF DmabufInv, RefsCoverImporters, DmabufLife, ImportersHold, Importing, dvars
  <1>9. RecordExact'
    BY <1>1, <1>2 DEF DmabufInv, RecordExact, DmabufLife, ContextFreedOnce, TypeOK, dvars
  <1>10. ExportHasDmabuf'
    BY <1>1, <1>2 DEF DmabufInv, ExportHasDmabuf, TypeOK, dvars
  <1> QED
    BY <1>4, <1>6, <1>7, <1>8, <1>9, <1>10 DEF DmabufInv

(* A slot is given back only when it is neither mapped nor exported.       *)
LEMMA DestroyStep ==
    ASSUME BInv, NEW i \in Ids, DestroyBuffer(i)
    PROVE  BInv'
  <1> USE DEF BInv, MappingsSafe
  <1>1. PICK s \in Slots :
          /\ in_use[s] /\ mmap_count[s] = 0 /\ ~dmabuf_exported[s]
          /\ Free(s)
    BY FindFacts DEF DestroyBuffer
  <1>2. UNCHANGED <<mmap_count, dmabuf_exported, dmabuf, next_buf_id, vma, dvars>>
    BY DEF DestroyBuffer
  <1>3. TypeOK'
    BY <1>1, <1>2, BuffersAssumption DEF TypeOK, Free, Kinds, Ids, dvars
  <1>4. Mapped(s) = {}
    BY <1>1, NoneCounted DEF MmapCountExact, Mapped
  <1>5. MappedMemoryIsLive'
    BY <1>1, <1>2, <1>4 DEF MappedMemoryIsLive, Mapped, Free, TypeOK
  <1>6. MmapCountExact'
    BY <1>2 DEF MmapCountExact
  <1>7. RefsCoverImporters' /\ DmabufLife' /\ ImportersHold' /\ ExportHasDmabuf'
    BY <1>2 DEF DmabufInv, RefsCoverImporters, DmabufLife, ImportersHold, Importing,
       ExportHasDmabuf, dvars
  <1>8. RecordExact'
    BY <1>1, <1>2 DEF DmabufInv, RecordExact, ContextFreedOnce, DmabufLife, TypeOK, Free, dvars
  <1> QED
    BY <1>3, <1>5, <1>6, <1>7, <1>8 DEF DmabufInv

-----------------------------------------------------------------------------
\* Mappings: each one is counted once

(* One more mapping of a slot in use, counted.                             *)
LEMMA MapStep ==
    ASSUME BInv, NEW v \in Vmas, NEW s \in Slots, vma[v] = None, in_use[s],
           vma' = [vma EXCEPT ![v] = s],
           mmap_count' = [mmap_count EXCEPT ![s] = @ + 1],
           UNCHANGED <<in_use, id, alloc_type, dmabuf_exported, dmabuf, next_buf_id, dvars>>
    PROVE  BInv'
  <1> USE DEF BInv, MappingsSafe
  <1>1. MappedMemoryIsLive'
    BY DEF MappedMemoryIsLive, TypeOK
  <1>2. Mapped(s)' = Mapped(s) \cup {v} /\ v \notin Mapped(s)
    BY BuffersAssumption DEF Mapped, TypeOK, Slots
  <1>3. \A r \in Slots : r # s => Mapped(r)' = Mapped(r)
    BY BuffersAssumption DEF Mapped, TypeOK, Slots
  <1>4. Cardinality(Mapped(s)') = Cardinality(Mapped(s)) + 1
    BY <1>2, FiniteFacts, FS_AddElement
  <1>5. MmapCountExact'
    <2> SUFFICES ASSUME NEW r \in Slots PROVE mmap_count'[r] = Cardinality(Mapped(r)')
      BY DEF MmapCountExact, Mapped
    <2>1. mmap_count[r] = Cardinality(Mapped(r))
      BY DEF MmapCountExact, Mapped
    <2>2. CASE r = s
      BY <2>1, <2>2, <1>4 DEF TypeOK
    <2>3. CASE r # s
      BY <2>1, <2>3, <1>3 DEF TypeOK
    <2> QED
      BY <2>2, <2>3
  <1>6. Cardinality(Mapped(s)') \in 0..Cardinality(Vmas)
    <2>1. Mapped(s)' \in SUBSET Vmas
      BY DEF Mapped
    <2> QED
      BY <2>1, FS_Subset, FS_CardinalityType, BuffersAssumption, FiniteFacts
  <1>7. TypeOK'
    BY <1>4, <1>6, BuffersAssumption DEF TypeOK, MmapCountExact, Mapped, dvars
  <1> QED
    BY <1>1, <1>5, <1>7, DmabufInvFrame

(* A mapping goes, with its count.                                         *)
LEMMA VmaCloseStep ==
    ASSUME BInv, NEW v \in Vmas, VmaClose(v)
    PROVE  BInv'
  <1> USE DEF BInv, MappingsSafe
  <1>0. PICK s \in Slots : vma[v] = s
    BY DEF VmaClose, TypeOK
  <1>1. v \in Mapped(s)
    BY <1>0 DEF Mapped
  <1>2. Mapped(s)' = Mapped(s) \ {v}
    BY <1>0, BuffersAssumption DEF VmaClose, Mapped, TypeOK, Slots
  <1>3. \A r \in Slots : r # s => Mapped(r)' = Mapped(r)
    BY <1>0, BuffersAssumption DEF VmaClose, Mapped, TypeOK, Slots
  <1>4. /\ Cardinality(Mapped(s)') = Cardinality(Mapped(s)) - 1
        /\ Cardinality(Mapped(s)) # 0
    BY <1>1, <1>2, FiniteFacts, FS_RemoveElement, NoneCounted
  <1>5. mmap_count[s] = Cardinality(Mapped(s))
    BY <1>1 DEF MmapCountExact, Mapped
  <1>6. mmap_count' = [mmap_count EXCEPT ![s] = @ - 1]
    BY <1>0 DEF VmaClose
  <1>7. MmapCountExact'
    <2> SUFFICES ASSUME NEW r \in Slots PROVE mmap_count'[r] = Cardinality(Mapped(r)')
      BY DEF MmapCountExact, Mapped
    <2>1. mmap_count[r] = Cardinality(Mapped(r))
      BY DEF MmapCountExact, Mapped
    <2>2. CASE r = s
      BY <2>1, <2>2, <1>4, <1>6 DEF TypeOK
    <2>3. CASE r # s
      BY <2>1, <2>3, <1>3, <1>6 DEF TypeOK
    <2> QED
      BY <2>2, <2>3
  <1>8. MappedMemoryIsLive'
    BY DEF VmaClose, MappedMemoryIsLive, TypeOK
  <1>9. TypeOK'
    BY <1>1, <1>4, <1>5, <1>6, FiniteFacts DEF VmaClose, TypeOK, dvars
  <1> QED
    BY <1>7, <1>8, <1>9, DmabufInvFrame DEF VmaClose

-----------------------------------------------------------------------------
\* Exports: the steps that leave the mappings alone

(* The conjuncts about mappings, for a step of EXPORT_DMABUF or of a       *)
(* dma-buf.                                                                *)
LEMMA DmabufStepFrame ==
    ASSUME MappingsSafe, UNCHANGED <<in_use, mmap_count, vma>>, TypeOK', DmabufInv'
    PROVE  BInv'
  BY MappingsFrame DEF BInv, MappingsSafe

(* An export records its dma-buf in a buffer that had none.                *)
LEMMA ExportStep ==
    ASSUME BInv, NEW i \in Ids, NEW d \in Dmabufs, Export(i, d)
    PROVE  BInv'
  <1> USE DEF BInv, MappingsSafe, DmabufInv
  <1>1. PICK s \in Slots :
          /\ in_use[s] /\ Exportable(s, d)
          /\ dmabuf_exported' = [dmabuf_exported EXCEPT ![s] = TRUE]
          /\ dmabuf' = [dmabuf EXCEPT ![s] = d]
          /\ dbuf' = [dbuf EXCEPT ![d] = s]
    BY FindFacts DEF Export
  <1>2. /\ dstate' = [dstate EXCEPT ![d] = "live"]
        /\ drefs' = [drefs EXCEPT ![d] = 1]
        /\ ctxfrees' = [ctxfrees EXCEPT ![d] = 0]
        /\ UNCHANGED <<in_use, id, alloc_type, mmap_count, next_buf_id, vma, import, sgt>>
    BY DEF Export
  <1>3. TypeOK'
    BY <1>1, <1>2, BuffersAssumption DEF TypeOK
  <1>4. Importing(d) = {}
    BY <1>1, NoneCounted, FiniteFacts DEF Exportable, RefsCoverImporters, DmabufLife, TypeOK
  <1>5. RefsCoverImporters'
    <2> SUFFICES ASSUME NEW e \in Dmabufs PROVE Cardinality(Importing(e)') <= drefs'[e]
      BY DEF RefsCoverImporters
    <2>1. Importing(e)' = Importing(e)
      BY <1>2 DEF Importing
    <2>2. CASE e = d
      <3>1. Importing(e)' = {}
        BY <2>1, <2>2, <1>4
      <3> QED
        BY <3>1, <2>2, <1>2, FS_EmptySet DEF TypeOK
    <2>3. CASE e # d
      BY <2>1, <2>3, <1>2 DEF RefsCoverImporters, TypeOK
    <2> QED
      BY <2>2, <2>3
  <1>6. DmabufLife'
    BY <1>1, <1>2 DEF DmabufLife, TypeOK
  <1>7. ImportersHold'
    BY <1>1, <1>2, <1>4 DEF ImportersHold, Importing, TypeOK
  <1>8. ContextFreedOnce' => ContextFreedOnce
    BY <1>1, <1>2 DEF ContextFreedOnce, Exportable, TypeOK
  <1>9. RecordExact'
    BY <1>1, <1>2, <1>8 DEF RecordExact, DmabufLife, Exportable, TypeOK
  <1>10. ExportHasDmabuf'
    BY <1>1, <1>2 DEF ExportHasDmabuf, Exportable, TypeOK
  <1> QED
    BY <1>2, <1>3, <1>5, <1>6, <1>7, <1>9, <1>10, DmabufStepFrame

(* After a failed dma_buf_fd the buffer has no record of the dma-buf.      *)
LEMMA ExportFdFailsStep ==
    ASSUME BInv, NEW i \in Ids, NEW d \in Dmabufs, ExportFdFails(i, d)
    PROVE  BInv'
  <1> USE DEF BInv, MappingsSafe, DmabufInv
  <1>1. PICK s \in Slots : Exportable(s, d) /\ dbuf' = [dbuf EXCEPT ![d] = s]
    BY FindFacts DEF ExportFdFails
  <1>2. /\ dstate' = [dstate EXCEPT ![d] = "releasing"]
        /\ ctxfrees' = [ctxfrees EXCEPT ![d] = 1]
        /\ UNCHANGED <<slotvars, next_buf_id, vma, drefs, import, sgt>>
    BY DEF ExportFdFails
  <1>3. TypeOK'
    BY <1>1, <1>2 DEF TypeOK, slotvars
  <1>4. RefsCoverImporters'
    BY <1>2 DEF RefsCoverImporters, Importing
  <1>5. DmabufLife'
    BY <1>1, <1>2 DEF DmabufLife, Exportable, TypeOK
  <1>6. ImportersHold'
    BY <1>1, <1>2 DEF ImportersHold, Exportable, TypeOK
  <1>7. ContextFreedOnce' => ContextFreedOnce
    BY <1>1, <1>2 DEF ContextFreedOnce, Exportable, TypeOK
  <1>8. RecordExact'
    BY <1>1, <1>2, <1>7 DEF RecordExact, DmabufLife, Exportable, TypeOK, slotvars
  <1>9. ExportHasDmabuf'
    BY <1>1, <1>2 DEF ExportHasDmabuf, Exportable, TypeOK, slotvars
  <1> QED
    BY <1>2, <1>3, <1>4, <1>5, <1>6, <1>8, <1>9, DmabufStepFrame DEF slotvars

(* One more reference, by a user.                                          *)
LEMMA GetStep ==
    ASSUME BInv, NEW d \in Dmabufs, DmabufGet(d)
    PROVE  BInv'
  <1> USE DEF BInv, MappingsSafe, DmabufInv
  <1>1. TypeOK'
    BY BuffersAssumption DEF DmabufGet, TypeOK, slotvars
  <1>2. RefsCoverImporters'
    <2> SUFFICES ASSUME NEW e \in Dmabufs PROVE Cardinality(Importing(e)') <= drefs'[e]
      BY DEF RefsCoverImporters
    <2>1. Importing(e)' = Importing(e)
      BY DEF DmabufGet, Importing
    <2> QED
      BY <2>1, FiniteFacts DEF DmabufGet, RefsCoverImporters, TypeOK
  <1>3. DmabufLife' /\ ImportersHold' /\ RecordExact' /\ ExportHasDmabuf'
    BY DEF DmabufGet, DmabufLife, ImportersHold, RecordExact, ExportHasDmabuf,
       ContextFreedOnce, TypeOK, slotvars
  <1> QED
    BY <1>1, <1>2, <1>3, DmabufStepFrame DEF DmabufGet, slotvars

(* An importer attaches, with a reference of its own.                      *)
LEMMA AttachStep ==
    ASSUME BInv, NEW m \in Importers, NEW d \in Dmabufs, Attach(m, d)
    PROVE  BInv'
  <1> USE DEF BInv, MappingsSafe, DmabufInv
  <1>1. TypeOK'
    BY BuffersAssumption DEF Attach, TypeOK, slotvars
  <1>2. Importing(d)' = Importing(d) \cup {m} /\ m \notin Importing(d)
    BY BuffersAssumption DEF Attach, Importing, TypeOK
  <1>3. Cardinality(Importing(d)') = Cardinality(Importing(d)) + 1
    BY <1>2, FiniteFacts, FS_AddElement
  <1>4. RefsCoverImporters'
    <2> SUFFICES ASSUME NEW e \in Dmabufs PROVE Cardinality(Importing(e)') <= drefs'[e]
      BY DEF RefsCoverImporters
    <2>1. CASE e = d
      BY <2>1, <1>3, FiniteFacts DEF Attach, RefsCoverImporters, TypeOK
    <2>2. CASE e # d
      <3>1. Importing(e)' = Importing(e)
        BY <2>2, BuffersAssumption DEF Attach, Importing, TypeOK
      <3> QED
        BY <3>1, <2>2 DEF Attach, RefsCoverImporters, TypeOK
    <2> QED
      BY <2>1, <2>2
  <1>5. ImportersHold'
    BY DEF Attach, ImportersHold, TypeOK
  <1>6. DmabufLife' /\ RecordExact' /\ ExportHasDmabuf'
    BY DEF Attach, DmabufLife, RecordExact, ExportHasDmabuf, ContextFreedOnce, TypeOK, slotvars
  <1> QED
    BY <1>1, <1>4, <1>5, <1>6, DmabufStepFrame DEF Attach, slotvars

(* SG tables are made from, and freed under, an attachment.                *)
LEMMA SgTableStep ==
    ASSUME BInv, NEW m \in Importers, MapDmabuf(m) \/ UnmapDmabuf(m)
    PROVE  BInv'
  <1> USE DEF BInv, MappingsSafe, DmabufInv
  <1>1. import[m] # None => import[m] \in Dmabufs
    BY DEF TypeOK
  <1>2. TypeOK'
    BY <1>1, BuffersAssumption DEF MapDmabuf, UnmapDmabuf, TypeOK, slotvars
  <1>3. ImportersHold'
    BY <1>1, BuffersAssumption DEF MapDmabuf, UnmapDmabuf, ImportersHold, TypeOK
  <1>4. RefsCoverImporters' /\ DmabufLife' /\ RecordExact' /\ ExportHasDmabuf'
    BY DEF MapDmabuf, UnmapDmabuf, RefsCoverImporters, Importing, DmabufLife, RecordExact,
       ExportHasDmabuf, ContextFreedOnce, slotvars
  <1> QED
    BY <1>2, <1>3, <1>4, DmabufStepFrame DEF MapDmabuf, UnmapDmabuf, slotvars

(* A reference goes that is not an importer's, or the importer with it:    *)
(* the last one leaves no importer behind.                                 *)
LEMMA DropStep ==
    ASSUME BInv, NEW d \in Dmabufs, dstate[d] = "live", Drop(d),
           import' \in [Importers -> Dmabufs \cup {None}],
           \A m \in Importers : import'[m] \in {import[m], None},
           \A m \in Importers : import'[m] = None => sgt[m] = None \/ import[m] = None,
           Cardinality(Importing(d)') < drefs[d],
           UNCHANGED sgt
    PROVE  BInv'
  <1> USE DEF BInv, MappingsSafe, DmabufInv
  <1>1. /\ drefs' = [drefs EXCEPT ![d] = @ - 1]
        /\ dstate' = [dstate EXCEPT ![d] = IF drefs[d] = 1 THEN "releasing" ELSE "live"]
        /\ UNCHANGED <<slotvars, next_buf_id, vma, dbuf, ctxfrees>>
    BY DEF Drop
  <1>2. drefs[d] \in 1..MaxRefs
    BY BuffersAssumption DEF DmabufLife, TypeOK
  <1>3. TypeOK'
    BY <1>1, <1>2, BuffersAssumption DEF TypeOK, slotvars
  <1>4. \A e \in Dmabufs : IsFiniteSet(Importing(e)') /\ Cardinality(Importing(e)') \in Nat
    <2> SUFFICES ASSUME NEW e \in Dmabufs
                 PROVE  IsFiniteSet(Importing(e)') /\ Cardinality(Importing(e)') \in Nat
      OBVIOUS
    <2>1. Importing(e)' \in SUBSET Importers
      BY DEF Importing
    <2> QED
      BY <2>1, FS_Subset, FS_CardinalityType, BuffersAssumption
  <1>5. RefsCoverImporters'
    <2> SUFFICES ASSUME NEW e \in Dmabufs PROVE Cardinality(Importing(e)') <= drefs'[e]
      BY DEF RefsCoverImporters
    <2>1. CASE e = d
      BY <2>1, <1>1, <1>2, <1>4 DEF TypeOK
    <2>2. CASE e # d
      <3>1. Importing(e)' \in SUBSET Importing(e)
        BY BuffersAssumption DEF Importing
      <3>2. Cardinality(Importing(e)') <= Cardinality(Importing(e))
        BY <3>1, FS_Subset, FiniteFacts
      <3> QED
        BY <3>2, <2>2, <1>1, <1>4, FiniteFacts DEF RefsCoverImporters, TypeOK
    <2> QED
      BY <2>1, <2>2
  <1>6. DmabufLife'
    BY <1>1, <1>2 DEF DmabufLife, TypeOK
  <1>7. drefs[d] = 1 => Importing(d)' = {}
    BY <1>4, FS_EmptySet
  <1>8. ImportersHold'
    <2> SUFFICES ASSUME NEW m \in Importers
                 PROVE  /\ import'[m] # None => dstate'[import'[m]] = "live"
                        /\ sgt'[m] # None => import'[m] # None /\ sgt'[m] = dbuf'[import'[m]]
      BY DEF ImportersHold
    <2>1. import'[m] # None => import'[m] = import[m] /\ import[m] \in Dmabufs
      BY DEF TypeOK
    <2>2. import'[m] = d => drefs[d] # 1
      BY <1>7 DEF Importing
    <2> QED
      BY <2>1, <2>2, <1>1 DEF ImportersHold, TypeOK
  <1>9. RecordExact' /\ ExportHasDmabuf'
    BY <1>1, <1>6 DEF RecordExact, ExportHasDmabuf, DmabufLife, ContextFreedOnce, TypeOK, slotvars
  <1> QED
    BY <1>1, <1>3, <1>5, <1>6, <1>8, <1>9, DmabufStepFrame DEF slotvars

(* Dropping a reference releases the dma-buf only at the last.             *)
LEMMA PutStep ==
    ASSUME BInv, NEW d \in Dmabufs, DmabufPut(d)
    PROVE  BInv'
  <1>1. Importing(d)' = Importing(d) /\ Cardinality(Importing(d)) < drefs[d]
    BY FiniteFacts DEF DmabufPut, Importing, BInv, MappingsSafe, TypeOK
  <1>2. import \in [Importers -> Dmabufs \cup {None}]
    BY DEF BInv, MappingsSafe, TypeOK
  <1>3. \A m \in Importers : import[m] = None => sgt[m] = None
    BY DEF BInv, DmabufInv, ImportersHold
  <1> QED
    BY <1>1, <1>2, <1>3, DropStep DEF DmabufPut

(* A detached importer no longer counts among the references.              *)
LEMMA DetachStep ==
    ASSUME BInv, NEW m \in Importers, Detach(m)
    PROVE  BInv'
  <1> USE DEF BInv, MappingsSafe, DmabufInv
  <1>1. PICK d \in Dmabufs : import[m] = d
    BY DEF Detach, TypeOK
  <1>2. dstate[d] = "live" /\ Drop(d) /\ UNCHANGED sgt
    BY <1>1 DEF Detach, ImportersHold
  <1>3. Importing(d)' = Importing(d) \ {m} /\ m \in Importing(d)
    BY <1>1, BuffersAssumption DEF Detach, Importing, TypeOK
  <1>4. Cardinality(Importing(d)') = Cardinality(Importing(d)) - 1
    BY <1>3, FiniteFacts, FS_RemoveElement
  <1>5. Cardinality(Importing(d)') < drefs[d]
    BY <1>4, FiniteFacts DEF RefsCoverImporters, TypeOK
  <1>6. import' = [import EXCEPT ![m] = None] /\ sgt[m] = None
    BY DEF Detach
  <1>7. /\ import' \in [Importers -> Dmabufs \cup {None}]
        /\ \A n \in Importers : import'[n] \in {import[n], None}
        /\ \A n \in Importers : import'[n] = None => sgt[n] = None \/ import[n] = None
    BY <1>6 DEF TypeOK
  <1> QED
    BY <1>2, <1>5, <1>7, DropStep

(* The release clears the record of its own dma-buf, unless its context    *)
(* had been freed before.                                                  *)
LEMMA ReleaseStep ==
    ASSUME BInv, NEW d \in Dmabufs, DmabufRelease(d)
    PROVE  BInv'
  <1> USE DEF BInv, MappingsSafe, DmabufInv
  <1>1. PICK s \in Slots : dbuf[d] = s
    BY DEF DmabufRelease, DmabufLife
  <1>2. /\ dstate[d] = "releasing"
        /\ dmabuf_exported' = [dmabuf_exported EXCEPT ![s] = FALSE]
        /\ dmabuf' = [dmabuf EXCEPT ![s] = None]
        /\ dstate' = [dstate EXCEPT ![d] = "none"]
        /\ ctxfrees' = [ctxfrees EXCEPT ![d] = @ + 1]
        /\ dbuf' = [dbuf EXCEPT ![d] = None]
        /\ UNCHANGED <<in_use, id, alloc_type, mmap_count, next_buf_id, vma, drefs, import, sgt>>
    BY <1>1 DEF DmabufRelease
  <1>3. ctxfrees[d] \in 0..1
    BY <1>2 DEF DmabufLife, TypeOK
  <1>4. TypeOK'
    BY <1>2, <1>3 DEF TypeOK
  <1>5. RefsCoverImporters'
    BY <1>2 DEF RefsCoverImporters, Importing
  <1>6. DmabufLife'
    BY <1>2 DEF DmabufLife, TypeOK
  <1>7. ImportersHold'
    BY <1>2 DEF ImportersHold, TypeOK
  <1>8. ContextFreedOnce' => ContextFreedOnce /\ ctxfrees[d] = 0
    BY <1>2, <1>3 DEF ContextFreedOnce, TypeOK
  <1>9. RecordExact'
    BY <1>1, <1>2, <1>8 DEF RecordExact, DmabufLife, TypeOK
  <1>10. ExportHasDmabuf'
    BY <1>1, <1>2 DEF ExportHasDmabuf, TypeOK
  <1> QED
    BY <1>2, <1>4, <1>5, <1>6, <1>7, <1>9, <1>10, DmabufStepFrame

-----------------------------------------------------------------------------
\* Theorems about the buffers

(* Every step of the users and of the callbacks keeps the invariant.       *)
LEMMA StepBInv == BInv /\ [Next]_vars => BInv'
  <1> SUFFICES ASSUME BInv, [Next]_vars PROVE BInv'
    OBVIOUS
  <1>1. ASSUME NEW k \in Kinds, CreateBuffer(k) \/ CreateFails(k) PROVE BInv'
    BY <1>1, AllocateStep DEF CreateBuffer, CreateFails
  <1>2. ASSUME NEW i \in Ids, DestroyBuffer(i) PROVE BInv'
    BY <1>2, DestroyStep
  <1>3. ASSUME NEW v \in Vmas, NEW i \in Ids, Mmap(v, i) PROVE BInv'
    <2>1. PICK s \in Slots :
            /\ in_use[s]
            /\ vma' = [vma EXCEPT ![v] = s]
            /\ mmap_count' = [mmap_count EXCEPT ![s] = @ + 1]
      BY <1>3, FindFacts DEF Mmap
    <2> QED
      BY <1>3, <2>1, MapStep DEF Mmap
  <1>4. ASSUME NEW v \in Vmas, NEW w \in Vmas, VmaOpen(v, w) PROVE BInv'
    <2>1. PICK s \in Slots : vma[v] = s
      BY <1>4 DEF VmaOpen, BInv, MappingsSafe, TypeOK
    <2>2. in_use[s]
      BY <1>4, <2>1 DEF VmaOpen, BInv, MappingsSafe, MappedMemoryIsLive
    <2> QED
      BY <1>4, <2>1, <2>2, MapStep DEF VmaOpen
  <1>5. ASSUME NEW v \in Vmas, VmaClose(v) PROVE BInv'
    BY <1>5, VmaCloseStep
  <1>6. ASSUME NEW i \in Ids, NEW d \in Dmabufs, Export(i, d) \/ ExportFdFails(i, d) PROVE BInv'
    BY <1>6, ExportStep, ExportFdFailsStep
  <1>7. ASSUME NEW d \in Dmabufs, DmabufGet(d) \/ DmabufPut(d) \/ DmabufRelease(d) PROVE BInv'
    BY <1>7, GetStep, PutStep, ReleaseStep
  <1>8. ASSUME NEW m \in Importers, NEW d \in Dmabufs, Attach(m, d) PROVE BInv'
    BY <1>8, AttachStep
  <1>9. ASSUME NEW m \in Importers, MapDmabuf(m) \/ UnmapDmabuf(m) \/ Detach(m) PROVE BInv'
    BY <1>9, SgTableStep, DetachStep
  <1>10. CASE UNCHANGED vars
    <2>1. TypeOK'
      BY <1>10 DEF vars, TypeOK, BInv, MappingsSafe
    <2> QED
      BY <1>10, <2>1, DmabufInvFrame, MappingsFrame DEF vars, dvars, BInv, MappingsSafe
  <1> QED
    BY <1>1, <1>2, <1>3, <1>4, <1>5, <1>6, <1>7, <1>8, <1>9, <1>10 DEF Next, DeviceCall, Callback

(* The invariant holds for the buffers of a driver that is never unloaded. *)
THEOREM BuffersInvariant == Spec => []BInv
  BY InitBInv, StepBInv, PTL DEF Spec

-----------------------------------------------------------------------------
\* The life of the module

(* The node stands on everything else; users, mappings and dma-bufs exist  *)
(* only while it does, and what exit finds is buffers that nothing refers  *)
(* to any more.                                                            *)
LifeInv ==
    /\ DeviceTypeOK
    /\ "node" \in held => /\ {"dev", "bus"} \subseteq held
                          /\ phase \in {"loading", "selftest", "undo", "live"}
    /\ phase \in {"selftest", "undo", "live"} => "node" \in held
    /\ phase \in {"freeing", "leaving"} => {"dev", "bus"} \subseteq held
    /\ phase = "absent" => held = {}
    /\ phase = "loading" => "dev" \in held
    /\ phase = "undo" => self_id # 0
    /\ Referenced => "node" \in held
    /\ \A v \in Vmas : vma[v] # None => opened
    /\ \A s \in Slots : in_use[s] => "node" \in held \/ phase = "freeing"

DInv == BInv /\ LifeInv

(* The order of dmaplane_init, spelled out.                                *)
LEMMA ObjectFacts ==
    /\ DOMAIN Objects = 1..8
    /\ Objects[1] = "dev" /\ Objects[2] = "pdev" /\ Objects[3] = "bus" /\ Objects[4] = "mask"
    /\ Objects[5] = "region" /\ Objects[6] = "cdev" /\ Objects[7] = "class" /\ Objects[8] = "node"
  BY DEF Objects

(* What a load that got as far as step k holds.                            *)
LEMMA LoadingFacts ==
    ASSUME NEW k \in DOMAIN Objects, Loading(k)
    PROVE  /\ held = {Objects[j] : j \in 1..k-1}
           /\ "node" \notin held
           /\ Objects[k] = "node" <=> k = 8
           /\ k = 8 => {"dev", "bus"} \subseteq held
  BY ObjectFacts DEF Loading

(* The labels undo exactly what the load has acquired, wherever it fails.  *)
LEMMA UndoneFacts ==
    ASSUME NEW k \in DOMAIN Objects, k > 1, Loading(k)
    PROVE  held \ Undone(Objects[k]) = {}
  <1>1. \A x \in held : \E j \in 1..k-1 : x = Objects[j]
    BY LoadingFacts
  <1>2. k \in 2..8
    BY ObjectFacts
  <1>3. \A j \in 1..k-1 : Objects[j] \in Undone(Objects[k])
    BY <1>2, ObjectFacts DEF Undone
  <1> QED
    BY <1>1, <1>3

(* A load begins with the device context.                                  *)
LEMMA DeviceInitDInv == DeviceInit => DInv
  <1> SUFFICES ASSUME DeviceInit PROVE DInv
    OBVIOUS
  <1>1. BInv
    BY InitBInv DEF DeviceInit
  <1>a. self_id \in 0..IdMod-1
    BY BuffersAssumption DEF DeviceInit
  <1>2. DeviceTypeOK
    BY <1>a DEF DeviceInit, DeviceTypeOK, Phases
  <1>3. LifeInv
    BY <1>2 DEF DeviceInit, LifeInv, Referenced, Init
  <1> QED
    BY <1>1, <1>3 DEF DInv

(* While the node stands, a step of the buffers keeps LifeInv.             *)
LEMMA LifeFrame ==
    ASSUME LifeInv, "node" \in held, UNCHANGED <<held, opened>>,
           self_id' \in 0..IdMod-1,
           phase' \in {phase, "selftest", "undo", "live"},
           phase' = "undo" => self_id' # 0,
           \A v \in Vmas : vma'[v] # None => opened
    PROVE  LifeInv'
  BY DEF LifeInv, DeviceTypeOK, Phases

(* dmaplane_init: nothing refers to the module until the node exists.      *)
LEMMA LoadStep ==
    ASSUME DInv, Load \/ (\E k \in DOMAIN Objects : Acquire(k) \/ LoadFails(k))
                      \/ (\E t \in BOOLEAN : Loaded(t))
    PROVE  DInv'
  <1> USE DEF DInv
  <1>1. UNCHANGED <<vars, opened, self_id>>
    BY DEF Load, Acquire, LoadFails, Loaded
  <1>2. BInv'
    BY <1>1, StepBInv
  <1>3. Referenced' = Referenced /\ UNCHANGED <<vma, in_use>>
    BY <1>1 DEF Referenced, vars
  <1>4. CASE Load
    BY <1>1, <1>2, <1>3, <1>4, ObjectFacts DEF Load, LifeInv, DeviceTypeOK, Phases
  <1>5. ASSUME NEW k \in DOMAIN Objects, Acquire(k) PROVE LifeInv'
    <2>1. Loading(k) /\ held' = held \cup {Objects[k]} /\ phase' = phase /\ phase = "loading"
      BY <1>5 DEF Acquire, Loading
    <2>2. "node" \in held' => k = 8
      BY <2>1, LoadingFacts
    <2> QED
      BY <1>1, <1>3, <2>1, <2>2, LoadingFacts DEF LifeInv, DeviceTypeOK, Phases
  <1>6. ASSUME NEW k \in DOMAIN Objects, LoadFails(k) PROVE LifeInv'
    <2>1. Loading(k) /\ held' = held \ Undone(Objects[k]) /\ phase' = "absent" /\ phase = "loading"
      BY <1>6 DEF LoadFails, Loading
    <2>2. k > 1
      BY <2>1, LoadingFacts, ObjectFacts DEF LifeInv
    <2>3. held' = {} /\ "node" \notin held
      BY <2>1, <2>2, UndoneFacts, LoadingFacts
    <2> QED
      BY <1>1, <1>3, <2>1, <2>3 DEF LifeInv, DeviceTypeOK, Phases
  <1>7. ASSUME NEW t \in BOOLEAN, Loaded(t) PROVE LifeInv'
    BY <1>1, <1>3, <1>7, LifeFrame DEF Loaded, LifeInv, DeviceTypeOK
  <1> QED
    BY <1>2, <1>4, <1>5, <1>6, <1>7

(* The self-test runs among the users, and maps nothing.                   *)
LEMMA SelfTestStep ==
    ASSUME DInv, SelfTestCreate \/ SelfTestExport \/ SelfTestExportFails \/ SelfTestUndo
    PROVE  DInv'
  <1> USE DEF DInv
  <1>1. "node" \in held /\ self_id \in 0..IdMod-1 /\ next_buf_id \in 0..IdMod-1
    BY DEF SelfTestCreate, SelfTestExport, SelfTestExportFails, SelfTestUndo, LifeInv,
       DeviceTypeOK, BInv, MappingsSafe, TypeOK, Ids
  <1>2. phase' \in {"selftest", "undo", "live"} /\ UNCHANGED <<held, opened>>
    BY DEF SelfTestCreate, SelfTestExport, SelfTestExportFails, SelfTestUndo
  <1>3. self_id' \in 0..IdMod-1
    BY <1>1, BuffersAssumption DEF SelfTestCreate, SelfTestExport, SelfTestExportFails, SelfTestUndo
  <1>a. phase' = "undo" => self_id' # 0
    BY DEF SelfTestCreate, SelfTestExport, SelfTestExportFails, SelfTestUndo
  <1>4. [Next]_vars /\ UNCHANGED vma
    <2>0. self_id # 0 => self_id \in Ids
      BY <1>1, BuffersAssumption DEF Ids
    <2>1. CASE SelfTestCreate
      BY <2>1 DEF SelfTestCreate, Next, DeviceCall, Kinds, CreateBuffer, CreateFails, Allocate, vars
    <2>2. CASE SelfTestExport
      <3>1. PICK d \in Dmabufs : Export(self_id, d)
        BY <2>2 DEF SelfTestExport
      <3>2. self_id \in Ids
        BY <2>0, <2>2 DEF SelfTestExport
      <3> QED
        BY <3>1, <3>2 DEF Next, DeviceCall, Export
    <2>3. CASE SelfTestExportFails
      <3>1. self_id \in Ids
        BY <2>0, <2>3 DEF SelfTestExportFails
      <3>2. CASE UNCHANGED vars
        BY <3>2 DEF vars
      <3>3. ASSUME NEW d \in Dmabufs, ExportFdFails(self_id, d) PROVE Next /\ UNCHANGED vma
        BY <3>1, <3>3 DEF Next, DeviceCall, ExportFdFails
      <3> QED
        BY <2>3, <3>2, <3>3 DEF SelfTestExportFails
    <2>4. CASE SelfTestUndo
      <3>1. CASE UNCHANGED vars
        BY <3>1 DEF vars
      <3>2. CASE DestroyBuffer(self_id)
        <4>1. self_id \in Ids
          BY <2>4, <2>0 DEF SelfTestUndo, LifeInv
        <4> QED
          BY <3>2, <4>1 DEF Next, DeviceCall, DestroyBuffer
      <3> QED
        BY <2>4, <3>1, <3>2 DEF SelfTestUndo
    <2> QED
      BY <2>1, <2>2, <2>3, <2>4
  <1>5. LifeInv'
    BY <1>1, <1>2, <1>3, <1>a, <1>4, LifeFrame DEF LifeInv
  <1> QED
    BY <1>4, <1>5, StepBInv

(* With nobody to refer to the module there are no mappings, importers or  *)
(* dma-bufs, and no buffer is busy.                                        *)
LEMMA QuietFacts ==
    ASSUME DInv, ~Referenced
    PROVE  /\ \A v \in Vmas : vma[v] = None
           /\ \A d \in Dmabufs : dstate[d] = "none"
           /\ \A m \in Importers : import[m] = None /\ sgt[m] = None
           /\ \A s \in Slots : mmap_count[s] = 0 /\ ~dmabuf_exported[s]
  <1> USE DEF DInv, BInv
  <1>1. \A v \in Vmas : vma[v] = None
    BY DEF Referenced, LifeInv
  <1>2. \A d \in Dmabufs : dstate[d] = "none"
    BY DEF Referenced
  <1>3. \A m \in Importers : import[m] = None /\ sgt[m] = None
    BY <1>2 DEF DmabufInv, ImportersHold, MappingsSafe, TypeOK
  <1>4. ASSUME NEW s \in Slots PROVE mmap_count[s] = 0
    <2>1. {v \in Vmas : vma[v] = s} = {}
      BY <1>1, BuffersAssumption DEF Slots
    <2> QED
      BY <2>1, FS_EmptySet DEF MappingsSafe, MmapCountExact
  <1>5. \A s \in Slots : ~dmabuf_exported[s]
    BY <1>2 DEF DmabufInv, ExportHasDmabuf
  <1> QED
    BY <1>1, <1>2, <1>3, <1>4, <1>5

(* Processes open and close the device; a mapping keeps its file open.     *)
LEMMA FileStep ==
    ASSUME DInv, Open \/ Close
    PROVE  DInv'
  <1> USE DEF DInv
  <1>1. UNCHANGED <<vars, phase, held, self_id>>
    BY DEF Open, Close
  <1>2. BInv'
    BY <1>1, StepBInv
  <1>3. UNCHANGED <<vma, in_use, dstate>> /\ opened' \in BOOLEAN
    BY <1>1 DEF vars, Open, Close
  <1>4. Referenced' => Referenced \/ "node" \in held
    BY <1>3 DEF Referenced, Open, Close
  <1>5. \A v \in Vmas : vma[v] # None => opened'
    BY DEF Open, Close
  <1>6. LifeInv'
    BY <1>1, <1>3, <1>4, <1>5 DEF LifeInv, DeviceTypeOK
  <1> QED
    BY <1>2, <1>6

(* ioctls and mmap come through an open file, callbacks from a mapping or  *)
(* a dma-buf: the node stands.                                             *)
LEMMA UserStep ==
    ASSUME DInv, (opened /\ DeviceCall) \/ Callback, UNCHANGED lifevars
    PROVE  DInv'
  <1> USE DEF DInv
  <1>1. BInv'
    BY StepBInv DEF Next
  <1>2. CASE opened /\ DeviceCall
    <2>1. "node" \in held
      BY <1>2 DEF LifeInv, Referenced
    <2> QED
      BY <1>1, <1>2, <2>1, LifeFrame DEF lifevars, LifeInv, DeviceTypeOK
  <1>3. CASE Callback
    <2>1. Referenced
      <3>1. SUFFICES ASSUME ~Referenced PROVE FALSE
        OBVIOUS
      <3> QED
        BY <1>3, <3>1, QuietFacts DEF Callback, VmaOpen, VmaClose, DmabufGet, DmabufPut,
           DmabufRelease, Attach, MapDmabuf, UnmapDmabuf, Detach
    <2>2. \A v \in Vmas : vma'[v] # None => opened
      <3>1. ASSUME NEW v \in Vmas, NEW w \in Vmas, VmaOpen(v, w)
            PROVE  \A x \in Vmas : vma'[x] # None => opened
        BY <3>1 DEF VmaOpen, LifeInv, BInv, MappingsSafe, TypeOK
      <3>2. ASSUME NEW v \in Vmas, VmaClose(v)
            PROVE  \A x \in Vmas : vma'[x] # None => opened
        BY <3>2 DEF VmaClose, LifeInv, BInv, MappingsSafe, TypeOK
      <3>3. ASSUME UNCHANGED vma PROVE \A x \in Vmas : vma'[x] # None => opened
        BY <3>3 DEF LifeInv
      <3> QED
        BY <1>3, <3>1, <3>2, <3>3 DEF Callback, DmabufGet, DmabufPut, DmabufRelease, Attach,
           MapDmabuf, UnmapDmabuf, Detach, Drop
    <2> QED
      BY <1>1, <2>1, <2>2, LifeFrame DEF lifevars, LifeInv, DeviceTypeOK
  <1> QED
    BY <1>2, <1>3

(* dmaplane_exit: the character device goes when nothing refers to the     *)
(* module, and then no buffer is busy.                                     *)
LEMMA ExitStep ==
    ASSUME DInv, ExitChardev \/ ExitBuffers \/ ExitEnd
    PROVE  DInv'
  <1> USE DEF DInv
  <1>1. ~Referenced /\ ~Referenced'
    BY DEF ExitChardev, ExitBuffers, ExitEnd, LifeInv, Referenced, vars, dvars
  <1>2. UNCHANGED <<vma, dvars, opened, self_id>>
    BY DEF ExitChardev, ExitBuffers, ExitEnd, vars, dvars
  <1>3. MmapCountExact' /\ mmap_count' \in [Slots -> 0..Cardinality(Vmas)]
    <2>1. \A s \in Slots : mmap_count'[s] = mmap_count[s]
      BY <1>1, QuietFacts DEF ExitChardev, ExitBuffers, ExitEnd, vars
    <2>2. mmap_count' \in [Slots -> 0..Cardinality(Vmas)]
      BY FiniteFacts DEF ExitChardev, ExitBuffers, ExitEnd, vars, BInv, MappingsSafe, TypeOK
    <2> QED
      BY <1>2, <2>1, <2>2 DEF BInv, MappingsSafe, MmapCountExact
  <1>4. TypeOK'
    <2>1. /\ id' \in [Slots -> 0..IdMod-1]
          /\ next_buf_id' \in Ids
      BY BuffersAssumption DEF ExitChardev, ExitBuffers, ExitEnd, vars, BInv, MappingsSafe, TypeOK, Ids
    <2>2. /\ in_use' \in [Slots -> BOOLEAN]
          /\ dmabuf_exported' \in [Slots -> BOOLEAN]
          /\ alloc_type' \in [Slots -> Kinds]
          /\ dmabuf' \in [Slots -> Dmabufs \cup {None}]
      BY DEF ExitChardev, ExitBuffers, ExitEnd, vars, BInv, MappingsSafe, TypeOK, Kinds, Busy
    <2> QED
      BY <1>2, <1>3, <2>1, <2>2 DEF BInv, MappingsSafe, TypeOK, dvars
  <1>5. MappedMemoryIsLive'
    BY <1>1, <1>2, QuietFacts DEF MappedMemoryIsLive
  <1>6. DmabufInv'
    <2>1. RefsCoverImporters' /\ DmabufLife' /\ ImportersHold'
      BY <1>2 DEF BInv, DmabufInv, RefsCoverImporters, Importing, DmabufLife, ImportersHold, dvars
    <2>2. RecordExact'
      BY <1>1, <1>2, QuietFacts DEF RecordExact, dvars
    <2>3. ExportHasDmabuf'
      BY <1>1, QuietFacts DEF ExportHasDmabuf, ExitChardev, ExitBuffers, ExitEnd, vars
    <2> QED
      BY <2>1, <2>2, <2>3 DEF DmabufInv
  <1>7. LifeInv'
    <2>1. CASE ExitChardev
      <3>1. "dev" \notin Chardev /\ "bus" \notin Chardev /\ "node" \in Chardev
        BY DEF Chardev
      <3> QED
        BY <1>1, <1>2, <2>1, <3>1, QuietFacts DEF ExitChardev, LifeInv, DeviceTypeOK, Phases
    <2>2. CASE ExitBuffers
      <3>1. \A s \in Slots : ~in_use'[s]
        <4>1. \A s \in Slots : mmap_count[s] = 0 /\ ~dmabuf_exported[s]
          BY <1>1, QuietFacts
        <4>2. \A s \in Slots : ~Busy(s)
          BY <4>1 DEF Busy
        <4>3. in_use' = [s \in Slots |-> in_use[s] /\ Busy(s)]
          BY <2>2 DEF ExitBuffers
        <4> QED
          BY <4>2, <4>3
      <3> QED
        BY <1>1, <1>2, <2>2, <3>1, QuietFacts DEF ExitBuffers, LifeInv, DeviceTypeOK, Phases
    <2>3. CASE ExitEnd
      BY <1>1, <1>2, <2>3, QuietFacts DEF ExitEnd, LifeInv, DeviceTypeOK, Phases
    <2> QED
      BY <2>1, <2>2, <2>3
  <1> QED
    BY <1>3, <1>4, <1>5, <1>6, <1>7 DEF BInv, MappingsSafe

(* Every step of the device keeps the invariant.                           *)
LEMMA StepDInv == DInv /\ [DeviceNext]_devicevars => DInv'
  <1> SUFFICES ASSUME DInv, [DeviceNext]_devicevars PROVE DInv'
    OBVIOUS
  <1>1. CASE UNCHANGED devicevars
    <2>1. UNCHANGED <<vars, lifevars>>
      BY <1>1 DEF devicevars
    <2>2. BInv'
      BY <2>1, StepBInv DEF DInv
    <2>3. UNCHANGED <<vma, dstate, in_use>>
      BY <2>1 DEF vars
    <2> QED
      BY <2>1, <2>2, <2>3 DEF DInv, LifeInv, DeviceTypeOK, Referenced, lifevars
  <1> QED
    BY <1>1, LoadStep, SelfTestStep, FileStep, UserStep, ExitStep DEF DeviceNext

-----------------------------------------------------------------------------
\* Theorems about the driver with its loads and unloads

(* Through every load, failed load, self-test, use and unload of the       *)
(* module the table, the mappings, the dma-bufs and what dmaplane_init     *)
(* registered agree.                                                       *)
THEOREM DeviceInvariant == DeviceSpec => []DInv
  BY DeviceInitDInv, StepDInv, PTL DEF DeviceSpec

(* mmap_count counts the user mappings exactly, and DESTROY_BUFFER, exit   *)
(* and the self-test free no mapped memory.                                *)
THEOREM MappedMemoryNotFreed == DeviceSpec => []MappingsSafe
  <1>1. DInv => MappingsSafe
    BY DEF DInv, BInv
  <1> QED
    BY <1>1, DeviceInvariant, PTL

(* A step in which dma_buf_fd fails, in the ioctl or in the self-test.     *)
FdFails == \E i : \E d \in Dmabufs : ExportFdFails(i, d)

(* What holds of the contexts as long as dma_buf_fd has not failed: none   *)
(* is freed before its release has run.                                    *)
Unfreed == \A d \in Dmabufs : ctxfrees[d] <= 1 /\ (dstate[d] = "releasing" => ctxfrees[d] = 0)

(* The dma-bufs start to live, end and are released in Export, in a put or *)
(* detach and in the release callback only, but for a failing dma_buf_fd.  *)
LEMMA DmabufSteps ==
    ASSUME DeviceNext, ~FdFails
    PROVE  \/ UNCHANGED <<dstate, ctxfrees>>
           \/ \E i : \E d \in Dmabufs : Export(i, d)
           \/ \E d \in Dmabufs : DmabufPut(d) \/ DmabufRelease(d)
           \/ \E m \in Importers : Detach(m)
  <1> USE DEF dvars, vars
  <1>1. CASE \/ Load \/ \E k \in DOMAIN Objects : Acquire(k) \/ LoadFails(k)
             \/ \E t \in BOOLEAN : Loaded(t)
    BY <1>1 DEF Load, Acquire, LoadFails, Loaded
  <1>2. CASE Open \/ Close \/ ExitChardev \/ ExitBuffers \/ ExitEnd
    BY <1>2 DEF Open, Close, ExitChardev, ExitBuffers, ExitEnd
  <1>3. CASE SelfTestCreate \/ SelfTestUndo
    BY <1>3 DEF SelfTestCreate, CreateBuffer, CreateFails, Allocate, SelfTestUndo, DestroyBuffer
  <1>4. CASE SelfTestExport \/ SelfTestExportFails
    BY <1>4 DEF SelfTestExport, SelfTestExportFails, FdFails
  <1>5. CASE DeviceCall
    BY <1>5 DEF DeviceCall, CreateBuffer, CreateFails, Allocate, DestroyBuffer, Mmap, FdFails
  <1>6. CASE Callback
    BY <1>6 DEF Callback, VmaOpen, VmaClose, DmabufGet, Attach, MapDmabuf, UnmapDmabuf
  <1> QED
    BY <1>1, <1>2, <1>3, <1>4, <1>5, <1>6 DEF DeviceNext

(* A dma-buf whose release is still to run keeps its context.              *)
LEMMA StepUnfreed == DInv /\ Unfreed /\ [DeviceNext /\ ~FdFails]_devicevars => Unfreed'
  <1> SUFFICES ASSUME DInv, Unfreed, [DeviceNext /\ ~FdFails]_devicevars PROVE Unfreed'
    OBVIOUS
  <1>1. /\ dstate \in [Dmabufs -> {"none", "live", "releasing"}]
        /\ ctxfrees \in [Dmabufs -> 0..2]
        /\ \A d \in Dmabufs : dstate[d] = "live" => ctxfrees[d] = 0
        /\ \A m \in Importers : import[m] # None => dstate[import[m]] = "live"
    BY DEF DInv, BInv, MappingsSafe, TypeOK, DmabufInv, DmabufLife, ImportersHold
  <1>2. CASE UNCHANGED <<dstate, ctxfrees>>
    BY <1>2 DEF Unfreed
  <1>3. ASSUME NEW i, NEW d \in Dmabufs, Export(i, d) PROVE Unfreed'
    BY <1>1, <1>3 DEF Unfreed, Export
  <1>4. ASSUME NEW d \in Dmabufs, DmabufRelease(d) PROVE Unfreed'
    BY <1>1, <1>4 DEF Unfreed, DmabufRelease
  <1>5. ASSUME NEW d \in Dmabufs, dstate[d] = "live", Drop(d) PROVE Unfreed'
    BY <1>1, <1>5 DEF Unfreed, Drop
  <1>6. ASSUME NEW d \in Dmabufs, DmabufPut(d) PROVE Unfreed'
    BY <1>5, <1>6 DEF DmabufPut
  <1>7. ASSUME NEW m \in Importers, Detach(m) PROVE Unfreed'
    BY <1>1, <1>5, <1>7 DEF Detach, DInv, BInv, MappingsSafe, TypeOK
  <1> QED
    BY <1>2, <1>3, <1>4, <1>6, <1>7, DmabufSteps DEF devicevars, vars

(* In every state in which no context has been freed twice, the memory     *)
(* behind a live dma-buf, or named by an importer's SG table, is not       *)
(* freed, however exports, puts and late releases interleave.              *)
LEMMA LiveUnlessFreedTwice == DInv => ExportedMemoryIsLive
  <1> SUFFICES ASSUME DInv, ContextFreedOnce PROVE
            /\ \A d \in Dmabufs : dstate[d] = "live" =>
                  in_use[dbuf[d]] /\ dmabuf_exported[dbuf[d]] /\ dmabuf[dbuf[d]] = d
            /\ \A m \in Importers : sgt[m] # None =>
                  dstate[import[m]] = "live" /\ sgt[m] = dbuf[import[m]]
    BY DEF ExportedMemoryIsLive
  <1> QED
    BY DEF DInv, BInv, DmabufInv, RecordExact, ImportersHold

(* As long as dma_buf_fd does not fail, every context is freed once, and   *)
(* the memory behind a live dma-buf, or named by an importer's SG table,   *)
(* is not freed, however exports, puts and late releases interleave.       *)
(* After a failed dma_buf_fd the code frees a context twice.               *)
THEOREM ExportedMemoryNotFreed ==
    DeviceSpec /\ [][~FdFails]_devicevars => [](ContextFreedOnce /\ ExportedMemoryIsLive)
  <1>1. DeviceInit => Unfreed
    BY DEF DeviceInit, Init, Unfreed
  <1>2. DInv /\ Unfreed /\ [DeviceNext]_devicevars /\ [~FdFails]_devicevars => Unfreed'
    BY StepUnfreed
  <1>3. DInv /\ Unfreed => ContextFreedOnce /\ ExportedMemoryIsLive
    BY LiveUnlessFreedTwice DEF Unfreed, ContextFreedOnce
  <1> QED
    BY <1>1, <1>2, <1>3, DeviceInvariant, PTL DEF DeviceSpec

(* Users find the device context, buffers the platform device they are     *)
(* freed through, and an unload or a failed load leaves nothing behind.    *)
THEOREM UnloadLeavesNothing == DeviceSpec => []NothingOutlivesItsBase
  <1>1. DInv => NothingOutlivesItsBase
    BY DEF DInv, LifeInv, NothingOutlivesItsBase, Referenced
  <1> QED
    BY <1>1, DeviceInvariant, PTL

=============================================================================
