----------------------------- MODULE RdmaProofs -----------------------------
(***************************************************************************)
(* Proofs about Rdma for every number of threads, buffers, regions and     *)
(* handles: readers keep the context, every region is counted out once,    *)
(* and an undo takes no other thread's region.                             *)
(***************************************************************************)
EXTENDS Rdma, FiniteSetTheorems, TLAPS

-----------------------------------------------------------------------------
\* The inductive invariant

(* The number of registrations is the number of handles given out, which   *)
(* bounds the statistics.                                                  *)
HandlesCounted == mrs_registered = next_mr_id - 1

(* Handles of regions in use, and those a thread is still to copy out,     *)
(* were given out before, and no two regions share one: a lookup finds at  *)
(* most one region.                                                        *)
HandlesUnique ==
    /\ \A m \in Used : mr_id[m] < next_mr_id
    /\ \A m, n \in Used : mr_id[m] = mr_id[n] => m = n

RInv == ContextSafe /\ HandlesCounted /\ HandlesUnique

(* The counters in terms of the regions in use.                            *)
LEMMA UsedFacts ==
    /\ IsFiniteSet(Mrs)
    /\ \A S \in SUBSET Mrs : IsFiniteSet(S) /\ Cardinality(S) \in Nat
    /\ Used \in SUBSET Mrs
    /\ IsFiniteSet(Used) /\ Cardinality(Used) \in Nat
  <1>1. IsFiniteSet(Mrs)
    BY FS_Interval, RdmaAssumption DEF Mrs
  <1>2. Used \in SUBSET Mrs
    BY DEF Used
  <1>3. \A S \in SUBSET Mrs : IsFiniteSet(S) /\ Cardinality(S) \in Nat
    BY <1>1, FS_Subset, FS_CardinalityType
  <1> QED
    BY <1>1, <1>2, <1>3

(* No context and no region exists at load.                                *)
LEMMA InitRInv == Init => RInv
  <1> SUFFICES ASSUME Init PROVE RInv
    OBVIOUS
  <1>1. Used = {}
    BY DEF Init, Used
  <1>2. TypeOK
    <2>1. 0 \in 0..MaxId /\ 1 \in 1..MaxId+1
      BY RdmaAssumption
    <2> QED
      BY <2>1 DEF Init, TypeOK
  <1>3. Readers = {}
    BY DEF Init, Readers
  <1>4. RegistrationsBalance
    BY <1>1, FS_EmptySet DEF Init, RegistrationsBalance
  <1> QED
    BY <1>1, <1>2, <1>3, <1>4 DEF Init, RInv, ContextSafe, ReadersKeepContext, HandlesCounted, HandlesUnique

-----------------------------------------------------------------------------
\* What the steps do to the regions

(* A step that leaves the regions in use, their handles and the counters   *)
(* alone.                                                                  *)
LEMMA RegionsFrame ==
    ASSUME RInv, UNCHANGED <<mr_used, mr_id, next_mr_id, mrs_registered, mrs_deregistered>>
    PROVE  RegistrationsBalance' /\ HandlesCounted' /\ HandlesUnique'
  <1>1. Used' = Used
    BY DEF Used
  <1> QED
    BY <1>1 DEF RInv, ContextSafe, RegistrationsBalance, HandlesCounted, HandlesUnique

(* A thread that moves where it is no reader, or that finds the context    *)
(* initialized, keeps ReadersKeepContext.                                  *)
LEMMA ReadersFrame ==
    ASSUME RInv, NEW t \in Threads, NEW to \in {"idle", "setup_copy", "reg", "reg_copy", "op_buf", "op"},
           Goto(t, to),
           initialized' = initialized \/ initialized' \/ Readers = {},
           to \in {"idle", "setup_copy", "reg_copy"} \/ (initialized /\ initialized')
    PROVE  ReadersKeepContext' /\ pc' \in [Threads -> {"idle", "setup_copy", "reg", "reg_copy", "op_buf", "op"}]
  BY DEF RInv, ContextSafe, TypeOK, Goto, ReadersKeepContext, Readers

(* SETUP_RDMA and its undo.                                                *)
LEMMA SetupStep ==
    ASSUME RInv, NEW t \in Threads, Setup(t) \/ SetupCopied(t) \/ SetupUndone(t)
    PROVE  RInv'
  <1>1. RegistrationsBalance' /\ HandlesCounted' /\ HandlesUnique'
    BY RegionsFrame DEF Setup, SetupCopied, SetupUndone, mrvars, counts
  <1>2. ReadersKeepContext' /\ pc' \in [Threads -> {"idle", "setup_copy", "reg", "reg_copy", "op_buf", "op"}]
    BY ReadersFrame DEF Setup, SetupCopied, SetupUndone
  <1>3. initialized' \in BOOLEAN /\ mr_ctx' \in [Mrs -> BOOLEAN]
    BY DEF Setup, SetupCopied, SetupUndone, RInv, ContextSafe, TypeOK, mrvars
  <1>4. TypeOK'
    BY <1>2, <1>3 DEF Setup, SetupCopied, SetupUndone, RInv, ContextSafe, TypeOK, mrvars, counts
  <1> QED
    BY <1>1, <1>2, <1>4 DEF RInv, ContextSafe

(* TEARDOWN_RDMA counts every region out at once.                          *)
LEMMA TeardownStep ==
    ASSUME RInv, Teardown
    PROVE  RInv'
  <1>1. Used' = {}
    BY DEF Teardown, Used
  <1>2. mrs_deregistered' = mrs_registered
    <2>1. mrs_registered - mrs_deregistered = Cardinality(Used)
      BY DEF RInv, ContextSafe, RegistrationsBalance
    <2>2. mrs_registered \in Int /\ mrs_deregistered \in Int
      BY RdmaAssumption DEF RInv, ContextSafe, TypeOK
    <2>3. mrs_deregistered' = mrs_deregistered + Cardinality(Used)
      BY DEF Teardown
    <2> QED
      BY <2>1, <2>2, <2>3, UsedFacts
  <1>3. TypeOK'
    BY <1>2 DEF Teardown, RInv, ContextSafe, TypeOK
  <1>4. Readers' = {}
    BY DEF Teardown, Readers
  <1>5. RegistrationsBalance'
    BY <1>1, <1>2, FS_EmptySet, RdmaAssumption DEF Teardown, RegistrationsBalance, RInv, ContextSafe, TypeOK
  <1>6. HandlesCounted' /\ HandlesUnique'
    BY <1>1 DEF Teardown, RInv, HandlesCounted, HandlesUnique
  <1> QED
    BY <1>3, <1>4, <1>5, <1>6 DEF RInv, ContextSafe, ReadersKeepContext

(* REGISTER_MR fills a free slot with a handle nobody has.                 *)
LEMMA FillStep ==
    ASSUME RInv, NEW t \in Threads, RegisterFill(t)
    PROVE  RInv'
  <1> USE DEF RInv, ContextSafe
  <1>1. PICK m \in Mrs \ Used :
          /\ mr_used' = [mr_used EXCEPT ![m] = TRUE]
          /\ mr_id' = [mr_id EXCEPT ![m] = next_mr_id]
          /\ mr_buf' = [mr_buf EXCEPT ![m] = snap[t]]
          /\ mr_mem' = [mr_mem EXCEPT ![m] = snap[t] # Gone]
          /\ mr_ctx' = [mr_ctx EXCEPT ![m] = TRUE]
    BY DEF RegisterFill
  <1>2. Used' = Used \cup {m}
    BY <1>1 DEF Used, TypeOK
  <1>3. Cardinality(Used') = Cardinality(Used) + 1
    BY <1>1, <1>2, UsedFacts, FS_AddElement
  <1>4. next_mr_id \in 1..MaxId /\ next_mr_id' = next_mr_id + 1
        /\ mrs_registered' = mrs_registered + 1 /\ mrs_deregistered' = mrs_deregistered
    BY RdmaAssumption DEF RegisterFill, TypeOK
  <1>5. ReadersKeepContext' /\ pc' \in [Threads -> {"idle", "setup_copy", "reg", "reg_copy", "op_buf", "op"}]
    BY ReadersFrame DEF RegisterFill
  <1>6. mrs_registered' \in 0..MaxId /\ next_mr_id' \in 1..MaxId+1 /\ HandlesCounted'
    BY <1>4, RdmaAssumption DEF HandlesCounted, TypeOK
  <1>7. TypeOK'
    <2>1. mr_used' \in [Mrs -> BOOLEAN] /\ mr_ctx' \in [Mrs -> BOOLEAN] /\ mr_mem' \in [Mrs -> BOOLEAN]
      BY <1>1 DEF TypeOK
    <2>2. mr_id' \in [Mrs -> 0..MaxId] /\ handle' \in [Threads -> 0..MaxId]
      BY <1>1, <1>4, RdmaAssumption DEF RegisterFill, TypeOK
    <2>3. mr_buf' \in [Mrs -> Bufs \cup {None, Gone}] /\ snap' \in [Threads -> Bufs \cup {None, Gone}]
      BY <1>1 DEF RegisterFill, TypeOK
    <2> QED
      BY <1>4, <1>5, <1>6, <2>1, <2>2, <2>3 DEF RegisterFill, TypeOK
  <1>8. RegistrationsBalance'
    BY <1>3, <1>4, UsedFacts DEF RegistrationsBalance, TypeOK
  <1>9. HandlesUnique'
    <2>1. \A n \in Used' : mr_id'[n] = IF n = m THEN next_mr_id ELSE mr_id[n]
      BY <1>1, <1>2, UsedFacts DEF TypeOK
    <2>2. \A n \in Used : n # m /\ mr_id[n] \in Nat /\ mr_id[n] < next_mr_id
      BY <1>1, UsedFacts, RdmaAssumption DEF HandlesUnique, TypeOK
    <2>3. next_mr_id \in Nat
      BY <1>4
    <2> QED
      BY <1>2, <1>4, <2>1, <2>2, <2>3 DEF HandlesUnique
  <1> QED
    BY <1>5, <1>6, <1>7, <1>8, <1>9

(* Deregistering one region counts it out.                                 *)
LEMMA RemoveStep ==
    ASSUME RInv, NEW m \in Used, Remove(m)
    PROVE  /\ RegistrationsBalance' /\ HandlesCounted' /\ HandlesUnique'
           /\ mr_used' \in [Mrs -> BOOLEAN] /\ mrs_deregistered' \in 0..MaxId
  <1> USE DEF RInv, ContextSafe
  <1>1. Used' = Used \ {m}
    BY UsedFacts DEF Remove, Used, TypeOK
  <1>2. Cardinality(Used') = Cardinality(Used) - 1
    BY <1>1, UsedFacts, FS_RemoveElement
  <1>3. Cardinality(Used) > 0
    BY UsedFacts, FS_EmptySet
  <1>4. mrs_deregistered' = mrs_deregistered + 1 /\ mrs_registered' = mrs_registered
        /\ next_mr_id' = next_mr_id /\ mr_id' = mr_id
    BY DEF Remove
  <1>5. mrs_deregistered' \in 0..MaxId
    BY <1>3, <1>4, UsedFacts, RdmaAssumption DEF RegistrationsBalance, TypeOK
  <1>6. RegistrationsBalance'
    BY <1>2, <1>4, UsedFacts DEF RegistrationsBalance, TypeOK
  <1> QED
    BY <1>1, <1>4, <1>5, <1>6 DEF Remove, HandlesCounted, HandlesUnique, TypeOK

(* DEREGISTER_MR, and the undo of a registration.                          *)
LEMMA DeregisterStep ==
    ASSUME RInv, NEW t \in Threads,
           RegisterUndone(t) \/ (\E i \in 1..MaxId : Deregister(t, i))
    PROVE  RInv'
  <1> USE DEF RInv, ContextSafe
  <1>1. ReadersKeepContext' /\ pc' \in [Threads -> {"idle", "setup_copy", "reg", "reg_copy", "op_buf", "op"}]
    <2>1. initialized' = initialized
      BY DEF RegisterUndone, Deregister, Remove
    <2>2. CASE RegisterUndone(t)
      BY <2>1, <2>2, ReadersFrame DEF RegisterUndone
    <2>3. CASE \E i \in 1..MaxId : Deregister(t, i)
      BY <2>1, <2>3 DEF Deregister, ReadersKeepContext, Readers, TypeOK
    <2> QED
      BY <2>2, <2>3
  <1>2. handle' = handle
    BY DEF RegisterUndone, Deregister
  <1>3. ASSUME NEW m \in Used, Remove(m) PROVE RInv'
    BY <1>1, <1>2, <1>3, RemoveStep DEF Remove, TypeOK
  <1>4. ASSUME UNCHANGED <<initialized, live, mrvars, next_mr_id, counts, snap>> PROVE RInv'
    <2>1. TypeOK'
      BY <1>1, <1>2, <1>4 DEF TypeOK, mrvars, counts
    <2> QED
      BY <1>1, <1>4, <2>1, RegionsFrame DEF mrvars, counts
  <1> QED
    BY <1>3, <1>4 DEF RegisterUndone, Deregister, FindMr

(* Sections of REGISTER_MR and of a transfer that leave the regions alone. *)
LEMMA ThreadStep ==
    ASSUME RInv, NEW t \in Threads,
           \/ RegisterFails(t) \/ RegisterCopied(t)
           \/ OpSnapshotBuffer(t) \/ OpRejected(t) \/ OpEnd(t)
           \/ \E b \in Bufs : RegisterSnapshot(t, b)
           \/ \E i \in 1..MaxId : OpSnapshotMr(t, i)
    PROVE  RInv'
  <1> USE DEF RInv, ContextSafe
  <1>1. UNCHANGED <<initialized, live, mrvars, next_mr_id, counts>>
    BY DEF RegisterFails, RegisterCopied, OpSnapshotBuffer, OpRejected, OpEnd, RegisterSnapshot, OpSnapshotMr
  <1>2. RegistrationsBalance' /\ HandlesCounted' /\ HandlesUnique'
    BY <1>1, RegionsFrame DEF mrvars, counts
  <1>3. ReadersKeepContext' /\ pc' \in [Threads -> {"idle", "setup_copy", "reg", "reg_copy", "op_buf", "op"}]
    <2>1. pc[t] = "op_buf" => initialized
      BY DEF ReadersKeepContext, Readers
    <2> QED
      BY <1>1, <2>1, ReadersFrame DEF RegisterFails, RegisterCopied, OpSnapshotBuffer, OpRejected,
         OpEnd, RegisterSnapshot, OpSnapshotMr
  <1>4. handle' \in [Threads -> 0..MaxId]
    BY RdmaAssumption DEF TypeOK, RegisterFails, RegisterCopied, OpSnapshotBuffer, OpRejected, OpEnd,
       RegisterSnapshot, OpSnapshotMr
  <1>5. snap' \in [Threads -> Bufs \cup {None, Gone}]
    BY UsedFacts DEF TypeOK, RegisterFails, RegisterCopied, OpSnapshotBuffer, OpRejected, OpEnd,
       RegisterSnapshot, OpSnapshotMr, FindMr
  <1>6. TypeOK'
    BY <1>1, <1>3, <1>4, <1>5 DEF TypeOK, mrvars, counts
  <1> QED
    BY <1>2, <1>3, <1>6

(* DESTROY_BUFFER looks at neither regions nor snapshots.                  *)
LEMMA BufferStep ==
    ASSUME RInv, NEW b \in Bufs, CreateBuffer(b) \/ DestroyBuffer(b)
    PROVE  RInv'
  <1> USE DEF RInv, ContextSafe
  <1>1. RegistrationsBalance' /\ HandlesCounted' /\ HandlesUnique'
    BY RegionsFrame DEF CreateBuffer, DestroyBuffer, mrvars, counts
  <1>2. ReadersKeepContext'
    BY DEF CreateBuffer, DestroyBuffer, ReadersKeepContext, Readers
  <1>3. mr_mem' \in [Mrs -> BOOLEAN]
    BY DEF CreateBuffer, DestroyBuffer, TypeOK, mrvars
  <1>4. TypeOK'
    BY <1>3 DEF CreateBuffer, DestroyBuffer, TypeOK, mrvars, counts
  <1> QED
    BY <1>1, <1>2, <1>4

(* Every step keeps the invariant.                                         *)
LEMMA StepRInv == RInv /\ [Next]_vars => RInv'
  <1> SUFFICES ASSUME RInv, [Next]_vars PROVE RInv'
    OBVIOUS
  <1>1. CASE UNCHANGED vars
    BY <1>1, RegionsFrame DEF vars, RInv, ContextSafe, TypeOK, ReadersKeepContext, Readers
  <1> QED
    BY <1>1, SetupStep, TeardownStep, FillStep, DeregisterStep, ThreadStep, BufferStep DEF Next

-----------------------------------------------------------------------------
\* Theorems

(* The context, the regions, their handles and the statistics agree under  *)
(* every interleaving of the sections that rdma_sem, buf_lock and mr_lock  *)
(* leave.                                                                  *)
THEOREM RdmaInvariant == Spec => []RInv
  BY InitRInv, StepRInv, PTL DEF Spec

(* Neither a teardown nor the undo of a setup destroys the context under a *)
(* registration or a transfer, and every region is deregistered at most    *)
(* once.                                                                   *)
THEOREM ContextIsSafe == Spec => []ContextSafe
  <1>1. RInv => ContextSafe
    BY DEF RInv
  <1> QED
    BY <1>1, RdmaInvariant, PTL

(* A REGISTER_MR that cannot copy its handle out takes back its own region *)
(* and no other, whatever was registered, deregistered or torn down since. *)
THEOREM UndoTakesOnlyItsRegion == Spec => UndoTakesOwnRegion
  <1>1. ASSUME RInv, [Next]_vars
        PROVE  [\A t \in Threads : pc[t] = "reg_copy" /\ pc'[t] = "idle" =>
                  \A m \in Used : mr_id[m] # handle[t] => mr_used'[m]]_vars
    <2>1. SUFFICES ASSUME Next, NEW t \in Threads, pc[t] = "reg_copy", pc'[t] = "idle",
                          NEW m \in Used, mr_id[m] # handle[t]
                   PROVE  mr_used'[m]
      BY <1>1
    <2>2. m \in Mrs /\ mr_used[m] /\ mr_used \in [Mrs -> BOOLEAN]
      BY <1>1 DEF Used, RInv, ContextSafe, TypeOK
    <2>3. PICK u \in Threads : RegisterCopied(u) \/ RegisterUndone(u)
      BY <1>1, <2>1 DEF Next, RInv, ContextSafe, TypeOK, Goto, Setup, SetupCopied, SetupUndone,
         RegisterFill, RegisterFails, OpSnapshotBuffer, OpRejected, OpEnd, RegisterSnapshot,
         Deregister, OpSnapshotMr, Teardown, CreateBuffer, DestroyBuffer
    <2>4. CASE RegisterCopied(u)
      BY <2>2, <2>4 DEF RegisterCopied, mrvars
    <2>5. CASE RegisterUndone(u)
      <3>1. u = t
        BY <1>1, <2>1, <2>5 DEF RegisterUndone, Goto, RInv, ContextSafe, TypeOK
      <3>2. ASSUME NEW n \in FindMr(handle[u]), Remove(n) PROVE mr_used'[m]
        BY <2>1, <2>2, <3>1, <3>2 DEF FindMr, Remove
      <3> QED
        BY <2>2, <2>5, <3>2 DEF RegisterUndone, mrvars
    <2> QED
      BY <2>3, <2>4, <2>5
  <1> QED
    BY <1>1, RdmaInvariant, PTL DEF Spec, UndoTakesOwnRegion

(* No region in use loses its context but by the undo of a SETUP_RDMA.     *)
THEOREM TeardownOrphansNothing == Spec => OrphansOnlyByUndo
  <1>1. ASSUME RInv, [Next]_vars
        PROVE  [(\E m \in Used : mr_ctx[m] /\ mr_used'[m] /\ ~mr_ctx'[m]) =>
                  \E t \in Threads : pc[t] = "setup_copy" /\ pc'[t] = "idle"]_vars
    <2>1. SUFFICES ASSUME Next, NEW m \in Used, mr_ctx[m], mr_used'[m], ~mr_ctx'[m]
                   PROVE  \E t \in Threads : pc[t] = "setup_copy" /\ pc'[t] = "idle"
      BY <1>1
    <2>2. m \in Mrs /\ mr_ctx \in [Mrs -> BOOLEAN] /\ pc \in [Threads -> {"idle", "setup_copy", "reg", "reg_copy", "op_buf", "op"}]
      BY <1>1 DEF Used, RInv, ContextSafe, TypeOK
    <2>3. mr_ctx' # mr_ctx
      BY <2>1
    <2>4. PICK t \in Threads : SetupUndone(t) \/ RegisterFill(t)
      <3>1. ~Teardown
        BY <2>1, <2>2 DEF Teardown
      <3> QED
        BY <2>1, <2>3, <3>1 DEF Next, Setup, SetupCopied, RegisterFails, RegisterCopied, RegisterUndone,
           Remove, OpSnapshotBuffer, OpRejected, OpEnd, RegisterSnapshot, Deregister, OpSnapshotMr,
           CreateBuffer, DestroyBuffer, mrvars
    <2>5. ~RegisterFill(t)
      BY <2>1, <2>2 DEF RegisterFill
    <2> QED
      BY <2>2, <2>4, <2>5 DEF SetupUndone, Goto
  <1> QED
    BY <1>1, RdmaInvariant, PTL DEF Spec, OrphansOnlyByUndo
=============================================================================
