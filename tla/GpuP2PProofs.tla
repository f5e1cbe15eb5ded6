---------------------------- MODULE GpuP2PProofs ----------------------------
(***************************************************************************)
(* Proofs about GpuP2P for every number of threads, buffer slots, regions  *)
(* and pins: a revocation callback always finds the buffer its pin was     *)
(* made for, the flag it sets tells the truth, an unpin releases what the  *)
(* revocation left, and module exit leaves NVIDIA no pin to call back for. *)
(* The walk over the pages of a pin moves every byte of the transfer once, *)
(* at its own place and inside a page, whatever the sizes.                 *)
(***************************************************************************)
EXTENDS GpuP2P, FiniteSetTheorems, WellFoundedInduction, TLAPS

-----------------------------------------------------------------------------
\* The inductive invariant

Pcs == {"idle", "getting", "mapping", "pinned", "undo", "releasing", "putting", "counting",
        "found", "copying", "registering", "sending", "exit", "gone"}

Calls == [slot : Slots \cup {None}, pin : Pins \cup {None}, left : Nat, was : BOOLEAN]

(* The types of TypeOK, the statistics apart.                              *)
Types ==
    /\ loaded \in BOOLEAN
    /\ in_use \in [Slots -> BOOLEAN]
    /\ page_table \in [Slots -> Pins \cup {None}]
    /\ bar_pages \in [Slots -> Pins \cup {None}]
    /\ rdma_vaddr \in [Slots -> Pins \cup {None}]
    /\ gpu_revoked \in [Slots -> BOOLEAN]
    /\ gpu_buf_lock \in Threads \cup {None}
    /\ mrs \in [Mrs -> Pins \cup {None, 0}]
    /\ nv \in [Pins -> {"unborn", "pinned", "revoked", "released"}]
    /\ data \in [Pins -> Slots \cup {None}]
    /\ nvlock \in Pins \cup {None}
    /\ cb \in {"none", "set", "complete"}
    /\ pc \in [Threads -> Pcs]
    /\ call \in [Threads -> Calls]

(* The copies a call still has to make.                                    *)
LeftInv ==
    \A t \in Threads : call[t].left \in (IF pc[t] \in {"found", "copying"}
                                         THEN 1..2 * MaxIterations ELSE {0})

(* gpu_buf_lock is held from the claim of a slot to its mapping and from   *)
(* the start of an unpin to the end of put_pages, by one thread.           *)
Locked == {"getting", "mapping", "releasing", "putting"}

LockInv == \A t \in Threads : pc[t] \in Locked <=> gpu_buf_lock = t

(* A pin whose callback may still write gpu_revoked.                       *)
MayCall(p) == nv[p] = "pinned" \/ (nvlock = p /\ cb = "set")

(* The slot of a buffer in use, or of the pin being mapped.                *)
Mapping(s) == \E t \in Threads : pc[t] = "mapping" /\ call[t].slot = s
Described(s) == in_use[s] \/ Mapping(s)

(* Slot and pin name each other, and the flag follows the pin's state from *)
(* the moment the callback has set it.                                     *)
SlotInv ==
    \A s \in Slots : Described(s) =>
        /\ page_table[s] \in Pins
        /\ data[page_table[s]] = s
        /\ nv[page_table[s]] \in {"pinned", "revoked"}
        /\ gpu_revoked[s] <=> ~MayCall(page_table[s])

(* NVIDIA can only call back for a pin that a slot describes.              *)
OwnerInv ==
    \A p \in Pins : MayCall(p) =>
        data[p] \in Slots /\ page_table[data[p]] = p /\ Described(data[p])

(* A callback runs for a pin that has been revoked.                        *)
NvInv ==
    /\ nvlock = None <=> cb = "none"
    /\ nvlock # None => nv[nvlock] \in {"revoked", "released"}
    /\ cb = "set" => nv[nvlock] = "revoked"

(* What the calls under way know of their slot and pin.                    *)
CallInv ==
    \A t \in Threads :
        /\ pc[t] = "getting" => /\ call[t].slot \in Slots
                                /\ ~in_use[call[t].slot] /\ ~gpu_revoked[call[t].slot]
        /\ pc[t] = "mapping" => /\ call[t].slot \in Slots /\ call[t].pin \in Pins
                                /\ ~in_use[call[t].slot]
                                /\ page_table[call[t].slot] = call[t].pin
        /\ pc[t] \in {"releasing", "putting"} =>
              /\ call[t].slot \in Slots /\ call[t].pin \in Pins
              /\ in_use[call[t].slot]
              /\ page_table[call[t].slot] = call[t].pin
        /\ pc[t] = "releasing" /\ call[t].was => gpu_revoked[call[t].slot]
        /\ pc[t] = "putting" => ~call[t].was
        /\ pc[t] \in {"pinned", "undo", "counting"} => call[t].pin \in Pins
        /\ pc[t] \in {"found", "copying", "registering"} => call[t].slot \in Slots

(* Module exit runs alone.                                                 *)
ExitPcs == {"idle", "exit", "gone", "releasing", "putting", "counting"}
ExitInv ==
    IF loaded THEN \A t \in Threads : pc[t] \notin {"exit", "gone"}
    ELSE /\ \A t \in Threads : pc[t] \in ExitPcs
         /\ \A t, u \in Threads : pc[t] # "idle" /\ pc[u] # "idle" => t = u

(* The statistics, and the pins they can ever count.                       *)
At(l) == {t \in Threads : pc[t] = l}
InUse == {s \in Slots : in_use[s]}
Born == {p \in Pins : nv[p] # "unborn"}
StatInv ==
    /\ pins_total \in Nat /\ unpins_total \in Nat /\ callbacks_fired \in Nat
    /\ callbacks_fired <= unpins_total
    /\ pins_total + Cardinality(At("pinned"))
          = unpins_total + Cardinality(At("counting")) + Cardinality(InUse)
    /\ pins_total + Cardinality(At("pinned")) + Cardinality(At("mapping"))
          <= Cardinality(Born)

(* The callback's path is what makes the invariant: PinsSafe speaks of     *)
(* pinned memory only, but a callback that has begun still writes the flag *)
(* of its slot, so slots, pins and lock holders are related until it has.  *)
GInv == /\ Types /\ LeftInv /\ LockInv /\ SlotInv /\ OwnerInv /\ NvInv
        /\ CallInv /\ ExitInv /\ ExitLeavesNoPin /\ UnpinnedIsReleased /\ StatInv

-----------------------------------------------------------------------------
\* Lemmas

(* The constants, as the proofs use them.                                  *)
LEMMA Constants ==
    /\ IsFiniteSet(Threads) /\ IsFiniteSet(Slots) /\ IsFiniteSet(Pins)
    /\ Cardinality(Pins) = MaxPins
    /\ None \notin Threads /\ None \notin Slots /\ None \notin Pins
    /\ MaxPins \in Nat /\ MaxIterations \in Nat \ {0}
    /\ NoCall \in Calls
  <1>1. IsFiniteSet(Slots) /\ IsFiniteSet(Pins)
    BY GpuAssumption, FS_Interval DEF Slots, Pins
  <1>2. Cardinality(Pins) = MaxPins
    BY GpuAssumption, FS_Interval DEF Pins
  <1>3. None \notin Slots /\ None \notin Pins
    BY GpuAssumption DEF Slots, Pins
  <1>4. NoCall \in Calls
    BY DEF NoCall, Calls
  <1> QED
    BY <1>1, <1>2, <1>3, <1>4, GpuAssumption

(* What is counted is finite.                                              *)
LEMMA CountsFinite ==
    /\ \A l \in Pcs : IsFiniteSet(At(l)) /\ Cardinality(At(l)) \in Nat
    /\ IsFiniteSet(InUse) /\ Cardinality(InUse) \in Nat
    /\ IsFiniteSet(Born) /\ Cardinality(Born) \in Nat /\ Cardinality(Born) <= MaxPins
  <1>1. ASSUME NEW l \in Pcs
        PROVE  IsFiniteSet(At(l)) /\ Cardinality(At(l)) \in Nat
    <2>1. At(l) \subseteq Threads
      BY DEF At
    <2> QED
      BY <2>1, Constants, FS_Subset, FS_CardinalityType
  <1>2. IsFiniteSet(InUse) /\ Cardinality(InUse) \in Nat
    <2>1. InUse \subseteq Slots
      BY DEF InUse
    <2> QED
      BY <2>1, Constants, FS_Subset, FS_CardinalityType
  <1>3. /\ IsFiniteSet(Born) /\ Cardinality(Born) \in Nat
        /\ Cardinality(Born) <= MaxPins
    <2>1. Born \subseteq Pins
      BY DEF Born
    <2>2. Cardinality(Born) <= Cardinality(Pins) /\ IsFiniteSet(Born)
      BY <2>1, Constants, FS_Subset
    <2> QED
      BY <2>2, Constants, FS_CardinalityType
  <1> QED
    BY <1>1, <1>2, <1>3

(* A thread that moves leaves one place and enters another.                *)
LEMMA AtMove ==
    ASSUME Types, NEW t \in Threads, NEW l \in Pcs, pc[t] # l,
           pc' = [pc EXCEPT ![t] = l], NEW m \in Pcs
    PROVE  Cardinality(At(m))' = IF m = l THEN Cardinality(At(m)) + 1
                                 ELSE IF m = pc[t] THEN Cardinality(At(m)) - 1
                                 ELSE Cardinality(At(m))
  <1>1. IsFiniteSet(At(m))
    BY CountsFinite
  <1>2. CASE m = l
    <2>1. At(m)' = At(m) \cup {t} /\ t \notin At(m)
      BY <1>2 DEF At, Types
    <2> QED
      BY <1>1, <1>2, <2>1, FS_AddElement
  <1>3. CASE m # l /\ m = pc[t]
    <2>1. At(m)' = At(m) \ {t} /\ t \in At(m)
      BY <1>3 DEF At, Types
    <2> QED
      BY <1>1, <1>3, <2>1, FS_RemoveElement
  <1>4. CASE m # l /\ m # pc[t]
    <2>1. At(m)' = At(m)
      BY <1>4 DEF At, Types
    <2> QED
      BY <1>4, <2>1
  <1> QED
    BY <1>2, <1>3, <1>4

(* The invariant is about the state only: a step that changes nothing      *)
(* keeps it.                                                               *)
LEMMA StutterGInv == GInv /\ UNCHANGED vars => GInv'
  <1> SUFFICES ASSUME GInv, UNCHANGED vars PROVE GInv'
    OBVIOUS
  <1>1. Types' /\ LeftInv' /\ LockInv' /\ NvInv' /\ CallInv' /\ ExitInv'
    BY DEF GInv, vars, slotvars, stats, nvvars, Types, LeftInv, LockInv, NvInv, CallInv, ExitInv
  <1>2. SlotInv' /\ OwnerInv'
    BY DEF GInv, vars, slotvars, nvvars, SlotInv, OwnerInv, MayCall, Described, Mapping
  <1>3. ExitLeavesNoPin' /\ UnpinnedIsReleased'
    BY DEF GInv, vars, nvvars, ExitLeavesNoPin, UnpinnedIsReleased
  <1>4. StatInv'
    BY DEF GInv, vars, slotvars, stats, nvvars, StatInv, At, InUse, Born
  <1> QED
    BY <1>1, <1>2, <1>3, <1>4 DEF GInv

(* The initial state satisfies the inductive invariant.                    *)
LEMMA InitGInv == Init => GInv
  <1> SUFFICES ASSUME Init PROVE GInv
    OBVIOUS
  <1>1. Types /\ LeftInv /\ LockInv /\ NvInv
    BY Constants DEF Init, Types, LeftInv, LockInv, NvInv, NoCall, Locked, Pcs
  <1>2. SlotInv /\ OwnerInv /\ CallInv /\ ExitInv /\ ExitLeavesNoPin /\ UnpinnedIsReleased
    BY DEF Init, SlotInv, OwnerInv, CallInv, ExitInv, ExitLeavesNoPin, UnpinnedIsReleased,
           MayCall, Described, Mapping
  <1>3. At("pinned") = {} /\ At("counting") = {} /\ At("mapping") = {} /\ InUse = {} /\ Born = {}
    BY DEF Init, At, InUse, Born
  <1>4. StatInv
    BY <1>3, FS_EmptySet DEF Init, StatInv
  <1> QED
    BY <1>1, <1>2, <1>4 DEF GInv

-----------------------------------------------------------------------------
\* Calls that copy or use regions

QuietPcs == {"idle", "found", "copying", "registering", "sending"}

(* A step that moves one thread between places where it neither holds      *)
(* gpu_buf_lock nor is counted.                                            *)
LEMMA QuietStep ==
    ASSUME GInv, NEW t \in Threads, NEW l \in QuietPcs, NEW c \in Calls,
           pc[t] \in QuietPcs \cup {"undo"}, pc[t] = "idle" => loaded,
           pc' = [pc EXCEPT ![t] = l], call' = [call EXCEPT ![t] = c],
           c.left \in (IF l \in {"found", "copying"} THEN 1..2 * MaxIterations ELSE {0}),
           l \in {"found", "copying", "registering"} => c.slot \in Slots,
           mrs' \in [Mrs -> Pins \cup {None, 0}],
           UNCHANGED <<loaded, slotvars, gpu_buf_lock, stats, nvvars>>
    PROVE  GInv'
  <1> USE DEF GInv
  <1>1. Types'
    BY DEF Types, slotvars, nvvars, QuietPcs, Pcs
  <1>2. LeftInv'
    BY DEF Types, LeftInv
  <1>3. LockInv'
    BY DEF Types, LockInv, Locked, QuietPcs
  <1>4. \A s : Mapping(s)' <=> Mapping(s)
    BY DEF Types, Mapping, QuietPcs
  <1>5. SlotInv' /\ OwnerInv'
    BY <1>4 DEF SlotInv, OwnerInv, MayCall, Described, slotvars, nvvars
  <1>6. NvInv'
    BY DEF NvInv, nvvars
  <1>7. CallInv'
    BY DEF Types, CallInv, QuietPcs, slotvars
  <1>8. ExitInv'
    BY DEF Types, ExitInv, QuietPcs, ExitPcs
  <1>9. ExitLeavesNoPin' /\ UnpinnedIsReleased'
    BY DEF Types, ExitLeavesNoPin, UnpinnedIsReleased, QuietPcs, nvvars
  <1>10. At("pinned")' = At("pinned") /\ At("counting")' = At("counting")
         /\ At("mapping")' = At("mapping") /\ InUse' = InUse /\ Born' = Born
    BY DEF Types, At, InUse, Born, QuietPcs, slotvars, nvvars
  <1>11. StatInv'
    BY <1>10 DEF StatInv, stats
  <1> QED
    BY <1>1, <1>2, <1>3, <1>5, <1>6, <1>7, <1>8, <1>9, <1>11

(* The copies, the regions and the loopback.                               *)
LEMMA QuietActions ==
    ASSUME GInv, NEW t \in Threads,
           \/ UndoFindsNothing(t) \/ Dma(t) \/ Benchmark(t)
           \/ CopyRefused(t) \/ CopyStart(t) \/ CopyEnd(t)
           \/ \E s \in Slots : RegisterLookup(t, s)
           \/ \E b \in BOOLEAN : RegisterPublish(t, b)
           \/ RegisterFails(t)
           \/ \E m \in Mrs : Deregister(t, m) \/ LoopbackPosts(t, m)
           \/ LoopbackReturns(t)
    PROVE  GInv'
  <1>1. /\ pc \in [Threads -> Pcs] /\ call \in [Threads -> Calls] /\ call[t] \in Calls
        /\ mrs \in [Mrs -> Pins \cup {None, 0}]
        /\ page_table \in [Slots -> Pins \cup {None}]
        /\ rdma_vaddr \in [Slots -> Pins \cup {None}]
    BY DEF GInv, Types
  <1>2. /\ call[t].left \in (IF pc[t] \in {"found", "copying"}
                             THEN 1..2 * MaxIterations ELSE {0})
        /\ pc[t] \in {"found", "copying", "registering"} => call[t].slot \in Slots
    BY DEF GInv, LeftInv, CallInv
  <1>3. ASSUME Return(t), pc[t] \in {"found", "copying", "registering", "sending", "undo"},
               mrs' \in [Mrs -> Pins \cup {None, 0}],
               UNCHANGED <<loaded, slotvars, gpu_buf_lock, stats, nvvars>>
        PROVE  GInv'
    <2>1. NoCall.left = 0 /\ NoCall \in Calls /\ "idle" \in QuietPcs
      BY Constants DEF NoCall, QuietPcs
    <2>2. pc' = [pc EXCEPT ![t] = "idle"] /\ call' = [call EXCEPT ![t] = NoCall]
      BY <1>3 DEF Return, Goto
    <2> QED
      BY <1>3, <2>1, <2>2, QuietStep DEF QuietPcs
  <1>4. ASSUME NEW l \in QuietPcs, Goto(t, l), call' = call,
               pc[t] \in QuietPcs, pc[t] = "idle" => loaded,
               pc[t] \in {"found", "copying"} <=> l \in {"found", "copying"},
               l # "registering", mrs' \in [Mrs -> Pins \cup {None, 0}],
               UNCHANGED <<loaded, slotvars, gpu_buf_lock, stats, nvvars>>
        PROVE  GInv'
    <2>1. pc' = [pc EXCEPT ![t] = l] /\ call' = [call EXCEPT ![t] = call[t]]
      BY <1>1, <1>4 DEF Goto
    <2> QED
      BY <1>1, <1>2, <1>4, <2>1, QuietStep
  <1>5. CASE UndoFindsNothing(t) \/ CopyRefused(t) \/ RegisterFails(t) \/ LoopbackReturns(t)
    BY <1>1, <1>3, <1>5 DEF UndoFindsNothing, CopyRefused, RegisterFails, LoopbackReturns
  <1>6. ASSUME NEW s \in Slots, NEW n \in 1..2 * MaxIterations, CopyLookup(t, s, n)
        PROVE  GInv'
    <2> DEFINE c == [NoCall EXCEPT !.slot = s, !.pin = page_table[s], !.left = n]
    <2>1. c \in Calls /\ c.left = n /\ c.slot = s
      <3>1. n \in Nat /\ page_table[s] \in Pins \cup {None}
        BY <1>1, Constants
      <3>2. PICK d \in Calls : d = NoCall
        BY Constants
      <3>3. PICK p \in Pins \cup {None} : p = page_table[s]
        BY <3>1
      <3>4. c = [d EXCEPT !.slot = s, !.pin = p, !.left = n]
        BY <3>2, <3>3
      <3> QED
        BY <3>1, <3>4 DEF Calls
    <2>2. "found" \in QuietPcs /\ "idle" \in QuietPcs
      BY DEF QuietPcs
    <2>3. /\ pc' = [pc EXCEPT ![t] = "found"] /\ call' = [call EXCEPT ![t] = c]
          /\ pc[t] = "idle" /\ loaded /\ mrs' = mrs
          /\ UNCHANGED <<loaded, slotvars, gpu_buf_lock, stats, nvvars>>
      BY <1>6 DEF CopyLookup, Entering, Goto
    <2> HIDE DEF c
    <2> QED
      BY <1>1, <2>1, <2>2, <2>3, QuietStep
  <1>7. CASE Dma(t) \/ Benchmark(t)
    <2>1. 1 \in 1..2 * MaxIterations
          /\ \A n \in 1..MaxIterations : 2 * n \in 1..2 * MaxIterations
      BY Constants
    <2> QED
      BY <1>6, <1>7, <2>1 DEF Dma, Benchmark
  <1>8. CASE CopyStart(t)
    <2>1. "copying" \in QuietPcs /\ "found" \in QuietPcs
      BY DEF QuietPcs
    <2> QED
      BY <1>1, <1>4, <1>8, <2>1 DEF CopyStart
  <1>9. CASE CopyEnd(t)
    <2>1. CASE call[t].left > 1
      <3> DEFINE c == [call[t] EXCEPT !.left = @ - 1]
      <3>1. /\ c \in Calls /\ c.slot = call[t].slot
            /\ c.left = call[t].left - 1 /\ pc[t] = "copying"
        BY <1>1, <1>2, <1>9, <2>1, Constants DEF Calls, CopyEnd
      <3>2. c.left \in 1..2 * MaxIterations
        BY <1>2, <2>1, <3>1, Constants
      <3>3. "found" \in QuietPcs /\ "copying" \in QuietPcs
        BY DEF QuietPcs
      <3>4. /\ pc' = [pc EXCEPT ![t] = "found"] /\ call' = [call EXCEPT ![t] = c]
            /\ mrs' = mrs
            /\ UNCHANGED <<loaded, slotvars, gpu_buf_lock, stats, nvvars>>
        BY <1>1, <1>9, <2>1 DEF CopyEnd, Goto
      <3> HIDE DEF c
      <3> QED
        BY <1>1, <1>2, <3>1, <3>2, <3>3, <3>4, QuietStep
    <2>2. CASE ~(call[t].left > 1)
      BY <1>1, <1>3, <1>9, <2>2 DEF CopyEnd
    <2> QED
      BY <2>1, <2>2
  <1>10. ASSUME NEW s \in Slots, RegisterLookup(t, s)
         PROVE  GInv'
    <2> DEFINE c == [call[t] EXCEPT !.slot = s]
    <2>1. c \in Calls /\ c.slot = s /\ c.left = call[t].left
      BY <1>1 DEF Calls
    <2>2. "registering" \in QuietPcs /\ "idle" \in QuietPcs
      BY DEF QuietPcs
    <2>3. /\ pc' = [pc EXCEPT ![t] = "registering"] /\ call' = [call EXCEPT ![t] = c]
          /\ pc[t] = "idle" /\ loaded /\ mrs' = mrs
          /\ UNCHANGED <<loaded, slotvars, gpu_buf_lock, stats, nvvars>>
      BY <1>1, <1>10 DEF RegisterLookup, Entering, Goto
    <2>4. c.left \in {0}
      BY <1>2, <2>1, <2>3
    <2> HIDE DEF c
    <2> QED
      BY <1>1, <2>1, <2>2, <2>3, <2>4, QuietStep
  <1>11. ASSUME NEW b \in BOOLEAN, RegisterPublish(t, b)
         PROVE  GInv'
    <2>1. mrs' \in [Mrs -> Pins \cup {None, 0}]
      BY <1>1, <1>2, <1>11 DEF RegisterPublish
    <2> QED
      BY <1>3, <1>11, <2>1 DEF RegisterPublish
  <1>12. ASSUME NEW m \in Mrs, Deregister(t, m)
         PROVE  GInv'
    <2>1. mrs' \in [Mrs -> Pins \cup {None, 0}]
      BY <1>1, <1>12 DEF Deregister
    <2>2. /\ "idle" \in QuietPcs /\ pc' = [pc EXCEPT ![t] = "idle"] /\ call' = call
          /\ pc[t] = "idle" /\ loaded
          /\ UNCHANGED <<loaded, slotvars, gpu_buf_lock, stats, nvvars>>
      BY <1>1, <1>12 DEF Deregister, Entering, QuietPcs
    <2> QED
      BY <1>4, <2>1, <2>2 DEF Goto
  <1>13. ASSUME NEW m \in Mrs, LoopbackPosts(t, m)
         PROVE  GInv'
    <2>1. "sending" \in QuietPcs /\ "idle" \in QuietPcs
      BY DEF QuietPcs
    <2> QED
      BY <1>1, <1>4, <1>13, <2>1 DEF LoopbackPosts, Entering
  <1> QED
    BY <1>5, <1>7, <1>8, <1>9, <1>10, <1>11, <1>12, <1>13

-----------------------------------------------------------------------------
\* NVIDIA

(* A revocation begins: its pin is described by a slot whose flag is still *)
(* down, and the callback has not yet set it.                              *)
LEMMA RevokeStep ==
    ASSUME GInv, NEW p \in Pins, Revoke(p)
    PROVE  GInv'
  <1> USE DEF GInv
  <1>1. /\ UNCHANGED <<loaded, in_use, page_table, bar_pages, rdma_vaddr, gpu_revoked,
                       gpu_buf_lock, mrs, pins_total, unpins_total, callbacks_fired,
                       data, pc, call>>
        /\ nv' = [nv EXCEPT ![p] = "revoked"] /\ nvlock' = p /\ cb' = "set"
        /\ nvlock = None /\ nv[p] = "pinned" /\ cb = "none"
    BY DEF Revoke, slotvars, stats, NvInv
  <1>2. Types' /\ LeftInv' /\ LockInv' /\ CallInv' /\ ExitInv'
    BY <1>1 DEF Types, LeftInv, LockInv, CallInv, ExitInv
  <1>3. NvInv'
    BY <1>1, Constants DEF Types, NvInv
  <1>4. \A q \in Pins : MayCall(q)' <=> MayCall(q)
    BY <1>1, Constants DEF Types, MayCall
  <1>5. \A s : Described(s)' <=> Described(s)
    BY <1>1 DEF Described, Mapping
  <1>6. SlotInv'
    BY <1>1, <1>4, <1>5 DEF Types, SlotInv
  <1>7. OwnerInv'
    BY <1>1, <1>4, <1>5 DEF OwnerInv
  <1>8. ExitLeavesNoPin' /\ UnpinnedIsReleased'
    BY <1>1 DEF Types, ExitLeavesNoPin, UnpinnedIsReleased, CallInv
  <1>9. Born' = Born
    BY <1>1 DEF Types, Born
  <1>10. StatInv'
    BY <1>1, <1>9 DEF StatInv, At, InUse
  <1> QED
    BY <1>2, <1>3, <1>6, <1>7, <1>8, <1>10

(* The callback sets the flag of the slot its pin was made for.            *)
LEMMA CallbackSetsStep ==
    ASSUME GInv, CallbackSets
    PROVE  GInv'
  <1> USE DEF GInv
  <1> DEFINE d == data[nvlock]
  <1>1. /\ UNCHANGED <<loaded, in_use, page_table, bar_pages, rdma_vaddr, gpu_buf_lock, mrs,
                       pins_total, unpins_total, callbacks_fired, nv, data, nvlock, pc, call>>
        /\ gpu_revoked' = [gpu_revoked EXCEPT ![d] = TRUE]
        /\ cb = "set" /\ cb' = "complete"
    BY DEF CallbackSets, stats
  <1>2. /\ nvlock \in Pins /\ nv[nvlock] = "revoked" /\ d \in Slots
        /\ page_table[d] = nvlock /\ Described(d)
    BY <1>1 DEF Types, NvInv, OwnerInv, MayCall
  <1>3. Types' /\ LeftInv' /\ LockInv' /\ ExitInv' /\ NvInv'
    BY <1>1, <1>2 DEF Types, LeftInv, LockInv, ExitInv, NvInv
  <1>4. CallInv'
    <2>1. ASSUME NEW t \in Threads, pc[t] = "getting" PROVE call[t].slot # d
      <3>1. ~in_use[call[t].slot] /\ gpu_buf_lock = t
        BY <2>1 DEF CallInv, LockInv, Locked
      <3>2. \A u \in Threads : pc[u] # "mapping"
        BY <2>1, <3>1 DEF LockInv, Locked
      <3> QED
        BY <1>2, <3>1, <3>2 DEF Described, Mapping
    <2> QED
      BY <1>1, <1>2, <2>1 DEF Types, CallInv
  <1>5. \A q \in Pins : MayCall(q)' <=> MayCall(q) /\ q # nvlock
    BY <1>1, <1>2 DEF MayCall
  <1>6. \A s : Described(s)' <=> Described(s)
    BY <1>1 DEF Described, Mapping
  <1>7. SlotInv'
    BY <1>1, <1>2, <1>5, <1>6 DEF Types, SlotInv
  <1>8. OwnerInv'
    BY <1>1, <1>5, <1>6 DEF OwnerInv
  <1>9. ExitLeavesNoPin' /\ UnpinnedIsReleased'
    BY <1>1 DEF ExitLeavesNoPin, UnpinnedIsReleased
  <1>10. StatInv'
    BY <1>1 DEF StatInv, At, InUse, Born
  <1> QED
    BY <1>3, <1>4, <1>7, <1>8, <1>9, <1>10

(* The callback returns and NVIDIA's lock is free.                         *)
LEMMA CallbackReturnsStep ==
    ASSUME GInv, CallbackReturns
    PROVE  GInv'
  <1> USE DEF GInv
  <1>1. /\ UNCHANGED <<loaded, in_use, page_table, bar_pages, rdma_vaddr, gpu_revoked,
                       gpu_buf_lock, mrs, pins_total, unpins_total, callbacks_fired,
                       nv, data, pc, call>>
        /\ cb = "complete" /\ cb' = "none" /\ nvlock' = None
    BY DEF CallbackReturns, slotvars, stats
  <1>2. Types' /\ LeftInv' /\ LockInv' /\ ExitInv' /\ NvInv' /\ CallInv'
    BY <1>1 DEF Types, LeftInv, LockInv, ExitInv, NvInv, CallInv
  <1>3. \A q \in Pins : MayCall(q)' <=> MayCall(q)
    BY <1>1 DEF MayCall
  <1>4. \A s : Described(s)' <=> Described(s)
    BY <1>1 DEF Described, Mapping
  <1>5. SlotInv' /\ OwnerInv'
    BY <1>1, <1>3, <1>4 DEF SlotInv, OwnerInv
  <1>6. ExitLeavesNoPin' /\ UnpinnedIsReleased' /\ StatInv'
    BY <1>1 DEF ExitLeavesNoPin, UnpinnedIsReleased, StatInv, At, InUse, Born
  <1> QED
    BY <1>2, <1>5, <1>6

-----------------------------------------------------------------------------
\* GPU_PIN

(* With gpu_buf_lock free no pin is being mapped, so a free slot is        *)
(* described by nobody.                                                    *)
LEMMA LockFree ==
    ASSUME GInv, gpu_buf_lock = None
    PROVE  /\ \A t \in Threads : pc[t] \notin Locked
           /\ \A s \in Slots : Described(s) <=> in_use[s]
  <1>1. \A t \in Threads : pc[t] \notin Locked
    BY Constants DEF GInv, LockInv
  <1> QED
    BY <1>1 DEF Described, Mapping, Locked

(* The lock holder is alone in the places that hold the lock.              *)
LEMMA HolderAlone ==
    ASSUME GInv, NEW t \in Threads, pc[t] \in Locked
    PROVE  \A u \in Threads : pc[u] \in Locked <=> u = t
  BY DEF GInv, LockInv

(* A set of natural numbers that is not empty has a smallest member.       *)
LEMMA SmallestNat ==
    ASSUME NEW T, T \subseteq Nat, T # {}
    PROVE  \E x \in T : \A y \in T : x <= y
  <1> DEFINE R == OpToRel(<, Nat)
  <1>1. IsWellFoundedOn(R, Nat)
    BY NatLessThanWellFounded
  <1>2. \A x, y \in Nat : <<y, x>> \in R <=> y < x
    BY DEF OpToRel
  <1> HIDE DEF R
  <1>3. PICK x \in T : \A y \in T : ~(<<y, x>> \in R)
    BY <1>1, WFMin
  <1>4. \A y \in T : ~(y < x)
    BY <1>2, <1>3
  <1>5. \A y \in T : x <= y
    BY <1>4
  <1> QED
    BY <1>5

(* The first free slot is a free slot.                                     *)
LEMMA SlotChoice ==
    ASSUME FreeSlots # {}
    PROVE  (CHOOSE s \in FreeSlots : \A r \in FreeSlots : s <= r) \in FreeSlots
  <1>1. FreeSlots \subseteq Nat
    BY GpuAssumption DEF FreeSlots, Slots
  <1>2. \E s \in FreeSlots : \A r \in FreeSlots : s <= r
    BY <1>1, SmallestNat
  <1> QED
    BY <1>2

(* Claiming a slot: it is described by nobody, so resetting its flag loses *)
(* no revocation.                                                          *)
LEMMA PinLockStep ==
    ASSUME GInv, NEW t \in Threads, PinLock(t)
    PROVE  GInv'
  <1> USE DEF GInv
  <1>1. PICK s \in FreeSlots :
          /\ page_table' = [page_table EXCEPT ![s] = None]
          /\ bar_pages' = [bar_pages EXCEPT ![s] = None]
          /\ rdma_vaddr' = [rdma_vaddr EXCEPT ![s] = None]
          /\ gpu_revoked' = [gpu_revoked EXCEPT ![s] = FALSE]
          /\ call' = [call EXCEPT ![t].slot = s]
    BY SlotChoice DEF PinLock
  <1>2. s \in Slots /\ ~in_use[s]
    BY <1>1 DEF FreeSlots
  <1>3. /\ loaded /\ pc[t] = "idle" /\ gpu_buf_lock = None /\ gpu_buf_lock' = t
        /\ pc' = [pc EXCEPT ![t] = "getting"]
        /\ UNCHANGED <<loaded, in_use, mrs, pins_total, unpins_total, callbacks_fired,
                       nv, data, nvlock, cb>>
    BY DEF PinLock, Entering, Goto, stats, nvvars
  <1>4. /\ \A u \in Threads : pc[u] \notin Locked
        /\ \A r \in Slots : Described(r) <=> in_use[r]
    BY <1>3, LockFree
  <1>5. Types'
    BY <1>1, <1>2, <1>3 DEF Types, Pcs, Calls
  <1>6. LeftInv' /\ LockInv'
    BY <1>1, <1>2, <1>3, <1>4 DEF Types, LeftInv, LockInv, Locked, Calls
  <1>7. \A r \in Slots : Described(r)' <=> in_use[r]
    BY <1>3, <1>4 DEF Types, Described, Mapping, Locked
  <1>8. \A q \in Pins : MayCall(q)' <=> MayCall(q)
    BY <1>3 DEF MayCall
  <1>9. SlotInv'
    BY <1>1, <1>2, <1>3, <1>4, <1>7, <1>8 DEF Types, SlotInv
  <1>10. OwnerInv'
    BY <1>1, <1>2, <1>3, <1>4, <1>7, <1>8 DEF Types, OwnerInv
  <1>11. NvInv' /\ ExitInv'
    BY <1>3 DEF Types, NvInv, ExitInv
  <1>12. CallInv'
    BY <1>1, <1>2, <1>3, <1>4 DEF Types, CallInv, Locked, Calls
  <1>13. ExitLeavesNoPin' /\ UnpinnedIsReleased'
    BY <1>1, <1>3 DEF Types, ExitLeavesNoPin, UnpinnedIsReleased, Calls
  <1>14. /\ At("pinned")' = At("pinned") /\ At("counting")' = At("counting")
         /\ At("mapping")' = At("mapping") /\ InUse' = InUse /\ Born' = Born
    BY <1>3 DEF Types, At, InUse, Born
  <1>15. StatInv'
    BY <1>3, <1>14 DEF StatInv
  <1> QED
    BY <1>5, <1>6, <1>9, <1>10, <1>11, <1>12, <1>13, <1>15

(* NVIDIA pins the pages: slot and pin name each other from here on, and   *)
(* the callback may come at once.                                          *)
LEMMA GetPagesStep ==
    ASSUME GInv, NEW t \in Threads, GetPages(t)
    PROVE  GInv'
  <1> USE DEF GInv
  <1>1. PICK p \in Pins :
          /\ nv[p] = "unborn"
          /\ nv' = [nv EXCEPT ![p] = "pinned"]
          /\ data' = [data EXCEPT ![p] = call[t].slot]
          /\ page_table' = [page_table EXCEPT ![call[t].slot] = p]
          /\ call' = [call EXCEPT ![t].pin = p]
    BY DEF GetPages
  <1>2. PICK s \in Slots : s = call[t].slot /\ ~in_use[s] /\ ~gpu_revoked[s]
    BY DEF GetPages, CallInv
  <1>3. /\ pc[t] = "getting" /\ nvlock = None /\ cb = "none"
        /\ pc' = [pc EXCEPT ![t] = "mapping"]
        /\ UNCHANGED <<loaded, in_use, bar_pages, rdma_vaddr, gpu_revoked, gpu_buf_lock, mrs,
                       pins_total, unpins_total, callbacks_fired, nvlock, cb>>
    BY DEF GetPages, Goto, stats, NvInv
  <1>4. \A u \in Threads : pc[u] \in Locked <=> u = t
    BY <1>3, HolderAlone DEF Locked
  <1>5. ~Described(s)
    BY <1>2, <1>3, <1>4 DEF Described, Mapping, Locked
  <1>6. Types'
    BY <1>1, <1>2, <1>3 DEF Types, Pcs, Calls
  <1>7. LeftInv' /\ LockInv' /\ NvInv' /\ ExitInv'
    <2>1. LeftInv'
      BY <1>1, <1>3 DEF Types, LeftInv, Calls
    <2>2. LockInv'
      BY <1>3, <1>4 DEF Types, LockInv, Locked
    <2>3. NvInv'
      BY <1>3 DEF NvInv
    <2>4. ExitInv'
      BY <1>3 DEF Types, ExitInv, ExitPcs
    <2> QED
      BY <2>1, <2>2, <2>3, <2>4
  <1>8. \A r \in Slots : Described(r)' <=> Described(r) \/ r = s
    BY <1>1, <1>2, <1>3, <1>4 DEF Types, Described, Mapping, Locked, Calls
  <1>9. \A q \in Pins : MayCall(q)' <=> MayCall(q) \/ q = p
    BY <1>1, <1>3 DEF Types, MayCall
  <1>10. ~MayCall(p)
    BY <1>1, <1>3, Constants DEF MayCall
  <1>11. SlotInv'
    <2> SUFFICES ASSUME NEW r \in Slots, Described(r)'
                 PROVE  /\ page_table'[r] \in Pins
                        /\ data'[page_table'[r]] = r
                        /\ nv'[page_table'[r]] \in {"pinned", "revoked"}
                        /\ gpu_revoked'[r] <=> ~MayCall(page_table[r])'
      BY DEF SlotInv
    <2>1. CASE r = s
      <3>1. page_table'[r] = p
        BY <1>1, <1>2, <2>1 DEF Types
      <3>2. MayCall(page_table[r])'
        BY <1>9, <3>1
      <3> QED
        BY <1>1, <1>2, <1>3, <2>1, <3>1, <3>2 DEF Types
    <2>2. CASE r # s
      <3>1. /\ page_table'[r] = page_table[r] /\ Described(r)
            /\ page_table[r] \in Pins /\ page_table[r] # p
        BY <1>1, <1>2, <1>8, <2>2 DEF Types, SlotInv
      <3>2. MayCall(page_table[r])' <=> MayCall(page_table[r])
        BY <1>9, <3>1
      <3> QED
        BY <1>1, <1>3, <3>1, <3>2 DEF Types, SlotInv
    <2> QED
      BY <2>1, <2>2
  <1>12. OwnerInv'
    <2> SUFFICES ASSUME NEW q \in Pins, MayCall(q)'
                 PROVE  data'[q] \in Slots /\ page_table'[data'[q]] = q /\ Described(data[q])'
      BY DEF OwnerInv
    <2>1. CASE q = p
      <3>1. data'[q] = s
        BY <1>1, <1>2, <2>1 DEF Types
      <3>2. Described(s)'
        BY <1>8
      <3> QED
        BY <1>1, <1>2, <2>1, <3>1, <3>2 DEF Types
    <2>2. CASE q # p
      <3>1. /\ MayCall(q) /\ data'[q] = data[q] /\ data[q] \in Slots
            /\ page_table[data[q]] = q /\ Described(data[q])
        BY <1>1, <1>9, <2>2 DEF Types, OwnerInv
      <3>2. data[q] # s
        BY <1>5, <3>1
      <3>3. Described(data[q])'
        BY <1>8, <3>1
      <3> QED
        BY <1>1, <1>2, <3>1, <3>2, <3>3 DEF Types
    <2> QED
      BY <2>1, <2>2
  <1>13. CallInv'
    BY <1>1, <1>2, <1>3, <1>4 DEF Types, CallInv, Locked, Calls
  <1>14. ExitLeavesNoPin' /\ UnpinnedIsReleased'
    BY <1>1, <1>3 DEF Types, ExitLeavesNoPin, UnpinnedIsReleased, CallInv, ExitInv, ExitPcs, Calls
  <1>15. StatInv'
    <2>1. Born' = Born \cup {p} /\ p \notin Born
      BY <1>1 DEF Types, Born
    <2>2. Cardinality(Born)' = Cardinality(Born) + 1
      BY <2>1, CountsFinite, FS_AddElement
    <2>3. "mapping" \in Pcs /\ "pinned" \in Pcs /\ "counting" \in Pcs
      BY DEF Pcs
    <2>4. /\ Cardinality(At("mapping"))' = Cardinality(At("mapping")) + 1
          /\ Cardinality(At("pinned"))' = Cardinality(At("pinned"))
          /\ Cardinality(At("counting"))' = Cardinality(At("counting"))
      BY <1>3, <2>3, AtMove
    <2>5. InUse' = InUse
      BY <1>3 DEF InUse
    <2> QED
      BY <1>3, <2>2, <2>3, <2>4, <2>5, CountsFinite DEF StatInv
  <1> QED
    BY <1>6, <1>7, <1>11, <1>12, <1>13, <1>14, <1>15

(* get_pages fails: the claimed slot was described by nobody.              *)
LEMMA GetPagesFailsStep ==
    ASSUME GInv, NEW t \in Threads, GetPagesFails(t)
    PROVE  GInv'
  <1> USE DEF GInv
  <1>1. /\ pc[t] = "getting" /\ pc' = [pc EXCEPT ![t] = "idle"]
        /\ call' = [call EXCEPT ![t] = NoCall] /\ gpu_buf_lock' = None
        /\ UNCHANGED <<loaded, in_use, page_table, bar_pages, rdma_vaddr, gpu_revoked, mrs,
                       pins_total, unpins_total, callbacks_fired, nv, data, nvlock, cb>>
    BY DEF GetPagesFails, Return, Goto, slotvars, stats, nvvars
  <1>2. \A u \in Threads : pc[u] \in Locked <=> u = t
    BY <1>1, HolderAlone DEF Locked
  <1>3. NoCall \in Calls /\ NoCall.left = 0
    BY Constants DEF NoCall
  <1>4. Types'
    BY <1>1, <1>3 DEF Types, Pcs
  <1>5. LeftInv' /\ LockInv' /\ NvInv' /\ ExitInv'
    BY <1>1, <1>2, <1>3, Constants DEF Types, LeftInv, LockInv, Locked, NvInv, ExitInv, ExitPcs
  <1>6. \A r \in Slots : Described(r)' <=> Described(r)
    BY <1>1 DEF Types, Described, Mapping
  <1>7. \A q \in Pins : MayCall(q)' <=> MayCall(q)
    BY <1>1 DEF MayCall
  <1>8. SlotInv' /\ OwnerInv'
    BY <1>1, <1>6, <1>7 DEF SlotInv, OwnerInv
  <1>9. CallInv'
    BY <1>1 DEF Types, CallInv
  <1>10. ExitLeavesNoPin' /\ UnpinnedIsReleased'
    BY <1>1 DEF Types, ExitLeavesNoPin, UnpinnedIsReleased
  <1>11. /\ At("pinned")' = At("pinned") /\ At("counting")' = At("counting")
         /\ At("mapping")' = At("mapping") /\ InUse' = InUse /\ Born' = Born
    BY <1>1 DEF Types, At, InUse, Born
  <1>12. StatInv'
    BY <1>1, <1>11 DEF StatInv
  <1> QED
    BY <1>4, <1>5, <1>8, <1>9, <1>10, <1>12

(* Giving a pin up, by put_pages or by free_page_table, together with the  *)
(* slot that describes it: no other slot, pin or call is concerned.        *)
LEMMA GiveUpPin ==
    ASSUME GInv, NEW t \in Threads, NEW s \in Slots, NEW p \in Pins,
           pc[t] \in {"mapping", "releasing", "putting"}, s = call[t].slot, p = call[t].pin,
           \/ nv' = [nv EXCEPT ![p] = "released"]
           \/ nv' = nv /\ nv[p] = "revoked",
           nvlock = p => cb # "set",
           \A r \in Slots : Described(r)' <=> Described(r) /\ r # s,
           \A r \in Slots \ {s} : page_table'[r] = page_table[r],
           UNCHANGED <<gpu_revoked, data, nvlock, cb>>
    PROVE  /\ SlotInv' /\ OwnerInv' /\ NvInv' /\ Cardinality(Born)' = Cardinality(Born)
           /\ \A q \in Pins : nv'[q] = nv[q] \/ (q = p /\ nv'[q] = "released")
  <1> USE DEF GInv
  <1>1. page_table[s] = p /\ Described(s)
    BY DEF CallInv, Described, Mapping
  <1>2. nv[p] \in {"pinned", "revoked"} /\ data[p] = s
    BY <1>1 DEF SlotInv
  <1>3. \A q \in Pins : nv'[q] = nv[q] \/ (q = p /\ nv'[q] = "released")
    BY DEF Types
  <1>4. \A q \in Pins : MayCall(q)' <=> MayCall(q) /\ q # p
    <2>1. \A q \in Pins : q # p => nv'[q] = nv[q]
      BY <1>3
    <2>2. nv'[p] # "pinned"
      BY DEF Types
    <2> QED
      BY <2>1, <2>2 DEF MayCall
  <1>5. SlotInv'
    <2> SUFFICES ASSUME NEW r \in Slots, Described(r)'
                 PROVE  /\ page_table'[r] \in Pins
                        /\ data'[page_table'[r]] = r
                        /\ nv'[page_table'[r]] \in {"pinned", "revoked"}
                        /\ gpu_revoked'[r] <=> ~MayCall(page_table[r])'
      BY DEF SlotInv
    <2>1. /\ r # s /\ Described(r) /\ page_table'[r] = page_table[r]
          /\ page_table[r] \in Pins /\ page_table[r] # p
      BY <1>2 DEF SlotInv
    <2>2. MayCall(page_table[r])' <=> MayCall(page_table[r])
      BY <1>4, <2>1
    <2> QED
      BY <1>3, <2>1, <2>2 DEF SlotInv
  <1>6. OwnerInv'
    <2> SUFFICES ASSUME NEW q \in Pins, MayCall(q)'
                 PROVE  data'[q] \in Slots /\ page_table'[data'[q]] = q /\ Described(data[q])'
      BY DEF OwnerInv
    <2>1. /\ MayCall(q) /\ q # p /\ data[q] \in Slots /\ page_table[data[q]] = q
          /\ Described(data[q]) /\ data'[q] = data[q]
      BY <1>4 DEF OwnerInv
    <2>2. data[q] # s
      BY <1>1, <2>1
    <2>3. Described(data[q])'
      BY <2>1, <2>2
    <2> QED
      BY <2>1, <2>2, <2>3
  <1>7. NvInv'
    <2>1. nvlock # None => nv'[nvlock] \in {"revoked", "released"}
      BY <1>3 DEF Types, NvInv
    <2>2. cb = "set" => nv'[nvlock] = "revoked"
      BY <1>3 DEF Types, NvInv
    <2> QED
      BY <2>1, <2>2 DEF NvInv
  <1>8. Born' = Born
    BY <1>2 DEF Types, Born
  <1> QED
    BY <1>3, <1>5, <1>6, <1>7, <1>8

(* A pin that cannot be mapped is put back before the lock is dropped.     *)
LEMMA MappingFailsStep ==
    ASSUME GInv, NEW t \in Threads, MappingFails(t)
    PROVE  GInv'
  <1> USE DEF GInv
  <1>1. PICK s \in Slots : s = call[t].slot /\ ~in_use[s]
    BY DEF MappingFails, CallInv
  <1>2. PICK p \in Pins : p = call[t].pin /\ page_table[s] = p
    BY <1>1 DEF MappingFails, CallInv
  <1>3. /\ pc[t] = "mapping" /\ pc' = [pc EXCEPT ![t] = "idle"]
        /\ call' = [call EXCEPT ![t] = NoCall] /\ gpu_buf_lock' = None
        /\ nvlock = None
        /\ nv' = IF nv[p] = "pinned" THEN [nv EXCEPT ![p] = "released"] ELSE nv
        /\ UNCHANGED <<loaded, in_use, page_table, bar_pages, rdma_vaddr, gpu_revoked, mrs,
                       pins_total, unpins_total, callbacks_fired, data, nvlock, cb>>
    BY <1>2 DEF MappingFails, PutPages, Return, Goto, slotvars, stats
  <1>4. \A u \in Threads : pc[u] \in Locked <=> u = t
    BY <1>3, HolderAlone DEF Locked
  <1>5. NoCall \in Calls /\ NoCall.left = 0
    BY Constants DEF NoCall
  <1>6. \A r \in Slots : Described(r)' <=> Described(r) /\ r # s
    BY <1>1, <1>3, <1>4 DEF Types, Described, Mapping, Locked
  <1>7. Described(s) /\ nv[p] \in {"pinned", "revoked"}
    BY <1>1, <1>2, <1>3 DEF Described, Mapping, SlotInv
  <1>8. /\ SlotInv' /\ OwnerInv' /\ NvInv' /\ Cardinality(Born)' = Cardinality(Born)
        /\ \A q \in Pins : nv'[q] = nv[q] \/ (q = p /\ nv'[q] = "released")
    BY <1>1, <1>2, <1>3, <1>6, <1>7, Constants, GiveUpPin
  <1>9. Types'
    BY <1>3, <1>5 DEF Types, Pcs
  <1>10. LeftInv' /\ LockInv' /\ ExitInv'
    BY <1>3, <1>4, <1>5, Constants DEF Types, LeftInv, LockInv, Locked, ExitInv, ExitPcs
  <1>11. CallInv'
    BY <1>3 DEF Types, CallInv
  <1>12. ExitLeavesNoPin' /\ UnpinnedIsReleased'
    BY <1>3, <1>8 DEF Types, ExitLeavesNoPin, UnpinnedIsReleased, CallInv
  <1>13. StatInv'
    <2>1. "mapping" \in Pcs /\ "pinned" \in Pcs /\ "counting" \in Pcs /\ "idle" \in Pcs
      BY DEF Pcs
    <2>2. /\ Cardinality(At("mapping"))' = Cardinality(At("mapping")) - 1
          /\ Cardinality(At("pinned"))' = Cardinality(At("pinned"))
          /\ Cardinality(At("counting"))' = Cardinality(At("counting"))
      BY <1>3, <2>1, AtMove
    <2>3. InUse' = InUse
      BY <1>3 DEF InUse
    <2> QED
      BY <1>3, <1>8, <2>1, <2>2, <2>3, CountsFinite DEF StatInv
  <1> QED
    BY <1>8, <1>9, <1>10, <1>11, <1>12, <1>13

(* The buffer is published with the flag as the callback left it.          *)
LEMMA MappedStep ==
    ASSUME GInv, NEW t \in Threads, NEW b \in BOOLEAN, Mapped(t, b)
    PROVE  GInv'
  <1> USE DEF GInv
  <1>1. PICK s \in Slots : s = call[t].slot /\ ~in_use[s]
    BY DEF Mapped, CallInv
  <1>2. PICK p \in Pins : p = call[t].pin /\ page_table[s] = p
    BY <1>1 DEF Mapped, CallInv
  <1>3. /\ pc[t] = "mapping" /\ pc' = [pc EXCEPT ![t] = "pinned"] /\ gpu_buf_lock' = None
        /\ in_use' = [in_use EXCEPT ![s] = TRUE]
        /\ bar_pages' = [bar_pages EXCEPT ![s] = p]
        /\ rdma_vaddr' = [rdma_vaddr EXCEPT ![s] = IF b THEN p ELSE None]
        /\ UNCHANGED <<loaded, page_table, gpu_revoked, mrs, call,
                       pins_total, unpins_total, callbacks_fired, nv, data, nvlock, cb>>
    BY <1>1, <1>2 DEF Mapped, Goto, stats, nvvars
  <1>4. \A u \in Threads : pc[u] \in Locked <=> u = t
    BY <1>3, HolderAlone DEF Locked
  <1>5. Types'
    BY <1>3 DEF Types, Pcs
  <1>6. LeftInv' /\ LockInv' /\ NvInv' /\ ExitInv'
    <2>1. LeftInv'
      BY <1>3 DEF Types, LeftInv
    <2>2. LockInv'
      BY <1>3, <1>4, Constants DEF Types, LockInv, Locked
    <2>3. NvInv'
      BY <1>3 DEF NvInv
    <2>4. ExitInv'
      BY <1>3 DEF Types, ExitInv, ExitPcs
    <2> QED
      BY <2>1, <2>2, <2>3, <2>4
  <1>7. \A r \in Slots : Described(r)' <=> Described(r)
    BY <1>1, <1>3, <1>4 DEF Types, Described, Mapping, Locked
  <1>8. \A q \in Pins : MayCall(q)' <=> MayCall(q)
    BY <1>3 DEF MayCall
  <1>9. SlotInv' /\ OwnerInv'
    BY <1>3, <1>7, <1>8 DEF SlotInv, OwnerInv
  <1>10. CallInv'
    BY <1>1, <1>2, <1>3, <1>4 DEF Types, CallInv, Locked
  <1>11. ExitLeavesNoPin' /\ UnpinnedIsReleased'
    BY <1>3 DEF Types, ExitLeavesNoPin, UnpinnedIsReleased
  <1>12. StatInv'
    <2>1. "mapping" \in Pcs /\ "pinned" \in Pcs /\ "counting" \in Pcs
      BY DEF Pcs
    <2>2. /\ Cardinality(At("mapping"))' = Cardinality(At("mapping")) - 1
          /\ Cardinality(At("pinned"))' = Cardinality(At("pinned")) + 1
          /\ Cardinality(At("counting"))' = Cardinality(At("counting"))
      BY <1>3, <2>1, AtMove
    <2>3. InUse' = InUse \cup {s} /\ s \notin InUse
      BY <1>1, <1>3 DEF Types, InUse
    <2>4. Cardinality(InUse)' = Cardinality(InUse) + 1
      BY <2>3, CountsFinite, FS_AddElement
    <2>5. Born' = Born
      BY <1>3 DEF Born
    <2> QED
      BY <1>3, <2>1, <2>2, <2>4, <2>5, CountsFinite DEF StatInv
  <1> QED
    BY <1>5, <1>6, <1>9, <1>10, <1>11, <1>12

(* The pin is counted; without a copy of its handle the user gets an undo. *)
LEMMA PinReturnsStep ==
    ASSUME GInv, NEW t \in Threads, NEW b \in BOOLEAN, PinReturns(t, b)
    PROVE  GInv'
  <1> USE DEF GInv
  <1>1. PICK l \in {"idle", "undo"} : pc' = [pc EXCEPT ![t] = l]
    BY DEF PinReturns, Return, Goto
  <1>2. PICK c \in Calls : /\ call' = [call EXCEPT ![t] = c] /\ c.left = 0
                           /\ l = "undo" => c.pin \in Pins
    <2>1. call[t] \in Calls /\ call[t].left = 0 /\ call[t].pin \in Pins
      BY DEF PinReturns, Types, LeftInv, CallInv
    <2>2. NoCall \in Calls /\ NoCall.left = 0
      BY Constants DEF NoCall
    <2>3. CASE b
      <3>1. call' = [call EXCEPT ![t] = NoCall] /\ l = "idle"
        BY <1>1, <2>3 DEF PinReturns, Return, Goto, Types
      <3> QED
        BY <2>2, <3>1
    <2>4. CASE ~b
      <3>1. call' = [call EXCEPT ![t] = call[t]]
        BY <2>4 DEF PinReturns, Types
      <3> QED
        BY <2>1, <3>1
    <2> QED
      BY <2>3, <2>4
  <1>3. /\ pc[t] = "pinned" /\ pins_total' = pins_total + 1
        /\ UNCHANGED <<loaded, in_use, page_table, bar_pages, rdma_vaddr, gpu_revoked,
                       gpu_buf_lock, mrs, unpins_total, callbacks_fired,
                       nv, data, nvlock, cb>>
    BY DEF PinReturns, slotvars, nvvars
  <1>4. Types'
    BY <1>1, <1>2, <1>3 DEF Types, Pcs
  <1>5. LeftInv' /\ LockInv' /\ NvInv' /\ ExitInv'
    <2>1. LeftInv'
      BY <1>1, <1>2 DEF Types, LeftInv
    <2>2. LockInv'
      BY <1>1, <1>3 DEF Types, LockInv, Locked
    <2>3. NvInv'
      BY <1>3 DEF NvInv
    <2>4. ExitInv'
      BY <1>1, <1>3 DEF Types, ExitInv, ExitPcs
    <2> QED
      BY <2>1, <2>2, <2>3, <2>4
  <1>6. \A r \in Slots : Described(r)' <=> Described(r)
    BY <1>1, <1>2, <1>3 DEF Types, Described, Mapping
  <1>7. \A q \in Pins : MayCall(q)' <=> MayCall(q)
    BY <1>3 DEF MayCall
  <1>8. SlotInv' /\ OwnerInv'
    BY <1>3, <1>6, <1>7 DEF SlotInv, OwnerInv
  <1>9. CallInv'
    BY <1>1, <1>2, <1>3 DEF Types, CallInv
  <1>10. ExitLeavesNoPin' /\ UnpinnedIsReleased'
    BY <1>1, <1>2, <1>3 DEF Types, ExitLeavesNoPin, UnpinnedIsReleased
  <1>11. StatInv'
    <2>1. /\ "mapping" \in Pcs /\ "pinned" \in Pcs /\ "counting" \in Pcs
          /\ l \in Pcs /\ l \notin {"mapping", "pinned", "counting"}
      BY DEF Pcs
    <2>2. /\ Cardinality(At("mapping"))' = Cardinality(At("mapping"))
          /\ Cardinality(At("pinned"))' = Cardinality(At("pinned")) - 1
          /\ Cardinality(At("counting"))' = Cardinality(At("counting"))
      BY <1>1, <1>3, <2>1, AtMove
    <2>3. InUse' = InUse /\ Born' = Born
      BY <1>3 DEF InUse, Born
    <2> QED
      BY <1>3, <2>1, <2>2, <2>3, CountsFinite DEF StatInv
  <1> QED
    BY <1>4, <1>5, <1>8, <1>9, <1>10, <1>11

-----------------------------------------------------------------------------
\* GPU_UNPIN

(* An unpin takes the lock, reads gpu_revoked and drops the mappings.      *)
LEMMA UnpinLockStep ==
    ASSUME GInv, NEW t \in Threads, NEW p \in Pins, UnpinLock(t, p)
    PROVE  GInv'
  <1> USE DEF GInv
  <1>1. PICK s \in Slots :
          /\ in_use[s] /\ page_table[s] = p
          /\ call' = [call EXCEPT ![t].slot = s, ![t].pin = p, ![t].was = gpu_revoked[s]]
          /\ rdma_vaddr' = [rdma_vaddr EXCEPT ![s] = None]
          /\ bar_pages' = [bar_pages EXCEPT ![s] = None]
    BY DEF UnpinLock, Find
  <1>2. /\ pc[t] \in {"idle", "undo", "exit"} /\ (pc[t] = "idle" => loaded)
        /\ gpu_buf_lock = None /\ gpu_buf_lock' = t
        /\ pc' = [pc EXCEPT ![t] = "releasing"]
        /\ UNCHANGED <<loaded, in_use, page_table, gpu_revoked, mrs,
                       pins_total, unpins_total, callbacks_fired, nv, data, nvlock, cb>>
    BY DEF UnpinLock, Entering, Goto, stats, nvvars
  <1>3. \A u \in Threads : pc[u] \notin Locked
    BY <1>2, LockFree
  <1>4. PICK c \in Calls : /\ call' = [call EXCEPT ![t] = c]
                           /\ c.slot = s /\ c.pin = p /\ c.was = gpu_revoked[s] /\ c.left = 0
    <2> DEFINE c == [call[t] EXCEPT !.slot = s, !.pin = p, !.was = gpu_revoked[s]]
    <2>1. call[t] \in Calls /\ call[t].left = 0 /\ gpu_revoked[s] \in BOOLEAN
      BY <1>2 DEF Types, LeftInv
    <2>2. /\ c \in Calls /\ c.slot = s /\ c.pin = p /\ c.was = gpu_revoked[s]
          /\ c.left = call[t].left
      BY <2>1 DEF Calls
    <2>3. call' = [call EXCEPT ![t] = c]
      BY <1>1 DEF Types
    <2> HIDE DEF c
    <2> QED
      BY <2>1, <2>2, <2>3
  <1>5. Types'
    <2>1. call' \in [Threads -> Calls]
      BY <1>4 DEF Types
    <2>2. /\ rdma_vaddr' \in [Slots -> Pins \cup {None}]
          /\ bar_pages' \in [Slots -> Pins \cup {None}]
      BY <1>1 DEF Types
    <2> QED
      BY <1>2, <2>1, <2>2 DEF Types, Pcs
  <1>6. LeftInv' /\ LockInv' /\ NvInv' /\ ExitInv'
    <2>1. LeftInv'
      BY <1>2, <1>4 DEF Types, LeftInv
    <2>2. LockInv'
      BY <1>2, <1>3 DEF Types, LockInv, Locked
    <2>3. NvInv'
      BY <1>2 DEF NvInv
    <2>4. ExitInv'
      BY <1>2 DEF Types, ExitInv, ExitPcs
    <2> QED
      BY <2>1, <2>2, <2>3, <2>4
  <1>7. \A r \in Slots : Described(r)' <=> Described(r)
    BY <1>2, <1>3 DEF Types, Described, Mapping, Locked
  <1>8. \A q \in Pins : MayCall(q)' <=> MayCall(q)
    BY <1>2 DEF MayCall
  <1>9. SlotInv' /\ OwnerInv'
    BY <1>2, <1>7, <1>8 DEF SlotInv, OwnerInv
  <1>10. CallInv'
    BY <1>1, <1>2, <1>3, <1>4 DEF Types, CallInv, Locked
  <1>11. ExitLeavesNoPin' /\ UnpinnedIsReleased'
    BY <1>2, <1>4 DEF Types, ExitLeavesNoPin, UnpinnedIsReleased
  <1>12. /\ At("pinned")' = At("pinned") /\ At("counting")' = At("counting")
         /\ At("mapping")' = At("mapping") /\ InUse' = InUse /\ Born' = Born
    BY <1>2 DEF Types, At, InUse, Born
  <1>13. StatInv'
    BY <1>2, <1>12 DEF StatInv
  <1> QED
    BY <1>5, <1>6, <1>9, <1>10, <1>11, <1>13

(* The end of an unpin: the slot is free, and the pin released or already  *)
(* taken away by a revocation that began after the unpin did.              *)
LEMMA SlotFreedStep ==
    ASSUME GInv, NEW t \in Threads, pc[t] \in {"releasing", "putting"},
           SlotFreed(call[t].slot), Goto(t, "counting"),
           \/ nv' = [nv EXCEPT ![call[t].pin] = "released"]
           \/ nv' = nv /\ nv[call[t].pin] = "revoked" /\ ~call[t].was,
           nvlock = call[t].pin => cb # "set",
           UNCHANGED <<data, nvlock, cb, loaded, mrs, stats, call>>
    PROVE  GInv'
  <1> USE DEF GInv
  <1>1. PICK s \in Slots : s = call[t].slot /\ in_use[s]
    BY DEF CallInv
  <1>2. PICK p \in Pins : p = call[t].pin /\ page_table[s] = p
    BY <1>1 DEF CallInv
  <1>3. /\ pc' = [pc EXCEPT ![t] = "counting"]
        /\ page_table' = [page_table EXCEPT ![s] = None]
        /\ in_use' = [in_use EXCEPT ![s] = FALSE]
        /\ gpu_buf_lock' = None
        /\ UNCHANGED <<loaded, bar_pages, rdma_vaddr, gpu_revoked, mrs, call,
                       pins_total, unpins_total, callbacks_fired, data, nvlock, cb>>
    BY <1>1 DEF SlotFreed, Goto, stats
  <1>4. \A u \in Threads : pc[u] \in Locked <=> u = t
    BY HolderAlone DEF Locked
  <1>5. \A r \in Slots : Described(r)' <=> Described(r) /\ r # s
    BY <1>1, <1>3, <1>4 DEF Types, Described, Mapping, Locked
  <1>6. \A r \in Slots \ {s} : page_table'[r] = page_table[r]
    BY <1>3 DEF Types
  <1>7. /\ SlotInv' /\ OwnerInv' /\ NvInv' /\ Cardinality(Born)' = Cardinality(Born)
        /\ \A q \in Pins : nv'[q] = nv[q] \/ (q = p /\ nv'[q] = "released")
    BY <1>1, <1>2, <1>3, <1>5, <1>6, GiveUpPin
  <1>8. Types'
    <2>1. nv' \in [Pins -> {"unborn", "pinned", "revoked", "released"}]
      BY <1>2 DEF Types
    <2> QED
      BY <1>3, <2>1 DEF Types, Pcs
  <1>9. LeftInv' /\ LockInv' /\ ExitInv'
    <2>1. LeftInv'
      BY <1>3 DEF Types, LeftInv
    <2>2. LockInv'
      BY <1>3, <1>4, Constants DEF Types, LockInv, Locked
    <2>3. ExitInv'
      BY <1>3 DEF Types, ExitInv, ExitPcs
    <2> QED
      BY <2>1, <2>2, <2>3
  <1>10. CallInv'
    BY <1>1, <1>2, <1>3, <1>4 DEF Types, CallInv, Locked
  <1>11. ExitLeavesNoPin'
    BY <1>3, <1>7 DEF Types, ExitLeavesNoPin
  <1>12. UnpinnedIsReleased'
    <2> SUFFICES ASSUME NEW u \in Threads, pc'[u] = "counting"
                 PROVE  \/ nv'[call[u].pin] = "released"
                        \/ nv'[call[u].pin] = "revoked" /\ ~call[u].was
      BY <1>3 DEF UnpinnedIsReleased
    <2>1. CASE u = t
      BY <1>2, <2>1 DEF Types
    <2>2. CASE u # t
      <3>1. pc[u] = "counting" /\ call[u].pin \in Pins
        BY <1>3, <2>2 DEF Types, CallInv
      <3> QED
        BY <1>7, <3>1 DEF UnpinnedIsReleased
    <2> QED
      BY <2>1, <2>2
  <1>13. StatInv'
    <2>1. /\ "mapping" \in Pcs /\ "pinned" \in Pcs /\ "counting" \in Pcs
          /\ pc[t] # "mapping" /\ pc[t] # "pinned" /\ pc[t] # "counting"
      BY DEF Pcs
    <2>2. /\ Cardinality(At("mapping"))' = Cardinality(At("mapping"))
          /\ Cardinality(At("pinned"))' = Cardinality(At("pinned"))
          /\ Cardinality(At("counting"))' = Cardinality(At("counting")) + 1
      <3>1. Types /\ t \in Threads /\ pc' = [pc EXCEPT ![t] = "counting"]
        BY <1>3
      <3> QED
        BY ONLY <2>1, <3>1, AtMove
    <2>3. InUse' = InUse \ {s} /\ s \in InUse
      BY <1>1, <1>3 DEF Types, InUse
    <2>4. Cardinality(InUse)' = Cardinality(InUse) - 1
      BY <2>3, CountsFinite, FS_RemoveElement
    <2> QED
      BY <1>3, <1>7, <2>1, <2>2, <2>4, CountsFinite DEF StatInv
  <1> QED
    BY <1>7, <1>8, <1>9, <1>10, <1>11, <1>12, <1>13

(* The second read of gpu_revoked: a set flag means that the callback has  *)
(* done with the slot.                                                     *)
LEMMA ReadRevokedStep ==
    ASSUME GInv, NEW t \in Threads, ReadRevoked(t)
    PROVE  GInv'
  <1> USE DEF GInv
  <1>1. PICK s \in Slots : s = call[t].slot /\ in_use[s]
    BY DEF ReadRevoked, CallInv
  <1>2. PICK p \in Pins : p = call[t].pin /\ page_table[s] = p
    BY <1>1 DEF ReadRevoked, CallInv
  <1>3. CASE gpu_revoked[s]
    <2>1. nvlock = p => cb # "set"
      BY <1>1, <1>2, <1>3 DEF SlotInv, Described, MayCall
    <2> QED
      BY <1>1, <1>2, <1>3, <2>1, SlotFreedStep DEF ReadRevoked
  <1>4. CASE ~gpu_revoked[s]
    <2>1. /\ pc[t] = "releasing" /\ pc' = [pc EXCEPT ![t] = "putting"]
          /\ UNCHANGED <<loaded, in_use, page_table, bar_pages, rdma_vaddr, gpu_revoked,
                         gpu_buf_lock, mrs, pins_total, unpins_total, callbacks_fired,
                         nv, data, nvlock, cb, call>>
      BY <1>1, <1>4 DEF ReadRevoked, Goto, slotvars, stats, nvvars
    <2>2. Types' /\ LeftInv' /\ LockInv' /\ NvInv' /\ ExitInv'
      <3>1. Types'
        BY <2>1 DEF Types, Pcs
      <3>2. LeftInv' /\ LockInv'
        BY <2>1 DEF Types, LeftInv, LockInv, Locked
      <3>3. NvInv' /\ ExitInv'
        BY <2>1 DEF Types, NvInv, ExitInv, ExitPcs
      <3> QED
        BY <3>1, <3>2, <3>3
    <2>3. \A r \in Slots : Described(r)' <=> Described(r)
      BY <2>1 DEF Types, Described, Mapping
    <2>4. SlotInv' /\ OwnerInv'
      BY <2>1, <2>3 DEF SlotInv, OwnerInv, MayCall
    <2>5. CallInv'
      BY <1>1, <1>4, <2>1 DEF Types, CallInv
    <2>6. ExitLeavesNoPin' /\ UnpinnedIsReleased'
      BY <2>1 DEF Types, ExitLeavesNoPin, UnpinnedIsReleased
    <2>7. /\ At("pinned")' = At("pinned") /\ At("counting")' = At("counting")
          /\ At("mapping")' = At("mapping") /\ InUse' = InUse /\ Born' = Born
      BY <2>1 DEF Types, At, InUse, Born
    <2>8. StatInv'
      BY <2>1, <2>7 DEF StatInv
    <2> QED
      BY <2>2, <2>4, <2>5, <2>6, <2>8
  <1> QED
    BY <1>1, <1>3, <1>4 DEF Types

(* put_pages waits until no callback runs.                                 *)
LEMMA UnpinPutsStep ==
    ASSUME GInv, NEW t \in Threads, UnpinPuts(t)
    PROVE  GInv'
  <1>1. /\ pc[t] = "putting" /\ call[t].pin \in Pins /\ call[t].slot \in Slots
        /\ in_use[call[t].slot] /\ page_table[call[t].slot] = call[t].pin /\ ~call[t].was
    BY DEF UnpinPuts, GInv, CallInv
  <1>2. nv[call[t].pin] \in {"pinned", "revoked"}
    BY <1>1 DEF GInv, SlotInv, Described
  <1>3. nvlock = None /\ nvlock # call[t].pin
    BY <1>1, Constants DEF UnpinPuts, PutPages
  <1> QED
    BY <1>1, <1>2, <1>3, SlotFreedStep DEF UnpinPuts, PutPages

(* The unpin is counted, for an ioctl or for the loop of module exit.      *)
LEMMA UnpinReturnsStep ==
    ASSUME GInv, NEW t \in Threads, UnpinReturns(t)
    PROVE  GInv'
  <1> USE DEF GInv
  <1>1. PICK l \in {"idle", "exit"} : /\ pc' = [pc EXCEPT ![t] = l]
                                      /\ l = IF loaded THEN "idle" ELSE "exit"
    BY DEF UnpinReturns, Leave, Goto
  <1>2. PICK n \in {0, 1} : callbacks_fired' = callbacks_fired + n
    BY DEF UnpinReturns
  <1>3. /\ pc[t] = "counting" /\ unpins_total' = unpins_total + 1
        /\ call' = [call EXCEPT ![t] = NoCall]
        /\ UNCHANGED <<loaded, in_use, page_table, bar_pages, rdma_vaddr, gpu_revoked,
                       gpu_buf_lock, mrs, pins_total, nv, data, nvlock, cb>>
    BY DEF UnpinReturns, Leave, slotvars, nvvars
  <1>4. NoCall \in Calls /\ NoCall.left = 0
    BY Constants DEF NoCall
  <1>5. Types'
    BY <1>1, <1>3, <1>4 DEF Types, Pcs
  <1>6. LeftInv' /\ LockInv' /\ NvInv' /\ ExitInv'
    <2>1. LeftInv'
      BY <1>1, <1>3, <1>4 DEF Types, LeftInv
    <2>2. LockInv'
      BY <1>1, <1>3 DEF Types, LockInv, Locked
    <2>3. NvInv'
      BY <1>3 DEF NvInv
    <2>4. ExitInv'
      BY <1>1, <1>3 DEF Types, ExitInv, ExitPcs
    <2> QED
      BY <2>1, <2>2, <2>3, <2>4
  <1>7. \A r \in Slots : Described(r)' <=> Described(r)
    BY <1>1, <1>3 DEF Types, Described, Mapping
  <1>8. SlotInv' /\ OwnerInv'
    BY <1>3, <1>7 DEF SlotInv, OwnerInv, MayCall
  <1>9. CallInv'
    BY <1>1, <1>3 DEF Types, CallInv
  <1>10. ExitLeavesNoPin' /\ UnpinnedIsReleased'
    BY <1>1, <1>3 DEF Types, ExitLeavesNoPin, UnpinnedIsReleased
  <1>11. StatInv'
    <2>1. /\ "mapping" \in Pcs /\ "pinned" \in Pcs /\ "counting" \in Pcs
          /\ l \in Pcs /\ l \notin {"mapping", "pinned", "counting"}
      BY DEF Pcs
    <2>2. /\ Cardinality(At("mapping"))' = Cardinality(At("mapping"))
          /\ Cardinality(At("pinned"))' = Cardinality(At("pinned"))
          /\ Cardinality(At("counting"))' = Cardinality(At("counting")) - 1
      BY <1>1, <1>3, <2>1, AtMove
    <2>3. InUse' = InUse /\ Born' = Born
      BY <1>3 DEF InUse, Born
    <2> QED
      BY <1>2, <1>3, <2>1, <2>2, <2>3, CountsFinite DEF StatInv
  <1> QED
    BY <1>5, <1>6, <1>8, <1>9, <1>10, <1>11

-----------------------------------------------------------------------------
\* Module exit

(* Exit begins when no ioctl runs.                                         *)
LEMMA ExitStartStep ==
    ASSUME GInv, NEW t \in Threads, ExitStart(t)
    PROVE  GInv'
  <1> USE DEF GInv
  <1>1. /\ \A u \in Threads : pc[u] = "idle"
        /\ loaded' = FALSE /\ pc' = [pc EXCEPT ![t] = "exit"]
        /\ mrs' = [m \in Mrs |-> None]
        /\ UNCHANGED <<in_use, page_table, bar_pages, rdma_vaddr, gpu_revoked, gpu_buf_lock,
                       pins_total, unpins_total, callbacks_fired, nv, data, nvlock, cb, call>>
    BY DEF ExitStart, Goto, slotvars, stats, nvvars
  <1>2. Types'
    BY <1>1 DEF Types, Pcs
  <1>3. LeftInv' /\ LockInv' /\ NvInv' /\ ExitInv'
    <2>1. LeftInv' /\ LockInv'
      BY <1>1 DEF Types, LeftInv, LockInv, Locked
    <2>2. NvInv'
      BY <1>1 DEF NvInv
    <2>3. ExitInv'
      BY <1>1 DEF Types, ExitInv, ExitPcs
    <2> QED
      BY <2>1, <2>2, <2>3
  <1>4. \A r \in Slots : Described(r)' <=> Described(r)
    BY <1>1 DEF Types, Described, Mapping
  <1>5. SlotInv' /\ OwnerInv'
    BY <1>1, <1>4 DEF SlotInv, OwnerInv, MayCall
  <1>6. CallInv' /\ ExitLeavesNoPin' /\ UnpinnedIsReleased'
    BY <1>1 DEF Types, CallInv, ExitLeavesNoPin, UnpinnedIsReleased
  <1>7. /\ At("pinned")' = At("pinned") /\ At("counting")' = At("counting")
        /\ At("mapping")' = At("mapping") /\ InUse' = InUse /\ Born' = Born
    BY <1>1 DEF Types, At, InUse, Born
  <1>8. StatInv'
    BY <1>1, <1>7 DEF StatInv
  <1> QED
    BY <1>2, <1>3, <1>5, <1>6, <1>8

(* Exit ends when every slot is free: whatever NVIDIA still held would be  *)
(* described by one.                                                       *)
LEMMA ExitEndStep ==
    ASSUME GInv, NEW t \in Threads, ExitEnd(t)
    PROVE  GInv'
  <1> USE DEF GInv
  <1>1. /\ pc[t] = "exit" /\ pc' = [pc EXCEPT ![t] = "gone"]
        /\ \A s \in Slots : ~in_use[s]
        /\ UNCHANGED <<loaded, in_use, page_table, bar_pages, rdma_vaddr, gpu_revoked,
                       gpu_buf_lock, mrs, pins_total, unpins_total, callbacks_fired,
                       nv, data, nvlock, cb, call>>
    BY DEF ExitEnd, FreeSlots, Goto, slotvars, stats, nvvars
  <1>2. Types'
    BY <1>1 DEF Types, Pcs
  <1>3. LeftInv' /\ LockInv' /\ NvInv' /\ ExitInv'
    <2>1. LeftInv' /\ LockInv'
      BY <1>1 DEF Types, LeftInv, LockInv, Locked
    <2>2. NvInv'
      BY <1>1 DEF NvInv
    <2>3. ExitInv'
      BY <1>1 DEF Types, ExitInv, ExitPcs
    <2> QED
      BY <2>1, <2>2, <2>3
  <1>4. \A r \in Slots : Described(r)' <=> Described(r)
    BY <1>1 DEF Types, Described, Mapping
  <1>5. SlotInv' /\ OwnerInv'
    BY <1>1, <1>4 DEF SlotInv, OwnerInv, MayCall
  <1>6. CallInv' /\ UnpinnedIsReleased'
    BY <1>1 DEF Types, CallInv, UnpinnedIsReleased
  <1>7. ExitLeavesNoPin'
    <2>1. \A u \in Threads : pc[u] # "mapping"
      BY <1>1 DEF ExitInv, ExitPcs
    <2>2. \A s \in Slots : ~Described(s)
      BY <1>1, <2>1 DEF Described, Mapping
    <2>3. \A p \in Pins : nv[p] # "pinned"
      BY <2>2 DEF OwnerInv, MayCall
    <2> QED
      BY <1>1, <2>3 DEF ExitLeavesNoPin
  <1>8. /\ At("pinned")' = At("pinned") /\ At("counting")' = At("counting")
        /\ At("mapping")' = At("mapping") /\ InUse' = InUse /\ Born' = Born
    BY <1>1 DEF Types, At, InUse, Born
  <1>9. StatInv'
    BY <1>1, <1>8 DEF StatInv
  <1> QED
    BY <1>2, <1>3, <1>5, <1>6, <1>7, <1>9

-----------------------------------------------------------------------------
\* Theorems

(* Every step preserves the inductive invariant.                           *)
LEMMA StepGInv == GInv /\ [Next]_vars => GInv'
  <1> SUFFICES ASSUME GInv, [Next]_vars PROVE GInv'
    OBVIOUS
  <1>1. ASSUME NEW t \in Threads, Enters(t) PROVE GInv'
    BY <1>1, PinLockStep, UnpinLockStep, QuietActions, ExitStartStep DEF Enters
  <1>2. ASSUME NEW t \in Threads, Waits(t) PROVE GInv'
    BY <1>2, UnpinLockStep, QuietActions DEF Waits
  <1>3. ASSUME NEW t \in Threads, Steps(t) PROVE GInv'
    <2>1. CASE GetPages(t) \/ GetPagesFails(t) \/ MappingFails(t)
               \/ \E b \in BOOLEAN : Mapped(t, b) \/ PinReturns(t, b)
      BY <2>1, GetPagesStep, GetPagesFailsStep, MappingFailsStep, MappedStep, PinReturnsStep
    <2>2. CASE ReadRevoked(t) \/ UnpinPuts(t) \/ UnpinReturns(t) \/ ExitEnd(t)
      BY <2>2, ReadRevokedStep, UnpinPutsStep, UnpinReturnsStep, ExitEndStep
    <2>3. CASE \/ CopyRefused(t) \/ CopyStart(t) \/ CopyEnd(t)
               \/ RegisterFails(t) \/ \E b \in BOOLEAN : RegisterPublish(t, b)
               \/ LoopbackReturns(t)
      BY <2>3, QuietActions
    <2> QED
      BY <1>3, <2>1, <2>2, <2>3 DEF Steps
  <1>4. CASE \E p \in Pins : Revoke(p)
    BY <1>4, RevokeStep
  <1>5. CASE Nvidia
    BY <1>5, CallbackSetsStep, CallbackReturnsStep DEF Nvidia
  <1>6. CASE UNCHANGED vars
    BY <1>6, StutterGInv
  <1> QED
    BY <1>1, <1>2, <1>3, <1>4, <1>5, <1>6 DEF Next

(* The inductive invariant holds in every reachable state.                 *)
THEOREM GpuInvariant == Spec => []GInv
  BY InitGInv, StepGInv, PTL DEF Spec

(* A revocation callback finds the buffer its pin was made for, the        *)
(* statistics balance, and no pin outlives the module, however pins,       *)
(* undone pins, unpins, revocations and module exit interleave.            *)
THEOREM PinsAreSafe == Spec => []PinsSafe
  <1>1. ASSUME GInv PROVE TypeOK
    <2>1. /\ pins_total \in 0..MaxPins /\ unpins_total \in 0..MaxPins
          /\ callbacks_fired \in 0..MaxPins
      <3>1. "mapping" \in Pcs /\ "pinned" \in Pcs /\ "counting" \in Pcs
        BY DEF Pcs
      <3> QED
        BY <1>1, <3>1, CountsFinite, Constants DEF GInv, StatInv
    <2>2. \A t \in Threads : /\ call[t].slot \in Slots \cup {None}
                             /\ call[t].pin \in Pins \cup {None}
                             /\ call[t].was \in BOOLEAN
      BY <1>1 DEF GInv, Types, Calls
    <2> QED
      BY <1>1, <2>1, <2>2 DEF GInv, Types, LeftInv, TypeOK, Pcs
  <1>2. ASSUME GInv PROVE CallbackReachesOwner
    <2> SUFFICES ASSUME NEW p \in Pins, nv[p] = "pinned"
                 PROVE  /\ page_table[data[p]] = p
                        /\ in_use[data[p]]
                           \/ (gpu_buf_lock # None /\ call[gpu_buf_lock].slot = data[p])
      BY DEF CallbackReachesOwner
    <2>1. page_table[data[p]] = p /\ Described(data[p])
      BY <1>2 DEF GInv, OwnerInv, MayCall
    <2>2. ASSUME Mapping(data[p])
          PROVE  gpu_buf_lock # None /\ call[gpu_buf_lock].slot = data[p]
      BY <1>2, <2>2, Constants DEF Mapping, GInv, LockInv, Locked
    <2> QED
      BY <2>1, <2>2 DEF Described
  <1>3. ASSUME GInv PROVE StatsBalance
    BY <1>3 DEF GInv, StatInv, StatsBalance, At, InUse
  <1>4. GInv => PinsSafe
    BY <1>1, <1>2, <1>3 DEF PinsSafe, GInv
  <1> QED
    BY <1>4, GpuInvariant, PTL

(* The flag that every copy tests is set exactly when NVIDIA has reclaimed *)
(* the pages, outside the callback that is about to set it.                *)
THEOREM FlagTellsTruth == Spec => []RevokedFlagExact
  <1>1. ASSUME GInv PROVE RevokedFlagExact
    <2> SUFFICES ASSUME NEW s \in Slots, in_use[s], nvlock # page_table[s]
                 PROVE  gpu_revoked[s] <=> nv[page_table[s]] = "revoked"
      BY DEF RevokedFlagExact
    <2>1. /\ page_table[s] \in Pins /\ nv[page_table[s]] \in {"pinned", "revoked"}
          /\ gpu_revoked[s] <=> ~MayCall(page_table[s])
      BY <1>1 DEF GInv, SlotInv, Described
    <2> QED
      BY <2>1 DEF MayCall
  <1> QED
    BY <1>1, GpuInvariant, PTL

(* Every unpin releases the page table, except when the revocation fell    *)
(* between the reads of gpu_revoked and put_pages; a pin whose revocation  *)
(* the unpin saw is never put back.                                        *)
THEOREM UnpinReleases == Spec => []UnpinnedIsReleased
  <1>1. GInv => UnpinnedIsReleased
    BY DEF GInv
  <1> QED
    BY <1>1, GpuInvariant, PTL

-----------------------------------------------------------------------------
\* The walk over the pages of a buffer

(* The quotient and the remainder of a division are the only ones.         *)
LEMMA DivUnique ==
    ASSUME NEW P \in Nat \ {0}, NEW a \in Int, NEW u \in Int, NEW r \in Int,
           a = P * u + r, 0 <= r, r < P
    PROVE  a \div P = u /\ a % P = r
  <1>1. PICK v \in Int : v = a \div P
    OBVIOUS
  <1>2. PICK s \in Int : s = a % P
    OBVIOUS
  <1>3. a = P * v + s /\ 0 <= s /\ s < P
    BY <1>1, <1>2
  <1>4. PICK d \in Int : d = v - u
    OBVIOUS
  <1>5. P * d = P * v - P * u
    BY <1>4
  <1>6. P * d = r - s
    BY <1>3, <1>5
  <1>7. -P < r - s /\ r - s < P
    BY <1>3
  <1>8. ~(d >= 1)
    <2>1. ASSUME d >= 1 PROVE P * d >= P
      BY <2>1
    <2> QED
      BY <1>6, <1>7, <2>1
  <1>9. ~(d <= -1)
    <2>1. ASSUME d <= -1 PROVE P * d <= -P
      BY <2>1
    <2> QED
      BY <1>6, <1>7, <2>1
  <1>10. d = 0
    BY <1>8, <1>9
  <1>11. v = u /\ s = r
    BY <1>3, <1>4, <1>6, <1>10
  <1> QED
    BY <1>1, <1>2, <1>11

(* A position is its page and its offset in the page.                      *)
LEMMA PageOf ==
    ASSUME NEW a \in Nat
    PROVE  /\ a \div PageSize \in Nat /\ a % PageSize \in Nat /\ a % PageSize < PageSize
           /\ a = PageSize * (a \div PageSize) + (a % PageSize)
  <1> DEFINE P == PageSize
  <1>1. P \in Nat \ {0}
    BY GpuAssumption
  <1> HIDE DEF P
  <1>2. PICK u \in Int : u = a \div P
    BY <1>1
  <1>3. PICK r \in Int : r = a % P
    BY <1>1
  <1>4. a = P * u + r /\ 0 <= r /\ r < P
    BY <1>1, <1>2, <1>3
  <1>5. 0 <= u
    <2>1. ASSUME u <= -1 PROVE FALSE
      <3>1. P * u <= -P
        BY <1>1, <2>1
      <3> QED
        BY <1>1, <1>4, <3>1
    <2> QED
      BY <2>1
  <1> QED
    BY <1>2, <1>3, <1>4, <1>5 DEF P

(* Moving on inside a page moves the offset; the page ends at offset 0 of  *)
(* the next one.                                                           *)
LEMMA PageSteps ==
    ASSUME NEW a \in Nat, NEW d \in Nat
    PROVE  /\ d < PageSize - (a % PageSize) => (a + d) % PageSize = (a % PageSize) + d
           /\ d = PageSize - (a % PageSize) => (a + d) % PageSize = 0
           /\ d <= a % PageSize => (a - d) % PageSize = (a % PageSize) - d
  <1> DEFINE P == PageSize
  <1>1. P \in Nat \ {0}
    BY GpuAssumption
  <1>2. PICK u \in Nat, r \in Nat : u = a \div P /\ r = a % P /\ r < P /\ a = P * u + r
    BY PageOf
  <1> HIDE DEF P
  <1>3. ASSUME d < P - r PROVE (a + d) % P = r + d
    <2>1. PICK b \in Int, v \in Int : b = a + d /\ v = r + d
      BY <1>2
    <2>2. b = P * u + v /\ 0 <= v /\ v < P
      <3>1. PICK y \in Int : y = P * u
        BY <1>1, <1>2
      <3>2. b = y + v /\ 0 <= v /\ v < P
        BY <1>1, <1>2, <1>3, <2>1, <3>1
      <3> QED
        BY <3>1, <3>2
    <2>3. b % P = v
      BY <1>1, <2>2, DivUnique
    <2> QED
      BY <2>1, <2>3
  <1>4. ASSUME d = P - r PROVE (a + d) % P = 0
    <2>1. P * (u + 1) = P * u + P
      BY <1>1, <1>2
    <2>2. PICK b \in Int, v \in Int : b = a + d /\ v = u + 1
      BY <1>2
    <2>3. b = P * v + 0 /\ 0 < P
      BY <1>1, <1>2, <1>4, <2>1, <2>2
    <2>4. b % P = 0
      BY <1>1, <2>3, DivUnique
    <2> QED
      BY <2>2, <2>4
  <1>5. ASSUME d <= r PROVE (a - d) % P = r - d
    <2>1. a - d = P * u + (r - d) /\ 0 <= r - d /\ r - d < P
      BY <1>1, <1>2, <1>5
    <2> QED
      BY <1>1, <2>1, DivUnique
  <1> QED
    BY <1>2, <1>3, <1>4, <1>5 DEF P

(* A chunk is not empty, stays in its page and in what remains.            *)
LEMMA ChunkFacts ==
    ASSUME NEW a \in Nat, NEW m \in Nat \ {0}
    PROVE  /\ Chunk(a, m) \in Nat \ {0} /\ Chunk(a, m) <= m
           /\ Chunk(a, m) <= PageSize - (a % PageSize)
           /\ Chunk(a, m) = m \/ Chunk(a, m) = PageSize - (a % PageSize)
  <1>1. PICK P \in Nat : P = PageSize
    BY GpuAssumption
  <1>2. PICK r \in Nat : r = a % PageSize /\ r < P
    BY <1>1, PageOf
  <1>3. Chunk(a, m) = IF P - r > m THEN m ELSE P - r
    BY <1>1, <1>2 DEF Chunk
  <1> QED
    BY <1>1, <1>2, <1>3

(* Where the calls of a walk from pos start: at pos and at every page.     *)
WalkStarts(o, n, pos) == {q \in pos..(n - 1) : q = pos \/ (o + q) % PageSize = 0}

WalkCall(o, n, q) ==
    <<(o + q) \div PageSize, (o + q) % PageSize, q, Chunk(o + q, n - q)>>

WalkCalls(o, n, pos) == {WalkCall(o, n, q) : q \in WalkStarts(o, n, pos)}

(* The walk as the code takes it, from pos on.                             *)
WalkRec(o, n, w) ==
    [pos \in 0..n |->
        IF pos = n THEN {}
        ELSE {WalkCall(o, n, pos)} \cup w[pos + Chunk(o + pos, n - pos)]]

(* The next start after pos is where its chunk ends.                       *)
LEMMA NextStart ==
    ASSUME NEW o \in Nat, NEW n \in Nat, NEW pos \in 0..n, pos # n
    PROVE  /\ pos + Chunk(o + pos, n - pos) \in 0..n
           /\ pos + Chunk(o + pos, n - pos) > pos
           /\ WalkStarts(o, n, pos)
                = {pos} \cup WalkStarts(o, n, pos + Chunk(o + pos, n - pos))
  <1>1. pos \in Nat /\ o + pos \in Nat /\ n - pos \in Nat \ {0}
    OBVIOUS
  <1>2. PICK P \in Nat : P = PageSize
    BY GpuAssumption
  <1>3. PICK r \in Nat : r = (o + pos) % PageSize /\ r < P
    BY <1>1, <1>2, PageOf
  <1>3a. PICK a \in Nat, m \in Nat \ {0} : a = o + pos /\ m = n - pos
    BY <1>1
  <1>4. PICK c \in Nat : /\ c = Chunk(o + pos, n - pos) /\ c > 0 /\ c <= n - pos
                         /\ c <= P - r /\ (c = n - pos \/ c = P - r)
    <2>1. /\ Chunk(a, m) \in Nat \ {0} /\ Chunk(a, m) <= m
          /\ Chunk(a, m) <= PageSize - (a % PageSize)
          /\ Chunk(a, m) = m \/ Chunk(a, m) = PageSize - (a % PageSize)
      BY ChunkFacts
    <2>2. PICK c \in Nat \ {0} : c = Chunk(a, m)
      BY <2>1
    <2>3. c > 0 /\ c <= m /\ c <= P - r /\ (c = m \/ c = P - r)
      BY <1>2, <1>3, <1>3a, <2>1, <2>2
    <2> QED
      BY <1>3a, <2>2, <2>3
  <1>5. ASSUME NEW q \in pos..(n - 1), q > pos, q < pos + c
        PROVE  (o + q) % PageSize # 0
    <2>1. PICK d \in Nat : d = q - pos
      BY <1>1, <1>5
    <2>2. d < P - r /\ d > 0 /\ a + d = o + q
      BY <1>1, <1>3, <1>4, <1>5, <1>3a, <2>1
    <2>3. (a + d) % PageSize = r + d
      BY <1>2, <1>3, <1>3a, <2>2, PageSteps
    <2>4. (o + q) % PageSize = r + d
      BY <2>2, <2>3
    <2> QED
      BY <1>3, <2>2, <2>4
  <1>6. ASSUME pos + c < n PROVE (o + (pos + c)) % PageSize = 0
    <2>1. c = P - r /\ a + c = o + (pos + c)
      BY <1>1, <1>3, <1>4, <1>6, <1>3a
    <2>2. (a + c) % PageSize = 0
      BY <1>2, <1>3, <1>4, <1>3a, <2>1, PageSteps
    <2> QED
      BY <2>1, <2>2
  <1>7. ASSUME NEW q \in WalkStarts(o, n, pos)
        PROVE  q \in {pos} \cup WalkStarts(o, n, pos + c)
    <2>1. q \in pos..(n - 1) /\ (q = pos \/ (o + q) % PageSize = 0)
      BY <1>7 DEF WalkStarts
    <2>2. q = pos \/ q >= pos + c
      BY <1>1, <1>4, <1>5, <2>1
    <2>3. q # pos => q \in (pos + c)..(n - 1)
      BY <1>1, <1>4, <2>1, <2>2
    <2> QED
      BY <2>1, <2>3 DEF WalkStarts
  <1>8. ASSUME NEW q \in {pos} \cup WalkStarts(o, n, pos + c)
        PROVE  q \in WalkStarts(o, n, pos)
    <2>1. CASE q = pos
      <3>1. pos \in pos..(n - 1)
        BY <1>1
      <3> QED
        BY <2>1, <3>1 DEF WalkStarts
    <2>2. CASE q \in WalkStarts(o, n, pos + c)
      <3>1. q \in (pos + c)..(n - 1) /\ (q = pos + c \/ (o + q) % PageSize = 0)
        BY <2>2 DEF WalkStarts
      <3>2. q \in pos..(n - 1) /\ (q = pos + c => pos + c < n)
        BY <1>1, <1>4, <3>1
      <3>3. (o + q) % PageSize = 0
        BY <1>6, <3>1, <3>2
      <3> QED
        BY <3>2, <3>3 DEF WalkStarts
    <2> QED
      BY <1>8, <2>1, <2>2
  <1>9. WalkStarts(o, n, pos) = {pos} \cup WalkStarts(o, n, pos + c)
    BY <1>7, <1>8
  <1>10. pos + c \in 0..n /\ pos + c > pos
    BY <1>1, <1>4
  <1> QED
    BY <1>4, <1>9, <1>10

(* The code's walk makes these calls, whatever function describes it.      *)
LEMMA WalkUnique ==
    ASSUME NEW o \in Nat, NEW n \in Nat, NEW w, w = WalkRec(o, n, w)
    PROVE  \A pos \in 0..n : w[pos] = WalkCalls(o, n, pos)
  <1> SUFFICES ASSUME NEW p \in 0..n, w[p] # WalkCalls(o, n, p) PROVE FALSE
    OBVIOUS
  <1> DEFINE T == {m \in 0..n : w[n - m] # WalkCalls(o, n, n - m)}
  <1>1. n - p \in 0..n /\ n - (n - p) = p
    OBVIOUS
  <1>2. T \subseteq Nat /\ T # {}
    <2>1. T \subseteq Nat
      OBVIOUS
    <2>2. PICK m \in 0..n : m = n - p /\ n - m = p
      BY <1>1
    <2>3. m \in T
      BY <2>2
    <2> QED
      BY <2>1, <2>3
  <1>3. PICK x \in T : \A y \in T : x <= y
    BY <1>2, SmallestNat
  <1>4. x \in 0..n /\ w[n - x] # WalkCalls(o, n, n - x)
    BY <1>3
  <1>5. PICK pos \in 0..n : pos = n - x
    BY <1>4
  <1>6. ASSUME NEW q \in 0..n, q > pos PROVE w[q] = WalkCalls(o, n, q)
    <2>1. PICK y \in 0..n : y = n - q
      BY <1>6
    <2>2. y < x /\ n - y = q
      BY <1>4, <1>5, <1>6, <2>1
    <2>3. y \notin T
      BY <1>3, <1>4, <2>1, <2>2
    <2> QED
      BY <2>2, <2>3
  <1>7. w[pos] = IF pos = n THEN {}
                 ELSE {WalkCall(o, n, pos)} \cup w[pos + Chunk(o + pos, n - pos)]
    BY DEF WalkRec
  <1> HIDE DEF T
  <1>8. CASE pos = n
    <2>1. WalkStarts(o, n, n) = {}
      BY DEF WalkStarts
    <2> QED
      BY <1>4, <1>5, <1>7, <1>8, <2>1 DEF WalkCalls
  <1>9. CASE pos # n
    <2>1. PICK q \in 0..n : /\ q = pos + Chunk(o + pos, n - pos) /\ q > pos
                            /\ WalkStarts(o, n, pos) = {pos} \cup WalkStarts(o, n, q)
      <3>1. /\ pos + Chunk(o + pos, n - pos) \in 0..n
            /\ pos + Chunk(o + pos, n - pos) > pos
            /\ WalkStarts(o, n, pos)
                 = {pos} \cup WalkStarts(o, n, pos + Chunk(o + pos, n - pos))
        BY <1>9, NextStart
      <3> QED
        BY <3>1
    <2>2. w[pos] = {WalkCall(o, n, pos)} \cup WalkCalls(o, n, q)
      BY <1>6, <1>7, <1>9, <2>1
    <2>3. WalkCalls(o, n, pos) = {WalkCall(o, n, pos)} \cup WalkCalls(o, n, q)
      BY <2>1 DEF WalkCalls
    <2> QED
      BY <1>4, <1>5, <2>2, <2>3
  <1> QED
    BY <1>8, <1>9

(* There is such a function.                                               *)
LEMMA WalkExists ==
    ASSUME NEW o \in Nat, NEW n \in Nat
    PROVE  \E w : w = WalkRec(o, n, w)
  <1> DEFINE f == [pos \in 0..n |-> WalkCalls(o, n, pos)]
  <1>1. ASSUME NEW pos \in 0..n
        PROVE  f[pos] = IF pos = n THEN {}
                        ELSE {WalkCall(o, n, pos)} \cup f[pos + Chunk(o + pos, n - pos)]
    <2>1. CASE pos = n
      <3>1. WalkStarts(o, n, n) = {}
        BY DEF WalkStarts
      <3> QED
        BY <2>1, <3>1 DEF WalkCalls
    <2>2. CASE pos # n
      <3>1. PICK q \in 0..n : /\ q = pos + Chunk(o + pos, n - pos)
                              /\ WalkStarts(o, n, pos) = {pos} \cup WalkStarts(o, n, q)
        <4>1. /\ pos + Chunk(o + pos, n - pos) \in 0..n
              /\ WalkStarts(o, n, pos)
                   = {pos} \cup WalkStarts(o, n, pos + Chunk(o + pos, n - pos))
          BY <2>2, NextStart
        <4> QED
          BY <4>1
      <3>2. WalkCalls(o, n, pos) = {WalkCall(o, n, pos)} \cup WalkCalls(o, n, q)
        BY <3>1 DEF WalkCalls
      <3> QED
        BY <2>2, <3>1, <3>2
    <2> QED
      BY <2>1, <2>2
  <1>2. f = WalkRec(o, n, f)
    BY <1>1 DEF WalkRec
  <1> QED
    BY <1>2

(* What the loop of gpu_bar_memcpy_fromio does: one call at the offset and *)
(* one at every page that begins inside the range.                         *)
LEMMA WalkIs ==
    ASSUME NEW o \in Nat, NEW n \in Nat
    PROVE  BarMemcpy(o, n) = WalkCalls(o, n, 0)
  <1> DEFINE W == CHOOSE w : w = WalkRec(o, n, w)
  <1>1. BarMemcpy(o, n) = W[0]
    BY DEF BarMemcpy, WalkRec, WalkCall
  <1>2. W = WalkRec(o, n, W)
    BY WalkExists
  <1> HIDE DEF W
  <1>3. 0 \in 0..n
    OBVIOUS
  <1> QED
    BY <1>1, <1>2, <1>3, WalkUnique

(* Every call stays in its page and its page is one of the buffer's.       *)
LEMMA WalkInside ==
    ASSUME NEW o \in Nat, NEW n \in Nat, o + n <= BufSize, NEW q \in WalkStarts(o, n, 0)
    PROVE  /\ q \in 0..(n - 1)
           /\ (o + q) \div PageSize < NumPages
           /\ Chunk(o + q, n - q) \in Nat \ {0}
           /\ ((o + q) % PageSize) + Chunk(o + q, n - q) <= PageSize
  <1>1. q \in 0..(n - 1)
    BY DEF WalkStarts
  <1>2. PICK a \in Nat, m \in Nat \ {0} : a = o + q /\ m = n - q
    BY <1>1
  <1>3. PICK P \in Nat \ {0}, N \in Nat \ {0} : P = PageSize /\ N = NumPages
    BY GpuAssumption
  <1>4. PICK u \in Nat, r \in Nat : u = a \div PageSize /\ r = a % PageSize /\ r < P /\ a = P * u + r
    BY <1>3, PageOf
  <1>5. PICK c \in Nat \ {0} : c = Chunk(a, m) /\ c <= P - r
    BY <1>3, <1>4, ChunkFacts
  <1>6. u < N
    <2>1. PICK z \in Nat : z = P * N
      BY <1>3
    <2>2. a < z
      <3>1. o + n <= z
        BY <1>3, <2>1 DEF BufSize
      <3> QED
        BY <1>1, <1>2, <3>1
    <2>3. ASSUME u >= N PROVE FALSE
      <3>1. P * u >= P * N
        BY <1>3, <1>4, <2>3
      <3>2. PICK y \in Nat : y = P * u
        BY <1>3, <1>4
      <3> QED
        BY <1>4, <2>1, <2>2, <3>1, <3>2
    <2> QED
      BY <1>3, <1>4, <2>3
  <1>7. r + c <= P
    BY <1>3, <1>4, <1>5
  <1> QED
    BY <1>1, <1>2, <1>3, <1>4, <1>5, <1>6, <1>7

(* A call ends where the next one begins, or before.                       *)
LEMMA WalkDisjoint ==
    ASSUME NEW o \in Nat, NEW n \in Nat,
           NEW q \in WalkStarts(o, n, 0), NEW s \in WalkStarts(o, n, 0), q < s
    PROVE  q + Chunk(o + q, n - q) <= s
  <1>1. q \in 0..(n - 1) /\ s \in 0..(n - 1) /\ (s = 0 \/ (o + s) % PageSize = 0)
    BY DEF WalkStarts
  <1>2. PICK a \in Nat, m \in Nat \ {0}, d \in Nat : a = o + q /\ m = n - q /\ d = s - q
    BY <1>1
  <1>3. PICK P \in Nat \ {0} : P = PageSize
    BY GpuAssumption
  <1>4. PICK r \in Nat : r = a % PageSize /\ r < P
    BY <1>3, PageOf
  <1>5. PICK c \in Nat \ {0} : c = Chunk(a, m) /\ c <= P - r
    BY <1>3, <1>4, ChunkFacts
  <1>6. a + d = o + s /\ d > 0 /\ s # 0
    BY <1>1, <1>2
  <1>7. (a + d) % PageSize = 0
    BY <1>1, <1>6
  <1>8. ASSUME d < P - r PROVE FALSE
    <2>1. (a + d) % PageSize = r + d
      BY <1>3, <1>4, <1>8, PageSteps
    <2> QED
      BY <1>4, <1>6, <1>7, <2>1
  <1>9. c <= d
    BY <1>3, <1>4, <1>5, <1>8
  <1>10. q + c <= s
    BY <1>1, <1>2, <1>9
  <1> QED
    BY <1>2, <1>5, <1>10

(* Every byte lies in a call: the one at its page, or the first one.       *)
LEMMA WalkCovers ==
    ASSUME NEW o \in Nat, NEW n \in Nat, NEW k \in 0..(n - 1)
    PROVE  \E q \in WalkStarts(o, n, 0) : q <= k /\ k < q + Chunk(o + q, n - q)
  <1>1. PICK P \in Nat \ {0} : P = PageSize
    BY GpuAssumption
  <1>2. PICK b \in Nat : b = o + k
    OBVIOUS
  <1>3. PICK r \in Nat : r = b % PageSize /\ r < P
    BY <1>1, PageOf
  <1>4. PICK q \in 0..(n - 1) : q = IF r > k THEN 0 ELSE k - r
    BY <1>3
  <1>5. PICK d \in Nat : d = k - q /\ d <= r
    BY <1>3, <1>4
  <1>6. PICK a \in Nat, m \in Nat \ {0} : a = o + q /\ m = n - q /\ a = b - d
    <2>1. o + q \in Nat /\ n - q \in Nat \ {0}
      BY <1>4
    <2>2. o + q = b - d
      BY <1>2, <1>4, <1>5
    <2> QED
      BY <2>1, <2>2
  <1>7. (b - d) % PageSize = r - d
    BY <1>3, <1>5, PageSteps
  <1>8. a % PageSize = r - d
    BY <1>6, <1>7
  <1>9. q \in WalkStarts(o, n, 0)
    <2>1. CASE r > k
      BY <1>4, <2>1 DEF WalkStarts
    <2>2. CASE ~(r > k)
      <3>1. d = r
        BY <1>3, <1>4, <1>5, <2>2
      <3>2. a % PageSize = 0
        BY <1>3, <1>8, <3>1
      <3>3. (o + q) % PageSize = 0
        BY <1>6, <3>2
      <3> QED
        BY <1>4, <3>3 DEF WalkStarts
    <2> QED
      BY <2>1, <2>2
  <1>10. PICK c \in Nat \ {0} : c = Chunk(a, m) /\ (c = m \/ c = P - (r - d))
    BY <1>1, <1>8, ChunkFacts
  <1>11. q <= k /\ k < q + c
    BY <1>1, <1>3, <1>4, <1>5, <1>6, <1>10
  <1> QED
    BY <1>6, <1>9, <1>10, <1>11

(* The byte at k of a call that starts at q is byte o + k of the buffer.   *)
LEMMA WalkPlace ==
    ASSUME NEW o \in Nat, NEW q \in Nat, NEW k \in Nat
    PROVE  ((o + q) \div PageSize) * PageSize + ((o + q) % PageSize) + (k - q) = o + k
  <1>1. PICK a \in Nat : a = o + q
    OBVIOUS
  <1>2. PICK P \in Nat \ {0} : P = PageSize
    BY GpuAssumption
  <1>3. PICK u \in Nat, r \in Nat : u = a \div PageSize /\ r = a % PageSize /\ a = P * u + r
    BY <1>2, PageOf
  <1>4. PICK y \in Nat : y = P * u /\ y = u * P
    BY <1>2, <1>3
  <1>5. y + r + (k - q) = o + k
    BY <1>1, <1>3, <1>4
  <1> QED
    BY <1>1, <1>2, <1>3, <1>4, <1>5

(* Exactly one call moves a byte, and moves it to its own place.           *)
LEMMA WalkOnce ==
    ASSUME NEW o \in Nat, NEW n \in Nat, NEW k \in 0..(n - 1)
    PROVE  Cardinality({c \in WalkCalls(o, n, 0) :
                          c[3] <= k /\ k < c[3] + c[4]
                          /\ c[1] * PageSize + c[2] + (k - c[3]) = o + k}) = 1
  <1> DEFINE S == {c \in WalkCalls(o, n, 0) :
                     c[3] <= k /\ k < c[3] + c[4]
                     /\ c[1] * PageSize + c[2] + (k - c[3]) = o + k}
  <1>1. PICK q \in WalkStarts(o, n, 0) : q <= k /\ k < q + Chunk(o + q, n - q)
    BY WalkCovers
  <1>2. q \in Nat /\ k \in Nat
    BY DEF WalkStarts
  <1>3. PICK x : x = WalkCall(o, n, q)
    OBVIOUS
  <1>4. /\ x[1] = (o + q) \div PageSize /\ x[2] = (o + q) % PageSize
        /\ x[3] = q /\ x[4] = Chunk(o + q, n - q)
    BY <1>3 DEF WalkCall
  <1>5. x[1] * PageSize + x[2] + (k - x[3]) = o + k
    <2>1. ((o + q) \div PageSize) * PageSize + ((o + q) % PageSize) + (k - q) = o + k
      BY <1>2, WalkPlace
    <2> QED
      BY <1>4, <2>1, Zenon
  <1>6. x \in WalkCalls(o, n, 0)
    BY <1>3 DEF WalkCalls
  <1>7. x \in S
    BY <1>1, <1>4, <1>5, <1>6
  <1>8. ASSUME NEW y \in S PROVE y = x
    <2>1. PICK s \in WalkStarts(o, n, 0) : y = WalkCall(o, n, s)
      BY <1>8 DEF WalkCalls
    <2>2. s <= k /\ k < s + Chunk(o + s, n - s)
      BY <1>8, <2>1 DEF WalkCall
    <2> HIDE DEF S
    <2>3. s \in Nat /\ n - s \in Nat \ {0} /\ n - q \in Nat \ {0}
      BY DEF WalkStarts
    <2>4. ~(q < s)
      <3>1. SUFFICES ASSUME q < s PROVE FALSE
        OBVIOUS
      <3>2. q + Chunk(o + q, n - q) <= s
        BY <3>1, WalkDisjoint
      <3>3. PICK m \in Nat \ {0}, a \in Nat : m = n - q /\ a = o + q
        BY <1>2, <2>3
      <3>4. PICK c \in Nat : c = Chunk(a, m)
        BY ChunkFacts
      <3>5. q + c <= s /\ k < q + c
        BY <1>1, <3>2, <3>3, <3>4
      <3> QED
        BY <1>2, <2>2, <2>3, <3>5
    <2>5. ~(s < q)
      <3>1. SUFFICES ASSUME s < q PROVE FALSE
        OBVIOUS
      <3>2. s + Chunk(o + s, n - s) <= q
        BY <3>1, WalkDisjoint
      <3>3. PICK m \in Nat \ {0}, a \in Nat : m = n - s /\ a = o + s
        BY <2>3
      <3>4. PICK c \in Nat : c = Chunk(a, m)
        BY ChunkFacts
      <3>5. s + c <= q /\ k < s + c
        BY <2>2, <3>2, <3>3, <3>4
      <3> QED
        BY <1>1, <1>2, <2>3, <3>5
    <2>6. s = q
      BY <1>2, <2>3, <2>4, <2>5
    <2> QED
      BY <1>3, <2>1, <2>6
  <1>9. S = {x}
    BY <1>7, <1>8
  <1>10. Cardinality({x}) = 1
    BY FS_Singleton
  <1> QED
    BY <1>9, <1>10

(* In any state, not only while a copy is under way: gpu_bar_memcpy_fromio *)
(* and gpu_bar_memcpy_toio move every byte of the range once, to or from   *)
(* its place in its page, for every page size and number of pages.         *)
THEOREM WalkMovesEveryByte == Spec => []WalkIsExact
  <1>1. ASSUME NEW o \in 0..BufSize, NEW n \in 0..BufSize, o + n <= BufSize
        PROVE  /\ \A c \in BarMemcpy(o, n) : c[1] < NumPages /\ c[2] + c[4] <= PageSize
               /\ \A k \in 0..n - 1 :
                    Cardinality({c \in BarMemcpy(o, n) :
                                   c[3] <= k /\ k < c[3] + c[4]
                                   /\ c[1] * PageSize + c[2] + (k - c[3]) = o + k}) = 1
    <2>1. o \in Nat /\ n \in Nat
      BY <1>1
    <2>2. BarMemcpy(o, n) = WalkCalls(o, n, 0)
      BY <2>1, WalkIs
    <2>3. ASSUME NEW c \in WalkCalls(o, n, 0)
          PROVE  c[1] < NumPages /\ c[2] + c[4] <= PageSize
      <3>1. PICK q \in WalkStarts(o, n, 0) : c = WalkCall(o, n, q)
        BY DEF WalkCalls
      <3>2. /\ (o + q) \div PageSize < NumPages
            /\ ((o + q) % PageSize) + Chunk(o + q, n - q) <= PageSize
        BY <1>1, <2>1, WalkInside
      <3> QED
        BY <3>1, <3>2 DEF WalkCall
    <2>4. ASSUME NEW k \in 0..n - 1
          PROVE  Cardinality({c \in WalkCalls(o, n, 0) :
                                c[3] <= k /\ k < c[3] + c[4]
                                /\ c[1] * PageSize + c[2] + (k - c[3]) = o + k}) = 1
      BY <2>1, WalkOnce
    <2> QED
      BY <2>2, <2>3, <2>4
  <1>2. WalkIsExact
    BY <1>1 DEF WalkIsExact
  <1> QED
    BY <1>2, PTL

=============================================================================
