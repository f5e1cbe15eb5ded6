------------------------- MODULE ChannelTableProofs -------------------------
(***************************************************************************)
(* Proofs about ChannelTable for every number of slots, files and threads: *)
(* counters and references are exact, no file's close stops the channel of *)
(* another, and a slot is freed only after its worker has exited.          *)
(***************************************************************************)
EXTENDS ChannelTable, FiniteSetTheorems, TLAPS

-----------------------------------------------------------------------------
\* The inductive invariant

Destroying(f) == rpc[f] \in {"stop", "put", "last"}

(* The file context of f is in use: it is open, or its release is running. *)
Refers(f) == fd[f] = "open" \/ rpc[f] # "none"

(* A release follows the last close, concerns a channel, and destroys only *)
(* with dev_mutex held.                                                    *)
ReleaseOrder ==
    \A f \in Fds : /\ fd[f] = "open" => rpc[f] = "none"
                   /\ rpc[f] # "none" => ctx[f] \in Slots
                   /\ Destroying(f) <=> dev_mutex = f

CreatingOnOpen == \A t \in Threads : creating[t] # None => fd[creating[t]] = "open"

(* Two file contexts in use never name the same slot, and the slot they    *)
(* name is active until its second reference is dropped.                   *)
OwnersDistinct ==
    \A f \in Fds : Refers(f) /\ ctx[f] # None =>
        /\ active[ctx[f]]
        /\ \A g \in Fds \ {f} : Refers(g) => ctx[g] # ctx[f]

(* The worker and the references of a channel at each stage of its         *)
(* destruction: both references are still there when the first is dropped. *)
Stages ==
    \A f \in Fds : Destroying(f) =>
        /\ running[ctx[f]] <=> rpc[f] = "stop"
        /\ kref[ctx[f]] = IF rpc[f] = "last" THEN 1 ELSE 2

GoneIsIdle ==
    module = "gone" => /\ \A f \in Fds : fd[f] = "closed" /\ rpc[f] = "none"
                       /\ \A s \in Slots : ~active[s]

FileInv == ReleaseOrder /\ CreatingOnOpen /\ OwnersDistinct /\ Stages /\ GoneIsIdle

TInv == TypeOK /\ AccountingExact /\ FileInv

-----------------------------------------------------------------------------
\* Facts

(* The active slots are at most MaxChannels many, before and after a step. *)
LEMMA SlotFacts ==
    /\ \A S \in SUBSET Slots : IsFiniteSet(S) /\ Cardinality(S) \in 0..MaxChannels
    /\ ActiveSlots \in SUBSET Slots /\ ActiveSlots' \in SUBSET Slots
    /\ IsFiniteSet(ActiveSlots)
    /\ Cardinality(ActiveSlots) \in 0..MaxChannels
    /\ Cardinality(ActiveSlots') \in 0..MaxChannels
  <1>1. IsFiniteSet(Slots) /\ Cardinality(Slots) = MaxChannels
    BY FS_Interval, TableAssumption DEF Slots
  <1>2. ActiveSlots \in SUBSET Slots /\ ActiveSlots' \in SUBSET Slots
    BY DEF ActiveSlots
  <1>3. ASSUME NEW S \in SUBSET Slots PROVE IsFiniteSet(S) /\ Cardinality(S) \in 0..MaxChannels
    <2>1. IsFiniteSet(S) /\ Cardinality(S) <= Cardinality(Slots)
      BY <1>1, FS_Subset
    <2> QED
      BY <1>1, <2>1, FS_CardinalityType, TableAssumption
  <1> QED
    BY <1>2, <1>3

(* With dev_mutex free nobody destroys, and every slot is settled.         *)
LEMMA FreeMutexSettles ==
    ASSUME TInv, dev_mutex = None
    PROVE  (\A f \in Fds : ~Destroying(f)) /\ \A s \in Slots : Settled(s)
  BY TableAssumption DEF TInv, FileInv, ReleaseOrder, Destroying, Settled

(* The slot of an open file, or of one that waits for dev_mutex, is        *)
(* settled: it runs with both references.                                  *)
LEMMA OwnedIsSettled ==
    ASSUME TInv, NEW f \in Fds, fd[f] = "open" \/ rpc[f] = "lock", ctx[f] # None
    PROVE  Settled(ctx[f]) /\ active[ctx[f]] /\ running[ctx[f]] /\ kref[ctx[f]] = 2
  <1>1. ctx[f] \in Slots /\ Refers(f) /\ ~Destroying(f)
    BY DEF TInv, TypeOK, FileInv, ReleaseOrder, Refers, Destroying
  <1>2. active[ctx[f]] /\ \A g \in Fds \ {f} : Refers(g) => ctx[g] # ctx[f]
    BY <1>1 DEF TInv, FileInv, OwnersDistinct
  <1>3. Settled(ctx[f])
    BY <1>1, <1>2 DEF Settled, Refers, Destroying
  <1> QED
    BY <1>1, <1>2, <1>3 DEF TInv, AccountingExact

(* No file is open and no channel is active at load.                       *)
LEMMA InitTInv == Init => TInv
  <1> SUFFICES ASSUME Init PROVE TInv
    OBVIOUS
  <1>1. TypeOK
    <2>1. 0 \in 0..MaxChannels /\ 0 \in 0..MaxCreated /\ 0 \in 0..2
      BY TableAssumption
    <2> QED
      BY <2>1 DEF Init, TypeOK
  <1>2. ActiveSlots = {}
    BY DEF Init, ActiveSlots
  <1>3. AccountingExact
    BY <1>2, FS_EmptySet DEF Init, AccountingExact
  <1>4. FileInv
    BY TableAssumption DEF Init, FileInv, ReleaseOrder, CreatingOnOpen, OwnersDistinct, Stages,
       GoneIsIdle, Refers, Destroying
  <1> QED
    BY <1>1, <1>3, <1>4 DEF TInv

-----------------------------------------------------------------------------
\* One lemma per operation

(* The accounting depends on who destroys what and on the channels.        *)
LEMMA AccountingFrame ==
    ASSUME AccountingExact, UNCHANGED <<channels, counters>>,
           \A s \in Slots : Settled(s)' => Settled(s)
    PROVE  AccountingExact'
  <1>1. UNCHANGED <<active, kref, running, active_channels, total_channels_created, total_channels_destroyed>>
    BY DEF channels, counters
  <1>2. ActiveSlots' = ActiveSlots
    BY <1>1 DEF ActiveSlots
  <1> QED
    BY <1>1, <1>2 DEF AccountingExact

(* Opening a file adds a file without channel and its reference.           *)
LEMMA OpenStep ==
    ASSUME TInv, NEW f \in Fds, Open(f)
    PROVE  TInv'
  <1> USE DEF TInv
  <1>1. TypeOK'
    BY DEF Open, TypeOK, channels, counters
  <1>2. \A g \in Fds \ {f} : ctx'[g] = ctx[g] /\ fd'[g] = fd[g]
    BY DEF Open, TypeOK
  <1>3. fd'[f] = "open" /\ ctx'[f] = None /\ rpc[f] = "none" /\ UNCHANGED <<module, creating, rpc, dev_mutex, channels, counters>>
    BY DEF Open, TypeOK
  <1>4. AccountingExact'
    <2>1. \A s \in Slots : Settled(s)' => Settled(s)
      BY <1>2, <1>3 DEF Settled
    <2> QED
      BY <1>3, <2>1, AccountingFrame
  <1>5. FileInv'
    BY <1>2, <1>3 DEF Open, TypeOK, FileInv, ReleaseOrder, CreatingOnOpen, OwnersDistinct, Stages,
       GoneIsIdle, Refers, Destroying, channels
  <1> QED
    BY <1>1, <1>4, <1>5

(* The test of CREATE_CHANNEL, or its refusal, moves its thread alone.     *)
LEMMA CreateTestStep ==
    ASSUME TInv, NEW t \in Threads, (\E f \in Fds : CreateTest(t, f)) \/ CreateNoSpace(t)
    PROVE  TInv'
  <1> USE DEF TInv
  <1>1. TypeOK' /\ CreatingOnOpen'
    BY DEF CreateTest, CreateNoSpace, TypeOK, channels, counters, FileInv, CreatingOnOpen
  <1>2. UNCHANGED <<module, fd, ctx, rpc, dev_mutex, channels, counters>>
    BY DEF CreateTest, CreateNoSpace
  <1>3. AccountingExact'
    BY <1>2, AccountingFrame DEF Settled
  <1>4. FileInv'
    BY <1>1, <1>2 DEF FileInv, ReleaseOrder, OwnersDistinct, Stages, GoneIsIdle, Refers, Destroying, channels
  <1> QED
    BY <1>1, <1>3, <1>4

(* A claim takes a slot that no file in use names.                         *)
LEMMA CreateClaimStep ==
    ASSUME TInv, NEW t \in Threads, CreateClaim(t)
    PROVE  TInv'
  <1> USE DEF TInv
  <1>1. PICK f \in Fds : f = creating[t] /\ fd[f] = "open" /\ rpc[f] = "none" /\ dev_mutex = None
    BY DEF CreateClaim, TypeOK, FileInv, CreatingOnOpen, ReleaseOrder
  <1>2. PICK s \in Slots : /\ ~active[s]
                           /\ active' = [active EXCEPT ![s] = TRUE]
                           /\ kref' = [kref EXCEPT ![s] = 2]
                           /\ running' = [running EXCEPT ![s] = TRUE]
                           /\ ctx' = [ctx EXCEPT ![f] = s]
    BY <1>1 DEF CreateClaim, Scan
  <1>3. /\ UNCHANGED <<module, fd, rpc, dev_mutex, total_channels_destroyed>>
        /\ active_channels' = active_channels + 1
        /\ total_channels_created' = total_channels_created + 1
        /\ total_channels_created < MaxCreated
        /\ creating' = [creating EXCEPT ![t] = None]
    BY DEF CreateClaim
  <1>4. \A g \in Fds : ~Destroying(g) /\ ~Destroying(g)'
    BY <1>1, <1>3, FreeMutexSettles DEF Destroying
  <1>5. s # None
    BY TableAssumption DEF Slots
  <1>6. AccountingExact'
    <2>1. ActiveSlots' = ActiveSlots \cup {s} /\ s \notin ActiveSlots
      BY <1>2 DEF ActiveSlots, TypeOK
    <2>2. Cardinality(ActiveSlots') = Cardinality(ActiveSlots) + 1
      BY <2>1, SlotFacts, FS_AddElement
    <2>3. active_channels' = Cardinality(ActiveSlots')
      BY <1>3, <2>2 DEF AccountingExact
    <2>4. total_channels_created' - total_channels_destroyed' = active_channels'
      BY <1>3, TableAssumption DEF AccountingExact, TypeOK
    <2>5. ASSUME NEW r \in Slots PROVE (active'[r] <=> running'[r]) /\ (active'[r] => kref'[r] = 2)
      <3>1. Settled(r)
        BY <1>1, FreeMutexSettles
      <3> QED
        BY <1>2, <3>1 DEF AccountingExact, TypeOK
    <2> QED
      BY <2>3, <2>4, <2>5 DEF AccountingExact
  <1>7. TypeOK'
    <2>1. total_channels_created' \in 0..MaxCreated
      BY <1>3, TableAssumption DEF TypeOK
    <2>2. active_channels' \in 0..MaxChannels
      BY <1>6, SlotFacts DEF AccountingExact
    <2>3. kref' \in [Slots -> 0..2]
      BY <1>2 DEF TypeOK
    <2> QED
      BY <1>2, <1>3, <2>1, <2>2, <2>3 DEF TypeOK
  <1>8. FileInv'
    <2>1. ReleaseOrder'
      BY <1>1, <1>2, <1>3, <1>4 DEF FileInv, ReleaseOrder, Destroying, TypeOK
    <2>2. CreatingOnOpen'
      BY <1>3 DEF FileInv, CreatingOnOpen, TypeOK
    <2>3. OwnersDistinct'
      <3>1. \A g \in Fds : Refers(g)' <=> Refers(g)
        BY <1>3 DEF Refers
      <3>2. \A g \in Fds \ {f} : ctx'[g] = ctx[g] /\ (Refers(g) => ctx[g] # s)
        BY <1>2, <1>5 DEF FileInv, OwnersDistinct, TypeOK
      <3>3. ctx'[f] = s /\ active'[s] /\ \A r \in Slots : active[r] => active'[r]
        BY <1>2 DEF TypeOK
      <3> QED
        BY <3>1, <3>2, <3>3 DEF FileInv, OwnersDistinct, TypeOK
    <2>4. Stages'
      BY <1>4 DEF Stages
    <2>5. GoneIsIdle'
      BY <1>1, <1>3 DEF FileInv, GoneIsIdle
    <2> QED
      BY <2>1, <2>2, <2>3, <2>4, <2>5 DEF FileInv
  <1> QED
    BY <1>6, <1>7, <1>8

(* A failed create leaves the table as it was, but for a stale reference   *)
(* count in the inactive slot.                                             *)
LEMMA CreateFailsStep ==
    ASSUME TInv, NEW t \in Threads, CreateFails(t)
    PROVE  TInv'
  <1> USE DEF TInv
  <1>1. PICK s \in Slots : /\ ~active[s]
                           /\ active' = [active EXCEPT ![s] = FALSE]
                           /\ kref' = [kref EXCEPT ![s] = 2]
                           /\ running' = [running EXCEPT ![s] = FALSE]
    BY DEF CreateFails, Scan
  <1>2. /\ UNCHANGED <<module, fd, ctx, rpc, dev_mutex, counters>>
        /\ dev_mutex = None
        /\ creating' = [creating EXCEPT ![t] = None]
    BY DEF CreateFails
  <1>3. active' = active
    BY <1>1 DEF TypeOK
  <1>4. \A r \in Slots : Settled(r) /\ Settled(r)'
    BY <1>2, FreeMutexSettles DEF Settled
  <1>5. AccountingExact'
    <2>1. ActiveSlots' = ActiveSlots
      BY <1>3 DEF ActiveSlots
    <2> QED
      BY <1>1, <1>2, <1>3, <1>4, <2>1 DEF AccountingExact, TypeOK, counters
  <1>6. TypeOK'
    <2>1. kref' \in [Slots -> 0..2]
      BY <1>1 DEF TypeOK
    <2> QED
      BY <1>1, <1>2, <1>3, <2>1 DEF TypeOK, counters
  <1>7. FileInv'
    <2>1. \A g \in Fds : ~Destroying(g)'
      BY <1>2, FreeMutexSettles DEF Destroying
    <2>2. Stages'
      BY <2>1 DEF Stages
    <2> QED
      BY <1>2, <1>3, <2>2 DEF FileInv, ReleaseOrder, CreatingOnOpen, OwnersDistinct, GoneIsIdle,
         Refers, Destroying, TypeOK
  <1> QED
    BY <1>5, <1>6, <1>7

(* close() starts the release of its own file, if that has a channel.      *)
LEMMA CloseStep ==
    ASSUME TInv, NEW f \in Fds, Close(f)
    PROVE  TInv'
  <1> USE DEF TInv
  <1>1. /\ UNCHANGED <<module, ctx, creating, dev_mutex, channels, counters>>
        /\ fd[f] = "open" /\ rpc[f] = "none" /\ fd'[f] = "closed"
        /\ rpc'[f] = IF ctx[f] = None THEN "none" ELSE "lock"
        /\ \A g \in Fds \ {f} : rpc'[g] = rpc[g] /\ fd'[g] = fd[g]
    BY DEF Close, TypeOK, FileInv, ReleaseOrder
  <1>2. TypeOK'
    BY DEF Close, TypeOK, channels, counters
  <1>3. AccountingExact'
    <2>1. \A s \in Slots : Settled(s)' => Settled(s)
      BY <1>1 DEF Settled
    <2> QED
      BY <1>1, <2>1, AccountingFrame
  <1>4. FileInv'
    <2>1. ReleaseOrder'
      BY <1>1 DEF FileInv, ReleaseOrder, Destroying, TypeOK
    <2>2. CreatingOnOpen'
      BY <1>1, <1>2 DEF Close, FileInv, CreatingOnOpen, TypeOK
    <2>3. OwnersDistinct' /\ Stages' /\ GoneIsIdle'
      BY <1>1 DEF FileInv, OwnersDistinct, Stages, GoneIsIdle, Refers, Destroying, channels
    <2> QED
      BY <2>1, <2>2, <2>3 DEF FileInv
  <1> QED
    BY <1>2, <1>3, <1>4

(* The steps of a destroy keep the references of the files.                *)
LEMMA ReleaseFrame ==
    ASSUME TInv, NEW f \in Fds, rpc[f] # "none", NEW to \in {"none", "stop", "put", "last"},
           rpc' = [rpc EXCEPT ![f] = to],
           UNCHANGED <<module, fd, ctx, creating>>,
           dev_mutex = f \/ dev_mutex = None,
           dev_mutex' = IF to = "none" THEN None ELSE f,
           \A s \in Slots \ {ctx[f]} : active'[s] = active[s],
           active[ctx[f]] => (active'[ctx[f]] \/ to = "none")
    PROVE  ReleaseOrder' /\ CreatingOnOpen' /\ OwnersDistinct' /\ GoneIsIdle'
  <1> USE DEF TInv, FileInv
  <1>1. rpc'[f] = to /\ \A g \in Fds \ {f} : rpc'[g] = rpc[g]
    BY DEF TypeOK
  <1>2. \A g \in Fds \ {f} : ~Destroying(g) /\ ~Destroying(g)'
    BY <1>1, TableAssumption DEF ReleaseOrder, Destroying
  <1>3. ReleaseOrder'
    BY <1>1, <1>2, TableAssumption DEF ReleaseOrder, Destroying
  <1>4. CreatingOnOpen'
    BY DEF CreatingOnOpen
  <1>5. OwnersDistinct'
    <2>1. fd[f] # "open" /\ Refers(f) /\ ctx[f] \in Slots /\ ctx[f] # None
      BY TableAssumption DEF ReleaseOrder, Refers, Slots
    <2>2. \A g \in Fds \ {f} : Refers(g)' <=> Refers(g)
      BY <1>1 DEF Refers
    <2>3. Refers(f)' <=> to # "none"
      BY <1>1, <2>1 DEF Refers
    <2>4. \A g \in Fds \ {f} : Refers(g) /\ ctx[g] # None => ctx[g] \in Slots \ {ctx[f]}
      BY <2>1 DEF OwnersDistinct, TypeOK
    <2> QED
      BY <2>1, <2>2, <2>3, <2>4 DEF OwnersDistinct
  <1>6. GoneIsIdle'
    BY DEF GoneIsIdle
  <1> QED
    BY <1>3, <1>4, <1>5, <1>6

(* Taking dev_mutex and stopping the worker.                               *)
LEMMA ReleaseLockStep ==
    ASSUME TInv, NEW f \in Fds, ReleaseLock(f)
    PROVE  TInv'
  <1> USE DEF TInv
  <1>1. ctx[f] \in Slots /\ ctx[f] # None /\ rpc[f] = "lock"
    BY TableAssumption DEF ReleaseLock, FileInv, ReleaseOrder, Slots
  <1>2. active[ctx[f]] /\ running[ctx[f]] /\ kref[ctx[f]] = 2
    BY <1>1, OwnedIsSettled
  <1>3. /\ dev_mutex = None /\ dev_mutex' = f
        /\ rpc' = [rpc EXCEPT ![f] = "stop"]
        /\ UNCHANGED <<module, fd, ctx, creating, channels, counters>>
    BY <1>2 DEF ReleaseLock
  <1>4. TypeOK'
    BY <1>3 DEF TypeOK, channels, counters
  <1>5. ReleaseOrder' /\ CreatingOnOpen' /\ OwnersDistinct' /\ GoneIsIdle'
    BY <1>1, <1>3, ReleaseFrame DEF channels
  <1>6. Stages'
    BY <1>2, <1>3, FreeMutexSettles DEF Stages, Destroying, channels, TypeOK
  <1>7. AccountingExact'
    <2>1. \A s \in Slots : Settled(s)' => Settled(s)
      BY <1>3, FreeMutexSettles
    <2> QED
      BY <1>3, <2>1, AccountingFrame
  <1> QED
    BY <1>4, <1>5, <1>6, <1>7 DEF FileInv

(* The release stops the worker of the slot that its file owns.            *)
LEMMA ReleaseStopStep ==
    ASSUME TInv, NEW f \in Fds, ReleaseStop(f)
    PROVE  TInv'
  <1> USE DEF TInv
  <1>1. ctx[f] \in Slots /\ rpc[f] = "stop" /\ Destroying(f) /\ dev_mutex = f
    BY DEF ReleaseStop, FileInv, ReleaseOrder, Destroying
  <1>2. /\ running' = [running EXCEPT ![ctx[f]] = FALSE]
        /\ rpc' = [rpc EXCEPT ![f] = "put"]
        /\ UNCHANGED <<module, fd, ctx, creating, dev_mutex, active, kref, counters>>
    BY DEF ReleaseStop
  <1>3. TypeOK'
    BY <1>2 DEF TypeOK, counters
  <1>4. ReleaseOrder' /\ CreatingOnOpen' /\ OwnersDistinct' /\ GoneIsIdle'
    BY <1>1, <1>2, ReleaseFrame
  <1>5. Stages'
    BY <1>1, <1>2, <1>3 DEF FileInv, Stages, ReleaseOrder, Destroying, TypeOK
  <1>6. AccountingExact'
    <2>1. ActiveSlots' = ActiveSlots
      BY <1>2 DEF ActiveSlots
    <2>2. \A s \in Slots : Settled(s)' => s # ctx[f] /\ Settled(s)
      BY <1>1, <1>2 DEF Settled, TypeOK
    <2>3. \A s \in Slots : Settled(s)' => running'[s] = running[s]
      BY <1>2, <2>2 DEF TypeOK
    <2> QED
      BY <1>2, <2>1, <2>2, <2>3 DEF AccountingExact, counters
  <1> QED
    BY <1>3, <1>4, <1>5, <1>6 DEF FileInv

(* The worker's reference goes; the channel keeps the other one.           *)
LEMMA ReleasePutStep ==
    ASSUME TInv, NEW f \in Fds, ReleasePut(f)
    PROVE  TInv'
  <1> USE DEF TInv
  <1>1. ctx[f] \in Slots /\ rpc[f] = "put" /\ Destroying(f) /\ dev_mutex = f
    BY DEF ReleasePut, FileInv, ReleaseOrder, Destroying
  <1>2. kref[ctx[f]] = 2 /\ ~running[ctx[f]]
    BY <1>1 DEF FileInv, Stages
  <1>3. /\ kref' = [kref EXCEPT ![ctx[f]] = 1]
        /\ rpc' = [rpc EXCEPT ![f] = "last"]
        /\ UNCHANGED <<module, fd, ctx, creating, dev_mutex, active, running, counters>>
    BY <1>1, <1>2 DEF ReleasePut, KrefPut, counters, TypeOK
  <1>4. TypeOK'
    <2>0. 1 \in 0..2
      OBVIOUS
    <2>1. kref' \in [Slots -> 0..2]
      BY <1>3, <2>0 DEF TypeOK
    <2> QED
      BY <1>3, <2>1 DEF TypeOK, counters
  <1>5. ReleaseOrder' /\ CreatingOnOpen' /\ OwnersDistinct' /\ GoneIsIdle'
    BY <1>1, <1>3, ReleaseFrame
  <1>6. Stages'
    BY <1>1, <1>2, <1>3, <1>4 DEF FileInv, Stages, ReleaseOrder, Destroying, TypeOK
  <1>7. AccountingExact'
    <2>1. ActiveSlots' = ActiveSlots
      BY <1>3 DEF ActiveSlots
    <2>2. \A s \in Slots : Settled(s)' => s # ctx[f] /\ Settled(s)
      BY <1>1, <1>3 DEF Settled, TypeOK
    <2>3. \A s \in Slots : Settled(s)' => kref'[s] = kref[s]
      BY <1>3, <2>2 DEF TypeOK
    <2> QED
      BY <1>3, <2>1, <2>2, <2>3 DEF AccountingExact, counters
  <1> QED
    BY <1>4, <1>5, <1>6, <1>7 DEF FileInv

(* The last reference goes, and with it the slot.                          *)
LEMMA ReleaseLastStep ==
    ASSUME TInv, NEW f \in Fds, ReleaseLast(f)
    PROVE  TInv' /\ ~running[ctx[f]] /\ active' = [active EXCEPT ![ctx[f]] = FALSE]
  <1> USE DEF TInv
  <1>1. ctx[f] \in Slots /\ ctx[f] # None /\ rpc[f] = "last" /\ Destroying(f) /\ dev_mutex = f
    BY TableAssumption DEF ReleaseLast, FileInv, ReleaseOrder, Destroying, Slots
  <1>2. kref[ctx[f]] = 1 /\ ~running[ctx[f]]
    BY <1>1 DEF FileInv, Stages
  <1>3. active[ctx[f]]
    BY <1>1 DEF FileInv, OwnersDistinct, Refers
  <1>4. /\ kref' = [kref EXCEPT ![ctx[f]] = 0]
        /\ active' = [active EXCEPT ![ctx[f]] = FALSE]
        /\ active_channels' = active_channels - 1
        /\ total_channels_destroyed' = total_channels_destroyed + 1
        /\ rpc' = [rpc EXCEPT ![f] = "none"]
        /\ dev_mutex' = None
        /\ UNCHANGED <<module, fd, ctx, creating, running, total_channels_created>>
    BY <1>1, <1>2 DEF ReleaseLast, KrefPut, TypeOK
  <1>5. ReleaseOrder' /\ CreatingOnOpen' /\ OwnersDistinct' /\ GoneIsIdle'
    BY <1>1, <1>4, ReleaseFrame DEF TypeOK
  <1>6. \A g \in Fds : ~Destroying(g)'
    BY <1>1, <1>4, TableAssumption DEF FileInv, ReleaseOrder, Destroying, TypeOK
  <1>7. AccountingExact'
    <2>1. ActiveSlots' = ActiveSlots \ {ctx[f]} /\ ctx[f] \in ActiveSlots
      BY <1>1, <1>3, <1>4 DEF ActiveSlots, TypeOK
    <2>2. Cardinality(ActiveSlots') = Cardinality(ActiveSlots) - 1
      BY <2>1, SlotFacts, FS_RemoveElement
    <2>3. active_channels' = Cardinality(ActiveSlots')
      BY <1>4, <2>2 DEF AccountingExact
    <2>4. total_channels_created' - total_channels_destroyed' = active_channels'
      BY <1>4, TableAssumption DEF AccountingExact, TypeOK
    <2>5. ASSUME NEW r \in Slots PROVE (active'[r] <=> running'[r]) /\ (active'[r] => kref'[r] = 2)
      <3>1. r # ctx[f] => Settled(r)
        BY <1>1 DEF Settled, FileInv, ReleaseOrder, Destroying
      <3> QED
        BY <1>2, <1>4, <3>1 DEF AccountingExact, TypeOK
    <2> QED
      BY <2>3, <2>4, <2>5 DEF AccountingExact
  <1>8. TypeOK'
    <2>1. active_channels' \in 0..MaxChannels
      BY <1>7, SlotFacts DEF AccountingExact
    <2>2. total_channels_destroyed' \in 0..MaxCreated
      BY <1>4, <1>7, <2>1, TableAssumption DEF AccountingExact, TypeOK
    <2>0. 0 \in 0..2
      OBVIOUS
    <2>3. kref' \in [Slots -> 0..2]
      BY <1>4, <2>0 DEF TypeOK
    <2> QED
      BY <1>4, <2>1, <2>2, <2>3 DEF TypeOK
  <1>9. Stages'
    BY <1>6 DEF Stages
  <1> QED
    BY <1>2, <1>4, <1>5, <1>7, <1>8, <1>9 DEF FileInv

(* Unload: with every file closed, what a race of creates left goes.       *)
LEMMA ExitStep ==
    ASSUME TInv, Exit
    PROVE  TInv'
  <1> USE DEF TInv
  <1>1. \A f \in Fds : fd[f] = "closed" /\ rpc[f] = "none"
    BY DEF Exit
  <1>2. \A s \in Slots : Settled(s)
    BY <1>1 DEF Settled
  <1>3. /\ active' = [s \in Slots |-> FALSE]
        /\ running' = [s \in Slots |-> FALSE]
    BY <1>2 DEF Exit, AccountingExact, TypeOK
  <1>4. kref' \in [Slots -> 0..2]
    <2>1. kref' = [s \in Slots |-> IF active[s] THEN kref[s] - 2 ELSE kref[s]]
      BY DEF Exit
    <2>2. \A s \in Slots : active[s] => kref[s] = 2
      BY <1>2 DEF AccountingExact
    <2> QED
      BY <2>1, <2>2 DEF TypeOK
  <1>5. ActiveSlots' = {}
    BY <1>3 DEF ActiveSlots
  <1>6. /\ active_channels' = 0
        /\ total_channels_destroyed' = total_channels_created
    BY SlotFacts, TableAssumption DEF Exit, AccountingExact, TypeOK
  <1>7. UNCHANGED <<fd, ctx, creating, rpc, dev_mutex, total_channels_created>> /\ module' = "gone"
    BY DEF Exit
  <1>8. AccountingExact'
    BY <1>3, <1>5, <1>6, <1>7, FS_EmptySet, TableAssumption DEF AccountingExact, TypeOK
  <1>9. TypeOK'
    BY <1>3, <1>4, <1>6, <1>7, TableAssumption DEF TypeOK
  <1>10. FileInv'
    BY <1>1, <1>3, <1>7 DEF FileInv, ReleaseOrder, CreatingOnOpen, OwnersDistinct, Stages,
       GoneIsIdle, Refers, Destroying
  <1> QED
    BY <1>8, <1>9, <1>10

(* Every step of the table keeps the invariant.                            *)
LEMMA StepTInv == TInv /\ [Next]_vars => TInv'
  <1> SUFFICES ASSUME TInv, [Next]_vars PROVE TInv'
    OBVIOUS
  <1>1. CASE UNCHANGED vars
    <2>1. AccountingExact'
      BY <1>1, AccountingFrame DEF vars, channels, counters, Settled, TInv
    <2>2. TypeOK'
      BY <1>1 DEF vars, TInv, TypeOK
    <2>3. FileInv'
      BY <1>1 DEF vars, TInv, FileInv, ReleaseOrder, CreatingOnOpen, OwnersDistinct, Stages,
         GoneIsIdle, Refers, Destroying
    <2> QED
      BY <2>1, <2>2, <2>3 DEF TInv
  <1> QED
    BY <1>1, OpenStep, CreateTestStep, CreateClaimStep, CreateFailsStep, CloseStep, ReleaseLockStep,
       ReleaseStopStep, ReleasePutStep, ReleaseLastStep, ExitStep DEF Next, Release

-----------------------------------------------------------------------------
\* Theorems

(* Slots, references, files and dev_mutex agree through every interleaving *)
(* of opens, racing creates, closes and the unload.                        *)
THEOREM TableInvariant == Spec => []TInv
  BY InitTInv, StepTInv, PTL DEF Spec

(* The counters and references are exact, no channel is shared by two      *)
(* files, and the unload leaves no worker and no active slot.              *)
THEOREM TableIsSafe == Spec => []TableSafe
  <1>1. ASSUME TInv PROVE ChannelsNotShared
    <2> SUFFICES ASSUME NEW f \in Fds, fd[f] = "open" \/ rpc[f] = "lock", ctx[f] # None
                 PROVE  /\ active[ctx[f]] /\ running[ctx[f]]
                        /\ \A g \in Fds \ {f} : (fd[g] = "open" \/ rpc[g] # "none") => ctx[g] # ctx[f]
      BY DEF ChannelsNotShared
    <2> QED
      BY <1>1, OwnedIsSettled DEF TInv, FileInv, OwnersDistinct, Refers
  <1>2. ASSUME TInv, module = "gone"
        PROVE  /\ \A s \in Slots : ~active[s] /\ ~running[s]
               /\ active_channels = 0
               /\ total_channels_created = total_channels_destroyed
    <2>1. \A s \in Slots : ~active[s] /\ Settled(s)
      BY <1>2 DEF TInv, FileInv, GoneIsIdle, Settled
    <2>2. ActiveSlots = {}
      BY <2>1 DEF ActiveSlots
    <2>3. active_channels = 0
      BY <1>2, <2>2, FS_EmptySet DEF TInv, AccountingExact
    <2> QED
      BY <1>2, <2>1, <2>3, TableAssumption DEF TInv, AccountingExact, TypeOK
  <1>3. TInv => TableSafe
    BY <1>1, <1>2 DEF TInv, TableSafe, ExitLeavesNothing
  <1> QED
    BY <1>3, TableInvariant, PTL

(* dmaplane_channel_destroy frees a slot only after kthread_stop returned: *)
(* no create initialises rings that a worker still uses.                   *)
THEOREM SlotFreedAfterWorker == Spec => FreedAfterWorker
  <1>1. ASSUME TInv, [Next]_vars
        PROVE  [\A s \in Slots : active[s] /\ ~active'[s] /\ module' = "loaded" => ~running[s]]_vars
    <2>1. SUFFICES ASSUME Next, NEW s \in Slots, active[s], ~active'[s], module' = "loaded"
                   PROVE  ~running[s]
      BY <1>1
    <2>2. active \in [Slots -> BOOLEAN] /\ ~Exit
      BY <1>1, <2>1 DEF TInv, TypeOK, Exit
    <2>3. ASSUME NEW t \in Threads, CreateClaim(t) \/ CreateFails(t) PROVE FALSE
      BY <2>1, <2>2, <2>3 DEF CreateClaim, CreateFails, Scan
    <2>4. PICK f \in Fds : ReleasePut(f) \/ ReleaseLast(f)
      BY <2>1, <2>2, <2>3 DEF Next, Open, Close, Release, ReleaseLock, ReleaseStop, CreateTest,
         CreateNoSpace, channels
    <2>5. ~ReleasePut(f)
      <3>1. SUFFICES ASSUME ReleasePut(f) PROVE FALSE
        OBVIOUS
      <3>2. kref[ctx[f]] = 2
        BY <1>1, <3>1 DEF ReleasePut, TInv, FileInv, Stages, Destroying
      <3> QED
        BY <2>1, <3>1, <3>2 DEF ReleasePut, KrefPut
    <2> QED
      BY <1>1, <2>1, <2>2, <2>4, <2>5, ReleaseLastStep
  <1> QED
    BY <1>1, TableInvariant, PTL DEF Spec, FreedAfterWorker
=============================================================================
