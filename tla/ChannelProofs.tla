--------------------------- MODULE ChannelProofs ---------------------------
(***************************************************************************)
(* Proofs about Channel for every ring size, index width and set of        *)
(* threads: rings never overflow, in_flight and the totals never drift,    *)
(* the worker's test under the lock never finds the ring empty, and the    *)
(* channel implements the FIFO pipeline of module Pipeline.                *)
(***************************************************************************)
EXTENDS Channel, FiniteSetTheorems, SequenceTheorems, TLAPS

-----------------------------------------------------------------------------
\* Arithmetic of the wrapping indices

(* The bounds on the constants, without the divisibility.                  *)
LEMMA RingBounds ==
    /\ RingSize \in Nat \ {0}
    /\ PayloadMod \in Nat \ {0}
    /\ IdxMod \in Nat \ {0}
    /\ IdxMod > RingSize
  BY RingAssumption

(* Zero is a value of every counter.                                       *)
LEMMA ZeroFacts == /\ 0 \in Payload
                   /\ 0 \in 0..StatMod-1
                   /\ 0 \in 0..RingSize
                   /\ 0 \in Int
  BY RingBounds, ChannelAssumption DEF Payload

(* Advancing an unsigned index is addition of one, or a wrap to zero.      *)
LEMMA IdxStep ==
    ASSUME NEW i \in Idx
    PROVE  (i + 1) % IdxMod = IF i = IdxMod - 1 THEN 0 ELSE i + 1
  BY RingBounds DEF Idx

(* The unsigned difference of two indices, by comparison.                  *)
LEMMA IdxDiff ==
    ASSUME NEW h \in Idx, NEW t \in Idx
    PROVE  (h - t) % IdxMod = IF h >= t THEN h - t ELSE h - t + IdxMod
  BY RingBounds DEF Idx

(* dmaplane_ring_count is a number below 2^32, and is zero exactly when    *)
(* dmaplane_ring_empty holds.                                              *)
LEMMA CountFacts ==
    ASSUME NEW r \in Ring
    PROVE  /\ RingCount(r) \in 0..IdxMod-1
           /\ RingEmpty(r) <=> RingCount(r) = 0
  <1>1. r.head \in Idx /\ r.tail \in Idx
    BY DEF Ring
  <1>2. RingCount(r) = IF r.head >= r.tail THEN r.head - r.tail
                       ELSE r.head - r.tail + IdxMod
    BY <1>1, IdxDiff DEF RingCount
  <1> QED
    BY <1>1, <1>2, RingAssumption DEF RingEmpty, Idx

(* Storing an entry keeps the ring a ring and, when it was not full, adds  *)
(* one to its count, also when head wraps.                                 *)
LEMMA PutFacts ==
    ASSUME NEW r \in Ring, NEW p \in Payload
    PROVE  /\ RingPut(r, p) \in Ring
           /\ RingCount(r) <= RingSize /\ ~RingFull(r)
                => RingCount(RingPut(r, p)) = RingCount(r) + 1
  <1>1. /\ r.head \in Idx
        /\ r.tail \in Idx
        /\ r.entries \in [Slot -> Payload]
    BY DEF Ring
  <1>2. r.head % RingSize \in Slot
    BY <1>1, RingAssumption DEF Idx, Slot
  <1>3. (r.head + 1) % IdxMod \in Idx
    BY <1>1, IdxStep, RingAssumption DEF Idx
  <1>4. /\ RingPut(r, p) \in Ring
        /\ RingPut(r, p).head = (r.head + 1) % IdxMod
        /\ RingPut(r, p).tail = r.tail
    BY <1>1, <1>2, <1>3 DEF RingPut, Ring
  <1>5. ASSUME RingCount(r) <= RingSize, ~RingFull(r)
        PROVE  RingCount(RingPut(r, p)) = RingCount(r) + 1
    <2> DEFINE h == (r.head + 1) % IdxMod
    <2>1. RingCount(r) = IF r.head >= r.tail THEN r.head - r.tail
                         ELSE r.head - r.tail + IdxMod
      BY <1>1, IdxDiff DEF RingCount
    <2>2. RingCount(RingPut(r, p)) =
            IF h >= r.tail THEN h - r.tail ELSE h - r.tail + IdxMod
      BY <1>1, <1>3, <1>4, IdxDiff DEF RingCount
    <2>3. h = IF r.head = IdxMod - 1 THEN 0 ELSE r.head + 1
      BY <1>1, IdxStep
    <2> HIDE DEF h
    <2> QED
      BY <1>1, <1>5, <2>1, <2>2, <2>3, RingBounds DEF RingFull, Idx
  <1> QED
    BY <1>4, <1>5

(* Giving a slot back keeps the ring a ring and, when it was not empty,    *)
(* takes one from its count, also when tail wraps.                         *)
LEMMA DropFacts ==
    ASSUME NEW r \in Ring
    PROVE  /\ RingDrop(r) \in Ring
           /\ ~RingEmpty(r) => RingCount(RingDrop(r)) = RingCount(r) - 1
  <1>1. /\ r.head \in Idx
        /\ r.tail \in Idx
        /\ r.entries \in [Slot -> Payload]
    BY DEF Ring
  <1>2. (r.tail + 1) % IdxMod \in Idx
    BY <1>1, IdxStep, RingAssumption DEF Idx
  <1>3. /\ RingDrop(r) \in Ring
        /\ RingDrop(r).head = r.head
        /\ RingDrop(r).tail = (r.tail + 1) % IdxMod
    BY <1>1, <1>2 DEF RingDrop, Ring
  <1>4. ASSUME ~RingEmpty(r)
        PROVE  RingCount(RingDrop(r)) = RingCount(r) - 1
    <2> DEFINE t == (r.tail + 1) % IdxMod
    <2>1. RingCount(r) = IF r.head >= r.tail THEN r.head - r.tail
                         ELSE r.head - r.tail + IdxMod
      BY <1>1, IdxDiff DEF RingCount
    <2>2. RingCount(RingDrop(r)) =
            IF r.head >= t THEN r.head - t ELSE r.head - t + IdxMod
      BY <1>1, <1>2, <1>3, IdxDiff DEF RingCount
    <2>3. t = IF r.tail = IdxMod - 1 THEN 0 ELSE r.tail + 1
      BY <1>1, IdxStep
    <2> HIDE DEF t
    <2> QED
      BY <1>1, <1>4, <2>1, <2>2, <2>3, RingBounds DEF RingEmpty, Idx
  <1> QED
    BY <1>3, <1>4

(* A ring fresh from dmaplane_ring_init is an empty ring.                  *)
LEMMA InitFacts == RingInit \in Ring /\ RingCount(RingInit) = 0
  <1>1. RingInit \in Ring
    BY RingAssumption DEF RingInit, Ring, Idx, Slot, Payload
  <1>2. RingEmpty(RingInit)
    BY DEF RingInit, RingEmpty
  <1> QED
    BY <1>1, <1>2, CountFacts

-----------------------------------------------------------------------------
\* Remainders

(* Division with remainder.                                                *)
LEMMA DivMod ==
    ASSUME NEW M \in Nat \ {0}, NEW a \in Int
    PROVE  \E q \in Int : a = M * q + (a % M) /\ a % M \in 0..M-1
  <1>1. a \div M \in Int
    OBVIOUS
  <1>2. a = M * (a \div M) + (a % M) /\ a % M \in 0..M-1
    OBVIOUS
  <1> QED
    BY <1>1, <1>2

(* The only multiple of M that is smaller than M is zero.                  *)
LEMMA SmallMultiple ==
    ASSUME NEW M \in Nat \ {0}, NEW k \in Int, NEW d \in Int, M * k = d, -M < d, d < M
    PROVE  k = 0
  <1>1. CASE k >= 1
    <2>1. M * k >= M
      BY <1>1
    <2> QED
      BY <2>1
  <1>2. CASE k <= -1
    <2>1. M * k <= -M
      BY <1>2
    <2> QED
      BY <2>1
  <1> QED
    BY <1>1, <1>2

(* Numbers that differ by a multiple of M have the same remainder.         *)
LEMMA Congruent ==
    ASSUME NEW M \in Nat \ {0}, NEW a \in Int, NEW b \in Int, NEW k \in Int,
           a = b + M * k
    PROVE  a % M = b % M
  <1>1. PICK p \in Int : a = M * p + (a % M) /\ a % M \in 0..M-1
    BY DivMod
  <1>2. PICK q \in Int : b = M * q + (b % M) /\ b % M \in 0..M-1
    BY DivMod
  <1>3. PICK r \in 0..M-1 : r = a % M
    BY <1>1
  <1>4. PICK s \in 0..M-1 : s = b % M
    BY <1>2
  <1>5. M * (q + k - p) = r - s
    <2>1. M * (q + k - p) = M * q + M * k - M * p
      OBVIOUS
    <2> QED
      BY <1>1, <1>2, <1>3, <1>4, <2>1
  <1>6. PICK j \in Int : j = q + k - p
    OBVIOUS
  <1>7. PICK d \in Int : d = r - s
    OBVIOUS
  <1>8. j = 0
    BY <1>5, <1>6, <1>7, SmallMultiple
  <1> QED
    BY <1>3, <1>4, <1>5, <1>6, <1>8

(* Numbers with the same remainder differ by a multiple of M.              *)
LEMMA MultipleApart ==
    ASSUME NEW M \in Nat \ {0}, NEW a \in Int, NEW b \in Int, a % M = b % M
    PROVE  \E k \in Int : a = b + M * k
  <1>1. PICK p \in Int : a = M * p + (a % M) /\ a % M \in 0..M-1
    BY DivMod
  <1>2. PICK q \in Int : b = M * q + (b % M) /\ b % M \in 0..M-1
    BY DivMod
  <1>3. M * (p - q) = M * p - M * q
    OBVIOUS
  <1>4. a = b + M * (p - q) /\ p - q \in Int
    BY <1>1, <1>2, <1>3
  <1> QED
    BY <1>4

(* Adding the same number keeps remainders equal.                          *)
LEMMA ModStep ==
    ASSUME NEW M \in Nat \ {0}, NEW a \in Int, NEW b \in Int, a % M = b % M,
           NEW c \in Int
    PROVE  (a + c) % M = (b + c) % M
  <1>1. PICK k \in Int : a = b + M * k
    BY MultipleApart
  <1>2. PICK x \in Int : x = a + c
    OBVIOUS
  <1>3. PICK y \in Int : y = b + c
    OBVIOUS
  <1>4. x = y + M * k
    BY <1>1, <1>2, <1>3
  <1>5. x % M = y % M
    BY <1>4, Congruent
  <1> QED
    BY <1>2, <1>3, <1>5

(* A remainder can be taken first, also by a multiple of the modulus.      *)
LEMMA ModMod ==
    ASSUME NEW M \in Nat \ {0}, NEW j \in Nat, NEW N \in Nat \ {0}, N = j * M,
           NEW a \in Int
    PROVE  (a % N) % M = a % M
  <1>1. PICK p \in Int : a = N * p + (a % N) /\ a % N \in 0..N-1
    BY DivMod
  <1>2. PICK r \in 0..N-1 : r = a % N
    BY <1>1
  <1>3. N * p = M * (j * p)
    OBVIOUS
  <1>4. PICK k \in Int : k = j * p
    OBVIOUS
  <1>5. a = r + M * k /\ r \in Int
    BY <1>1, <1>2, <1>3, <1>4
  <1>6. a % M = r % M
    BY <1>5, Congruent
  <1> QED
    BY <1>2, <1>6

(* Numbers less than M apart with the same remainder are equal.            *)
LEMMA ModDistinct ==
    ASSUME NEW M \in Nat \ {0}, NEW a \in Int, NEW b \in Int,
           a % M = b % M, -M < a - b, a - b < M
    PROVE  a = b
  <1>1. PICK k \in Int : a = b + M * k
    BY MultipleApart
  <1>2. PICK d \in Int : d = a - b
    OBVIOUS
  <1>3. M * k = d
    BY <1>1, <1>2
  <1>4. k = 0
    BY <1>2, <1>3, SmallMultiple
  <1> QED
    BY <1>1, <1>4

-----------------------------------------------------------------------------
\* The inductive invariant

(* Threads are inside SUBMIT only while the channel is open: release runs  *)
(* after the last ioctl on the fd has returned.                            *)
QuietUnlessOpen == life # "open" => \A t \in Threads : upc[t] = "idle"

(* The stop flag is up only from kthread_stop to the next creation.        *)
StopOnlyWhenClosing == life = "open" => ~should_stop

(* OccupancyBounded is needed because a ring past its size would defeat    *)
(* the equality test; QuietUnlessOpen because a new channel starts with    *)
(* in_flight = 0, which is right only if no earlier submitter is pending.  *)
IInv == /\ TypeOK
        /\ OccupancyBounded
        /\ InFlightExact
        /\ DequeueFindsEntry
        /\ QuietUnlessOpen
        /\ StopOnlyWhenClosing

(* The threads between publish and atomic_inc are finitely many.           *)
LEMMA UncountedFinite == IsFiniteSet(Uncounted) /\ Cardinality(Uncounted) \in Nat
  <1>1. Uncounted \subseteq Threads
    BY DEF Uncounted
  <1>2. IsFiniteSet(Uncounted)
    BY <1>1, FS_Subset, ChannelAssumption
  <1> QED
    BY <1>2, FS_CardinalityType

(* The initial state satisfies the inductive invariant.                    *)
LEMMA InitIInv == Init => IInv
  <1> SUFFICES ASSUME Init PROVE IInv
    OBVIOUS
  <1>1. TypeOK
    BY InitFacts, ZeroFacts DEF Init, TypeOK, WorkerPcs
  <1>2. OccupancyBounded
    BY InitFacts, RingBounds DEF Init, OccupancyBounded
  <1> QED
    BY <1>1, <1>2 DEF Init, IInv, InFlightExact, DequeueFindsEntry, QuietUnlessOpen, StopOnlyWhenClosing

(* CREATE_CHANNEL starts from empty rings and zero counters.               *)
LEMMA CreateStep == IInv /\ CreateChannel => IInv'
  <1> SUFFICES ASSUME IInv, CreateChannel PROVE IInv'
    OBVIOUS
  <1> USE DEF IInv
  <1>1. TypeOK'
    BY InitFacts, ZeroFacts DEF CreateChannel, TypeOK, WorkerPcs
  <1>2. OccupancyBounded'
    BY InitFacts, RingBounds DEF CreateChannel, OccupancyBounded
  <1>3. Uncounted' = {}
    BY DEF CreateChannel, Uncounted, QuietUnlessOpen, StopOnlyWhenClosing
  <1>4. InFlightExact'
    BY <1>3, InitFacts, FS_EmptySet DEF CreateChannel, InFlightExact, WorkerHolds
  <1>5. DequeueFindsEntry' /\ QuietUnlessOpen' /\ StopOnlyWhenClosing'
    BY DEF CreateChannel, DequeueFindsEntry, QuietUnlessOpen, StopOnlyWhenClosing
  <1> QED
    BY <1>1, <1>2, <1>4, <1>5

(* Publishing an entry raises the count and the set of uncounted threads   *)
(* together.                                                               *)
LEMMA SubmitPutStep ==
    ASSUME IInv, NEW t \in Threads, NEW p \in Payload, SubmitPut(t, p)
    PROVE  IInv'
  <1> USE DEF IInv
  <1>1. sub \in Ring /\ comp \in Ring
    BY DEF TypeOK
  <1>2. /\ sub' \in Ring
        /\ RingCount(sub') = RingCount(sub) + 1
        /\ RingCount(sub) \in Nat
        /\ RingCount(sub) < RingSize
    BY <1>1, PutFacts, CountFacts, RingBounds DEF SubmitPut, OccupancyBounded, RingFull
  <1>3. TypeOK'
    BY <1>2, RingBounds DEF SubmitPut, TypeOK
  <1>4. OccupancyBounded'
    BY <1>2, RingBounds DEF SubmitPut, OccupancyBounded, TypeOK
  <1>5. Uncounted' = Uncounted \cup {t} /\ t \notin Uncounted
    BY DEF SubmitPut, Uncounted, TypeOK
  <1>6. Cardinality(Uncounted') = Cardinality(Uncounted) + 1
    BY <1>5, UncountedFinite, FS_AddElement
  <1>7. InFlightExact'
    BY <1>2, <1>6, UncountedFinite DEF SubmitPut, InFlightExact, WorkerHolds, TypeOK
  <1>8. DequeueFindsEntry'
    BY <1>2, CountFacts DEF SubmitPut, DequeueFindsEntry
  <1>9. QuietUnlessOpen' /\ StopOnlyWhenClosing'
    BY DEF SubmitPut, QuietUnlessOpen, StopOnlyWhenClosing
  <1> QED
    BY <1>3, <1>4, <1>7, <1>8, <1>9

(* The atomic_inc of SUBMIT pays off one uncounted thread.                 *)
LEMMA SubmitIncStep ==
    ASSUME IInv, NEW t \in Threads, SubmitInc(t)
    PROVE  IInv'
  <1> USE DEF IInv
  <1>1. TypeOK' /\ OccupancyBounded'
    BY DEF SubmitInc, TypeOK, OccupancyBounded, rings
  <1>2. Uncounted' = Uncounted \ {t} /\ t \in Uncounted
    BY DEF SubmitInc, Uncounted, TypeOK
  <1>3. Cardinality(Uncounted') = Cardinality(Uncounted) - 1
    BY <1>2, UncountedFinite, FS_RemoveElement
  <1>4. RingCount(sub) \in Int
    BY CountFacts DEF TypeOK
  <1>5. InFlightExact'
    BY <1>3, <1>4, UncountedFinite
    DEF SubmitInc, InFlightExact, WorkerHolds, TypeOK, rings
  <1>6. DequeueFindsEntry'
    BY DEF SubmitInc, DequeueFindsEntry, rings
  <1>7. QuietUnlessOpen' /\ StopOnlyWhenClosing'
    BY DEF SubmitInc, QuietUnlessOpen, StopOnlyWhenClosing, TypeOK
  <1> QED
    BY <1>1, <1>5, <1>6, <1>7

(* The rest of SUBMIT after the atomic_inc touches neither rings nor       *)
(* in_flight.                                                              *)
LEMMA SubmitTailStep ==
    ASSUME IInv, NEW t \in Threads, SubmitCount(t) \/ SubmitWake(t)
    PROVE  IInv'
  <1> USE DEF IInv
  <1>1. /\ UNCHANGED <<life, sub, comp, wpc, in_flight, ring_high_watermark>>
        /\ Uncounted' = Uncounted
    BY DEF SubmitCount, SubmitWake, Uncounted, TypeOK, rings, stats
  <1>2. TypeOK'
    <2>1. CASE SubmitCount(t)
      <3>1. (total_submissions + 1) % StatMod \in 0..StatMod-1
        BY ChannelAssumption DEF TypeOK
      <3> QED
        BY <2>1, <3>1 DEF SubmitCount, TypeOK, rings
    <2>2. CASE SubmitWake(t)
      BY <2>2 DEF SubmitWake, TypeOK, rings, stats
    <2> QED
      BY <2>1, <2>2
  <1>3. OccupancyBounded' /\ InFlightExact' /\ DequeueFindsEntry'
    BY <1>1 DEF OccupancyBounded, InFlightExact, DequeueFindsEntry, WorkerHolds
  <1>4. QuietUnlessOpen' /\ StopOnlyWhenClosing'
    BY DEF SubmitCount, SubmitWake, QuietUnlessOpen, StopOnlyWhenClosing, TypeOK
  <1> QED
    BY <1>2, <1>3, <1>4

(* Closing the channel changes no ring.                                    *)
LEMMA CloseStep == IInv /\ (Shutdown \/ KthreadStop \/ FreeChannel) => IInv'
  <1> SUFFICES ASSUME IInv, Shutdown \/ KthreadStop \/ FreeChannel PROVE IInv'
    OBVIOUS
  <1> USE DEF IInv
  <1>1. TypeOK'
    BY DEF Shutdown, KthreadStop, FreeChannel, TypeOK, WorkerPcs, rings, stats
  <1>2. OccupancyBounded'
    BY DEF Shutdown, KthreadStop, FreeChannel, OccupancyBounded, rings, stats
  <1>3. InFlightExact' /\ DequeueFindsEntry' /\ QuietUnlessOpen' /\ StopOnlyWhenClosing'
    BY DEF Shutdown, KthreadStop, FreeChannel, InFlightExact, DequeueFindsEntry,
           QuietUnlessOpen, StopOnlyWhenClosing, rings
  <1> QED
    BY <1>1, <1>2, <1>3

(* COMPLETE only takes from the completion ring.                           *)
LEMMA CompleteStep == IInv /\ Complete => IInv'
  <1> SUFFICES ASSUME IInv, Complete PROVE IInv'
    OBVIOUS
  <1> USE DEF IInv
  <1>1. comp \in Ring
    BY DEF TypeOK
  <1>2. /\ comp' \in Ring
        /\ RingCount(comp') = RingCount(comp) - 1
        /\ RingCount(comp) \in Int
    BY <1>1, DropFacts, CountFacts DEF Complete
  <1>3. TypeOK'
    BY <1>2 DEF Complete, TypeOK, stats
  <1>4. OccupancyBounded'
    BY <1>2, RingBounds DEF Complete, OccupancyBounded, stats
  <1>5. InFlightExact' /\ DequeueFindsEntry' /\ QuietUnlessOpen' /\ StopOnlyWhenClosing'
    BY DEF Complete, InFlightExact, DequeueFindsEntry, QuietUnlessOpen, StopOnlyWhenClosing,
           Uncounted, WorkerHolds, stats
  <1> QED
    BY <1>3, <1>4, <1>5

(* The steps of the worker that only move its program counter.             *)
WorkerMove == \/ WorkerStart \/ WorkerTop \/ WorkerPrepare \/ WorkerCond
              \/ WorkerSleep \/ WorkerCheck \/ WorkerDrain \/ WorkerFull

(* They keep what the worker holds, and reach dequeue only from the        *)
(* drain loop's test.                                                      *)
LEMMA WorkerMoveStep == IInv /\ WorkerMove => IInv'
  <1> SUFFICES ASSUME IInv, WorkerMove PROVE IInv'
    OBVIOUS
  <1> USE DEF IInv
  <1>1. /\ UNCHANGED <<life, sub, comp, upc, entry, should_stop, in_flight,
                       total_submissions, total_completions, ring_high_watermark>>
        /\ wpc' \in WorkerPcs
        /\ asleep' \in BOOLEAN
        /\ wpc' = "dequeue" => ~RingEmpty(sub)
        /\ life = "open" => WorkerHolds' = WorkerHolds
    <2> USE DEF WorkerGoto, TypeOK, WorkerPcs, WorkerHolds, rings, stats
    <2>1. CASE WorkerStart
      BY <2>1 DEF WorkerStart
    <2>2. CASE WorkerTop
      BY <2>2 DEF WorkerTop
    <2>3. CASE WorkerPrepare
      BY <2>3 DEF WorkerPrepare
    <2>4. CASE WorkerCond
      BY <2>4 DEF WorkerCond
    <2>5. CASE WorkerSleep
      BY <2>5 DEF WorkerSleep
    <2>6. CASE WorkerCheck
      BY <2>6 DEF WorkerCheck
    <2>7. CASE WorkerDrain
      BY <2>7 DEF WorkerDrain
    <2>8. CASE WorkerFull
      BY <2>8 DEF WorkerFull, StopOnlyWhenClosing
    <2> QED
      BY <2>1, <2>2, <2>3, <2>4, <2>5, <2>6, <2>7, <2>8 DEF WorkerMove
  <1>2. TypeOK'
    BY <1>1 DEF TypeOK
  <1>3. OccupancyBounded' /\ DequeueFindsEntry' /\ QuietUnlessOpen' /\ StopOnlyWhenClosing'
    BY <1>1 DEF OccupancyBounded, DequeueFindsEntry, QuietUnlessOpen, StopOnlyWhenClosing
  <1>4. InFlightExact'
    BY <1>1 DEF InFlightExact, Uncounted
  <1> QED
    BY <1>2, <1>3, <1>4

(* Taking an entry moves one from the ring to the worker.                  *)
LEMMA WorkerDequeueStep == IInv /\ WorkerDequeue => IInv'
  <1> SUFFICES ASSUME IInv, WorkerDequeue PROVE IInv'
    OBVIOUS
  <1> USE DEF IInv
  <1>1. sub \in Ring /\ ~RingEmpty(sub)
    BY DEF TypeOK, WorkerDequeue, DequeueFindsEntry
  <1>2. /\ sub' \in Ring
        /\ RingCount(sub') = RingCount(sub) - 1
        /\ RingCount(sub) \in Int
    BY <1>1, DropFacts, CountFacts DEF WorkerDequeue
  <1>3. entry' \in Payload
    <2>1. sub.tail % RingSize \in Slot
      BY <1>1, RingBounds DEF Ring, Idx, Slot
    <2>2. RingPeek(sub) \in Payload
      BY <1>1, <2>1 DEF Ring, RingPeek
    <2> QED
      BY <1>1, <2>2, RingBounds DEF WorkerDequeue, Payload
  <1>4. TypeOK'
    BY <1>1, <1>2, <1>3 DEF WorkerDequeue, TypeOK, WorkerPcs, stats
  <1>5. OccupancyBounded'
    BY <1>1, <1>2, RingBounds DEF WorkerDequeue, OccupancyBounded, TypeOK, stats
  <1>6. Uncounted' = Uncounted
    BY DEF WorkerDequeue, Uncounted
  <1>7. InFlightExact'
    BY <1>1, <1>2, <1>6, UncountedFinite
    DEF WorkerDequeue, InFlightExact, WorkerHolds, stats
  <1>8. DequeueFindsEntry' /\ QuietUnlessOpen' /\ StopOnlyWhenClosing'
    BY <1>1 DEF WorkerDequeue, DequeueFindsEntry, QuietUnlessOpen, StopOnlyWhenClosing
  <1> QED
    BY <1>4, <1>5, <1>7, <1>8

(* Storing a completion leaves the entry with the worker until atomic_dec. *)
LEMMA WorkerPushStep == IInv /\ WorkerPush => IInv'
  <1> SUFFICES ASSUME IInv, WorkerPush PROVE IInv'
    OBVIOUS
  <1> USE DEF IInv
  <1>1. comp \in Ring /\ entry \in Payload
    BY DEF TypeOK
  <1>2. comp' \in Ring /\ RingCount(comp') <= RingSize
    BY <1>1, PutFacts, CountFacts, RingBounds
    DEF WorkerPush, OccupancyBounded, RingFull
  <1>3. TypeOK'
    BY <1>2 DEF WorkerPush, TypeOK, WorkerPcs, stats
  <1>4. OccupancyBounded'
    BY <1>2 DEF WorkerPush, OccupancyBounded, stats
  <1>5. InFlightExact' /\ DequeueFindsEntry' /\ QuietUnlessOpen' /\ StopOnlyWhenClosing'
    BY DEF WorkerPush, InFlightExact, DequeueFindsEntry, QuietUnlessOpen, StopOnlyWhenClosing,
           Uncounted, WorkerHolds, stats
  <1> QED
    BY <1>3, <1>4, <1>5

(* The worker's atomic_dec and its statistic.                              *)
LEMMA WorkerAccountStep == IInv /\ (WorkerDec \/ WorkerCount) => IInv'
  <1> SUFFICES ASSUME IInv, WorkerDec \/ WorkerCount PROVE IInv'
    OBVIOUS
  <1> USE DEF IInv
  <1>1. (total_completions + 1) % StatMod \in 0..StatMod-1
    BY ChannelAssumption DEF TypeOK
  <1>2. in_flight - 1 \in Int
    BY DEF TypeOK
  <1>3. TypeOK'
    BY <1>1, <1>2 DEF WorkerDec, WorkerCount, TypeOK, WorkerPcs, rings
  <1>4. OccupancyBounded' /\ DequeueFindsEntry' /\ QuietUnlessOpen' /\ StopOnlyWhenClosing'
    BY DEF WorkerDec, WorkerCount, OccupancyBounded, DequeueFindsEntry,
           QuietUnlessOpen, StopOnlyWhenClosing, rings
  <1>5. Uncounted' = Uncounted
    BY DEF WorkerDec, WorkerCount, Uncounted
  <1>6. RingCount(sub) \in Int
    BY CountFacts DEF TypeOK
  <1>7. InFlightExact'
    BY <1>5, <1>6, UncountedFinite
    DEF WorkerDec, WorkerCount, InFlightExact, WorkerHolds, TypeOK, rings
  <1> QED
    BY <1>3, <1>4, <1>7

-----------------------------------------------------------------------------
\* Theorems

(* Every step of the channel preserves the inductive invariant.            *)
LEMMA StepIInv == IInv /\ [Next]_vars => IInv'
  <1> SUFFICES ASSUME IInv, [Next]_vars PROVE IInv'
    OBVIOUS
  <1>1. CASE CreateChannel
    BY <1>1, CreateStep
  <1>2. CASE Shutdown \/ Destroy
    BY <1>2, CloseStep DEF Destroy
  <1>3. ASSUME NEW t \in Threads, SubmitRest(t)
        PROVE  IInv'
    BY <1>3, SubmitIncStep, SubmitTailStep DEF SubmitRest
  <1>4. ASSUME NEW t \in Threads, NEW p \in Payload, SubmitPut(t, p)
        PROVE  IInv'
    BY <1>4, SubmitPutStep
  <1>5. CASE Complete
    BY <1>5, CompleteStep
  <1>6. CASE Worker
    BY <1>6, WorkerMoveStep, WorkerDequeueStep, WorkerPushStep, WorkerAccountStep
    DEF Worker, WorkerMove
  <1>7. CASE UNCHANGED vars
    <2>1. Uncounted' = Uncounted /\ WorkerHolds' = WorkerHolds
      BY <1>7 DEF vars, Uncounted, WorkerHolds
    <2> QED
      BY <1>7, <2>1 DEF vars, IInv, TypeOK, OccupancyBounded, InFlightExact,
         DequeueFindsEntry, QuietUnlessOpen, StopOnlyWhenClosing
  <1> QED
    BY <1>1, <1>2, <1>3, <1>4, <1>5, <1>6, <1>7 DEF Next

(* The inductive invariant holds in every reachable state.                 *)
THEOREM ChannelInvariant == Spec => []IInv
  <1> QED
    BY InitIInv, StepIInv, PTL DEF Spec

(* Type correctness of the channel, in particular that the wrapping        *)
(* indices stay within the width of an unsigned int.                       *)
THEOREM TypeCorrect == Spec => []TypeOK
  <1>1. IInv => TypeOK
    BY DEF IInv
  <1> QED
    BY <1>1, ChannelInvariant, PTL

(* No ring ever overflows, whatever its size, the width of the indices and *)
(* the number of submitters; the high watermark covers the occupancy.      *)
THEOREM NoOverflow == Spec => []OccupancyBounded
  <1>1. IInv => OccupancyBounded
    BY DEF IInv
  <1> QED
    BY <1>1, ChannelInvariant, PTL

(* in_flight is exact up to the submitters that have not reached their     *)
(* atomic_inc, so it never drifts however many threads submit.             *)
THEOREM InFlightNeverDrifts == Spec => []InFlightExact
  <1>1. IInv => InFlightExact
    BY DEF IInv
  <1> QED
    BY <1>1, ChannelInvariant, PTL

(* The worker's test under the lock never finds the submission ring empty. *)
THEOREM RecheckNeverFails == Spec => []DequeueFindsEntry
  <1>1. IInv => DequeueFindsEntry
    BY DEF IInv
  <1> QED
    BY <1>1, ChannelInvariant, PTL

-----------------------------------------------------------------------------
\* The totals of GET_STATS

(* The threads whose entry is not yet in the total are finitely many.      *)
LEMMA UntotalledFinite == IsFiniteSet(Untotalled) /\ Cardinality(Untotalled) \in Nat
  <1>1. Untotalled \subseteq Threads
    BY DEF Untotalled
  <1>2. IsFiniteSet(Untotalled)
    BY <1>1, FS_Subset, ChannelAssumption
  <1> QED
    BY <1>2, FS_CardinalityType

(* An atomic64_inc of either total moves their difference by one.          *)
LEMMA TotalsStep ==
    ASSUME NEW s \in 0..StatMod-1, NEW c \in 0..StatMod-1
    PROVE  /\ (((s + 1) % StatMod) - c) % StatMod = (s - c + 1) % StatMod
           /\ \A z \in 0..StatMod-1 :
                 z = (c + 1) % StatMod => (s - z) % StatMod = (s - c - 1) % StatMod
  <1>1. (((s + 1) % StatMod) - c) % StatMod = (s - c + 1) % StatMod
    <2>1. CASE s = StatMod - 1
      <3>1. (s + 1) % StatMod = 0
        BY <2>1, ChannelAssumption
      <3>2. PICK x \in Int : x = s - c + 1
        BY ChannelAssumption
      <3>3. PICK y \in Int : y = 0 - c
        BY ChannelAssumption
      <3>4. PICK k \in Int : k = 1
        OBVIOUS
      <3>5. x = y + StatMod * k
        BY <2>1, <3>2, <3>3, <3>4, ChannelAssumption
      <3>6. x % StatMod = y % StatMod
        BY <3>5, Congruent, ChannelAssumption
      <3> QED
        BY <3>1, <3>2, <3>3, <3>6
    <2>2. CASE s # StatMod - 1
      <3>1. (s + 1) % StatMod = s + 1
        BY <2>2, ChannelAssumption
      <3>2. s + 1 - c = s - c + 1
        BY ChannelAssumption
      <3> QED
        BY <3>1, <3>2
    <2> QED
      BY <2>1, <2>2
  <1>2. ASSUME NEW z \in 0..StatMod-1, z = (c + 1) % StatMod
        PROVE  (s - z) % StatMod = (s - c - 1) % StatMod
    <2>1. CASE c = StatMod - 1
      <3>1. z = 0
        BY <1>2, <2>1, ChannelAssumption
      <3>2. PICK x \in Int : x = s - c - 1
        BY ChannelAssumption
      <3>3. PICK k \in Int : k = 1
        OBVIOUS
      <3>4. s = x + StatMod * k /\ s - 0 = s /\ s \in Int
        BY <2>1, <3>2, <3>3, ChannelAssumption
      <3>5. s % StatMod = x % StatMod
        BY <3>4, Congruent, ChannelAssumption
      <3> QED
        BY <3>1, <3>2, <3>4, <3>5
    <2>2. CASE c # StatMod - 1
      <3>1. z = c + 1
        BY <1>2, <2>2, ChannelAssumption
      <3>2. s - (c + 1) = s - c - 1
        BY ChannelAssumption
      <3> QED
        BY <3>1, <3>2
    <2> QED
      BY <2>1, <2>2
  <1> QED
    BY <1>1, <1>2

(* The work in progress that separates the two totals.                     *)
InProgress == RingCount(sub) + WorkerOwes - Cardinality(Untotalled)

(* TotalsAgree is carried by the inductive invariant: a publish and a      *)
(* dequeue leave the work in progress alone, and each total moves with it. *)
LEMMA StepTotals == IInv /\ TotalsAgree /\ [Next]_vars => TotalsAgree'
  <1> SUFFICES ASSUME IInv, TotalsAgree, [Next]_vars PROVE TotalsAgree'
    OBVIOUS
  <1>1. /\ sub \in Ring /\ comp \in Ring
        /\ total_submissions \in 0..StatMod-1 /\ total_completions \in 0..StatMod-1
        /\ upc \in [Threads -> {"idle", "inc", "count", "wake"}]
    BY DEF IInv, TypeOK
  <1>2. RingCount(sub) \in Nat /\ WorkerOwes \in Nat /\ InProgress \in Int
    BY <1>1, CountFacts, RingBounds, UntotalledFinite DEF WorkerOwes, InProgress
  <1>3. life = "open" =>
           (total_submissions - total_completions) % StatMod = InProgress % StatMod
    BY DEF TotalsAgree, InProgress
  <1>4. ASSUME InProgress' = InProgress,
               UNCHANGED <<total_submissions, total_completions>>,
               life' = "open" => life = "open"
        PROVE  TotalsAgree'
    BY <1>3, <1>4 DEF TotalsAgree, InProgress
  <1>5. CASE CreateChannel
    <2>1. Untotalled' = {}
      BY <1>5 DEF CreateChannel, Untotalled, IInv, QuietUnlessOpen
    <2>2. Cardinality(Untotalled') = 0
      BY <2>1, FS_EmptySet
    <2>3. RingCount(sub') = 0 /\ WorkerOwes' = 0
      BY <1>5, InitFacts DEF CreateChannel, WorkerOwes
    <2> QED
      BY <1>5, <2>2, <2>3 DEF CreateChannel, TotalsAgree
  <1>6. CASE Shutdown \/ Destroy
    BY <1>6 DEF Shutdown, Destroy, KthreadStop, FreeChannel, TotalsAgree
  <1>7. ASSUME NEW t \in Threads, NEW p \in Payload, SubmitPut(t, p)
        PROVE  TotalsAgree'
    <2>1. RingCount(sub') = RingCount(sub) + 1
      BY <1>1, <1>7, PutFacts DEF SubmitPut, IInv, OccupancyBounded
    <2>2. Untotalled' = Untotalled \cup {t} /\ t \notin Untotalled
      BY <1>1, <1>7 DEF SubmitPut, Untotalled
    <2>3. Cardinality(Untotalled') = Cardinality(Untotalled) + 1
      BY <2>2, UntotalledFinite, FS_AddElement
    <2>4. WorkerOwes' = WorkerOwes
      BY <1>7 DEF SubmitPut, WorkerOwes
    <2>5. InProgress' = InProgress
      BY <1>2, <2>1, <2>3, <2>4, UntotalledFinite DEF InProgress
    <2> QED
      BY <1>4, <1>7, <2>5 DEF SubmitPut
  <1>8. ASSUME NEW t \in Threads, SubmitRest(t)
        PROVE  TotalsAgree'
    <2>1. CASE SubmitInc(t) \/ SubmitWake(t)
      <3>1. Untotalled' = Untotalled
        BY <1>1, <2>1 DEF SubmitInc, SubmitWake, Untotalled
      <3> QED
        BY <1>4, <2>1, <3>1
        DEF SubmitInc, SubmitWake, InProgress, WorkerOwes, rings, stats
    <2>2. CASE SubmitCount(t)
      <3>1. Untotalled' = Untotalled \ {t} /\ t \in Untotalled
        BY <1>1, <2>2 DEF SubmitCount, Untotalled
      <3>2. Cardinality(Untotalled') = Cardinality(Untotalled) - 1
        BY <3>1, UntotalledFinite, FS_RemoveElement
      <3>3. WorkerOwes' = WorkerOwes /\ sub' = sub /\ life' = life
        BY <2>2 DEF SubmitCount, WorkerOwes, rings
      <3>4. InProgress' = InProgress + 1
        BY <1>2, <3>2, <3>3, UntotalledFinite DEF InProgress
      <3>5. (total_submissions - total_completions)' % StatMod
               = (total_submissions - total_completions + 1) % StatMod
        BY <1>1, <2>2, TotalsStep DEF SubmitCount
      <3>6. life = "open" =>
              (total_submissions - total_completions + 1) % StatMod
                 = (InProgress + 1) % StatMod
        <4>1. PICK d \in Int : d = total_submissions - total_completions
          BY <1>1
        <4>2. PICK n \in Int : n = InProgress
          BY <1>2
        <4>3. ASSUME life = "open" PROVE (d + 1) % StatMod = (n + 1) % StatMod
          <5>1. d % StatMod = n % StatMod
            BY <1>3, <4>1, <4>2, <4>3
          <5>2. PICK m \in Int : m = 1
            OBVIOUS
          <5>3. (d + m) % StatMod = (n + m) % StatMod
            BY <5>1, ModStep, ChannelAssumption
          <5> QED
            BY <5>2, <5>3
        <4> QED
          BY <4>1, <4>2, <4>3
      <3> QED
        BY <3>3, <3>4, <3>5, <3>6 DEF TotalsAgree, InProgress
    <2> QED
      BY <1>8, <2>1, <2>2 DEF SubmitRest
  <1>9. CASE Complete
    BY <1>4, <1>9 DEF Complete, InProgress, WorkerOwes, Untotalled, stats
  <1>10. CASE WorkerMove
    <2>1. WorkerOwes' = WorkerOwes \/ life # "open"
      BY <1>10
      DEF WorkerMove, WorkerOwes, WorkerGoto, WorkerStart, WorkerTop, WorkerPrepare,
          WorkerCond, WorkerSleep, WorkerCheck, WorkerDrain, WorkerFull, IInv,
          StopOnlyWhenClosing
    <2>2. UNCHANGED <<life, sub, upc, total_submissions, total_completions>>
      BY <1>10
      DEF WorkerMove, WorkerGoto, WorkerStart, WorkerTop, WorkerPrepare,
          WorkerCond, WorkerSleep, WorkerCheck, WorkerDrain, WorkerFull, rings, stats
    <2> QED
      BY <2>1, <2>2 DEF TotalsAgree, Untotalled
  <1>11. CASE WorkerDequeue
    <2>1. /\ RingCount(sub') = RingCount(sub) - 1
          /\ WorkerOwes = 0 /\ WorkerOwes' = 1
      BY <1>1, <1>11, DropFacts DEF WorkerDequeue, WorkerOwes, IInv, DequeueFindsEntry
    <2>2. Untotalled' = Untotalled
      BY <1>11 DEF WorkerDequeue, Untotalled
    <2>3. InProgress' = InProgress
      BY <1>2, <2>1, <2>2, UntotalledFinite DEF InProgress
    <2> QED
      BY <1>4, <1>11, <2>3 DEF WorkerDequeue, stats
  <1>12. CASE WorkerPush \/ WorkerDec
    BY <1>4, <1>12
    DEF WorkerPush, WorkerDec, InProgress, WorkerOwes, Untotalled, rings, stats
  <1>13. CASE WorkerCount
    <2>1. /\ WorkerOwes = 1 /\ WorkerOwes' = 0 /\ sub' = sub /\ life' = life
          /\ Untotalled' = Untotalled
      BY <1>13 DEF WorkerCount, WorkerOwes, Untotalled, rings
    <2>2. InProgress' = InProgress - 1
      BY <1>2, <2>1, UntotalledFinite DEF InProgress
    <2>3. (total_submissions - total_completions)' % StatMod
             = (total_submissions - total_completions - 1) % StatMod
      <3>1. total_submissions' = total_submissions
        BY <1>13 DEF WorkerCount
      <3>2. total_completions' = (total_completions + 1) % StatMod
        BY <1>13 DEF WorkerCount
      <3>3. total_completions' \in 0..StatMod-1
        BY <1>1, <3>2, ChannelAssumption
      <3> QED
        BY <1>1, <3>1, <3>2, <3>3, TotalsStep
    <2>4. life = "open" =>
            (total_submissions - total_completions - 1) % StatMod
               = (InProgress - 1) % StatMod
      <3>1. PICK d \in Int : d = total_submissions - total_completions
        BY <1>1
      <3>2. PICK n \in Int : n = InProgress
        BY <1>2
      <3>3. ASSUME life = "open" PROVE (d - 1) % StatMod = (n - 1) % StatMod
        <4>1. d % StatMod = n % StatMod
          BY <1>3, <3>1, <3>2, <3>3
        <4>2. PICK m \in Int : m = -1
          OBVIOUS
        <4>3. (d + m) % StatMod = (n + m) % StatMod
          BY <4>1, ModStep, ChannelAssumption
        <4>4. d + m = d - 1 /\ n + m = n - 1
          BY <4>2
        <4> QED
          BY <4>3, <4>4
      <3> QED
        BY <3>1, <3>2, <3>3
    <2> QED
      BY <2>1, <2>2, <2>3, <2>4 DEF TotalsAgree, InProgress
  <1>14. CASE UNCHANGED vars
    BY <1>4, <1>14 DEF vars, InProgress, WorkerOwes, Untotalled
  <1> QED
    BY <1>5, <1>6, <1>7, <1>8, <1>9, <1>10, <1>11, <1>12, <1>13, <1>14
    DEF Next, Worker, WorkerMove

(* The totals that GET_STATS reports differ by exactly the work in         *)
(* progress, modulo 2^64, in every interleaving of the submitters' and the *)
(* worker's atomic increments.                                             *)
THEOREM TotalsNeverDrift == Spec => []TotalsAgree
  <1>1. Init => TotalsAgree
    BY DEF Init, TotalsAgree
  <1> QED
    BY <1>1, InitIInv, StepIInv, StepTotals, PTL DEF Spec

-----------------------------------------------------------------------------
\* What a ring holds, as a sequence

(* A slot is addressed modulo the ring size, whether or not the index was  *)
(* reduced modulo 2^32 before: this is what the divisibility is for.       *)
LEMMA SlotAt ==
    ASSUME NEW x \in Int
    PROVE  (x % IdxMod) % RingSize = x % RingSize /\ x % RingSize \in Slot
  <1>1. PICK k \in 1..IdxMod : IdxMod = k * RingSize
    BY RingAssumption
  <1>2. k \in Nat
    BY <1>1, RingBounds
  <1>3. (x % IdxMod) % RingSize = x % RingSize
    BY <1>1, <1>2, RingBounds, ModMod
  <1> QED
    BY <1>3, RingBounds DEF Slot

(* The contents of a ring as a sequence of payloads.                       *)
LEMMA RingSeqType ==
    ASSUME NEW r \in Ring
    PROVE  /\ RingSeq(r) \in Seq(Payload)
           /\ Len(RingSeq(r)) = RingCount(r)
           /\ RingCount(r) \in Nat
           /\ \A i \in 1..RingCount(r) :
                 RingSeq(r)[i] = r.entries[(r.tail + i - 1) % RingSize]
  <1>1. r.tail \in Int /\ r.entries \in [Slot -> Payload]
    BY RingBounds DEF Ring, Idx
  <1>2. RingCount(r) \in Nat
    BY CountFacts, RingBounds
  <1>3. ASSUME NEW i \in 1..RingCount(r)
        PROVE  /\ ((r.tail + i - 1) % IdxMod) % RingSize = (r.tail + i - 1) % RingSize
               /\ (r.tail + i - 1) % RingSize \in Slot
    <2>1. PICK x \in Int : x = r.tail + i - 1
      BY <1>1, <1>2
    <2> QED
      BY <2>1, SlotAt
  <1>4. \A i \in 1..RingCount(r) :
           r.entries[((r.tail + i - 1) % IdxMod) % RingSize] \in Payload
    BY <1>1, <1>3
  <1>5. RingSeq(r) \in [1..RingCount(r) -> Payload]
    BY <1>4 DEF RingSeq
  <1>6. RingSeq(r) \in Seq(Payload) /\ Len(RingSeq(r)) = RingCount(r)
    BY <1>2, <1>5, IsASeq, LenProperties
  <1>7. \A i \in 1..RingCount(r) :
           RingSeq(r)[i] = r.entries[(r.tail + i - 1) % RingSize]
    BY <1>3 DEF RingSeq
  <1> QED
    BY <1>2, <1>6, <1>7

(* An empty ring holds the empty sequence.                                 *)
LEMMA InitSeq == RingSeq(RingInit) = <<>>
  <1>1. RingSeq(RingInit) \in Seq(Payload) /\ Len(RingSeq(RingInit)) = 0
    BY InitFacts, RingSeqType
  <1> QED
    BY <1>1, EmptySeq

(* The head index, as the tail plus the count.                             *)
LEMMA HeadSlot ==
    ASSUME NEW r \in Ring
    PROVE  r.head % RingSize = (r.tail + RingCount(r)) % RingSize
  <1>1. r.head \in Idx /\ r.tail \in Idx
    BY DEF Ring
  <1>2. RingCount(r) = IF r.head >= r.tail THEN r.head - r.tail
                       ELSE r.head - r.tail + IdxMod
    BY <1>1, IdxDiff DEF RingCount
  <1>3. PICK x \in Int : x = r.tail + RingCount(r)
    BY <1>1, <1>2, RingBounds DEF Idx
  <1>4. x = r.head \/ x = r.head + IdxMod
    BY <1>1, <1>2, <1>3, RingBounds DEF Idx
  <1>5. x % IdxMod = r.head
    BY <1>1, <1>4, RingBounds DEF Idx
  <1> QED
    BY <1>3, <1>5, SlotAt

(* Publishing appends: the slot at head is none of the occupied ones,      *)
(* because the ring is not full.                                           *)
LEMMA PutSeq ==
    ASSUME NEW r \in Ring, NEW p \in Payload, RingCount(r) <= RingSize, ~RingFull(r)
    PROVE  RingSeq(RingPut(r, p)) = Append(RingSeq(r), p)
  <1> DEFINE n == RingCount(r)
  <1>1. /\ RingPut(r, p) \in Ring
        /\ RingCount(RingPut(r, p)) = n + 1
    BY PutFacts
  <1>2. n \in Nat /\ n < RingSize
    BY RingSeqType, RingBounds DEF RingFull
  <1>3. r.tail \in Int /\ r.entries \in [Slot -> Payload]
    BY RingBounds DEF Ring, Idx
  <1>4. /\ RingPut(r, p).tail = r.tail
        /\ RingPut(r, p).entries = [r.entries EXCEPT ![r.head % RingSize] = p]
    BY DEF RingPut, Ring
  <1>5. r.head % RingSize = (r.tail + n) % RingSize /\ (r.tail + n) % RingSize \in Slot
    <2>1. PICK x \in Int : x = r.tail + n
      BY <1>2, <1>3
    <2> QED
      BY <2>1, HeadSlot, SlotAt
  <1>6. ASSUME NEW i \in 1..n
        PROVE  RingSeq(RingPut(r, p))[i] = RingSeq(r)[i]
    <2>1. PICK x \in Int : x = r.tail + i - 1
      BY <1>2, <1>3
    <2>2. PICK y \in Int : y = r.tail + n
      BY <1>2, <1>3
    <2>3. -RingSize < x - y /\ x - y < RingSize /\ x # y
      BY <1>2, <1>3, <2>1, <2>2, RingBounds
    <2>4. x % RingSize # y % RingSize
      BY <2>3, ModDistinct, RingBounds
    <2>5. x % RingSize \in Slot
      BY SlotAt
    <2>6. RingPut(r, p).entries[x % RingSize] = r.entries[x % RingSize]
      BY <1>3, <1>4, <1>5, <2>2, <2>4, <2>5
    <2>7. i \in 1..(n + 1)
      BY <1>2
    <2>8. RingSeq(RingPut(r, p))[i] = RingPut(r, p).entries[x % RingSize]
      BY <1>1, <1>4, <2>1, <2>7, RingSeqType
    <2>9. RingSeq(r)[i] = r.entries[x % RingSize]
      BY <2>1, RingSeqType
    <2> QED
      BY <2>6, <2>8, <2>9
  <1>7. RingSeq(RingPut(r, p))[n + 1] = p
    <2>1. n + 1 \in 1..(n + 1) /\ r.tail + (n + 1) - 1 = r.tail + n
      BY <1>2, <1>3
    <2>2. PICK m \in 1..(n + 1) : m = n + 1 /\ r.tail + m - 1 = r.tail + n
      BY <2>1
    <2>3. RingSeq(RingPut(r, p))[m] = RingPut(r, p).entries[(r.tail + m - 1) % RingSize]
      BY <1>1, <1>4, RingSeqType
    <2> QED
      BY <1>3, <1>4, <1>5, <2>2, <2>3
  <1>8. /\ RingSeq(r) \in Seq(Payload) /\ Len(RingSeq(r)) = n
        /\ RingSeq(RingPut(r, p)) \in Seq(Payload)
        /\ Len(RingSeq(RingPut(r, p))) = n + 1
    BY <1>1, RingSeqType
  <1>9. /\ Append(RingSeq(r), p) \in Seq(Payload)
        /\ Len(Append(RingSeq(r), p)) = n + 1
        /\ \A i \in 1..n : Append(RingSeq(r), p)[i] = RingSeq(r)[i]
        /\ Append(RingSeq(r), p)[n + 1] = p
    BY <1>8, AppendProperties
  <1>10. \A i \in 1..(n + 1) : i \in 1..n \/ i = n + 1
    BY <1>2
  <1>11. \A i \in 1..(n + 1) : RingSeq(RingPut(r, p))[i] = Append(RingSeq(r), p)[i]
    BY <1>6, <1>7, <1>9, <1>10
  <1> QED
    BY <1>8, <1>9, <1>11, SeqEqual

(* Giving a slot back removes the oldest entry and moves nothing else.     *)
LEMMA DropSeq ==
    ASSUME NEW r \in Ring, ~RingEmpty(r)
    PROVE  /\ RingSeq(r) # <<>>
           /\ Head(RingSeq(r)) = RingPeek(r)
           /\ Tail(RingSeq(r)) = RingSeq(RingDrop(r))
  <1> DEFINE n == RingCount(r)
  <1>1. /\ RingDrop(r) \in Ring
        /\ RingCount(RingDrop(r)) = n - 1
    BY DropFacts
  <1>2. n \in Nat /\ n # 0
    BY RingSeqType, CountFacts
  <1>3. r.tail \in Int
    BY RingBounds DEF Ring, Idx
  <1>4. /\ RingDrop(r).tail = (r.tail + 1) % IdxMod
        /\ RingDrop(r).entries = r.entries
    BY DEF RingDrop, Ring
  <1>5. RingSeq(r) \in Seq(Payload) /\ Len(RingSeq(r)) = n
    BY RingSeqType
  <1>6. RingSeq(r) # <<>>
    BY <1>2, <1>5, EmptySeq
  <1>7. Head(RingSeq(r)) = RingPeek(r)
    <2>1. 1 \in 1..n /\ r.tail + 1 - 1 = r.tail
      BY <1>2, <1>3
    <2>2. RingSeq(r)[1] = r.entries[r.tail % RingSize]
      BY <2>1, RingSeqType
    <2> QED
      BY <1>5, <1>6, <2>2 DEF RingPeek
  <1>8. /\ Tail(RingSeq(r)) \in Seq(Payload)
        /\ Len(Tail(RingSeq(r))) = n - 1
        /\ \A i \in 1..(n - 1) : Tail(RingSeq(r))[i] = RingSeq(r)[i + 1]
    BY <1>5, <1>6, HeadTailProperties
  <1>9. ASSUME NEW i \in 1..(n - 1)
        PROVE  RingSeq(RingDrop(r))[i] = RingSeq(r)[i + 1]
    <2>1. i + 1 \in 1..n /\ i - 1 \in Int
      BY <1>2
    <2>2. PICK x \in Int : x = r.tail + 1
      BY <1>3
    <2>3. PICK y \in 0..IdxMod-1 : y = x % IdxMod
      BY <2>2, RingBounds
    <2>4. y \in Int /\ y % RingSize = x % RingSize
      <3>1. (x % IdxMod) % RingSize = x % RingSize
        BY <2>2, SlotAt
      <3> QED
        BY <2>3, <3>1, RingBounds
    <2>5. PICK c \in Int : c = i - 1
      BY <2>1
    <2>6. (y + c) % RingSize = (x + c) % RingSize
      BY <2>4, ModStep, RingBounds
    <2>7. y + c = y + i - 1 /\ x + c = r.tail + (i + 1) - 1
      BY <1>2, <1>3, <2>2, <2>4, <2>5
    <2>8. RingSeq(RingDrop(r))[i] = r.entries[(y + i - 1) % RingSize]
      BY <1>1, <1>4, <2>2, <2>3, RingSeqType
    <2>9. RingSeq(r)[i + 1] = r.entries[(r.tail + (i + 1) - 1) % RingSize]
      BY <2>1, RingSeqType
    <2> QED
      BY <2>6, <2>7, <2>8, <2>9
  <1>10. RingSeq(RingDrop(r)) \in Seq(Payload) /\ Len(RingSeq(RingDrop(r))) = n - 1
    BY <1>1, RingSeqType
  <1>11. Tail(RingSeq(r)) = RingSeq(RingDrop(r))
    BY <1>8, <1>9, <1>10, SeqEqual
  <1> QED
    BY <1>6, <1>7, <1>11

-----------------------------------------------------------------------------
\* The channel implements a pipeline

(* The entry the worker holds, as the pipeline sees it: not yet processed  *)
(* until it is stored.                                                     *)
Held == IF wpc \in {"push", "full"} THEN <<(entry - 1) % PayloadMod>> ELSE <<>>

(* Incrementing a payload and taking one off again cancel, across the wrap.*)
LEMMA PayloadStep ==
    ASSUME NEW e \in Payload
    PROVE  /\ (e + 1) % PayloadMod \in Payload
           /\ (e - 1) % PayloadMod \in Payload
           /\ (((e + 1) % PayloadMod) - 1) % PayloadMod = e
           /\ (((e - 1) % PayloadMod) + 1) % PayloadMod = e
  <1>1. (e + 1) % PayloadMod = IF e = PayloadMod - 1 THEN 0 ELSE e + 1
    BY RingBounds DEF Payload
  <1>2. (e - 1) % PayloadMod = IF e = 0 THEN PayloadMod - 1 ELSE e - 1
    BY RingBounds DEF Payload
  <1>3. (0 - 1) % PayloadMod = PayloadMod - 1 /\ PayloadMod % PayloadMod = 0
    BY RingBounds
  <1>4. e % PayloadMod = e
    BY RingBounds DEF Payload
  <1> QED
    BY <1>1, <1>2, <1>3, <1>4, RingBounds DEF Payload

(* Facts about a held entry in front of a sequence.                        *)
LEMMA HeldFirst ==
    ASSUME NEW x \in Payload, NEW s \in Seq(Payload)
    PROVE  /\ <<x>> \o s # <<>>
           /\ Head(<<x>> \o s) = x
           /\ Tail(<<x>> \o s) = s
           /\ <<>> \o s = s
  OBVIOUS

(* What the mapped state is made of.                                       *)
LEMMA MappedState ==
    ASSUME IInv
    PROVE  /\ Held \in Seq(Payload) /\ Len(Held) <= 1
           /\ RingSeq(sub) \in Seq(Payload) /\ Len(RingSeq(sub)) = RingCount(sub)
           /\ RingSeq(comp) \in Seq(Payload) /\ Len(RingSeq(comp)) = RingCount(comp)
           /\ life # "free" => /\ PipelinePending = Held \o RingSeq(sub)
                               /\ PipelineReady = RingSeq(comp)
           /\ life = "free" => PipelinePending = <<>> /\ PipelineReady = <<>>
  <1>1. sub \in Ring /\ comp \in Ring /\ entry \in Payload
    BY DEF IInv, TypeOK
  <1>2. (entry - 1) % PayloadMod \in Payload
    BY <1>1, PayloadStep
  <1>3. Held \in Seq(Payload) /\ Len(Held) <= 1
    BY <1>2 DEF Held
  <1> QED
    BY <1>1, <1>3, RingSeqType DEF PipelinePending, PipelineReady, Held

(* Every step of the channel is a step of the pipeline or leaves it as it  *)
(* is.                                                                     *)
LEMMA StepPipeline == IInv /\ IInv' /\ [Next]_vars => [Pipe!Next]_(Pipe!vars)
  <1> SUFFICES ASSUME IInv, IInv', [Next]_vars PROVE [Pipe!Next]_(Pipe!vars)
    OBVIOUS
  <1>1. sub \in Ring /\ comp \in Ring /\ entry \in Payload
    BY DEF IInv, TypeOK
  <1>2. life \in {"free", "open", "shutdown", "stopping"}
    BY DEF IInv, TypeOK
  <1>3. ASSUME life' = life, PipelinePending' = PipelinePending, comp' = comp
        PROVE  UNCHANGED Pipe!vars
    BY <1>3 DEF Pipe!vars, PipelinePhase, PipelineReady
  <1>4. ASSUME life' = life, sub' = sub, comp' = comp, Held' = Held
        PROVE  UNCHANGED Pipe!vars
    <2>1. PipelinePending' = PipelinePending
      BY <1>4 DEF PipelinePending, Held
    <2> QED
      BY <1>3, <1>4, <2>1
  <1>5. CASE CreateChannel
    <2>1. PipelinePending = <<>> /\ PipelineReady = <<>>
      BY <1>5 DEF CreateChannel, PipelinePending, PipelineReady
    <2>2. PipelinePending' = <<>> /\ PipelineReady' = <<>>
      BY <1>5, InitSeq DEF CreateChannel, PipelinePending, PipelineReady
    <2>3. Pipe!Open
      BY <1>5, <2>1, <2>2 DEF CreateChannel, Pipe!Open, PipelinePhase
    <2> QED
      BY <2>3 DEF Pipe!Next
  <1>6. CASE Shutdown
    <2>1. PipelinePending' = PipelinePending /\ PipelineReady' = PipelineReady
      BY <1>6 DEF Shutdown, PipelinePending, PipelineReady, rings
    <2>2. Pipe!Close
      BY <1>6, <2>1 DEF Shutdown, Pipe!Close, PipelinePhase
    <2> QED
      BY <2>2 DEF Pipe!Next
  <1>7. CASE KthreadStop
    BY <1>7 DEF KthreadStop, Pipe!vars, PipelinePhase, PipelinePending, PipelineReady, rings
  <1>8. CASE FreeChannel
    <2>1. Pipe!Free
      BY <1>8 DEF FreeChannel, Pipe!Free, PipelinePhase, PipelinePending, PipelineReady
    <2> QED
      BY <2>1 DEF Pipe!Next
  <1>9. ASSUME NEW t \in Threads, NEW p \in Payload, SubmitPut(t, p)
        PROVE  Pipe!Accept
    <2>1. RingCount(sub) < RingSize /\ RingCount(sub) \in Nat
      BY <1>1, <1>9, RingSeqType, RingBounds
      DEF SubmitPut, IInv, OccupancyBounded, RingFull
    <2>2. RingSeq(sub') = Append(RingSeq(sub), p)
      BY <1>1, <1>9, PutSeq DEF SubmitPut, IInv, OccupancyBounded
    <2>3. /\ PipelinePending = Held \o RingSeq(sub)
          /\ PipelinePending' = Held \o RingSeq(sub')
      BY <1>9 DEF SubmitPut, PipelinePending, Held
    <2>4. PICK h \in Seq(Payload) : h = Held /\ Len(h) <= 1
      BY MappedState
    <2>5. PICK s \in Seq(Payload) : s = RingSeq(sub) /\ Len(s) = RingCount(sub)
      BY MappedState
    <2>6. h \o Append(s, p) = Append(h \o s, p)
      OBVIOUS
    <2>7. Len(h \o s) <= RingSize
      <3>1. Len(h \o s) = Len(h) + Len(s) /\ Len(h) \in Nat
        OBVIOUS
      <3> QED
        BY <2>1, <2>4, <2>5, <3>1, RingBounds
    <2>8. PipelineReady' = PipelineReady /\ PipelinePhase' = PipelinePhase
      BY <1>9 DEF SubmitPut, PipelineReady, PipelinePhase
    <2>9. PipelinePhase = "open"
      BY <1>9 DEF SubmitPut, PipelinePhase
    <2>10. /\ Len(PipelinePending) <= RingSize
           /\ PipelinePending' = Append(PipelinePending, p)
      BY <2>2, <2>3, <2>4, <2>5, <2>6, <2>7
    <2> QED
      BY <2>8, <2>9, <2>10 DEF Pipe!Accept, Payload
  <1>10. ASSUME NEW t \in Threads, SubmitRest(t)
         PROVE  UNCHANGED Pipe!vars
    BY <1>4, <1>10
    DEF SubmitRest, SubmitInc, SubmitCount, SubmitWake, Held, rings
  <1>11. CASE Complete
    <2>1. /\ RingSeq(comp) # <<>>
          /\ RingSeq(comp') = Tail(RingSeq(comp))
      BY <1>1, <1>11, DropSeq DEF Complete
    <2>2. PipelinePending' = PipelinePending /\ PipelinePhase = "open" /\ PipelinePhase' = "open"
      BY <1>11 DEF Complete, PipelinePending, PipelinePhase
    <2>3. PipelineReady = RingSeq(comp) /\ PipelineReady' = RingSeq(comp')
      BY <1>11 DEF Complete, PipelineReady
    <2>4. Pipe!HandBack
      BY <2>1, <2>2, <2>3 DEF Pipe!HandBack
    <2> QED
      BY <2>4 DEF Pipe!Next
  <1>12. CASE WorkerFull
    <2>1. CASE ~should_stop
      BY <1>4, <1>12, <2>1 DEF WorkerFull, WorkerGoto, Held, rings
    <2>2. CASE should_stop /\ life = "free"
      BY <1>3, <1>12, <2>2 DEF WorkerFull, WorkerGoto, PipelinePending, rings
    <2>3. CASE should_stop /\ life # "free"
      <3>1. PipelinePhase = "closing" /\ PipelinePhase' = "closing"
        BY <1>2, <1>12, <2>3
        DEF WorkerFull, WorkerGoto, PipelinePhase, IInv, StopOnlyWhenClosing
      <3>2. PipelineReady' = PipelineReady
        BY <1>12 DEF WorkerFull, WorkerGoto, PipelineReady, rings
      <3>3. PICK x \in Payload : x = (entry - 1) % PayloadMod
        BY <1>1, PayloadStep
      <3>4. PICK s \in Seq(Payload) : s = RingSeq(sub)
        BY MappedState
      <3>5. PipelinePending = <<x>> \o s /\ PipelinePending' = <<>> \o s
        BY <1>12, <2>3, <3>3, <3>4
        DEF WorkerFull, WorkerGoto, PipelinePending, rings
      <3>6. PipelinePending # <<>> /\ PipelinePending' = Tail(PipelinePending)
        BY <3>5, HeldFirst
      <3>7. Pipe!GiveUp
        BY <3>1, <3>2, <3>6 DEF Pipe!GiveUp
      <3> QED
        BY <3>7 DEF Pipe!Next
    <2> QED
      BY <2>1, <2>2, <2>3
  <1>13. CASE WorkerMove /\ ~WorkerFull
    BY <1>4, <1>13
    DEF WorkerMove, Held, WorkerGoto, WorkerStart, WorkerTop, WorkerPrepare,
        WorkerCond, WorkerSleep, WorkerCheck, WorkerDrain, rings
  <1>14. CASE WorkerDequeue
    <2>1. ~RingEmpty(sub) /\ wpc = "dequeue"
      BY <1>14 DEF WorkerDequeue, IInv, DequeueFindsEntry
    <2>2. /\ wpc' = "push" /\ sub' = RingDrop(sub) /\ comp' = comp /\ life' = life
          /\ entry' = (RingPeek(sub) + 1) % PayloadMod
      BY <1>14, <2>1 DEF WorkerDequeue
    <2>3. /\ RingSeq(sub) # <<>>
          /\ Head(RingSeq(sub)) = RingPeek(sub)
          /\ Tail(RingSeq(sub)) = RingSeq(sub')
      BY <1>1, <2>1, <2>2, DropSeq
    <2>4. PICK s \in Seq(Payload) : s = RingSeq(sub)
      BY MappedState
    <2>5. PICK x \in Payload : x = RingPeek(sub)
      BY <2>3, <2>4, HeadTailProperties
    <2>6. (entry' - 1) % PayloadMod = x
      BY <2>2, <2>5, PayloadStep
    <2>7. s = <<x>> \o Tail(s)
      BY <2>3, <2>4, <2>5
    <2>8. s = <<>> \o s
      OBVIOUS
    <2>9. life # "free" => PipelinePending = <<>> \o s
      BY <2>1, <2>4 DEF PipelinePending
    <2>10. life # "free" => PipelinePending' = <<x>> \o Tail(s)
      BY <2>2, <2>3, <2>4, <2>6 DEF PipelinePending
    <2>11. life = "free" => PipelinePending' = PipelinePending
      BY <2>2 DEF PipelinePending
    <2> QED
      BY <1>3, <2>2, <2>7, <2>8, <2>9, <2>10, <2>11
  <1>15. CASE WorkerPush
    <2>1. CASE RingFull(comp)
      BY <1>4, <1>15, <2>1 DEF WorkerPush, Held
    <2>2. CASE ~RingFull(comp) /\ life = "free"
      BY <1>15, <2>2
      DEF WorkerPush, Pipe!vars, PipelinePhase, PipelinePending, PipelineReady
    <2>3. CASE ~RingFull(comp) /\ life # "free"
      <3>1. PipelinePhase # "free" /\ PipelinePhase' = PipelinePhase
        BY <1>2, <1>15, <2>3 DEF WorkerPush, PipelinePhase
      <3>2. RingSeq(comp') = Append(RingSeq(comp), entry)
        BY <1>1, <1>15, <2>3, PutSeq DEF WorkerPush, IInv, OccupancyBounded
      <3>3. Len(RingSeq(comp)) < RingSize
        BY <1>1, <2>3, RingSeqType, RingBounds DEF IInv, OccupancyBounded, RingFull
      <3>4. PipelineReady = RingSeq(comp) /\ PipelineReady' = RingSeq(comp')
        BY <1>15, <2>3 DEF WorkerPush, PipelineReady
      <3>5. PICK x \in Payload : x = (entry - 1) % PayloadMod
        BY <1>1, PayloadStep
      <3>6. (x + 1) % PayloadMod = entry
        BY <1>1, <3>5, PayloadStep
      <3>7. PICK s \in Seq(Payload) : s = RingSeq(sub)
        BY MappedState
      <3>8. PipelinePending = <<x>> \o s /\ PipelinePending' = <<>> \o s
        BY <1>15, <2>3, <3>5, <3>7 DEF WorkerPush, PipelinePending
      <3>9. /\ PipelinePending # <<>>
            /\ Head(PipelinePending) = x
            /\ PipelinePending' = Tail(PipelinePending)
        BY <3>8, HeldFirst
      <3>10. PipelineReady' = Append(PipelineReady, (Head(PipelinePending) + 1) % PayloadMod)
        BY <3>2, <3>4, <3>6, <3>9
      <3>11. Pipe!Process
        BY <3>1, <3>3, <3>4, <3>9, <3>10 DEF Pipe!Process
      <3> QED
        BY <3>11 DEF Pipe!Next
    <2> QED
      BY <2>1, <2>2, <2>3
  <1>16. CASE WorkerDec \/ WorkerCount
    BY <1>4, <1>16 DEF WorkerDec, WorkerCount, Held, rings
  <1>17. CASE UNCHANGED vars
    BY <1>4, <1>17 DEF vars, Held
  <1> QED
    BY <1>5, <1>6, <1>7, <1>8, <1>9, <1>10, <1>11, <1>12, <1>13, <1>14, <1>15, <1>16, <1>17
    DEF Next, Destroy, Worker, WorkerMove, Pipe!Next

(* The rings, the worker and the close implement the pipeline: accepted    *)
(* entries come back in order, each once, incremented once, and none is    *)
(* given up unless the channel is being closed.                            *)
THEOREM ChannelIsPipeline == Spec => ImplementsPipeline
  <1>1. Init => Pipe!Init
    BY DEF Init, Pipe!Init, PipelinePhase, PipelinePending, PipelineReady
  <1> QED
    BY <1>1, InitIInv, StepIInv, StepPipeline, PTL DEF Spec, ImplementsPipeline, Pipe!Spec

=============================================================================
