------------------------------ MODULE Channel ------------------------------
(***************************************************************************)
(* One dmaplane channel: a submission ring, a completion ring and a worker *)
(* kthread (driver/main.c, driver/dmaplane.h).  Threads that share the fd  *)
(* run SUBMIT and COMPLETE concurrently with the worker; the last close of *)
(* the fd stops the worker and gives the slot back, and a later            *)
(* CREATE_CHANNEL initialises it again.                                    *)
(*                                                                         *)
(* A critical section under a ring spinlock is one step.  Everything the   *)
(* code does outside of it (the atomic counters, the wake-up, the unlocked *)
(* emptiness tests) is a step of its own.                                  *)
(***************************************************************************)
EXTENDS Ring, FiniteSets

CONSTANTS Threads,     \* user threads that may be inside an ioctl on the fd
          StatMod      \* 2^64: values of an atomic64_t statistic

ASSUME ChannelAssumption == /\ IsFiniteSet(Threads)
                            /\ StatMod \in Nat \ {0}

VARIABLES
    life,       \* progress of the slot through create and destroy
    sub,        \* sub_ring
    comp,       \* comp_ring
    upc,        \* where each user thread is inside dmaplane_ioctl_submit
    wpc,        \* where the worker is inside dmaplane_worker_fn
    entry,      \* the worker's local copy of the entry it is processing
    asleep,     \* the worker is TASK_INTERRUPTIBLE on wait_queue
    should_stop,            \* KTHREAD_SHOULD_STOP of the worker
    in_flight,              \* atomic_t in_flight
    total_submissions,      \* stats.total_submissions
    total_completions,      \* stats.total_completions
    ring_high_watermark     \* stats.ring_high_watermark

rings == <<sub, comp>>
stats == <<in_flight, total_submissions, total_completions, ring_high_watermark>>
vars == <<life, sub, comp, upc, wpc, entry, asleep, should_stop,
          in_flight, total_submissions, total_completions, ring_high_watermark>>

WorkerPcs == {"none", "new", "top", "prepare", "cond", "sleep", "check",
              "drain", "dequeue", "push", "full", "dec", "count", "exit"}

TypeOK ==
    /\ life \in {"free", "open", "shutdown", "stopping"}
    /\ sub \in Ring
    /\ comp \in Ring
    /\ upc \in [Threads -> {"idle", "inc", "count", "wake"}]
    /\ wpc \in WorkerPcs
    /\ entry \in Payload
    /\ asleep \in BOOLEAN
    /\ should_stop \in BOOLEAN
    /\ in_flight \in Int
    /\ total_submissions \in 0..StatMod-1
    /\ total_completions \in 0..StatMod-1
    /\ ring_high_watermark \in 0..RingSize

\* The device structure is zeroed; no channel has been created.
Init ==
    /\ life = "free"
    /\ sub = RingInit
    /\ comp = RingInit
    /\ upc = [t \in Threads |-> "idle"]
    /\ wpc = "none"
    /\ entry = 0
    /\ asleep = FALSE
    /\ should_stop = FALSE
    /\ in_flight = 0
    /\ total_submissions = 0
    /\ total_completions = 0
    /\ ring_high_watermark = 0

-----------------------------------------------------------------------------
\* Channel creation and destruction

(* Mutant: the statistics of the slot's previous life are kept. *)
CreateKeepsStats ==
    /\ life = "free"
    /\ life' = "open"
    /\ sub' = RingInit
    /\ comp' = RingInit
    /\ in_flight' = 0
    /\ wpc' = "new"
    /\ should_stop' = FALSE
    /\ asleep' = FALSE
    /\ UNCHANGED <<upc, entry, total_submissions, total_completions,
                   ring_high_watermark>>

(* dmaplane_channel_init and the start of the worker. *)
CreateChannel ==
    /\ life = "free"
    /\ life' = "open"
    /\ sub' = RingInit
    /\ comp' = RingInit
    /\ in_flight' = 0
    /\ total_submissions' = 0
    /\ total_completions' = 0
    /\ ring_high_watermark' = 0
    /\ wpc' = "new"
    /\ should_stop' = FALSE
    /\ asleep' = FALSE
    /\ UNCHANGED <<upc, entry>>

(* The fd's release runs once no ioctl is in progress: set shutdown, wake. *)
Shutdown ==
    /\ life = "open"
    /\ \A t \in Threads : upc[t] = "idle"
    /\ life' = "shutdown"
    /\ asleep' = FALSE
    /\ UNCHANGED <<rings, stats, upc, wpc, entry, should_stop>>

(* kthread_stop: set the stop flag, wake the worker, wait for its exit. *)
KthreadStop ==
    /\ life = "shutdown"
    /\ life' = "stopping"
    /\ should_stop' = TRUE
    /\ asleep' = FALSE
    /\ UNCHANGED <<rings, stats, upc, wpc, entry>>

(* kthread_stop returned: forget the worker, drop both references. *)
FreeChannel ==
    /\ life = "stopping"
    /\ wpc = "exit"
    /\ life' = "free"
    /\ wpc' = "none"
    /\ UNCHANGED <<rings, stats, upc, entry, asleep, should_stop>>

-----------------------------------------------------------------------------
\* DMAPLANE_IOCTL_SUBMIT

(* The critical section under sub_ring.lock. *)
SubmitPut(t, p) ==
    /\ life = "open"
    /\ upc[t] = "idle"
    /\ ~RingFull(sub)
    /\ sub' = RingPut(sub, p)
    /\ LET occupancy == RingCount(sub')
       IN  ring_high_watermark' = IF occupancy > ring_high_watermark
                                  THEN occupancy ELSE ring_high_watermark
    /\ upc' = [upc EXCEPT ![t] = "inc"]
    /\ UNCHANGED <<life, comp, wpc, entry, asleep, should_stop, in_flight,
                   total_submissions, total_completions>>

SubmitInc(t) ==
    /\ upc[t] = "inc"
    /\ in_flight' = in_flight + 1
    /\ upc' = [upc EXCEPT ![t] = "count"]
    /\ UNCHANGED <<life, rings, wpc, entry, asleep, should_stop,
                   total_submissions, total_completions, ring_high_watermark>>

SubmitCount(t) ==
    /\ upc[t] = "count"
    /\ total_submissions' = (total_submissions + 1) % StatMod
    /\ upc' = [upc EXCEPT ![t] = "wake"]
    /\ UNCHANGED <<life, rings, wpc, entry, asleep, should_stop, in_flight,
                   total_completions, ring_high_watermark>>

SubmitWake(t) ==
    /\ upc[t] = "wake"
    /\ asleep' = FALSE
    /\ upc' = [upc EXCEPT ![t] = "idle"]
    /\ UNCHANGED <<life, rings, stats, wpc, entry, should_stop>>

-----------------------------------------------------------------------------
\* DMAPLANE_IOCTL_COMPLETE: the entry leaves the ring whether or not the
\* copy to the caller then succeeds.

Complete ==
    /\ life = "open"
    /\ ~RingEmpty(comp)
    /\ comp' = RingDrop(comp)
    /\ UNCHANGED <<life, sub, stats, upc, wpc, entry, asleep, should_stop>>

-----------------------------------------------------------------------------
\* dmaplane_worker_fn

WorkerGoto(from, to) ==
    /\ wpc = from
    /\ wpc' = to
    /\ UNCHANGED <<life, rings, stats, upc, entry, should_stop>>

(* The kthread wrapper skips the thread function if it is stopped first. *)
WorkerStart ==
    /\ WorkerGoto("new", IF should_stop THEN "exit" ELSE "top")
    /\ UNCHANGED asleep

(* while (!kthread_should_stop()) *)
WorkerTop ==
    /\ WorkerGoto("top", IF should_stop THEN "exit" ELSE "prepare")
    /\ UNCHANGED asleep

(* Mutant: after entering the wait queue the condition is not tested again. *)
WorkerPrepareUntested ==
    /\ WorkerGoto("prepare", "sleep")
    /\ asleep' = TRUE

(* wait_event_interruptible: enter the wait queue, only then test. *)
WorkerPrepare ==
    /\ WorkerGoto("prepare", "cond")
    /\ asleep' = TRUE

WorkerCond ==
    IF ~RingEmpty(sub) \/ should_stop
    THEN /\ WorkerGoto("cond", "check")
         /\ asleep' = FALSE
    ELSE /\ WorkerGoto("cond", "sleep")
         /\ UNCHANGED asleep

WorkerSleep ==
    /\ ~asleep
    /\ WorkerGoto("sleep", "prepare")
    /\ UNCHANGED asleep

WorkerCheck ==
    /\ WorkerGoto("check", IF should_stop /\ RingEmpty(sub) THEN "exit" ELSE "drain")
    /\ UNCHANGED asleep

(* Mutant: the inner loop tests after the dequeue only. *)
WorkerDrainUntested ==
    /\ WorkerGoto("drain", "dequeue")
    /\ UNCHANGED asleep

(* The unlocked test of the inner loop. *)
WorkerDrain ==
    /\ WorkerGoto("drain", IF RingEmpty(sub) THEN "top" ELSE "dequeue")
    /\ UNCHANGED asleep

(* Mutant: the slot is read after it was given back. *)
WorkerDequeueReadsLate ==
    /\ wpc = "dequeue"
    /\ IF RingEmpty(sub)
       THEN /\ wpc' = "top"
            /\ UNCHANGED <<sub, entry>>
       ELSE /\ wpc' = "push"
            /\ sub' = RingDrop(sub)
            /\ entry' = (RingPeek(sub') + 1) % PayloadMod
    /\ UNCHANGED <<life, comp, stats, upc, asleep, should_stop>>

(* Under sub_ring.lock: test again, take one entry.  The payload is         *)
(* incremented in the worker's own copy.                                    *)
WorkerDequeue ==
    /\ wpc = "dequeue"
    /\ IF RingEmpty(sub)
       THEN /\ wpc' = "top"
            /\ UNCHANGED <<sub, entry>>
       ELSE /\ wpc' = "push"
            /\ sub' = RingDrop(sub)
            /\ entry' = (RingPeek(sub) + 1) % PayloadMod
    /\ UNCHANGED <<life, comp, stats, upc, asleep, should_stop>>

(* Mutant: an entry is dropped when the completion ring is full. *)
WorkerPushOrDrop ==
    /\ wpc = "push"
    /\ IF RingFull(comp)
       THEN /\ wpc' = "drain"
            /\ UNCHANGED comp
       ELSE /\ wpc' = "dec"
            /\ comp' = RingPut(comp, entry)
    /\ UNCHANGED <<life, sub, stats, upc, entry, asleep, should_stop>>

(* Under comp_ring.lock: store, or find the ring full. *)
WorkerPush ==
    /\ wpc = "push"
    /\ IF RingFull(comp)
       THEN /\ wpc' = "full"
            /\ UNCHANGED comp
       ELSE /\ wpc' = "dec"
            /\ comp' = RingPut(comp, entry)
    /\ UNCHANGED <<life, sub, stats, upc, entry, asleep, should_stop>>

(* Mutant: the wait for room does not look at the stop flag. *)
WorkerFullUnstoppable ==
    /\ WorkerGoto("full", "push")
    /\ UNCHANGED asleep

(* Completion ring full: give the entry up if stopped, else yield and retry. *)
WorkerFull ==
    /\ WorkerGoto("full", IF should_stop THEN "exit" ELSE "push")
    /\ UNCHANGED asleep

WorkerDec ==
    /\ wpc = "dec"
    /\ wpc' = "count"
    /\ in_flight' = in_flight - 1
    /\ UNCHANGED <<life, rings, upc, entry, asleep, should_stop,
                   total_submissions, total_completions, ring_high_watermark>>

WorkerCount ==
    /\ wpc = "count"
    /\ wpc' = "drain"
    /\ total_completions' = (total_completions + 1) % StatMod
    /\ UNCHANGED <<life, rings, upc, entry, asleep, should_stop, in_flight,
                   total_submissions, ring_high_watermark>>

-----------------------------------------------------------------------------

Worker == \/ WorkerStart \/ WorkerTop \/ WorkerPrepare \/ WorkerCond
          \/ WorkerSleep \/ WorkerCheck \/ WorkerDrain \/ WorkerDequeue
          \/ WorkerPush \/ WorkerFull \/ WorkerDec \/ WorkerCount

\* The rest of a SUBMIT once its entry is published.
SubmitRest(t) == SubmitInc(t) \/ SubmitCount(t) \/ SubmitWake(t)

\* The rest of a destroy once the fd's release has begun.
Destroy == KthreadStop \/ FreeChannel

Next ==
    \/ CreateChannel
    \/ Shutdown
    \/ Destroy
    \/ \E t \in Threads : SubmitRest(t) \/ \E p \in Payload : SubmitPut(t, p)
    \/ Complete
    \/ Worker

Spec == Init /\ [][Next]_vars

(* The scheduler runs every runnable kthread and every task that is inside *)
(* a system call.  Nothing obliges a user to submit, to drain or to close. *)
Fairness ==
    /\ WF_vars(Worker)
    /\ WF_vars(Destroy)
    /\ \A t \in Threads : WF_vars(SubmitRest(t))

FairSpec == Spec /\ Fairness

-----------------------------------------------------------------------------
\* Properties

(* Threads whose published entry is not yet in in_flight / in the total.   *)
Uncounted == {t \in Threads : upc[t] = "inc"}
Untotalled == {t \in Threads : upc[t] \in {"inc", "count"}}

\* Entries taken from the submission ring that in_flight still counts.
WorkerHolds == IF wpc \in {"push", "full", "dec"} THEN 1 ELSE 0
WorkerOwes == IF wpc \in {"push", "full", "dec", "count"} THEN 1 ELSE 0

(* Neither ring ever holds more than its slots, also after the 32-bit      *)
(* indices have wrapped (dmaplane_ring_full tests equality, so a ring that *)
(* once passed RingSize would never again be reported full), and the       *)
(* high-watermark statistic is never below the occupancy it reports on.    *)
OccupancyBounded ==
    /\ RingCount(sub) <= RingSize
    /\ RingCount(comp) <= RingSize
    /\ RingCount(sub) <= ring_high_watermark

(* in_flight, changed by SUBMIT after its critical section and by the      *)
(* worker without a common lock, never drifts: while the channel is open   *)
(* it is the number of entries queued or held by the worker, less those    *)
(* whose submitter has not come to its atomic_inc.                         *)
InFlightExact ==
    life = "open" =>
        in_flight = RingCount(sub) + WorkerHolds - Cardinality(Uncounted)

(* The two totals that GET_STATS reads differ by exactly the work in       *)
(* progress, modulo their width.                                           *)
TotalsAgree ==
    life = "open" =>
        (total_submissions - total_completions) % StatMod =
            (RingCount(sub) + WorkerOwes - Cardinality(Untotalled)) % StatMod

(* The worker is the only consumer of the submission ring: between the     *)
(* unlocked test of the drain loop and the one under the lock the ring     *)
(* cannot become empty.                                                    *)
DequeueFindsEntry == wpc = "dequeue" => ~RingEmpty(sub)

\* The refinement mapping: how rings and worker represent a pipeline.
PipelinePhase == IF life \in {"shutdown", "stopping"} THEN "closing" ELSE life

PipelinePending ==
    IF life = "free" THEN <<>>
    ELSE (IF wpc \in {"push", "full"} THEN <<(entry - 1) % PayloadMod>> ELSE <<>>)
         \o RingSeq(sub)

PipelineReady == IF life = "free" THEN <<>> ELSE RingSeq(comp)

Pipe == INSTANCE Pipeline WITH
            Capacity <- RingSize, phase <- PipelinePhase,
            pending <- PipelinePending, ready <- PipelineReady

(* The ring pair and the worker implement a pipeline that is FIFO, loses   *)
(* nothing and duplicates nothing until it is closed.                      *)
ImplementsPipeline == Pipe!Spec

(* No wake-up is lost: while the completion ring has room, the oldest      *)
(* submitted entry is taken by the worker, whatever the interleaving of    *)
(* the submitter's publish and wake-up with the worker's way to sleep.     *)
SubmissionsAreTaken ==
    \A i \in Idx :
        (life = "open" /\ sub.tail = i /\ ~RingEmpty(sub))
            ~> (sub.tail # i \/ RingFull(comp) \/ life # "open")

(* Closing the fd terminates: kthread_stop returns also when the worker    *)
(* sleeps, was never scheduled, or waits on a full completion ring that    *)
(* nobody will drain again.                                                *)
CloseTerminates == (life = "shutdown") ~> (life = "free")

=============================================================================
