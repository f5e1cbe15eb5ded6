---------------------------- MODULE ChannelTable ----------------------------
(***************************************************************************)
(* The device's table of channels (driver/main.c): which fd owns which     *)
(* slot, the two references of each channel, and the device counters, as   *)
(* fds are opened and closed, threads that share an fd race in             *)
(* CREATE_CHANNEL, and the module is finally unloaded.                     *)
(*                                                                         *)
(* dev_mutex is held across kthread_stop, so destroying a channel takes    *)
(* several steps with the mutex held; a critical section that cannot block *)
(* is one step.  What happens inside a channel is the module Channel.      *)
(***************************************************************************)
EXTENDS Integers, FiniteSets

CONSTANTS MaxChannels,  \* DMAPLANE_MAX_CHANNELS
          Fds,          \* open file descriptions that may exist at a time
          Threads,      \* user threads that may be inside CREATE_CHANNEL
          MaxCreated,   \* bound on total_channels_created
          None

ASSUME TableAssumption == /\ MaxChannels \in Nat \ {0}
                          /\ MaxCreated \in Nat
                          /\ IsFiniteSet(Fds)
                          /\ None \notin Fds
                          /\ None \notin 0..MaxChannels-1

Slots == 0..MaxChannels-1

VARIABLES
    module,      \* "loaded" or "gone"
    fd,          \* state of each file description
    ctx,         \* file_ctx.chan of each open file description
    creating,    \* the fd on which a thread passed CREATE_CHANNEL's test
    rpc,         \* where the release of each fd is
    dev_mutex,   \* the fd whose release holds dev_mutex, or None
    active,      \* channels[i].active
    kref,        \* channels[i].refcount
    running,     \* channels[i].worker is a live kthread
    active_channels,
    total_channels_created,
    total_channels_destroyed

vars == <<module, fd, ctx, creating, rpc, dev_mutex, active, kref, running,
          active_channels, total_channels_created, total_channels_destroyed>>
counters == <<active_channels, total_channels_created, total_channels_destroyed>>
channels == <<active, kref, running>>

TypeOK ==
    /\ module \in {"loaded", "gone"}
    /\ fd \in [Fds -> {"closed", "open"}]
    /\ ctx \in [Fds -> Slots \cup {None}]
    /\ creating \in [Threads -> Fds \cup {None}]
    /\ rpc \in [Fds -> {"none", "lock", "stop", "put", "last"}]
    /\ dev_mutex \in Fds \cup {None}
    /\ active \in [Slots -> BOOLEAN]
    /\ kref \in [Slots -> 0..2]
    /\ running \in [Slots -> BOOLEAN]
    /\ active_channels \in 0..MaxChannels
    /\ total_channels_created \in 0..MaxCreated
    /\ total_channels_destroyed \in 0..MaxCreated

Init ==
    /\ module = "loaded"
    /\ fd = [f \in Fds |-> "closed"]
    /\ ctx = [f \in Fds |-> None]
    /\ creating = [t \in Threads |-> None]
    /\ rpc = [f \in Fds |-> "none"]
    /\ dev_mutex = None
    /\ active = [s \in Slots |-> FALSE]
    /\ kref = [s \in Slots |-> 0]
    /\ running = [s \in Slots |-> FALSE]
    /\ active_channels = 0
    /\ total_channels_created = 0
    /\ total_channels_destroyed = 0

ActiveSlots == {s \in Slots : active[s]}

-----------------------------------------------------------------------------
\* open and CREATE_CHANNEL

Open(f) ==
    /\ module = "loaded"
    /\ fd[f] = "closed"
    /\ rpc[f] = "none"
    /\ fd' = [fd EXCEPT ![f] = "open"]
    /\ ctx' = [ctx EXCEPT ![f] = None]
    /\ UNCHANGED <<module, creating, rpc, dev_mutex, channels, counters>>

(* The test of ctx->chan, before dev_mutex is taken. *)
CreateTest(t, f) ==
    /\ fd[f] = "open"
    /\ creating[t] = None
    /\ ctx[f] = None
    /\ creating' = [creating EXCEPT ![t] = f]
    /\ UNCHANGED <<module, fd, ctx, rpc, dev_mutex, channels, counters>>

(* The linear scan: the lowest inactive slot, if any. *)
Scan == {s \in Slots : ~active[s] /\ \A r \in Slots : r < s => active[r]}

(* Under dev_mutex: claim the slot, start its worker, publish it. *)
CreateClaim(t) ==
    /\ creating[t] # None
    /\ dev_mutex = None
    /\ total_channels_created < MaxCreated
    /\ \E s \in Scan :
          /\ active' = [active EXCEPT ![s] = TRUE]
          /\ kref' = [kref EXCEPT ![s] = 2]
          /\ running' = [running EXCEPT ![s] = TRUE]
          /\ ctx' = [ctx EXCEPT ![creating[t]] = s]
    /\ active_channels' = active_channels + 1
    /\ total_channels_created' = total_channels_created + 1
    /\ creating' = [creating EXCEPT ![t] = None]
    /\ UNCHANGED <<module, fd, rpc, dev_mutex, total_channels_destroyed>>

(* Mutant: the slot stays claimed when its worker cannot be created. *)
CreateFailsClaimed(t) ==
    /\ creating[t] # None
    /\ dev_mutex = None
    /\ \E s \in Scan :
          /\ active' = [active EXCEPT ![s] = TRUE]
          /\ kref' = [kref EXCEPT ![s] = 2]
          /\ running' = [running EXCEPT ![s] = FALSE]
    /\ creating' = [creating EXCEPT ![t] = None]
    /\ UNCHANGED <<module, fd, ctx, rpc, dev_mutex, counters>>

(* kthread_create fails: the initialised slot is made inactive again. *)
CreateFails(t) ==
    /\ creating[t] # None
    /\ dev_mutex = None
    /\ \E s \in Scan :
          /\ active' = [active EXCEPT ![s] = FALSE]
          /\ kref' = [kref EXCEPT ![s] = 2]
          /\ running' = [running EXCEPT ![s] = FALSE]
    /\ creating' = [creating EXCEPT ![t] = None]
    /\ UNCHANGED <<module, fd, ctx, rpc, dev_mutex, counters>>

(* Every slot is active: -ENOSPC. *)
CreateNoSpace(t) ==
    /\ creating[t] # None
    /\ dev_mutex = None
    /\ Scan = {}
    /\ creating' = [creating EXCEPT ![t] = None]
    /\ UNCHANGED <<module, fd, ctx, rpc, dev_mutex, channels, counters>>

-----------------------------------------------------------------------------
\* release, and dmaplane_channel_destroy under dev_mutex

(* The last reference to the file goes; no ioctl on it is in progress. *)
Close(f) ==
    /\ fd[f] = "open"
    /\ \A t \in Threads : creating[t] # f
    /\ fd' = [fd EXCEPT ![f] = "closed"]
    /\ rpc' = [rpc EXCEPT ![f] = IF ctx[f] = None THEN "none" ELSE "lock"]
    /\ UNCHANGED <<module, ctx, creating, dev_mutex, channels, counters>>

(* Mutant: the references are dropped without waiting for the worker. *)
ReleaseLockUnstopped(f) ==
    /\ rpc[f] = "lock"
    /\ dev_mutex = None
    /\ dev_mutex' = f
    /\ rpc' = [rpc EXCEPT ![f] = "put"]
    /\ UNCHANGED <<module, fd, ctx, creating, channels, counters>>

(* Take dev_mutex; a channel already inactive needs no more. *)
ReleaseLock(f) ==
    /\ rpc[f] = "lock"
    /\ dev_mutex = None
    /\ IF active[ctx[f]]
       THEN /\ dev_mutex' = f
            /\ rpc' = [rpc EXCEPT ![f] = "stop"]
       ELSE /\ rpc' = [rpc EXCEPT ![f] = "none"]
            /\ UNCHANGED dev_mutex
    /\ UNCHANGED <<module, fd, ctx, creating, channels, counters>>

(* kthread_stop returns. *)
ReleaseStop(f) ==
    /\ rpc[f] = "stop"
    /\ running' = [running EXCEPT ![ctx[f]] = FALSE]
    /\ rpc' = [rpc EXCEPT ![f] = "put"]
    /\ UNCHANGED <<module, fd, ctx, creating, dev_mutex, active, kref, counters>>

(* kref_put with dmaplane_channel_release as its callback. *)
KrefPut(s) ==
    /\ kref' = [kref EXCEPT ![s] = @ - 1]
    /\ IF kref[s] = 1
       THEN /\ active' = [active EXCEPT ![s] = FALSE]
            /\ active_channels' = active_channels - 1
            /\ total_channels_destroyed' = total_channels_destroyed + 1
       ELSE UNCHANGED <<active, active_channels, total_channels_destroyed>>
    /\ UNCHANGED total_channels_created

(* Drop the worker's reference. *)
ReleasePut(f) ==
    /\ rpc[f] = "put"
    /\ KrefPut(ctx[f])
    /\ rpc' = [rpc EXCEPT ![f] = "last"]
    /\ UNCHANGED <<module, fd, ctx, creating, dev_mutex, running>>

(* Mutant: the destroy returns with dev_mutex held. *)
ReleaseLastLocked(f) ==
    /\ rpc[f] = "last"
    /\ KrefPut(ctx[f])
    /\ rpc' = [rpc EXCEPT ![f] = "none"]
    /\ UNCHANGED <<module, fd, ctx, creating, dev_mutex, running>>

(* Drop the fd's reference, release dev_mutex, free the file context. *)
ReleaseLast(f) ==
    /\ rpc[f] = "last"
    /\ KrefPut(ctx[f])
    /\ rpc' = [rpc EXCEPT ![f] = "none"]
    /\ dev_mutex' = None
    /\ UNCHANGED <<module, fd, ctx, creating, running>>

Release(f) == ReleaseLock(f) \/ ReleaseStop(f) \/ ReleasePut(f) \/ ReleaseLast(f)

-----------------------------------------------------------------------------
\* Module unload

(* With no file open, destroy whatever channel is still active. *)
Exit ==
    /\ module = "loaded"
    /\ \A f \in Fds : fd[f] = "closed" /\ rpc[f] = "none"
    /\ module' = "gone"
    /\ active' = [s \in Slots |-> FALSE]
    /\ kref' = [s \in Slots |-> IF active[s] THEN kref[s] - 2 ELSE kref[s]]
    /\ running' = [s \in Slots |-> IF active[s] THEN FALSE ELSE running[s]]
    /\ active_channels' = active_channels - Cardinality(ActiveSlots)
    /\ total_channels_destroyed' =
          total_channels_destroyed + Cardinality(ActiveSlots)
    /\ UNCHANGED <<fd, ctx, creating, rpc, dev_mutex, total_channels_created>>

-----------------------------------------------------------------------------

Next ==
    \/ \E f \in Fds : Open(f) \/ Close(f) \/ Release(f)
    \/ \E t \in Threads : \/ \E f \in Fds : CreateTest(t, f)
                          \/ CreateClaim(t)
                          \/ CreateFails(t)
                          \/ CreateNoSpace(t)
    \/ Exit

Spec == Init /\ [][Next]_vars

(* A release in progress is run by the scheduler; a kernel mutex hands     *)
(* itself to its waiters in turn, hence strong fairness of ReleaseLock.    *)
FairSpec == Spec /\ \A f \in Fds : WF_vars(Release(f)) /\ SF_vars(ReleaseLock(f))

-----------------------------------------------------------------------------
\* Properties

(* Slots that are not the subject of a destroy in progress. *)
Settled(s) == \A f \in Fds : rpc[f] \in {"stop", "put", "last"} => ctx[f] # s

(* While nobody is in the middle of a destroy, the device counters are the *)
(* number of active slots and the balance of the totals, whatever creates  *)
(* failed or raced, and every active slot holds its two references.        *)
AccountingExact ==
    /\ active_channels = Cardinality(ActiveSlots)
    /\ total_channels_created - total_channels_destroyed = active_channels
    /\ \A s \in Slots : Settled(s) => (active[s] <=> running[s])
    /\ \A s \in Slots : Settled(s) /\ active[s] => kref[s] = 2

(* A channel an fd refers to is active, has its worker, and is no other    *)
(* fd's: closing one file never stops the channel of another.              *)
ChannelsNotShared ==
    \A f \in Fds :
        (fd[f] = "open" \/ rpc[f] = "lock") /\ ctx[f] # None =>
            /\ active[ctx[f]]
            /\ running[ctx[f]]
            /\ \A g \in Fds \ {f} :
                  (fd[g] = "open" \/ rpc[g] # "none") => ctx[g] # ctx[f]

(* A slot becomes reusable only after its worker has exited: the rings are *)
(* not initialised under a worker that still runs on them.                 *)
FreedAfterWorker ==
    [][\A s \in Slots : active[s] /\ ~active'[s] /\ module' = "loaded"
                            => ~running[s]]_vars

(* Unload leaves no worker running on freed memory, also when a channel    *)
(* was left behind by a race of two creates.                               *)
ExitLeavesNothing ==
    module = "gone" => /\ \A s \in Slots : ~active[s] /\ ~running[s]
                       /\ active_channels = 0
                       /\ total_channels_created = total_channels_destroyed

(* A close always ends, though it waits for dev_mutex behind other closes. *)
CloseCompletes == \A f \in Fds : (rpc[f] = "lock") ~> (rpc[f] = "none")

(* The channel table through racing creates, failed creates, closes and    *)
(* module exit: counters and references exact, no channel shared by two    *)
(* files, nothing left by the exit.                                        *)
TableSafe == TypeOK /\ AccountingExact /\ ChannelsNotShared /\ ExitLeavesNothing
=============================================================================
