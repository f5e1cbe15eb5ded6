-------------------------------- MODULE Flow --------------------------------
(***************************************************************************)
(* Credit-based flow control and the sustained stream it paces             *)
(* (driver/flow_control.c): CONFIGURE_FLOW, which takes no lock, and        *)
(* SUSTAINED_STREAM, which runs under the read side of rdma_sem, so that   *)
(* several streams may run at once.  The loopback QP pair and its CQs are  *)
(* the environment: sends on QP-A consume receives posted on QP-B.         *)
(*                                                                         *)
(* recv_posted and sent appear in the code only as the difference          *)
(* recv_posted - sent, which is the variable ahead; the unsigned counter   *)
(* outstanding keeps its wrap-around, at WordMod instead of 2^32.          *)
(***************************************************************************)
EXTENDS Integers, FiniteSets

CONSTANTS Streams,           \* threads that run SUSTAINED_STREAM
          QDepths,           \* queue depths they ask for
          Configs,           \* the parameters CONFIGURE_FLOW is called with
          CreditCap,         \* 128, the ceiling of auto-configuration
          RqSize,            \* receives QP-B can hold (max_recv_wr)
          WordMod,           \* unsigned counters are modulo this
          NicMayFail         \* posts and completions may fail

ASSUME FlowAssumption ==
    /\ QDepths \subseteq Nat \ {0}
    /\ Configs \subseteq [max : Nat, high : Nat, low : Nat]
    /\ CreditCap \in Nat \ {0, 1}
    /\ RqSize \in Nat \ {0}
    /\ WordMod \in Nat \ {0} /\ \A q \in QDepths : q < WordMod
    /\ NicMayFail \in BOOLEAN

VARIABLES
    credits, max_credits, high_watermark, low_watermark, configured, paused,
    pc,           \* where each stream is
    qdepth,       \* its queue depth
    outstanding,  \* the sends it believes in flight
    ahead,        \* recv_posted - sent
    wire,         \* sends posted on QP-A and not completed
    cq_ok,        \* successful completions on CQ-A, not yet polled
    cq_err,       \* error completions on CQ-A, which come after those
    cq_b,         \* completions on CQ-B, not yet polled
    rq,           \* receives posted on QP-B and not consumed
    qp_error      \* the QP is in the error state

flow == <<credits, max_credits, high_watermark, low_watermark, configured, paused>>
limits == <<max_credits, high_watermark, low_watermark, configured>>
stream == <<pc, qdepth, outstanding, ahead>>
nic == <<wire, cq_ok, cq_err, cq_b, rq, qp_error>>
vars == <<credits, max_credits, high_watermark, low_watermark, configured, paused,
          pc, qdepth, outstanding, ahead, wire, cq_ok, cq_err, cq_b, rq, qp_error>>

TypeOK ==
    /\ max_credits \in 0..CreditCap
    /\ high_watermark \in 0..max_credits
    /\ low_watermark \in 0..max_credits
    /\ credits \in Int
    /\ configured \in BOOLEAN /\ paused \in BOOLEAN
    /\ pc \in [Streams -> {"idle", "check", "send", "stall", "poll", "drain_b", "drain"}]
    /\ qdepth \in [Streams -> QDepths \cup {0}]
    /\ outstanding \in [Streams -> 0..WordMod-1]
    /\ ahead \in [Streams -> Int]
    /\ wire \in Nat /\ cq_ok \in Nat /\ cq_err \in Nat /\ cq_b \in Nat
    /\ rq \in 0..RqSize
    /\ qp_error \in BOOLEAN

(* module_init: flow control is not configured; RDMA is set up. *)
Init ==
    /\ credits = 0 /\ max_credits = 0 /\ high_watermark = 0 /\ low_watermark = 0
    /\ configured = FALSE /\ paused = FALSE
    /\ pc = [s \in Streams |-> "idle"]
    /\ qdepth = [s \in Streams |-> 0]
    /\ outstanding = [s \in Streams |-> 0]
    /\ ahead = [s \in Streams |-> 0]
    /\ wire = 0 /\ cq_ok = 0 /\ cq_err = 0 /\ cq_b = 0 /\ rq = 0
    /\ qp_error = FALSE

Smaller(m, n) == IF m <= n THEN m ELSE n
Larger(m, n) == IF m >= n THEN m ELSE n

Running == {s \in Streams : pc[s] # "idle"}

Goto(s, to) == pc' = [pc EXCEPT ![s] = to]

-----------------------------------------------------------------------------
\* Configuration

Valid(c) == /\ c.max > 0 /\ c.max <= CreditCap
            /\ c.high <= c.max
            /\ c.low < c.high
            /\ c.low > 0

(* CONFIGURE_FLOW, which is expected before a run and not during one. *)
Configure(c) ==
    /\ Running = {}
    /\ Valid(c)
    /\ max_credits' = c.max
    /\ high_watermark' = c.high
    /\ low_watermark' = c.low
    /\ credits' = c.max
    /\ paused' = FALSE
    /\ configured' = TRUE
    /\ UNCHANGED <<stream, nic>>

(* sustained_auto_configure *)
AutoMax(q) == Larger(2, Smaller(2 * q, CreditCap))
AutoHigh(q) == Larger(1, (AutoMax(q) * 3) \div 4)
AutoLow(q) == Smaller(Larger(1, AutoMax(q) \div 4), AutoHigh(q) - 1)

-----------------------------------------------------------------------------
\* dmaplane_flow_can_send

InFlight == max_credits - credits

(* Mutant: the pause comes one send late. *)
HoldBackAboveHigh ==
    IF paused THEN InFlight > low_watermark ELSE InFlight > high_watermark

(* Mutant: the resume waits for fewer than low_watermark in flight. *)
HoldBackAtLow ==
    IF paused THEN InFlight >= low_watermark ELSE InFlight >= high_watermark

(* The hysteresis: paused is set to this. *)
HoldBack == IF paused THEN InFlight > low_watermark ELSE InFlight >= high_watermark

CanSend == ~HoldBack /\ (paused \/ credits > 0)

-----------------------------------------------------------------------------
\* SUSTAINED_STREAM

(* Mutant: only one receive is posted before the first send. *)
PrePostOne(q, max) == 1

PrePost(q, max) == Smaller(2 * q, max)

(* Configure if nobody did, fill the credits, flush both CQs and post the  *)
(* first receives; without room for them on QP-B the call fails.           *)
Start(s, q) ==
    /\ pc[s] = "idle"
    /\ max_credits' = IF configured THEN max_credits ELSE AutoMax(q)
    /\ high_watermark' = IF configured THEN high_watermark ELSE AutoHigh(q)
    /\ low_watermark' = IF configured THEN low_watermark ELSE AutoLow(q)
    /\ configured' = TRUE
    /\ credits' = max_credits'
    /\ paused' = FALSE
    /\ cq_ok' = 0 /\ cq_err' = 0 /\ cq_b' = 0
    /\ LET n == PrePost(q, max_credits')
       IN \/ /\ rq + n <= RqSize
             /\ rq' = rq + n
             /\ Goto(s, "check")
             /\ qdepth' = [qdepth EXCEPT ![s] = q]
             /\ outstanding' = [outstanding EXCEPT ![s] = 0]
             /\ ahead' = [ahead EXCEPT ![s] = n]
          \/ /\ rq + n > RqSize
             /\ rq' = RqSize
             /\ UNCHANGED stream
    /\ UNCHANGED <<wire, qp_error>>

(* The deadline has passed: leave the loop. *)
Deadline(s) ==
    /\ pc[s] = "check"
    /\ Goto(s, "drain")
    /\ UNCHANGED <<flow, qdepth, outstanding, ahead, nic>>

Check(s) ==
    /\ pc[s] = "check"
    /\ paused' = HoldBack
    /\ Goto(s, IF ~CanSend THEN "stall"
               ELSE IF outstanding[s] < qdepth[s] THEN "send" ELSE "poll")
    /\ UNCHANGED <<credits, limits, qdepth, outstanding, ahead, nic>>

(* credit_stalls is counted and the CPU yielded. *)
Stall(s) ==
    /\ pc[s] = "stall"
    /\ Goto(s, "poll")
    /\ UNCHANGED <<flow, qdepth, outstanding, ahead, nic>>

(* Post, then flow_on_send. *)
Send(s) ==
    /\ pc[s] = "send"
    /\ wire' = wire + 1
    /\ credits' = credits - 1
    /\ outstanding' = [outstanding EXCEPT ![s] = (@ + 1) % WordMod]
    /\ ahead' = [ahead EXCEPT ![s] = @ - 1]
    /\ Goto(s, "poll")
    /\ UNCHANGED <<limits, paused, qdepth, cq_ok, cq_err, cq_b, rq, qp_error>>

SendFails(s) ==
    /\ NicMayFail
    /\ pc[s] = "send"
    /\ Goto(s, "drain")
    /\ UNCHANGED <<flow, qdepth, outstanding, ahead, nic>>

(* A successful completion returns its credit and replenishes a receive,   *)
(* never beyond sent + qdepth; a receive that QP-B refuses ends the run.   *)
PollSuccess(s) ==
    /\ pc[s] = "poll"
    /\ cq_ok > 0
    /\ cq_ok' = cq_ok - 1
    /\ outstanding' = [outstanding EXCEPT ![s] = (@ - 1) % WordMod]
    /\ credits' = credits + 1
    /\ \/ /\ ahead[s] >= qdepth[s]
          /\ UNCHANGED <<rq, ahead>>
          /\ Goto(s, "drain_b")
       \/ /\ ahead[s] < qdepth[s]
          /\ rq < RqSize
          /\ rq' = rq + 1
          /\ ahead' = [ahead EXCEPT ![s] = @ + 1]
          /\ Goto(s, "drain_b")
       \/ /\ ahead[s] < qdepth[s]
          /\ rq = RqSize
          /\ UNCHANGED <<rq, ahead>>
          /\ Goto(s, "drain")
    /\ UNCHANGED <<limits, paused, qdepth, wire, cq_err, cq_b, qp_error>>

PollNothing(s) ==
    /\ pc[s] = "poll"
    /\ cq_ok = 0 /\ cq_err = 0
    /\ Goto(s, "drain_b")
    /\ UNCHANGED <<flow, qdepth, outstanding, ahead, nic>>

(* An error completion ends the run; outstanding still counts its send. *)
PollError(s) ==
    /\ pc[s] = "poll"
    /\ cq_ok = 0 /\ cq_err > 0
    /\ cq_err' = cq_err - 1
    /\ Goto(s, "drain")
    /\ UNCHANGED <<flow, qdepth, outstanding, ahead, wire, cq_ok, cq_b, rq, qp_error>>

(* ib_poll_cq itself reports an error. *)
PollFails(s) ==
    /\ NicMayFail
    /\ pc[s] = "poll"
    /\ Goto(s, "drain")
    /\ UNCHANGED <<flow, qdepth, outstanding, ahead, nic>>

(* Empty CQ-B and start the next iteration. *)
DrainB(s) ==
    /\ pc[s] = "drain_b"
    /\ cq_b' = 0
    /\ Goto(s, "check")
    /\ UNCHANGED <<flow, qdepth, outstanding, ahead, wire, cq_ok, cq_err, rq, qp_error>>

(* After the loop: collect the completions of what is outstanding. *)
DrainPoll(s) ==
    /\ pc[s] = "drain"
    /\ outstanding[s] > 0
    /\ cq_ok + cq_err > 0
    /\ outstanding' = [outstanding EXCEPT ![s] = @ - 1]
    /\ \/ /\ cq_ok > 0
          /\ cq_ok' = cq_ok - 1
          /\ credits' = credits + 1
          /\ UNCHANGED cq_err
       \/ /\ cq_ok = 0
          /\ cq_err' = cq_err - 1
          /\ UNCHANGED <<cq_ok, credits>>
    /\ cq_b' = 0
    /\ UNCHANGED <<limits, paused, pc, qdepth, ahead, wire, rq, qp_error>>

(* Everything was collected, or DRAIN_TIMEOUT_MS have passed, which may    *)
(* leave sends on the wire: flush both CQs and return.                     *)
DrainEnd(s) ==
    /\ pc[s] = "drain"
    /\ cq_ok' = 0 /\ cq_err' = 0 /\ cq_b' = 0
    /\ Goto(s, "idle")
    /\ qdepth' = [qdepth EXCEPT ![s] = 0]
    /\ outstanding' = [outstanding EXCEPT ![s] = 0]
    /\ ahead' = [ahead EXCEPT ![s] = 0]
    /\ UNCHANGED <<flow, wire, rq, qp_error>>

-----------------------------------------------------------------------------
\* The loopback QP pair (external)

(* The oldest send is delivered into a posted receive. *)
Deliver ==
    /\ ~qp_error
    /\ wire > 0 /\ rq > 0
    /\ wire' = wire - 1
    /\ rq' = rq - 1
    /\ cq_ok' = cq_ok + 1
    /\ cq_b' = cq_b + 1
    /\ UNCHANGED <<flow, stream, cq_err, qp_error>>

(* The oldest send fails: the QP goes to the error state. *)
Break ==
    /\ NicMayFail
    /\ ~qp_error
    /\ wire > 0
    /\ qp_error' = TRUE
    /\ UNCHANGED <<flow, stream, wire, cq_ok, cq_err, cq_b, rq>>

(* On a QP in error every send completes with an error. *)
FlushErr ==
    /\ qp_error
    /\ wire > 0
    /\ wire' = wire - 1
    /\ cq_err' = cq_err + 1
    /\ UNCHANGED <<flow, stream, cq_ok, cq_b, rq, qp_error>>

(* TEARDOWN_RDMA and SETUP_RDMA, under the write lock: new CQs and QPs. *)
Reconnect ==
    /\ Running = {}
    /\ wire' = 0 /\ cq_ok' = 0 /\ cq_err' = 0 /\ cq_b' = 0 /\ rq' = 0
    /\ qp_error' = FALSE
    /\ UNCHANGED <<flow, stream>>

-----------------------------------------------------------------------------

(* The steps of a stream between its start and its end. *)
Loop(s) == \/ Check(s) \/ Stall(s) \/ Send(s) \/ PollSuccess(s) \/ PollNothing(s)
           \/ PollError(s) \/ DrainB(s) \/ DrainPoll(s)

LeavesLoop(s) == Deadline(s) \/ SendFails(s) \/ PollFails(s)

Nic == Deliver \/ Break \/ FlushErr

-----------------------------------------------------------------------------
\* What the properties of module Bench are about

(* Sends posted and not polled. *)
Posted == wire + cq_ok + cq_err

(* In-flight operations never exceed max_credits, the high watermark or    *)
(* the queue depth, so that neither CQ overflows.                          *)
InFlightWithinCredits ==
    \A s \in Streams : pc[s] # "idle" =>
        /\ credits \in 0..max_credits
        /\ Posted <= Smaller(qdepth[s], Larger(1, high_watermark))
        /\ cq_b <= max_credits

(* Inside the loop the credits are exactly what is not outstanding, and    *)
(* what the stream believes outstanding is what was posted.                *)
CreditsExact ==
    \A s \in Streams : pc[s] \notin {"idle", "drain"} =>
        /\ credits + outstanding[s] = max_credits
        /\ outstanding[s] = Posted
=============================================================================
