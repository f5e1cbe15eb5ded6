----------------------------- MODULE BenchProofs -----------------------------
(***************************************************************************)
(* Proofs about Flow and Bench for every queue depth, credit window,       *)
(* number of iterations and size of the receive queue: a stream that runs  *)
(* alone keeps its credits exact and inside its window, every send finds a *)
(* receive, and a benchmark counts its own completions and leaves QP-B as  *)
(* it found it, while no earlier call has left work behind; whatever       *)
(* was left, a benchmark counts no more than it was asked.  The last       *)
(* section is about the latency histogram in which they record: no sample  *)
(* and no extreme is lost, and a summary finds every percentile, for any   *)
(* number of recording threads.                                            *)
(***************************************************************************)
EXTENDS Bench, Histogram, FiniteSetTheorems, WellFoundedInduction, TLAPS

-----------------------------------------------------------------------------
\* The inductive invariant

(* One stream runs at a time.  The driver does not enforce it, and with    *)
(* two the credits are not exact; the theorems say what holds without it.  *)
OneStream == \A s, t \in Streams : s = t

(* A configured window leaves room between its watermarks.                 *)
WindowInv == configured => low_watermark < high_watermark

(* What a running stream has on the wire, on the CQs and on QP-B.  The     *)
(* sum of ahead and outstanding is what keeps a receive ready for the next *)
(* send; outside the drain outstanding is exact, inside it counts the      *)
(* error completion that ended the loop once too often.                    *)
StreamInv(s) ==
    /\ configured /\ qdepth[s] \in QDepths
    /\ outstanding[s] <= qdepth[s] /\ outstanding[s] <= high_watermark
    /\ Posted <= outstanding[s]
    /\ 0 <= credits /\ credits + outstanding[s] <= max_credits
    /\ 0 <= ahead[s] /\ ahead[s] + wire <= rq
    /\ cq_b + wire <= max_credits
    /\ pc[s] # "drain" =>
          /\ Posted = outstanding[s]
          /\ credits + outstanding[s] = max_credits
          /\ ahead[s] + outstanding[s] >= Smaller(qdepth[s], max_credits)
    /\ pc[s] \in {"check", "stall", "send", "poll"} => cq_b + wire <= outstanding[s]
    /\ pc[s] = "send" => outstanding[s] < qdepth[s] /\ outstanding[s] < high_watermark

StreamsInv == \A s \in Streams : pc[s] # "idle" => StreamInv(s)

(* Between calls nothing is on the wire and both CQs are empty.            *)
QuietInv ==
    bench = "idle" /\ Running = {} => wire = 0 /\ cq_ok = 0 /\ cq_err = 0 /\ cq_b = 0

AloneInv == bench # "idle" => Running = {}

(* What a benchmark has posted, on the wire, completed and counted.        *)
(* Receives are replenished one for one, so that recv_posted is known from *)
(* completed and is never behind sent.                                     *)
PrePosted == Smaller(2 * depth, iterations)

BenchInv ==
    bench \in Calls =>
        /\ iterations \in Iterations /\ depth \in BenchDepths \cup {1}
        /\ completed + Posted = sent
        /\ recv_drained + cq_b + wire + cq_err = sent
        /\ rq + completed + cq_ok = found + recv_posted
        /\ sent <= recv_posted /\ recv_posted <= iterations
        /\ Windowed => /\ depth \in BenchDepths /\ max_qdepth \in BenchDepths
                       /\ depth <= max_qdepth
                       /\ recv_posted = Smaller(iterations, PrePosted + completed)
                       /\ found + PrePosted <= RqSize
                       /\ sent - completed <= depth
        /\ bench = "streaming" => depth = max_qdepth
        /\ bench = "paired" => recv_drained <= completed

(* Between benchmarks the counters are zero.                               *)
RestInv == bench \notin Calls => iterations = 0 /\ recv_posted = 0 /\ recv_drained = 0

(* The parameters of the call under way.                                   *)
CallInv ==
    /\ bench \in Calls => iterations \in Iterations /\ depth \in BenchDepths \cup {1}
    /\ Windowed => depth \in BenchDepths /\ max_qdepth \in BenchDepths
    /\ bench = "paired" => recv_posted <= iterations

(* What holds also among the completions of another call.                  *)
WeakInv == TypeOK /\ BenchTypeOK /\ WindowInv /\ AloneInv /\ CallInv /\ RestInv

(* What holds while no call has left anything behind.                      *)
FInv == /\ TypeOK /\ BenchTypeOK /\ WindowInv /\ AloneInv /\ CallInv /\ RestInv
        /\ StreamsInv /\ QuietInv /\ BenchInv

(* The inductive invariant.                                                *)
PairInv == WeakInv /\ (~left => FInv)

-----------------------------------------------------------------------------
\* Lemmas

(* The credit window that a stream configures for itself.                  *)
LEMMA AutoWindow ==
    ASSUME NEW q \in QDepths
    PROVE  /\ AutoMax(q) \in 0..CreditCap
           /\ AutoHigh(q) \in 0..AutoMax(q)
           /\ AutoLow(q) \in 0..AutoMax(q)
           /\ AutoLow(q) < AutoHigh(q)
  <1>1. q \in Nat \ {0} /\ CreditCap \in Nat \ {0, 1}
    BY FlowAssumption
  <1>2. AutoMax(q) \in 2..CreditCap
    BY <1>1 DEF AutoMax, Larger, Smaller
  <1>3. PICK m \in 2..CreditCap : m = AutoMax(q)
    BY <1>2
  <1>4. Larger(1, (m * 3) \div 4) \in 1..m
    BY <1>1, <1>3 DEF Larger
  <1>5. PICK h \in 1..m : h = Larger(1, (m * 3) \div 4)
    BY <1>4
  <1>6. Smaller(Larger(1, m \div 4), h - 1) \in 0..h-1
    BY <1>1, <1>3, <1>5 DEF Larger, Smaller
  <1>7. PICK l \in 0..h-1 : l = Smaller(Larger(1, m \div 4), h - 1)
    BY <1>6
  <1>8. m \in Nat /\ h \in Nat /\ l \in Nat /\ 2 <= m /\ m <= CreditCap /\ h <= m /\ l <= h - 1
    BY <1>1, <1>3, <1>5, <1>7
  <1>9. m \in 0..CreditCap /\ h \in 0..m /\ l \in 0..m /\ l < h
    BY <1>1, <1>8
  <1>10. AutoHigh(q) = h /\ AutoLow(q) = l
    BY <1>3, <1>5, <1>7 DEF AutoHigh, AutoLow
  <1> QED
    BY <1>3, <1>9, <1>10

(* Twice the queue depth, within the window, is no less than the depth.    *)
LEMMA PrePostIsEnough ==
    ASSUME NEW q \in Nat, NEW m \in Nat
    PROVE  Smaller(2 * q, m) \in Nat /\ Smaller(2 * q, m) >= Smaller(q, m)
  BY DEF Smaller

(* Below its modulus a counter has not wrapped.                            *)
LEMMA SmallMod ==
    ASSUME NEW M \in Nat \ {0}, NEW x \in Nat, x < M
    PROVE  x % M = x
  OBVIOUS

-----------------------------------------------------------------------------
\* Types, and the parameters of the calls

(* What left becomes is a truth value.                                     *)
LEMMA LeftType ==
    ASSUME left \in BOOLEAN, PairNext
    PROVE  left' \in BOOLEAN
  BY DEF PairNext, StreamNext, StreamBegins, StreamLoop, BenchNext, BenchLoop, CallBegins,
     CallBreaksOff, BeginPaired, BeginStreaming, BeginSweep, PairedRecv, PairedSend,
     PairedPollA, PairedPollB, PairedFails, PairedEnds, WindowSend, StreamingPoll, SweepPoll,
     TakeCompletion, WindowFails, NextPoint, WindowEnds

(* A step of the streams or of the NIC leaves the calls alone.             *)
LEMMA BenchUntouched ==
    ASSUME WeakInv, UNCHANGED benchvars, left' \in BOOLEAN, TypeOK', WindowInv', AloneInv'
    PROVE  WeakInv'
  <1>1. BenchTypeOK'
    BY DEF WeakInv, BenchTypeOK, benchvars, asked, counters
  <1> QED
    BY <1>1 DEF WeakInv, CallInv, RestInv, Windowed, benchvars, asked, counters

LEMMA ConfigureTypes ==
    ASSUME WeakInv, NEW c \in Configs, Configure(c)
    PROVE  TypeOK' /\ WindowInv'
  <1>1. c.max \in Nat /\ c.high \in Nat /\ c.low \in Nat /\ CreditCap \in Nat
    BY FlowAssumption
  <1>2. /\ c.max \in 0..CreditCap /\ c.high \in 0..c.max /\ c.low \in 0..c.max
        /\ c.low < c.high
    BY <1>1 DEF Configure, Valid
  <1>3. /\ max_credits' = c.max /\ high_watermark' = c.high /\ low_watermark' = c.low
        /\ credits' = c.max /\ paused' = FALSE /\ configured' = TRUE
        /\ UNCHANGED <<pc, qdepth, outstanding, ahead, wire, cq_ok, cq_err, cq_b, rq, qp_error>>
    BY DEF Configure, stream, nic
  <1>4. /\ max_credits' \in 0..CreditCap /\ high_watermark' \in 0..max_credits'
        /\ low_watermark' \in 0..max_credits' /\ credits' \in Int
        /\ low_watermark' < high_watermark'
    BY <1>1, <1>2, <1>3
  <1>5. TypeOK'
    BY <1>3, <1>4 DEF WeakInv, TypeOK
  <1> QED
    BY <1>4, <1>5 DEF WindowInv

(* A stream starts with a window of its own or the configured one.         *)
LEMMA StartTypes ==
    ASSUME WeakInv, NEW s \in Streams, NEW q \in QDepths, Start(s, q)
    PROVE  TypeOK' /\ WindowInv' /\ low_watermark' < high_watermark'
  <1>1. /\ max_credits' \in 0..CreditCap /\ high_watermark' \in 0..max_credits'
        /\ low_watermark' \in 0..max_credits' /\ low_watermark' < high_watermark'
        /\ configured' = TRUE /\ paused' = FALSE
    <2>1. CASE configured
      BY <2>1 DEF Start, WeakInv, TypeOK, WindowInv
    <2>2. CASE ~configured
      <3>1. /\ max_credits' = AutoMax(q) /\ high_watermark' = AutoHigh(q)
            /\ low_watermark' = AutoLow(q)
        BY <2>2 DEF Start
      <3> QED
        BY <3>1, AutoWindow DEF Start
    <2> QED
      BY <2>1, <2>2 DEF WeakInv, TypeOK
  <1>2. /\ CreditCap \in Nat /\ RqSize \in Nat /\ q \in Nat /\ WordMod \in Nat \ {0}
    BY FlowAssumption
  <1>3. max_credits' \in Nat /\ credits' = max_credits'
    BY <1>1, <1>2 DEF Start
  <1>4. PrePost(q, max_credits') \in Nat
    BY <1>2, <1>3 DEF PrePost, Smaller
  <1>5. rq' \in 0..RqSize
    BY <1>2, <1>4 DEF Start, WeakInv, TypeOK
  <1>6. /\ pc' \in [Streams -> {"idle", "check", "send", "stall", "poll", "drain_b", "drain"}]
        /\ qdepth' \in [Streams -> QDepths \cup {0}]
        /\ outstanding' \in [Streams -> 0..WordMod-1]
        /\ ahead' \in [Streams -> Int]
    <2>1. 0 \in 0..WordMod-1 /\ PrePost(q, max_credits') \in Int
      BY <1>2, <1>4
    <2> QED
      BY <2>1 DEF Start, Goto, stream, WeakInv, TypeOK
  <1>7. wire' = wire /\ cq_ok' = 0 /\ cq_err' = 0 /\ cq_b' = 0 /\ qp_error' = qp_error
    BY DEF Start
  <1>8. /\ wire' \in Nat /\ cq_ok' \in Nat /\ cq_err' \in Nat /\ cq_b' \in Nat
        /\ credits' \in Int
    BY <1>3, <1>7 DEF WeakInv, TypeOK
  <1>9. qp_error' \in BOOLEAN /\ configured' \in BOOLEAN /\ paused' \in BOOLEAN
    BY <1>1, <1>7 DEF WeakInv, TypeOK
  <1> QED
    BY <1>1, <1>5, <1>6, <1>8, <1>9 DEF TypeOK, WindowInv

(* Every other step of a stream.                                           *)
LEMMA LoopTypes ==
    ASSUME WeakInv, NEW s \in Streams, Loop(s) \/ LeavesLoop(s) \/ DrainEnd(s)
    PROVE  TypeOK' /\ WindowInv'
  <1> DEFINE Places == {"idle", "check", "send", "stall", "poll", "drain_b", "drain"}
  <1>1. /\ RqSize \in Nat /\ WordMod \in Nat \ {0}
        /\ outstanding[s] \in 0..WordMod-1 /\ ahead[s] \in Int
        /\ (outstanding[s] + 1) % WordMod \in 0..WordMod-1
        /\ (outstanding[s] - 1) % WordMod \in 0..WordMod-1
        /\ outstanding[s] > 0 => outstanding[s] - 1 \in 0..WordMod-1
    <2>1. RqSize \in Nat /\ WordMod \in Nat \ {0} /\ outstanding[s] \in 0..WordMod-1 /\ ahead[s] \in Int
      BY FlowAssumption DEF WeakInv, TypeOK
    <2> QED
      BY <2>1
  <1>2. limits' = limits
    BY DEF Loop, LeavesLoop, DrainEnd, Check, Stall, Send, PollSuccess, PollNothing, PollError,
       DrainB, DrainPoll, Deadline, SendFails, PollFails, flow, limits
  <1>3. paused' \in BOOLEAN
    <2>1. HoldBack \in BOOLEAN
      <3>1. CASE paused
        BY <3>1 DEF HoldBack
      <3>2. CASE ~paused
        BY <3>2 DEF HoldBack
      <3> QED
        BY <3>1, <3>2
    <2>2. paused' = paused \/ paused' = HoldBack
      BY DEF Loop, LeavesLoop, DrainEnd, Check, Stall, Send, PollSuccess, PollNothing,
         PollError, DrainB, DrainPoll, Deadline, SendFails, PollFails, flow
    <2> QED
      BY <2>1, <2>2 DEF WeakInv, TypeOK
  <1>4. credits' \in Int
    BY DEF Loop, LeavesLoop, DrainEnd, Check, Stall, Send, PollSuccess, PollNothing, PollError,
       DrainB, DrainPoll, Deadline, SendFails, PollFails, flow, WeakInv, TypeOK
  <1>5. pc' \in [Streams -> Places]
    BY DEF Loop, LeavesLoop, DrainEnd, Check, Stall, Send, PollSuccess, PollNothing, PollError,
       DrainB, DrainPoll, Deadline, SendFails, PollFails, Goto, WeakInv, TypeOK
  <1>6. qdepth' \in [Streams -> QDepths \cup {0}]
    BY DEF Loop, LeavesLoop, DrainEnd, Check, Stall, Send, PollSuccess, PollNothing, PollError,
       DrainB, DrainPoll, Deadline, SendFails, PollFails, WeakInv, TypeOK
  <1>7. outstanding' \in [Streams -> 0..WordMod-1]
    <2>1. \/ outstanding' = outstanding
          \/ \E x \in 0..WordMod-1 : outstanding' = [outstanding EXCEPT ![s] = x]
      BY <1>1 DEF Loop, LeavesLoop, DrainEnd, Check, Stall, Send, PollSuccess, PollNothing,
         PollError, DrainB, DrainPoll, Deadline, SendFails, PollFails
    <2> QED
      BY <2>1 DEF WeakInv, TypeOK
  <1>8. ahead' \in [Streams -> Int]
    BY <1>1 DEF Loop, LeavesLoop, DrainEnd, Check, Stall, Send, PollSuccess, PollNothing,
       PollError, DrainB, DrainPoll, Deadline, SendFails, PollFails, WeakInv, TypeOK
  <1>9. /\ wire' \in Nat /\ cq_ok' \in Nat /\ cq_err' \in Nat /\ cq_b' \in Nat
        /\ rq' \in 0..RqSize /\ qp_error' \in BOOLEAN
    BY <1>1 DEF Loop, LeavesLoop, DrainEnd, Check, Stall, Send, PollSuccess, PollNothing,
       PollError, DrainB, DrainPoll, Deadline, SendFails, PollFails, nic, WeakInv, TypeOK
  <1> QED
    BY <1>2, <1>3, <1>4, <1>5, <1>6, <1>7, <1>8, <1>9 DEF WeakInv, TypeOK, WindowInv, limits

LEMMA NicTypes ==
    ASSUME WeakInv, Nic \/ Reconnect
    PROVE  TypeOK' /\ WindowInv' /\ Running' = Running
  <1>1. RqSize \in Nat
    BY FlowAssumption
  <1>2. /\ wire' \in Nat /\ cq_ok' \in Nat /\ cq_err' \in Nat /\ cq_b' \in Nat
        /\ rq' \in 0..RqSize
    BY <1>1 DEF Nic, Deliver, Break, FlushErr, Reconnect, WeakInv, TypeOK
  <1>3. UNCHANGED <<flow, stream>> /\ (qp_error' = qp_error \/ qp_error' \in BOOLEAN)
    BY DEF Nic, Deliver, Break, FlushErr, Reconnect
  <1> QED
    BY <1>2, <1>3 DEF WeakInv, TypeOK, WindowInv, Running, flow, stream

(* What the steps of a benchmark share: the streams do not move, and the   *)
(* queues keep their types.                                                *)
LEMMA BenchTypes ==
    ASSUME WeakInv, Running = {}, UNCHANGED <<flow, stream>>, left' \in BOOLEAN,
           wire' \in Nat, cq_ok' \in Nat, cq_err' \in Nat, cq_b' \in Nat,
           rq' \in 0..RqSize, qp_error' = qp_error,
           BenchTypeOK', CallInv', RestInv'
    PROVE  WeakInv'
  <1>1. TypeOK' /\ WindowInv'
    BY DEF WeakInv, TypeOK, WindowInv, flow, stream
  <1>2. Running' = {}
    BY DEF Running, stream
  <1> QED
    BY <1>1, <1>2 DEF WeakInv, AloneInv

LEMMA ReturnTypes ==
    ASSUME WeakInv, Running = {}, UNCHANGED <<flow, stream>>, left' \in BOOLEAN,
           wire' \in Nat, cq_ok' \in Nat, cq_err' \in Nat, cq_b' \in Nat,
           rq' \in 0..RqSize, qp_error' = qp_error, Return
    PROVE  WeakInv'
  <1>1. RqSize \in Nat
    BY FlowAssumption
  <1>2. BenchTypeOK'
    BY <1>1 DEF Return, BenchTypeOK
  <1>3. CallInv' /\ RestInv'
    BY DEF Return, CallInv, RestInv, Calls, Windowed
  <1> QED
    BY <1>2, <1>3, BenchTypes

(* A windowed call, or a point of a sweep, begins.                         *)
LEMMA WindowBeginsTypes ==
    ASSUME WeakInv, Running = {}, left' \in BOOLEAN, NEW q \in BenchDepths, NEW n \in Iterations,
           BeginWindow(q, n), UNCHANGED <<flow, stream, wire, qp_error>>,
           rq + Smaller(2 * q, n) <= RqSize =>
              bench' \in {"streaming", "sweep"} /\ max_qdepth' \in BenchDepths /\ iterations' = n
    PROVE  WeakInv'
  <1>1. q \in Nat /\ n \in Nat /\ RqSize \in Nat /\ rq \in 0..RqSize
    BY FlowAssumption, BenchAssumption DEF WeakInv, TypeOK
  <1>2. PICK m \in Nat : m = Smaller(2 * q, n)
    BY <1>1 DEF Smaller
  <1>3. /\ wire' \in Nat /\ cq_ok' \in Nat /\ cq_err' \in Nat /\ cq_b' \in Nat
        /\ rq' \in 0..RqSize
    BY <1>1, <1>2 DEF BeginWindow, FlushCqs, WeakInv, TypeOK, Smaller
  <1>4. CASE rq + m > RqSize
    BY <1>2, <1>3, <1>4, ReturnTypes DEF BeginWindow
  <1>5. CASE ~(rq + m > RqSize)
    <2>1. /\ bench' \in {"streaming", "sweep"} /\ max_qdepth' \in BenchDepths
          /\ iterations' = n /\ recv_posted' = m /\ sent' = 0 /\ completed' = 0
          /\ recv_drained' = 0 /\ depth' = q /\ found' = rq
      BY <1>1, <1>2, <1>5 DEF BeginWindow
    <2>2. BenchTypeOK'
      BY <1>1, <1>2, <2>1 DEF BenchTypeOK, Calls
    <2>3. CallInv' /\ RestInv'
      BY <2>1 DEF CallInv, RestInv, Windowed, Calls
    <2> QED
      BY <1>3, <2>2, <2>3, BenchTypes
  <1> QED
    BY <1>4, <1>5

(* The steps of LOOPBACK and PINGPONG.                                     *)
LEMMA PairedTypes ==
    ASSUME WeakInv, left' \in BOOLEAN, Running = {},
           \/ \E n \in Iterations : BeginPaired(n)
           \/ PairedRecv \/ PairedSend \/ PairedPollA \/ PairedPollB \/ PairedFails \/ PairedEnds
    PROVE  WeakInv'
  <1>1. /\ iterations \in Nat /\ sent \in Nat /\ completed \in Nat /\ recv_posted \in Nat
        /\ recv_drained \in Nat /\ sent <= iterations /\ completed <= iterations
        /\ RqSize \in Nat /\ rq \in 0..RqSize /\ found \in 0..RqSize
        /\ wire \in Nat /\ cq_ok \in Nat /\ cq_err \in Nat /\ cq_b \in Nat
        /\ bench = "paired" => recv_posted <= iterations
    BY FlowAssumption, BenchAssumption DEF WeakInv, TypeOK, BenchTypeOK, CallInv
  <1>2. /\ wire' \in Nat /\ cq_ok' \in Nat /\ cq_err' \in Nat /\ cq_b' \in Nat
        /\ rq' \in 0..RqSize /\ qp_error' = qp_error /\ UNCHANGED <<flow, stream>>
    BY <1>1 DEF BeginPaired, PairedRecv, PairedSend, PairedPollA, PairedPollB, PairedFails,
       PairedEnds, nic
  <1>3. CASE Return
    BY <1>2, <1>3, ReturnTypes
  <1>4. ASSUME NEW n \in Iterations, BeginPaired(n) PROVE WeakInv'
    <2>1. n \in Nat
      BY BenchAssumption
    <2>2. /\ bench' = "paired" /\ iterations' = n /\ depth' = 1 /\ found' = rq
          /\ UNCHANGED <<max_qdepth, recv_posted, sent, completed, recv_drained>>
      BY <1>4 DEF BeginPaired, counters
    <2>3. recv_posted = 0 /\ iterations = 0
      BY <1>4 DEF BeginPaired, WeakInv, RestInv, Calls
    <2>4. BenchTypeOK'
      BY <1>1, <2>1, <2>2, <2>3 DEF WeakInv, BenchTypeOK, Calls
    <2>5. CallInv' /\ RestInv'
      BY <2>1, <2>2, <2>3 DEF CallInv, RestInv, Windowed, Calls
    <2> QED
      BY <1>2, <2>4, <2>5, BenchTypes
  <1>5. ASSUME bench = "paired", ~Return, UNCHANGED <<bench, depth, asked, found>>,
               sent' \in 0..iterations, completed' \in 0..iterations,
               recv_posted' \in 0..iterations, recv_drained' \in Nat
        PROVE  WeakInv'
    <2>1. BenchTypeOK'
      BY <1>1, <1>5 DEF WeakInv, BenchTypeOK, asked
    <2>2. CallInv' /\ RestInv'
      BY <1>1, <1>5 DEF WeakInv, CallInv, RestInv, Windowed, Calls, asked
    <2> QED
      BY <1>2, <2>1, <2>2, BenchTypes
  <1>6. CASE ~Return /\ PairedRecv
    BY <1>1, <1>5, <1>6 DEF PairedRecv
  <1>7. CASE PairedSend \/ PairedPollA \/ PairedPollB
    BY <1>1, <1>3, <1>5, <1>7 DEF PairedSend, PairedPollA, PairedPollB
  <1> QED
    BY <1>3, <1>4, <1>6, <1>7 DEF PairedFails, PairedEnds

(* The steps of STREAMING and of the sweep.                                *)
LEMMA WindowTypes ==
    ASSUME WeakInv, left' \in BOOLEAN, Running = {},
           WindowSend \/ StreamingPoll \/ SweepPoll \/ WindowFails \/ NextPoint \/ WindowEnds
    PROVE  WeakInv'
  <1>1. /\ iterations \in Nat /\ sent \in Nat /\ completed \in Nat /\ recv_posted \in Nat
        /\ recv_drained \in Nat /\ sent <= iterations /\ completed <= iterations
        /\ RqSize \in Nat /\ rq \in 0..RqSize
        /\ wire \in Nat /\ cq_ok \in Nat /\ cq_err \in Nat /\ cq_b \in Nat
    BY FlowAssumption, BenchAssumption DEF WeakInv, TypeOK, BenchTypeOK
  <1>2. CASE WindowFails \/ WindowEnds
    BY <1>1, <1>2, ReturnTypes DEF WindowFails, WindowEnds, FlushCqs
  <1>3. CASE NextPoint
    <2>1. PICK q \in NextDepths : /\ BeginWindow(q, iterations)
                                  /\ rq + Smaller(2 * q, iterations) <= RqSize => UNCHANGED <<bench, asked>>
      BY <1>3 DEF NextPoint
    <2>2. bench = "sweep" /\ iterations \in Iterations /\ depth \in BenchDepths /\ max_qdepth \in BenchDepths
      BY <1>3 DEF NextPoint, WeakInv, CallInv, Calls, Windowed
    <2>3. q \in BenchDepths
      <3>1. depth..max_qdepth \subseteq BenchDepths /\ depth \in Nat /\ max_qdepth \in Nat
        BY <2>2, BenchAssumption
      <3> QED
        BY <3>1 DEF NextDepths
    <2> QED
      BY <1>3, <2>1, <2>2, <2>3, WindowBeginsTypes DEF NextPoint, asked
  <1>4. ASSUME Windowed, UNCHANGED <<bench, depth, asked, found>>, UNCHANGED <<flow, stream>>,
               sent' \in 0..iterations, completed' \in 0..iterations,
               recv_posted' \in Nat, recv_drained' \in Nat,
               wire' \in Nat, cq_ok' \in Nat, cq_err' \in Nat, cq_b' \in Nat,
               rq' \in 0..RqSize, qp_error' = qp_error
        PROVE  WeakInv'
    <2>1. BenchTypeOK'
      BY <1>1, <1>4 DEF WeakInv, BenchTypeOK, asked
    <2>2. CallInv' /\ RestInv'
      BY <1>1, <1>4 DEF WeakInv, CallInv, RestInv, Windowed, Calls, asked
    <2> QED
      BY <1>4, <2>1, <2>2, BenchTypes
  <1>5. CASE WindowSend
    BY <1>1, <1>4, <1>5 DEF WindowSend, Sending, MaySend
  <1>6. ASSUME NEW k \in {0, 1}, TakeCompletion(k), Polling, cq_ok > 0, rq + k <= RqSize,
               UNCHANGED <<flow, stream, wire, qp_error>>
        PROVE  WeakInv'
    BY <1>1, <1>4, <1>6 DEF TakeCompletion, Polling
  <1>7. CASE SweepPoll
    BY <1>1, <1>6, <1>7 DEF SweepPoll
  <1>8. CASE StreamingPoll
    <2>1. CASE Replenish /\ rq = RqSize
      BY <1>1, <1>8, <2>1, ReturnTypes DEF StreamingPoll, FlushCqs
    <2>2. CASE ~(Replenish /\ rq = RqSize)
      BY <1>1, <1>6, <1>8, <2>2 DEF StreamingPoll
    <2> QED
      BY <2>1, <2>2
  <1> QED
    BY <1>2, <1>3, <1>5, <1>7, <1>8

(* Every step keeps the types, whatever is left on the queues.             *)
LEMMA WeakStep == WeakInv /\ [PairNext]_pairvars => WeakInv'
  <1> SUFFICES ASSUME WeakInv, [PairNext]_pairvars PROVE WeakInv'
    OBVIOUS
  <1>1. CASE UNCHANGED pairvars
    <2>1. TypeOK' /\ WindowInv' /\ AloneInv'
      BY <1>1 DEF WeakInv, TypeOK, WindowInv, AloneInv, Running, pairvars, vars, benchvars
    <2> QED
      BY <1>1, <2>1, BenchUntouched DEF pairvars, WeakInv, BenchTypeOK
  <1>2. CASE PairNext
    <2>1. left' \in BOOLEAN
      BY <1>2, LeftType DEF WeakInv, BenchTypeOK
    <2>2. CASE bench = "idle" /\ StreamNext
      <3>1. UNCHANGED benchvars
        BY <2>2 DEF StreamNext, StreamBegins, StreamLoop
      <3>2. TypeOK' /\ WindowInv'
        BY <2>2, ConfigureTypes, StartTypes, LoopTypes DEF StreamNext, StreamBegins, StreamLoop
      <3>3. AloneInv'
        BY <2>2, <3>1 DEF AloneInv, benchvars
      <3> QED
        BY <2>1, <3>1, <3>2, <3>3, BenchUntouched
    <2>3. CASE Nic /\ UNCHANGED <<benchvars, left>>
      BY <2>1, <2>3, NicTypes, BenchUntouched DEF WeakInv, AloneInv, benchvars
    <2>4. CASE bench = "idle" /\ Reconnect /\ left' = FALSE /\ UNCHANGED benchvars
      BY <2>1, <2>4, NicTypes, BenchUntouched DEF WeakInv, AloneInv, benchvars
    <2>5. CASE BenchLoop
      <3>1. Running = {}
        BY <2>5 DEF BenchLoop, PairedRecv, PairedSend, PairedPollA, PairedPollB, PairedFails,
           PairedEnds, WindowSend, StreamingPoll, SweepPoll, WindowFails, NextPoint, WindowEnds,
           Sending, Polling, Windowed, WeakInv, AloneInv
      <3> QED
        BY <2>1, <2>5, <3>1, PairedTypes, WindowTypes DEF BenchLoop
    <2>6. ASSUME Running = {}, NEW n \in Iterations, BeginPaired(n) PROVE WeakInv'
      BY <2>1, <2>6, PairedTypes
    <2>7. ASSUME Running = {}, NEW n \in Iterations, NEW q \in BenchDepths, NEW m \in BenchDepths,
                 BeginStreaming(q, n) \/ BeginSweep(q, m, n)
          PROVE  WeakInv'
      BY <2>1, <2>7, WindowBeginsTypes DEF BeginStreaming, BeginSweep
    <2> QED
      BY <1>2, <2>2, <2>3, <2>4, <2>5, <2>6, <2>7 DEF PairNext, BenchNext
  <1> QED
    BY <1>1, <1>2

-----------------------------------------------------------------------------
\* What is exact

(* A call that broke off and left nothing behind left the queues empty.    *)
LEMMA NothingRemains ==
    ASSUME WeakInv', ~(Remains' > 0)
    PROVE  wire' = 0 /\ cq_ok' = 0 /\ cq_err' = 0 /\ cq_b' = 0
  <1>1. wire' \in Nat /\ cq_ok' \in Nat /\ cq_err' \in Nat /\ cq_b' \in Nat
    BY DEF WeakInv, TypeOK
  <1>2. ~(wire' + cq_ok' + cq_err' + cq_b' > 0)
    BY DEF Remains
  <1>3. ASSUME NEW w \in Nat, NEW g \in Nat, NEW e \in Nat, NEW b \in Nat, ~(w + g + e + b > 0)
        PROVE  w = 0 /\ g = 0 /\ e = 0 /\ b = 0
    <2>1. w + g + e + b <= 0
      BY <1>3
    <2> QED
      BY <1>3, <2>1
  <1> QED
    BY <1>1, <1>2, <1>3

(* A step of the stream that leaves it running is judged by its own part   *)
(* of the invariant.                                                       *)
LEMMA StreamKeeps ==
    ASSUME FInv, WeakInv', OneStream, NEW s \in Streams, bench = "idle", UNCHANGED benchvars,
           pc'[s] # "idle", StreamInv(s)'
    PROVE  FInv'
  <1>1. StreamsInv'
    BY DEF OneStream, StreamsInv
  <1>2. Running' # {}
    BY DEF Running
  <1>3. bench' = "idle"
    BY DEF benchvars
  <1> QED
    BY <1>1, <1>2, <1>3 DEF WeakInv, FInv, QuietInv, BenchInv, Calls

(* The invariant of the running stream, with the types of its parts.       *)
LEMMA StreamFacts ==
    ASSUME FInv, NEW s \in Streams, pc[s] # "idle"
    PROVE  /\ StreamInv(s)
           /\ outstanding[s] \in Nat /\ ahead[s] \in Nat
           /\ qdepth[s] \in Nat /\ qdepth[s] < WordMod /\ qdepth[s] # 0
           /\ max_credits \in Nat /\ high_watermark \in 0..max_credits
           /\ low_watermark \in Nat /\ low_watermark < high_watermark
           /\ credits \in 0..max_credits
           /\ wire \in Nat /\ cq_ok \in Nat /\ cq_err \in Nat /\ cq_b \in Nat
           /\ rq \in 0..RqSize
           /\ RqSize \in Nat /\ WordMod \in Nat /\ CreditCap \in Nat
  <1>1. StreamInv(s)
    BY DEF FInv, StreamsInv
  <1>2. qdepth[s] \in Nat /\ qdepth[s] < WordMod /\ qdepth[s] # 0
    BY <1>1, FlowAssumption DEF StreamInv
  <1>3. low_watermark < high_watermark
    BY <1>1 DEF StreamInv, FInv, WindowInv
  <1>4. /\ outstanding[s] \in Nat /\ max_credits \in Nat /\ high_watermark \in 0..max_credits
        /\ low_watermark \in Nat /\ credits \in Int /\ ahead[s] \in Int
        /\ wire \in Nat /\ cq_ok \in Nat /\ cq_err \in Nat /\ cq_b \in Nat
        /\ rq \in 0..RqSize
        /\ RqSize \in Nat /\ WordMod \in Nat /\ CreditCap \in Nat
    BY FlowAssumption DEF FInv, TypeOK
  <1>5. credits \in 0..max_credits /\ ahead[s] \in Nat
    <2>1. 0 <= credits /\ credits + outstanding[s] <= max_credits /\ 0 <= ahead[s]
      BY <1>1 DEF StreamInv
    <2> QED
      BY <1>4, <2>1
  <1> QED
    BY <1>1, <1>2, <1>3, <1>4, <1>5

-----------------------------------------------------------------------------
\* The stream

(* CONFIGURE_FLOW installs a valid window.                                 *)
LEMMA ConfigureStep ==
    ASSUME FInv, WeakInv', NEW c \in Configs, Configure(c), bench = "idle", UNCHANGED benchvars
    PROVE  FInv'
  <1>1. Running' = Running /\ Running = {} /\ UNCHANGED nic /\ bench' = "idle"
    BY DEF Configure, Running, stream, benchvars
  <1>2. StreamsInv'
    BY <1>1 DEF StreamsInv, Running
  <1>3. QuietInv' /\ BenchInv'
    BY <1>1 DEF FInv, QuietInv, BenchInv, nic, Calls
  <1> QED
    BY <1>2, <1>3 DEF WeakInv, FInv

(* SUSTAINED_STREAM starts with full credits, empty CQs and receives for   *)
(* its first sends, or fails and leaves the receives that fitted.          *)
LEMMA StartStep ==
    ASSUME WeakInv, WeakInv', OneStream, NEW s \in Streams, NEW q \in QDepths, Start(s, q),
           bench = "idle", UNCHANGED benchvars, wire = 0
    PROVE  FInv'
  <1>1. Running = {} /\ pc[s] = "idle"
    BY DEF Start, OneStream, Running
  <1>2. wire' = 0 /\ bench' = "idle"
    BY DEF Start, benchvars
  <1>3. /\ max_credits' \in 0..CreditCap /\ high_watermark' \in 0..max_credits'
        /\ credits' = max_credits' /\ configured' = TRUE
        /\ cq_ok' = 0 /\ cq_err' = 0 /\ cq_b' = 0
    BY DEF Start, WeakInv, TypeOK
  <1>4. /\ q \in Nat /\ q # 0 /\ q < WordMod /\ RqSize \in Nat /\ WordMod \in Nat \ {0}
        /\ CreditCap \in Nat /\ max_credits' \in Nat /\ rq \in 0..RqSize
    BY <1>3, FlowAssumption DEF WeakInv, TypeOK
  <1>5. PICK n \in Nat : n = PrePost(q, max_credits') /\ n = Smaller(2 * q, max_credits')
    BY <1>4 DEF PrePost, Smaller
  <1>7. CASE /\ rq + n <= RqSize /\ rq' = rq + n /\ Goto(s, "check")
             /\ qdepth' = [qdepth EXCEPT ![s] = q]
             /\ outstanding' = [outstanding EXCEPT ![s] = 0]
             /\ ahead' = [ahead EXCEPT ![s] = n]
    <2>3. /\ pc'[s] = "check" /\ qdepth'[s] = q /\ outstanding'[s] = 0 /\ ahead'[s] = n
      BY <1>7 DEF WeakInv, TypeOK, Goto
    <2>4. PICK m \in Nat : m = max_credits' /\ n = Smaller(2 * q, m)
      BY <1>4, <1>5
    <2>5. PICK h \in Nat : h = high_watermark'
      BY <1>3, <1>4
    <2>a. n >= Smaller(q, m)
      BY <1>4, <2>4, PrePostIsEnough
    <2>b. rq \in Nat
      BY <1>4
    <2>6. 0 <= q /\ 0 <= h /\ m + 0 = m /\ n + 0 <= rq + n /\ n + 0 = n
      <3>1. q \in Nat
        BY <1>4
      <3> QED
        BY <2>b, <3>1
    <2>7. 0 + 0 <= m /\ Posted' = 0
      BY <1>2, <1>3, <2>4 DEF Posted
    <2>8. /\ credits' = m /\ max_credits' = m /\ high_watermark' = h /\ rq' = rq + n
          /\ wire' = 0 /\ cq_b' = 0 /\ configured' = TRUE
      BY <1>2, <1>3, <1>7, <2>4, <2>5
    <2>9. StreamInv(s)'
      <3>1. (/\ outstanding[s] <= qdepth[s] /\ outstanding[s] <= high_watermark
            /\ Posted <= outstanding[s] /\ Posted = outstanding[s]
            /\ cq_b + wire <= outstanding[s] /\ cq_b + wire <= max_credits)'
        BY <2>3, <2>6, <2>7, <2>8
      <3>2. (credits + outstanding[s] = max_credits /\ credits + outstanding[s] <= max_credits)'
        BY <2>3, <2>6, <2>8
      <3>3. (0 <= credits /\ 0 <= ahead[s] /\ ahead[s] + wire <= rq /\ ahead[s] + outstanding[s] >= Smaller(qdepth[s], max_credits))'
        BY <2>3, <2>4, <2>a, <2>6, <2>8
      <3> QED
        BY <2>3, <2>8, <3>1, <3>2, <3>3 DEF StreamInv
    <2> QED
      <3>1. StreamsInv'
        BY <2>9 DEF OneStream, StreamsInv
      <3>2. Running' # {}
        BY <2>3 DEF Running
      <3> QED
        BY <1>2, <3>1, <3>2 DEF WeakInv, FInv, QuietInv, BenchInv, Calls
  <1>8. CASE rq + n > RqSize /\ rq' = RqSize /\ UNCHANGED stream
    <2>1. Running' = {}
      BY <1>1, <1>8 DEF Running, stream
    <2>2. StreamsInv'
      BY <2>1 DEF StreamsInv, Running
    <2>3. QuietInv' /\ BenchInv'
      BY <1>2, <1>3 DEF QuietInv, BenchInv, Calls
    <2> QED
      BY <2>2, <2>3 DEF WeakInv, FInv
  <1> QED
    BY <1>5, <1>7, <1>8 DEF Start

(* Steps of the loop that move nothing but the stream's place.             *)
LEMMA MoveStep ==
    ASSUME FInv, WeakInv', OneStream, NEW s \in Streams, bench = "idle", UNCHANGED benchvars,
           Deadline(s) \/ Check(s) \/ Stall(s) \/ SendFails(s) \/ PollNothing(s) \/ PollFails(s)
    PROVE  FInv'
  <1>1. pc[s] \in {"check", "stall", "send", "poll"}
    BY DEF Deadline, Check, Stall, SendFails, PollNothing, PollFails
  <1>2. StreamInv(s)
    BY <1>1, StreamFacts
  <1>3. /\ UNCHANGED <<credits, max_credits, high_watermark, low_watermark, configured,
                       qdepth, outstanding, ahead, wire, cq_ok, cq_err, cq_b, rq, qp_error>>
        /\ paused' = paused \/ paused' = HoldBack
    BY DEF Deadline, Check, Stall, SendFails, PollNothing, PollFails, flow, limits, nic
  <1>4. PICK l \in {"send", "stall", "poll", "drain_b", "drain"} : Goto(s, l)
    BY DEF Deadline, Check, Stall, SendFails, PollNothing, PollFails
  <1>5. pc'[s] = l
    BY <1>4 DEF Goto, FInv, TypeOK
  <1>6. l = "send" => outstanding[s] < qdepth[s] /\ outstanding[s] < high_watermark
    <2>1. ASSUME l = "send" PROVE Check(s) /\ CanSend /\ outstanding[s] < qdepth[s]
      <3>1. pc'[s] = "send"
        BY <1>5, <2>1
      <3>2. Check(s)
        BY <1>1, <3>1
        DEF Deadline, Stall, SendFails, PollNothing, PollFails, Goto, FInv, TypeOK
      <3> QED
        BY <3>1, <3>2 DEF Check, Goto, FInv, TypeOK
    <2>2. ASSUME l = "send" PROVE InFlight < high_watermark
      <3>1. ~HoldBack
        BY <2>1, <2>2 DEF CanSend
      <3>2. /\ InFlight \in Int /\ low_watermark \in Int /\ high_watermark \in Int
            /\ low_watermark < high_watermark
        BY <1>1, StreamFacts DEF InFlight
      <3> QED
        BY <3>1, <3>2 DEF HoldBack
    <2>3. InFlight = outstanding[s]
      BY <1>1, StreamFacts DEF StreamInv, InFlight
    <2> QED
      BY <2>1, <2>2, <2>3
  <1>8. StreamInv(s)'
    BY <1>1, <1>2, <1>3, <1>5, <1>6 DEF StreamInv, Posted
  <1> QED
    BY <1>5, <1>8, StreamKeeps

(* A send takes the credit, the place in the queue and the receive that    *)
(* the check found free.                                                   *)
LEMMA SendStep ==
    ASSUME FInv, WeakInv', OneStream, NEW s \in Streams, bench = "idle", UNCHANGED benchvars, Send(s)
    PROVE  FInv'
  <1>1. pc[s] = "send" /\ pc[s] # "idle"
    BY DEF Send
  <1>a. /\ outstanding[s] \in Nat /\ ahead[s] \in Nat /\ qdepth[s] \in Nat /\ max_credits \in Nat
        /\ high_watermark \in Nat /\ credits \in Nat /\ wire \in Nat
    BY <1>1, StreamFacts
  <1>2. PICK o \in Nat, a \in Nat, q \in Nat, m \in Nat, h \in Nat, k \in Nat, w \in Nat :
           /\ o = outstanding[s] /\ a = ahead[s] /\ q = qdepth[s] /\ m = max_credits
           /\ h = high_watermark /\ k = credits /\ w = wire
    BY <1>a
  <1>3. o < q /\ o < h /\ h <= m /\ q < WordMod /\ k + o = m
    BY <1>1, <1>2, StreamFacts DEF StreamInv
  <1>4. a + o >= Smaller(q, m)
    BY <1>1, <1>2, StreamFacts DEF StreamInv
  <1>5. a >= 1 /\ k >= 1 /\ a - 1 \in Nat /\ k - 1 \in Nat /\ o + 1 \in Nat
    BY <1>2, <1>3, <1>4 DEF Smaller
  <1>6. WordMod \in Nat \ {0} /\ o + 1 < WordMod
    BY <1>2, <1>3, FlowAssumption
  <1>7. (o + 1) % WordMod = o + 1
    BY <1>5, <1>6, SmallMod
  <1>8. /\ outstanding' = [outstanding EXCEPT ![s] = o + 1]
        /\ ahead' = [ahead EXCEPT ![s] = a - 1]
        /\ pc' = [pc EXCEPT ![s] = "poll"]
        /\ wire' = w + 1 /\ credits' = k - 1
        /\ UNCHANGED <<max_credits, high_watermark, low_watermark, configured, paused,
                       qdepth, cq_ok, cq_err, cq_b, rq, qp_error>>
    BY <1>2, <1>7 DEF Send, Goto, limits
  <1>9. /\ outstanding'[s] = o + 1 /\ ahead'[s] = a - 1 /\ pc'[s] = "poll"
    BY <1>8 DEF FInv, TypeOK
  <1>12. StreamInv(s)'
    <2>1. /\ configured /\ qdepth[s] \in QDepths /\ w + cq_ok + cq_err = o
          /\ a + w <= rq /\ cq_b + w <= o
          /\ cq_ok \in Nat /\ cq_err \in Nat /\ cq_b \in Nat /\ rq \in Nat
      BY <1>1, <1>2, StreamFacts DEF StreamInv, Posted
    <2>2. /\ o + 1 <= q /\ o + 1 <= h /\ (w + 1) + cq_ok + cq_err = o + 1
          /\ (k - 1) + (o + 1) = m /\ (a - 1) + (w + 1) <= rq
          /\ cq_b + (w + 1) <= m /\ cq_b + (w + 1) <= o + 1
          /\ (a - 1) + (o + 1) = a + o
          /\ o + 1 <= o + 1 /\ m <= m /\ 0 <= k - 1 /\ 0 <= a - 1
      BY <1>3, <1>5, <2>1
    <2> QED
      BY <1>2, <1>4, <1>8, <1>9, <2>1, <2>2 DEF StreamInv, Posted
  <1> QED
    BY <1>9, <1>12, StreamKeeps

(* An error completion, or the end of a receive drain, moves one CQ only.  *)
LEMMA CqStep ==
    ASSUME FInv, WeakInv', OneStream, NEW s \in Streams, bench = "idle", UNCHANGED benchvars,
           PollError(s) \/ DrainB(s)
    PROVE  FInv'
  <1>1. PICK l \in {"check", "drain"} : pc' = [pc EXCEPT ![s] = l] /\
           (pc[s] = "poll" \/ (pc[s] = "drain_b" /\ l = "check" /\ cq_err' = cq_err /\ cq_b' = 0))
    BY DEF PollError, DrainB, Goto
  <1>2. /\ UNCHANGED <<credits, max_credits, high_watermark, low_watermark, configured, paused,
                       qdepth, outstanding, ahead, wire, cq_ok, rq, qp_error>>
        /\ \/ l = "drain" /\ cq_err > 0 /\ cq_err' = cq_err - 1 /\ cq_b' = cq_b
           \/ l = "check" /\ cq_err' = cq_err /\ cq_b' = 0
    <2>1. CASE PollError(s)
      <3>1. pc[s] = "poll" /\ pc' = [pc EXCEPT ![s] = "drain"] /\ l = "drain"
        BY <1>1, <2>1 DEF PollError, Goto, FInv, TypeOK
      <3> QED
        BY <2>1, <3>1 DEF PollError, flow
    <2>2. CASE DrainB(s)
      <3>1. l = "check"
        BY <1>1, <2>2 DEF DrainB
      <3> QED
        BY <2>2, <3>1 DEF DrainB, flow
    <2> QED
      BY <2>1, <2>2
  <1>3. pc'[s] = l /\ pc[s] # "idle" /\ pc[s] # "drain"
    BY <1>1 DEF FInv, TypeOK
  <1>4. cq_ok \in Nat /\ cq_err \in Nat /\ cq_b \in Nat /\ wire \in Nat /\ outstanding[s] \in Nat
    BY <1>3, StreamFacts
  <1>5. cq_err' \in Nat /\ cq_err' <= cq_err /\ cq_b' \in Nat /\ cq_b' <= cq_b
    BY <1>2, <1>4
  <1>8. StreamInv(s)'
    <2>1. StreamInv(s) /\ max_credits \in Nat
      BY <1>3, StreamFacts
    <2>a. PICK e \in Nat, b \in Nat : e = cq_err' /\ b = cq_b' /\ e <= cq_err /\ b <= cq_b
      BY <1>5
    <2>b. /\ wire + cq_ok + e <= wire + cq_ok + cq_err
          /\ wire + cq_ok + e \in Nat /\ wire + cq_ok + cq_err \in Nat
      <3>1. e <= cq_err
        BY <2>a
      <3> QED
        BY <1>4, <3>1
    <2>c. Posted' = wire + cq_ok + e /\ Posted = wire + cq_ok + cq_err
      BY <1>2, <2>a DEF Posted
    <2>2. Posted' <= Posted /\ (l = "check" => Posted' = Posted) /\ Posted \in Nat /\ Posted' \in Nat
      BY <1>2, <2>a, <2>b, <2>c
    <2>3. Posted' <= outstanding[s] /\ cq_b' + wire <= max_credits
      <3>1. Posted <= outstanding[s] /\ cq_b + wire <= max_credits
        BY <2>1 DEF StreamInv
      <3>2. wire + cq_ok + e <= outstanding[s]
        BY <1>4, <2>b, <2>c, <3>1
      <3>3. b + wire <= max_credits
        <4>1. b <= cq_b
          BY <2>a
        <4> QED
          BY <1>4, <2>1, <3>1, <4>1
      <3> QED
        BY <2>a, <2>c, <3>2, <3>3
    <2>4. l = "check" => cq_b' + wire <= outstanding[s]
      <3>1. l = "check" => cq_b' = 0
        BY <1>2
      <3>2. wire <= Posted /\ Posted <= outstanding[s]
        BY <1>4, <2>1 DEF Posted, StreamInv
      <3> QED
        BY <1>4, <2>2, <3>1, <3>2
    <2> QED
      BY <1>1, <1>2, <1>3, <2>1, <2>2, <2>3, <2>4 DEF StreamInv
  <1> QED
    BY <1>3, <1>8, StreamKeeps

(* A success gives its credit and its place back; the receive it consumed  *)
(* is replaced unless qdepth of them are ahead of the sends.               *)
LEMMA PollSuccessStep ==
    ASSUME FInv, WeakInv', OneStream, NEW s \in Streams, bench = "idle", UNCHANGED benchvars,
           PollSuccess(s)
    PROVE  FInv'
  <1>1. pc[s] = "poll" /\ pc[s] # "idle" /\ cq_ok > 0
    BY DEF PollSuccess
  <1>a. /\ outstanding[s] \in Nat /\ ahead[s] \in Nat /\ qdepth[s] \in Nat /\ max_credits \in Nat
        /\ high_watermark \in Nat /\ credits \in Nat /\ wire \in Nat /\ cq_ok \in Nat
        /\ cq_err \in Nat /\ cq_b \in Nat /\ rq \in Nat
    BY <1>1, StreamFacts
  <1>2. PICK o \in Nat, a \in Nat, q \in Nat, m \in Nat, h \in Nat, k \in Nat, w \in Nat,
             g \in Nat, e \in Nat, b \in Nat, r \in Nat :
           /\ o = outstanding[s] /\ a = ahead[s] /\ q = qdepth[s] /\ m = max_credits
           /\ h = high_watermark /\ k = credits /\ w = wire /\ g = cq_ok /\ e = cq_err
           /\ b = cq_b /\ r = rq
    BY <1>a
  <1>3. /\ g > 0 /\ o <= q /\ o <= h /\ q < WordMod /\ k + o = m /\ w + g + e = o
        /\ a + w <= r /\ b + w <= m /\ r <= RqSize
    BY <1>1, <1>2, StreamFacts DEF StreamInv, Posted
  <1>4. a + o >= Smaller(q, m)
    BY <1>1, <1>2, StreamFacts DEF StreamInv
  <1>5. WordMod \in Nat \ {0} /\ RqSize \in Nat
    BY FlowAssumption
  <1>6. /\ o >= 1 /\ o - 1 \in Nat /\ o - 1 < WordMod /\ g - 1 \in Nat /\ k + 1 \in 0..m
        /\ o - 1 \in 0..WordMod-1
    BY <1>3, <1>5
  <1>7. (o - 1) % WordMod = o - 1
    BY <1>5, <1>6, SmallMod
  <1>8. /\ outstanding' = [outstanding EXCEPT ![s] = o - 1]
        /\ cq_ok' = g - 1 /\ credits' = k + 1
        /\ UNCHANGED <<max_credits, high_watermark, low_watermark, configured, paused,
                       qdepth, wire, cq_err, cq_b, qp_error>>
    BY <1>2, <1>7 DEF PollSuccess, limits
  <1>9. PICK i \in Nat, p \in Nat, l \in {"drain_b", "drain"} :
          /\ ahead' = [ahead EXCEPT ![s] = i] /\ rq' = p /\ pc' = [pc EXCEPT ![s] = l]
          /\ i + w <= p /\ p <= RqSize
          /\ l = "drain_b" => i + (o - 1) >= Smaller(q, m)
    <2>1. CASE a >= q /\ UNCHANGED <<rq, ahead>> /\ Goto(s, "drain_b")
      <3>1. a + (o - 1) >= Smaller(q, m)
        BY <1>6, <2>1 DEF Smaller
      <3>2. ahead' = [ahead EXCEPT ![s] = a] /\ rq' = r
        BY <1>2, <2>1 DEF FInv, TypeOK
      <3> QED
        BY <1>3, <2>1, <3>1, <3>2 DEF Goto
    <2>2. CASE /\ a < q /\ r < RqSize /\ rq' = r + 1
               /\ ahead' = [ahead EXCEPT ![s] = a + 1] /\ Goto(s, "drain_b")
      <3>1. (a + 1) + w <= r + 1 /\ r + 1 <= RqSize /\ r + 1 \in Nat /\ a + 1 \in Nat
        BY <1>3, <1>5, <2>2
      <3>2. (a + 1) + (o - 1) = a + o
        BY <1>6
      <3> QED
        BY <1>4, <2>2, <3>1, <3>2 DEF Goto
    <2>3. CASE a < q /\ UNCHANGED <<rq, ahead>> /\ Goto(s, "drain")
      <3>1. ahead' = [ahead EXCEPT ![s] = a] /\ rq' = r
        BY <1>2, <2>3 DEF FInv, TypeOK
      <3> QED
        BY <1>3, <2>3, <3>1 DEF Goto
    <2> QED
      BY <1>2, <2>1, <2>2, <2>3 DEF PollSuccess
  <1>10. /\ outstanding'[s] = o - 1 /\ ahead'[s] = i /\ pc'[s] = l
    BY <1>8, <1>9 DEF FInv, TypeOK
  <1>13. StreamInv(s)'
    <2>1. configured /\ qdepth[s] \in QDepths
      BY <1>1, StreamFacts DEF StreamInv
    <2>2. /\ o - 1 <= q /\ o - 1 <= h /\ w + (g - 1) + e = o - 1 /\ o - 1 <= o - 1
          /\ (k + 1) + (o - 1) = m /\ m <= m /\ 0 <= k + 1 /\ 0 <= i
      BY <1>3
    <2>3. Posted' = w + (g - 1) + e /\ i + w <= p /\ b + w <= m
      BY <1>2, <1>3, <1>8, <1>9 DEF Posted
    <2> QED
      BY <1>2, <1>8, <1>9, <1>10, <2>1, <2>2, <2>3 DEF StreamInv
  <1> QED
    BY <1>10, <1>13, StreamKeeps

(* In the drain every completion collected is one less outstanding.        *)
LEMMA DrainPollStep ==
    ASSUME FInv, WeakInv', OneStream, NEW s \in Streams, bench = "idle", UNCHANGED benchvars,
           DrainPoll(s)
    PROVE  FInv'
  <1>1. pc[s] = "drain" /\ pc[s] # "idle"
    BY DEF DrainPoll
  <1>a. /\ outstanding[s] \in Nat /\ ahead[s] \in Nat /\ qdepth[s] \in Nat /\ max_credits \in Nat
        /\ high_watermark \in Nat /\ credits \in Nat /\ wire \in Nat /\ cq_ok \in Nat
        /\ cq_err \in Nat
    BY <1>1, StreamFacts
  <1>2. PICK o \in Nat, q \in Nat, m \in Nat, h \in Nat, k \in Nat, w \in Nat,
             g \in Nat, e \in Nat :
           /\ o = outstanding[s] /\ q = qdepth[s] /\ m = max_credits
           /\ h = high_watermark /\ k = credits /\ w = wire /\ g = cq_ok /\ e = cq_err
    BY <1>a
  <1>3. /\ o <= q /\ o <= h /\ q < WordMod /\ k + o <= m /\ w + g + e <= o
        /\ o > 0 /\ g + e > 0
    BY <1>1, <1>2, StreamFacts DEF StreamInv, Posted, DrainPoll
  <1>4. WordMod \in Nat \ {0}
    BY FlowAssumption
  <1>5. o - 1 \in 0..WordMod-1
    BY <1>3, <1>4
  <1>6. /\ outstanding' = [outstanding EXCEPT ![s] = o - 1] /\ cq_b' = 0
        /\ UNCHANGED <<max_credits, high_watermark, low_watermark, configured, paused, pc,
                       qdepth, ahead, wire, rq, qp_error>>
    BY <1>2 DEF DrainPoll, limits
  <1>7. PICK kk \in Nat, gg \in Nat, ee \in Nat :
          /\ credits' = kk /\ cq_ok' = gg /\ cq_err' = ee
          /\ kk + (o - 1) <= m /\ w + gg + ee <= o - 1 /\ kk <= m
    <2>1. CASE g > 0 /\ cq_ok' = g - 1 /\ credits' = k + 1 /\ UNCHANGED cq_err
      <3>1. /\ k + 1 \in Nat /\ g - 1 \in Nat /\ (k + 1) + (o - 1) <= m
            /\ w + (g - 1) + e <= o - 1 /\ k + 1 <= m
        BY <1>3, <2>1
      <3> QED
        BY <1>2, <2>1, <3>1
    <2>2. CASE g = 0 /\ cq_err' = e - 1 /\ UNCHANGED <<cq_ok, credits>>
      <3>1. /\ e - 1 \in Nat /\ k + (o - 1) <= m /\ w + g + (e - 1) <= o - 1 /\ k <= m
        BY <1>3, <2>2
      <3> QED
        BY <1>2, <2>2, <3>1
    <2> QED
      BY <1>2, <2>1, <2>2 DEF DrainPoll
  <1>8. outstanding'[s] = o - 1 /\ pc'[s] = "drain"
    BY <1>1, <1>6 DEF FInv, TypeOK
  <1>11. StreamInv(s)'
    <2>1. /\ configured /\ qdepth[s] \in QDepths /\ ahead[s] + wire <= rq
          /\ cq_b + wire <= max_credits /\ cq_b \in Nat
      BY <1>1, StreamFacts DEF StreamInv
    <2>2. o - 1 <= q /\ o - 1 <= h /\ 0 <= kk /\ 0 <= ahead[s]
      BY <1>a, <1>3
    <2>3. Posted' = w + gg + ee
      BY <1>2, <1>6, <1>7 DEF Posted
    <2>4. 0 + wire <= max_credits
      BY <1>a, <2>1
    <2> QED
      BY <1>2, <1>6, <1>7, <1>8, <2>1, <2>2, <2>3, <2>4 DEF StreamInv
  <1> QED
    BY <1>8, <1>11, StreamKeeps

(* A stream that returns and leaves nothing on the wire.                   *)
LEMMA DrainEndStep ==
    ASSUME FInv, WeakInv', OneStream, NEW s \in Streams, bench = "idle", UNCHANGED benchvars,
           DrainEnd(s), CallBreaksOff, ~left'
    PROVE  FInv'
  <1>1. wire' = 0 /\ cq_ok' = 0 /\ cq_err' = 0 /\ cq_b' = 0
    BY NothingRemains DEF CallBreaksOff
  <1>2. \A t \in Streams : pc'[t] = "idle"
    BY DEF DrainEnd, Goto, OneStream, FInv, TypeOK
  <1>3. StreamsInv'
    BY <1>2 DEF StreamsInv
  <1>4. QuietInv' /\ BenchInv'
    BY <1>1 DEF QuietInv, BenchInv, benchvars, Calls
  <1> QED
    BY <1>3, <1>4 DEF WeakInv, FInv

-----------------------------------------------------------------------------
\* The queue pair

(* While a call runs every send on the wire has its receive.               *)
LEMMA BenchFacts ==
    ASSUME FInv, bench \in Calls
    PROVE  /\ iterations \in Nat /\ depth \in Nat /\ found \in Nat
           /\ recv_posted \in Nat /\ sent \in Nat /\ completed \in Nat /\ recv_drained \in Nat
           /\ wire \in Nat /\ cq_ok \in Nat /\ cq_err \in Nat /\ cq_b \in Nat /\ rq \in Nat
           /\ rq <= RqSize /\ RqSize \in Nat
           /\ sent <= iterations /\ completed <= iterations /\ recv_drained <= iterations
           /\ completed + wire + cq_ok + cq_err = sent
           /\ recv_drained + cq_b + wire + cq_err = sent
           /\ rq + completed + cq_ok = found + recv_posted
           /\ sent <= recv_posted /\ recv_posted <= iterations
           /\ wire <= rq
           /\ Running = {}
  <1>1. /\ iterations \in Iterations /\ depth \in BenchDepths \cup {1}
        /\ recv_posted \in Nat /\ found \in 0..RqSize
        /\ {sent, completed} \subseteq 0..iterations /\ recv_drained \in Nat
    BY DEF FInv, BenchInv, BenchTypeOK
  <1>2. iterations \in Nat /\ depth \in Nat /\ RqSize \in Nat
    BY <1>1, BenchAssumption, FlowAssumption
  <1>3. /\ found \in Nat /\ sent \in Nat /\ completed \in Nat /\ recv_drained \in Nat
        /\ sent <= iterations /\ completed <= iterations
    BY <1>1, <1>2
  <1>4. /\ wire \in Nat /\ cq_ok \in Nat /\ cq_err \in Nat /\ cq_b \in Nat /\ rq \in 0..RqSize
    BY DEF FInv, TypeOK
  <1>5. rq \in Nat /\ rq <= RqSize
    BY <1>2, <1>4
  <1>6. /\ completed + (wire + cq_ok + cq_err) = sent
        /\ recv_drained + cq_b + wire + cq_err = sent
        /\ rq + completed + cq_ok = found + recv_posted
        /\ sent <= recv_posted /\ recv_posted <= iterations
    BY DEF FInv, BenchInv, Posted
  <1>7. completed + wire + cq_ok + cq_err = sent
    BY <1>3, <1>4, <1>6
  <1>8. wire <= rq /\ recv_drained <= iterations
    BY <1>1, <1>2, <1>3, <1>4, <1>5, <1>6
  <1>9. Running = {}
    BY DEF FInv, AloneInv, Calls
  <1> QED
    BY <1>1, <1>2, <1>3, <1>4, <1>5, <1>6, <1>7, <1>8, <1>9

(* A delivery, a broken QP and a flushed send move a send from the wire to *)
(* a CQ; a delivery takes its receive with it.                             *)
LEMMA NicStep ==
    ASSUME FInv, WeakInv', Nic, UNCHANGED benchvars
    PROVE  FInv'
  <1>1. /\ UNCHANGED <<credits, max_credits, high_watermark, low_watermark, configured, paused>>
        /\ UNCHANGED <<pc, qdepth, outstanding, ahead>>
        /\ wire > 0
    BY DEF Nic, Deliver, Break, FlushErr, flow, stream, FInv, TypeOK
  <1>2. /\ wire \in Nat /\ cq_ok \in Nat /\ cq_err \in Nat /\ cq_b \in Nat
        /\ rq \in Nat /\ rq <= RqSize /\ RqSize \in Nat
    BY FlowAssumption DEF FInv, TypeOK
  <1>3. PICK w \in Nat, g \in Nat, e \in Nat, b \in Nat, r \in Nat :
          /\ w = wire' /\ g = cq_ok' /\ e = cq_err' /\ b = cq_b' /\ r = rq'
          /\ w + g + e = wire + cq_ok + cq_err
          /\ b + w + e = cq_b + wire + cq_err
          /\ r + g = rq + cq_ok
          /\ w + rq <= r + wire /\ b + w <= cq_b + wire /\ r <= RqSize
    <2>1. CASE Deliver
      <3>1. wire > 0 /\ rq > 0
        BY <2>1 DEF Deliver
      <3>2. /\ wire - 1 \in Nat /\ rq - 1 \in Nat /\ cq_ok + 1 \in Nat /\ cq_b + 1 \in Nat
            /\ (wire - 1) + (cq_ok + 1) + cq_err = wire + cq_ok + cq_err
            /\ (cq_b + 1) + (wire - 1) + cq_err = cq_b + wire + cq_err
            /\ (rq - 1) + (cq_ok + 1) = rq + cq_ok
            /\ (wire - 1) + rq <= (rq - 1) + wire
            /\ (cq_b + 1) + (wire - 1) <= cq_b + wire /\ rq - 1 <= RqSize
        BY <1>2, <3>1
      <3> QED
        BY <1>2, <2>1, <3>2 DEF Deliver
    <2>2. CASE Break
      <3>1. wire + rq <= rq + wire /\ cq_b + wire <= cq_b + wire
        BY <1>2
      <3> QED
        BY <1>2, <2>2, <3>1 DEF Break
    <2>3. CASE FlushErr
      <3>1. /\ wire - 1 \in Nat /\ cq_err + 1 \in Nat
            /\ (wire - 1) + cq_ok + (cq_err + 1) = wire + cq_ok + cq_err
            /\ cq_b + (wire - 1) + (cq_err + 1) = cq_b + wire + cq_err
            /\ (wire - 1) + rq <= rq + wire
            /\ cq_b + (wire - 1) <= cq_b + wire
        BY <1>1, <1>2
      <3> QED
        BY <1>2, <2>3, <3>1 DEF FlushErr
    <2> QED
      BY <2>1, <2>2, <2>3 DEF Nic
  <1>6. Posted' = Posted
    BY <1>3 DEF Posted
  <1>7. /\ w + rq <= r + wire /\ b + w <= cq_b + wire /\ r + g = rq + cq_ok
        /\ b + w + e = cq_b + wire + cq_err
    BY <1>3
  <1>8. StreamsInv'
    <2>1. SUFFICES ASSUME NEW s \in Streams, pc'[s] # "idle" PROVE StreamInv(s)'
      BY DEF StreamsInv
    <2>2. pc'[s] = pc[s] /\ pc[s] # "idle"
      BY <1>1, <2>1
    <2>3. /\ StreamInv(s) /\ outstanding[s] \in Nat /\ ahead[s] \in Nat /\ max_credits \in Nat
      BY <2>2, StreamFacts
    <2>4. ahead[s] + wire <= rq /\ cq_b + wire <= max_credits
      BY <2>3 DEF StreamInv
    <2>5. ahead[s] + w <= r /\ b + w <= max_credits
      BY <1>2, <1>7, <2>3, <2>4
    <2>6. cq_b + wire <= outstanding[s] => b + w <= outstanding[s]
      BY <1>2, <1>7, <2>3
    <2> QED
      BY <1>1, <1>3, <1>6, <2>2, <2>3, <2>5, <2>6 DEF StreamInv
  <1>9. QuietInv'
    BY <1>1 DEF FInv, QuietInv, Running, benchvars
  <1>10. BenchInv'
    <2>1. SUFFICES ASSUME bench \in Calls PROVE BenchInv'
      BY DEF BenchInv, benchvars
    <2>2. recv_drained \in Nat /\ completed \in Nat
      BY <2>1, BenchFacts
    <2>3. /\ recv_drained + cq_b + wire + cq_err = sent
          /\ rq + completed + cq_ok = found + recv_posted
      BY <2>1, BenchFacts
    <2>4. recv_drained + b + w + e = sent /\ r + completed + g = found + recv_posted
      BY <1>2, <1>7, <2>2, <2>3
    <2>5. recv_drained' + cq_b' + wire' + cq_err' = sent' /\ rq' + completed' + cq_ok' = found' + recv_posted'
      BY <1>3, <2>4 DEF benchvars, asked, counters
    <2> QED
      BY <1>6, <2>1, <2>5
      DEF FInv, BenchInv, Windowed, PrePosted, benchvars, asked, counters
  <1> QED
    BY <1>8, <1>9, <1>10 DEF WeakInv, FInv

-----------------------------------------------------------------------------
\* The benchmarks

(* A benchmark step touches no stream and no credit.                       *)
LEMMA BenchKeeps ==
    ASSUME WeakInv', Running = {}, UNCHANGED stream, QuietInv', BenchInv'
    PROVE  FInv'
  <1>1. Running' = {}
    BY DEF Running, stream
  <1>2. StreamsInv'
    BY <1>1 DEF StreamsInv, Running
  <1> QED
    BY <1>2 DEF WeakInv, FInv

(* A call returns and leaves nothing behind.                               *)
LEMMA ReturnStep ==
    ASSUME WeakInv', Running = {}, UNCHANGED stream, Return,
           wire' = 0 /\ cq_ok' = 0 /\ cq_err' = 0 /\ cq_b' = 0
    PROVE  FInv'
  <1>1. bench' = "idle"
    BY DEF Return
  <1>2. QuietInv' /\ BenchInv'
    BY <1>1 DEF QuietInv, BenchInv, Calls
  <1> QED
    BY <1>2, BenchKeeps

(* Flush and pre-post: the window starts with every receive ahead of its   *)
(* sends and the count of QP-B remembered.                                 *)
LEMMA BeginWindowStep ==
    ASSUME WeakInv, WeakInv', Running = {}, UNCHANGED <<flow, stream, wire, qp_error>>, wire = 0,
           NEW q \in BenchDepths, NEW n \in Iterations, BeginWindow(q, n),
           rq + Smaller(2 * q, n) <= RqSize =>
              /\ bench' \in {"streaming", "sweep"} /\ iterations' = n
              /\ max_qdepth' \in BenchDepths /\ q <= max_qdepth'
              /\ bench' = "streaming" => q = max_qdepth'
    PROVE  FInv'
  <1>1. q \in Nat /\ n \in Nat /\ RqSize \in Nat /\ rq \in Nat /\ rq <= RqSize
    BY BenchAssumption, FlowAssumption DEF WeakInv, TypeOK
  <1>2. PICK p \in Nat : p = Smaller(2 * q, n) /\ p <= n
    BY <1>1 DEF Smaller
  <1>3. /\ cq_ok' = 0 /\ cq_err' = 0 /\ cq_b' = 0 /\ wire' = 0 /\ qp_error' = qp_error
        /\ rq' = Smaller(RqSize, rq + p)
    BY <1>2 DEF BeginWindow, FlushCqs
  <1>4. CASE rq + p > RqSize
    <2>1. Return /\ UNCHANGED stream
      BY <1>2, <1>4 DEF BeginWindow
    <2> QED
      BY <1>3, <2>1, ReturnStep
  <1>5. CASE rq + p <= RqSize
    <2>1. /\ recv_posted' = p /\ sent' = 0 /\ completed' = 0 /\ recv_drained' = 0
          /\ depth' = q /\ found' = rq
      <3>1. ~(rq + p > RqSize)
        BY <1>1, <1>5
      <3> QED
        BY <1>2, <3>1 DEF BeginWindow
    <2>2. /\ bench' \in {"streaming", "sweep"} /\ iterations' = n
          /\ max_qdepth' \in BenchDepths /\ q <= max_qdepth'
          /\ bench' = "streaming" => q = max_qdepth'
      BY <1>2, <1>5
    <2>3. Smaller(RqSize, rq + p) = rq + p /\ rq + p \in 0..RqSize /\ rq \in 0..RqSize
      BY <1>1, <1>5 DEF Smaller
    <2>6. BenchInv'
      <3>1. /\ 0 + (0 + 0 + 0) = 0 /\ (rq + p) + 0 + 0 = rq + p /\ 0 <= p /\ p <= n
            /\ 0 - 0 <= q /\ Smaller(n, p + 0) = p
        BY <1>1, <1>2 DEF Smaller
      <3>2. Posted' = 0 /\ PrePosted' = p
        BY <1>2, <1>3, <2>1, <2>2, <3>1 DEF Posted, PrePosted
      <3>3. (/\ completed + Posted = sent /\ recv_drained + cq_b + wire + cq_err = sent
             /\ rq + completed + cq_ok = found + recv_posted
             /\ sent <= recv_posted /\ recv_posted <= iterations)'
        BY <1>3, <2>1, <2>2, <2>3, <3>1, <3>2
      <3>4. (/\ recv_posted = Smaller(iterations, PrePosted + completed)
             /\ found + PrePosted <= RqSize /\ sent - completed <= depth)'
        BY <1>5, <2>1, <2>2, <3>1, <3>2
      <3> QED
        BY <2>1, <2>2, <3>3, <3>4 DEF BenchInv, Windowed
    <2>7. QuietInv'
      BY <2>2 DEF QuietInv
    <2> QED
      BY <2>6, <2>7, BenchKeeps
  <1> QED
    BY <1>1, <1>2, <1>4, <1>5

(* STREAMING and the sweep begin a window on an empty wire.                *)
LEMMA BeginsStep ==
    ASSUME WeakInv, WeakInv', Running = {}, wire = 0,
           NEW n \in Iterations, NEW q \in BenchDepths, NEW m \in BenchDepths,
           BeginStreaming(q, n) \/ BeginSweep(q, m, n)
    PROVE  FInv'
  <1>1. q <= q
    BY BenchAssumption
  <1>2. CASE BeginStreaming(q, n)
    BY <1>1, <1>2, BeginWindowStep DEF BeginStreaming
  <1>3. CASE BeginSweep(q, m, n)
    BY <1>3, BeginWindowStep DEF BeginSweep
  <1> QED
    BY <1>2, <1>3

(* The next point of a sweep begins after the last completion of this one, *)
(* on an empty wire.                                                       *)
LEMMA NextPointStep ==
    ASSUME FInv, WeakInv', NextPoint
    PROVE  FInv'
  <1>1. /\ bench = "sweep" /\ bench \in Calls /\ completed = iterations
        /\ UNCHANGED <<flow, stream, wire, qp_error>>
    BY DEF NextPoint, Calls
  <1>2. wire = 0 /\ Running = {}
    <2>1. /\ completed \in Nat /\ wire \in Nat /\ cq_ok \in Nat /\ cq_err \in Nat /\ sent \in Nat
          /\ completed + wire + cq_ok + cq_err = sent /\ sent <= iterations /\ Running = {}
      BY <1>1, BenchFacts
    <2> QED
      BY <1>1, <2>1
  <1>3. iterations \in Iterations /\ depth \in BenchDepths /\ max_qdepth \in BenchDepths
    BY <1>1 DEF FInv, BenchInv, Windowed
  <1>4. PICK q \in NextDepths :
          /\ BeginWindow(q, iterations)
          /\ rq + Smaller(2 * q, iterations) <= RqSize => UNCHANGED <<bench, asked>>
    BY DEF NextPoint
  <1>5. q \in BenchDepths /\ q <= max_qdepth
    <2>1. depth \in Nat /\ max_qdepth \in Nat /\ depth..max_qdepth \subseteq BenchDepths
      BY <1>3, BenchAssumption
    <2> QED
      BY <2>1 DEF NextDepths
  <1>6. PICK n \in Iterations : n = iterations
    BY <1>3
  <1>7. /\ BeginWindow(q, n)
        /\ rq + Smaller(2 * q, n) <= RqSize =>
              /\ bench' \in {"streaming", "sweep"} /\ iterations' = n
              /\ max_qdepth' \in BenchDepths /\ q <= max_qdepth'
              /\ bench' = "streaming" => q = max_qdepth'
    BY <1>1, <1>3, <1>4, <1>5, <1>6 DEF asked
  <1>8. WeakInv
    BY DEF FInv, WeakInv
  <1> QED
    BY <1>1, <1>2, <1>5, <1>7, <1>8, BeginWindowStep

(* A step of a call under way is judged by the counters it moves.          *)
LEMMA CallStep ==
    ASSUME FInv, WeakInv', bench \in Calls, bench' = bench, UNCHANGED stream, BenchInv'
    PROVE  FInv'
  <1>1. Running = {}
    BY BenchFacts
  <1>2. QuietInv'
    BY DEF QuietInv, Calls
  <1> QED
    BY <1>1, <1>2, BenchKeeps

(* LOOPBACK and PINGPONG find both CQs empty and every counter at zero.    *)
LEMMA BeginPairedStep ==
    ASSUME WeakInv, WeakInv', Running = {}, NEW n \in Iterations, BeginPaired(n),
           wire = 0 /\ cq_ok = 0 /\ cq_err = 0 /\ cq_b = 0
    PROVE  FInv'
  <1>1. bench = "idle" /\ bench \notin Calls
    BY DEF BeginPaired, Calls
  <1>2. iterations = 0 /\ recv_posted = 0 /\ recv_drained = 0
    BY <1>1 DEF WeakInv, RestInv
  <1>3. {sent, completed} \subseteq 0..0
    BY <1>2 DEF WeakInv, BenchTypeOK
  <1>4. sent = 0 /\ completed = 0 /\ recv_drained = 0
    BY <1>2, <1>3
  <1>5. /\ bench' = "paired" /\ iterations' = n /\ depth' = 1 /\ found' = rq /\ max_qdepth' = max_qdepth
        /\ recv_posted' = 0 /\ sent' = 0 /\ completed' = 0 /\ recv_drained' = 0
        /\ wire' = 0 /\ cq_ok' = 0 /\ cq_err' = 0 /\ cq_b' = 0 /\ rq' = rq /\ qp_error' = qp_error
        /\ UNCHANGED <<flow, stream>>
    BY <1>2, <1>4 DEF BeginPaired, counters, nic
  <1>6. n \in Nat /\ 0 \in 0..n /\ rq \in 0..RqSize /\ rq \in Nat
    BY BenchAssumption, FlowAssumption DEF WeakInv, TypeOK
  <1>9. BenchInv'
    <2>1. /\ 0 + (0 + 0 + 0) = 0 /\ rq + 0 + 0 = rq + 0 /\ 0 <= 0 /\ 0 <= n /\ 0 + 0 + 0 + 0 = 0
      BY <1>6
    <2>2. Posted' = 0 + 0 + 0
      BY <1>5 DEF Posted
    <2>3. (/\ completed + Posted = sent /\ recv_drained + cq_b + wire + cq_err = sent
           /\ rq + completed + cq_ok = found + recv_posted
           /\ sent <= recv_posted /\ recv_posted <= iterations /\ recv_drained <= completed)'
      BY <1>5, <2>1, <2>2
    <2> QED
      BY <1>5, <2>3 DEF BenchInv, Windowed
  <1>10. QuietInv'
    BY <1>5 DEF QuietInv
  <1> QED
    BY <1>5, <1>9, <1>10, BenchKeeps

(* One receive, one send, then a completion of each.                       *)
LEMMA PairedStep ==
    ASSUME FInv, WeakInv', ~left', PairedRecv \/ PairedSend \/ PairedPollA \/ PairedPollB
    PROVE  FInv'
  <1>1. bench = "paired" /\ bench \in Calls
    BY DEF PairedRecv, PairedSend, PairedPollA, PairedPollB, Calls
  <1>2. /\ iterations \in Nat /\ found \in Nat
        /\ recv_posted \in Nat /\ sent \in Nat /\ completed \in Nat /\ recv_drained \in Nat
        /\ wire \in Nat /\ cq_ok \in Nat /\ cq_err \in Nat /\ cq_b \in Nat /\ rq \in Nat
        /\ rq <= RqSize /\ RqSize \in Nat
        /\ sent <= iterations /\ completed <= iterations /\ recv_drained <= iterations
        /\ completed + wire + cq_ok + cq_err = sent
        /\ recv_drained + cq_b + wire + cq_err = sent
        /\ rq + completed + cq_ok = found + recv_posted
        /\ sent <= recv_posted /\ recv_posted <= iterations /\ wire <= rq
    BY <1>1, BenchFacts
  <1>3. recv_drained <= completed
    BY <1>1 DEF FInv, BenchInv
  <1>4. CASE PairedRecv /\ rq = RqSize
    <2>1. Return /\ UNCHANGED stream /\ CallBreaksOff
      BY <1>4 DEF PairedRecv
    <2>2. wire' = 0 /\ cq_ok' = 0 /\ cq_err' = 0 /\ cq_b' = 0
      BY <2>1, NothingRemains DEF CallBreaksOff
    <2>3. Running = {}
      BY <1>1, BenchFacts
    <2> QED
      BY <2>1, <2>2, <2>3, ReturnStep
  <1>5. CASE ~(PairedRecv /\ rq = RqSize)
    <2>1. /\ UNCHANGED <<bench, depth, max_qdepth, iterations, found, flow, stream, qp_error>>
          /\ cq_err' = cq_err
      BY <1>5 DEF PairedRecv, PairedSend, PairedPollA, PairedPollB, asked
    <2>2. PICK rp \in Nat, se \in Nat, co \in Nat, rd \in Nat, w \in Nat, g \in Nat, b \in Nat, r \in Nat :
            /\ rp = recv_posted' /\ se = sent' /\ co = completed' /\ rd = recv_drained'
            /\ w = wire' /\ g = cq_ok' /\ b = cq_b' /\ r = rq'
            /\ se <= iterations /\ co <= iterations /\ rd <= iterations /\ r <= RqSize
            /\ co + (w + g + cq_err) = se /\ rd + b + w + cq_err = se
            /\ r + co + g = found + rp /\ se <= rp /\ rp <= iterations /\ rd <= co
      <3>1. CASE PairedRecv
        <4>1. rq # RqSize /\ recv_posted < iterations
          BY <1>5, <3>1 DEF PairedRecv
        <4>2. /\ recv_posted + 1 \in Nat /\ rq + 1 \in Nat /\ rq + 1 <= RqSize
              /\ (rq + 1) + completed + cq_ok = found + (recv_posted + 1)
              /\ sent <= recv_posted + 1 /\ recv_posted + 1 <= iterations
              /\ completed + (wire + cq_ok + cq_err) = sent
          BY <1>2, <4>1
        <4> QED
          BY <1>2, <1>3, <3>1, <4>1, <4>2 DEF PairedRecv
      <3>2. CASE PairedSend
        <4>1. sent < recv_posted
          BY <3>2 DEF PairedSend
        <4>2. /\ sent + 1 \in Nat /\ wire + 1 \in Nat /\ sent + 1 <= iterations
              /\ completed + ((wire + 1) + cq_ok + cq_err) = sent + 1
              /\ recv_drained + cq_b + (wire + 1) + cq_err = sent + 1
              /\ sent + 1 <= recv_posted
          BY <1>2, <4>1
        <4> QED
          BY <1>2, <1>3, <3>2, <4>2 DEF PairedSend
      <3>3. CASE PairedPollA
        <4>1. cq_ok > 0
          BY <3>3 DEF PairedPollA
        <4>2. /\ completed + 1 \in Nat /\ cq_ok - 1 \in Nat /\ completed + 1 <= iterations
              /\ (completed + 1) + (wire + (cq_ok - 1) + cq_err) = sent
              /\ rq + (completed + 1) + (cq_ok - 1) = found + recv_posted
              /\ recv_drained <= completed + 1
          BY <1>2, <1>3, <4>1
        <4> QED
          BY <1>2, <3>3, <4>2 DEF PairedPollA
      <3>4. CASE PairedPollB
        <4>1. recv_drained < completed /\ cq_b > 0
          BY <3>4 DEF PairedPollB
        <4>2. /\ recv_drained + 1 \in Nat /\ cq_b - 1 \in Nat /\ recv_drained + 1 <= completed
              /\ recv_drained + 1 <= iterations
              /\ (recv_drained + 1) + (cq_b - 1) + wire + cq_err = sent
              /\ completed + (wire + cq_ok + cq_err) = sent
          BY <1>2, <4>1
        <4> QED
          BY <1>2, <3>4, <4>2 DEF PairedPollB
      <3> QED
        BY <3>1, <3>2, <3>3, <3>4
    <2>6. BenchInv'
      <3>1. Posted' = w + g + cq_err
        BY <2>1, <2>2 DEF Posted
      <3>2. (/\ completed + Posted = sent /\ recv_drained + cq_b + wire + cq_err = sent
             /\ rq + completed + cq_ok = found + recv_posted
             /\ sent <= recv_posted /\ recv_posted <= iterations /\ recv_drained <= completed)'
        BY <2>1, <2>2, <3>1
      <3> QED
        BY <1>1, <2>1, <3>2 DEF FInv, BenchInv, Windowed
    <2> QED
      BY <1>1, <2>1, <2>6, CallStep
  <1> QED
    BY <1>4, <1>5

(* The window of a streaming run or of a point of the sweep.               *)
LEMMA WindowFacts ==
    ASSUME FInv, Windowed
    PROVE  /\ bench \in Calls /\ depth \in BenchDepths /\ depth \in Nat \ {0} /\ depth < WordMod
           /\ recv_posted = Smaller(iterations, PrePosted + completed)
           /\ PrePosted = Smaller(2 * depth, iterations) /\ PrePosted \in Nat
           /\ found + PrePosted <= RqSize /\ sent - completed <= depth
  <1>1. bench \in Calls
    BY DEF Windowed, Calls
  <1>2. /\ depth \in BenchDepths
        /\ recv_posted = Smaller(iterations, PrePosted + completed)
        /\ found + PrePosted <= RqSize /\ sent - completed <= depth
    BY <1>1 DEF FInv, BenchInv
  <1>3. depth \in Nat \ {0} /\ depth < WordMod
    BY <1>2, BenchAssumption
  <1>4. iterations \in Nat
    BY <1>1, BenchFacts
  <1>5. Smaller(2 * depth, iterations) \in Nat
    BY <1>3, <1>4 DEF Smaller
  <1> QED
    BY <1>1, <1>2, <1>3, <1>5 DEF PrePosted

(* The next state of a window keeps the invariant when its numbers do.     *)
LEMMA WindowKeeps ==
    ASSUME FInv, WeakInv', Windowed,
           UNCHANGED <<bench, depth, asked, found, flow, stream, cq_err, qp_error>>,
           NEW rp \in Nat, NEW se \in Nat, NEW co \in Nat, NEW rd \in Nat,
           NEW w \in Nat, NEW g \in Nat, NEW b \in Nat, NEW r \in Nat,
           rp = recv_posted', se = sent', co = completed', rd = recv_drained',
           w = wire', g = cq_ok', b = cq_b', r = rq',
           se <= iterations, co <= iterations, rd <= iterations, r <= RqSize,
           co + (w + g + cq_err) = se, rd + b + w + cq_err = se,
           r + co + g = found + rp, se <= rp, rp <= iterations,
           rp = Smaller(iterations, PrePosted + co), se - co <= depth
    PROVE  FInv'
  <1>1. bench \in Calls /\ bench # "paired"
    BY DEF Windowed, Calls
  <1>2. iterations \in Nat /\ RqSize \in Nat /\ cq_err \in Nat
    BY <1>1, BenchFacts
  <1>6. BenchInv'
    <2>1. Posted' = w + g + cq_err /\ PrePosted' = PrePosted
      BY DEF Posted, PrePosted, asked
    <2>2. (/\ completed + Posted = sent /\ recv_drained + cq_b + wire + cq_err = sent
           /\ rq + completed + cq_ok = found + recv_posted
           /\ sent <= recv_posted /\ recv_posted <= iterations)'
      BY <2>1 DEF asked
    <2>3. (/\ recv_posted = Smaller(iterations, PrePosted + completed)
           /\ found + PrePosted <= RqSize /\ sent - completed <= depth)'
      BY <2>1, WindowFacts DEF asked
    <2> QED
      BY <1>1, <2>2, <2>3 DEF FInv, BenchInv, Windowed, asked
  <1> QED
    BY <1>1, <1>6, CallStep

(* A send of a window: the difference of the counters has not wrapped, so  *)
(* fewer than depth are in flight, and depth receives are ahead of them.   *)
LEMMA WindowSendStep ==
    ASSUME FInv, WeakInv', WindowSend
    PROVE  FInv'
  <1>1. /\ Windowed /\ sent < iterations /\ (sent - completed) % WordMod < depth
        /\ UNCHANGED <<bench, depth, asked, found, flow, stream, cq_err, qp_error>>
        /\ recv_posted' = recv_posted /\ completed' = completed /\ recv_drained' = recv_drained
        /\ cq_ok' = cq_ok /\ cq_b' = cq_b /\ rq' = rq /\ wire' = wire + 1 /\ sent' = sent + 1
    BY DEF WindowSend, Sending, MaySend
  <1>2. /\ bench \in Calls /\ depth \in Nat \ {0} /\ depth < WordMod
        /\ recv_posted = Smaller(iterations, PrePosted + completed)
        /\ PrePosted = Smaller(2 * depth, iterations) /\ PrePosted \in Nat
        /\ sent - completed <= depth
    BY <1>1, WindowFacts
  <1>3. /\ iterations \in Nat
        /\ recv_posted \in Nat /\ sent \in Nat /\ completed \in Nat /\ recv_drained \in Nat
        /\ wire \in Nat /\ cq_ok \in Nat /\ cq_err \in Nat /\ cq_b \in Nat /\ rq \in Nat
        /\ rq <= RqSize
        /\ completed <= iterations /\ recv_drained <= iterations
        /\ completed + wire + cq_ok + cq_err = sent
        /\ recv_drained + cq_b + wire + cq_err = sent
        /\ rq + completed + cq_ok = found + recv_posted
        /\ recv_posted <= iterations
    BY <1>2, BenchFacts
  <1>4. PICK d \in Nat : d = sent - completed /\ d <= depth
    BY <1>2, <1>3
  <1>5. WordMod \in Nat \ {0} /\ d < WordMod
    BY <1>2, <1>4, FlowAssumption
  <1>6. d % WordMod = d
    BY <1>5, SmallMod
  <1>7. sent - completed < depth
    BY <1>1, <1>4, <1>6
  <1>8. sent + 1 <= recv_posted
    <2>1. sent + 1 <= PrePosted + completed
      <3>1. CASE 2 * depth <= iterations
        BY <1>2, <1>3, <1>7, <3>1 DEF Smaller
      <3>2. CASE ~(2 * depth <= iterations)
        BY <1>1, <1>2, <1>3, <3>2 DEF Smaller
      <3> QED
        BY <3>1, <3>2
    <2> QED
      BY <1>1, <1>2, <1>3, <2>1 DEF Smaller
  <1>9. /\ sent + 1 \in Nat /\ wire + 1 \in Nat /\ sent + 1 <= iterations
        /\ completed + ((wire + 1) + cq_ok + cq_err) = sent + 1
        /\ recv_drained + cq_b + (wire + 1) + cq_err = sent + 1
        /\ (sent + 1) - completed <= depth
    BY <1>1, <1>2, <1>3, <1>7
  <1> QED
    BY <1>1, <1>2, <1>3, <1>8, <1>9, WindowKeeps

(* A completion of a window: the receive it consumed left room for the one *)
(* that replaces it, so that QP-B never refuses it.                        *)
LEMMA WindowPollStep ==
    ASSUME FInv, WeakInv', StreamingPoll \/ SweepPoll
    PROVE  FInv'
  <1>1. Windowed /\ cq_ok > 0 /\ UNCHANGED <<flow, stream, wire, qp_error>>
    BY DEF StreamingPoll, SweepPoll, Polling
  <1>2. /\ bench \in Calls /\ depth \in Nat \ {0}
        /\ recv_posted = Smaller(iterations, PrePosted + completed)
        /\ PrePosted \in Nat /\ found + PrePosted <= RqSize
        /\ sent - completed <= depth
    BY <1>1, WindowFacts
  <1>3. /\ iterations \in Nat /\ found \in Nat
        /\ recv_posted \in Nat /\ sent \in Nat /\ completed \in Nat /\ recv_drained \in Nat
        /\ wire \in Nat /\ cq_ok \in Nat /\ cq_err \in Nat /\ cq_b \in Nat /\ rq \in Nat
        /\ rq <= RqSize /\ RqSize \in Nat
        /\ sent <= iterations /\ completed <= iterations
        /\ completed + wire + cq_ok + cq_err = sent
        /\ recv_drained + cq_b + wire + cq_err = sent
        /\ rq + completed + cq_ok = found + recv_posted
        /\ sent <= recv_posted /\ recv_posted <= iterations
    BY <1>2, BenchFacts
  <1>4. recv_posted < iterations => rq < RqSize
    <2>1. ASSUME recv_posted < iterations PROVE recv_posted = PrePosted + completed
      BY <1>2, <1>3, <2>1 DEF Smaller
    <2> QED
      BY <1>1, <1>2, <1>3, <2>1
  <1>5. PICK n \in {0, 1} : /\ n = (IF recv_posted < iterations THEN 1 ELSE 0)
                            /\ TakeCompletion(n)
    <2>1. rq < RqSize => rq # RqSize
      BY <1>3
    <2>2. CASE Replenish
      <3>1. rq < RqSize /\ rq # RqSize /\ recv_posted < iterations
        BY <1>4, <2>1, <2>2 DEF Replenish
      <3> QED
        BY <2>2, <3>1 DEF StreamingPoll, SweepPoll
    <2>3. CASE ~Replenish
      BY <2>3 DEF StreamingPoll, SweepPoll, Replenish
    <2> QED
      BY <2>2, <2>3
  <1>6. /\ cq_ok' = cq_ok - 1 /\ cq_b' = 0 /\ completed' = completed + 1
        /\ recv_drained' = recv_drained + cq_b
        /\ rq' = rq + n /\ recv_posted' = recv_posted + n /\ sent' = sent /\ wire' = wire
        /\ UNCHANGED <<bench, depth, asked, found, flow, stream, cq_err, qp_error>>
    BY <1>1, <1>5 DEF TakeCompletion
  <1>7. /\ cq_ok - 1 \in Nat /\ completed + 1 \in Nat /\ completed + 1 <= iterations
        /\ recv_drained + cq_b \in Nat /\ recv_drained + cq_b <= iterations
        /\ (completed + 1) + (wire + (cq_ok - 1) + cq_err) = sent
        /\ (recv_drained + cq_b) + 0 + wire + cq_err = sent
        /\ sent - (completed + 1) <= depth /\ 0 \in Nat
    BY <1>1, <1>2, <1>3
  <1>8. /\ rq + n \in Nat /\ recv_posted + n \in Nat /\ rq + n <= RqSize
        /\ (rq + n) + (completed + 1) + (cq_ok - 1) = found + (recv_posted + n)
        /\ sent <= recv_posted + n /\ recv_posted + n <= iterations
        /\ recv_posted + n = Smaller(iterations, PrePosted + (completed + 1))
    <2>1. CASE recv_posted < iterations
      <3>1. n = 1
        BY <1>5, <2>1
      <3>2. recv_posted = PrePosted + completed
        BY <1>2, <1>3, <2>1 DEF Smaller
      <3>3. rq < RqSize
        BY <1>4, <2>1
      <3>4. recv_posted + 1 = Smaller(iterations, PrePosted + (completed + 1))
        BY <1>2, <1>3, <2>1, <3>2 DEF Smaller
      <3> QED
        BY <1>3, <2>1, <3>1, <3>3, <3>4
    <2>2. CASE ~(recv_posted < iterations)
      <3>1. n = 0 /\ recv_posted = iterations
        BY <1>3, <1>5, <2>2
      <3>2. iterations <= PrePosted + completed
        BY <1>2, <1>3, <3>1 DEF Smaller
      <3>3. recv_posted = Smaller(iterations, PrePosted + (completed + 1))
        BY <1>2, <1>3, <3>1, <3>2 DEF Smaller
      <3> QED
        BY <1>3, <3>1, <3>3
    <2> QED
      BY <2>1, <2>2
  <1> QED
    BY <1>1, <1>3, <1>6, <1>7, <1>8, WindowKeeps

(* A benchmark that fails and leaves nothing behind, or ends after its     *)
(* last completion.                                                        *)
LEMMA LeaveStep ==
    ASSUME FInv, WeakInv', ~left', PairedFails \/ PairedEnds \/ WindowFails \/ WindowEnds
    PROVE  FInv'
  <1>1. bench \in Calls
    BY DEF PairedFails, PairedEnds, WindowFails, WindowEnds, Sending, Polling, Windowed, Calls
  <1>2. /\ iterations \in Nat /\ sent \in Nat /\ completed \in Nat /\ recv_drained \in Nat
        /\ wire \in Nat /\ cq_ok \in Nat /\ cq_err \in Nat /\ cq_b \in Nat
        /\ sent <= iterations
        /\ completed + wire + cq_ok + cq_err = sent
        /\ recv_drained + cq_b + wire + cq_err = sent
        /\ Running = {}
    BY <1>1, BenchFacts
  <1>3. Return /\ UNCHANGED stream
    BY DEF PairedFails, PairedEnds, WindowFails, WindowEnds
  <1>4. CASE PairedFails \/ WindowFails
    BY <1>2, <1>3, <1>4, NothingRemains, ReturnStep DEF PairedFails, WindowFails, CallBreaksOff
  <1>5. CASE PairedEnds
    <2>1. recv_drained = iterations /\ UNCHANGED nic
      BY <1>5 DEF PairedEnds
    <2>2. recv_drained <= completed
      BY <1>1, <1>5 DEF FInv, BenchInv, PairedEnds
    <2>3. wire = 0 /\ cq_ok = 0 /\ cq_err = 0 /\ cq_b = 0
      BY <1>2, <2>1, <2>2
    <2> QED
      BY <1>2, <1>3, <2>1, <2>3, ReturnStep DEF nic
  <1>6. CASE WindowEnds
    <2>1. /\ completed = iterations /\ wire' = wire /\ cq_ok' = 0 /\ cq_err' = 0 /\ cq_b' = 0
      BY <1>6 DEF WindowEnds, FlushCqs
    <2>2. wire = 0
      BY <1>2, <2>1
    <2> QED
      BY <1>2, <1>3, <2>1, <2>2, ReturnStep
  <1> QED
    BY <1>4, <1>5, <1>6

(* New CQs and QPs are empty.                                              *)
LEMMA ReconnectStep ==
    ASSUME WeakInv', Reconnect, bench = "idle", UNCHANGED benchvars
    PROVE  FInv'
  <1>1. /\ Running = {} /\ UNCHANGED stream
        /\ wire' = 0 /\ cq_ok' = 0 /\ cq_err' = 0 /\ cq_b' = 0
    BY DEF Reconnect
  <1>2. QuietInv' /\ BenchInv'
    BY <1>1 DEF QuietInv, BenchInv, benchvars, Calls
  <1> QED
    BY <1>1, <1>2, BenchKeeps

-----------------------------------------------------------------------------
\* The theorems

(* Before the first call nothing is configured, posted or counted.         *)
LEMMA InitPairInv == PairInit => PairInv
  <1> SUFFICES ASSUME PairInit PROVE PairInv
    OBVIOUS
  <1>1. 0 \in 0..0 /\ 0 \in 0..CreditCap /\ 0 \in 0..RqSize /\ 0 \in 0..WordMod-1 /\ 0 \in Int
    BY FlowAssumption
  <1>2. TypeOK
    BY <1>1 DEF PairInit, Init, TypeOK
  <1>3. BenchTypeOK
    BY <1>1 DEF PairInit, BenchInit, BenchTypeOK
  <1>4. /\ WindowInv /\ StreamsInv /\ QuietInv /\ AloneInv /\ BenchInv /\ RestInv /\ CallInv
    BY DEF PairInit, Init, BenchInit, WindowInv, StreamsInv, QuietInv, AloneInv, BenchInv,
           RestInv, CallInv, Windowed, Calls
  <1> QED
    BY <1>2, <1>3, <1>4 DEF PairInv, WeakInv, FInv

(* The invariant is about the state only.                                  *)
LEMMA StutterFInv == FInv /\ WeakInv' /\ UNCHANGED pairvars => FInv'
  <1> SUFFICES ASSUME FInv, WeakInv', UNCHANGED pairvars PROVE FInv'
    OBVIOUS
  <1>1. UNCHANGED <<credits, max_credits, high_watermark, low_watermark, configured, paused>>
    BY DEF pairvars, vars
  <1>2. UNCHANGED <<pc, qdepth, outstanding, ahead>>
    BY DEF pairvars, vars
  <1>3. UNCHANGED <<wire, cq_ok, cq_err, cq_b, rq, qp_error>>
    BY DEF pairvars, vars
  <1>4. UNCHANGED <<bench, depth, max_qdepth, iterations, recv_posted, sent, completed,
                    recv_drained, found>>
    BY DEF pairvars, benchvars, asked, counters
  <1>5. StreamsInv'
    BY <1>1, <1>2, <1>3 DEF FInv, StreamsInv, StreamInv, Posted
  <1>6. QuietInv'
    BY <1>2, <1>3, <1>4 DEF FInv, QuietInv, Running
  <1>7. BenchInv'
    BY <1>3, <1>4 DEF FInv, BenchInv, Windowed, PrePosted, Posted
  <1> QED
    BY <1>5, <1>6, <1>7 DEF WeakInv, FInv

(* A call that begins clean finds the wire empty, or leaves it so with its *)
(* flush; so does one that comes after calls that left nothing.            *)
LEMMA CleanBegin ==
    ASSUME PairInv, WeakInv', CallBegins, ~left', bench = "idle", Running = {}
    PROVE  \/ wire = 0 /\ cq_ok = 0 /\ cq_err = 0 /\ cq_b = 0
           \/ wire' = 0 /\ cq_ok' = 0 /\ cq_err' = 0 /\ cq_b' = 0
  <1>1. CASE left
    BY <1>1, NothingRemains DEF CallBegins
  <1>2. CASE ~left
    BY <1>2 DEF PairInv, FInv, QuietInv
  <1> QED
    BY <1>1, <1>2

(* Every step of a stream beside no benchmark.                             *)
LEMMA StreamStep ==
    ASSUME OneStream, PairInv, WeakInv', ~left', bench = "idle", StreamNext
    PROVE  FInv'
  <1>1. CASE \E c \in Configs : Configure(c) /\ UNCHANGED <<benchvars, left>>
    BY <1>1, ConfigureStep DEF PairInv
  <1>2. ASSUME NEW s \in Streams, NEW q \in QDepths, StreamBegins(s, q) PROVE FInv'
    <2>1. Running = {} /\ wire' = wire
      BY <1>2 DEF StreamBegins, Start, OneStream, Running
    <2>2. wire = 0
      BY <1>2, <2>1, CleanBegin DEF StreamBegins
    <2> QED
      BY <1>2, <2>2, StartStep DEF StreamBegins, PairInv
  <1>3. ASSUME NEW s \in Streams, DrainEnd(s), CallBreaksOff, UNCHANGED benchvars PROVE FInv'
    <2>1. ~left
      BY <1>3 DEF CallBreaksOff
    <2> QED
      BY <1>3, <2>1, DrainEndStep DEF PairInv
  <1>4. ASSUME NEW s \in Streams, Loop(s) \/ LeavesLoop(s), UNCHANGED <<benchvars, left>>
        PROVE  FInv'
    <2>1. FInv /\ UNCHANGED benchvars
      BY <1>4 DEF PairInv
    <2>2. CASE Deadline(s) \/ Check(s) \/ Stall(s) \/ SendFails(s) \/ PollNothing(s) \/ PollFails(s)
      BY <2>1, <2>2, MoveStep
    <2>3. CASE Send(s)
      BY <2>1, <2>3, SendStep
    <2>4. CASE PollSuccess(s)
      BY <2>1, <2>4, PollSuccessStep
    <2>5. CASE PollError(s) \/ DrainB(s)
      BY <2>1, <2>5, CqStep
    <2>6. CASE DrainPoll(s)
      BY <2>1, <2>6, DrainPollStep
    <2> QED
      BY <1>4, <2>2, <2>3, <2>4, <2>5, <2>6 DEF Loop, LeavesLoop
  <1> QED
    BY <1>1, <1>2, <1>3, <1>4 DEF StreamNext, StreamLoop

(* Every step of a benchmark.                                              *)
LEMMA BenchStep ==
    ASSUME PairInv, WeakInv', ~left', BenchNext
    PROVE  FInv'
  <1>1. ASSUME Running = {}, NEW n \in Iterations, BeginPaired(n) PROVE FInv'
    <2>1. wire = 0 /\ cq_ok = 0 /\ cq_err = 0 /\ cq_b = 0
      BY <1>1, CleanBegin DEF BeginPaired, nic
    <2> QED
      BY <1>1, <2>1, BeginPairedStep DEF PairInv
  <1>2. ASSUME Running = {}, NEW n \in Iterations, NEW q \in BenchDepths, NEW m \in BenchDepths,
               BeginStreaming(q, n) \/ BeginSweep(q, m, n)
        PROVE  FInv'
    <2>1. bench = "idle" /\ wire' = wire /\ CallBegins
      BY <1>2 DEF BeginStreaming, BeginSweep
    <2>2. wire = 0
      BY <1>2, <2>1, CleanBegin
    <2> QED
      BY <1>2, <2>2, BeginsStep DEF PairInv
  <1>3. CASE BenchLoop
    <2>1. ~left
      BY <1>3 DEF BenchLoop, CallBreaksOff, PairedRecv, PairedSend, PairedPollA, PairedPollB,
         PairedFails, PairedEnds, WindowSend, StreamingPoll, SweepPoll, TakeCompletion,
         WindowFails, NextPoint, WindowEnds
    <2>2. FInv
      BY <2>1 DEF PairInv
    <2> QED
      BY <1>3, <2>2, PairedStep, LeaveStep, WindowSendStep, WindowPollStep, NextPointStep
      DEF BenchLoop
  <1> QED
    BY <1>1, <1>2, <1>3 DEF BenchNext

(* Every step of a stream, of a benchmark and of the NIC preserves it.     *)
LEMMA StepPairInv == OneStream /\ PairInv /\ [PairNext]_pairvars => PairInv'
  <1> SUFFICES ASSUME OneStream, PairInv, [PairNext]_pairvars PROVE PairInv'
    OBVIOUS
  <1>1. WeakInv'
    BY WeakStep DEF PairInv
  <1>2. SUFFICES ASSUME ~left' PROVE FInv'
    BY <1>1 DEF PairInv
  <1>3. CASE bench = "idle" /\ StreamNext
    BY <1>1, <1>2, <1>3, StreamStep
  <1>4. CASE Nic /\ UNCHANGED <<benchvars, left>>
    BY <1>1, <1>2, <1>4, NicStep DEF PairInv
  <1>5. CASE bench = "idle" /\ Reconnect /\ left' = FALSE /\ UNCHANGED benchvars
    BY <1>1, <1>5, ReconnectStep
  <1>6. CASE BenchNext
    BY <1>1, <1>2, <1>6, BenchStep
  <1>7. CASE UNCHANGED pairvars
    BY <1>1, <1>2, <1>7, StutterFInv DEF PairInv, pairvars
  <1> QED
    BY <1>3, <1>4, <1>5, <1>6, <1>7 DEF PairNext

(* The invariant of the queue pair under a single stream at a time and any *)
(* sequence of calls, failures, timeouts and reconnections.                *)
THEOREM FlowInvariant == OneStream => (PairSpec => []PairInv)
  <1> SUFFICES ASSUME OneStream PROVE PairSpec => []PairInv
    OBVIOUS
  <1>1. PairInv /\ [PairNext]_pairvars => PairInv'
    BY StepPairInv
  <1> QED
    BY <1>1, InitPairInv, PTL DEF PairSpec

(* A stream's credits are exactly what is not in flight, and what is in    *)
(* flight never exceeds the high watermark, the queue depth or the CQs     *)
(* (flow_on_send, flow_on_completion, dmaplane_flow_can_send).             *)
THEOREM CreditsAreExact == OneStream => (PairSpec => []CreditsSafe)
  <1> SUFFICES ASSUME OneStream PROVE PairSpec => []CreditsSafe
    OBVIOUS
  <1>1. PairInv => CreditsSafe
    <2> SUFFICES ASSUME PairInv PROVE ~left => InFlightWithinCredits /\ CreditsExact
      BY DEF PairInv, WeakInv, CreditsSafe
    <2> SUFFICES ASSUME FInv PROVE InFlightWithinCredits /\ CreditsExact
      BY DEF PairInv
    <2>1. ASSUME NEW s \in Streams, pc[s] # "idle"
          PROVE  /\ credits \in 0..max_credits
                 /\ Posted <= Smaller(qdepth[s], Larger(1, high_watermark)) /\ cq_b <= max_credits
      <3>1. StreamInv(s)
        BY <2>1, StreamFacts
      <3>2. /\ wire \in Nat /\ cq_ok \in Nat /\ cq_err \in Nat /\ cq_b \in Nat
            /\ outstanding[s] \in Nat /\ qdepth[s] \in Nat /\ high_watermark \in Nat
            /\ max_credits \in Nat /\ credits \in 0..max_credits
        BY <2>1, StreamFacts
      <3>3. PICK p \in Nat : p = Posted
        BY <3>2 DEF Posted
      <3>4. /\ p <= outstanding[s] /\ outstanding[s] <= qdepth[s]
            /\ outstanding[s] <= high_watermark /\ cq_b + wire <= max_credits
        BY <3>1, <3>3 DEF StreamInv
      <3>5. p <= Smaller(qdepth[s], Larger(1, high_watermark)) /\ cq_b <= max_credits
        BY <3>2, <3>4 DEF Smaller, Larger
      <3> QED
        BY <3>2, <3>3, <3>5
    <2>2. InFlightWithinCredits
      BY <2>1 DEF InFlightWithinCredits
    <2>3. CreditsExact
      <3> SUFFICES ASSUME NEW s \in Streams, pc[s] \notin {"idle", "drain"}
                   PROVE  credits + outstanding[s] = max_credits /\ outstanding[s] = Posted
        BY DEF CreditsExact
      <3>1. StreamInv(s)
        BY StreamFacts
      <3> QED
        BY <3>1 DEF StreamInv
    <2> QED
      BY <2>2, <2>3
  <1>2. PairSpec => []PairInv
    BY FlowInvariant
  <1> QED
    BY <1>1, <1>2, PTL

(* Every send on the wire of a healthy QP finds a receive, whoever posted  *)
(* it (the replenishment rules of the stream and of the benchmarks).       *)
THEOREM SendsFindReceives == OneStream => (PairSpec => []ReceiveIsPosted)
  <1> SUFFICES ASSUME OneStream PROVE PairSpec => []ReceiveIsPosted
    OBVIOUS
  <1>1. PairInv => ReceiveIsPosted
    <2> SUFFICES ASSUME FInv PROVE wire <= rq
      BY DEF PairInv, ReceiveIsPosted
    <2>1. CASE bench \in Calls
      BY <2>1, BenchFacts
    <2>3. CASE bench = "idle" /\ Running = {}
      <3>1. wire = 0 /\ rq \in 0..RqSize /\ RqSize \in Nat
        BY <2>3, FlowAssumption DEF FInv, QuietInv, TypeOK
      <3> QED
        BY <3>1
    <2>4. CASE bench = "idle" /\ Running # {}
      <3>1. PICK s \in Streams : pc[s] # "idle"
        BY <2>4 DEF Running
      <3>2. ahead[s] \in Nat /\ wire \in Nat /\ rq \in Nat
        BY <3>1, StreamFacts
      <3>3. ahead[s] + wire <= rq
        BY <3>1, StreamFacts DEF StreamInv
      <3> QED
        BY <3>2, <3>3
    <2>5. bench \in Calls \cup {"idle"}
      BY DEF FInv, BenchTypeOK
    <2> QED
      BY <2>1, <2>3, <2>4, <2>5
  <1>2. PairSpec => []PairInv
    BY FlowInvariant
  <1> QED
    BY <1>1, <1>2, PTL

(* A benchmark never counts more completions than it asked for, and counts *)
(* its own, each once, unless an earlier call left work behind (benchmark.c *)
(* polls CQs that it shares with every other call).                        *)
THEOREM BenchCountsItsOwn == OneStream => (PairSpec => []BenchSafe)
  <1> SUFFICES ASSUME OneStream PROVE PairSpec => []BenchSafe
    OBVIOUS
  <1>1. PairInv => BenchSafe
    BY DEF PairInv, WeakInv, FInv, BenchSafe, BenchInv, CompletionsAreOwn
  <1>2. PairSpec => []PairInv
    BY FlowInvariant
  <1> QED
    BY <1>1, <1>2, PTL

(* A benchmark that counted its last completion has left on QP-B exactly   *)
(* the receives it found there.                                            *)
THEOREM BenchLeavesNoReceive == OneStream => (PairSpec => []NoReceiveLeft)
  <1> SUFFICES ASSUME OneStream PROVE PairSpec => []NoReceiveLeft
    OBVIOUS
  <1>1. PairInv => NoReceiveLeft
    <2> SUFFICES ASSUME FInv, bench \in Calls, recv_drained = iterations
                 PROVE  sent = iterations /\ wire = 0 /\ rq = found
      BY DEF PairInv, NoReceiveLeft
    <2>1. /\ iterations \in Nat /\ found \in Nat
          /\ recv_posted \in Nat /\ sent \in Nat /\ completed \in Nat
          /\ wire \in Nat /\ cq_ok \in Nat /\ cq_err \in Nat /\ cq_b \in Nat /\ rq \in Nat
          /\ sent <= iterations
          /\ completed + wire + cq_ok + cq_err = sent
          /\ recv_drained + cq_b + wire + cq_err = sent
          /\ rq + completed + cq_ok = found + recv_posted
          /\ sent <= recv_posted /\ recv_posted <= iterations
      BY BenchFacts
    <2> QED
      BY <2>1
  <1>2. PairSpec => []PairInv
    BY FlowInvariant
  <1> QED
    BY <1>1, <1>2, PTL

-----------------------------------------------------------------------------
\* The latency histogram the benchmarks and the streams record in

-----------------------------------------------------------------------------
\* Sums

(* A set of natural numbers that is not empty has a smallest member.       *)
LEMMA SmallestNat ==
    ASSUME NEW T, T \subseteq Nat, T # {}
    PROVE  \E x \in T : \A y \in T : x <= y
  <1> DEFINE R == OpToRel(<, Nat)
  <1>1. IsWellFoundedOn(R, Nat)
    BY NatLessThanWellFounded
  <1>2. \A x, y \in Nat : <<y, x>> \in R <=> y < x
    BY DEF OpToRel
  <1> HIDE DEF R
  <1>3. PICK x \in T : \A y \in T : ~(<<y, x>> \in R)
    BY <1>1, WFMin
  <1>4. \A y \in T : ~(y < x)
    BY <1>2, <1>3
  <1>5. \A y \in T : x <= y
    BY <1>4
  <1> QED
    BY <1>5

(* Induction on finite sets: if F has every subset of S whose proper       *)
(* subsets it has, then it has them all.                                   *)
LEMMA SubsetInduction ==
    ASSUME NEW S, IsFiniteSet(S), NEW F,
           \A T \in SUBSET S : (\A U \in SUBSET T : U # T => U \in F) => T \in F
    PROVE  \A T \in SUBSET S : T \in F
  <1> SUFFICES ASSUME NEW T0 \in SUBSET S, T0 \notin F PROVE FALSE
    OBVIOUS
  <1> DEFINE Bad == {T \in SUBSET S : T \notin F}
             N == {Cardinality(T) : T \in Bad}
  <1>1. \A T \in SUBSET S : IsFiniteSet(T) /\ Cardinality(T) \in Nat
    BY FS_Subset, FS_CardinalityType
  <1>2. N \subseteq Nat /\ N # {}
    BY <1>1
  <1>3. PICK n \in N : \A m \in N : n <= m
    BY <1>2, SmallestNat
  <1>4. PICK T \in Bad : n = Cardinality(T)
    BY <1>3
  <1>5. ASSUME NEW U \in SUBSET T, U # T PROVE U \in F
    <2>1. Cardinality(U) <= Cardinality(T) /\ Cardinality(U) # Cardinality(T)
      BY <1>1, <1>4, <1>5, FS_Subset
    <2>2. U \in SUBSET S /\ ~(n <= Cardinality(U))
      BY <1>1, <1>4, <2>1
    <2> QED
      BY <1>3, <2>2
  <1> QED
    BY <1>4, <1>5

(* The sum of the community modules, which adds in an order of its own.    *)
Sum(f, S) == SumFunctionOnSet(f, S)

AnyOf(s) == CHOOSE x \in s : TRUE

SumRec(f, S, g) ==
    [s \in SUBSET S |-> IF s = {} THEN 0 ELSE f[AnyOf(s)] + g[s \ {AnyOf(s)}]]

(* A sum is the value of the function its definition describes.            *)
LEMMA SumIs ==
    ASSUME NEW f, NEW S
    PROVE  Sum(f, S) = (CHOOSE g : g = SumRec(f, S, g))[S]
  BY DEF Sum, SumFunctionOnSet, FoldFunctionOnSet, MapThenFoldSet, SumRec, AnyOf

(* Two such functions agree where both are defined.                        *)
LEMMA SumUnique ==
    ASSUME NEW f, NEW S, IsFiniteSet(S), NEW T \in SUBSET S,
           NEW g, g = SumRec(f, S, g), NEW h, h = SumRec(f, T, h)
    PROVE  \A U \in SUBSET T : g[U] = h[U]
  <1> DEFINE F == {U \in SUBSET T : g[U] = h[U]}
  <1>1. IsFiniteSet(T)
    BY FS_Subset
  <1>2. ASSUME NEW U \in SUBSET T, \A W \in SUBSET U : W # U => W \in F
        PROVE  U \in F
    <2>1. CASE U = {}
      <3>1. g[U] = 0 /\ h[U] = 0
        BY <2>1 DEF SumRec
      <3> QED
        BY <3>1
    <2>2. CASE U # {}
      <3>1. PICK x \in U : x = AnyOf(U)
        BY <2>2 DEF AnyOf
      <3>2. g[U \ {x}] = h[U \ {x}]
        BY <1>2
      <3>3. g[U] = f[x] + g[U \ {x}]
        BY <2>2, <3>1 DEF SumRec
      <3>4. h[U] = f[x] + h[U \ {x}]
        BY <2>2, <3>1 DEF SumRec
      <3> QED
        BY <3>2, <3>3, <3>4
    <2> QED
      BY <2>1, <2>2
  <1> HIDE DEF F
  <1>3. \A U \in SUBSET T : U \in F
    BY <1>1, <1>2, SubsetInduction
  <1> QED
    BY <1>3 DEF F

(* One step of the sum, of sets for which the functions exist.             *)
LEMMA SumUnfold ==
    ASSUME NEW f, NEW S, IsFiniteSet(S), S # {},
           NEW x \in S, x = AnyOf(S),
           \E g : g = SumRec(f, S, g), \E g : g = SumRec(f, S \ {x}, g)
    PROVE  Sum(f, S) = f[x] + Sum(f, S \ {x})
  <1>1. PICK g : g = SumRec(f, S, g) /\ Sum(f, S) = g[S]
    BY SumIs
  <1>2. PICK h : h = SumRec(f, S \ {x}, h) /\ Sum(f, S \ {x}) = h[S \ {x}]
    BY SumIs
  <1>3. g[S \ {x}] = h[S \ {x}]
    BY <1>1, <1>2, SumUnique
  <1>4. g[S] = f[x] + g[S \ {x}]
    BY <1>1 DEF SumRec
  <1> QED
    BY <1>1, <1>2, <1>3, <1>4

(* They exist for every finite set.                                        *)
LEMMA SumExists ==
    ASSUME NEW f, NEW S, IsFiniteSet(S)
    PROVE  \E g : g = SumRec(f, S, g)
  <1> DEFINE F == {T \in SUBSET S : \E g : g = SumRec(f, T, g)}
  <1>1. ASSUME NEW T \in SUBSET S, \A U \in SUBSET T : U # T => U \in F
        PROVE  T \in F
    <2> DEFINE h == [s \in SUBSET T |->
                       IF s = {} THEN 0 ELSE f[AnyOf(s)] + Sum(f, s \ {AnyOf(s)})]
    <2>1. ASSUME NEW s \in SUBSET T, s # {}
          PROVE  Sum(f, s \ {AnyOf(s)}) = h[s \ {AnyOf(s)}]
      <3>1. PICK x \in s : x = AnyOf(s)
        BY <2>1 DEF AnyOf
      <3>2. PICK w \in SUBSET T : w = s \ {x} /\ w # T
        <4>1. s \ {x} \in SUBSET T /\ x \in T /\ x \notin s \ {x}
          BY <3>1
        <4>2. s \ {x} # T
          BY <4>1
        <4> QED
          BY <4>1, <4>2
      <3>3. IsFiniteSet(w)
        BY <3>2, FS_Subset
      <3>4. CASE w = {}
        <4>1. PICK g : g = SumRec(f, w, g) /\ Sum(f, w) = g[w]
          BY <1>1, <3>2, SumIs
        <4>2. Sum(f, w) = 0
          BY <3>4, <4>1 DEF SumRec
        <4> QED
          BY <3>1, <3>2, <3>4, <4>2
      <3>5. CASE w # {}
        <4>1. PICK y \in w : y = AnyOf(w)
          BY <3>5 DEF AnyOf
        <4>2. w \ {y} \in SUBSET T /\ w \ {y} # T
          BY <3>2
        <4>3. (\E g : g = SumRec(f, w, g)) /\ (\E g : g = SumRec(f, w \ {y}, g))
          BY <1>1, <3>2, <4>2
        <4>4. Sum(f, w) = f[y] + Sum(f, w \ {y})
          BY <3>3, <3>5, <4>1, <4>3, SumUnfold
        <4> QED
          BY <3>1, <3>2, <3>5, <4>1, <4>4
      <3> QED
        BY <3>4, <3>5
    <2>2. h = SumRec(f, T, h)
      BY <2>1 DEF SumRec
    <2> QED
      BY <2>2
  <1> HIDE DEF F
  <1>2. S \in F
    BY <1>1, SubsetInduction
  <1> QED
    BY <1>2 DEF F

(* The sum of nothing.                                                     *)
LEMMA SumEmpty ==
    ASSUME NEW f
    PROVE  Sum(f, {}) = 0
  <1>1. PICK g : g = SumRec(f, {}, g) /\ Sum(f, {}) = g[{}]
    BY SumExists, SumIs, FS_EmptySet
  <1> QED
    BY <1>1 DEF SumRec

(* A step of the sum, and the member it takes.                             *)
LEMMA SumStep ==
    ASSUME NEW f, NEW S, IsFiniteSet(S), S # {}
    PROVE  /\ AnyOf(S) \in S
           /\ Sum(f, S) = f[AnyOf(S)] + Sum(f, S \ {AnyOf(S)})
  <1>1. PICK x \in S : x = AnyOf(S)
    BY DEF AnyOf
  <1>2. IsFiniteSet(S \ {x})
    BY FS_RemoveElement
  <1>3. Sum(f, S) = f[x] + Sum(f, S \ {x})
    BY <1>1, <1>2, SumExists, SumUnfold
  <1> QED
    BY <1>1, <1>3

(* A sum of natural numbers is one.                                        *)
LEMMA SumNat ==
    ASSUME NEW f, NEW S, IsFiniteSet(S), \A x \in S : f[x] \in Nat
    PROVE  Sum(f, S) \in Nat
  <1> DEFINE F == {T \in SUBSET S : Sum(f, T) \in Nat}
  <1>1. ASSUME NEW T \in SUBSET S, \A U \in SUBSET T : U # T => U \in F
        PROVE  T \in F
    <2>1. CASE T = {}
      BY <2>1, SumEmpty
    <2>2. CASE T # {}
      <3>1. IsFiniteSet(T)
        BY FS_Subset
      <3>2. PICK x \in T : Sum(f, T) = f[x] + Sum(f, T \ {x})
        BY <2>2, <3>1, SumStep
      <3>3. T \ {x} \in F
        BY <1>1
      <3> QED
        BY <3>2, <3>3
    <2> QED
      BY <2>1, <2>2
  <1> HIDE DEF F
  <1>2. S \in F
    BY <1>1, SubsetInduction
  <1> QED
    BY <1>2 DEF F

(* Any member may be taken out first.                                      *)
LEMMA SumRemove ==
    ASSUME NEW f, NEW S, IsFiniteSet(S), \A x \in S : f[x] \in Nat, NEW d \in S
    PROVE  Sum(f, S) = f[d] + Sum(f, S \ {d})
  <1> DEFINE F == {T \in SUBSET S : \A x \in T : Sum(f, T) = f[x] + Sum(f, T \ {x})}
  <1>1. ASSUME NEW T \in SUBSET S, \A U \in SUBSET T : U # T => U \in F,
               NEW x \in T
        PROVE  Sum(f, T) = f[x] + Sum(f, T \ {x})
    <2>1. IsFiniteSet(T)
      BY FS_Subset
    <2>2. PICK y \in T : Sum(f, T) = f[y] + Sum(f, T \ {y})
      BY <2>1, SumStep
    <2>3. CASE x = y
      BY <2>2, <2>3
    <2>4. CASE x # y
      <3>1. T \ {x} \in F /\ T \ {y} \in F
        BY <1>1
      <3>2. Sum(f, T \ {y}) = f[x] + Sum(f, (T \ {y}) \ {x})
        BY <2>4, <3>1
      <3>3. Sum(f, T \ {x}) = f[y] + Sum(f, (T \ {x}) \ {y})
        BY <2>4, <3>1
      <3>4. PICK W \in SUBSET S : W = (T \ {y}) \ {x} /\ W = (T \ {x}) \ {y}
        OBVIOUS
      <3>5. Sum(f, W) \in Nat /\ f[x] \in Nat /\ f[y] \in Nat
        BY FS_Subset, SumNat
      <3>6. Sum(f, T) = f[y] + (f[x] + Sum(f, W)) /\ Sum(f, T \ {x}) = f[y] + Sum(f, W)
        BY <2>2, <3>2, <3>3, <3>4
      <3> QED
        BY <3>5, <3>6
    <2> QED
      BY <2>3, <2>4
  <1>2. ASSUME NEW T \in SUBSET S, \A U \in SUBSET T : U # T => U \in F
        PROVE  T \in F
    BY <1>1, <1>2
  <1> HIDE DEF F
  <1>3. S \in F
    BY <1>2, SubsetInduction
  <1> QED
    BY <1>3 DEF F

(* A sum depends on the values at the members only.                        *)
LEMMA SumSame ==
    ASSUME NEW f, NEW g, NEW S, IsFiniteSet(S), \A x \in S : f[x] = g[x]
    PROVE  Sum(f, S) = Sum(g, S)
  <1> DEFINE F == {T \in SUBSET S : Sum(f, T) = Sum(g, T)}
  <1>1. ASSUME NEW T \in SUBSET S, \A U \in SUBSET T : U # T => U \in F
        PROVE  T \in F
    <2>1. CASE T = {}
      BY <2>1, SumEmpty
    <2>2. CASE T # {}
      <3>1. IsFiniteSet(T)
        BY FS_Subset
      <3>2. PICK x \in T : x = AnyOf(T)
        BY <2>2, <3>1, SumStep
      <3>3. Sum(f, T) = f[x] + Sum(f, T \ {x}) /\ Sum(g, T) = g[x] + Sum(g, T \ {x})
        BY <2>2, <3>1, <3>2, SumStep
      <3>4. T \ {x} \in F
        BY <1>1
      <3> QED
        BY <3>3, <3>4
    <2> QED
      BY <2>1, <2>2
  <1> HIDE DEF F
  <1>2. S \in F
    BY <1>1, SubsetInduction
  <1> QED
    BY <1>2 DEF F


(* A part adds up to no more than the whole.                               *)
LEMMA SumPart ==
    ASSUME NEW f, NEW S, IsFiniteSet(S), \A x \in S : f[x] \in Nat, NEW P \in SUBSET S
    PROVE  Sum(f, P) <= Sum(f, S)
  <1> DEFINE F == {T \in SUBSET S : P \subseteq T => Sum(f, P) <= Sum(f, T)}
  <1>1. ASSUME NEW T \in SUBSET S, \A U \in SUBSET T : U # T => U \in F, P \subseteq T
        PROVE  Sum(f, P) <= Sum(f, T)
    <2>1. IsFiniteSet(T) /\ IsFiniteSet(P)
      BY FS_Subset
    <2>2. Sum(f, P) \in Nat /\ Sum(f, T) \in Nat
      BY <2>1, SumNat
    <2>3. CASE P = T
      BY <2>2, <2>3
    <2>4. CASE P # T
      <3>1. PICK x \in T : x \notin P
        BY <1>1, <2>4
      <3>2. T \ {x} \in F /\ P \subseteq T \ {x}
        BY <1>1, <3>1
      <3>3. Sum(f, T) = f[x] + Sum(f, T \ {x}) /\ f[x] \in Nat
        BY <2>1, SumRemove
      <3>4. Sum(f, T \ {x}) \in Nat /\ Sum(f, P) <= Sum(f, T \ {x})
        BY <2>1, <3>2, FS_RemoveElement, SumNat
      <3> QED
        BY <2>2, <3>3, <3>4
    <2> QED
      BY <2>3, <2>4
  <1>2. ASSUME NEW T \in SUBSET S, \A U \in SUBSET T : U # T => U \in F
        PROVE  T \in F
    BY <1>1, <1>2
  <1> HIDE DEF F
  <1>3. S \in F
    BY <1>2, SubsetInduction
  <1> QED
    BY <1>3 DEF F

(* Nor does a member.                                                      *)
LEMMA SumMember ==
    ASSUME NEW f, NEW S, IsFiniteSet(S), \A x \in S : f[x] \in Nat, NEW d \in S
    PROVE  f[d] <= Sum(f, S)
  <1>1. Sum(f, S \ {d}) \in Nat
    BY FS_RemoveElement, SumNat
  <1>2. Sum(f, S) = f[d] + Sum(f, S \ {d}) /\ f[d] \in Nat
    BY SumRemove
  <1> QED
    BY <1>1, <1>2

(* Zeros add up to zero.                                                   *)
LEMMA SumZero ==
    ASSUME NEW f, NEW S, IsFiniteSet(S), \A x \in S : f[x] = 0
    PROVE  Sum(f, S) = 0
  <1> DEFINE F == {T \in SUBSET S : Sum(f, T) = 0}
  <1>1. ASSUME NEW T \in SUBSET S, \A U \in SUBSET T : U # T => U \in F
        PROVE  T \in F
    <2>1. CASE T = {}
      BY <2>1, SumEmpty
    <2>2. CASE T # {}
      <3>1. IsFiniteSet(T)
        BY FS_Subset
      <3>2. PICK x \in T : Sum(f, T) = f[x] + Sum(f, T \ {x})
        BY <2>2, <3>1, SumStep
      <3>3. T \ {x} \in F
        BY <1>1
      <3> QED
        BY <3>2, <3>3
    <2> QED
      BY <2>1, <2>2
  <1> HIDE DEF F
  <1>2. S \in F
    BY <1>1, SubsetInduction
  <1> QED
    BY <1>2 DEF F

(* What changing one value does to a sum.                                  *)
LEMMA SumChange ==
    ASSUME NEW f, NEW g, NEW S, IsFiniteSet(S),
           \A x \in S : f[x] \in Nat /\ g[x] \in Nat,
           NEW d, \A x \in S : x # d => g[x] = f[x]
    PROVE  /\ d \in S => Sum(g, S) + f[d] = Sum(f, S) + g[d]
           /\ d \notin S => Sum(g, S) = Sum(f, S)
  <1>1. ASSUME d \in S PROVE Sum(g, S) + f[d] = Sum(f, S) + g[d]
    <2>1. Sum(f, S) = f[d] + Sum(f, S \ {d})
      BY <1>1, SumRemove
    <2>2. Sum(g, S) = g[d] + Sum(g, S \ {d})
      BY <1>1, SumRemove
    <2>3. IsFiniteSet(S \ {d})
      BY FS_RemoveElement
    <2>4. Sum(f, S \ {d}) = Sum(g, S \ {d})
      BY <2>3, SumSame
    <2>5. Sum(f, S \ {d}) \in Nat
      BY <2>3, SumNat
    <2>6. f[d] \in Nat /\ g[d] \in Nat
      BY <1>1
    <2> QED
      BY <2>1, <2>2, <2>4, <2>5, <2>6
  <1>2. ASSUME d \notin S PROVE Sum(g, S) = Sum(f, S)
    BY <1>2, SumSame
  <1> QED
    BY <1>1, <1>2

(* Counting one more in f.                                                 *)
LEMMA SumIncrement ==
    ASSUME NEW D, NEW f \in [D -> Nat], NEW g \in [D -> Nat], NEW d \in D,
           g[d] = f[d] + 1, \A x \in D : x # d => g[x] = f[x],
           NEW S \in SUBSET D, IsFiniteSet(S)
    PROVE  /\ Sum(f, S) \in Nat
           /\ Sum(g, S) = IF d \in S THEN Sum(f, S) + 1 ELSE Sum(f, S)
  <1>1. \A x \in S : f[x] \in Nat /\ g[x] \in Nat
    OBVIOUS
  <1>2. Sum(f, S) \in Nat /\ Sum(g, S) \in Nat
    BY <1>1, SumNat
  <1>3. /\ d \in S => Sum(g, S) + f[d] = Sum(f, S) + g[d]
        /\ d \notin S => Sum(g, S) = Sum(f, S)
    BY <1>1, SumChange
  <1>4. f[d] \in Nat
    OBVIOUS
  <1>5. d \in S => Sum(g, S) = Sum(f, S) + 1
    BY <1>2, <1>3, <1>4
  <1> QED
    BY <1>2, <1>3, <1>5

-----------------------------------------------------------------------------
\* The buckets

PowRec(g) == [b \in 0..NBuckets |-> IF b = 0 THEN 1 ELSE 2 * g[b - 1]]

(* Doubling, bucket by bucket, as Pow2 says.                               *)
LEMMA PowExists ==
    ASSUME NBuckets \in Nat
    PROVE  \E g : g = PowRec(g)
  <1> DEFINE Good(n, g) == /\ g \in [0..n -> Nat \ {0}]
                           /\ \A b \in 0..n : g[b] = IF b = 0 THEN 1 ELSE 2 * g[b - 1]
             Bad == {n \in Nat : ~\E g : Good(n, g)}
  <1>1. Bad = {}
    <2> SUFFICES ASSUME Bad # {} PROVE FALSE
      OBVIOUS
    <2>1. PICK n \in Bad : \A m \in Bad : n <= m
      BY SmallestNat
    <2>2. n \in Nat /\ ~\E g : Good(n, g)
      BY <2>1
    <2>3. CASE n = 0
      <3>1. Good(0, [b \in 0..0 |-> 1])
        OBVIOUS
      <3> QED
        BY <2>2, <2>3, <3>1
    <2>4. CASE n # 0
      <3>1. PICK m \in Nat : m = n - 1 /\ n = m + 1
        BY <2>2, <2>4
      <3>2. m \notin Bad
        <4> HIDE DEF Bad
        <4>1. ~(n <= m)
          BY <2>2, <3>1
        <4> QED
          BY <2>1, <4>1
      <3>3. PICK g : Good(m, g)
        BY <3>2
      <3> DEFINE h == [b \in 0..n |-> IF b = n THEN 2 * g[m] ELSE g[b]]
      <3>4. \A b \in 0..n : b # n => b \in 0..m
        BY <3>1
      <3>5. \A b \in 0..m : g[b] \in Nat \ {0}
        BY <3>3
      <3>6. m \in 0..m /\ 2 * g[m] \in Nat \ {0}
        BY <3>5
      <3>7. h \in [0..n -> Nat \ {0}]
        BY <3>4, <3>5, <3>6
      <3>8. ASSUME NEW b \in 0..n PROVE h[b] = IF b = 0 THEN 1 ELSE 2 * h[b - 1]
        <4>1. CASE b = n
          <5>1. b - 1 = m /\ m \in 0..n /\ m # n /\ b # 0
            BY <2>4, <3>1, <4>1
          <5> QED
            BY <4>1, <5>1
        <4>2. CASE b # n
          <5>1. b \in 0..m /\ (b # 0 => b - 1 \in 0..n /\ b - 1 # n)
            BY <3>1, <4>2
          <5>2. g[b] = IF b = 0 THEN 1 ELSE 2 * g[b - 1]
            BY <3>3, <5>1
          <5> QED
            BY <4>2, <5>1, <5>2
        <4> QED
          BY <4>1, <4>2
      <3> HIDE DEF h
      <3>9. Good(n, h)
        BY <3>7, <3>8
      <3> QED
        BY <2>2, <3>9
    <2> QED
      BY <2>3, <2>4
  <1>2. PICK g : Good(NBuckets, g)
    BY <1>1
  <1>3. g = PowRec(g)
    BY <1>2 DEF PowRec
  <1> QED
    BY <1>3

(* A power of two is the double of the one before.                         *)
LEMMA PowStep ==
    ASSUME NBuckets \in Nat
    PROVE  \A b \in 0..NBuckets : Pow2[b] = IF b = 0 THEN 1 ELSE 2 * Pow2[b - 1]
  <1>1. Pow2 = CHOOSE g : g = PowRec(g)
    BY DEF Pow2, PowRec
  <1>2. Pow2 = PowRec(Pow2)
    BY <1>1, PowExists
  <1> QED
    BY <1>2 DEF PowRec

(* The powers of two are positive and grow.                                *)
LEMMA PowGrows ==
    ASSUME NBuckets \in Nat
    PROVE  /\ \A b \in 0..NBuckets : Pow2[b] \in Nat \ {0}
           /\ \A b \in 0..NBuckets : \A a \in 0..b : Pow2[a] <= Pow2[b]
  <1> DEFINE Good(b) == Pow2[b] \in Nat \ {0} /\ \A a \in 0..b : Pow2[a] <= Pow2[b]
             Bad == {b \in 0..NBuckets : ~Good(b)}
  <1>1. Bad = {}
    <2> SUFFICES ASSUME Bad # {} PROVE FALSE
      OBVIOUS
    <2>1. PICK n \in Bad : \A m \in Bad : n <= m
      <3>1. Bad \subseteq Nat
        OBVIOUS
      <3> HIDE DEF Bad
      <3> QED
        BY <3>1, SmallestNat
    <2>2. n \in 0..NBuckets /\ ~Good(n)
      BY <2>1
    <2>3. CASE n = 0
      <3>1. Pow2[0] = 1 /\ \A a \in 0..0 : a = 0
        BY PowStep
      <3> QED
        BY <2>2, <2>3, <3>1
    <2>4. CASE n # 0
      <3>1. PICK m \in 0..NBuckets : m = n - 1
        BY <2>2, <2>4
      <3>2. Good(m)
        <4>1. m \notin Bad
          <5> HIDE DEF Bad
          <5>1. ~(n <= m)
            BY <2>2, <3>1
          <5> QED
            BY <2>1, <5>1
        <4> QED
          BY <4>1
      <3>3. PICK y \in Nat \ {0} : y = Pow2[m] /\ Pow2[n] = 2 * y
        BY <2>2, <2>4, <3>1, <3>2, PowStep
      <3>4. ASSUME NEW a \in 0..n PROVE Pow2[a] <= Pow2[n]
        <4>1. CASE a = n
          BY <3>3, <4>1
        <4>2. CASE a # n
          <5>1. a \in 0..m /\ a \in 0..NBuckets
            BY <2>2, <3>1, <4>2
          <5>2. Pow2[a] <= y
            BY <3>2, <3>3, <5>1
          <5>3. y <= 2 * y
            BY <3>3
          <5>4. Pow2[a] \in Nat
            <6>1. a \notin Bad
              <7> HIDE DEF Bad
              <7>1. ~(n <= a)
                BY <2>2, <4>2
              <7> QED
                BY <2>1, <7>1
            <6> QED
              BY <5>1, <6>1
          <5> QED
            BY <3>3, <5>2, <5>3, <5>4
        <4> QED
          BY <4>1, <4>2
      <3>5. Pow2[n] \in Nat \ {0}
        BY <3>3
      <3> QED
        BY <2>2, <3>4, <3>5
    <2> QED
      BY <2>3, <2>4
  <1> QED
    BY <1>1

(* Dividing, and comparing with a multiple.                                *)
LEMMA DivLess ==
    ASSUME NEW a \in Nat, NEW n \in Nat \ {0}, NEW p \in Nat
    PROVE  a \div n \in Nat /\ (a < p * n <=> a \div n < p)
  <1>1. PICK u \in Int, r \in Int : u = a \div n /\ r = a % n
    OBVIOUS
  <1>2. a = n * u + r /\ 0 <= r /\ r < n
    BY <1>1
  <1>3. 0 <= u
    <2>1. ASSUME u <= -1 PROVE FALSE
      <3>1. n * u <= -n
        BY <2>1
      <3> QED
        BY <1>2, <3>1
    <2> QED
      BY <2>1
  <1>4. PICK y \in Int : y = n * u
    OBVIOUS
  <1>5. PICK z \in Int : z = p * n
    OBVIOUS
  <1>6. ASSUME u < p PROVE a < z
    <2>1. n * (u + 1) <= n * p
      BY <1>3, <1>6
    <2>2. n * (u + 1) = n * u + n /\ n * p = p * n
      OBVIOUS
    <2> QED
      BY <1>2, <1>4, <1>5, <2>1, <2>2
  <1>7. ASSUME u >= p PROVE a >= z
    <2>1. n * u >= n * p
      BY <1>7
    <2>2. n * p = p * n
      OBVIOUS
    <2> QED
      BY <1>2, <1>4, <1>5, <2>1, <2>2
  <1>8. u \in Nat
    BY <1>3
  <1>9. a < z <=> u < p
    BY <1>6, <1>7
  <1> QED
    BY <1>1, <1>5, <1>8, <1>9

(* Every latency has a bucket: the last one whose lower end it reaches.    *)
LEMMA BucketChoice ==
    ASSUME NEW l \in Nat
    PROVE  /\ BucketOf(l) \in Buckets
           /\ l \div NsPerUs = 0 => BucketOf(l) = 0
           /\ l \div NsPerUs # 0 =>
                /\ Pow2[BucketOf(l)] <= l \div NsPerUs
                /\ \/ BucketOf(l) = NBuckets - 1
                   \/ l \div NsPerUs < Pow2[BucketOf(l) + 1]
  <1>1. NBuckets \in Nat \ {0, 1} /\ NsPerUs \in Nat \ {0}
    BY HistogramAssumption
  <1>2. PICK us \in Nat : us = l \div NsPerUs
    BY <1>1, DivLess
  <1>3. \A b \in 0..NBuckets : Pow2[b] \in Nat \ {0}
    BY <1>1, PowGrows
  <1>4. CASE us = 0
    <2>1. BucketOf(l) = 0
      BY <1>2, <1>4 DEF BucketOf
    <2>2. 0 \in Buckets
      BY <1>1 DEF Buckets
    <2> QED
      BY <1>2, <1>4, <2>1, <2>2
  <1>5. CASE us # 0
    <2> DEFINE T == {b \in Buckets : b = NBuckets - 1 \/ us < Pow2[b + 1]}
    <2>1. T \subseteq Nat
      BY <1>1 DEF Buckets
    <2>2. T # {}
      <3>1. NBuckets - 1 \in Buckets
        BY <1>1 DEF Buckets
      <3> QED
        BY <3>1
    <2>3. PICK b \in T : \A c \in T : b <= c
      <3> HIDE DEF T
      <3> QED
        BY <2>1, <2>2, SmallestNat
    <2>4. b \in Nat /\ b <= NBuckets - 1
      BY <1>1, <2>3 DEF Buckets
    <2>5. Pow2[b] <= us
      <3>1. CASE b = 0
        <4>1. Pow2[0] = 1
          BY <1>1, PowStep
        <4> QED
          BY <1>5, <3>1, <4>1
      <3>2. CASE b # 0
        <4>1. PICK c \in Nat : c = b - 1 /\ c + 1 = b
          BY <2>4, <3>2
        <4>2. c \notin T
          <5> HIDE DEF T
          <5>1. ~(b <= c)
            BY <2>4, <4>1
          <5> QED
            BY <2>3, <5>1
        <4>3. c \in Buckets /\ b \in 0..NBuckets
          BY <1>1, <2>4, <4>1 DEF Buckets
        <4>4. ~(us < Pow2[b])
          BY <4>1, <4>2, <4>3
        <4>5. Pow2[b] \in Nat
          BY <1>3, <4>3
        <4> QED
          BY <4>4, <4>5
      <3> QED
        BY <3>1, <3>2
    <2>6. \E c \in Buckets : Pow2[c] <= us /\ (c = NBuckets - 1 \/ us < Pow2[c + 1])
      BY <2>3, <2>5
    <2>7. BucketOf(l) = CHOOSE c \in Buckets :
                            Pow2[c] <= us /\ (c = NBuckets - 1 \/ us < Pow2[c + 1])
      BY <1>2, <1>5 DEF BucketOf
    <2>8. PICK d \in Buckets : d = BucketOf(l)
                /\ Pow2[d] <= us /\ (d = NBuckets - 1 \/ us < Pow2[d + 1])
      BY <2>6, <2>7
    <2> QED
      BY <1>2, <1>5, <2>8
  <1> QED
    BY <1>4, <1>5

(* The samples below the upper end of a bucket are those in it and in the  *)
(* buckets before it.                                                      *)
LEMMA BucketBelow ==
    ASSUME NEW l \in Latencies, NEW b \in Buckets
    PROVE  l < Upper(b) <=> BucketOf(l) < b + 1
  <1>1. NBuckets \in Nat \ {0, 1} /\ NsPerUs \in Nat \ {0} /\ l \in Nat /\ l < Top
    BY HistogramAssumption
  <1>2. PICK us \in Nat : us = l \div NsPerUs
    BY <1>1, DivLess
  <1>3. b \in Nat /\ b <= NBuckets - 1
    BY <1>1 DEF Buckets
  <1>4. PICK d \in Nat : d = BucketOf(l) /\ d <= NBuckets - 1
    BY <1>1, BucketChoice DEF Buckets
  <1>5. /\ us = 0 => d = 0
        /\ us # 0 => Pow2[d] <= us /\ (d = NBuckets - 1 \/ us < Pow2[d + 1])
    BY <1>1, <1>2, <1>4, BucketChoice
  <1>6. CASE b = NBuckets - 1
    <2>1. Upper(b) = Top
      BY <1>6 DEF Upper
    <2>2. d < b + 1
      BY <1>1, <1>3, <1>4, <1>6
    <2> QED
      BY <1>1, <1>4, <2>1, <2>2
  <1>7. CASE b # NBuckets - 1
    <2>1. Upper(b) = Pow2[b + 1] * NsPerUs
      BY <1>7 DEF Upper
    <2>2. b + 1 \in 0..NBuckets /\ d \in 0..NBuckets /\ d + 1 \in 0..NBuckets
      BY <1>1, <1>3, <1>4
    <2>3. PICK p \in Nat \ {0}, e \in Nat, k \in Nat :
             p = Pow2[b + 1] /\ e = Pow2[d] /\ k = Pow2[d + 1]
      BY <1>1, <2>2, PowGrows
    <2>4. l < Upper(b) <=> us < p
      BY <1>1, <1>2, <2>1, <2>3, DivLess
    <2>5. CASE d < b + 1
      <3>1. d + 1 \in 0..(b + 1)
        BY <1>3, <1>4, <2>5
      <3>2. k <= p
        BY <1>1, <2>2, <2>3, <3>1, PowGrows
      <3>3. d # NBuckets - 1
        BY <1>1, <1>3, <1>4, <1>7, <2>5
      <3>4. us < p
        BY <1>5, <2>3, <3>2, <3>3
      <3> QED
        BY <1>4, <2>4, <2>5, <3>4
    <2>6. CASE ~(d < b + 1)
      <3>1. b + 1 \in 0..d /\ d # 0
        BY <1>3, <1>4, <2>6
      <3>2. p <= e
        BY <1>1, <2>2, <2>3, <3>1, PowGrows
      <3>3. us # 0 /\ e <= us
        BY <1>5, <2>3, <3>1
      <3>4. ~(us < p)
        BY <2>3, <3>2, <3>3
      <3> QED
        BY <1>4, <2>4, <2>6, <3>4
    <2> QED
      BY <2>5, <2>6
  <1> QED
    BY <1>6, <1>7

-----------------------------------------------------------------------------
\* The inductive invariant of the histogram

InCount == {r \in Recorders : rec_pc[r] = "count"}
Pending == [r \in Recorders |-> IF rec_pc[r] \in {"count", "sum"} THEN lat[r] ELSE 0]
Weighted == [l \in Latencies |-> l * samples[l]]
Seen == {l \in Latencies : samples[l] > 0}
Prefix(b) == Sum(buckets, 0..(b - 1))

Reading == rpc \in {"walk", "summarized"}
Counting == clean /\ ~Resetting

(* The types, with no bound on the counters yet.                           *)
TypeInv ==
    /\ buckets \in [Buckets -> Nat]
    /\ count \in Nat /\ sum_ns \in Nat
    /\ min_ns \in Latencies \cup {Top} /\ max_ns \in Latencies \cup {0}
    /\ rec_pc \in [Recorders -> {"idle", "count", "sum", "readmin", "min", "readmax", "max"}]
    /\ lat \in [Recorders -> Latencies \cup {0}]
    /\ old \in [Recorders -> Latencies \cup {0, Top}]
    /\ \A r \in Recorders : rec_pc[r] # "idle" => lat[r] \in Latencies
    /\ samples \in [Latencies -> Nat]

(* The reader and its locals.                                              *)
ReaderInv ==
    /\ rpc \in {"idle", "walk", "summarized", "clear", "fields"}
    /\ at \in 0..NBuckets /\ total \in 0..MaxCount /\ cumulative \in Nat
    /\ found_at \in [Percentiles -> Buckets \cup {-1}]
    /\ clean \in BOOLEAN /\ alone \in BOOLEAN
    /\ rpc = "idle" => at = 0
    /\ rpc \in {"walk", "clear"} => at < NBuckets
    /\ rpc = "fields" => at = NBuckets
    /\ rpc = "summarized" => total = 0 \/ at = NBuckets
    /\ ~Reading => /\ cumulative = 0 /\ total = 0 /\ ~alone
                   /\ \A p \in Percentiles : found_at[p] = -1

(* The counters stay in range.  A reset that overlaps a recording leaves   *)
(* at most that sample in the buckets, and counts at most one sample per   *)
(* recorder that was under way.                                            *)
SizeInv ==
    /\ Sum(samples, Latencies) <= MaxSamples
    /\ Prefix(NBuckets) <= MaxSamples + 1 /\ count + Cardinality(InCount) <= MaxCount
    /\ clean => Prefix(NBuckets) <= MaxSamples /\ count + Cardinality(InCount) < MaxCount
    /\ ~clean /\ ~Resetting =>
          Prefix(NBuckets) <= 1 /\ count + Cardinality(InCount) <= Cardinality(Recorders)
    /\ Resetting => Prefix(at) <= 1
    /\ Resetting /\ clean =>
          Prefix(at) = 0 /\ ~Recording /\ \A l \in Latencies : samples[l] = 0

(* The buckets and the count are the samples, but for those that are in    *)
(* their bucket and not counted yet; so is the sum.                        *)
ExactInv == Counting =>
    /\ \A b \in 0..NBuckets :
          Prefix(b) = Sum(samples, {l \in Latencies : BucketOf(l) < b})
    /\ \A b \in Buckets :
          buckets[b] = Sum(samples, {l \in Latencies : BucketOf(l) = b})
    /\ count + Cardinality(InCount) = Sum(samples, Latencies)
    /\ sum_ns + Sum(Pending, Recorders) = Sum(Weighted, Latencies)

(* A sample is not under the minimum, or its recorder is still to lower    *)
(* it; what a recorder compares with is a minimum there has been.          *)
MinInv == Counting =>
    /\ \A r \in Recorders : rec_pc[r] # "idle" => lat[r] \in Seen
    /\ min_ns \in Seen \cup {Top}
    /\ \A l \in Seen : \/ min_ns <= l
                       \/ \E r \in Recorders :
                             lat[r] = l /\ rec_pc[r] \in {"count", "sum", "readmin", "min"}
    /\ \A r \in Recorders : rec_pc[r] = "min" => min_ns <= old[r]

(* The same of the maximum.                                                *)
MaxInv == Counting =>
    /\ max_ns \in Seen \cup {0}
    /\ \A l \in Seen : l <= max_ns \/ \E r \in Recorders : lat[r] = l /\ rec_pc[r] # "idle"
    /\ \A r \in Recorders : rec_pc[r] = "max" => old[r] <= max_ns

(* What a walk has added up is in the buckets it has passed, and what it   *)
(* still has to add makes up the total it read first.                      *)
WalkInv == Reading =>
    /\ cumulative <= Prefix(at)
    /\ clean => total <= cumulative + Sum(buckets, at..(NBuckets - 1))
    /\ alone => cumulative = Prefix(at)

(* A percentile is found at the first bucket that reaches its share, the   *)
(* smaller ones no later.                                                  *)
FoundInv ==
    /\ Reading => \A p \in Percentiles :
         /\ found_at[p] < at
         /\ found_at[p] = -1 /\ at > 0 => ~Crosses(p, cumulative, total)
         /\ alone /\ found_at[p] # -1 =>
              /\ Crosses(p, Prefix(found_at[p] + 1), total)
              /\ found_at[p] > 0 => ~Crosses(p, Prefix(found_at[p]), total)
    /\ found_at["p99"] # -1 => found_at["p50"] # -1 /\ found_at["p50"] <= found_at["p99"]
    /\ found_at["p999"] # -1 => found_at["p99"] # -1 /\ found_at["p99"] <= found_at["p999"]

HInv ==
    /\ TypeInv /\ ReaderInv /\ SizeInv /\ ExactInv
    /\ MinInv /\ MaxInv /\ WalkInv /\ FoundInv

(* The constants, and the finite sets the sums and counts are over.        *)
LEMMA HistogramSets ==
    /\ NBuckets \in Nat /\ NBuckets > 1 /\ MaxSamples \in Nat /\ MaxSamples > 0
    /\ Top \in Nat /\ Latencies \subseteq Nat
    /\ Buckets = 0..(NBuckets - 1)
    /\ \A S \in SUBSET Recorders : IsFiniteSet(S) /\ Cardinality(S) \in Nat
    /\ \A S \in SUBSET Latencies : IsFiniteSet(S)
    /\ \A S \in SUBSET Buckets : IsFiniteSet(S)
    /\ Cardinality(Recorders) > 0
    /\ MaxCount \in Nat /\ MaxCount = MaxSamples + Cardinality(Recorders)
  <1> USE HistogramAssumption
  <1>0. IsFiniteSet(Recorders) /\ IsFiniteSet(Latencies)
    OBVIOUS
  <1>1. \A S \in SUBSET Recorders : IsFiniteSet(S) /\ Cardinality(S) \in Nat
    BY <1>0, FS_Subset, FS_CardinalityType
  <1>2. \A S \in SUBSET Latencies : IsFiniteSet(S)
    BY <1>0, FS_Subset
  <1>3. Buckets = 0..(NBuckets - 1) /\ IsFiniteSet(0..(NBuckets - 1))
    BY FS_Interval DEF Buckets
  <1>4. \A S \in SUBSET Buckets : IsFiniteSet(S)
    BY <1>3, FS_Subset
  <1>5. Cardinality(Recorders) \in Nat /\ Cardinality(Recorders) # 0
    BY <1>1, FS_EmptySet
  <1> QED
    BY <1>1, <1>2, <1>3, <1>4, <1>5 DEF MaxCount

(* Sums over the first buckets and over the others.                        *)
LEMMA BucketSums ==
    ASSUME NEW f \in [Buckets -> Nat], NEW b \in 0..NBuckets
    PROVE  /\ Sum(f, 0..(b - 1)) \in Nat /\ Sum(f, b..(NBuckets - 1)) \in Nat
           /\ Sum(f, 0..(b - 1)) <= Sum(f, 0..(NBuckets - 1))
           /\ 0..(b - 1) \in SUBSET Buckets /\ b..(NBuckets - 1) \in SUBSET Buckets
           /\ b < NBuckets =>
                /\ Sum(f, 0..b) = f[b] + Sum(f, 0..(b - 1))
                /\ Sum(f, b..(NBuckets - 1)) = f[b] + Sum(f, (b + 1)..(NBuckets - 1))
                /\ f[b] <= Sum(f, 0..(NBuckets - 1))
  <1>1. NBuckets \in Nat /\ Buckets = 0..(NBuckets - 1) /\ \A S \in SUBSET Buckets : IsFiniteSet(S)
    BY HistogramSets
  <1>2. 0..(b - 1) \in SUBSET Buckets /\ b..(NBuckets - 1) \in SUBSET Buckets
    BY <1>1
  <1>3. IsFiniteSet(0..(b - 1)) /\ IsFiniteSet(b..(NBuckets - 1)) /\ IsFiniteSet(0..(NBuckets - 1))
    BY <1>1, <1>2
  <1>4. Sum(f, 0..(b - 1)) \in Nat /\ Sum(f, b..(NBuckets - 1)) \in Nat
    BY <1>2, <1>3, SumNat
  <1>5. Sum(f, 0..(b - 1)) <= Sum(f, 0..(NBuckets - 1))
    BY <1>1, <1>2, <1>3, SumPart
  <1>6. ASSUME b < NBuckets
        PROVE  /\ Sum(f, 0..b) = f[b] + Sum(f, 0..(b - 1))
               /\ Sum(f, b..(NBuckets - 1)) = f[b] + Sum(f, (b + 1)..(NBuckets - 1))
               /\ f[b] <= Sum(f, 0..(NBuckets - 1))
    <2>1. 0..b \in SUBSET Buckets /\ b \in 0..b /\ b \in b..(NBuckets - 1) /\ b \in Buckets
      BY <1>1, <1>6
    <2>2. (0..b) \ {b} = 0..(b - 1) /\ (b..(NBuckets - 1)) \ {b} = (b + 1)..(NBuckets - 1)
      BY <1>1, <1>6
    <2>3. Sum(f, 0..b) = f[b] + Sum(f, (0..b) \ {b})
      BY <1>1, <2>1, SumRemove
    <2>4. Sum(f, b..(NBuckets - 1)) = f[b] + Sum(f, (b..(NBuckets - 1)) \ {b})
      <3>1. PICK S : S = b..(NBuckets - 1)
        OBVIOUS
      <3>2. IsFiniteSet(S) /\ b \in S /\ \A x \in S : f[x] \in Nat
        BY <1>2, <1>3, <2>1, <3>1
      <3>3. Sum(f, S) = f[b] + Sum(f, S \ {b})
        <4>1. \A d \in S : Sum(f, S) = f[d] + Sum(f, S \ {d})
          BY <3>2, SumRemove
        <4> QED
          BY <3>2, <4>1
      <3> QED
        BY <3>1, <3>3
    <2>5. f[b] <= Sum(f, 0..(NBuckets - 1))
      BY <1>1, <1>3, <2>1, SumMember
    <2> QED
      BY <2>2, <2>3, <2>4, <2>5
  <1> QED
    BY <1>2, <1>4, <1>5, <1>6

(* What the recorders' steps leave alone.                                  *)
LEMMA ReaderKept ==
    ASSUME HInv, UNCHANGED <<buckets, rpc, at, total, cumulative, found_at, clean, alone>>
    PROVE  ReaderInv' /\ WalkInv' /\ FoundInv'
  <1>1. ReaderInv'
    BY DEF HInv, ReaderInv, Reading
  <1>2. WalkInv'
    BY DEF HInv, WalkInv, Reading, Prefix
  <1>3. FoundInv'
    BY DEF HInv, FoundInv, Reading, Prefix
  <1> QED
    BY <1>1, <1>2, <1>3

(* The initial state.                                                      *)
LEMMA InitHInv ==
    ASSUME HistogramInit
    PROVE  HInv
  <1> USE DEF HistogramInit
  <1>1. TypeInv
    BY DEF TypeInv
  <1>2. ReaderInv
    <2>1. at \in 0..NBuckets /\ total \in 0..MaxCount /\ cumulative \in Nat
      BY HistogramSets
    <2>2. found_at \in [Percentiles -> Buckets \cup {-1}]
      OBVIOUS
    <2>3. \A p \in Percentiles : found_at[p] = -1
      OBVIOUS
    <2> QED
      BY <2>1, <2>2, <2>3 DEF ReaderInv, Reading
  <1>3. InCount = {} /\ Cardinality(InCount) = 0
    BY FS_EmptySet DEF InCount
  <1>4. \A S \in SUBSET Latencies : Sum(samples, S) = 0
    BY HistogramSets, SumZero
  <1>5. \A b \in 0..NBuckets : Prefix(b) = 0
    <2>1. ASSUME NEW b \in 0..NBuckets PROVE Prefix(b) = 0
      <3>1. PICK S \in SUBSET Buckets : S = 0..(b - 1)
        BY HistogramSets
      <3>2. Sum(buckets, S) = 0
        BY HistogramSets, SumZero
      <3> QED
        BY <3>1, <3>2 DEF Prefix
    <2> QED
      BY <2>1
  <1>6. NBuckets \in 0..NBuckets /\ 0 \in 0..NBuckets
    BY HistogramSets
  <1>7. SizeInv
    <2>1. Sum(samples, Latencies) = 0 /\ Prefix(NBuckets) = 0
      BY <1>4, <1>5, <1>6
    <2>2. clean /\ ~Resetting
      BY DEF Resetting
    <2> QED
      BY <1>3, <2>1, <2>2, HistogramSets DEF SizeInv
  <1>8. ExactInv
    <2>1. \A b \in 0..NBuckets :
             Prefix(b) = Sum(samples, {l \in Latencies : BucketOf(l) < b})
      BY <1>4, <1>5
    <2>2. \A b \in Buckets :
             buckets[b] = Sum(samples, {l \in Latencies : BucketOf(l) = b})
      BY <1>4
    <2>3. Sum(Pending, Recorders) = 0
      BY HistogramSets, SumZero DEF Pending
    <2>4. Sum(Weighted, Latencies) = 0
      <3>1. \A l \in Latencies : Weighted[l] = 0
        BY HistogramSets DEF Weighted
      <3> QED
        BY <3>1, HistogramSets, SumZero
    <2>5. Sum(samples, Latencies) = 0
      BY <1>4
    <2> QED
      BY <1>3, <2>1, <2>2, <2>3, <2>4, <2>5 DEF ExactInv
  <1>9. MinInv /\ MaxInv
    BY DEF MinInv, MaxInv, Seen
  <1>10. WalkInv /\ FoundInv
    BY DEF WalkInv, FoundInv, Reading, Percentiles
  <1> QED
    BY <1>1, <1>2, <1>7, <1>8, <1>9, <1>10 DEF HInv

(* Recording moves no bucket and no sample but the first atomic increment: *)
(* counting keeps the count and those still to be counted together.        *)
LEMMA CountStep ==
    ASSUME HInv, NEW r \in Recorders, Count(r)
    PROVE  HInv'
  <1>1. /\ rec_pc[r] = "count" /\ count' = count + 1
        /\ rec_pc' = [rec_pc EXCEPT ![r] = "sum"]
        /\ UNCHANGED <<buckets, sum_ns, min_ns, max_ns, lat, old, samples>>
        /\ UNCHANGED <<rpc, at, total, cumulative, found_at, clean, alone>>
    BY DEF Count, reader
  <1>2. TypeInv /\ SizeInv /\ ExactInv /\ MinInv /\ MaxInv /\ ReaderInv
    BY DEF HInv
  <1>3. ReaderInv' /\ WalkInv' /\ FoundInv'
    BY <1>1, ReaderKept
  <1>4. TypeInv'
    BY <1>1, <1>2 DEF TypeInv
  <1>5. count' + Cardinality(InCount') = count + Cardinality(InCount)
    <2>1. r \in InCount /\ InCount' = InCount \ {r}
      BY <1>1, <1>2 DEF InCount, TypeInv
    <2>2. IsFiniteSet(InCount) /\ Cardinality(InCount) \in Nat
      BY HistogramSets DEF InCount
    <2>3. Cardinality(InCount') = Cardinality(InCount) - 1
      BY <2>1, <2>2, FS_RemoveElement
    <2>4. count \in Nat
      BY <1>2 DEF TypeInv
    <2> QED
      BY <1>1, <2>2, <2>3, <2>4
  <1>6. Recording /\ Recording'
    BY <1>1, <1>2 DEF Recording, TypeInv
  <1>7. SizeInv'
    BY <1>1, <1>2, <1>5, <1>6 DEF SizeInv, Prefix, Resetting, MaxCount
  <1>8. Pending' = Pending
    BY <1>1, <1>2 DEF Pending, TypeInv
  <1>9. ExactInv'
    BY <1>1, <1>2, <1>5, <1>8 DEF ExactInv, Counting, Resetting, Prefix, Weighted
  <1>10. MinInv'
    BY <1>1, <1>2 DEF MinInv, Counting, Resetting, Seen, TypeInv
  <1>11. MaxInv'
    BY <1>1, <1>2 DEF MaxInv, Counting, Resetting, Seen, TypeInv
  <1> QED
    BY <1>3, <1>4, <1>7, <1>9, <1>10, <1>11 DEF HInv

(* The later steps of a recording leave the buckets and the count.         *)
LEMMA CountsKept ==
    ASSUME HInv, NEW r \in Recorders, rec_pc[r] \notin {"idle", "count"},
           NEW to \in {"readmin", "min", "readmax", "max", "idle"},
           rec_pc' = [rec_pc EXCEPT ![r] = to] \/ UNCHANGED rec_pc,
           UNCHANGED <<buckets, count, samples>>,
           UNCHANGED <<rpc, at, total, cumulative, found_at, clean, alone>>
    PROVE  InCount' = InCount /\ SizeInv' /\ ReaderInv' /\ WalkInv' /\ FoundInv'
  <1>1. ReaderInv' /\ WalkInv' /\ FoundInv'
    BY ReaderKept
  <1>2. TypeInv /\ SizeInv
    BY DEF HInv
  <1>3. InCount' = InCount
    BY <1>2 DEF InCount, TypeInv
  <1>4. Recording
    BY DEF Recording
  <1>5. SizeInv'
    BY <1>2, <1>3, <1>4 DEF SizeInv, Prefix, Resetting, MaxCount
  <1> QED
    BY <1>1, <1>3, <1>5

(* Adding a latency takes it from what is pending.                         *)
LEMMA AddStep ==
    ASSUME HInv, NEW r \in Recorders, Add(r)
    PROVE  HInv'
  <1>1. /\ rec_pc[r] = "sum" /\ sum_ns' = sum_ns + lat[r]
        /\ rec_pc' = [rec_pc EXCEPT ![r] = "readmin"]
        /\ UNCHANGED <<buckets, count, samples>> /\ UNCHANGED <<min_ns, max_ns, lat, old>>
        /\ UNCHANGED <<rpc, at, total, cumulative, found_at, clean, alone>>
    BY DEF Add, reader
  <1>2. TypeInv /\ ExactInv /\ MinInv /\ MaxInv
    BY DEF HInv
  <1>3. InCount' = InCount /\ SizeInv' /\ ReaderInv' /\ WalkInv' /\ FoundInv'
    BY <1>1, CountsKept
  <1>4. lat[r] \in Nat /\ sum_ns \in Nat
    BY <1>1, <1>2, HistogramSets DEF TypeInv
  <1>5. TypeInv'
    BY <1>1, <1>2, <1>4 DEF TypeInv
  <1>6. sum_ns' + Sum(Pending', Recorders) = sum_ns + Sum(Pending, Recorders)
    <2>1. PICK f, g : f = Pending /\ g = Pending'
      OBVIOUS
    <2>2. /\ \A q \in Recorders : f[q] \in Nat /\ g[q] \in Nat
          /\ \A q \in Recorders : q # r => g[q] = f[q]
          /\ f[r] = lat[r] /\ g[r] = 0
      BY <1>1, <1>2, <2>1, HistogramSets DEF Pending, TypeInv
    <2>3. Sum(g, Recorders) + f[r] = Sum(f, Recorders) + g[r]
      BY <2>2, HistogramSets, SumChange
    <2>4. Sum(g, Recorders) \in Nat /\ Sum(f, Recorders) \in Nat
      BY <2>2, HistogramSets, SumNat
    <2>5. (sum_ns + lat[r]) + Sum(g, Recorders) = sum_ns + Sum(f, Recorders)
      BY <1>4, <2>2, <2>3, <2>4
    <2> QED
      BY <1>1, <2>1, <2>5
  <1>7. ExactInv'
    BY <1>1, <1>2, <1>3, <1>6 DEF ExactInv, Counting, Resetting, Prefix, Weighted
  <1>8. MinInv'
    BY <1>1, <1>2 DEF MinInv, Counting, Resetting, Seen, TypeInv
  <1>9. MaxInv'
    BY <1>1, <1>2 DEF MaxInv, Counting, Resetting, Seen, TypeInv
  <1> QED
    BY <1>3, <1>5, <1>7, <1>8, <1>9 DEF HInv

(* A recorder that has added its latency leaves the sum.                   *)
LEMMA ExactKept ==
    ASSUME ExactInv, TypeInv, NEW r \in Recorders,
           rec_pc[r] \in {"readmin", "min", "readmax", "max"},
           NEW to \in {"readmin", "min", "readmax", "max", "idle"},
           rec_pc' = [rec_pc EXCEPT ![r] = to] \/ UNCHANGED rec_pc,
           NEW v, lat' = [lat EXCEPT ![r] = v] \/ UNCHANGED lat,
           UNCHANGED <<buckets, count, sum_ns, samples, clean, rpc>>, InCount' = InCount
    PROVE  ExactInv'
  <1>1. Pending' = Pending
    BY DEF Pending, TypeInv
  <1> QED
    BY <1>1 DEF ExactInv, Counting, Resetting, Prefix, Weighted

(* What is read is the minimum, which can only fall from here on.          *)
LEMMA ReadMinStep ==
    ASSUME HInv, NEW r \in Recorders, ReadMin(r)
    PROVE  HInv'
  <1>1. /\ rec_pc[r] = "readmin" /\ old' = [old EXCEPT ![r] = min_ns]
        /\ rec_pc' = [rec_pc EXCEPT ![r] = "min"]
        /\ UNCHANGED <<buckets, count, samples>> /\ UNCHANGED <<sum_ns, min_ns, max_ns, lat>>
        /\ UNCHANGED <<rpc, at, total, cumulative, found_at, clean, alone>>
    BY DEF ReadMin, reader, hist
  <1>2. TypeInv /\ ExactInv /\ MinInv /\ MaxInv
    BY DEF HInv
  <1>3. InCount' = InCount /\ SizeInv' /\ ReaderInv' /\ WalkInv' /\ FoundInv'
    BY <1>1, CountsKept
  <1>4. TypeInv'
    BY <1>1, <1>2 DEF TypeInv
  <1>5. ExactInv'
    BY <1>1, <1>2, <1>3, ExactKept
  <1>6. min_ns \in Nat /\ min_ns <= min_ns
    BY <1>2, HistogramSets DEF TypeInv
  <1>7. MinInv'
    BY <1>1, <1>2, <1>6 DEF MinInv, Counting, Resetting, Seen, TypeInv
  <1>8. MaxInv'
    BY <1>1, <1>2 DEF MaxInv, Counting, Resetting, Seen, TypeInv
  <1> QED
    BY <1>3, <1>4, <1>5, <1>7, <1>8 DEF HInv

(* What is read is the maximum, which can only rise.                       *)
LEMMA ReadMaxStep ==
    ASSUME HInv, NEW r \in Recorders, ReadMax(r)
    PROVE  HInv'
  <1>1. /\ rec_pc[r] = "readmax" /\ old' = [old EXCEPT ![r] = max_ns]
        /\ rec_pc' = [rec_pc EXCEPT ![r] = "max"]
        /\ UNCHANGED <<buckets, count, samples>> /\ UNCHANGED <<sum_ns, min_ns, max_ns, lat>>
        /\ UNCHANGED <<rpc, at, total, cumulative, found_at, clean, alone>>
    BY DEF ReadMax, reader, hist
  <1>2. TypeInv /\ ExactInv /\ MinInv /\ MaxInv
    BY DEF HInv
  <1>3. InCount' = InCount /\ SizeInv' /\ ReaderInv' /\ WalkInv' /\ FoundInv'
    BY <1>1, CountsKept
  <1>4. TypeInv'
    BY <1>1, <1>2 DEF TypeInv
  <1>5. ExactInv'
    BY <1>1, <1>2, <1>3, ExactKept
  <1>6. max_ns \in Nat /\ max_ns <= max_ns
    BY <1>2, HistogramSets DEF TypeInv
  <1>7. MinInv'
    BY <1>1, <1>2 DEF MinInv, Counting, Resetting, Seen, TypeInv
  <1>8. MaxInv'
    BY <1>1, <1>2, <1>6 DEF MaxInv, Counting, Resetting, Seen, TypeInv
  <1> QED
    BY <1>3, <1>4, <1>5, <1>7, <1>8 DEF HInv

(* A round of the cmpxchg loop on the minimum: it fails because another    *)
(* recorder lowered the minimum, or the minimum is now at most the latency.*)
LEMMA UpdateMinStep ==
    ASSUME HInv, NEW r \in Recorders, UpdateMin(r)
    PROVE  HInv'
  <1>1. /\ rec_pc[r] = "min"
        /\ UNCHANGED <<buckets, count, samples>> /\ UNCHANGED <<sum_ns, max_ns, lat>>
        /\ UNCHANGED <<rpc, at, total, cumulative, found_at, clean, alone>>
    BY DEF UpdateMin, reader
  <1>2. TypeInv /\ ExactInv /\ MinInv /\ MaxInv
    BY DEF HInv
  <1>3. lat[r] \in Latencies /\ lat[r] \in Nat /\ old[r] \in Nat /\ min_ns \in Nat
    <2>1. /\ lat[r] \in Latencies /\ old[r] \in Latencies \cup {0, Top}
          /\ min_ns \in Latencies \cup {Top}
      BY <1>1, <1>2 DEF TypeInv
    <2>2. \A x \in Latencies \cup {0, Top} : x \in Nat
      BY HistogramSets
    <2>3. lat[r] \in Latencies \cup {0, Top} /\ min_ns \in Latencies \cup {0, Top}
      BY <2>1, Zenon
    <2> QED
      BY <2>1, <2>2, <2>3, Zenon
  <1>4. \A l \in Seen : l \in Nat
    BY HistogramSets DEF Seen
  <1>5. CASE lat[r] < old[r] /\ min_ns # old[r]
    <2>1. old' = [old EXCEPT ![r] = min_ns] /\ UNCHANGED <<min_ns, rec_pc>>
      BY <1>5 DEF UpdateMin
    <2>2. InCount' = InCount /\ SizeInv' /\ ReaderInv' /\ WalkInv' /\ FoundInv'
      BY <1>1, <2>1, CountsKept
    <2>3. TypeInv'
      BY <1>1, <1>2, <2>1 DEF TypeInv
    <2>4. ExactInv'
      BY <1>1, <1>2, <2>1, <2>2, ExactKept
    <2>5. min_ns <= min_ns
      BY <1>3
    <2>6. MinInv'
      BY <1>1, <1>2, <2>1, <2>5 DEF MinInv, Counting, Resetting, Seen, TypeInv
    <2>7. MaxInv'
      BY <1>1, <1>2, <2>1 DEF MaxInv, Counting, Resetting, Seen, TypeInv
    <2> QED
      BY <2>2, <2>3, <2>4, <2>6, <2>7 DEF HInv
  <1>6. CASE ~(lat[r] < old[r] /\ min_ns # old[r])
    <2>1. /\ min_ns' = IF lat[r] < old[r] THEN lat[r] ELSE min_ns
          /\ rec_pc' = [rec_pc EXCEPT ![r] = "readmax"] /\ UNCHANGED old
      BY <1>6 DEF UpdateMin
    <2>2. InCount' = InCount /\ SizeInv' /\ ReaderInv' /\ WalkInv' /\ FoundInv'
      BY <1>1, <2>1, CountsKept
    <2>3. TypeInv'
      BY <1>1, <1>2, <1>3, <2>1 DEF TypeInv
    <2>4. ExactInv'
      BY <1>1, <1>2, <2>1, <2>2, ExactKept
    <2>5. ASSUME Counting PROVE min_ns' \in Nat /\ min_ns' <= min_ns /\ min_ns' <= lat[r]
      <3>1. min_ns <= old[r]
        BY <1>1, <1>2, <2>5 DEF MinInv
      <3> QED
        BY <1>3, <1>6, <2>1, <3>1
    <2>6. MinInv'
      <3> SUFFICES ASSUME Counting' PROVE MinInv'
        BY DEF MinInv
      <3>1. Counting
        BY <1>1 DEF Counting, Resetting
      <3>2. Seen' = Seen
        BY <1>1 DEF Seen
      <3>3. \A q \in Recorders : rec_pc[q] # "idle" => lat[q] \in Seen
        BY <1>2, <3>1 DEF MinInv
      <3>4. \A q \in Recorders : rec_pc'[q] # "idle" => lat'[q] \in Seen'
        BY <1>1, <1>2, <2>1, <3>2, <3>3 DEF TypeInv
      <3>5. min_ns' \in Seen' \cup {Top}
        BY <1>1, <1>2, <2>1, <3>1, <3>2, <3>3 DEF MinInv
      <3>6. ASSUME NEW l \in Seen
            PROVE  \/ min_ns' <= l
                   \/ \E q \in Recorders :
                        lat'[q] = l /\ rec_pc'[q] \in {"count", "sum", "readmin", "min"}
        <4>1. CASE min_ns <= l
          BY <1>3, <1>4, <2>5, <3>1, <4>1
        <4>2. CASE ~(min_ns <= l)
          <5>1. PICK q \in Recorders :
                   lat[q] = l /\ rec_pc[q] \in {"count", "sum", "readmin", "min"}
            BY <1>2, <3>1, <4>2 DEF MinInv
          <5>2. CASE q = r
            BY <2>5, <3>1, <5>1, <5>2
          <5>3. CASE q # r
            <6>1. lat'[q] = l /\ rec_pc'[q] \in {"count", "sum", "readmin", "min"}
              BY <1>1, <1>2, <2>1, <5>1, <5>3 DEF TypeInv
            <6> QED
              BY <6>1
          <5> QED
            BY <5>2, <5>3
        <4> QED
          BY <4>1, <4>2
      <3>7. ASSUME NEW q \in Recorders, rec_pc'[q] = "min" PROVE min_ns' <= old'[q]
        <4>1. q # r /\ rec_pc[q] = "min"
          BY <1>2, <2>1, <3>7 DEF TypeInv
        <4>2. min_ns <= old[q] /\ old[q] \in Nat
          <5>1. min_ns <= old[q]
            BY <1>2, <3>1, <4>1 DEF MinInv
          <5>2. old[q] \in Latencies \cup {0, Top}
            BY <1>2 DEF TypeInv
          <5>3. Latencies \subseteq Nat /\ Top \in Nat /\ 0 \in Nat
            BY HistogramSets
          <5>4. old[q] \in Nat
            BY <5>2, <5>3, Zenon
          <5> QED
            BY <5>1, <5>4
        <4>3. min_ns' <= old[q]
          BY <1>3, <2>5, <3>1, <4>2
        <4> QED
          BY <2>1, <4>3
      <3> QED
        BY <3>2, <3>4, <3>5, <3>6, <3>7 DEF MinInv
    <2>7. MaxInv'
      BY <1>1, <1>2, <2>1 DEF MaxInv, Counting, Resetting, Seen, TypeInv
    <2> QED
      BY <2>2, <2>3, <2>4, <2>6, <2>7 DEF HInv
  <1> QED
    BY <1>5, <1>6

(* The same of the maximum; the recording then ends.                       *)
LEMMA UpdateMaxStep ==
    ASSUME HInv, NEW r \in Recorders, UpdateMax(r)
    PROVE  HInv'
  <1>1. /\ rec_pc[r] = "max"
        /\ UNCHANGED <<buckets, count, samples>> /\ UNCHANGED <<sum_ns, min_ns>>
        /\ UNCHANGED <<rpc, at, total, cumulative, found_at, clean, alone>>
    BY DEF UpdateMax, reader
  <1>2. TypeInv /\ ExactInv /\ MinInv /\ MaxInv
    BY DEF HInv
  <1>3. lat[r] \in Latencies /\ lat[r] \in Nat /\ old[r] \in Nat /\ max_ns \in Nat
    <2>1. /\ lat[r] \in Latencies /\ old[r] \in Latencies \cup {0, Top}
          /\ max_ns \in Latencies \cup {0}
      BY <1>1, <1>2 DEF TypeInv
    <2>2. \A x \in Latencies \cup {0, Top} : x \in Nat
      BY HistogramSets
    <2>3. lat[r] \in Latencies \cup {0, Top} /\ max_ns \in Latencies \cup {0, Top}
      BY <2>1, Zenon
    <2> QED
      BY <2>1, <2>2, <2>3, Zenon
  <1>4. \A l \in Seen : l \in Nat
    BY HistogramSets DEF Seen
  <1>5. CASE lat[r] > old[r] /\ max_ns # old[r]
    <2>1. old' = [old EXCEPT ![r] = max_ns] /\ UNCHANGED <<max_ns, rec_pc, lat>>
      BY <1>5 DEF UpdateMax
    <2>2. InCount' = InCount /\ SizeInv' /\ ReaderInv' /\ WalkInv' /\ FoundInv'
      BY <1>1, <2>1, CountsKept
    <2>3. TypeInv'
      BY <1>1, <1>2, <2>1 DEF TypeInv
    <2>4. ExactInv'
      BY <1>1, <1>2, <2>1, <2>2, ExactKept
    <2>5. max_ns <= max_ns
      BY <1>3
    <2>6. MinInv'
      BY <1>1, <1>2, <2>1 DEF MinInv, Counting, Resetting, Seen, TypeInv
    <2>7. MaxInv'
      BY <1>1, <1>2, <2>1, <2>5 DEF MaxInv, Counting, Resetting, Seen, TypeInv
    <2> QED
      BY <2>2, <2>3, <2>4, <2>6, <2>7 DEF HInv
  <1>6. CASE ~(lat[r] > old[r] /\ max_ns # old[r])
    <2>1. /\ max_ns' = IF lat[r] > old[r] THEN lat[r] ELSE max_ns
          /\ rec_pc' = [rec_pc EXCEPT ![r] = "idle"]
          /\ lat' = [lat EXCEPT ![r] = 0] /\ old' = [old EXCEPT ![r] = 0]
      BY <1>6 DEF UpdateMax
    <2>2. InCount' = InCount /\ SizeInv' /\ ReaderInv' /\ WalkInv' /\ FoundInv'
      BY <1>1, <2>1, CountsKept
    <2>3. TypeInv'
      BY <1>1, <1>2, <1>3, <2>1 DEF TypeInv
    <2>4. ExactInv'
      BY <1>1, <1>2, <2>1, <2>2, ExactKept
    <2>5. ASSUME Counting PROVE max_ns' \in Nat /\ max_ns <= max_ns' /\ lat[r] <= max_ns'
      <3>1. old[r] <= max_ns
        BY <1>1, <1>2, <2>5 DEF MaxInv
      <3> QED
        BY <1>3, <1>6, <2>1, <3>1
    <2>6. MinInv'
      <3>1. ASSUME NEW q \in Recorders, rec_pc[q] \in {"count", "sum", "readmin", "min"}
            PROVE  lat'[q] = lat[q] /\ rec_pc'[q] = rec_pc[q]
        BY <1>1, <1>2, <2>1, <3>1 DEF TypeInv
      <3>2. ASSUME NEW q \in Recorders, rec_pc'[q] # "idle"
            PROVE  rec_pc'[q] = rec_pc[q] /\ lat'[q] = lat[q] /\ old'[q] = old[q]
        BY <1>2, <2>1, <3>2 DEF TypeInv
      <3> QED
        BY <1>1, <1>2, <3>1, <3>2 DEF MinInv, Counting, Resetting, Seen
    <2>7. MaxInv'
      <3> SUFFICES ASSUME Counting' PROVE MaxInv'
        BY DEF MaxInv
      <3>1. Counting
        BY <1>1 DEF Counting, Resetting
      <3>2. Seen' = Seen
        BY <1>1 DEF Seen
      <3>3. lat[r] \in Seen
        BY <1>1, <1>2, <3>1 DEF MinInv
      <3>4. max_ns' \in Seen' \cup {0}
        BY <1>2, <2>1, <3>1, <3>2, <3>3 DEF MaxInv
      <3>5. ASSUME NEW l \in Seen
            PROVE  l <= max_ns' \/ \E q \in Recorders : lat'[q] = l /\ rec_pc'[q] # "idle"
        <4>1. CASE l <= max_ns
          BY <1>3, <1>4, <2>5, <3>1, <4>1
        <4>2. CASE ~(l <= max_ns)
          <5>1. PICK q \in Recorders : lat[q] = l /\ rec_pc[q] # "idle"
            BY <1>2, <3>1, <4>2 DEF MaxInv
          <5>2. CASE q = r
            BY <2>5, <3>1, <5>1, <5>2
          <5>3. CASE q # r
            <6>1. lat'[q] = l /\ rec_pc'[q] # "idle"
              BY <1>2, <2>1, <5>1, <5>3 DEF TypeInv
            <6> QED
              BY <6>1
          <5> QED
            BY <5>2, <5>3
        <4> QED
          BY <4>1, <4>2
      <3>6. ASSUME NEW q \in Recorders, rec_pc'[q] = "max" PROVE old'[q] <= max_ns'
        <4>1. q # r /\ rec_pc[q] = "max"
          BY <1>2, <2>1, <3>6 DEF TypeInv
        <4>2. old[q] <= max_ns /\ old[q] \in Nat
          <5>1. old[q] <= max_ns
            BY <1>2, <3>1, <4>1 DEF MaxInv
          <5>2. old[q] \in Latencies \cup {0, Top}
            BY <1>2 DEF TypeInv
          <5>3. Latencies \subseteq Nat /\ Top \in Nat /\ 0 \in Nat
            BY HistogramSets
          <5>4. old[q] \in Nat
            BY <5>2, <5>3, Zenon
          <5> QED
            BY <5>1, <5>4
        <4>3. old[q] <= max_ns'
          BY <1>3, <2>5, <3>1, <4>2
        <4>4. old'[q] = old[q]
          BY <1>2, <2>1, <4>1 DEF TypeInv
        <4> QED
          BY <4>3, <4>4
      <3> QED
        BY <3>2, <3>4, <3>5, <3>6 DEF MaxInv
    <2> QED
      BY <2>2, <2>3, <2>4, <2>6, <2>7 DEF HInv
  <1> QED
    BY <1>5, <1>6

(* The first increment of a recording: one more in the bucket, one more    *)
(* sample, and one more to count and to add.                               *)
LEMMA RecordStep ==
    ASSUME HInv, NEW r \in Recorders, NEW l \in Latencies, Record(r, l)
    PROVE  HInv'
  <1>1. /\ rec_pc[r] = "idle" /\ clean /\ SumFunction(samples) < MaxSamples
        /\ buckets' = [buckets EXCEPT ![BucketOf(l)] = @ + 1]
        /\ lat' = [lat EXCEPT ![r] = l] /\ rec_pc' = [rec_pc EXCEPT ![r] = "count"]
        /\ samples' = [samples EXCEPT ![l] = @ + 1]
        /\ clean' = (clean /\ ~Resetting) /\ alone' = FALSE
        /\ UNCHANGED <<count, sum_ns, min_ns, max_ns, old, rpc, at, total, cumulative, found_at>>
    BY DEF Record, Room, reader
  <1>2. TypeInv /\ ReaderInv /\ SizeInv /\ ExactInv /\ MinInv /\ MaxInv /\ WalkInv /\ FoundInv
    BY DEF HInv
  <1>3. /\ NBuckets \in Nat /\ MaxSamples \in Nat /\ MaxCount \in Nat /\ l \in Nat
        /\ NBuckets \in 0..NBuckets /\ MaxSamples + 1 <= MaxCount
    BY HistogramSets
  <1>4. buckets \in [Buckets -> Nat] /\ samples \in [Latencies -> Nat] /\ count \in Nat
    BY <1>2 DEF TypeInv
  <1>5. PICK B \in Buckets : B = BucketOf(l)
    BY <1>3, BucketChoice
  <1>6. \A S \in SUBSET Latencies :
           /\ Sum(samples, S) \in Nat
           /\ Sum(samples', S) = IF l \in S THEN Sum(samples, S) + 1 ELSE Sum(samples, S)
    <2>1. ASSUME NEW S \in SUBSET Latencies
          PROVE  /\ Sum(samples, S) \in Nat
                 /\ Sum(samples', S) = IF l \in S THEN Sum(samples, S) + 1 ELSE Sum(samples, S)
      <3>1. IsFiniteSet(S)
        BY HistogramSets
      <3>2. PICK f \in [Latencies -> Nat], g \in [Latencies -> Nat] : f = samples /\ g = samples'
        <4>1. samples' \in [Latencies -> Nat]
          BY <1>1, <1>4
        <4> QED
          BY <1>4, <4>1
      <3>3. g[l] = f[l] + 1 /\ \A x \in Latencies : x # l => g[x] = f[x]
        BY <1>1, <1>4, <3>2
      <3>4. Sum(f, S) \in Nat /\ Sum(g, S) = IF l \in S THEN Sum(f, S) + 1 ELSE Sum(f, S)
        BY <3>1, <3>3, SumIncrement
      <3> QED
        BY <3>2, <3>4
    <2> QED
      BY <2>1
  <1>7. \A S \in SUBSET Buckets :
           /\ Sum(buckets, S) \in Nat
           /\ Sum(buckets', S) = IF B \in S THEN Sum(buckets, S) + 1 ELSE Sum(buckets, S)
    <2>1. ASSUME NEW S \in SUBSET Buckets
          PROVE  /\ Sum(buckets, S) \in Nat
                 /\ Sum(buckets', S) = IF B \in S THEN Sum(buckets, S) + 1 ELSE Sum(buckets, S)
      <3>1. IsFiniteSet(S)
        BY HistogramSets
      <3>2. PICK f \in [Buckets -> Nat], g \in [Buckets -> Nat] : f = buckets /\ g = buckets'
        <4>1. buckets' \in [Buckets -> Nat]
          BY <1>1, <1>4, <1>5
        <4> QED
          BY <1>4, <4>1
      <3>3. g[B] = f[B] + 1 /\ \A x \in Buckets : x # B => g[x] = f[x]
        BY <1>1, <1>4, <1>5, <3>2
      <3>4. Sum(f, S) \in Nat /\ Sum(g, S) = IF B \in S THEN Sum(f, S) + 1 ELSE Sum(f, S)
        BY <3>1, <3>3, SumIncrement
      <3> QED
        BY <3>2, <3>4
    <2> QED
      BY <2>1
  <1>8. Sum(samples, Latencies) < MaxSamples
    <2>1. DOMAIN samples = Latencies
      BY <1>4
    <2> QED
      BY <1>1, <2>1 DEF SumFunction, Sum
  <1>9. Cardinality(InCount) \in Nat /\ Cardinality(InCount') = Cardinality(InCount) + 1
    <2>1. r \notin InCount /\ InCount' = InCount \cup {r}
      BY <1>1, <1>2 DEF InCount, TypeInv
    <2>2. IsFiniteSet(InCount) /\ Cardinality(InCount) \in Nat
      BY HistogramSets DEF InCount
    <2> QED
      BY <2>1, <2>2, FS_AddElement
  <1>10. \A b \in 0..NBuckets :
            /\ 0..(b - 1) \in SUBSET Buckets /\ b..(NBuckets - 1) \in SUBSET Buckets
            /\ Prefix(b) \in Nat
            /\ Prefix(b)' = IF B < b THEN Prefix(b) + 1 ELSE Prefix(b)
    <2>1. ASSUME NEW b \in 0..NBuckets
          PROVE  /\ 0..(b - 1) \in SUBSET Buckets /\ b..(NBuckets - 1) \in SUBSET Buckets
                 /\ Prefix(b) \in Nat
                 /\ Prefix(b)' = IF B < b THEN Prefix(b) + 1 ELSE Prefix(b)
      <3>1. PICK S \in SUBSET Buckets : S = 0..(b - 1)
        BY <1>4, BucketSums
      <3>2. B \in S <=> B < b
        BY <1>3, <3>1 DEF Buckets
      <3>3. Prefix(b) = Sum(buckets, S) /\ Prefix(b)' = Sum(buckets', S)
        BY <3>1 DEF Prefix
      <3>4. b..(NBuckets - 1) \in SUBSET Buckets
        BY <1>4, BucketSums
      <3> QED
        BY <1>7, <3>1, <3>2, <3>3, <3>4
    <2> QED
      BY <2>1
  <1>11. ASSUME Counting
         PROVE  /\ Prefix(NBuckets) = Sum(samples, Latencies)
                /\ count + Cardinality(InCount) = Sum(samples, Latencies)
    <2>1. {k \in Latencies : BucketOf(k) < NBuckets} = Latencies
      <3>1. ASSUME NEW k \in Latencies PROVE BucketOf(k) < NBuckets
        BY HistogramSets, BucketChoice DEF Buckets
      <3> QED
        BY <3>1
    <2> QED
      BY <1>2, <1>3, <1>11, <2>1 DEF ExactInv
  <1>12. TypeInv'
    <2>1. buckets' \in [Buckets -> Nat] /\ samples' \in [Latencies -> Nat]
      BY <1>1, <1>4, <1>5
    <2> QED
      BY <1>1, <1>2, <2>1 DEF TypeInv
  <1>13. ReaderInv'
    BY <1>1, <1>2 DEF ReaderInv, Reading
  <1>14. clean' => Counting
    BY <1>1 DEF Counting
  <1>15. SizeInv'
    <2>1. Sum(samples', Latencies) <= MaxSamples
      BY <1>3, <1>6, <1>8
    <2>2. PICK p \in Nat, c \in Nat, z \in Nat :
             /\ p = Prefix(NBuckets) /\ c = count + Cardinality(InCount)
             /\ z = Sum(samples, Latencies)
      BY <1>3, <1>4, <1>6, <1>9, <1>10
    <2>3. Prefix(NBuckets)' = p + 1 /\ count' + Cardinality(InCount') = c + 1
      <3>1. B < NBuckets
        BY <1>3 DEF Buckets
      <3>2. Prefix(NBuckets)' = p + 1
        BY <1>3, <1>10, <2>2, <3>1
      <3>3. count + (Cardinality(InCount) + 1) = c + 1
        BY <1>4, <1>9, <2>2
      <3> QED
        BY <1>1, <1>9, <3>2, <3>3
    <2>4. p <= MaxSamples /\ c < MaxCount
      BY <1>1, <1>2, <2>2 DEF SizeInv
    <2>5. p + 1 <= MaxSamples + 1 /\ c + 1 <= MaxCount
      BY <1>3, <2>4
    <2>6. ASSUME clean' PROVE p + 1 <= MaxSamples /\ c + 1 < MaxCount
      <3>1. p = z /\ c = z /\ z < MaxSamples
        BY <1>8, <1>11, <1>14, <2>2, <2>6
      <3> QED
        BY <1>3, <3>1
    <2>7. clean' \/ Resetting
      BY <1>1
    <2>8. Resetting' <=> Resetting
      BY <1>1 DEF Resetting
    <2>9. clean' => ~Resetting
      BY <1>1
    <2>10. ASSUME Resetting PROVE Prefix(at)' <= 1
      <3>1. at \in 0..NBuckets /\ at' = at /\ Prefix(at) = 0
        BY <1>1, <1>2, <2>10 DEF ReaderInv, SizeInv
      <3>2. PICK b \in 0..NBuckets : b = at
        BY <3>1
      <3>3. Prefix(b)' <= 1
        BY <1>10, <3>1, <3>2
      <3>4. Prefix(at)' = Sum(buckets', 0..(b - 1)) /\ Prefix(b)' = Sum(buckets', 0..(b - 1))
        BY <3>1, <3>2 DEF Prefix
      <3> QED
        BY <3>3, <3>4
    <2> QED
      BY <2>1, <2>3, <2>5, <2>6, <2>7, <2>8, <2>9, <2>10 DEF SizeInv, MaxCount
  <1>16. ExactInv'
    <2> SUFFICES ASSUME Counting' PROVE ExactInv'
      BY DEF ExactInv
    <2>1. Counting
      BY <1>14 DEF Counting
    <2>2. ASSUME NEW b \in 0..NBuckets
          PROVE  Prefix(b)' = Sum(samples', {k \in Latencies : BucketOf(k) < b})
      <3>1. PICK S \in SUBSET Latencies : S = {k \in Latencies : BucketOf(k) < b}
        OBVIOUS
      <3>2. Prefix(b) = Sum(samples, S) /\ (l \in S <=> B < b)
        BY <1>2, <1>5, <2>1, <3>1 DEF ExactInv
      <3> QED
        BY <1>6, <1>10, <3>1, <3>2
    <2>3. ASSUME NEW b \in Buckets
          PROVE  buckets'[b] = Sum(samples', {k \in Latencies : BucketOf(k) = b})
      <3>1. PICK S \in SUBSET Latencies : S = {k \in Latencies : BucketOf(k) = b}
        OBVIOUS
      <3>2. buckets[b] = Sum(samples, S) /\ (l \in S <=> B = b)
        BY <1>2, <1>5, <2>1, <3>1 DEF ExactInv
      <3>3. buckets'[b] = IF B = b THEN buckets[b] + 1 ELSE buckets[b]
        BY <1>1, <1>4, <1>5
      <3> QED
        BY <1>6, <3>1, <3>2, <3>3
    <2>4. count' + Cardinality(InCount') = Sum(samples', Latencies)
      <3>1. count + Cardinality(InCount) = Sum(samples, Latencies)
        BY <1>11, <2>1
      <3>2. count + (Cardinality(InCount) + 1) = Sum(samples, Latencies) + 1
        BY <1>4, <1>9, <3>1
      <3>3. Sum(samples', Latencies) = Sum(samples, Latencies) + 1
        BY <1>6
      <3> QED
        BY <1>1, <1>9, <3>2, <3>3
    <2>5. sum_ns' + Sum(Pending', Recorders) = Sum(Weighted', Latencies)
      <3>1. PICK f, g : f = Pending /\ g = Pending'
        OBVIOUS
      <3>2. /\ \A q \in Recorders : f[q] \in Nat /\ g[q] \in Nat
            /\ \A q \in Recorders : q # r => g[q] = f[q]
            /\ f[r] = 0 /\ g[r] = l
        BY <1>1, <1>2, <1>3, <3>1, HistogramSets DEF Pending, TypeInv
      <3>3. Sum(g, Recorders) + f[r] = Sum(f, Recorders) + g[r]
        BY <3>2, HistogramSets, SumChange
      <3>4. Sum(g, Recorders) \in Nat /\ Sum(f, Recorders) \in Nat
        BY <3>2, HistogramSets, SumNat
      <3>5. PICK u, v : u = Weighted /\ v = Weighted'
        OBVIOUS
      <3>6. PICK n \in Nat : n = samples[l]
        BY <1>4
      <3>7. /\ \A k \in Latencies : u[k] = k * samples[k] /\ v[k] = k * samples'[k]
            /\ samples'[l] = n + 1
            /\ \A k \in Latencies : k # l => samples'[k] = samples[k]
        BY <1>1, <1>4, <3>5, <3>6 DEF Weighted
      <3>8. \A k \in Latencies : k \in Nat /\ samples[k] \in Nat /\ samples'[k] \in Nat
        BY <1>4, <1>12, HistogramSets DEF TypeInv
      <3>9. \A k \in Latencies : u[k] \in Nat /\ v[k] \in Nat
        BY <3>7, <3>8
      <3>10. \A k \in Latencies : k # l => v[k] = u[k]
        BY <3>7
      <3>11. Sum(v, Latencies) + u[l] = Sum(u, Latencies) + v[l]
        <4>1. IsFiniteSet(Latencies)
          BY HistogramSets
        <4>2. \A k \in Latencies : u[k] \in Nat /\ v[k] \in Nat
          BY <3>9
        <4> QED
          BY <3>10, <4>1, <4>2, SumChange
      <3>12. Sum(v, Latencies) \in Nat /\ Sum(u, Latencies) \in Nat
        BY <3>9, HistogramSets, SumNat
      <3>13. u[l] = l * n /\ v[l] = l * (n + 1) /\ l * (n + 1) = l * n + l
        BY <1>3, <3>6, <3>7
      <3>14. v[l] = u[l] + l
        BY <3>13
      <3>15. sum_ns \in Nat /\ sum_ns + Sum(f, Recorders) = Sum(u, Latencies)
        BY <1>2, <2>1, <3>1, <3>5 DEF ExactInv, TypeInv
      <3>16. sum_ns + Sum(g, Recorders) = Sum(v, Latencies)
        BY <1>3, <3>2, <3>3, <3>4, <3>9, <3>11, <3>12, <3>14, <3>15
      <3> QED
        BY <1>1, <3>1, <3>5, <3>16
    <2> QED
      BY <2>2, <2>3, <2>4, <2>5 DEF ExactInv
  <1>17. /\ l \in Seen' /\ Seen \subseteq Seen'
         /\ \A k \in Seen' : k = l \/ k \in Seen
    BY <1>1, <1>4 DEF Seen
  <1>18. /\ rec_pc'[r] = "count" /\ lat'[r] = l
         /\ \A q \in Recorders : q # r => rec_pc'[q] = rec_pc[q] /\ lat'[q] = lat[q]
    BY <1>1, <1>2 DEF TypeInv
  <1>19. Counting' => Counting
    BY <1>14 DEF Counting
  <1>20. MinInv'
    BY <1>1, <1>2, <1>17, <1>18, <1>19 DEF MinInv
  <1>21. MaxInv'
    BY <1>1, <1>2, <1>17, <1>18, <1>19 DEF MaxInv
  <1>22. WalkInv'
    <2> SUFFICES ASSUME Reading' PROVE WalkInv'
      BY DEF WalkInv
    <2>1. Reading
      BY <1>1 DEF Reading
    <2>2. PICK b \in 0..NBuckets : b = at /\ b = at'
      BY <1>1, <1>2 DEF ReaderInv
    <2>3. PICK S \in SUBSET Buckets : S = b..(NBuckets - 1)
      BY <1>10
    <2>4. cumulative \in Nat /\ total \in Nat
      BY <1>2, <1>3 DEF ReaderInv
    <2>5. cumulative <= Prefix(b) /\ total <= cumulative + Sum(buckets, S)
      BY <1>1, <1>2, <2>1, <2>2, <2>3 DEF WalkInv, Prefix
    <2>6. cumulative <= Prefix(b)'
      BY <1>10, <2>4, <2>5
    <2>7. total <= cumulative + Sum(buckets', S)
      BY <1>7, <2>4, <2>5
    <2>8. Prefix(b)' = Prefix(at)'
      BY <2>2 DEF Prefix
    <2> QED
      BY <1>1, <2>2, <2>3, <2>6, <2>7, <2>8 DEF WalkInv
  <1>23. FoundInv'
    BY <1>1, <1>2 DEF FoundInv, Reading
  <1> QED
    BY <1>12, <1>13, <1>15, <1>16, <1>20, <1>21, <1>22, <1>23 DEF HInv

(* What a summary leaves alone.                                            *)
LEMMA HistogramKept ==
    ASSUME HInv, UNCHANGED <<buckets, count, sum_ns, min_ns, max_ns>>,
           UNCHANGED <<rec_pc, lat, old, samples, clean>>, ~Resetting, ~Resetting'
    PROVE  TypeInv' /\ SizeInv' /\ ExactInv' /\ MinInv' /\ MaxInv'
  <1>1. InCount' = InCount /\ Pending' = Pending /\ Weighted' = Weighted /\ Seen' = Seen
    BY DEF InCount, Pending, Weighted, Seen
  <1>2. TypeInv'
    BY DEF HInv, TypeInv
  <1>3. SizeInv'
    BY <1>1 DEF HInv, SizeInv, Prefix, MaxCount
  <1>4. ExactInv'
    BY <1>1 DEF HInv, ExactInv, Counting, Prefix
  <1>5. MinInv' /\ MaxInv'
    BY <1>1 DEF HInv, MinInv, MaxInv, Counting
  <1> QED
    BY <1>2, <1>3, <1>4, <1>5

(* The first buckets, of which there are none yet.                         *)
LEMMA PrefixZero == Prefix(0) = 0
  <1>1. 0..(0 - 1) = {}
    OBVIOUS
  <1> QED
    BY <1>1, SumEmpty DEF Prefix

(* A summary begins: the count it reads is at most what is in the buckets. *)
LEMMA SummarizeStep ==
    ASSUME HInv, Summarize
    PROVE  HInv'
  <1>1. /\ rpc = "idle" /\ total' = count /\ cumulative' = 0 /\ at' = 0
        /\ found_at' = [p \in Percentiles |-> -1]
        /\ rpc' = IF count = 0 THEN "summarized" ELSE "walk"
        /\ alone' = ~Recording
        /\ UNCHANGED <<buckets, count, sum_ns, min_ns, max_ns>>
        /\ UNCHANGED <<rec_pc, lat, old, samples, clean>>
    BY DEF Summarize, hist, rec
  <1>2. TypeInv /\ ReaderInv /\ SizeInv /\ ExactInv
    BY DEF HInv
  <1>3. ~Resetting /\ ~Resetting'
    BY <1>1 DEF Resetting
  <1>4. TypeInv' /\ SizeInv' /\ ExactInv' /\ MinInv' /\ MaxInv'
    BY <1>1, <1>3, HistogramKept
  <1>5. count \in Nat /\ Cardinality(InCount) \in Nat /\ NBuckets \in Nat /\ NBuckets > 1
    BY <1>2, HistogramSets DEF TypeInv, InCount
  <1>6. count <= MaxCount /\ MaxCount \in Nat
    BY <1>2, <1>5, HistogramSets DEF SizeInv
  <1>7. ReaderInv'
    <2>1. total' \in 0..MaxCount
      BY <1>1, <1>5, <1>6
    <2>2. at' \in 0..NBuckets /\ at' < NBuckets /\ cumulative' \in Nat
      BY <1>1, <1>5
    <2>3. found_at' \in [Percentiles -> Buckets \cup {-1}]
      BY <1>1
    <2>4. clean' \in BOOLEAN /\ alone' \in BOOLEAN
      BY <1>1, <1>2 DEF ReaderInv
    <2> QED
      BY <1>1, <2>1, <2>2, <2>3, <2>4 DEF ReaderInv, Reading, MaxCount
  <1>8. WalkInv'
    <2>1. Prefix(at)' = 0
      <3>1. Prefix(0) = 0
        BY PrefixZero
      <3> QED
        BY <1>1, <3>1 DEF Prefix
    <2>2. ASSUME clean PROVE count <= Sum(buckets, 0..(NBuckets - 1))
      <3>1. Counting
        BY <1>3, <2>2 DEF Counting
      <3>2. {k \in Latencies : BucketOf(k) < NBuckets} = Latencies
        <4>1. ASSUME NEW k \in Latencies PROVE BucketOf(k) < NBuckets
          BY HistogramSets, BucketChoice DEF Buckets
        <4> QED
          BY <4>1
      <3>3. NBuckets \in 0..NBuckets
        BY <1>5
      <3>4. Sum(buckets, 0..(NBuckets - 1)) = count + Cardinality(InCount)
        BY <1>2, <3>1, <3>2, <3>3 DEF ExactInv, Prefix
      <3> QED
        BY <1>5, <3>4
    <2>3. Sum(buckets, 0..(NBuckets - 1)) \in Nat
      <3>1. NBuckets \in 0..NBuckets /\ buckets \in [Buckets -> Nat]
        BY <1>2, <1>5 DEF TypeInv
      <3> QED
        BY <3>1, BucketSums
    <2>4. clean => count <= 0 + Sum(buckets, 0..(NBuckets - 1))
      BY <2>2, <2>3
    <2> QED
      BY <1>1, <2>1, <2>4 DEF WalkInv
  <1>9. FoundInv'
    BY <1>1 DEF FoundInv, Percentiles
  <1> QED
    BY <1>4, <1>7, <1>8, <1>9 DEF HInv

(* A larger share is reached no earlier than a smaller one, and the whole  *)
(* reaches them all.                                                       *)
LEMMA CrossesOrder ==
    ASSUME NEW c \in Nat, NEW t \in Nat
    PROVE  /\ Crosses("p99", c, t) => Crosses("p50", c, t)
           /\ Crosses("p999", c, t) => Crosses("p99", c, t)
           /\ t <= c => \A p \in Percentiles : Crosses(p, c, t)
  <1>1. Crosses("p50", c, t) <=> c * 1000 >= t * 500
    BY DEF Crosses
  <1>2. Crosses("p99", c, t) <=> c * 1000 >= t * 990
    BY DEF Crosses
  <1>3. Crosses("p999", c, t) <=> c * 10000 >= t * 9990
    BY DEF Crosses
  <1>4. /\ c * 1000 >= t * 990 => c * 1000 >= t * 500
        /\ c * 10000 >= t * 9990 => c * 1000 >= t * 990
        /\ t <= c => c * 1000 >= t * 500 /\ c * 1000 >= t * 990 /\ c * 10000 >= t * 9990
    OBVIOUS
  <1> QED
    BY <1>1, <1>2, <1>3, <1>4 DEF Percentiles

(* A bucket is added: it moves from what is still to come to what has      *)
(* been passed, and finds the shares it reaches.                           *)
LEMMA WalkStep ==
    ASSUME HInv, Walk
    PROVE  HInv'
  <1>1. /\ rpc = "walk" /\ cumulative' = cumulative + buckets[at]
        /\ found_at' = [p \in Percentiles |->
                       IF found_at[p] = -1 /\ Crosses(p, cumulative', total)
                       THEN at ELSE found_at[p]]
        /\ at' = at + 1
        /\ rpc' = IF at = NBuckets - 1 THEN "summarized" ELSE "walk"
        /\ UNCHANGED <<buckets, count, sum_ns, min_ns, max_ns>>
        /\ UNCHANGED <<rec_pc, lat, old, samples, clean>>
        /\ UNCHANGED <<total, alone>>
    BY DEF Walk, hist, rec
  <1>2. TypeInv /\ ReaderInv /\ WalkInv /\ FoundInv
    BY DEF HInv
  <1>3. ~Resetting /\ ~Resetting' /\ Reading /\ Reading'
    BY <1>1 DEF Resetting, Reading
  <1>4. TypeInv' /\ SizeInv' /\ ExactInv' /\ MinInv' /\ MaxInv'
    BY <1>1, <1>3, HistogramKept
  <1>5. NBuckets \in Nat /\ MaxCount \in Nat /\ Buckets = 0..(NBuckets - 1)
    BY HistogramSets
  <1>6. PICK b \in Buckets : b = at /\ b \in 0..NBuckets /\ b < NBuckets
                               /\ b + 1 \in 0..NBuckets /\ b \in Nat
    BY <1>1, <1>2, <1>5 DEF ReaderInv
  <1>7. PICK x \in Nat : x = buckets[b]
    BY <1>2 DEF TypeInv
  <1>8. PICK c \in Nat, t \in Nat : c = cumulative /\ t = total
    BY <1>2, <1>5 DEF ReaderInv
  <1>9. cumulative' = c + x /\ total' = t /\ at' = b + 1
    BY <1>1, <1>6, <1>7, <1>8
  <1>10. /\ Sum(buckets, 0..b) = x + Sum(buckets, 0..(b - 1))
         /\ Sum(buckets, b..(NBuckets - 1)) = x + Sum(buckets, (b + 1)..(NBuckets - 1))
         /\ Sum(buckets, 0..(b - 1)) \in Nat
    <2>1. buckets \in [Buckets -> Nat]
      BY <1>2 DEF TypeInv
    <2> QED
      BY <1>6, <1>7, <2>1, BucketSums
  <1>11. Sum(buckets, (b + 1)..(NBuckets - 1)) \in Nat
    <2>1. buckets \in [Buckets -> Nat]
      BY <1>2 DEF TypeInv
    <2> QED
      BY <1>6, <2>1, BucketSums
  <1>12. Prefix(b) \in Nat /\ Prefix(b + 1) = Prefix(b) + x /\ Prefix(at)' = Prefix(b) + x
    <2>1. (b + 1) - 1 = b
      BY <1>6
    <2>2. Prefix(b) = Sum(buckets, 0..(b - 1)) /\ Prefix(b + 1) = Sum(buckets, 0..b)
      BY <2>1 DEF Prefix
    <2>3. Prefix(at)' = Prefix(b + 1)
      BY <1>1, <1>9 DEF Prefix
    <2> QED
      BY <1>10, <2>2, <2>3
  <1>13. ReaderInv'
    <2>1. at' \in 0..NBuckets /\ cumulative' \in Nat
      BY <1>6, <1>9
    <2>2. found_at' \in [Percentiles -> Buckets \cup {-1}]
      BY <1>1, <1>2, <1>6 DEF ReaderInv
    <2>3. IF at = NBuckets - 1 THEN at' = NBuckets ELSE at' < NBuckets
      BY <1>5, <1>6, <1>9
    <2> QED
      BY <1>1, <1>2, <1>3, <2>1, <2>2, <2>3 DEF ReaderInv, MaxCount
  <1>14. WalkInv'
    <2>1. c <= Prefix(b) /\ (alone => c = Prefix(b))
      BY <1>2, <1>3, <1>6, <1>8 DEF WalkInv
    <2>2. clean => t <= c + Sum(buckets, b..(NBuckets - 1))
      BY <1>2, <1>3, <1>6, <1>8 DEF WalkInv
    <2>3. c + x <= Prefix(b) + x /\ (alone => c + x = Prefix(b) + x)
      BY <1>12, <2>1
    <2>4. clean => t <= (c + x) + Sum(buckets, (b + 1)..(NBuckets - 1))
      BY <1>10, <1>11, <2>2
    <2> QED
      BY <1>1, <1>9, <1>12, <2>3, <2>4 DEF WalkInv
  <1>15. ASSUME NEW p \in Percentiles
         PROVE  /\ found_at[p] \in Int /\ found_at[p] >= -1 /\ found_at[p] < b
                /\ found_at'[p] = IF found_at[p] = -1 /\ Crosses(p, c + x, t) THEN b ELSE found_at[p]
                /\ found_at[p] = -1 /\ b > 0 => ~Crosses(p, c, t)
                /\ alone /\ found_at[p] # -1 =>
                     /\ Crosses(p, Prefix(found_at[p] + 1), t)
                     /\ found_at[p] > 0 => ~Crosses(p, Prefix(found_at[p]), t)
    <2>1. found_at[p] \in Buckets \cup {-1}
      BY <1>2 DEF ReaderInv
    <2>2. found_at[p] \in Int /\ found_at[p] >= -1
      BY <1>5, <2>1
    <2>3. found_at'[p] = IF found_at[p] = -1 /\ Crosses(p, c + x, t) THEN b ELSE found_at[p]
      BY <1>1, <1>6, <1>8, <1>9
    <2> QED
      BY <1>2, <1>3, <1>6, <1>8, <2>2, <2>3 DEF FoundInv
  <1>16. ASSUME NEW p \in Percentiles
         PROVE  /\ found_at'[p] < at'
                /\ found_at'[p] = -1 /\ at' > 0 => ~Crosses(p, cumulative', total')
                /\ alone' /\ found_at'[p] # -1 =>
                     /\ Crosses(p, Prefix(found_at[p] + 1)', total')
                     /\ found_at'[p] > 0 => ~Crosses(p, Prefix(found_at[p])', total')
    <2>1. CASE found_at[p] = -1 /\ Crosses(p, c + x, t)
      <3>1. found_at'[p] = b
        BY <1>15, <2>1
      <3>2. ASSUME alone
            PROVE  Crosses(p, Prefix(b + 1), t) /\ (b > 0 => ~Crosses(p, Prefix(b), t))
        <4>1. c = Prefix(b)
          BY <1>2, <1>3, <1>6, <1>8, <3>2 DEF WalkInv
        <4> QED
          BY <1>12, <1>15, <2>1, <4>1
      <3>3. Prefix(found_at[p] + 1)' = Prefix(b + 1) /\ Prefix(found_at[p])' = Prefix(b)
        BY <1>1, <3>1 DEF Prefix
      <3>4. b < b + 1 /\ b # -1
        BY <1>6
      <3> QED
        BY <1>1, <1>9, <3>1, <3>2, <3>3, <3>4
    <2>2. CASE ~(found_at[p] = -1 /\ Crosses(p, c + x, t))
      <3>1. found_at'[p] = found_at[p]
        BY <1>15, <2>2
      <3>2. found_at[p] < b + 1
        BY <1>6, <1>15
      <3>3. Prefix(found_at[p] + 1)' = Prefix(found_at[p] + 1) /\ Prefix(found_at[p])' = Prefix(found_at[p])
        BY <1>1, <3>1 DEF Prefix
      <3> QED
        BY <1>1, <1>9, <1>15, <2>2, <3>1, <3>2, <3>3
    <2> QED
      BY <2>1, <2>2
  <1>17. FoundInv'
    <2>1. "p50" \in Percentiles /\ "p99" \in Percentiles /\ "p999" \in Percentiles
      BY DEF Percentiles
    <2>2. /\ found_at["p99"] # -1 => found_at["p50"] # -1 /\ found_at["p50"] <= found_at["p99"]
          /\ found_at["p999"] # -1 => found_at["p99"] # -1 /\ found_at["p99"] <= found_at["p999"]
      BY <1>2 DEF FoundInv
    <2>3. /\ Crosses("p99", c + x, t) => Crosses("p50", c + x, t)
          /\ Crosses("p999", c + x, t) => Crosses("p99", c + x, t)
      BY CrossesOrder
    <2>4. found_at'["p99"] # -1 => found_at'["p50"] # -1 /\ found_at'["p50"] <= found_at'["p99"]
      BY <1>6, <1>15, <2>1, <2>2, <2>3
    <2>5. found_at'["p999"] # -1 => found_at'["p99"] # -1 /\ found_at'["p99"] <= found_at'["p999"]
      BY <1>6, <1>15, <2>1, <2>2, <2>3
    <2> QED
      BY <1>16, <2>4, <2>5 DEF FoundInv
  <1> QED
    BY <1>4, <1>13, <1>14, <1>17 DEF HInv

(* The reader is done, without a reset.                                    *)
LEMMA ReadEndsStep ==
    ASSUME HInv, ReadEnds
    PROVE  HInv'
  <1>1. /\ rpc = "summarized" /\ rpc' = "idle" /\ alone' = FALSE
        /\ at' = 0 /\ total' = 0 /\ cumulative' = 0
        /\ found_at' = [p \in Percentiles |-> -1]
        /\ UNCHANGED <<buckets, count, sum_ns, min_ns, max_ns>>
        /\ UNCHANGED <<rec_pc, lat, old, samples, clean>>
    BY DEF ReadEnds, Forget, hist, rec
  <1>2. ~Resetting /\ ~Resetting' /\ ~Reading'
    BY <1>1 DEF Resetting, Reading
  <1>3. TypeInv' /\ SizeInv' /\ ExactInv' /\ MinInv' /\ MaxInv'
    BY <1>1, <1>2, HistogramKept
  <1>4. ReaderInv'
    <2>1. at' \in 0..NBuckets /\ total' \in 0..MaxCount /\ cumulative' \in Nat
      BY <1>1, HistogramSets
    <2>2. found_at' \in [Percentiles -> Buckets \cup {-1}]
      BY <1>1
    <2>3. \A p \in Percentiles : found_at'[p] = -1
      BY <1>1
    <2>4. clean' \in BOOLEAN /\ alone' \in BOOLEAN /\ ~alone'
      BY <1>1 DEF HInv, ReaderInv
    <2> QED
      BY <1>1, <2>1, <2>2, <2>3, <2>4 DEF ReaderInv, MaxCount
  <1>5. WalkInv' /\ FoundInv'
    BY <1>1, <1>2 DEF WalkInv, FoundInv, Percentiles
  <1> QED
    BY <1>3, <1>4, <1>5 DEF HInv

(* A reset begins: the samples are forgotten, and it is clean if nobody    *)
(* records.  What an unclean one left behind fits under the bounds again.  *)
LEMMA ResetBeginsStep ==
    ASSUME HInv, ResetBegins
    PROVE  HInv'
  <1>1. /\ rpc = "summarized" /\ rpc' = "clear" /\ alone' = FALSE
        /\ at' = 0 /\ total' = 0 /\ cumulative' = 0
        /\ found_at' = [p \in Percentiles |-> -1]
        /\ samples' = [l \in Latencies |-> 0] /\ clean' = ~Recording
        /\ UNCHANGED <<buckets, count, sum_ns, min_ns, max_ns>>
        /\ UNCHANGED <<rec_pc, lat, old>>
    BY DEF ResetBegins, Forget, hist, rec
  <1>2. ~Resetting /\ Resetting' /\ ~Reading'
    BY <1>1 DEF Resetting, Reading
  <1>3. TypeInv /\ SizeInv /\ ReaderInv
    BY DEF HInv
  <1>4. TypeInv'
    BY <1>1, <1>3 DEF TypeInv
  <1>5. ReaderInv'
    <2>1. at' \in 0..NBuckets /\ total' \in 0..MaxCount /\ cumulative' \in Nat /\ at' < NBuckets
      BY <1>1, HistogramSets
    <2>2. found_at' \in [Percentiles -> Buckets \cup {-1}]
      BY <1>1
    <2>3. \A p \in Percentiles : found_at'[p] = -1
      BY <1>1
    <2>4. clean' \in BOOLEAN /\ alone' \in BOOLEAN /\ ~alone'
      BY <1>1
    <2> QED
      BY <1>1, <2>1, <2>2, <2>3, <2>4 DEF ReaderInv, MaxCount
  <1>6. SizeInv'
    <2>1. Sum(samples', Latencies) = 0 /\ \A l \in Latencies : samples'[l] = 0
      <3>1. \A l \in Latencies : samples'[l] = 0
        BY <1>1
      <3> QED
        BY <3>1, HistogramSets, SumZero
    <2>2. InCount' = InCount /\ (Recording' <=> Recording)
      BY <1>1 DEF InCount, Recording
    <2>3. Prefix(at)' = 0 /\ Prefix(NBuckets)' = Prefix(NBuckets)
      <3>1. Prefix(0) = 0
        BY PrefixZero
      <3> QED
        BY <1>1, <3>1 DEF Prefix
    <2>4. PICK p \in Nat, c \in Nat :
             p = Prefix(NBuckets) /\ c = count + Cardinality(InCount)
      <3>1. NBuckets \in 0..NBuckets /\ buckets \in [Buckets -> Nat] /\ count \in Nat
        BY <1>3, HistogramSets DEF TypeInv
      <3>2. Prefix(NBuckets) \in Nat
        BY <3>1, BucketSums DEF Prefix
      <3>3. Cardinality(InCount) \in Nat
        BY HistogramSets DEF InCount
      <3> QED
        BY <3>1, <3>2, <3>3
    <2>5. p <= MaxSamples /\ c < MaxCount
      <3>1. CASE clean
        BY <1>3, <2>4, <3>1 DEF SizeInv
      <3>2. CASE ~clean
        <4>1. p <= 1 /\ c <= Cardinality(Recorders)
          BY <1>2, <1>3, <2>4, <3>2 DEF SizeInv
        <4> QED
          BY <4>1, HistogramSets
      <3> QED
        BY <3>1, <3>2
    <2>6. p <= MaxSamples + 1 /\ c <= MaxCount /\ 0 <= MaxSamples
      BY <2>5, HistogramSets
    <2>7. count' + Cardinality(InCount') = c
      BY <1>1, <2>2, <2>4
    <2>8. Sum(samples', Latencies) <= MaxSamples
      BY <2>1, <2>6
    <2>9. /\ Prefix(NBuckets)' <= MaxSamples + 1 /\ Prefix(NBuckets)' <= MaxSamples
          /\ count' + Cardinality(InCount') <= MaxCount
          /\ count' + Cardinality(InCount') < MaxCount
      BY <2>3, <2>4, <2>5, <2>6, <2>7
    <2>10. clean' => ~Recording'
      BY <1>1, <2>2
    <2>11. Prefix(at)' <= 1
      BY <2>3
    <2> QED
      BY <1>2, <2>1, <2>3, <2>8, <2>9, <2>10, <2>11 DEF SizeInv, MaxCount
  <1>7. ExactInv' /\ MinInv' /\ MaxInv'
    BY <1>2 DEF ExactInv, MinInv, MaxInv, Counting
  <1>8. WalkInv' /\ FoundInv'
    BY <1>1, <1>2 DEF WalkInv, FoundInv, Percentiles
  <1> QED
    BY <1>4, <1>5, <1>6, <1>7, <1>8 DEF HInv

(* A bucket is cleared, and with it those before it.                       *)
LEMMA ClearBucketStep ==
    ASSUME HInv, ClearBucket
    PROVE  HInv'
  <1>1. /\ rpc = "clear" /\ buckets' = [buckets EXCEPT ![at] = 0] /\ at' = at + 1
        /\ rpc' = IF at = NBuckets - 1 THEN "fields" ELSE "clear"
        /\ UNCHANGED <<count, sum_ns, min_ns, max_ns>>
        /\ UNCHANGED <<rec_pc, lat, old, samples, clean>>
        /\ UNCHANGED <<total, cumulative, found_at, alone>>
    BY DEF ClearBucket, rec
  <1>2. Resetting /\ Resetting' /\ ~Reading /\ ~Reading'
    BY <1>1 DEF Resetting, Reading
  <1>3. TypeInv /\ SizeInv /\ ReaderInv /\ FoundInv
    BY DEF HInv
  <1>4. NBuckets \in Nat /\ Buckets = 0..(NBuckets - 1)
    BY HistogramSets
  <1>5. PICK b \in Buckets : b = at /\ b \in 0..NBuckets /\ b < NBuckets /\ b \in Nat
    BY <1>1, <1>3, <1>4 DEF ReaderInv
  <1>6. PICK f \in [Buckets -> Nat], g \in [Buckets -> Nat] :
           /\ f = buckets /\ g = buckets' /\ g[b] = 0
           /\ \A x \in Buckets : x # b => g[x] = f[x]
    <2>1. buckets \in [Buckets -> Nat]
      BY <1>3 DEF TypeInv
    <2>2. buckets' \in [Buckets -> Nat] /\ buckets'[b] = 0
      BY <1>1, <1>5, <2>1
    <2>3. \A x \in Buckets : x # b => buckets'[x] = buckets[x]
      BY <1>1, <1>5, <2>1
    <2> QED
      BY <2>1, <2>2, <2>3
  <1>7. TypeInv'
    BY <1>1, <1>3, <1>6 DEF TypeInv
  <1>8. ReaderInv'
    <2>1. at' \in 0..NBuckets
      <3>1. b + 1 \in 0..NBuckets
        BY <1>4, <1>5
      <3> QED
        BY <1>1, <1>5, <3>1
    <2>2. IF at = NBuckets - 1 THEN at' = NBuckets ELSE at' < NBuckets
      BY <1>1, <1>4, <1>5
    <2> QED
      BY <1>1, <1>2, <1>3, <2>1, <2>2 DEF ReaderInv, MaxCount
  <1>9. Prefix(at)' = Prefix(at)
    <2>1. PICK S \in SUBSET Buckets : S = 0..(b - 1)
      BY <1>6, <1>5, BucketSums
    <2>2. Sum(g, 0..b) = g[b] + Sum(g, 0..(b - 1)) /\ Sum(g, 0..(b - 1)) \in Nat
      BY <1>5, <1>6, BucketSums
    <2>3. b \notin S /\ IsFiniteSet(S)
      BY <1>5, <2>1, HistogramSets
    <2>4. Sum(g, S) = Sum(f, S)
      BY <1>6, <2>3, SumSame
    <2>5. Sum(g, 0..b) = Sum(f, 0..(b - 1))
      BY <1>6, <2>1, <2>2, <2>4
    <2>6. at' - 1 = b
      BY <1>1, <1>5
    <2> QED
      BY <1>5, <1>6, <2>5, <2>6 DEF Prefix
  <1>10. Prefix(NBuckets) \in Nat /\ Prefix(NBuckets)' \in Nat /\ Prefix(NBuckets)' <= Prefix(NBuckets)
    <2>1. PICK S \in SUBSET Buckets : S = 0..(NBuckets - 1) /\ b \in S
      BY <1>4
    <2>2. IsFiniteSet(S) /\ \A x \in S : f[x] \in Nat /\ g[x] \in Nat
      BY HistogramSets
    <2>3. Sum(g, S) + f[b] = Sum(f, S) + g[b]
      <3>1. \A x \in S : x # b => g[x] = f[x]
        BY <1>6
      <3>2. \A d : (\A x \in S : x # d => g[x] = f[x]) =>
                   (d \in S => Sum(g, S) + f[d] = Sum(f, S) + g[d])
        BY <2>2, SumChange
      <3> QED
        BY <2>1, <3>1, <3>2
    <2>4. Sum(f, S) \in Nat /\ Sum(g, S) \in Nat
      BY <2>2, SumNat
    <2>5. Sum(g, S) <= Sum(f, S)
      <3>1. f[b] \in Nat /\ g[b] = 0
        BY <1>6
      <3> QED
        BY <2>3, <2>4, <3>1
    <2> QED
      BY <1>6, <2>1, <2>4, <2>5 DEF Prefix
  <1>11. SizeInv'
    <2>1. InCount' = InCount /\ (Recording' <=> Recording)
      BY <1>1 DEF InCount, Recording
    <2>2. PICK p \in Nat, q \in Nat : p = Prefix(NBuckets) /\ q = Prefix(NBuckets)' /\ q <= p
      BY <1>10
    <2>3. p <= MaxSamples + 1 /\ (clean => p <= MaxSamples)
      BY <1>3, <2>2 DEF SizeInv
    <2>4. q <= MaxSamples + 1 /\ (clean => q <= MaxSamples)
      BY <2>2, <2>3, HistogramSets
    <2> QED
      BY <1>1, <1>2, <1>3, <1>9, <2>1, <2>2, <2>4 DEF SizeInv, MaxCount
  <1>12. ExactInv' /\ MinInv' /\ MaxInv'
    BY <1>2 DEF ExactInv, MinInv, MaxInv, Counting
  <1>13. WalkInv' /\ FoundInv'
    BY <1>1, <1>2, <1>3 DEF WalkInv, FoundInv
  <1> QED
    BY <1>7, <1>8, <1>11, <1>12, <1>13 DEF HInv

(* The reset ends: if it was clean the buckets are empty, nobody records,  *)
(* and the histogram is the one of no samples.                             *)
LEMMA ClearFieldsStep ==
    ASSUME HInv, ClearFields
    PROVE  HInv'
  <1>1. /\ rpc = "fields" /\ count' = 0 /\ sum_ns' = 0 /\ min_ns' = Top /\ max_ns' = 0
        /\ rpc' = "idle" /\ at' = 0
        /\ UNCHANGED <<buckets, rec_pc, lat, old, samples, clean>>
        /\ UNCHANGED <<total, cumulative, found_at, alone>>
    BY DEF ClearFields, rec
  <1>2. Resetting /\ ~Resetting' /\ ~Reading /\ ~Reading'
    BY <1>1 DEF Resetting, Reading
  <1>3. TypeInv /\ SizeInv /\ ReaderInv /\ FoundInv
    BY DEF HInv
  <1>4. TypeInv'
    BY <1>1, <1>3 DEF TypeInv
  <1>5. ReaderInv'
    <2>1. at' \in 0..NBuckets
      BY <1>1, HistogramSets
    <2> QED
      BY <1>1, <1>2, <1>3, <2>1 DEF ReaderInv, MaxCount
  <1>6. InCount' = InCount /\ IsFiniteSet(InCount) /\ Cardinality(InCount) \in Nat
        /\ Cardinality(InCount) <= Cardinality(Recorders)
    BY <1>1, HistogramSets, FS_Subset DEF InCount
  <1>7. at = NBuckets /\ NBuckets \in 0..NBuckets /\ buckets \in [Buckets -> Nat]
    BY <1>1, <1>3, HistogramSets DEF ReaderInv, TypeInv
  <1>8. PICK p \in Nat : p = Prefix(NBuckets) /\ p <= 1 /\ (clean => p = 0)
    <2>1. Prefix(NBuckets) \in Nat
      BY <1>7, BucketSums DEF Prefix
    <2>2. Prefix(NBuckets) <= 1 /\ (clean => Prefix(NBuckets) = 0)
      BY <1>2, <1>3, <1>7 DEF SizeInv
    <2> QED
      BY <2>1, <2>2
  <1>9. Prefix(NBuckets)' = p
    BY <1>1, <1>8 DEF Prefix
  <1>10. ASSUME clean
         PROVE  /\ ~Recording /\ \A l \in Latencies : samples[l] = 0
                /\ \A r \in Recorders : rec_pc[r] = "idle"
                /\ InCount = {} /\ Cardinality(InCount) = 0
    <2>1. ~Recording /\ \A l \in Latencies : samples[l] = 0
      BY <1>2, <1>3, <1>10 DEF SizeInv
    <2>2. \A r \in Recorders : rec_pc[r] = "idle"
      BY <2>1 DEF Recording
    <2>3. InCount = {}
      BY <2>2 DEF InCount
    <2> QED
      BY <2>1, <2>2, <2>3, FS_EmptySet
  <1>11. SizeInv'
    <2>1. PICK c \in Nat : c = Cardinality(InCount) /\ c <= Cardinality(Recorders) /\ (clean => c = 0)
      BY <1>6, <1>10
    <2>2. count' + Cardinality(InCount') = c
      <3>1. 0 + c = c
        BY <2>1
      <3> QED
        BY <1>1, <1>6, <2>1, <3>1
    <2>3. /\ p <= MaxSamples + 1 /\ c <= MaxCount
          /\ clean => p <= MaxSamples /\ c < MaxCount
      BY <1>8, <2>1, HistogramSets
    <2>4. Sum(samples', Latencies) <= MaxSamples
      BY <1>1, <1>3 DEF SizeInv
    <2> QED
      BY <1>1, <1>2, <1>8, <1>9, <2>1, <2>2, <2>3, <2>4 DEF SizeInv, MaxCount
  <1>12. ExactInv'
    <2> SUFFICES ASSUME clean PROVE ExactInv'
      BY <1>1 DEF ExactInv, Counting
    <2>1. \A S \in SUBSET Latencies : Sum(samples', S) = 0
      <3>1. \A S \in SUBSET Latencies : Sum(samples, S) = 0
        BY <1>10, HistogramSets, SumZero
      <3> QED
        BY <1>1, <3>1
    <2>2. ASSUME NEW b \in 0..NBuckets PROVE Prefix(b)' = 0
      <3>1. Sum(buckets, 0..(b - 1)) \in Nat /\ Sum(buckets, 0..(b - 1)) <= Sum(buckets, 0..(NBuckets - 1))
        BY <1>7, BucketSums
      <3>2. Sum(buckets, 0..(NBuckets - 1)) = 0
        BY <1>8 DEF Prefix
      <3>3. Sum(buckets, 0..(b - 1)) = 0
        BY <3>1, <3>2
      <3> QED
        BY <1>1, <3>3 DEF Prefix
    <2>3. ASSUME NEW b \in Buckets PROVE buckets'[b] = 0
      <3>1. b \in 0..NBuckets /\ b < NBuckets /\ buckets[b] \in Nat
        BY <1>7, HistogramSets
      <3>2. buckets[b] <= Sum(buckets, 0..(NBuckets - 1))
        BY <1>7, <3>1, BucketSums
      <3>3. Sum(buckets, 0..(NBuckets - 1)) = 0
        BY <1>8 DEF Prefix
      <3> QED
        BY <1>1, <3>1, <3>2, <3>3
    <2>4. Sum(Pending', Recorders) = 0
      <3>1. \A r \in Recorders : Pending'[r] = 0
        BY <1>1, <1>10 DEF Pending
      <3> QED
        BY <3>1, HistogramSets, SumZero
    <2>5. Sum(Weighted', Latencies) = 0
      <3>1. \A l \in Latencies : Weighted'[l] = 0
        BY <1>1, <1>10, HistogramSets DEF Weighted
      <3> QED
        BY <3>1, HistogramSets, SumZero
    <2>6. count' + Cardinality(InCount') = 0 /\ Sum(samples', Latencies) = 0
      BY <1>1, <1>6, <1>10, <2>1
    <2>7. sum_ns' + Sum(Pending', Recorders) = 0
      BY <1>1, <2>4
    <2>8. \A b \in 0..NBuckets :
             Prefix(b)' = Sum(samples', {l \in Latencies : BucketOf(l) < b})
      BY <2>1, <2>2
    <2>9. \A b \in Buckets :
             buckets'[b] = Sum(samples', {l \in Latencies : BucketOf(l) = b})
      BY <2>1, <2>3
    <2> QED
      BY <2>5, <2>6, <2>7, <2>8, <2>9 DEF ExactInv
  <1>13. MinInv' /\ MaxInv'
    <2> SUFFICES ASSUME clean PROVE MinInv' /\ MaxInv'
      BY <1>1 DEF MinInv, MaxInv, Counting
    <2>1. Seen' = {}
      BY <1>1, <1>10 DEF Seen
    <2>2. \A r \in Recorders : rec_pc'[r] = "idle"
      BY <1>1, <1>10
    <2> QED
      BY <1>1, <2>1, <2>2 DEF MinInv, MaxInv
  <1>14. WalkInv' /\ FoundInv'
    BY <1>1, <1>2, <1>3 DEF WalkInv, FoundInv
  <1> QED
    BY <1>4, <1>5, <1>11, <1>12, <1>13, <1>14 DEF HInv

(* Every step keeps the invariant.                                         *)
LEMMA StepHInv ==
    ASSUME HInv, [HistogramNext]_histogramvars
    PROVE  HInv'
  <1>1. CASE UNCHANGED histogramvars
    <2>1. UNCHANGED <<buckets, count, sum_ns, min_ns, max_ns, rec_pc, lat, old, samples>>
          /\ UNCHANGED <<rpc, at, total, cumulative, found_at, clean, alone>>
      BY <1>1 DEF histogramvars, hist, rec, reader
    <2>2. ReaderInv' /\ WalkInv' /\ FoundInv'
      BY <2>1, ReaderKept
    <2>3. InCount' = InCount /\ Pending' = Pending /\ Weighted' = Weighted /\ Seen' = Seen
      BY <2>1 DEF InCount, Pending, Weighted, Seen
    <2>4. TypeInv'
      BY <2>1 DEF HInv, TypeInv
    <2>5. SizeInv'
      BY <2>1, <2>3 DEF HInv, SizeInv, Prefix, MaxCount, Resetting, Recording
    <2>6. ExactInv'
      BY <2>1, <2>3 DEF HInv, ExactInv, Counting, Prefix, Resetting
    <2>7. MinInv' /\ MaxInv'
      BY <2>1, <2>3 DEF HInv, MinInv, MaxInv, Counting, Resetting
    <2> QED
      BY <2>2, <2>4, <2>5, <2>6, <2>7 DEF HInv
  <1>2. CASE HistogramNext
    <2>1. ASSUME NEW r \in Recorders, Steps(r) PROVE HInv'
      BY <2>1, CountStep, AddStep, ReadMinStep, UpdateMinStep, ReadMaxStep, UpdateMaxStep
         DEF Steps
    <2>2. ASSUME NEW r \in Recorders, NEW l \in Latencies, Record(r, l) PROVE HInv'
      BY <2>2, RecordStep
    <2> QED
      BY <1>2, <2>1, <2>2, SummarizeStep, WalkStep, ReadEndsStep, ResetBeginsStep,
         ClearBucketStep, ClearFieldsStep DEF HistogramNext
  <1> QED
    BY <1>1, <1>2

(* The invariant bounds the counters.                                      *)
LEMMA HistogramTypes ==
    ASSUME HInv
    PROVE  HistogramTypeOK
  <1>1. TypeInv /\ ReaderInv /\ SizeInv /\ WalkInv
    BY DEF HInv
  <1>2. /\ NBuckets \in Nat /\ Buckets = 0..(NBuckets - 1) /\ MaxSamples \in Nat
        /\ MaxCount \in Nat /\ MaxSamples + 1 <= MaxCount /\ NBuckets \in 0..NBuckets
    BY HistogramSets
  <1>3. buckets \in [Buckets -> Nat] /\ samples \in [Latencies -> Nat] /\ count \in Nat
    BY <1>1 DEF TypeInv
  <1>4. PICK p \in Nat : p = Sum(buckets, 0..(NBuckets - 1)) /\ p <= MaxCount
    <2>1. Sum(buckets, 0..(NBuckets - 1)) \in Nat
      BY <1>2, <1>3, BucketSums
    <2>2. Sum(buckets, 0..(NBuckets - 1)) <= MaxSamples + 1
      BY <1>1 DEF SizeInv, Prefix
    <2> QED
      BY <1>2, <2>1, <2>2
  <1>5. ASSUME NEW b \in Buckets PROVE buckets[b] \in 0..MaxCount
    <2>1. b \in 0..NBuckets /\ b < NBuckets /\ buckets[b] \in Nat
      BY <1>2, <1>3
    <2>2. buckets[b] <= p
      BY <1>3, <1>4, <2>1, BucketSums
    <2> QED
      BY <1>2, <1>4, <2>1, <2>2
  <1>6. buckets \in [Buckets -> 0..MaxCount]
    BY <1>3, <1>5
  <1>7. count \in 0..MaxCount
    <2>1. PICK c \in Nat : c = Cardinality(InCount)
      BY HistogramSets DEF InCount
    <2>2. count + c <= MaxCount
      BY <1>1, <2>1 DEF SizeInv
    <2> QED
      BY <1>2, <1>3, <2>1, <2>2
  <1>8. ASSUME NEW l \in Latencies PROVE samples[l] \in 0..MaxSamples
    <2>1. samples[l] <= Sum(samples, Latencies) /\ Sum(samples, Latencies) \in Nat
      BY <1>3, HistogramSets, SumMember, SumNat
    <2>2. Sum(samples, Latencies) <= MaxSamples /\ samples[l] \in Nat
      BY <1>1, <1>3 DEF SizeInv
    <2> QED
      BY <1>2, <2>1, <2>2
  <1>9. samples \in [Latencies -> 0..MaxSamples]
    BY <1>3, <1>8
  <1>10. cumulative \in 0..MaxCount
    <2>1. CASE ~Reading
      <3>1. cumulative = 0
        BY <1>1, <2>1 DEF ReaderInv
      <3> QED
        BY <1>2, <3>1
    <2>2. CASE Reading
      <3>1. at \in 0..NBuckets /\ cumulative \in Nat
        BY <1>1 DEF ReaderInv
      <3>2. cumulative <= Sum(buckets, 0..(at - 1))
        BY <1>1, <2>2 DEF WalkInv, Prefix
      <3>3. Sum(buckets, 0..(at - 1)) \in Nat /\ Sum(buckets, 0..(at - 1)) <= p
        BY <1>3, <1>4, <3>1, BucketSums
      <3> QED
        BY <1>2, <1>4, <3>1, <3>2, <3>3
    <2> QED
      BY <2>1, <2>2
  <1> QED
    BY <1>1, <1>6, <1>7, <1>9, <1>10 DEF HistogramTypeOK, TypeInv, ReaderInv

(* Nothing pending, the counters are the samples.                          *)
LEMMA QuietExact ==
    ASSUME HInv
    PROVE  QuietIsExact
  <1> SUFFICES ASSUME clean, ~Recording, ~Resetting PROVE QuietIsExact
    BY DEF QuietIsExact
  <1>1. TypeInv /\ ExactInv /\ MinInv /\ MaxInv /\ Counting
    BY DEF HInv, Counting
  <1>2. \A r \in Recorders : rec_pc[r] = "idle"
    BY DEF Recording
  <1>3. Cardinality(InCount) = 0 /\ Sum(Pending, Recorders) = 0
    <2>1. InCount = {}
      BY <1>2 DEF InCount
    <2>2. \A r \in Recorders : Pending[r] = 0
      BY <1>2 DEF Pending
    <2> QED
      BY <2>1, <2>2, FS_EmptySet, HistogramSets, SumZero
  <1>4. samples \in [Latencies -> Nat] /\ count \in Nat /\ sum_ns \in Nat
    BY <1>1 DEF TypeInv
  <1>5. SumFunction(samples) = Sum(samples, Latencies)
    <2>1. DOMAIN samples = Latencies
      BY <1>4
    <2> QED
      BY <2>1 DEF SumFunction, Sum
  <1>6. SumFunction([l \in Latencies |-> l * samples[l]]) = Sum(Weighted, Latencies)
    BY DEF SumFunction, Sum, Weighted
  <1>7. count = SumFunction(samples)
    <2>1. count + 0 = Sum(samples, Latencies)
      BY <1>1, <1>3 DEF ExactInv
    <2> QED
      BY <1>4, <1>5, <2>1
  <1>8. sum_ns = SumFunction([l \in Latencies |-> l * samples[l]])
    <2>1. sum_ns + 0 = Sum(Weighted, Latencies)
      BY <1>1, <1>3 DEF ExactInv
    <2> QED
      BY <1>4, <1>6, <2>1
  <1>9. \A b \in Buckets :
           buckets[b] = SumFunctionOnSet(samples, {l \in Latencies : BucketOf(l) = b})
    BY <1>1 DEF ExactInv, Sum
  <1>10. \A l \in Seen : l \in Nat /\ l < Top /\ min_ns <= l /\ l <= max_ns
    BY <1>1, <1>2, HistogramAssumption DEF MinInv, MaxInv, Seen
  <1>11. min_ns \in Seen \cup {Top} /\ max_ns \in Seen \cup {0}
    BY <1>1 DEF MinInv, MaxInv
  <1>12. ASSUME NEW l \in Seen PROVE min_ns \in Seen /\ max_ns \in Seen
    <2>1. l \in Nat /\ l < Top /\ min_ns <= l /\ l <= max_ns /\ Top \in Nat
      BY <1>10, HistogramSets
    <2>2. min_ns # Top
      BY <2>1
    <2>3. max_ns = 0 => l = 0
      BY <2>1
    <2> QED
      BY <1>11, <2>2, <2>3
  <1>13. Seen = {} => min_ns = Top /\ max_ns = 0
    BY <1>11
  <1> QED
    BY <1>7, <1>8, <1>9, <1>10, <1>12, <1>13 DEF QuietIsExact, Seen

(* A summary finds all its percentiles, in order, and exactly if alone.    *)
LEMMA SummaryExact ==
    ASSUME HInv
    PROVE  SummarySound
  <1>1. TypeInv /\ ReaderInv /\ ExactInv /\ WalkInv /\ FoundInv
    BY DEF HInv
  <1>2. NBuckets \in Nat /\ Buckets = 0..(NBuckets - 1)
    BY HistogramSets
  <1>3. ASSUME rpc = "summarized", clean, total > 0
        PROVE  \A p \in Percentiles : found_at[p] # -1
    <2>1. total \in Nat /\ cumulative \in Nat /\ at = NBuckets /\ Reading
      BY <1>1, <1>3, HistogramSets DEF ReaderInv, Reading
    <2>2. total <= cumulative
      <3>1. at..(NBuckets - 1) = {}
        BY <1>2, <2>1
      <3>2. total <= cumulative + Sum(buckets, {})
        BY <1>1, <1>3, <2>1, <3>1 DEF WalkInv
      <3>3. Sum(buckets, {}) = 0
        BY SumEmpty
      <3> QED
        BY <2>1, <3>2, <3>3
    <2>3. \A p \in Percentiles : Crosses(p, cumulative, total)
      BY <2>1, <2>2, CrossesOrder
    <2>4. at > 0
      BY <2>1, HistogramSets
    <2> QED
      BY <1>1, <2>1, <2>3, <2>4 DEF FoundInv
  <1>4. PercentilesFound
    <2> SUFFICES ASSUME rpc = "summarized", clean, total > 0
                 PROVE  /\ \A p \in Percentiles : found_at[p] # -1
                        /\ found_at["p50"] <= found_at["p99"] /\ found_at["p99"] <= found_at["p999"]
      BY DEF PercentilesFound
    <2>1. \A p \in Percentiles : found_at[p] # -1
      BY <1>3
    <2>2. "p99" \in Percentiles /\ "p999" \in Percentiles
      BY DEF Percentiles
    <2> QED
      BY <1>1, <2>1, <2>2 DEF FoundInv
  <1>5. PercentilesExact
    <2> SUFFICES ASSUME rpc = "summarized", clean, alone, total > 0, NEW p \in Percentiles
                 PROVE  /\ Crosses(p, Below(Upper(found_at[p])), total)
                        /\ found_at[p] > 0 => ~Crosses(p, Below(Upper(found_at[p] - 1)), total)
      BY DEF PercentilesExact
    <2>1. Counting /\ Reading
      BY DEF Counting, Reading, Resetting
    <2>2. PICK b \in Buckets : b = found_at[p]
      BY <1>1, <1>3 DEF ReaderInv
    <2>3. ASSUME NEW d \in Buckets PROVE Below(Upper(d)) = Prefix(d + 1)
      <3>1. {l \in Latencies : l < Upper(d)} = {l \in Latencies : BucketOf(l) < d + 1}
        BY BucketBelow
      <3>2. d + 1 \in 0..NBuckets
        BY <1>2
      <3>3. Prefix(d + 1) = Sum(samples, {l \in Latencies : BucketOf(l) < d + 1})
        BY <1>1, <2>1, <3>2 DEF ExactInv
      <3> QED
        BY <3>1, <3>3 DEF Below, Sum
    <2>4. b # -1 /\ b \in Nat
      BY <1>2
    <2>5. /\ Crosses(p, Prefix(b + 1), total)
          /\ b > 0 => ~Crosses(p, Prefix(b), total)
      BY <1>1, <2>1, <2>2, <2>4 DEF FoundInv
    <2>6. ASSUME b > 0 PROVE Below(Upper(b - 1)) = Prefix(b)
      <3>1. PICK d \in Buckets : d = b - 1 /\ d + 1 = b
        BY <1>2, <2>6
      <3> QED
        BY <2>3, <3>1
    <2> QED
      BY <2>2, <2>3, <2>5, <2>6
  <1> QED
    BY <1>4, <1>5 DEF SummarySound

(* The inductive invariant of the histogram.                               *)
THEOREM HistogramInvariant == HistogramSpec => []HInv
  <1>1. HistogramInit => HInv
    BY InitHInv
  <1>2. HInv /\ [HistogramNext]_histogramvars => HInv'
    BY StepHInv
  <1> QED
    BY <1>1, <1>2, PTL DEF HistogramSpec

(* dmaplane_histogram_record, for any number of recorders, buckets and     *)
(* latencies, however their atomic operations and cmpxchg loops            *)
(* interleave: the counters stay in range, and are exactly the samples     *)
(* once every recording has ended, unless a reset overlapped one.          *)
THEOREM HistogramIsSafe == HistogramSpec => []HistogramSafe
  <1>1. HInv => HistogramSafe
    BY HistogramTypes, QuietExact DEF HistogramSafe
  <1>2. HistogramSpec => []HInv
    BY HistogramInvariant
  <1> QED
    BY <1>1, <1>2, PTL

(* dmaplane_histogram_summarize misses no percentile while samples come in *)
(* and reports exact ones when none do.                                    *)
THEOREM SummaryIsSound == HistogramSpec => []SummarySound
  <1>1. HInv => SummarySound
    BY SummaryExact
  <1>2. HistogramSpec => []HInv
    BY HistogramInvariant
  <1> QED
    BY <1>1, <1>2, PTL

=============================================================================
