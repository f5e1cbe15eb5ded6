-------------------------------- MODULE Bench --------------------------------
(***************************************************************************)
(* The benchmarks on the loopback QP pair (driver/benchmark.c): LOOPBACK   *)
(* and PINGPONG, which pair one receive with one send and wait for both    *)
(* ("paired"; a loopback is a ping-pong of one iteration), STREAMING, and  *)
(* the queue depth sweep of driver/flow_control.c, composed with the       *)
(* sustained streams of module Flow, which use the same queue pairs and    *)
(* CQs.  One call runs at a time.                                          *)
(*                                                                         *)
(* A call that fails or times out may leave sends on the wire, and         *)
(* completions, that nobody collects; nothing keeps the next call from     *)
(* beginning all the same, and it finds them.  The history variable left   *)
(* records that this has happened: until TEARDOWN_RDMA and SETUP_RDMA, or  *)
(* until a call begins with nothing on the wire and its CQs flushed, the   *)
(* counts of the calls are not what they sent, and the properties that     *)
(* rest on them are stated for the rest of the time.                       *)
(*                                                                         *)
(* outstanding is sent - completed: both counters move with it.            *)
(***************************************************************************)
EXTENDS Flow

CONSTANTS BenchDepths,   \* queue depths of the benchmarks, without gaps
          Iterations,    \* iterations they ask for
          MaxStray       \* bound: a call begins with no more than this left behind

ASSUME BenchAssumption ==
    /\ BenchDepths \subseteq Nat \ {0} /\ Iterations \subseteq Nat \ {0}
    /\ \A m, n \in BenchDepths : m..n \subseteq BenchDepths
    /\ \A q \in BenchDepths : q < WordMod
    /\ MaxStray \in Nat

VARIABLES
    bench,         \* the call under way, or "idle"
    depth,         \* its queue depth, in a sweep the one of the point
    max_qdepth,    \* the last depth of a sweep
    iterations,
    recv_posted, sent, completed, recv_drained,
    found,         \* the receives that were on QP-B when the call, or the point, began
    left           \* a call that ended left work that nobody has collected since

counters == <<recv_posted, sent, completed, recv_drained>>
asked == <<max_qdepth, iterations>>
benchvars == <<bench, depth, asked, counters, found>>

Calls == {"paired", "streaming", "sweep"}
Windowed == bench \in {"streaming", "sweep"}

BenchTypeOK ==
    /\ bench \in Calls \cup {"idle"}
    /\ depth \in BenchDepths \cup {0, 1} /\ max_qdepth \in BenchDepths \cup {0}
    /\ iterations \in Iterations \cup {0}
    /\ {sent, completed} \subseteq 0..iterations
    /\ recv_posted \in Nat /\ recv_drained \in Nat
    /\ found \in 0..RqSize
    /\ left \in BOOLEAN

BenchInit ==
    /\ bench = "idle" /\ depth = 0 /\ max_qdepth = 0 /\ iterations = 0
    /\ recv_posted = 0 /\ sent = 0 /\ completed = 0 /\ recv_drained = 0
    /\ found = 0
    /\ left = FALSE

-----------------------------------------------------------------------------
\* The shared pieces

FlushCqs == cq_ok' = 0 /\ cq_err' = 0 /\ cq_b' = 0

(* Sends that may still complete and completions not yet polled. *)
Remains == wire + cq_ok + cq_err + cq_b

(* A call begins, and starts clean once nothing remains. *)
CallBegins ==
    /\ Remains <= MaxStray
    /\ left' = (left /\ Remains' > 0)

(* A call ends before it has collected everything. *)
CallBreaksOff == left' = (left \/ Remains' > 0)

(* A call returns; only the windowed ones flush the CQs. *)
Return ==
    /\ bench' = "idle"
    /\ depth' = 0 /\ max_qdepth' = 0 /\ iterations' = 0
    /\ recv_posted' = 0 /\ sent' = 0 /\ completed' = 0 /\ recv_drained' = 0
    /\ found' = 0

(* Flush both CQs and post receives, twice the depth but no more than the  *)
(* iterations; what QP-B took before it was full stays on it.              *)
BeginWindow(q, n) ==
    LET pre_post == Smaller(2 * q, n) IN
    /\ FlushCqs
    /\ rq' = Smaller(RqSize, rq + pre_post)
    /\ IF rq + pre_post > RqSize THEN Return
       ELSE /\ recv_posted' = pre_post
            /\ sent' = 0 /\ completed' = 0 /\ recv_drained' = 0
            /\ depth' = q /\ found' = rq

-----------------------------------------------------------------------------
\* LOOPBACK and PINGPONG

BeginPaired(n) ==
    /\ bench = "idle"
    /\ bench' = "paired" /\ iterations' = n
    /\ depth' = 1 /\ found' = rq
    /\ UNCHANGED <<max_qdepth, counters, flow, stream, nic>>
    /\ CallBegins

PairedRecv ==
    /\ bench = "paired"
    /\ recv_posted = recv_drained /\ recv_posted < iterations
    /\ UNCHANGED <<flow, stream, wire, cq_ok, cq_err, cq_b, qp_error>>
    /\ IF rq = RqSize THEN Return /\ UNCHANGED rq /\ CallBreaksOff
       ELSE /\ rq' = rq + 1
            /\ recv_posted' = recv_posted + 1
            /\ UNCHANGED <<bench, depth, asked, sent, completed, recv_drained, found, left>>

PairedSend ==
    /\ bench = "paired"
    /\ sent < recv_posted
    /\ wire' = wire + 1
    /\ sent' = sent + 1
    /\ UNCHANGED <<bench, depth, asked, recv_posted, completed, recv_drained, found, left>>
    /\ UNCHANGED <<flow, stream, cq_ok, cq_err, cq_b, rq, qp_error>>

PairedPollA ==
    /\ bench = "paired"
    /\ completed < sent
    /\ cq_ok > 0
    /\ cq_ok' = cq_ok - 1
    /\ completed' = completed + 1
    /\ UNCHANGED <<bench, depth, asked, recv_posted, sent, recv_drained, found, left>>
    /\ UNCHANGED <<flow, stream, wire, cq_err, cq_b, rq, qp_error>>

PairedPollB ==
    /\ bench = "paired"
    /\ recv_drained < completed
    /\ cq_b > 0
    /\ cq_b' = cq_b - 1
    /\ recv_drained' = recv_drained + 1
    /\ UNCHANGED <<bench, depth, asked, recv_posted, sent, completed, found, left>>
    /\ UNCHANGED <<flow, stream, wire, cq_ok, cq_err, rq, qp_error>>

(* A post or a poll fails, or the poll finds an error completion or, in    *)
(* POLL_TIMEOUT_MS, none: the call returns without flushing.               *)
PairedFails ==
    /\ bench = "paired"
    /\ \/ NicMayFail /\ (sent < recv_posted \/ recv_drained < sent)
       \/ completed < sent /\ cq_ok = 0
       \/ recv_drained < completed /\ cq_b = 0
    /\ cq_err' = IF completed < sent /\ cq_ok = 0 /\ cq_err > 0 THEN cq_err - 1 ELSE cq_err
    /\ Return
    /\ UNCHANGED <<flow, stream, wire, cq_ok, cq_b, rq, qp_error>>
    /\ CallBreaksOff

(* Mutant: the call ends with the last send completion. *)
PairedEndsEarly ==
    /\ bench = "paired"
    /\ completed = iterations
    /\ Return
    /\ UNCHANGED <<flow, stream, nic, left>>

PairedEnds ==
    /\ bench = "paired"
    /\ recv_drained = iterations
    /\ Return
    /\ UNCHANGED <<flow, stream, nic, left>>

-----------------------------------------------------------------------------
\* STREAMING and the sweep

BeginStreaming(q, n) ==
    /\ bench = "idle"
    /\ BeginWindow(q, n)
    /\ rq + Smaller(2 * q, n) <= RqSize =>
          bench' = "streaming" /\ max_qdepth' = q /\ iterations' = n
    /\ UNCHANGED <<flow, stream, wire, qp_error>>
    /\ CallBegins

BeginSweep(min, max, n) ==
    /\ bench = "idle" /\ min <= max
    /\ BeginWindow(min, n)
    /\ rq + Smaller(2 * min, n) <= RqSize =>
          bench' = "sweep" /\ max_qdepth' = max /\ iterations' = n
    /\ UNCHANGED <<flow, stream, wire, qp_error>>
    /\ CallBegins

MaySend == sent < iterations /\ (sent - completed) % WordMod < depth
Sending == Windowed /\ completed < iterations /\ MaySend
Polling == Windowed /\ completed < iterations /\ ~MaySend

(* Sends are posted up to the queue depth before the CQ is polled. *)
WindowSend ==
    /\ Sending
    /\ wire' = wire + 1
    /\ sent' = sent + 1
    /\ UNCHANGED <<bench, depth, asked, recv_posted, completed, recv_drained, found, left>>
    /\ UNCHANGED <<flow, stream, cq_ok, cq_err, cq_b, rq, qp_error>>

(* Mutant: a receive is replenished for every completion. *)
ReplenishAlways == TRUE

Replenish == recv_posted < iterations

(* A completion: CQ-B is emptied and a receive posted in place of the one  *)
(* consumed.  An ib_poll_cq that reports an error is called again, which   *)
(* changes nothing.                                                        *)
TakeCompletion(posts) ==
    /\ cq_ok' = cq_ok - 1 /\ cq_b' = 0
    /\ completed' = completed + 1
    /\ recv_drained' = recv_drained + cq_b
    /\ rq' = rq + posts /\ recv_posted' = recv_posted + posts
    /\ UNCHANGED <<bench, depth, asked, sent, found, left, cq_err>>

(* A receive that QP-B refuses ends a streaming run. *)
StreamingPoll ==
    /\ Polling /\ bench = "streaming"
    /\ cq_ok > 0
    /\ UNCHANGED <<flow, stream, wire, qp_error>>
    /\ IF Replenish /\ rq = RqSize
       THEN Return /\ FlushCqs /\ UNCHANGED rq /\ CallBreaksOff
       ELSE TakeCompletion(IF Replenish THEN 1 ELSE 0)

(* A sweep carries on without it. *)
SweepPoll ==
    /\ Polling /\ bench = "sweep"
    /\ cq_ok > 0
    /\ TakeCompletion(IF Replenish /\ rq < RqSize THEN 1 ELSE 0)
    /\ UNCHANGED <<flow, stream, wire, qp_error>>

(* A post fails, or a poll finds an error completion or, in                *)
(* POLL_TIMEOUT_MS, none.                                                  *)
WindowFails ==
    /\ \/ NicMayFail /\ Sending
       \/ Polling /\ cq_ok = 0
    /\ Return
    /\ FlushCqs
    /\ UNCHANGED <<flow, stream, wire, rq, qp_error>>
    /\ CallBreaksOff

(* After the last completion the receives still on CQ-B are collected,     *)
(* until none is missing or none is found.  The loop never has work: a     *)
(* send completes only after its receive has and both CQs were flushed     *)
(* together, so the last poll of CQ-A found them all, those of another     *)
(* call included.                                                          *)
Drained == recv_drained >= completed \/ cq_b = 0

(* Mutant: the sweep stays at its queue depth. *)
NextDepthsAgain == {depth}

(* The next queue depth of a sweep, which advances by the step it was      *)
(* asked for: any one up to the last.                                      *)
NextDepths == depth + 1 .. max_qdepth

(* The sweep goes on to the next queue depth. *)
NextPoint ==
    /\ bench = "sweep" /\ completed = iterations /\ Drained
    /\ \E q \in NextDepths :
          /\ BeginWindow(q, iterations)
          /\ rq + Smaller(2 * q, iterations) <= RqSize => UNCHANGED <<bench, asked>>
    /\ UNCHANGED <<flow, stream, wire, qp_error, left>>

(* A streaming run has one queue depth; the step of a sweep may take it    *)
(* past its last from any.                                                 *)
WindowEnds ==
    /\ Windowed /\ completed = iterations /\ Drained
    /\ Return
    /\ FlushCqs
    /\ UNCHANGED <<flow, stream, wire, rq, qp_error, left>>

-----------------------------------------------------------------------------
\* Composition with the streams

BenchLoop ==
    \/ PairedRecv \/ PairedSend \/ PairedPollA \/ PairedPollB \/ PairedFails \/ PairedEnds
    \/ WindowSend \/ StreamingPoll \/ SweepPoll \/ WindowFails
    \/ NextPoint \/ WindowEnds

BenchNext ==
    \/ /\ Running = {}
       /\ \E n \in Iterations :
             \/ BeginPaired(n)
             \/ \E q \in BenchDepths :
                   BeginStreaming(q, n) \/ \E m \in BenchDepths : BeginSweep(q, m, n)
    \/ BenchLoop

(* A stream beside no benchmark, from its start to its end. *)
StreamBegins(s, q) == Start(s, q) /\ CallBegins /\ UNCHANGED benchvars

StreamLoop(s) ==
    /\ (Loop(s) /\ UNCHANGED left) \/ (DrainEnd(s) /\ CallBreaksOff)
    /\ UNCHANGED benchvars

StreamNext ==
    \/ \E c \in Configs : Configure(c) /\ UNCHANGED <<benchvars, left>>
    \/ \E s \in Streams :
          \/ \E q \in QDepths : StreamBegins(s, q)
          \/ StreamLoop(s)
          \/ LeavesLoop(s) /\ UNCHANGED <<benchvars, left>>

PairNext ==
    \/ bench = "idle" /\ StreamNext
    \/ Nic /\ UNCHANGED <<benchvars, left>>
    \/ bench = "idle" /\ Reconnect /\ left' = FALSE /\ UNCHANGED benchvars
    \/ BenchNext

pairvars == <<vars, benchvars, left>>

PairInit == Init /\ BenchInit

(* A call keeps polling, and ib_poll_cq does not report errors for ever. *)
PairSpec ==
    /\ PairInit /\ [][PairNext]_pairvars
    /\ \A s \in Streams : WF_pairvars(StreamLoop(s))
    /\ WF_pairvars((Deliver \/ FlushErr) /\ UNCHANGED <<benchvars, left>>)
    /\ WF_pairvars(BenchLoop)

-----------------------------------------------------------------------------
\* Properties
\*
\* ~left below: no call failed or timed out and left work behind, or since
\* then the queue pairs were set up anew or a call began with the wire empty
\* and its CQs flushed.

(* The credits of a stream are exact inside its loop and within the window *)
(* and its watermarks, and the operations in flight are bounded by them.   *)
CreditsSafe == TypeOK /\ (~left => InFlightWithinCredits /\ CreditsExact)

(* Every send on the wire finds a posted receive: the replenishment rule,  *)
(* bounded by sent + qdepth, never leaves a send waiting for a receive     *)
(* that only its own completion would post.                                *)
ReceiveIsPosted == ~left /\ ~qp_error => wire <= rq

(* A stream that pauses at the high watermark resumes, or ends. *)
StallEnds ==
    \A s \in Streams : (pc[s] = "stall" /\ ~left) ~> (pc[s] \in {"send", "idle"})

(* No call takes a completion that is not its own: PINGPONG, which never   *)
(* flushes a CQ, finds both empty after any calls that collected what they *)
(* sent, and every send completion and every receive completion on the CQs *)
(* was posted by the call under way.  It fails after a call that left work *)
(* behind: that is what rdma_engine_flush_cq is there for, and it does not *)
(* reach the sends still on the wire.                                      *)
CompletionsAreOwn ==
    bench \in Calls /\ ~left =>
        /\ completed + Posted = sent
        /\ recv_drained + cq_b + wire + cq_err = sent

(* A benchmark that has counted its last completion leaves QP-B as it      *)
(* found it: it has sent what was asked and no receive of its own is left  *)
(* for the sends of another call.                                          *)
NoReceiveLeft ==
    bench \in Calls /\ ~left /\ recv_drained = iterations =>
        sent = iterations /\ wire = 0 /\ rq = found

(* A benchmark ends, a sweep after its last queue depth, also among the    *)
(* completions of others.                                                  *)
BenchEnds == (bench \in Calls) ~> (bench \notin Calls)

(* A benchmark never counts more completions than it asked for (the        *)
(* latency array has one entry per iteration), whatever earlier calls left *)
(* behind, and counts its own and no others where none left anything.      *)
BenchSafe == BenchTypeOK /\ CompletionsAreOwn
=============================================================================
