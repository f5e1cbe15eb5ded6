----------------------------- MODULE KvLoopback -----------------------------
(***************************************************************************)
(* kvcache_sender in --loopback mode: the sender owns both regions, writes *)
(* from QP-A to QP-B and polls QP-B's completions itself when its credits  *)
(* run out.  Here a credit is a receive of its own that it has posted.     *)
(***************************************************************************)
EXTENDS KvCommon

RecvQueue == Window + Headroom

Here == UNCHANGED <<rp, rres, rret, to_s, meta>>

\* SETUP_RDMA and the source, as in peer mode.
LSetupSource ==
    /\ mode = "loopback"
    /\ SAcquire("rdma", "src") \/ SAcquire("src", "mr") \/ SAcquire("mr", "dbuf")

\* The destination buffer and its region, open to remote writes.
LSetupDestination == SAcquire("dbuf", "dmr") \/ SAcquire("dmr", "l_prepost")

\* Pre-post the receives of a transfer on top of those left over by the last
\* one, and start with as many credits.
LPrepost ==
    /\ sp = "l_prepost"
    /\ \/ /\ posted + InitialRecvs <= RecvQueue
          /\ posted' = posted + InitialRecvs /\ credits' = InitialRecvs
          /\ sp' = "l_loop" /\ UNCHANGED <<idx, iter, sres, sret>>
       \/ /\ faulty \/ posted + InitialRecvs > RecvQueue
          /\ SFail /\ UNCHANGED posted
    /\ UNCHANGED <<wr, cq, bitmap, mem>> /\ Here

\* recv_loop_poll_and_track: a chunk is marked, the sentinel only reported; an
\* empty queue times out, and the call may fail.
LPollAndTrack(chunk, sentinel) ==
    \/ /\ cq # <<>> /\ cq' = Tail(cq)
       /\ IF Head(cq) = Sentinel
          THEN sp' = sentinel /\ UNCHANGED bitmap
          ELSE sp' = chunk /\ bitmap' = BitmapSet(bitmap, ImmLayer(Head(cq)), ImmChunk(Head(cq)))
       /\ UNCHANGED <<idx, iter, credits, sres, sret>>
    \/ (cq = <<>> \/ faulty) /\ SFail /\ UNCHANGED <<cq, bitmap>>

\* No credit: poll a completion, then post a receive in its place.
LStall ==
    /\ sp = "l_loop" /\ idx < Total /\ credits <= 0
    /\ LPollAndTrack("l_replenish", "l_replenish")
    /\ UNCHANGED <<wr, posted, mem>> /\ Here

\* Mutant: the credit is taken back without posting the receive.
LReplenishOnlyCredit ==
    /\ sp = "l_replenish"
    /\ credits' = credits + 1 /\ sp' = "l_loop"
    /\ UNCHANGED <<idx, iter, sres, sret, wr, posted, cq, bitmap, mem>> /\ Here

LReplenish ==
    /\ sp = "l_replenish"
    /\ \/ /\ posted < RecvQueue /\ posted' = posted + 1 /\ credits' = credits + 1
          /\ sp' = "l_loop" /\ UNCHANGED <<idx, iter, sres, sret>>
       \/ (faulty \/ posted = RecvQueue) /\ SFail /\ UNCHANGED posted
    /\ UNCHANGED <<wr, cq, bitmap, mem>> /\ Here

\* WRITE_IMM of the next chunk on QP-A.
LPost ==
    /\ sp = "l_loop" /\ idx < Total /\ credits > 0
    /\ wr' = [imm |-> ImmOf(idx), off |-> idx, st |-> "posted"] /\ sp' = "l_writing"
    /\ UNCHANGED <<idx, iter, credits, sres, sret, posted, cq, bitmap, mem>> /\ Here

\* After the last chunk: a receive of its own for the sentinel, then the
\* sentinel.
LSentinel ==
    /\ sp = "l_loop" /\ idx = Total
    /\ \/ /\ posted < RecvQueue /\ posted' = posted + 1
          /\ wr' = [imm |-> Sentinel, off |-> 0, st |-> "posted"] /\ sp' = "l_writing"
          /\ UNCHANGED <<idx, iter, credits, sres, sret>>
       \/ (faulty \/ posted = RecvQueue) /\ SFail /\ UNCHANGED <<posted, wr>>
    /\ UNCHANGED <<cq, bitmap, mem>> /\ Here

\* Every write, the sentinel too, takes a credit.
LWritten ==
    /\ sp = "l_writing" /\ wr.st = "acked" /\ wr' = NoWr /\ credits' = credits - 1
    /\ IF wr.imm = Sentinel
       THEN sp' = "l_drain" /\ UNCHANGED idx
       ELSE sp' = "l_loop" /\ idx' = idx + 1
    /\ UNCHANGED <<iter, sres, sret, posted, cq, bitmap, mem>> /\ Here

LWriteFails ==
    /\ sp = "l_writing"
    /\ wr.st = "error" \/ (wr.st # "acked" /\ faulty)
    /\ SFail
    /\ UNCHANGED <<wr, posted, cq, bitmap, mem>> /\ Here

\* Poll until the bitmap, kept over the transfers, is complete.
LDrain ==
    /\ sp = "l_drain"
    /\ \/ BitmapAllComplete(bitmap) /\ sp' = "l_tail"
          /\ UNCHANGED <<idx, iter, credits, sres, sret, cq, bitmap>>
       \/ ~BitmapAllComplete(bitmap) /\ LPollAndTrack("l_drain", "l_tail")
    /\ UNCHANGED <<wr, posted, mem>> /\ Here

\* One more poll for the sentinel, then verify; a mismatch is remembered and
\* the next transfer starts.
LTail ==
    /\ sp = "l_tail"
    /\ cq' = IF cq = <<>> THEN cq ELSE Tail(cq)
    /\ sret' = IF Verified THEN sret ELSE 1
    /\ iter' = iter + 1 /\ idx' = 0
    /\ sp' = IF iter + 1 < Iterations THEN "l_prepost" ELSE "l_out"
    /\ UNCHANGED <<credits, sres, wr, posted, bitmap, mem>> /\ Here

\* Mutant: the destination is released while its region and the queue pairs
\* still exist.
LCleanupBuffersFirst ==
    /\ \/ sp = "l_out" /\ sp' = "l_out2" /\ sres' = sres \ {"dbuf", "src"}
       \/ sp = "l_out2" /\ sp' = "exited" /\ sres' = sres \ {"rdma", "mr", "dmr"}
    /\ cq' = <<>> /\ posted' = 0 /\ wr' = NoWr
    /\ UNCHANGED <<idx, iter, credits, sret, bitmap, mem>> /\ Here

\* Cleanup: drain the completions and tear down RDMA with every region, then
\* the source and the destination.
LCleanup ==
    /\ \/ sp = "l_out" /\ sp' = "l_out2" /\ sres' = sres \ {"rdma", "mr", "dmr"}
       \/ sp = "l_out2" /\ sp' = "exited" /\ sres' = sres \ {"dbuf", "src"}
    /\ cq' = <<>> /\ posted' = 0 /\ wr' = NoWr
    /\ UNCHANGED <<idx, iter, credits, sret, bitmap, mem>> /\ Here

LNext ==
    \/ LSetupSource \/ LSetupDestination
    \/ LPrepost \/ LStall \/ LReplenish \/ LPost \/ LSentinel \/ LWritten
    \/ LWriteFails \/ LDrain \/ LTail \/ LCleanup
=============================================================================
