------------------------------- MODULE KvPeer -------------------------------
(***************************************************************************)
(* kvcache_sender and kvcache_receiver in --peer mode.  The sender writes  *)
(* every (layer, chunk) into the receiver's memory region with RDMA WRITE  *)
(* WITH IMMEDIATE on the peer queue pair, then a sentinel.  Each write     *)
(* consumes one receive the receiver has posted; the receiver posts a new  *)
(* receive per chunk and grants the sender one credit as a byte over TCP.  *)
(* The same TCP stream carries the one-byte "ready" and "done" signals.    *)
(***************************************************************************)
EXTENDS KvCommon

(***************************************************************************)
(* The sender.                                                             *)
(***************************************************************************)
\* SETUP_RDMA, the source buffer or pinned GPU memory, its region, INIT_PEER.
SSetup ==
    /\ mode = "peer"
    /\ \/ SAcquire("rdma", "src") \/ SAcquire("src", "mr")
       \/ SAcquire("mr", "peer") \/ SAcquire("peer", "tcp")

\* tcp_listen_accept: the receiver blocks until a sender connects.
RListening == rp = "accept"

\* tcp_connect succeeds once the receiver listens; a refused connection ends
\* the program.
STcpConnect ==
    /\ sp = "tcp"
    /\ \/ /\ RListening /\ sres' = sres \cup {"tcp"} /\ sp' = "meta"
          /\ rres' = rres \cup {"tcp"} /\ rp' = "await_meta"
          /\ UNCHANGED <<idx, iter, credits, sret, posted, cq, bitmap, mem, rret>>
       \/ faulty /\ SFail /\ UNCHANGED rvars
    /\ UNCHANGED <<wr, to_s, meta>>

SSendMeta ==
    /\ sp = "meta"
    /\ \/ /\ meta' = meta \cup {"s"} /\ sp' = "await_meta"
          /\ UNCHANGED <<idx, iter, credits, sres, sret>>
       \/ faulty /\ SFail /\ UNCHANGED meta
    /\ UNCHANGED <<wr, rvars, to_s>>

SRecvMeta ==
    /\ sp = "await_meta"
    /\ \/ "r" \in meta /\ sp' = "connect" /\ UNCHANGED <<idx, iter, credits, sres, sret>>
       \/ "r" \notin meta /\ "tcp" \notin rres /\ SFail
    /\ UNCHANGED <<wr, rvars, to_s, meta>>

SConnectPeer ==
    /\ sp = "connect"
    /\ \/ sp' = "await_ready" /\ sres' = sres \cup {"qp"} /\ UNCHANGED <<idx, iter, credits, sret>>
       \/ faulty /\ SFail
    /\ UNCHANGED <<wr, rvars, to_s, meta>>

\* A blocking read of one byte: it returns a byte of the stream, whatever the
\* byte was sent for, or fails once the stream is empty and its end closed.
SReadByte(to) ==
    \/ /\ to_s # <<>> /\ to_s' = Tail(to_s)
       /\ sp' = to /\ UNCHANGED sret
    \/ /\ to_s = <<>> /\ "tcp" \notin rres
       /\ sp' = "out_tcp" /\ sret' = 1 /\ UNCHANGED to_s

\* The "ready" byte, then credit_init of the first transfer.
SAwaitReady ==
    /\ sp = "await_ready" /\ SReadByte("loop")
    /\ credits' = Window
    /\ UNCHANGED <<idx, iter, sres, wr, rvars, meta>>

\* The sender reads n bytes of the stream, each of them a credit to it.
TakeCredits(n) ==
    /\ credits' = credits + n
    /\ to_s' = SubSeq(to_s, n + 1, Len(to_s))

\* Mutant: a broken stream ends the program without an error.
SStallSilent ==
    /\ sp = "loop" /\ idx < Total /\ credits <= 0
    /\ \/ /\ to_s # <<>>
          /\ \E n \in 1..Len(to_s) : TakeCredits(n)
          /\ sp' = "drain"
       \/ /\ to_s = <<>> /\ "tcp" \notin rres
          /\ sp' = "out_tcp" /\ UNCHANGED <<credits, to_s>>
    /\ UNCHANGED <<idx, iter, sres, sret, wr, rvars, meta>>

\* The top of the send loop: with no credit left the program blocks on TCP
\* for one credit and then takes whatever else has arrived.
SStall ==
    /\ sp = "loop" /\ idx < Total /\ credits <= 0
    /\ \/ /\ to_s # <<>>
          /\ \E n \in 1..Len(to_s) : TakeCredits(n)
          /\ sp' = "drain" /\ UNCHANGED sret
       \/ /\ to_s = <<>> /\ "tcp" \notin rres
          /\ sp' = "out_tcp" /\ sret' = 1 /\ UNCHANGED <<credits, to_s>>
    /\ UNCHANGED <<idx, iter, sres, wr, rvars, meta>>


SNoStall ==
    /\ sp = "loop" /\ idx < Total /\ credits > 0
    /\ sp' = "drain"
    /\ UNCHANGED <<idx, iter, credits, sres, sret, wr, rvars, to_s, meta>>

\* tcp_recv_credits_nonblock: the bytes that have arrived, possibly none.
SDrainCredits ==
    /\ sp = "drain" /\ sp' = "write"
    /\ \E n \in 0..Len(to_s) : TakeCredits(n)
    /\ UNCHANGED <<idx, iter, sres, sret, wr, rvars, meta>>

\* WRITE_IMM of the next chunk, and of the sentinel after the last one.
SPost ==
    /\ \/ sp = "write" /\ wr' = [imm |-> ImmOf(idx), off |-> idx, st |-> "posted"]
       \/ sp = "loop" /\ idx = Total /\ wr' = [imm |-> Sentinel, off |-> 0, st |-> "posted"]
    /\ sp' = "writing"
    /\ UNCHANGED <<idx, iter, credits, sres, sret, rvars, to_s, meta>>

\* The completion of a data chunk takes a credit; the sentinel's does not.
SWritten ==
    /\ sp = "writing" /\ wr.st = "acked" /\ wr' = NoWr
    /\ IF wr.imm = Sentinel
       THEN sp' = "await_done" /\ UNCHANGED <<idx, credits>>
       ELSE sp' = "loop" /\ idx' = idx + 1 /\ credits' = credits - 1
    /\ UNCHANGED <<iter, sres, sret, rvars, to_s, meta>>

\* An error completion, or ten seconds without one: the work request stays
\* with the queue pair until DESTROY_PEER.
SWriteFails ==
    /\ sp = "writing"
    /\ \/ wr.st = "error"
       \/ wr.st # "acked" /\ faulty
    /\ SFail
    /\ UNCHANGED <<wr, rvars, to_s, meta>>

\* The "done" byte ends the transfer; another one starts with a full window.
SAwaitDone ==
    /\ sp = "await_done"
    /\ SReadByte(IF iter + 1 < Iterations THEN "loop" ELSE "out_tcp")
    /\ iter' = iter + 1 /\ idx' = 0 /\ credits' = Window
    /\ UNCHANGED <<sres, wr, rvars, meta>>

\* Cleanup: close TCP, DESTROY_PEER, TEARDOWN_RDMA (which deregisters every
\* region), DEREGISTER_MR, DESTROY_BUFFER or GPU_UNPIN.
SCloseTcp ==
    /\ sp = "out_tcp" /\ sp' = "out_peer"
    /\ sres' = sres \ {"tcp"}
    /\ UNCHANGED <<idx, iter, credits, sret, wr, rvars, to_s, meta>>

SDestroyPeer ==
    /\ sp = "out_peer" /\ sp' = "out_rdma"
    /\ sres' = sres \ {"peer", "qp"} /\ wr' = NoWr
    /\ UNCHANGED <<idx, iter, credits, sret, rvars, to_s, meta>>

SRelease ==
    /\ \/ sp = "out_rdma" /\ sp' = "out_mr" /\ sres' = sres \ {"rdma", "mr", "peer", "qp"}
       \/ sp = "out_mr" /\ sp' = "out_src" /\ sres' = sres \ {"mr"}
       \/ sp = "out_src" /\ sp' = "exited" /\ sres' = sres \ {"src"}
    /\ UNCHANGED <<idx, iter, credits, sret, wr, rvars, to_s, meta>>

(***************************************************************************)
(* The receiver.                                                           *)
(***************************************************************************)
\* The kernel closes the files of a killed program; the queue pair, the region and
\* the buffer are the module's and stay.
RKilled == rp' = "killed" /\ rret' = 1 /\ rres' = rres \ {"tcp"}

RFail == rp' = "out_tcp" /\ rret' = 1 /\ UNCHANGED <<posted, cq, bitmap, mem, rres>>

\* SETUP_RDMA, INIT_PEER, CREATE_BUFFER, REGISTER_MR: a failing SETUP_RDMA
\* returns at once, the others go to the cleanup.
RAcquire(step, to) ==
    /\ rp = step
    /\ \/ rres' = rres \cup {step} /\ rp' = to /\ UNCHANGED <<posted, cq, bitmap, mem, rret>>
       \/ faulty /\ rp' = (IF step = "rdma" THEN "exited" ELSE "out_tcp") /\ rret' = 1
          /\ UNCHANGED <<posted, cq, bitmap, mem, rres>>
    /\ UNCHANGED <<svars, wr, to_s, meta>>

RAcceptFails ==
    /\ rp = "accept" /\ faulty /\ RFail
    /\ UNCHANGED <<svars, wr, to_s, meta>>

RRecvMeta ==
    /\ rp = "await_meta"
    /\ \/ "s" \in meta /\ rp' = "buf" /\ UNCHANGED <<posted, cq, bitmap, mem, rres, rret>>
       \/ "s" \notin meta /\ "tcp" \notin sres /\ RFail
    /\ UNCHANGED <<svars, wr, to_s, meta>>

RSendMeta ==
    /\ rp = "meta"
    /\ \/ meta' = meta \cup {"r"} /\ rp' = "connect" /\ UNCHANGED <<posted, cq, bitmap, mem, rres, rret>>
       \/ faulty /\ RFail /\ UNCHANGED meta
    /\ UNCHANGED <<svars, wr, to_s>>

RConnectPeer ==
    /\ rp = "connect"
    /\ \/ rp' = "prepost" /\ rres' = rres \cup {"qp"} /\ UNCHANGED <<posted, cq, bitmap, mem, rret>>
       \/ faulty /\ RFail
    /\ UNCHANGED <<svars, wr, to_s, meta>>

\* Pre-post one receive per credit; the queue pair holds PeerRecvWr of them.
RPrepost ==
    /\ rp = "prepost"
    /\ \/ posted < InitialRecvs /\ posted < PeerRecvWr
          /\ posted' = posted + 1 /\ UNCHANGED <<rp, cq, bitmap, mem, rres, rret>>
       \/ posted < InitialRecvs /\ (faulty \/ posted = PeerRecvWr) /\ RFail
       \/ posted = InitialRecvs /\ rp' = "ready" /\ UNCHANGED <<posted, cq, bitmap, mem, rres, rret>>
    /\ UNCHANGED <<svars, wr, to_s, meta>>

\* One byte to the sender.  After the sender has closed, a send is still accepted,
\* and its byte lost, until a reset has come back.  The bytes the close left unread
\* draw a reset, and so does a lost byte.  The next send then fails (ECONNRESET), or,
\* when the end of the stream had come before the reset, raises SIGPIPE (EPIPE): the
\* send has no MSG_NOSIGNAL and the program no handler.
RSendByte(b, to, failed, ret) ==
    \/ /\ to_s' = Append(to_s, IF "tcp" \in sres THEN b ELSE "lost")
       /\ rp' = to /\ UNCHANGED <<rres, rret>>
    \/ /\ "tcp" \notin sres /\ to_s # <<>> /\ Head(to_s) # "lost"
       /\ rp' = failed /\ rret' = ret /\ UNCHANGED <<to_s, rres>>
    \/ /\ "tcp" \notin sres /\ to_s # <<>>
       /\ RKilled /\ UNCHANGED to_s

RSendReady ==
    /\ rp = "ready" /\ RSendByte("ready", "loop", "out_tcp", 1)
    /\ UNCHANGED <<svars, wr, posted, cq, bitmap, mem, meta>>

\* The receive loop: leave when the bitmap is complete, else poll one
\* completion.  The sentinel leaves the loop, a chunk is marked.
RLoop ==
    /\ rp = "loop"
    /\ \/ BitmapAllComplete(bitmap) /\ rp' = "tail" /\ UNCHANGED <<cq, bitmap>>
       \/ /\ ~BitmapAllComplete(bitmap) /\ cq # <<>> /\ cq' = Tail(cq)
          /\ IF Head(cq) = Sentinel
             THEN rp' = "tail" /\ UNCHANGED bitmap
             ELSE rp' = "replenish"
                  /\ bitmap' = BitmapSet(bitmap, ImmLayer(Head(cq)), ImmChunk(Head(cq)))
    /\ UNCHANGED <<svars, wr, posted, mem, rres, rret, to_s, meta>>

\* No write will come: the sender has no credit and none is on its way, or
\* its queue pair is gone.
SenderSilent ==
    \/ sp = "loop" /\ idx < Total /\ credits <= 0 /\ to_s = <<>>
    \/ sp \in {"out_rdma", "out_mr", "out_src", "exited"}

\* Mutant: the poll never gives up.
RPollForever ==
    /\ rp = "loop" /\ ~BitmapAllComplete(bitmap) /\ cq = <<>>
    /\ UNCHANGED <<svars, wr, rvars, to_s, meta>>

\* The poll gives up when no completion has come for ten seconds.
RPollTimeout ==
    /\ rp = "loop" /\ ~BitmapAllComplete(bitmap) /\ cq = <<>>
    /\ faulty \/ SenderSilent
    /\ RFail
    /\ UNCHANGED <<svars, wr, to_s, meta>>


RReplenish ==
    /\ rp = "replenish"
    /\ \/ posted < PeerRecvWr /\ posted' = posted + 1 /\ rp' = "credit"
          /\ UNCHANGED <<cq, bitmap, mem, rres, rret>>
       \/ (faulty \/ posted = PeerRecvWr) /\ RFail
    /\ UNCHANGED <<svars, wr, to_s, meta>>

\* Mutant: the receive is posted and the credit is not sent.
RSendNoCredit ==
    /\ rp = "credit" /\ rp' = "loop"
    /\ UNCHANGED <<svars, wr, posted, cq, bitmap, mem, rres, rret, to_s, meta>>


RSendCredit ==
    /\ rp = "credit" /\ RSendByte("credit", "loop", "out_tcp", 1)
    /\ UNCHANGED <<svars, wr, posted, cq, bitmap, mem, meta>>

\* One more poll, for the sentinel if the bitmap was complete before it.
RPollSentinel ==
    /\ rp = "tail" /\ rp' = "done"
    /\ cq' = IF cq = <<>> THEN cq ELSE Tail(cq)
    /\ UNCHANGED <<svars, wr, posted, bitmap, mem, rres, rret, to_s, meta>>

\* The "done" byte: a failed send is only reported.
RSendDone ==
    /\ rp = "done" /\ RSendByte("done", "verify", "verify", rret)
    /\ UNCHANGED <<svars, wr, posted, cq, bitmap, mem, meta>>

\* verify_pattern over every chunk of the buffer.
RVerify ==
    /\ rp = "verify" /\ rp' = "out_tcp"
    /\ rret' = IF Verified THEN rret ELSE 1
    /\ UNCHANGED <<svars, wr, posted, cq, bitmap, mem, rres, to_s, meta>>

\* dmaplane_drain_recv_cq: poll until the queue is empty.
RDrain ==
    /\ rp = "out_drain" /\ rp' = "out_peer" /\ cq' = <<>>
    /\ UNCHANGED <<svars, wr, posted, bitmap, mem, rres, rret, to_s, meta>>

\* Cleanup around it: close TCP, then DESTROY_PEER, TEARDOWN_RDMA,
\* DEREGISTER_MR, DESTROY_BUFFER.
RRelease ==
    /\ \/ rp = "out_tcp" /\ rp' = "out_drain" /\ rres' = rres \ {"tcp"} /\ UNCHANGED <<cq, posted>>
       \/ rp = "out_peer" /\ rp' = "out_rdma" /\ rres' = rres \ {"peer", "qp"}
          /\ cq' = <<>> /\ posted' = 0
       \/ rp = "out_rdma" /\ rp' = "out_mr" /\ rres' = rres \ {"rdma", "mr"} /\ UNCHANGED <<cq, posted>>
       \/ rp = "out_mr" /\ rp' = "out_buf" /\ rres' = rres \ {"mr"} /\ UNCHANGED <<cq, posted>>
       \/ rp = "out_buf" /\ rp' = "exited" /\ rres' = rres \ {"buf"} /\ UNCHANGED <<cq, posted>>
    /\ UNCHANGED <<svars, wr, bitmap, mem, rret, to_s, meta>>

SNext ==
    \/ SSetup \/ STcpConnect \/ SSendMeta \/ SRecvMeta \/ SConnectPeer \/ SAwaitReady
    \/ SStall \/ SNoStall \/ SDrainCredits \/ SPost \/ SWritten \/ SWriteFails
    \/ SAwaitDone \/ SCloseTcp \/ SDestroyPeer \/ SRelease

RNext ==
    \/ RAcquire("rdma", "peer") \/ RAcquire("peer", "accept")
    \/ RAcquire("buf", "mr") \/ RAcquire("mr", "meta")
    \/ RAcceptFails \/ RRecvMeta \/ RSendMeta \/ RConnectPeer \/ RPrepost \/ RSendReady
    \/ RLoop \/ RPollTimeout \/ RReplenish \/ RSendCredit \/ RPollSentinel
    \/ RSendDone \/ RVerify \/ RDrain \/ RRelease
=============================================================================
