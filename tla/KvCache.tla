------------------------------ MODULE KvCache -------------------------------
(***************************************************************************)
(* The KV cache transfer: the programs of both modes over the fabric.      *)
(***************************************************************************)
EXTENDS KvPeer, KvLoopback

TypeOK ==
    /\ sp \in {"rdma", "src", "mr", "peer", "tcp", "meta", "await_meta", "connect",
               "await_ready", "loop", "drain", "write", "writing", "await_done",
               "out_tcp", "out_peer", "out_rdma", "out_mr", "out_src", "exited",
               "dbuf", "dmr", "l_prepost", "l_loop", "l_replenish",
               "l_writing", "l_drain", "l_tail", "l_out", "l_out2"}
    /\ idx \in 0..Total /\ iter \in 0..Iterations /\ credits \in Int
    /\ sres \subseteq {"rdma", "src", "mr", "peer", "tcp", "qp", "dbuf", "dmr"} /\ sret \in {0, 1}
    /\ wr.st \in {"none", "posted", "acked", "error"}
    /\ rp \in {"rdma", "peer", "accept", "await_meta", "buf", "mr", "meta", "connect",
               "prepost", "ready", "loop", "replenish", "credit", "tail", "done",
               "verify", "out_tcp", "out_drain", "out_peer", "out_rdma", "out_mr",
               "out_buf", "exited", "killed"}
    /\ posted \in 0..(IF mode = "peer" THEN PeerRecvWr ELSE Window + Headroom)
    /\ bitmap \in [0..(Layers - 1) -> SUBSET (0..(Chunks - 1))]
    /\ mem \subseteq 0..(Total - 1)
    /\ rres \subseteq {"rdma", "buf", "mr", "peer", "tcp", "qp"} /\ rret \in {0, 1}
    /\ to_s \in Seq({"ready", "credit", "done", "lost"})
    /\ meta \subseteq {"s", "r"} /\ faulty \in BOOLEAN /\ mode \in {"peer", "loopback"}

Init ==
    /\ mode \in {"peer", "loopback"} /\ faulty \in BOOLEAN
    /\ sp = "rdma" /\ idx = 0 /\ iter = 0 /\ credits = 0 /\ sres = {} /\ sret = 0
    /\ wr = NoWr
    /\ rp = (IF mode = "peer" THEN "rdma" ELSE "exited")
    /\ posted = 0 /\ cq = <<>> /\ rres = {} /\ rret = 0
    /\ bitmap = [l \in 0..(Layers - 1) |-> {}] /\ mem = {}
    /\ to_s = <<>> /\ meta = {}

\* The programs have ended, or the receiver still waits for a connection that
\* the sender never made.
Finished ==
    /\ sp = "exited" /\ rp \in {"exited", "killed", "accept"}
    /\ UNCHANGED vars

Sender == (SNext \/ LNext) /\ UNCHANGED <<mode, faulty>>
Receiver == RNext /\ UNCHANGED <<mode, faulty>>
Fabric == (Deliver \/ RetriesExhausted) /\ UNCHANGED <<mode, faulty>>
Next == Sender \/ Receiver \/ Fabric \/ Finished

\* The kernel schedules both programs, and the fabric delivers or gives up; nothing
\* makes a waiting accept fail.
Fairness == WF_vars(Sender) /\ WF_vars(Receiver /\ rp # "accept") /\ WF_vars(Fabric)
Spec == Init /\ [][Next]_vars /\ Fairness

(***************************************************************************)
(* Properties.                                                             *)
(***************************************************************************)
Receiving == rp \in {"ready", "loop", "replenish", "credit"}

\* The credit window does its work: in the transfer the receiver serves a data
\* chunk on the wire always finds a posted receive, and in loopback every
\* write does, the sentinel of any transfer included (kvcache_common.h,
\* dmaplane_write_imm: "The receiver MUST have a recv WR posted").
WriteFindsReceive ==
    wr.st = "posted" =>
        \/ posted > 0
        \/ mode = "peer" /\ (wr.imm = Sentinel \/ iter > 0 \/ ~Receiving)

\* Leaving the receive loop, by a complete bitmap or by the sentinel, means
\* that every chunk is in the buffer and marked: what verify reads is whole.
LoopEndsWhole ==
    rp \in {"tail", "done", "verify"} =>
        /\ mem = 0..(Total - 1)
        /\ \A l \in 0..(Layers - 1) : bitmap[l] = 0..(Chunks - 1)

\* A sender that reports success has delivered every chunk.
SenderSuccessDelivered ==
    sp \in {"out_tcp", "out_peer", "out_rdma", "out_mr", "out_src", "l_out", "exited"} /\ sret = 0
        => mem = 0..(Total - 1)

\* Whatever call failed, a program that reaches its end has released what it acquired,
\* and no buffer is released before the region that names it.  Only the receiver may
\* miss its end, by a send after the sender has closed; it then leaves everything but
\* the connection to the module.
ExitReleasesAll ==
    /\ sp = "exited" => sres = {}
    /\ rp = "exited" => rres = {}
    /\ rp = "killed" => "tcp" \notin sres /\ rres = {"rdma", "peer", "buf", "mr", "qp"}
    /\ "mr" \in sres => "src" \in sres
    /\ "dmr" \in sres => "dbuf" \in sres
    /\ "mr" \in rres => "buf" \in rres

\* The first loopback transfer ends with its completion queue drained: the
\* next one polls no completion of it in place of its own.
FirstTransferDrained == mode = "loopback" /\ iter = 1 /\ sp = "l_prepost" => cq = <<>>

\* The loopback sender always ends, and once two machines are connected both
\* programs do, the receiver perhaps killed by its signal: neither waits for the other
\* for ever, a stalled sender and a polling receiver are released by a close or a timeout.
TransferEnds ==
    ("tcp" \in sres \/ mode = "loopback") ~> (sp = "exited" /\ rp \in {"exited", "killed"})

\* Without failing calls every chunk arrives, however the credits, the
\* completions and the writes interleave.
AllChunksArrive == ~faulty => <>(mem = 0..(Total - 1))

\* kvcache_sender.c: "Send sentinel, wait for "done" ack": the sender ends
\* with success only after the receiver has acknowledged the transfer.
DoneIsAcknowledged ==
    sp = "out_tcp" /\ sret = 0 => rp \notin {"loop", "replenish", "credit", "tail", "done"}

\* The transfer, in both modes: writes find receives, the receive loop ends
\* with every chunk in place, and the first transfer leaves nothing to the next.
TransferSafe == TypeOK /\ WriteFindsReceive /\ LoopEndsWhole /\ FirstTransferDrained
=============================================================================
