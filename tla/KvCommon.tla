------------------------------ MODULE KvCommon ------------------------------
(***************************************************************************)
(* What the programs of the KV cache transfer (examples/kvcache) share:    *)
(* the immediate value that names a chunk, the bitmap of received chunks,  *)
(* the state of the programs and the fabric between them.                  *)
(*                                                                         *)
(* A step is one system call of one program: an ioctl of /dev/dmaplane or  *)
(* a TCP operation.  The fabric (reliable connected queue pairs, in-order  *)
(* delivery, unlimited receiver-not-ready retries) is external.            *)
(***************************************************************************)
EXTENDS Integers, Sequences, FiniteSets

CONSTANTS
    Layers,        \* --layers
    Chunks,        \* --chunks-per-layer
    Window,        \* --credit-window
    Iterations,    \* --iterations
    ImmMod,        \* 2^16: values of each half of the immediate value
    BitmapBits,    \* chunks one word of the bitmap can record (64)
    MaxLayers,     \* words of the bitmap (MAX_LAYERS, 1024)
    PeerRecvWr,    \* receives the peer queue pair can hold (64)
    CqDepth,       \* completions a CQ can hold (256, and 128 for the peer)
    Headroom       \* receives QP-B can hold above the window (16)

ASSUME SizesAssumption ==
    /\ Layers \in Nat \ {0} /\ Chunks \in Nat \ {0}
    /\ Window \in Nat /\ Iterations \in Nat \ {0}
    /\ ImmMod \in Nat \ {0} /\ BitmapBits \in Nat \ {0}
    /\ PeerRecvWr \in Nat /\ Headroom \in Nat \ {0}
    /\ CqDepth \in Nat /\ PeerRecvWr <= CqDepth  \* 64, and 128 for the peer CQ
    /\ MaxLayers \in Nat /\ Layers <= MaxLayers   \* not tested: a layer above has no word
    /\ Layers <= ImmMod /\ Chunks <= ImmMod
    /\ Layers * Chunks < ImmMod * ImmMod     \* total_chunks is an int

VARIABLES
    mode,      \* "peer": two machines; "loopback": the sender alone
    sp,        \* where the sender stands
    idx,       \* chunk the sender writes next
    iter,      \* transfers the sender has finished
    credits,   \* the sender's credit_tracker.credits
    sres,      \* what the sender has acquired
    sret,      \* the sender's exit status
    wr,        \* the sender's work request: its immediate value and state
    rp,        \* where the receiver stands
    posted,    \* receives posted on the receiving queue pair
    cq,        \* immediate values completed and not yet polled
    bitmap,    \* layer -> chunks marked as received
    mem,       \* chunks whose bytes are in the destination buffer
    rres,      \* what the receiver has acquired
    rret,      \* the receiver's exit status
    to_s,      \* bytes on their way to the sender, the ones its close left too
    meta,      \* ends that have sent their metadata
    faulty     \* TRUE in behaviours where calls may fail or time out

svars == <<sp, idx, iter, credits, sres, sret>>
rvars == <<rp, posted, cq, bitmap, mem, rres, rret>>
vars == <<svars, wr, rvars, to_s, meta, mode, faulty>>

Total == Layers * Chunks

\* KVCACHE_IMM_ENCODE and its inverses; the sentinel is the all-ones value.
ImmEncode(l, c) == (l % ImmMod) * ImmMod + (c % ImmMod)

ImmLayer(imm) == (imm \div ImmMod) % ImmMod
ImmChunk(imm) == imm % ImmMod
Sentinel == ImmMod * ImmMod - 1

\* The immediate value of the chunk with index i in the send loop.
ImmOf(i) == ImmEncode(i \div Chunks, i % Chunks)

NoWr == [imm |-> 0, off |-> 0, st |-> "none"]

\* credit_window receives, capped by the number of writes of a transfer.
InitialRecvs == IF Window > Total + 1 THEN Total + 1 ELSE Window

\* bitmap_set: a chunk without a bit and a layer without a word are ignored.
BitmapSet(bm, l, c) ==
    IF l < MaxLayers /\ c < BitmapBits THEN [bm EXCEPT ![l] = @ \cup {c}] ELSE bm

\* bitmap_layer_complete with the mask (1 << chunks_per_layer) - 1: the
\* shift count is taken modulo the width of the word.
BitmapLayerComplete(bm, l) == 0..((Chunks % BitmapBits) - 1) \subseteq bm[l]
BitmapAllComplete(bm) == \A l \in 0..(Layers - 1) : BitmapLayerComplete(bm, l)

\* verify_pattern finds no mismatch: every chunk lies at its own offset.
Verified == mem = 0..(Total - 1)

(***************************************************************************)
(* The fabric.                                                             *)
(***************************************************************************)
\* The receiving queue pair and the region written to exist.
TargetUp == IF mode = "peer" THEN {"qp", "mr"} \subseteq rres ELSE {"rdma", "dmr"} \subseteq sres

\* The write lands at its offset, consumes a receive and completes at both
\* ends.  The sentinel rewrites the first bytes of chunk 0 with the same bytes.
Deliver ==
    /\ wr.st = "posted" /\ TargetUp /\ posted > 0 /\ Len(cq) < CqDepth
    /\ posted' = posted - 1 /\ cq' = Append(cq, wr.imm)
    /\ mem' = mem \cup {wr.off}
    /\ wr' = [wr EXCEPT !.st = "acked"]
    /\ UNCHANGED <<svars, rp, bitmap, rres, rret, to_s, meta>>

\* The retries run out: the receiver's queue pair is gone, or its CQ had no room
\* for the completion, which is an error of the queue pair although the bytes
\* may be in place.
RetriesExhausted ==
    /\ wr.st = "posted"
    /\ \/ ~TargetUp /\ UNCHANGED mem
       \/ TargetUp /\ posted > 0 /\ Len(cq) >= CqDepth /\ mem' \in {mem, mem \cup {wr.off}}
    /\ wr' = [wr EXCEPT !.st = "error"]
    /\ UNCHANGED <<svars, rp, posted, cq, bitmap, rres, rret, to_s, meta>>

\* A failed call sends the sender to the cleanup of its mode.
SFail ==
    /\ sp' = IF mode = "peer" THEN "out_tcp" ELSE "l_out"
    /\ sret' = 1 /\ UNCHANGED <<idx, iter, credits, sres>>

\* SETUP_RDMA; CREATE_BUFFER or cudaMalloc and GPU_PIN; REGISTER_MR or
\* GPU_REGISTER_MR; INIT_PEER.
SAcquire(step, to) ==
    /\ sp = step
    /\ \/ sres' = sres \cup {step} /\ sp' = to /\ UNCHANGED <<idx, iter, credits, sret>>
       \/ faulty /\ SFail
    /\ UNCHANGED <<wr, rvars, to_s, meta>>
=============================================================================
