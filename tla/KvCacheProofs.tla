--------------------------- MODULE KvCacheProofs ---------------------------
(***************************************************************************)
(* Proofs about KvCache for every number of layers, chunks, credits and    *)
(* transfers: whatever failed, both programs release what they acquired,   *)
(* the regions before the buffers they name, a sender that reports success *)
(* has delivered every chunk, and while chunks are on their way the        *)
(* credits never promise a receive that is not posted and the bitmaps      *)
(* never claim a chunk that is not there.                                  *)
(***************************************************************************)
EXTENDS KvCache, TLAPS

-----------------------------------------------------------------------------
\* The inductive invariant

PeerPcs == {"rdma", "src", "mr", "peer", "tcp", "meta", "await_meta", "connect",
            "await_ready", "loop", "drain", "write", "writing", "await_done",
            "out_tcp", "out_peer", "out_rdma", "out_mr", "out_src", "exited"}
LoopbackPcs == {"rdma", "src", "mr", "dbuf", "dmr", "l_prepost", "l_loop", "l_replenish",
                "l_writing", "l_drain", "l_tail", "l_out", "l_out2", "exited"}

(* What the sender holds: each mode has its own resources and its own way  *)
(* out, and every stage of the way out leaves fewer of them.               *)
SHeld ==
    /\ \/ /\ mode = "peer" /\ sp \in PeerPcs
          /\ sres \subseteq {"rdma", "src", "mr", "peer", "tcp", "qp"}
       \/ /\ mode = "loopback" /\ sp \in LoopbackPcs
          /\ sres \subseteq {"rdma", "src", "mr", "dbuf", "dmr"}
    /\ sp = "out_peer" => "tcp" \notin sres
    /\ sp = "out_rdma" => sres \subseteq {"rdma", "src", "mr"}
    /\ sp \in {"out_mr", "out_src"} => sres \subseteq {"src"}
    /\ sp = "l_out2" => sres \subseteq {"src", "dbuf"}
    /\ sp = "exited" => sres = {}
    /\ sp = "mr" \/ "mr" \in sres => "src" \in sres
    /\ sp = "dmr" \/ "dmr" \in sres => "dbuf" \in sres

(* The receiver is connected and has everything it needs.                  *)
Serving == {"prepost", "ready", "loop", "replenish", "credit", "tail", "done", "verify"}

(* The same for the receiver, and what a signal may find it with.          *)
RHeld ==
    /\ rres \subseteq {"rdma", "buf", "mr", "peer", "tcp", "qp"}
    /\ rp \in {"rdma", "exited"} => rres = {}
    /\ rp \in {"out_drain", "out_peer"} => "tcp" \notin rres
    /\ rp = "out_rdma" => rres \subseteq {"rdma", "mr", "buf"}
    /\ rp \in {"out_mr", "out_buf"} => rres \subseteq {"buf"}
    /\ rp = "mr" \/ "mr" \in rres => "buf" \in rres
    /\ rp = "peer" => "rdma" \in rres
    /\ rp = "accept" => {"rdma", "peer"} \subseteq rres
    /\ rp \in {"await_meta", "buf", "mr"} => {"rdma", "peer", "tcp"} \subseteq rres
    /\ rp \in {"meta", "connect"} => {"rdma", "peer", "tcp", "buf", "mr"} \subseteq rres
    /\ rp \in Serving => rres = {"rdma", "peer", "tcp", "buf", "mr", "qp"}
    /\ rp = "killed" => rres = {"rdma", "peer", "buf", "mr", "qp"}

(* The signal comes only after the sender has closed.                      *)
KilledLate == rp = "killed" => "tcp" \notin sres

(* The write under way is the chunk idx or, after the last one, the        *)
(* sentinel; acknowledged means that its bytes are in place.               *)
WrInv ==
    /\ wr = [imm |-> wr.imm, off |-> wr.off, st |-> wr.st]
    /\ wr.off \in 0..(Total - 1)
    /\ sp \in {"writing", "l_writing"} =>
          /\ \/ idx < Total /\ wr.imm = ImmOf(idx) /\ wr.off = idx
             \/ idx = Total /\ wr.imm = Sentinel
          /\ wr.st = "acked" => wr.off \in mem

Ended == {"out_tcp", "out_peer", "out_rdma", "out_mr", "out_src", "l_out", "l_out2", "exited"}

(* The chunks below idx are in place; success is reported only after all.  *)
SentInv ==
    /\ idx \in 0..Total
    /\ mem \subseteq 0..(Total - 1) /\ 0..(idx - 1) \subseteq mem
    /\ sp \in {"drain", "write"} => idx < Total
    /\ sp = "await_done" => idx = Total
    /\ sp \in Ended /\ sret = 0 => mem = 0..(Total - 1)

KInv == SHeld /\ RHeld /\ KilledLate /\ WrInv /\ SentInv

-----------------------------------------------------------------------------
\* What the programs hold

(* An acquisition of the sender, or its failure.                           *)
LEMMA AcquireHeld ==
    ASSUME SHeld, UNCHANGED mode, NEW step, NEW to, SAcquire(step, to),
           \/ mode = "peer" /\ <<step, to>> \in {<<"rdma", "src">>, <<"src", "mr">>,
                                                <<"mr", "peer">>, <<"peer", "tcp">>}
           \/ mode = "loopback" /\ <<step, to>> \in {<<"rdma", "src">>, <<"src", "mr">>,
                                   <<"mr", "dbuf">>, <<"dbuf", "dmr">>, <<"dmr", "l_prepost">>}
    PROVE  SHeld'
  <1>1. CASE sres' = sres \cup {step} /\ sp = step /\ sp' = to
    <2>1. CASE mode = "peer"
      BY <1>1, <2>1 DEF SHeld, PeerPcs
    <2>2. CASE mode = "loopback"
      BY <1>1, <2>2 DEF SHeld, LoopbackPcs
    <2> QED
      BY <2>1, <2>2 DEF SHeld
  <1>2. CASE SFail
    <2>1. sres' = sres /\ sp' = IF mode = "peer" THEN "out_tcp" ELSE "l_out"
      BY <1>2 DEF SFail
    <2> QED
      BY <2>1 DEF SHeld, PeerPcs, LoopbackPcs
  <1> QED
    BY <1>1, <1>2 DEF SAcquire

(* A failed call leads to the cleanup of the mode with everything held.    *)
LEMMA FailHeld ==
    ASSUME SHeld, UNCHANGED mode, SFail
    PROVE  SHeld'
  <1>1. sres' = sres /\ sp' = IF mode = "peer" THEN "out_tcp" ELSE "l_out"
    BY DEF SFail
  <1> QED
    BY <1>1 DEF SHeld, PeerPcs, LoopbackPcs

(* A step of the sender between two stages that hold the same.             *)
LEMMA MoveHeld ==
    ASSUME SHeld, UNCHANGED <<mode, sres>>,
           \/ sp \in PeerPcs \ LoopbackPcs
              /\ sp' \in PeerPcs \ (LoopbackPcs \cup {"out_peer", "out_rdma", "out_mr", "out_src"})
           \/ sp \in LoopbackPcs \ PeerPcs
              /\ sp' \in LoopbackPcs \ (PeerPcs \cup {"dmr", "l_out2"})
    PROVE  SHeld'
  BY DEF SHeld, PeerPcs, LoopbackPcs

(* The sender in --peer mode.                                              *)
LEMMA SenderHeld ==
    ASSUME SHeld, SNext, UNCHANGED mode
    PROVE  SHeld'
  <1>1. CASE SSetup
    BY <1>1, AcquireHeld DEF SSetup
  <1>2. CASE STcpConnect
    <2>1. CASE sp = "tcp" /\ sres' = sres \cup {"tcp"} /\ sp' = "meta"
      BY <2>1 DEF SHeld, PeerPcs, LoopbackPcs
    <2> QED
      BY <1>2, <2>1, FailHeld DEF STcpConnect
  <1>3. CASE SSendMeta
    BY <1>3, MoveHeld, FailHeld DEF SSendMeta, PeerPcs, LoopbackPcs
  <1>4. CASE SRecvMeta
    BY <1>4, MoveHeld, FailHeld DEF SRecvMeta, PeerPcs, LoopbackPcs
  <1>5. CASE SConnectPeer
    <2>1. CASE sp = "connect" /\ sres' = sres \cup {"qp"} /\ sp' = "await_ready"
      BY <2>1 DEF SHeld, PeerPcs, LoopbackPcs
    <2> QED
      BY <1>5, <2>1, FailHeld DEF SConnectPeer
  <1>6. CASE SAwaitReady
    BY <1>6, MoveHeld DEF SAwaitReady, SReadByte, PeerPcs, LoopbackPcs
  <1>7. CASE SStall
    BY <1>7, MoveHeld DEF SStall, PeerPcs, LoopbackPcs
  <1>8. CASE SNoStall
    BY <1>8, MoveHeld DEF SNoStall, PeerPcs, LoopbackPcs
  <1>9. CASE SDrainCredits
    BY <1>9, MoveHeld DEF SDrainCredits, PeerPcs, LoopbackPcs
  <1>10. CASE SPost
    BY <1>10, MoveHeld DEF SPost, PeerPcs, LoopbackPcs
  <1>11. CASE SWritten
    BY <1>11, MoveHeld DEF SWritten, PeerPcs, LoopbackPcs
  <1>12. CASE SWriteFails
    BY <1>12, FailHeld DEF SWriteFails
  <1>13. CASE SAwaitDone
    <2>1. sp = "await_done" /\ sres' = sres /\ sp' \in {"loop", "out_tcp"}
      BY <1>13 DEF SAwaitDone, SReadByte
    <2> QED
      BY <2>1, MoveHeld DEF PeerPcs, LoopbackPcs
  <1>14. CASE SCloseTcp
    BY <1>14 DEF SCloseTcp, SHeld, PeerPcs, LoopbackPcs
  <1>15. CASE SDestroyPeer
    BY <1>15 DEF SDestroyPeer, SHeld, PeerPcs, LoopbackPcs
  <1>16. CASE SRelease
    BY <1>16 DEF SRelease, SHeld, PeerPcs, LoopbackPcs
  <1> QED
    BY <1>1, <1>2, <1>3, <1>4, <1>5, <1>6, <1>7, <1>8, <1>9, <1>10, <1>11, <1>12, <1>13,
       <1>14, <1>15, <1>16 DEF SNext

(* The sender in --loopback mode.                                          *)
LEMMA LoopbackHeld ==
    ASSUME SHeld, LNext, UNCHANGED mode
    PROVE  SHeld'
  <1>1. CASE LSetupSource
    BY <1>1, AcquireHeld DEF LSetupSource
  <1>2. CASE LSetupDestination
    <2>1. mode = "loopback"
      BY <1>2 DEF LSetupDestination, SAcquire, SHeld, PeerPcs
    <2> QED
      BY <1>2, <2>1, AcquireHeld DEF LSetupDestination
  <1>3. CASE LPrepost
    BY <1>3, MoveHeld, FailHeld DEF LPrepost, PeerPcs, LoopbackPcs
  <1>4. CASE LStall
    <2>1. CASE SFail
      BY <2>1, FailHeld
    <2>2. CASE sp = "l_loop" /\ sp' = "l_replenish" /\ sres' = sres
      BY <2>2, MoveHeld DEF PeerPcs, LoopbackPcs
    <2> QED
      BY <1>4, <2>1, <2>2 DEF LStall, LPollAndTrack
  <1>5. CASE LReplenish
    BY <1>5, MoveHeld, FailHeld DEF LReplenish, PeerPcs, LoopbackPcs
  <1>6. CASE LPost
    BY <1>6, MoveHeld DEF LPost, PeerPcs, LoopbackPcs
  <1>7. CASE LSentinel
    BY <1>7, MoveHeld, FailHeld DEF LSentinel, PeerPcs, LoopbackPcs
  <1>8. CASE LWritten
    BY <1>8, MoveHeld DEF LWritten, PeerPcs, LoopbackPcs
  <1>9. CASE LWriteFails
    BY <1>9, FailHeld DEF LWriteFails
  <1>10. CASE LDrain
    <2>1. CASE SFail
      BY <2>1, FailHeld
    <2>2. CASE sp = "l_drain" /\ sp' \in {"l_drain", "l_tail"} /\ sres' = sres
      BY <2>2, MoveHeld DEF PeerPcs, LoopbackPcs
    <2> QED
      BY <1>10, <2>1, <2>2 DEF LDrain, LPollAndTrack
  <1>11. CASE LTail
    <2>1. sp = "l_tail" /\ sres' = sres /\ sp' \in {"l_prepost", "l_out"}
      BY <1>11 DEF LTail
    <2> QED
      BY <2>1, MoveHeld DEF PeerPcs, LoopbackPcs
  <1>12. CASE LCleanup
    BY <1>12 DEF LCleanup, SHeld, PeerPcs, LoopbackPcs
  <1> QED
    BY <1>1, <1>2, <1>3, <1>4, <1>5, <1>6, <1>7, <1>8, <1>9, <1>10, <1>11, <1>12 DEF LNext

(* The receiver's stages; a failure leads to the cleanup.                  *)
LEMMA ReceiverHeld ==
    ASSUME RHeld, RNext
    PROVE  RHeld'
  <1> USE DEF Serving
  <1>1. CASE RAcquire("rdma", "peer")
    BY <1>1 DEF RAcquire, RHeld
  <1>2. CASE RAcquire("peer", "accept")
    BY <1>2 DEF RAcquire, RHeld
  <1>3. CASE RAcquire("buf", "mr")
    BY <1>3 DEF RAcquire, RHeld
  <1>4. CASE RAcquire("mr", "meta")
    BY <1>4 DEF RAcquire, RHeld
  <1>5. CASE RConnectPeer
    BY <1>5 DEF RConnectPeer, RFail, RHeld, Serving
  <1>6. CASE RRelease
    BY <1>6 DEF RRelease, RHeld
  <1>7. CASE RDrain
    BY <1>7 DEF RDrain, RHeld
  <1>8. CASE RRecvMeta \/ RAcceptFails \/ RSendMeta
    BY <1>8 DEF RRecvMeta, RAcceptFails, RSendMeta, RFail, RHeld
  <1>9. CASE \/ RPrepost \/ RSendReady \/ RLoop \/ RPollTimeout
             \/ RReplenish \/ RSendCredit \/ RPollSentinel \/ RSendDone \/ RVerify
    <2>1. /\ rp \in Serving
          /\ \/ rres' = rres /\ rp' \in Serving \cup {"out_tcp"}
             \/ rp' = "killed" /\ rres' = rres \ {"tcp"}
      <3>1. CASE RPrepost \/ RLoop \/ RPollTimeout \/ RReplenish \/ RPollSentinel \/ RVerify
        BY <3>1 DEF RPrepost, RLoop, RPollTimeout, RReplenish, RPollSentinel, RVerify, RFail, Serving
      <3>2. CASE RSendReady \/ RSendCredit \/ RSendDone
        BY <3>2 DEF RSendReady, RSendCredit, RSendDone, RSendByte, RKilled, Serving
      <3> QED
        BY <1>9, <3>1, <3>2
    <2> QED
      BY <2>1 DEF RHeld, Serving
  <1> QED
    BY <1>1, <1>2, <1>3, <1>4, <1>5, <1>6, <1>7, <1>8, <1>9 DEF RNext

(* The sender moves the receiver only by connecting to it.                 *)
LEMMA SenderLeavesReceiver ==
    ASSUME RHeld, SNext \/ LNext
    PROVE  RHeld'
  <1> USE DEF Serving
  <1>1. CASE STcpConnect
    <2>1. \/ rp = "accept" /\ rp' = "await_meta" /\ rres' = rres \cup {"tcp"}
          \/ rp' = rp /\ rres' = rres
      BY <1>1 DEF STcpConnect, RListening, rvars
    <2> QED
      BY <2>1 DEF RHeld
  <1>2. CASE ~STcpConnect
    <2>1. CASE SNext
      <3>1. UNCHANGED rvars
        BY <1>2, <2>1 DEF SNext, SSetup, SAcquire, SSendMeta, SRecvMeta, SConnectPeer, SAwaitReady,
              SStall, SNoStall, SDrainCredits, SPost, SWritten, SWriteFails, SAwaitDone,
              SCloseTcp, SDestroyPeer, SRelease
      <3> QED
        BY <3>1 DEF rvars, RHeld
    <2>2. CASE LNext
      <3>1. rp' = rp /\ rres' = rres
        BY <2>2 DEF LNext, LSetupSource, LSetupDestination, SAcquire, LPrepost, LStall, LReplenish,
              LPost, LSentinel, LWritten, LWriteFails, LDrain, LTail, LCleanup, Here, rvars
      <3> QED
        BY <3>1 DEF RHeld
    <2> QED
      BY <2>1, <2>2
  <1> QED
    BY <1>1, <1>2

(* Receiver and fabric leave the sender's own state alone.                 *)
LEMMA OthersLeaveSender ==
    ASSUME RNext \/ Deliver \/ RetriesExhausted
    PROVE  UNCHANGED svars
  <1>1. CASE RNext
    BY <1>1 DEF RNext, RAcquire, RAcceptFails, RRecvMeta, RSendMeta, RConnectPeer, RPrepost, RSendReady, RLoop,
         RPollTimeout, RReplenish, RSendCredit, RPollSentinel, RSendDone, RVerify, RDrain, RRelease
  <1> QED
    BY <1>1 DEF Deliver, RetriesExhausted

(* No program is killed but by its own send on a closed connection.        *)
LEMMA ReceiverKilledLate ==
    ASSUME KilledLate, RNext
    PROVE  KilledLate'
  <1>1. sres' = sres
    BY OthersLeaveSender DEF svars
  <1>2. CASE RSendReady \/ RSendCredit \/ RSendDone
    BY <1>1, <1>2 DEF RSendReady, RSendCredit, RSendDone, RSendByte, RKilled, KilledLate
  <1>3. CASE ~(RSendReady \/ RSendCredit \/ RSendDone)
    <2>1. rp' # "killed"
      BY <1>3 DEF RNext, RAcquire, RAcceptFails, RRecvMeta, RSendMeta, RConnectPeer, RPrepost, RLoop,
         RPollTimeout, RReplenish, RPollSentinel, RVerify, RDrain, RRelease, RFail
    <2> QED
      BY <2>1 DEF KilledLate
  <1> QED
    BY <1>2, <1>3

(* Nor does it connect to a receiver that has been killed.                 *)
LEMMA SenderKilledLate ==
    ASSUME KilledLate, SNext \/ LNext
    PROVE  KilledLate'
  <1>1. CASE STcpConnect
    BY <1>1 DEF STcpConnect, SFail, rvars, KilledLate
  <1>2. CASE SSetup \/ LSetupSource \/ LSetupDestination
    BY <1>2 DEF SSetup, LSetupSource, LSetupDestination, SAcquire, SFail, rvars, KilledLate
  <1>3. CASE ~STcpConnect /\ SNext /\ ~SSetup
    <2>1. rp' = rp /\ sres' \subseteq sres \cup {"qp"}
      BY <1>3 DEF SNext, SSendMeta, SRecvMeta, SConnectPeer, SAwaitReady,
              SStall, SNoStall, SDrainCredits, SPost, SWritten, SWriteFails, SAwaitDone,
              SCloseTcp, SDestroyPeer, SRelease, SFail, rvars
    <2> QED
      BY <2>1 DEF KilledLate
  <1>4. CASE LNext /\ ~LSetupSource /\ ~LSetupDestination
    <2>1. rp' = rp /\ sres' \subseteq sres
      BY <1>4 DEF LNext, LPrepost, LStall, LPollAndTrack, LReplenish,
              LPost, LSentinel, LWritten, LWriteFails, LDrain, LTail, LCleanup, SFail, Here
    <2> QED
      BY <2>1 DEF KilledLate
  <1> QED
    BY <1>1, <1>2, <1>3, <1>4

-----------------------------------------------------------------------------
\* What the sender has delivered

(* The sentinel is not the immediate value of any chunk.                   *)
LEMMA SentinelIsNoChunk ==
    ASSUME NEW i \in 0..(Total - 1)
    PROVE  ImmOf(i) # Sentinel
  <1> DEFINE L == Layers
             C == Chunks
             M == ImmMod
  <1>1. /\ L \in Nat \ {0} /\ C \in Nat \ {0} /\ M \in Nat \ {0} /\ L <= M /\ C <= M
        /\ L * C < M * M
    BY SizesAssumption
  <1> HIDE DEF L, C, M
  <1>2. L * C \in Nat
    BY <1>1
  <1>3. i \in Nat /\ i < L * C
    BY <1>2 DEF Total, L, C
  <1>4. PICK l \in Int : l = i \div C
    BY <1>1, <1>3
  <1>5. PICK c \in Int : c = i % C
    BY <1>1, <1>3
  <1>6. i = C * l + c /\ 0 <= c /\ c < C
    BY <1>1, <1>3, <1>4, <1>5
  <1>7. 0 <= l
    <2>1. ASSUME l <= -1 PROVE FALSE
      <3>1. C * l <= -C
        BY <1>1, <2>1
      <3> QED
        BY <1>1, <1>3, <1>6, <3>1
    <2> QED
      BY <2>1
  <1>8. l < L
    <2>1. ASSUME l >= L PROVE FALSE
      <3>1. C * l >= C * L
        BY <1>1, <2>1
      <3>2. C * L = L * C
        BY <1>1
      <3> QED
        BY <1>1, <1>2, <1>3, <1>6, <3>1, <3>2
    <2> QED
      BY <1>1, <2>1
  <1>9. l < M /\ c < M
    BY <1>1, <1>6, <1>8
  <1>10. l % M = l /\ c % M = c
    BY <1>1, <1>6, <1>7, <1>9
  <1>11. ImmOf(i) = l * M + c /\ Sentinel = M * M - 1
    BY <1>4, <1>5, <1>10 DEF ImmOf, ImmEncode, Sentinel, C, M
  <1>12. l * M + c # M * M - 1
    <2>1. ASSUME l * M + c = M * M - 1 PROVE FALSE
      <3>1. l = M - 1
        <4>1. ASSUME l <= M - 2 PROVE FALSE
          <5>1. l * M <= (M - 2) * M
            BY <1>1, <1>7, <4>1
          <5>2. (M - 2) * M = M * M - 2 * M
            BY <1>1
          <5> QED
            BY <1>1, <1>6, <1>9, <2>1, <5>1, <5>2
        <4> QED
          BY <1>1, <1>9, <4>1
      <3>2. (M - 1) * M = M * M - M
        BY <1>1
      <3>3. c = M - 1
        BY <1>1, <1>6, <2>1, <3>1, <3>2
      <3>4. C = M /\ L = M
        BY <1>1, <1>6, <1>8, <3>1, <3>3
      <3> QED
        BY <1>1, <3>4
    <2> QED
      BY <2>1
  <1> QED
    BY <1>11, <1>12

(* What the writes have delivered.                                         *)
DInv == WrInv /\ SentInv

(* A transfer has at least one chunk.                                      *)
LEMMA TotalType == Total \in Nat \ {0} /\ 0 \in 0..Total /\ 0 \in 0..(Total - 1)
  <1>1. Layers \in Nat \ {0} /\ Chunks \in Nat \ {0}
    BY SizesAssumption
  <1>2. Layers * Chunks \in Nat /\ Layers * Chunks # 0
    BY <1>1
  <1>3. PICK t \in Nat : t = Layers * Chunks /\ t # 0
    BY <1>2
  <1>4. 0 \in 0..t /\ 0 \in 0..(t - 1)
    BY <1>3
  <1> QED
    BY <1>3, <1>4 DEF Total

(* A failed call is never a success.                                       *)
LEMMA FailDelivers ==
    ASSUME DInv, SFail, UNCHANGED <<wr, mem>>
    PROVE  DInv'
  BY DEF DInv, WrInv, SentInv, SFail

(* A step that moves neither the chunks nor the write.                     *)
LEMMA MoveDelivers ==
    ASSUME DInv, UNCHANGED <<wr, mem, idx>>,
           sp' \notin {"writing", "l_writing"},
           sp' \in {"drain", "write"} => idx < Total,
           sp' = "await_done" => idx = Total,
           sp' \in Ended /\ sret' = 0 => mem = 0..(Total - 1)
    PROVE  DInv'
  BY DEF DInv, WrInv, SentInv

(* A write is posted for the chunk idx or for the sentinel.                *)
LEMMA PostDelivers ==
    ASSUME DInv, UNCHANGED <<mem, idx>>, sp' \in {"writing", "l_writing"},
           \/ idx < Total /\ wr' = [imm |-> ImmOf(idx), off |-> idx, st |-> "posted"]
           \/ idx = Total /\ wr' = [imm |-> Sentinel, off |-> 0, st |-> "posted"]
    PROVE  DInv'
  <1>1. idx \in 0..Total
    BY DEF DInv, SentInv
  <1>2. idx < Total => idx \in 0..(Total - 1)
    BY <1>1, TotalType
  <1>3. /\ wr'.st = "posted" /\ wr'.off \in 0..(Total - 1)
        /\ wr' = [imm |-> wr'.imm, off |-> wr'.off, st |-> wr'.st]
        /\ \/ idx < Total /\ wr'.imm = ImmOf(idx) /\ wr'.off = idx
           \/ idx = Total /\ wr'.imm = Sentinel
    BY <1>2, TotalType
  <1>4. WrInv'
    BY <1>3 DEF WrInv
  <1>5. SentInv'
    BY DEF DInv, SentInv, Ended
  <1> QED
    BY <1>4, <1>5 DEF DInv

(* An acknowledged write: its chunk is in place, and one that carries the  *)
(* sentinel was not a chunk.                                               *)
LEMMA WrittenDelivers ==
    ASSUME DInv, sp \in {"writing", "l_writing"}, wr.st = "acked", wr' = NoWr, mem' = mem,
           \/ wr.imm = Sentinel /\ idx' = idx /\ sp' \in {"await_done", "l_drain"}
           \/ wr.imm # Sentinel /\ idx' = idx + 1 /\ sp' \in {"loop", "l_loop"}
    PROVE  DInv'
  <1>1. /\ idx \in 0..Total /\ 0..(idx - 1) \subseteq mem /\ mem \subseteq 0..(Total - 1)
        /\ \/ idx < Total /\ wr.imm = ImmOf(idx) /\ wr.off = idx
           \/ idx = Total /\ wr.imm = Sentinel
        /\ wr.off \in mem
    BY DEF DInv, WrInv, SentInv
  <1>2. WrInv'
    <2>1. NoWr = [imm |-> NoWr.imm, off |-> NoWr.off, st |-> NoWr.st] /\ NoWr.off = 0
      BY DEF NoWr
    <2> QED
      BY <2>1, TotalType DEF WrInv
  <1>3. CASE wr.imm = Sentinel /\ idx' = idx /\ sp' \in {"await_done", "l_drain"}
    <2>1. idx = Total
      <3>1. idx < Total => idx \in 0..(Total - 1)
        BY <1>1, TotalType
      <3> QED
        BY <1>1, <1>3, <3>1, SentinelIsNoChunk
    <2> QED
      BY <1>1, <1>2, <1>3, <2>1 DEF DInv, SentInv, Ended
  <1>4. CASE wr.imm # Sentinel /\ idx' = idx + 1 /\ sp' \in {"loop", "l_loop"}
    <2>1. idx < Total /\ idx \in mem
      BY <1>1, <1>4
    <2>2. idx + 1 \in 0..Total /\ (idx + 1) - 1 = idx
      BY <1>1, <2>1, TotalType
    <2>3. 0..((idx + 1) - 1) \subseteq mem
      <3>1. \A i \in 0..idx : i = idx \/ i \in 0..(idx - 1)
        BY <1>1
      <3> QED
        BY <1>1, <2>1, <2>2, <3>1
    <2> QED
      BY <1>1, <1>2, <1>4, <2>2, <2>3 DEF DInv, SentInv, Ended
  <1> QED
    BY <1>3, <1>4

(* When idx has reached the end every chunk is in place.                   *)
LEMMA AllDelivered ==
    ASSUME DInv, idx = Total
    PROVE  mem = 0..(Total - 1)
  BY DEF DInv, SentInv

(* The next transfer, or the end: idx starts again.                        *)
LEMMA NextTransfer ==
    ASSUME DInv, UNCHANGED <<mem, wr>>, idx' = 0,
           sp' \notin {"writing", "l_writing", "drain", "write", "await_done"},
           sp' \in Ended /\ sret' = 0 => mem = 0..(Total - 1)
    PROVE  DInv'
  <1>1. 0..(0 - 1) = {}
    OBVIOUS
  <1>2. 0..(idx' - 1) \subseteq mem'
    BY <1>1
  <1> QED
    BY <1>2, TotalType DEF DInv, WrInv, SentInv

(* The steps of the sender in --peer mode.                                 *)
LEMMA SenderDelivers ==
    ASSUME DInv, SNext
    PROVE  DInv'
  <1>1. CASE SSetup
    <2>1. /\ SFail \/ (UNCHANGED idx /\ sp' \in {"src", "mr", "peer", "tcp"})
          /\ UNCHANGED <<wr, mem>>
      BY <1>1 DEF SSetup, SAcquire, rvars
    <2> QED
      BY <2>1, FailDelivers, MoveDelivers DEF Ended
  <1>2. CASE STcpConnect \/ SSendMeta \/ SRecvMeta \/ SConnectPeer
    <2>1. /\ SFail \/ (UNCHANGED idx /\ sp' \in {"meta", "await_meta", "connect", "await_ready"})
          /\ UNCHANGED <<wr, mem>>
      BY <1>2 DEF STcpConnect, SSendMeta, SRecvMeta, SConnectPeer, rvars
    <2> QED
      BY <2>1, FailDelivers, MoveDelivers DEF Ended
  <1>3. CASE SAwaitReady \/ SStall \/ SNoStall \/ SDrainCredits
    <2>1. /\ UNCHANGED <<wr, mem, idx>>
          /\ \/ sp' = "loop"
             \/ sp' = "out_tcp" /\ sret' = 1
             \/ sp' = "drain" /\ idx < Total
             \/ sp' = "write" /\ sp = "drain"
      <3>1. CASE SAwaitReady
        BY <3>1 DEF SAwaitReady, SReadByte, rvars
      <3>2. CASE SStall
        <4>1. /\ UNCHANGED <<idx, wr, rvars>> /\ idx < Total
              /\ sp' = "drain" \/ (sp' = "out_tcp" /\ sret' = 1)
          BY <3>2 DEF SStall
        <4> QED
          BY <4>1 DEF rvars
      <3>3. CASE SNoStall
        BY <3>3 DEF SNoStall, rvars
      <3>4. CASE SDrainCredits
        BY <3>4 DEF SDrainCredits, rvars
      <3> QED
        BY <1>3, <3>1, <3>2, <3>3, <3>4
    <2>2. sp = "drain" => idx < Total
      BY DEF DInv, SentInv
    <2> QED
      BY <2>1, <2>2, MoveDelivers DEF Ended
  <1>4. CASE SPost
    <2>1. sp = "write" => idx < Total
      BY DEF DInv, SentInv
    <2>2. UNCHANGED <<mem, idx>>
      BY <1>4 DEF SPost, rvars
    <2> QED
      BY <1>4, <2>1, <2>2, PostDelivers DEF SPost
  <1>5. CASE SWritten
    <2>1. mem' = mem
      BY <1>5 DEF SWritten, rvars
    <2> QED
      BY <1>5, <2>1, WrittenDelivers DEF SWritten
  <1>6. CASE SWriteFails
    BY <1>6, FailDelivers DEF SWriteFails, rvars
  <1>7. CASE SAwaitDone
    <2>1. /\ sp = "await_done" /\ idx' = 0 /\ UNCHANGED <<mem, wr>> /\ sp' \in {"loop", "out_tcp"}
      BY <1>7 DEF SAwaitDone, SReadByte, rvars
    <2>2. mem = 0..(Total - 1)
      BY <2>1, AllDelivered DEF DInv, SentInv
    <2> QED
      BY <2>1, <2>2, NextTransfer
  <1>8. CASE SCloseTcp \/ SRelease
    <2>1. UNCHANGED <<wr, mem, idx, sret>> /\ sp \in Ended /\ sp' \in Ended
      BY <1>8 DEF SCloseTcp, SRelease, rvars, Ended
    <2>2. sret = 0 => mem = 0..(Total - 1)
      BY <2>1 DEF DInv, SentInv
    <2> QED
      BY <2>1, <2>2, MoveDelivers DEF Ended
  <1>9. CASE SDestroyPeer
    <2>1. /\ UNCHANGED <<mem, idx, sret>> /\ sp = "out_peer" /\ sp' = "out_rdma"
          /\ wr' = [imm |-> 0, off |-> 0, st |-> "none"]
      BY <1>9 DEF SDestroyPeer, rvars, NoWr
    <2>2. WrInv'
      BY <2>1, TotalType DEF WrInv
    <2>3. SentInv'
      BY <2>1 DEF DInv, SentInv, Ended
    <2> QED
      BY <2>2, <2>3 DEF DInv
  <1> QED
    BY <1>1, <1>2, <1>3, <1>4, <1>5, <1>6, <1>7, <1>8, <1>9 DEF SNext

(* The steps of the sender in --loopback mode: it verifies what it reports. *)
LEMMA LoopbackDelivers ==
    ASSUME DInv, LNext
    PROVE  DInv'
  <1>1. CASE LSetupSource \/ LSetupDestination
    <2>1. /\ SFail \/ (UNCHANGED idx /\ sp' \in {"src", "mr", "dbuf", "dmr", "l_prepost"})
          /\ UNCHANGED <<wr, mem>>
      BY <1>1 DEF LSetupSource, LSetupDestination, SAcquire, rvars
    <2> QED
      BY <2>1, FailDelivers, MoveDelivers DEF Ended
  <1>2. CASE LPrepost \/ LReplenish
    <2>1. /\ SFail \/ (UNCHANGED idx /\ sp' = "l_loop")
          /\ UNCHANGED <<wr, mem>>
      BY <1>2 DEF LPrepost, LReplenish
    <2> QED
      BY <2>1, FailDelivers, MoveDelivers DEF Ended
  <1>3. CASE LStall \/ LDrain
    <2>1. /\ SFail \/ (UNCHANGED idx /\ sp' \in {"l_replenish", "l_drain", "l_tail"})
          /\ UNCHANGED <<wr, mem>>
      <3>1. CASE LStall
        BY <3>1 DEF LStall, LPollAndTrack
      <3>2. CASE LDrain
        BY <3>2 DEF LDrain, LPollAndTrack
      <3> QED
        BY <1>3, <3>1, <3>2
    <2> QED
      BY <2>1, FailDelivers, MoveDelivers DEF Ended
  <1>4. CASE LPost
    BY <1>4, PostDelivers DEF LPost
  <1>5. CASE LSentinel
    <2>1. CASE SFail /\ UNCHANGED <<wr, mem>>
      BY <2>1, FailDelivers
    <2>2. CASE ~(SFail /\ UNCHANGED <<wr, mem>>)
      <3>1. /\ wr' = [imm |-> Sentinel, off |-> 0, st |-> "posted"] /\ sp' = "l_writing"
            /\ UNCHANGED <<mem, idx>> /\ idx = Total
        BY <1>5, <2>2 DEF LSentinel
      <3> QED
        BY <3>1, PostDelivers
    <2> QED
      BY <2>1, <2>2
  <1>6. CASE LWritten
    BY <1>6, WrittenDelivers DEF LWritten
  <1>7. CASE LWriteFails
    BY <1>7, FailDelivers DEF LWriteFails
  <1>8. CASE LTail
    <2>1. /\ UNCHANGED <<mem, wr>> /\ idx' = 0 /\ sp' \in {"l_prepost", "l_out"}
          /\ sret' = 0 => Verified
      BY <1>8 DEF LTail
    <2> QED
      BY <2>1, NextTransfer DEF Verified
  <1>9. CASE LCleanup
    <2>1. /\ UNCHANGED <<mem, idx, sret>> /\ sp \in Ended /\ sp' \in {"l_out2", "exited"}
          /\ wr' = [imm |-> 0, off |-> 0, st |-> "none"]
      BY <1>9 DEF LCleanup, NoWr, Ended
    <2>2. WrInv'
      BY <2>1, TotalType DEF WrInv
    <2>3. SentInv'
      BY <2>1 DEF DInv, SentInv, Ended
    <2> QED
      BY <2>2, <2>3 DEF DInv
  <1> QED
    BY <1>1, <1>2, <1>3, <1>4, <1>5, <1>6, <1>7, <1>8, <1>9 DEF LNext

(* The fabric: a delivery puts the bytes in place before the sender hears  *)
(* of it; the receiver never writes them.                                  *)
LEMMA OthersDeliver ==
    ASSUME DInv, RNext \/ Deliver \/ RetriesExhausted
    PROVE  DInv'
  <1>1. UNCHANGED <<sp, idx, sret>>
    BY OthersLeaveSender DEF svars
  <1>2. CASE RNext
    <2>1. UNCHANGED <<wr, mem>>
      BY <1>2 DEF RNext, RAcquire, RAcceptFails, RRecvMeta, RSendMeta, RConnectPeer, RPrepost,
         RSendReady, RLoop, RPollTimeout, RReplenish, RSendCredit, RPollSentinel, RSendDone, RVerify,
         RDrain, RRelease, RFail
    <2> QED
      BY <1>1, <2>1 DEF DInv, WrInv, SentInv
  <1>3. CASE Deliver \/ RetriesExhausted
    <2>1. PICK o \in 0..(Total - 1) : o = wr.off
      BY DEF DInv, WrInv
    <2>2. PICK i : i = wr.imm
      OBVIOUS
    <2>3. \/ wr' = [imm |-> i, off |-> o, st |-> "acked"] /\ mem' = mem \cup {o}
          \/ wr' = [imm |-> i, off |-> o, st |-> "error"] /\ mem' \in {mem, mem \cup {o}}
      BY <1>3, <2>1, <2>2 DEF Deliver, RetriesExhausted, DInv, WrInv, rvars
    <2>4. /\ wr' = [imm |-> wr'.imm, off |-> wr'.off, st |-> wr'.st]
          /\ wr'.imm = i /\ wr'.off = o /\ (wr'.st = "acked" => o \in mem')
      BY <2>3
    <2>5. WrInv'
      BY <1>1, <2>1, <2>2, <2>4 DEF DInv, WrInv
    <2>6. mem \subseteq mem' /\ mem' \subseteq 0..(Total - 1)
      BY <2>1, <2>3 DEF DInv, SentInv
    <2>7. SentInv'
      BY <1>1, <2>6 DEF DInv, SentInv
    <2> QED
      BY <2>5, <2>7 DEF DInv
  <1> QED
    BY <1>2, <1>3

-----------------------------------------------------------------------------
\* The theorems

(* Nothing is held or sent at the start.                                   *)
LEMMA InitKInv == Init => KInv
  <1> SUFFICES ASSUME Init PROVE KInv
    OBVIOUS
  <1>1. SHeld /\ RHeld /\ KilledLate
    BY DEF Init, SHeld, RHeld, KilledLate, PeerPcs, LoopbackPcs, Serving
  <1>2. WrInv
    <2>1. wr = [imm |-> 0, off |-> 0, st |-> "none"] /\ sp = "rdma"
      BY DEF Init, NoWr
    <2> QED
      BY <2>1, TotalType DEF WrInv
  <1>3. SentInv
    <2>1. 0..(0 - 1) = {} /\ idx = 0 /\ mem = {} /\ sp = "rdma"
      BY DEF Init
    <2>2. 0..(idx - 1) \subseteq mem
      BY <2>1
    <2> QED
      BY <2>1, <2>2, TotalType DEF SentInv, Ended
  <1> QED
    BY <1>1, <1>2, <1>3 DEF KInv

(* Every step of either program or the fabric keeps the invariant.         *)
LEMMA StepKInv == KInv /\ [Next]_vars => KInv'
  <1> SUFFICES ASSUME KInv, [Next]_vars PROVE KInv'
    OBVIOUS
  <1>1. SHeld /\ RHeld /\ KilledLate /\ DInv
    BY DEF KInv, DInv
  <1>2. CASE Sender
    <2>1. SHeld'
      BY <1>1, <1>2, SenderHeld, LoopbackHeld DEF Sender
    <2>2. RHeld'
      BY <1>1, <1>2, SenderLeavesReceiver DEF Sender
    <2>4. KilledLate'
      BY <1>1, <1>2, SenderKilledLate DEF Sender
    <2>3. DInv'
      BY <1>1, <1>2, SenderDelivers, LoopbackDelivers DEF Sender
    <2> QED
      BY <2>1, <2>2, <2>3, <2>4 DEF KInv, DInv
  <1>3. CASE Receiver
    <2>1. UNCHANGED <<mode, sp, sres>>
      BY <1>3, OthersLeaveSender DEF Receiver, svars
    <2>2. SHeld'
      BY <1>1, <2>1 DEF SHeld
    <2>3. RHeld' /\ KilledLate' /\ DInv'
      BY <1>1, <1>3, ReceiverHeld, ReceiverKilledLate, OthersDeliver DEF Receiver
    <2> QED
      BY <2>2, <2>3 DEF KInv, DInv
  <1>4. CASE Fabric
    <2>1. UNCHANGED <<mode, sp, sres>>
      BY <1>4, OthersLeaveSender DEF Fabric, svars
    <2>2. SHeld'
      BY <1>1, <2>1 DEF SHeld
    <2>3. UNCHANGED <<rp, rres>>
      BY <1>4 DEF Fabric, Deliver, RetriesExhausted, rvars
    <2>4. RHeld' /\ KilledLate'
      BY <1>1, <2>1, <2>3 DEF RHeld, KilledLate
    <2>5. DInv'
      BY <1>1, <1>4, OthersDeliver DEF Fabric
    <2> QED
      BY <2>2, <2>4, <2>5 DEF KInv, DInv
  <1>5. CASE UNCHANGED vars
    <2>1. UNCHANGED <<mode, sp, idx, sres, sret, wr, rp, mem, rres>>
      BY <1>5 DEF vars, svars, rvars
    <2>2. SHeld' /\ RHeld' /\ KilledLate'
      BY <1>1, <2>1 DEF SHeld, RHeld, KilledLate
    <2>3. DInv'
      BY <1>1, <2>1 DEF DInv, WrInv, SentInv
    <2> QED
      BY <2>2, <2>3 DEF KInv, DInv
  <1> QED
    BY <1>2, <1>3, <1>4, <1>5 DEF Next, Finished

(* The inductive invariant of the two programs, in both modes.             *)
THEOREM KvInvariant == Spec => []KInv
  BY InitKInv, StepKInv, PTL DEF Spec

(* Whatever call failed, a program that reaches its end has released what  *)
(* it acquired, and a region never outlives its buffer (the cleanup labels *)
(* of run_peer and run_loopback).  A receiver that misses its end, by a    *)
(* send to a sender that has closed, leaves all but the connection.        *)
THEOREM CleanupIsComplete == Spec => []ExitReleasesAll
  <1>1. KInv => ExitReleasesAll
    BY DEF KInv, SHeld, RHeld, KilledLate, ExitReleasesAll
  <1> QED
    BY <1>1, KvInvariant, PTL

(* A sender that reports success has put every chunk in place: in --peer   *)
(* mode by the acknowledged writes before the sentinel, in --loopback mode *)
(* by its own verification.                                                *)
THEOREM SuccessMeansDelivered == Spec => []SenderSuccessDelivered
  <1>1. KInv => SenderSuccessDelivered
    BY DEF KInv, SentInv, SenderSuccessDelivered, Ended
  <1> QED
    BY <1>1, KvInvariant, PTL

-----------------------------------------------------------------------------
\* The invariant of the transfer

Setup == {"rdma", "src", "mr", "peer", "tcp"}
Joined == {"meta", "await_meta", "connect", "await_ready"}
Sending == {"loop", "drain", "write", "writing"}
Writing == {"writing", "l_writing"}

(* The receiver before its "ready" byte, and its cleanup or its death.     *)
RBefore == {"rdma", "peer", "accept", "await_meta", "buf", "mr", "meta", "connect",
            "prepost", "ready"}
RCleanup == {"out_tcp", "out_drain", "out_peer", "out_rdma", "out_mr", "out_buf", "exited",
             "killed"}

One(b) == IF b THEN 1 ELSE 0

AllChunks == 0..(Total - 1)
BitmapType == [0..(Layers - 1) -> SUBSET (0..(Chunks - 1))]

(* The chunk i is marked in the bitmap bm.                                 *)
Marked(bm, i) == (i % Chunks) \in bm[i \div Chunks]

(* The types, and that a transfer under way is one of Iterations.          *)
SKinds ==
    /\ sret \in {0, 1} /\ iter \in 0..Iterations /\ credits \in Int
    /\ sp \notin Ended => iter < Iterations
    /\ wr.st \in {"none", "posted", "acked", "error"}
    /\ faulty \in BOOLEAN

RKinds ==
    /\ rp \in RBefore \cup RCleanup
                \cup {"loop", "replenish", "credit", "tail", "done", "verify"}
    /\ rret \in {0, 1} /\ meta \subseteq {"s", "r"}
    /\ to_s \in Seq({"ready", "credit", "done", "lost"}) /\ cq \in Seq(Int)

(* How far one program can be when the other stands at a stage.            *)
StageInv ==
    /\ sp \notin Writing \cup Ended => wr.st = "none"
    /\ sp \in Joined \cup Sending \cup {"await_done"} => "tcp" \in sres
    /\ sp \in Setup \cup Joined =>
          iter = 0 /\ idx = 0 /\ cq = <<>> /\ rp \notin {"replenish", "credit"}
    /\ mode = "peer" /\ sp \in Setup => rp \in {"rdma", "peer", "accept"} \cup RCleanup
    /\ mode = "peer" /\ sp \in Joined /\ rp = "loop" => Len(to_s) = 1
    /\ rp \in RBefore =>
          to_s = <<>> /\ cq = <<>> /\ wr.st = "none" /\ sp \notin Sending \cup {"await_done"}
    /\ mode = "loopback" => rp = "exited"

(* The receives of the receiving queue pair: in --peer mode each of them   *)
(* is posted, completed or about to be replaced.                           *)
RecvInv ==
    /\ posted \in 0..(IF mode = "peer" THEN PeerRecvWr ELSE Window + Headroom)
    /\ rp \in RBefore \ {"prepost", "ready"} => posted = 0
    /\ rp = "prepost" => posted <= InitialRecvs
    /\ Receiving => /\ posted + Len(cq) + One(rp = "replenish") = InitialRecvs
                    /\ InitialRecvs <= PeerRecvWr

(* The credits of the first transfer in --peer mode: each is with the      *)
(* sender, a byte on its way, a completion or a receive being replaced.    *)
CreditInv ==
    /\ sp \in Sending => credits >= 0
    /\ sp \in {"drain", "write"} => credits >= 1
    /\ sp = "writing" /\ idx < Total => credits >= 1
    /\ sp \in Sending /\ iter = 0 /\ idx < Total /\ Receiving =>
          /\ credits + Len(to_s) + Len(cq) + One(rp \in {"replenish", "credit"})
               = Window + One(wr.st = "acked")
          /\ Len(cq) + One(rp = "replenish") <= idx + One(wr.st = "acked")

(* The credits of --loopback mode are posted receives, in every transfer.  *)
LCreditInv ==
    /\ sp \in {"l_loop", "l_replenish"} => credits <= posted
    /\ sp = "l_writing" => credits <= posted + One(wr.st = "acked")

(* What is marked or completed is in the buffer, and the sentinel comes    *)
(* after every chunk.                                                      *)
MarkInv ==
    /\ bitmap \in BitmapType
    /\ \A i \in AllChunks : Marked(bitmap, i) => i \in mem
    /\ \A k \in 1..Len(cq) :
          \/ cq[k] = Sentinel /\ mem = AllChunks
          \/ \E i \in mem : cq[k] = ImmOf(i)
    /\ wr.st = "posted" =>
          \/ wr.imm = Sentinel /\ mem = AllChunks
          \/ wr.imm = ImmOf(wr.off)

(* A chunk in the buffer is marked, or its completion is ahead of every    *)
(* sentinel in the queue.                                                  *)
AheadInv ==
    rp \in RBefore \cup {"loop", "replenish", "credit"} =>
        \A i \in mem :
            \/ Marked(bitmap, i)
            \/ \E k \in 1..Len(cq) :
                  cq[k] = ImmOf(i) /\ \A j \in 1..(k - 1) : cq[j] # Sentinel

(* In the first loopback transfer a chunk completes once and is marked     *)
(* when polled, and the sentinel is the last completion.                   *)
FirstInv ==
    mode = "loopback" /\ iter = 0 /\ sp \notin Ended =>
        /\ \A i \in mem : i < idx \/ (i = idx /\ sp = "l_writing" /\ wr.st \in {"acked", "error"})
        /\ \A j, k \in 1..Len(cq) : cq[j] = cq[k] => j = k
        /\ \A k \in 1..Len(cq) : \A i \in AllChunks :
              cq[k] = ImmOf(i) => ~Marked(bitmap, i)
        /\ \A k \in 1..Len(cq) : cq[k] = Sentinel =>
              /\ k = Len(cq)
              /\ \/ sp \in {"l_drain", "l_tail"}
                 \/ sp = "l_writing" /\ idx = Total /\ wr.st = "acked"
        /\ sp = "l_tail" => Len(cq) <= 1

(* The destination of --loopback mode is set up before any transfer.       *)
SetupInv == sp \in {"dbuf", "dmr"} => iter = 0

TInv ==
    /\ KInv /\ SKinds /\ RKinds /\ StageInv /\ RecvInv /\ CreditInv /\ LCreditInv
    /\ MarkInv /\ AheadInv /\ FirstInv /\ SetupInv
    /\ WriteFindsReceive /\ LoopEndsWhole /\ FirstTransferDrained

-----------------------------------------------------------------------------
\* The numbering of the chunks

(* The layer and the place in it of a chunk, in its index and in its       *)
(* immediate value.                                                        *)
LEMMA ChunkIndex ==
    ASSUME NEW i \in AllChunks
    PROVE  /\ i \div Chunks \in 0..(Layers - 1) /\ i % Chunks \in 0..(Chunks - 1)
           /\ i = Chunks * (i \div Chunks) + (i % Chunks)
           /\ ImmLayer(ImmOf(i)) = i \div Chunks /\ ImmChunk(ImmOf(i)) = i % Chunks
           /\ ImmOf(i) \in Int
  <1> DEFINE L == Layers
             C == Chunks
             M == ImmMod
  <1>1. L \in Nat \ {0} /\ C \in Nat \ {0} /\ M \in Nat \ {0} /\ L <= M /\ C <= M
    BY SizesAssumption
  <1> HIDE DEF L, C, M
  <1>2. L * C \in Nat
    BY <1>1
  <1>3. i \in Nat /\ i < L * C
    BY <1>2 DEF AllChunks, Total, L, C
  <1>4. PICK l \in Int : l = i \div C
    BY <1>1, <1>3
  <1>5. PICK c \in Int : c = i % C
    BY <1>1, <1>3
  <1>6. i = C * l + c /\ 0 <= c /\ c < C
    BY <1>1, <1>3, <1>4, <1>5
  <1>7. 0 <= l
    <2>1. ASSUME l <= -1 PROVE FALSE
      <3>1. C * l <= -C
        BY <1>1, <2>1
      <3> QED
        BY <1>1, <1>3, <1>6, <3>1
    <2> QED
      BY <2>1
  <1>8. l < L
    <2>1. ASSUME l >= L PROVE FALSE
      <3>1. C * l >= C * L
        BY <1>1, <2>1
      <3>2. C * L = L * C
        BY <1>1
      <3> QED
        BY <1>1, <1>2, <1>3, <1>6, <3>1, <3>2
    <2> QED
      BY <1>1, <2>1
  <1>9. l < M /\ c < M
    BY <1>1, <1>6, <1>8
  <1>10. l % M = l /\ c % M = c
    BY <1>1, <1>6, <1>7, <1>9
  <1>11. ImmOf(i) = l * M + c
    BY <1>4, <1>5, <1>10 DEF ImmOf, ImmEncode, C, M
  <1>12. PICK m \in Int : m = l * M + c
    BY <1>1
  <1>13. m % M = c /\ m \div M = l
    <2>1. PICK q \in Int : q = m \div M
      BY <1>1, <1>12
    <2>2. PICK r \in Int : r = m % M
      BY <1>1, <1>12
    <2>3. m = M * q + r /\ 0 <= r /\ r < M
      BY <1>1, <1>12, <2>1, <2>2
    <2>4. PICK d \in Int : d = q - l
      OBVIOUS
    <2>5. M * d = M * q - M * l
      BY <1>1, <2>4
    <2>6. M * d = c - r
      BY <1>1, <1>12, <2>3, <2>5
    <2>7. -M < c - r /\ c - r < M
      BY <1>1, <1>6, <1>9, <2>3
    <2>8. ~(d >= 1)
      <3>1. ASSUME d >= 1 PROVE M * d >= M
        BY <1>1, <3>1
      <3> QED
        BY <1>1, <2>6, <2>7, <3>1
    <2>9. ~(d <= -1)
      <3>1. ASSUME d <= -1 PROVE M * d <= -M
        BY <1>1, <3>1
      <3> QED
        BY <1>1, <2>6, <2>7, <3>1
    <2>10. d = 0
      BY <2>8, <2>9
    <2>11. q = l /\ r = c
      BY <1>1, <2>3, <2>4, <2>6, <2>10
    <2> QED
      BY <2>1, <2>2, <2>11
  <1>14. ImmChunk(ImmOf(i)) = c /\ ImmLayer(ImmOf(i)) = l
    BY <1>10, <1>11, <1>12, <1>13 DEF ImmChunk, ImmLayer, M
  <1>15. l \in 0..(L - 1) /\ c \in 0..(C - 1)
    BY <1>1, <1>6, <1>7, <1>8
  <1> QED
    BY <1>4, <1>5, <1>6, <1>11, <1>12, <1>14, <1>15 DEF L, C

(* Every place of every layer belongs to a chunk.                          *)
LEMMA IndexOfChunk ==
    ASSUME NEW l \in 0..(Layers - 1), NEW c \in 0..(Chunks - 1)
    PROVE  \E i \in AllChunks : i \div Chunks = l /\ i % Chunks = c
  <1> DEFINE L == Layers
             C == Chunks
  <1>1. L \in Nat \ {0} /\ C \in Nat \ {0}
    BY SizesAssumption
  <1>2. l \in Nat /\ l <= L - 1 /\ c \in Nat /\ c <= C - 1
    BY <1>1
  <1> HIDE DEF L, C
  <1>3. PICK i \in Int : i = C * l + c
    BY <1>1, <1>2
  <1>4. C * l >= 0 /\ C * l <= C * (L - 1)
    BY <1>1, <1>2
  <1>5. C * (L - 1) = L * C - C
    BY <1>1
  <1>6. L * C \in Int /\ C * l \in Int
    BY <1>1, <1>2
  <1>7. 0 <= i /\ i <= L * C - 1
    BY <1>1, <1>2, <1>3, <1>4, <1>5, <1>6
  <1>8. i \in AllChunks
    BY <1>6, <1>7 DEF AllChunks, Total, L, C
  <1>9. PICK q \in Int : q = i \div C
    BY <1>1
  <1>10. PICK r \in Int : r = i % C
    BY <1>1
  <1>11. i = C * q + r /\ 0 <= r /\ r < C
    BY <1>1, <1>9, <1>10
  <1>12. PICK d \in Int : d = q - l
    BY <1>2
  <1>13. C * d = C * q - C * l
    BY <1>1, <1>2, <1>12
  <1>14. C * d = c - r
    BY <1>1, <1>2, <1>3, <1>11, <1>13
  <1>15. -C < c - r /\ c - r < C
    BY <1>1, <1>2, <1>11
  <1>16. ~(d >= 1)
    <2>1. ASSUME d >= 1 PROVE C * d >= C
      BY <1>1, <2>1
    <2> QED
      BY <1>1, <1>2, <1>14, <1>15, <2>1
  <1>17. ~(d <= -1)
    <2>1. ASSUME d <= -1 PROVE C * d <= -C
      BY <1>1, <2>1
    <2> QED
      BY <1>1, <1>2, <1>14, <1>15, <2>1
  <1>18. q = l /\ r = c
    <2>1. d = 0
      BY <1>16, <1>17
    <2>2. q = l
      BY <1>2, <1>12, <2>1
    <2> QED
      BY <1>1, <1>2, <1>3, <1>11, <2>2
  <1> QED
    BY <1>8, <1>9, <1>10, <1>18 DEF C

(* Different chunks have different immediate values.                       *)
LEMMA ImmInjective ==
    ASSUME NEW i \in AllChunks, NEW j \in AllChunks, ImmOf(i) = ImmOf(j)
    PROVE  i = j
  <1>1. i \div Chunks = j \div Chunks /\ i % Chunks = j % Chunks
    BY ChunkIndex
  <1> QED
    BY <1>1, ChunkIndex

(* bitmap_set with the fields of a chunk's immediate value marks that      *)
(* chunk and no other.                                                     *)
LEMMA MarkOne ==
    ASSUME Chunks < BitmapBits, NEW bm \in BitmapType, NEW i \in AllChunks,
           NEW b2, b2 = BitmapSet(bm, ImmLayer(ImmOf(i)), ImmChunk(ImmOf(i)))
    PROVE  /\ b2 \in BitmapType
           /\ \A j \in AllChunks : Marked(b2, j) <=> Marked(bm, j) \/ j = i
  <1>1. PICK l \in 0..(Layers - 1) : l = i \div Chunks
    BY ChunkIndex
  <1>2. PICK c \in 0..(Chunks - 1) : c = i % Chunks
    BY ChunkIndex
  <1>3. c < BitmapBits
    BY SizesAssumption
  <1>4. ImmLayer(ImmOf(i)) = l /\ ImmChunk(ImmOf(i)) = c
    BY <1>1, <1>2, ChunkIndex
  <1>5. b2 = [bm EXCEPT ![l] = @ \cup {c}]
    BY <1>3, <1>4, SizesAssumption DEF BitmapSet, BitmapType
  <1>6. b2 \in BitmapType
    BY <1>5 DEF BitmapType
  <1>7. ASSUME NEW j \in AllChunks
        PROVE  Marked(b2, j) <=> Marked(bm, j) \/ j = i
    <2>1. PICK m \in 0..(Layers - 1) : m = j \div Chunks
      BY ChunkIndex
    <2>2. PICK d \in 0..(Chunks - 1) : d = j % Chunks
      BY ChunkIndex
    <2>3. (m = l /\ d = c) <=> j = i
      <3>1. i = Chunks * l + c
        BY <1>1, <1>2, ChunkIndex
      <3>2. j = Chunks * m + d
        BY <2>1, <2>2, ChunkIndex
      <3> QED
        BY <1>1, <1>2, <2>1, <2>2, <3>1, <3>2
    <2>4. d \in b2[m] <=> d \in bm[m] \/ (m = l /\ d = c)
      BY <1>5 DEF BitmapType
    <2> QED
      BY <2>1, <2>2, <2>3, <2>4 DEF Marked
  <1> QED
    BY <1>6, <1>7

(* A bitmap that bitmap_all_complete accepts has every chunk marked.       *)
LEMMA CompleteIsMarked ==
    ASSUME Chunks < BitmapBits, NEW bm \in BitmapType, BitmapAllComplete(bm)
    PROVE  \A i \in AllChunks : Marked(bm, i)
  <1>1. Chunks % BitmapBits = Chunks
    BY SizesAssumption
  <1>2. \A l \in 0..(Layers - 1) : 0..(Chunks - 1) \subseteq bm[l]
    BY <1>1 DEF BitmapAllComplete, BitmapLayerComplete
  <1> QED
    BY <1>2, ChunkIndex DEF Marked

(* A bitmap with every chunk marked is full.                               *)
LEMMA MarkedIsFull ==
    ASSUME NEW bm \in BitmapType, \A i \in AllChunks : Marked(bm, i)
    PROVE  \A l \in 0..(Layers - 1) : bm[l] = 0..(Chunks - 1)
  <1> SUFFICES ASSUME NEW l \in 0..(Layers - 1) PROVE bm[l] = 0..(Chunks - 1)
    OBVIOUS
  <1>1. bm[l] \subseteq 0..(Chunks - 1)
    BY DEF BitmapType
  <1>2. ASSUME NEW c \in 0..(Chunks - 1) PROVE c \in bm[l]
    BY IndexOfChunk DEF Marked
  <1> QED
    BY <1>1, <1>2

-----------------------------------------------------------------------------
\* The types

Bytes == {"ready", "credit", "done", "lost"}

(* Reading n bytes of the stream leaves the rest of it.                    *)
LEMMA RestOfStream ==
    ASSUME NEW s \in Seq(Bytes), NEW n \in 0..Len(s)
    PROVE  /\ SubSeq(s, n + 1, Len(s)) \in Seq(Bytes)
           /\ Len(SubSeq(s, n + 1, Len(s))) = Len(s) - n
  <1>1. Len(s) \in Nat /\ n \in Nat /\ n <= Len(s)
    OBVIOUS
  <1>2. \A k \in (n + 1)..Len(s) : s[k] \in Bytes
    BY <1>1
  <1> QED
    BY <1>1, <1>2

(* Sequences stay sequences when they are emptied, read or extended.       *)
LEMMA SeqSteps ==
    ASSUME NEW S, NEW s \in Seq(S), NEW t,
           \/ t = s \/ t = <<>>
           \/ s # <<>> /\ t = Tail(s)
           \/ \E b \in S : t = Append(s, b)
    PROVE  t \in Seq(S)
  <1>1. CASE t = s
    BY <1>1
  <1>2. CASE t = <<>>
    BY <1>2
  <1>3. CASE s # <<>> /\ t = Tail(s)
    BY <1>3
  <1>4. CASE \E b \in S : t = Append(s, b)
    BY <1>4
  <1> QED
    BY <1>1, <1>2, <1>3, <1>4

(* What a failed call changes.                                             *)
LEMMA FailKinds ==
    ASSUME SKinds, SFail, UNCHANGED <<wr, faulty>>
    PROVE  SKinds'
  <1>1. sp' \in Ended /\ sret' = 1 /\ iter' = iter /\ credits' = credits
    BY DEF SFail, Ended
  <1> QED
    BY <1>1 DEF SKinds

(* A step that keeps the counters, or gives the sender more credits.       *)
LEMMA MoveKinds ==
    ASSUME SKinds, sp \notin Ended \/ sp' \in Ended,
           UNCHANGED <<iter, sret, faulty>>, credits' \in Int,
           wr' = wr \/ wr' = NoWr
    PROVE  SKinds'
  BY DEF SKinds, NoWr

(* The sender in --peer mode.                                              *)
LEMMA SenderKinds ==
    ASSUME SKinds, RKinds, SNext, UNCHANGED <<mode, faulty>>
    PROVE  SKinds' /\ RKinds'
  <1> USE DEF Bytes
  <1>0. to_s \in Seq(Bytes) /\ Len(to_s) \in Nat /\ credits \in Int /\ iter \in Int
    BY DEF SKinds, RKinds
  <1>1. CASE SSetup
    <2>1. (SFail \/ (UNCHANGED <<iter, sret, credits>>)) /\ sp \notin Ended
      BY <1>1 DEF SSetup, SAcquire, Ended
    <2>2. UNCHANGED <<wr, rvars, to_s, meta>>
      BY <1>1 DEF SSetup, SAcquire
    <2> QED
      BY <1>0, <2>1, <2>2, FailKinds, MoveKinds DEF RKinds, rvars
  <1>2. CASE STcpConnect
    <2>1. (SFail \/ (UNCHANGED <<iter, sret, credits>>)) /\ sp \notin Ended
      BY <1>2 DEF STcpConnect, Ended
    <2>2. UNCHANGED <<wr, to_s, meta, rret, cq>> /\ (rp' = rp \/ rp' = "await_meta")
      BY <1>2 DEF STcpConnect, rvars
    <2> QED
      BY <1>0, <2>1, <2>2, FailKinds, MoveKinds DEF RKinds, RBefore
  <1>3. CASE SSendMeta \/ SRecvMeta \/ SConnectPeer
    <2>1. (SFail \/ (UNCHANGED <<iter, sret, credits>>)) /\ sp \notin Ended
      BY <1>3 DEF SSendMeta, SRecvMeta, SConnectPeer, Ended
    <2>2. UNCHANGED <<wr, to_s, rvars>> /\ (meta' = meta \/ meta' = meta \cup {"s"})
      BY <1>3 DEF SSendMeta, SRecvMeta, SConnectPeer
    <2> QED
      BY <1>0, <2>1, <2>2, FailKinds, MoveKinds DEF RKinds, rvars
  <1>4. CASE SAwaitReady \/ SAwaitDone
    <2>1. /\ to_s' = to_s \/ (to_s # <<>> /\ to_s' = Tail(to_s))
          /\ sret' \in {0, 1} /\ credits' = Window
          /\ UNCHANGED <<wr, rvars, meta>>
      BY <1>4 DEF SAwaitReady, SAwaitDone, SReadByte, SKinds
    <2>2. to_s' \in Seq(Bytes)
      BY <1>0, <2>1
    <2>3. iter' \in 0..Iterations /\ (sp' \notin Ended => iter' < Iterations)
      <3>1. CASE SAwaitReady
        BY <3>1 DEF SAwaitReady, SReadByte, SKinds, Ended
      <3>2. CASE SAwaitDone
        <4>1. sp \notin Ended /\ iter' = iter + 1
          BY <3>2 DEF SAwaitDone, Ended
        <4>2. sp' = "out_tcp" \/ iter + 1 < Iterations
          BY <3>2 DEF SAwaitDone, SReadByte
        <4> QED
          BY <1>0, <4>1, <4>2, SizesAssumption DEF SKinds, Ended
      <3> QED
        BY <1>4, <3>1, <3>2
    <2> QED
      BY <2>1, <2>2, <2>3, SizesAssumption DEF SKinds, RKinds, rvars
  <1>5. CASE SStall
    <2>1. UNCHANGED <<iter, wr, rvars, meta>> /\ sp \notin Ended
      BY <1>5 DEF SStall, Ended
    <2>2. credits' \in Int /\ to_s' \in Seq(Bytes)
      <3>1. CASE \E n \in 1..Len(to_s) : TakeCredits(n)
        <4>1. PICK n \in 1..Len(to_s) : TakeCredits(n)
          BY <3>1
        <4>2. n \in 0..Len(to_s) /\ n \in Int
          BY <1>0
        <4> QED
          BY <1>0, <4>1, <4>2, RestOfStream DEF TakeCredits
      <3>2. CASE UNCHANGED <<credits, to_s>>
        BY <1>0, <3>2
      <3> QED
        BY <1>5, <3>1, <3>2 DEF SStall
    <2>3. sret' \in {0, 1}
      BY <1>5 DEF SStall, SKinds
    <2> QED
      BY <2>1, <2>2, <2>3 DEF SKinds, RKinds, rvars
  <1>6. CASE SDrainCredits
    <2>1. PICK n \in 0..Len(to_s) : TakeCredits(n)
      BY <1>6 DEF SDrainCredits
    <2>2. credits' \in Int /\ to_s' \in Seq(Bytes)
      BY <1>0, <2>1, RestOfStream DEF TakeCredits
    <2>3. UNCHANGED <<iter, sret, wr, rvars, meta>> /\ sp \notin Ended
      BY <1>6 DEF SDrainCredits, Ended
    <2> QED
      BY <2>2, <2>3 DEF SKinds, RKinds, rvars
  <1>7. CASE SNoStall \/ SWritten
    <2>1. /\ UNCHANGED <<iter, sret, rvars, to_s, meta>> /\ sp \notin Ended
          /\ wr' = wr \/ wr' = NoWr
          /\ credits' = credits \/ credits' = credits - 1
      BY <1>7 DEF SNoStall, SWritten, Ended
    <2>2. credits' \in Int
      BY <1>0, <2>1
    <2> QED
      BY <2>1, <2>2, MoveKinds DEF RKinds, rvars
  <1>8. CASE SPost
    <2>1. /\ UNCHANGED <<iter, sret, credits, rvars, to_s, meta>> /\ sp \notin Ended
          /\ wr'.st = "posted"
      BY <1>8 DEF SPost, Ended
    <2> QED
      BY <2>1 DEF SKinds, RKinds, rvars
  <1>9. CASE SWriteFails
    BY <1>9, FailKinds DEF SWriteFails, RKinds, rvars
  <1>10. CASE SCloseTcp \/ SDestroyPeer \/ SRelease
    <2>1. /\ UNCHANGED <<iter, sret, credits, rvars, meta>> /\ sp' \in Ended
          /\ wr' = wr \/ wr' = NoWr
          /\ to_s' = to_s \/ to_s' = <<>>
      BY <1>10 DEF SCloseTcp, SDestroyPeer, SRelease, Ended
    <2>2. to_s' \in Seq(Bytes)
      BY <1>0, <2>1, SeqSteps
    <2> QED
      BY <1>0, <2>1, <2>2, MoveKinds DEF RKinds, rvars
  <1> QED
    BY <1>1, <1>2, <1>3, <1>4, <1>5, <1>6, <1>7, <1>8, <1>9, <1>10 DEF SNext

(* The sender in --loopback mode.                                          *)
LEMMA LoopbackKinds ==
    ASSUME SKinds, RKinds, LNext, UNCHANGED <<mode, faulty>>
    PROVE  SKinds' /\ RKinds'
  <1>0. credits \in Int /\ iter \in Int /\ cq \in Seq(Int)
    BY DEF SKinds, RKinds
  <1>1. UNCHANGED <<rp, rret, to_s, meta>>
    BY DEF LNext, LSetupSource, LSetupDestination, SAcquire, LPrepost, LStall, LReplenish,
           LPost, LSentinel, LWritten, LWriteFails, LDrain, LTail, LCleanup, Here, rvars
  <1>2. cq' = cq \/ cq' = <<>> \/ (cq # <<>> /\ cq' = Tail(cq))
    BY DEF LNext, LSetupSource, LSetupDestination, SAcquire, LPrepost, LStall, LReplenish,
           LPost, LSentinel, LWritten, LWriteFails, LDrain, LTail, LCleanup, LPollAndTrack, rvars
  <1>3. cq' \in Seq(Int)
    BY <1>0, <1>2, SeqSteps
  <1>4. RKinds'
    BY <1>1, <1>3 DEF RKinds
  <1>5. SKinds'
    <2>1. CASE LSetupSource \/ LSetupDestination
      <3>1. (SFail \/ (UNCHANGED <<iter, sret, credits>>)) /\ sp \notin Ended /\ wr' = wr
        BY <2>1 DEF LSetupSource, LSetupDestination, SAcquire, Ended
      <3> QED
        BY <1>0, <3>1, FailKinds, MoveKinds
    <2>2. CASE LPrepost
      <3>1. sp \notin Ended /\ wr' = wr
        BY <2>2 DEF LPrepost, Ended
      <3>2. CASE SFail
        BY <3>1, <3>2, FailKinds
      <3>3. CASE credits' = InitialRecvs /\ UNCHANGED <<iter, sret>>
        <4>1. InitialRecvs \in Int
          BY TotalType, SizesAssumption DEF InitialRecvs
        <4> QED
          BY <3>1, <3>3, <4>1, MoveKinds
      <3> QED
        BY <2>2, <3>2, <3>3 DEF LPrepost
    <2>3. CASE LStall \/ LDrain \/ LReplenish \/ LWriteFails
      <3>1. /\ sp \notin Ended /\ wr' = wr
            /\ SFail \/ (UNCHANGED <<iter, sret>> /\ credits' \in {credits, credits + 1})
        BY <2>3 DEF LStall, LDrain, LReplenish, LWriteFails, LPollAndTrack, Ended
      <3> QED
        BY <1>0, <3>1, FailKinds, MoveKinds
    <2>4. CASE LPost
      BY <2>4 DEF LPost, SKinds, Ended
    <2>5. CASE LSentinel
      <3>1. CASE SFail /\ UNCHANGED wr
        BY <3>1, FailKinds
      <3>2. CASE UNCHANGED <<iter, credits, sret>> /\ wr'.st = "posted" /\ sp \notin Ended
        BY <3>2 DEF SKinds
      <3> QED
        BY <2>5, <3>1, <3>2 DEF LSentinel, Ended
    <2>6. CASE LWritten
      <3>1. /\ sp \notin Ended /\ wr' = NoWr /\ credits' = credits - 1
            /\ UNCHANGED <<iter, sret>>
        BY <2>6 DEF LWritten, Ended
      <3> QED
        BY <1>0, <3>1, MoveKinds
    <2>7. CASE LTail
      <3>1. /\ sp \notin Ended /\ wr' = wr /\ iter' = iter + 1 /\ sret' \in {0, 1}
            /\ credits' = credits /\ (sp' \notin Ended => iter + 1 < Iterations)
        BY <2>7 DEF LTail, SKinds, Ended
      <3>2. iter' \in 0..Iterations
        BY <1>0, <3>1, SizesAssumption DEF SKinds
      <3> QED
        BY <1>0, <3>1, <3>2 DEF SKinds
    <2>8. CASE LCleanup
      <3>1. sp' \in Ended /\ wr' = NoWr /\ UNCHANGED <<iter, credits, sret>>
        BY <2>8 DEF LCleanup, Ended
      <3> QED
        BY <1>0, <3>1, MoveKinds
    <2> QED
      BY <2>1, <2>2, <2>3, <2>4, <2>5, <2>6, <2>7, <2>8 DEF LNext
  <1> QED
    BY <1>4, <1>5

(* The receiver and the fabric.                                            *)
LEMMA OthersKinds ==
    ASSUME SKinds, RKinds, WrInv, UNCHANGED <<mode, faulty>>,
           MarkInv, SentInv, RNext \/ Deliver \/ RetriesExhausted
    PROVE  SKinds' /\ RKinds'
  <1>0. cq \in Seq(Int) /\ to_s \in Seq(Bytes) /\ rret \in {0, 1}
    BY DEF RKinds, Bytes
  <1>1. CASE RNext
    <2>1. UNCHANGED <<svars, wr>>
      BY <1>1 DEF RNext, RAcquire, RAcceptFails, RRecvMeta, RSendMeta, RConnectPeer, RPrepost, RSendReady, RLoop,
                  RPollTimeout, RReplenish, RSendCredit, RPollSentinel, RSendDone, RVerify,
                  RDrain, RRelease
    <2>2. SKinds'
      BY <2>1 DEF SKinds, svars
    <2>3. cq' = cq \/ cq' = <<>> \/ (cq # <<>> /\ cq' = Tail(cq))
      BY <1>1 DEF RNext, RAcquire, RAcceptFails, RRecvMeta, RSendMeta, RConnectPeer, RPrepost, RSendReady, RLoop,
                  RPollTimeout, RReplenish, RSendCredit, RPollSentinel, RSendDone, RVerify,
                  RDrain, RRelease, RFail
    <2>4. cq' \in Seq(Int)
      BY <1>0, <2>3, SeqSteps
    <2>5. to_s' = to_s \/ \E b \in Bytes : to_s' = Append(to_s, b)
      BY <1>1 DEF RNext, RAcquire, RAcceptFails, RRecvMeta, RSendMeta, RConnectPeer, RPrepost, RSendReady, RLoop,
                  RPollTimeout, RReplenish, RSendCredit, RPollSentinel, RSendDone, RVerify,
                  RDrain, RRelease, RSendByte, RKilled, Bytes
    <2>6. to_s' \in Seq(Bytes)
      BY <1>0, <2>5, SeqSteps
    <2>7. rret' \in {0, 1} /\ (meta' = meta \/ meta' = meta \cup {"r"})
      BY <1>0, <1>1
         DEF RNext, RAcquire, RAcceptFails, RRecvMeta, RSendMeta, RConnectPeer, RPrepost, RSendReady, RLoop,
             RPollTimeout, RReplenish, RSendCredit, RPollSentinel, RSendDone, RVerify,
             RDrain, RRelease, RSendByte, RKilled, RFail
    <2>8. rp' = rp \/ rp' \in RBefore \cup RCleanup
                          \cup {"loop", "replenish", "credit", "tail", "done", "verify"}
      BY <1>1
         DEF RNext, RAcquire, RAcceptFails, RRecvMeta, RSendMeta, RConnectPeer, RPrepost, RSendReady, RLoop,
             RPollTimeout, RReplenish, RSendCredit, RPollSentinel, RSendDone, RVerify,
             RDrain, RRelease, RSendByte, RKilled, RFail, RBefore, RCleanup
    <2> QED
      BY <2>2, <2>4, <2>6, <2>7, <2>8 DEF RKinds, Bytes
  <1>2. CASE Deliver
    <2>1. wr.imm \in Int
      <3>1. Sentinel \in Int
        BY SizesAssumption DEF Sentinel
      <3>2. wr.off \in AllChunks
        BY DEF WrInv, AllChunks
      <3> QED
        BY <1>2, <3>1, <3>2, ChunkIndex DEF Deliver, MarkInv
    <2>2. cq' \in Seq(Int)
      BY <1>0, <1>2, <2>1 DEF Deliver
    <2>3. wr'.st = "acked" /\ UNCHANGED <<svars, rp, rret, to_s, meta>>
      BY <1>2 DEF Deliver, WrInv
    <2> QED
      BY <2>2, <2>3 DEF SKinds, RKinds, svars
  <1>3. CASE RetriesExhausted
    <2>1. wr'.st = "error" /\ UNCHANGED <<svars, rp, cq, rret, to_s, meta>>
      BY <1>3 DEF RetriesExhausted, WrInv
    <2> QED
      BY <2>1 DEF SKinds, RKinds, svars
  <1> QED
    BY <1>1, <1>2, <1>3

-----------------------------------------------------------------------------
\* The stages of the two programs

(* The mode the sender's stage belongs to.                                 *)
StageMode ==
    \/ mode = "peer" /\ sp \in PeerPcs
    \/ mode = "loopback" /\ sp \in LoopbackPcs

(* The way out of the sender keeps every fact about the stages.            *)
LEMMA EndStage ==
    ASSUME StageInv, sp' \in Ended, UNCHANGED <<mode, rp, cq>>,
           to_s' = to_s \/ to_s' = <<>>, wr' = wr \/ wr' = NoWr
    PROVE  StageInv'
  <1>1. sp' \notin Writing \cup Setup \cup Joined \cup Sending \cup {"await_done"}
    BY DEF Ended, Writing, Setup, Joined, Sending
  <1>2. wr'.st = wr.st \/ wr'.st = "none"
    BY DEF NoWr
  <1> QED
    BY <1>1, <1>2 DEF StageInv

(* A step of a sender past the handshake, at a receiver past "ready".      *)
LEMMA SendingStage ==
    ASSUME StageInv, UNCHANGED <<mode, rp, cq, sres>>,
           sp \in Sending \cup {"await_done"}, sp' \in Sending \cup {"await_done"},
           sp' \notin Writing => wr'.st = "none"
    PROVE  StageInv'
  <1>1. rp \notin RBefore /\ "tcp" \in sres
    BY DEF StageInv
  <1>2. sp' \notin Setup \cup Joined \cup Ended
    BY DEF Setup, Joined, Sending, Ended
  <1> QED
    BY <1>1, <1>2 DEF StageInv

(* The sender in --peer mode.                                              *)
LEMMA SenderStage ==
    ASSUME StageInv, SHeld, SNext, UNCHANGED <<mode, faulty>>
    PROVE  StageInv'
  <1>0. StageMode
    BY DEF SHeld, StageMode
  <1>1. ASSUME SFail, sp \in PeerPcs \ LoopbackPcs, UNCHANGED <<rp, cq, to_s, wr>> PROVE StageInv'
    <2>1. sp' \in Ended
      BY <1>1 DEF SFail, Ended
    <2> QED
      BY <1>1, <2>1, EndStage
  <1>2. CASE SSetup
    <2>1. UNCHANGED <<rp, cq, to_s, wr>> /\ mode = "peer"
      BY <1>2 DEF SSetup, SAcquire, rvars
    <2>2. CASE SFail
      <3>1. sp' \in Ended
        BY <2>2 DEF SFail, Ended
      <3> QED
        BY <2>1, <3>1, EndStage
    <2>3. CASE sp \in Setup /\ sp' \in Setup /\ UNCHANGED <<idx, iter>>
      BY <2>1, <2>3 DEF StageInv, Setup, Joined, Sending, Writing, Ended
    <2> QED
      BY <1>2, <2>2, <2>3 DEF SSetup, SAcquire, Setup
  <1>3. CASE STcpConnect
    <2>1. mode = "peer" /\ sp \in PeerPcs \ LoopbackPcs /\ UNCHANGED <<wr, to_s>>
      BY <1>0, <1>3 DEF STcpConnect, StageMode, PeerPcs, LoopbackPcs
    <2>2. CASE SFail /\ UNCHANGED rvars
      BY <1>1, <2>1, <2>2 DEF rvars
    <2>3. CASE /\ rp = "accept" /\ sp = "tcp" /\ sres' = sres \cup {"tcp"} /\ sp' = "meta"
               /\ rp' = "await_meta" /\ UNCHANGED <<idx, iter, cq>>
      BY <2>1, <2>3 DEF StageInv, Setup, Joined, Sending, Writing, Ended, RBefore
    <2> QED
      BY <1>3, <2>2, <2>3 DEF STcpConnect, RListening
  <1>4. CASE SSendMeta \/ SRecvMeta \/ SConnectPeer
    <2>1. UNCHANGED <<rp, cq, wr, to_s>> /\ sp \in PeerPcs \ LoopbackPcs
      BY <1>4 DEF SSendMeta, SRecvMeta, SConnectPeer, rvars, PeerPcs, LoopbackPcs
    <2>2. CASE SFail
      BY <1>1, <2>1, <2>2
    <2>3. CASE /\ sp \in Joined /\ sp' \in Joined /\ UNCHANGED <<idx, iter>>
               /\ sres \subseteq sres'
      BY <2>1, <2>3 DEF StageInv, Setup, Joined, Sending, Writing, Ended
    <2> QED
      BY <1>4, <2>2, <2>3 DEF SSendMeta, SRecvMeta, SConnectPeer, Joined
  <1>5. CASE SAwaitReady
    <2>1. sp \in Joined /\ UNCHANGED <<idx, iter, sres, wr, rp, cq>>
      BY <1>5 DEF SAwaitReady, rvars, Joined
    <2>2. CASE to_s # <<>> /\ sp' = "loop"
      BY <2>1, <2>2 DEF StageInv, Setup, Joined, Sending, Writing, Ended
    <2>3. CASE sp' = "out_tcp" /\ UNCHANGED to_s
      BY <2>1, <2>3, EndStage DEF Ended
    <2> QED
      BY <1>5, <2>2, <2>3 DEF SAwaitReady, SReadByte
  <1>6. CASE SStall \/ SNoStall \/ SDrainCredits \/ SAwaitDone
    <2>1. sp \in Sending \cup {"await_done"} /\ UNCHANGED <<sres, wr, rp, cq>> /\ sp \notin Writing
      BY <1>6 DEF SStall, SNoStall, SDrainCredits, SAwaitDone, rvars, Sending, Writing
    <2>2. wr'.st = "none"
      BY <2>1 DEF StageInv, Sending, Ended
    <2>3. CASE sp' \in Sending
      BY <2>1, <2>2, <2>3, SendingStage
    <2>4. CASE sp' = "out_tcp" /\ UNCHANGED to_s
      BY <2>1, <2>4, EndStage DEF Ended
    <2>5. CASE sp' = "out_tcp" /\ to_s' = Tail(to_s)
      <3>1. rp \notin RBefore
        BY <2>1 DEF StageInv
      <3> QED
        BY <2>1, <2>2, <2>5, <3>1
           DEF StageInv, Setup, Joined, Sending, Ended, Writing
    <2> QED
      BY <1>6, <2>3, <2>4, <2>5
         DEF SStall, SNoStall, SDrainCredits, SAwaitDone, SReadByte, Sending
  <1>7. CASE SPost \/ SWritten
    <2>1. /\ sp \in Sending /\ sp' \in Sending \cup {"await_done"}
          /\ UNCHANGED <<sres, rp, cq>>
          /\ sp' \notin Writing => wr'.st = "none"
      BY <1>7 DEF SPost, SWritten, rvars, Sending, Writing, NoWr
    <2> QED
      BY <2>1, SendingStage
  <1>8. CASE SWriteFails
    <2>1. sp \in PeerPcs \ LoopbackPcs /\ UNCHANGED <<wr, rp, cq, to_s>> /\ SFail
      BY <1>8 DEF SWriteFails, rvars, PeerPcs, LoopbackPcs
    <2> QED
      BY <1>1, <2>1
  <1>9. CASE SCloseTcp \/ SDestroyPeer \/ SRelease
    <2>1. /\ UNCHANGED <<rp, cq>> /\ sp' \in Ended
          /\ wr' = wr \/ wr' = NoWr
          /\ to_s' = to_s \/ to_s' = <<>>
      BY <1>9 DEF SCloseTcp, SDestroyPeer, SRelease, rvars, Ended
    <2> QED
      BY <2>1, EndStage
  <1> QED
    BY <1>2, <1>3, <1>4, <1>5, <1>6, <1>7, <1>8, <1>9 DEF SNext

LStages == {"dbuf", "dmr", "l_prepost", "l_loop", "l_replenish", "l_writing", "l_drain", "l_tail"}

(* The sender in --loopback mode.                                          *)
LEMMA LoopbackStage ==
    ASSUME StageInv, SHeld, LNext, UNCHANGED <<mode, faulty>>
    PROVE  StageInv'
  <1>1. mode = "loopback"
    BY DEF SHeld, LNext, LSetupSource, LSetupDestination, SAcquire, LPrepost, LStall, LReplenish,
           LPost, LSentinel, LWritten, LWriteFails, LDrain, LTail, LCleanup, PeerPcs
  <1>2. rp = "exited" /\ rp' = "exited" /\ rp \notin RBefore
    <2>1. rp' = rp
      BY DEF LNext, LSetupSource, LSetupDestination, SAcquire, LPrepost, LStall, LReplenish,
           LPost, LSentinel, LWritten, LWriteFails, LDrain, LTail, LCleanup, Here, rvars
    <2> QED
      BY <1>1, <2>1 DEF StageInv, RBefore
  <1>3. ASSUME sp' \in LStages \cup Ended, sp' \notin Writing \cup Ended => wr'.st = "none"
        PROVE  StageInv'
    <2>1. sp' \notin Setup \cup Joined \cup Sending \cup {"await_done"}
      BY <1>3 DEF LStages, Setup, Joined, Sending, Ended
    <2> QED
      BY <1>1, <1>2, <1>3, <2>1 DEF StageInv
  <1>4. CASE LSetupSource \/ LSetupDestination
    <2>1. wr' = wr /\ cq' = cq /\ sp \notin Writing \cup Ended
      BY <1>4 DEF LSetupSource, LSetupDestination, SAcquire, rvars, Writing, Ended
    <2>2. CASE SFail
      BY <1>1, <1>3, <2>2 DEF SFail, Ended
    <2>3. CASE sp' \in Setup /\ sp \in Setup /\ UNCHANGED <<idx, iter>>
      <3>1. sp' \notin Sending \cup Joined \cup {"await_done"}
        BY <2>3 DEF Setup, Sending, Joined
      <3> QED
        BY <1>1, <1>2, <2>1, <2>3, <3>1 DEF StageInv
    <2>4. CASE sp' \in LStages
      BY <1>3, <2>1, <2>4 DEF StageInv
    <2> QED
      BY <1>4, <2>2, <2>3, <2>4 DEF LSetupSource, LSetupDestination, SAcquire, Setup, LStages
  <1>5. CASE \/ LPrepost \/ LStall \/ LReplenish \/ LDrain \/ LTail \/ LWriteFails
    <2>1. wr' = wr /\ sp' \in LStages \cup Ended
      BY <1>1, <1>5
         DEF LPrepost, LStall, LReplenish, LDrain, LTail, LPollAndTrack, LWriteFails,
             SFail, Ended, LStages
    <2>2. sp \notin Writing \cup Ended \/ sp' \in Ended
      BY <1>1, <1>5
         DEF LPrepost, LStall, LReplenish, LDrain, LTail, LPollAndTrack, LWriteFails,
             SFail, Ended, Writing
    <2> QED
      BY <1>3, <2>1, <2>2 DEF StageInv
  <1>6. CASE LPost \/ LSentinel \/ LWritten \/ LCleanup
    <2>1. sp' \in LStages \cup Ended
      BY <1>1, <1>6 DEF LPost, LSentinel, LWritten, LCleanup, SFail, Ended, LStages
    <2>2. sp' \in Writing \cup Ended \/ wr' = NoWr
      BY <1>1, <1>6 DEF LPost, LSentinel, LWritten, LCleanup, SFail, Ended, Writing
    <2> QED
      BY <1>3, <2>1, <2>2 DEF NoWr
  <1> QED
    BY <1>4, <1>5, <1>6 DEF LNext

(* The receiver: it sends its bytes to a sender that is connected.         *)
LEMMA ReceiverStage ==
    ASSUME StageInv, SHeld, RNext, UNCHANGED <<mode, faulty>>, UNCHANGED <<svars, wr>>
    PROVE  StageInv'
  <1>0. UNCHANGED <<sp, idx, iter, sres>>
    BY DEF svars
  <1>1. mode = "peer" /\ (sp \in Setup \cup Joined => cq = <<>>)
    <2>1. rp # "exited"
      BY DEF RNext, RAcquire, RAcceptFails, RRecvMeta, RSendMeta, RConnectPeer, RPrepost, RSendReady, RLoop,
             RPollTimeout, RReplenish, RSendCredit, RPollSentinel, RSendDone, RVerify,
             RDrain, RRelease
    <2> QED
      BY <2>1 DEF StageInv, SHeld
  <1>2. ASSUME rp' \in RCleanup, cq' = cq \/ cq' = <<>> PROVE StageInv'
    BY <1>0, <1>1, <1>2 DEF StageInv, RCleanup, RBefore
  <1>3. ASSUME rp \in RBefore, rp' \in RBefore \ {"rdma"}, UNCHANGED <<to_s, cq>>,
               sp \in Setup => rp' \in {"peer", "accept"}
        PROVE  StageInv'
    BY <1>0, <1>1, <1>3 DEF StageInv, RBefore
  <1>4. CASE RAcquire("rdma", "peer") \/ RAcquire("peer", "accept") \/ RAcceptFails
    <2>1. UNCHANGED <<cq, to_s>> /\ rp' \in {"peer", "accept"} \cup RCleanup /\ rp \in RBefore
      BY <1>4 DEF RAcquire, RAcceptFails, RFail, RBefore, RCleanup
    <2> QED
      BY <1>2, <1>3, <2>1 DEF RBefore
  <1>5. CASE \/ RAcquire("buf", "mr") \/ RAcquire("mr", "meta") \/ RRecvMeta
             \/ RSendMeta \/ RConnectPeer \/ RPrepost
    <2>1. /\ UNCHANGED <<cq, to_s>> /\ rp' \in (RBefore \ {"rdma"}) \cup RCleanup
          /\ rp \in RBefore \ {"rdma", "peer", "accept"}
      BY <1>5 DEF RAcquire, RRecvMeta, RSendMeta, RConnectPeer, RPrepost, RFail, RBefore, RCleanup
    <2>2. sp \notin Setup
      BY <1>1, <2>1 DEF StageInv, RBefore, RCleanup
    <2> QED
      BY <1>2, <1>3, <2>1, <2>2
  <1>6. CASE RSendReady
    <2>1. cq' = cq /\ rp = "ready"
      BY <1>6 DEF RSendReady
    <2>2. CASE rp' \in {"out_tcp", "killed"}
      BY <1>2, <2>1, <2>2 DEF RCleanup
    <2>3. CASE "tcp" \in sres /\ to_s' = Append(to_s, "ready") /\ rp' = "loop"
      <3>1. to_s = <<>> /\ Len(to_s') = 1
        BY <2>1, <2>3 DEF StageInv, RBefore
      <3>2. sp \notin Setup
        BY <1>1, <2>1 DEF StageInv, RCleanup
      <3> QED
        BY <1>0, <1>1, <2>1, <2>3, <3>1, <3>2 DEF StageInv, RBefore
    <2>4. CASE "tcp" \notin sres /\ rp' = "loop"
      <3>1. sp \notin Setup /\ sp \notin Joined
        BY <1>1, <2>1, <2>4 DEF StageInv, RCleanup
      <3> QED
        BY <1>0, <1>1, <2>1, <2>4, <3>1 DEF StageInv, RBefore
    <2> QED
      BY <1>6, <2>2, <2>3, <2>4 DEF RSendReady, RSendByte, RKilled
  <1>7. CASE RLoop
    <2>1. rp = "loop" /\ to_s' = to_s /\ rp' \in {"tail", "replenish"}
      BY <1>7 DEF RLoop
    <2>2. CASE cq' = cq /\ rp' = "tail"
      <3>1. sp \notin Setup
        BY <1>1, <2>1 DEF StageInv, RCleanup
      <3> QED
        BY <1>0, <1>1, <2>1, <2>2, <3>1 DEF StageInv, RBefore
    <2>3. CASE cq # <<>>
      <3>1. sp \notin Setup \cup Joined
        BY <1>1, <2>3
      <3> QED
        BY <1>0, <1>1, <2>1, <3>1 DEF StageInv, RBefore
    <2> QED
      BY <1>7, <2>2, <2>3 DEF RLoop
  <1>8. CASE RPollTimeout
    BY <1>2, <1>8 DEF RPollTimeout, RFail, RCleanup
  <1>9. CASE RReplenish \/ RSendCredit
    <2>1. cq' = cq /\ rp \in {"replenish", "credit"} /\ rp' \in {"credit", "loop", "out_tcp", "killed"}
      BY <1>9 DEF RReplenish, RSendCredit, RSendByte, RKilled, RFail
    <2>2. sp \notin Setup \cup Joined
      BY <2>1 DEF StageInv
    <2> QED
      BY <1>0, <1>1, <1>2, <2>1, <2>2 DEF StageInv, RBefore, RCleanup
  <1>10. CASE RPollSentinel \/ RSendDone \/ RVerify
    <2>1. /\ cq' = cq \/ (cq # <<>> /\ cq' = Tail(cq))
          /\ rp \in {"tail", "done", "verify"} /\ rp' \in {"done", "verify", "out_tcp", "killed"}
      BY <1>10 DEF RPollSentinel, RSendDone, RSendByte, RKilled, RVerify
    <2>2. sp \notin Setup
      BY <1>1, <2>1 DEF StageInv, RCleanup
    <2>3. sp \in Joined => cq' = <<>>
      BY <1>1, <2>1
    <2> QED
      BY <1>0, <1>1, <2>1, <2>2, <2>3 DEF StageInv, RBefore, RCleanup
  <1>11. CASE RDrain \/ RRelease
    <2>1. rp' \in RCleanup /\ (cq' = cq \/ cq' = <<>>)
      BY <1>11 DEF RDrain, RRelease, RCleanup
    <2> QED
      BY <1>2, <2>1
  <1> QED
    BY <1>4, <1>5, <1>6, <1>7, <1>8, <1>9, <1>10, <1>11 DEF RNext

(* The fabric moves only a write of a sender that writes, or has failed.   *)
LEMMA FabricStage ==
    ASSUME StageInv, Deliver \/ RetriesExhausted, UNCHANGED <<mode, faulty>>
    PROVE  StageInv'
  <1>1. wr.st = "posted" /\ UNCHANGED <<svars, rp, to_s>>
    BY DEF Deliver, RetriesExhausted, rvars
  <1>2. sp \in Writing \cup Ended /\ rp \notin RBefore
    BY <1>1 DEF StageInv
  <1>3. sp \notin Setup \cup Joined
    BY <1>2 DEF Writing, Ended, Setup, Joined
  <1> QED
    BY <1>1, <1>2, <1>3 DEF StageInv, svars

-----------------------------------------------------------------------------
\* The credits and the receives

(* The number of receives a transfer starts with.                          *)
LEMMA InitialRecvsType ==
    /\ InitialRecvs \in Nat /\ InitialRecvs <= Window
    /\ InitialRecvs = Window \/ InitialRecvs = Total + 1
  BY TotalType, SizesAssumption DEF InitialRecvs

(* The lengths and counters that the accounts add up are integers.         *)
LEMMA CountTypes ==
    ASSUME SKinds, RKinds, SentInv, RecvInv
    PROVE  /\ Len(cq) \in Nat /\ Len(to_s) \in Nat /\ credits \in Int /\ posted \in Nat
           /\ iter \in Nat /\ idx \in Nat /\ Window \in Nat /\ Total \in Nat \ {0}
  <1>1. PeerRecvWr \in Nat /\ Window + Headroom \in Nat /\ Iterations \in Nat /\ Window \in Nat
    BY SizesAssumption
  <1>2. posted \in Nat
    BY <1>1 DEF RecvInv
  <1>3. iter \in Nat /\ credits \in Int
    BY <1>1 DEF SKinds
  <1>4. idx \in Nat
    BY TotalType DEF SentInv
  <1> QED
    BY <1>1, <1>2, <1>3, <1>4, TotalType DEF RKinds

(* The sender in --peer mode leaves the receives alone.                    *)
LEMMA SenderRecvs ==
    ASSUME RecvInv, SNext, UNCHANGED <<mode, faulty>>
    PROVE  RecvInv' /\ UNCHANGED <<posted, cq, bitmap, mem>>
  <1>1. /\ UNCHANGED <<posted, cq, bitmap, mem>>
        /\ rp' = rp \/ (rp = "accept" /\ rp' = "await_meta")
    BY DEF SNext, SSetup, SAcquire, STcpConnect, RListening, SSendMeta, SRecvMeta, SConnectPeer,
           SAwaitReady, SStall, SNoStall, SDrainCredits, SPost, SWritten, SWriteFails,
           SAwaitDone, SCloseTcp, SDestroyPeer, SRelease, rvars
  <1>2. CASE rp' = rp
    BY <1>1, <1>2 DEF RecvInv, Receiving
  <1>3. CASE rp = "accept" /\ rp' = "await_meta"
    BY <1>1, <1>3 DEF RecvInv, Receiving, RBefore
  <1> QED
    BY <1>1, <1>2, <1>3

(* The first transfer in --peer mode, credit by credit.                    *)
LEMMA SenderCredits ==
    ASSUME CreditInv, SKinds, RKinds, SentInv, WrInv, RecvInv, StageInv, SHeld, SNext,
           UNCHANGED <<mode, faulty>>
    PROVE  CreditInv'
  <1>0. /\ Len(cq) \in Nat /\ Len(to_s) \in Nat /\ credits \in Int /\ iter \in Nat
        /\ idx \in Nat /\ Window \in Nat /\ Total \in Nat \ {0}
    BY CountTypes
  <1>1. ASSUME sp' \notin Sending PROVE CreditInv'
    BY <1>1 DEF CreditInv, Sending
  <1>2. UNCHANGED <<cq, posted>>
    BY SenderRecvs
  <1>3. CASE SAwaitReady /\ sp' = "loop"
    <2>1. /\ sp = "await_ready" /\ to_s # <<>> /\ to_s' = Tail(to_s) /\ credits' = Window
          /\ UNCHANGED <<idx, iter, wr, rp>>
      BY <1>3 DEF SAwaitReady, SReadByte, rvars
    <2>2. mode = "peer" /\ sp \in Joined /\ sp \notin Writing \cup Ended
      BY <2>1 DEF SHeld, LoopbackPcs, Joined, Writing, Ended
    <2>3. idx = 0 /\ cq = <<>> /\ rp \notin {"replenish", "credit", "ready"} /\ wr.st = "none"
      BY <2>1, <2>2 DEF StageInv, RBefore
    <2>4. rp = "loop" => Len(to_s') = 0
      BY <1>0, <2>1, <2>2 DEF StageInv, RKinds
    <2>5. Receiving' => rp = "loop" /\ rp' = "loop"
      BY <2>1, <2>3 DEF Receiving
    <2>6. idx' = 0 /\ Len(cq') = 0 /\ wr'.st = "none"
      BY <1>2, <2>1, <2>3
    <2>7. ASSUME Receiving'
          PROVE  /\ One(rp' \in {"replenish", "credit"}) = 0 /\ One(rp' = "replenish") = 0
                 /\ Len(to_s') = 0
      BY <2>4, <2>5, <2>7 DEF One
    <2>8. One(wr'.st = "acked") = 0
      BY <2>6 DEF One
    <2>9. Window >= 0 /\ Window + 0 + 0 + 0 = Window + 0 /\ 0 + 0 <= 0 + 0
      BY <1>0
    <2> QED
      BY <1>3, <2>1, <2>6, <2>7, <2>8, <2>9 DEF CreditInv
  <1>4. CASE SStall /\ sp' = "drain"
    <2>1. PICK n \in 1..Len(to_s) : TakeCredits(n)
      BY <1>4 DEF SStall
    <2>2. credits <= 0 /\ sp = "loop" /\ UNCHANGED <<idx, iter, wr, rp>>
      BY <1>4 DEF SStall, rvars
    <2>3. n \in 0..Len(to_s) /\ n \in Nat /\ n >= 1
      BY <1>0
    <2>4. credits' = credits + n /\ Len(to_s') = Len(to_s) - n
      BY <2>1, <2>3, RestOfStream DEF TakeCredits, RKinds, Bytes
    <2> QED
      BY <1>0, <1>2, <1>4, <2>2, <2>3, <2>4 DEF CreditInv, Sending, Receiving
  <1>5. CASE SNoStall
    <2>1. /\ credits > 0 /\ sp = "loop" /\ sp' = "drain"
          /\ UNCHANGED <<idx, iter, wr, rp, credits, to_s>>
      BY <1>5 DEF SNoStall, rvars
    <2> QED
      BY <1>0, <1>2, <2>1 DEF CreditInv, Sending, Receiving
  <1>6. CASE SDrainCredits
    <2>1. PICK n \in 0..Len(to_s) : TakeCredits(n)
      BY <1>6 DEF SDrainCredits
    <2>2. sp = "drain" /\ sp' = "write" /\ UNCHANGED <<idx, iter, wr, rp>>
      BY <1>6 DEF SDrainCredits, rvars
    <2>3. n \in Nat
      BY <1>0
    <2>4. credits' = credits + n /\ Len(to_s') = Len(to_s) - n
      BY <2>1, RestOfStream DEF TakeCredits, RKinds, Bytes
    <2> QED
      BY <1>0, <1>2, <2>2, <2>3, <2>4 DEF CreditInv, Sending, Receiving
  <1>7. CASE SPost
    <2>1. /\ sp \in {"write", "loop"} /\ sp' = "writing" /\ wr'.st = "posted"
          /\ UNCHANGED <<idx, iter, rp, credits, to_s>> /\ (sp = "loop" => idx = Total)
      BY <1>7 DEF SPost, rvars
    <2>2. wr.st = "none"
      BY <2>1 DEF StageInv, Writing, Ended
    <2> QED
      BY <1>0, <1>2, <2>1, <2>2 DEF CreditInv, Sending, Receiving, One
  <1>8. CASE SWritten /\ sp' = "loop"
    <2>1. /\ sp = "writing" /\ wr.st = "acked" /\ wr'.st = "none" /\ wr.imm # Sentinel
          /\ idx' = idx + 1 /\ credits' = credits - 1 /\ UNCHANGED <<iter, rp, to_s>>
      BY <1>8 DEF SWritten, NoWr, rvars
    <2>2. idx < Total
      BY <2>1 DEF WrInv
    <2> QED
      BY <1>0, <1>2, <1>8, <2>1, <2>2 DEF CreditInv, Sending, Receiving, One
  <1>9. CASE SAwaitDone /\ sp' = "loop"
    <2>1. iter' = iter + 1 /\ credits' = Window
      BY <1>9 DEF SAwaitDone
    <2> QED
      BY <1>0, <1>9, <2>1 DEF CreditInv, Sending
  <1>10. CASE sp' \in Sending
    <2>1. \/ SAwaitReady /\ sp' = "loop"
          \/ SStall /\ sp' = "drain"
          \/ SNoStall \/ SDrainCredits \/ SPost
          \/ SWritten /\ sp' = "loop"
          \/ SAwaitDone /\ sp' = "loop"
      <3>1. CASE SSetup \/ STcpConnect \/ SSendMeta \/ SRecvMeta \/ SConnectPeer
        BY <1>10, <3>1 DEF SSetup, SAcquire, STcpConnect, SSendMeta, SRecvMeta, SConnectPeer,
                           SFail, Sending
      <3>2. CASE SWriteFails \/ SCloseTcp \/ SDestroyPeer \/ SRelease
        BY <1>10, <3>2 DEF SWriteFails, SCloseTcp, SDestroyPeer, SRelease, SFail, Sending
      <3>3. CASE SAwaitReady \/ SStall \/ SWritten \/ SAwaitDone
        BY <1>10, <3>3 DEF SAwaitReady, SStall, SWritten, SAwaitDone, SReadByte, Sending
      <3> QED
        BY <3>1, <3>2, <3>3 DEF SNext
    <2> QED
      BY <2>1, <1>3, <1>4, <1>5, <1>6, <1>7, <1>8, <1>9
  <1> QED
    BY <1>1, <1>10

(* A data chunk posted in --peer mode has a receive: its credit stands for *)
(* one that is posted.                                                     *)
LEMMA CreditHasReceive ==
    ASSUME CreditInv, SKinds, RKinds, SentInv, RecvInv, StageInv,
           sp = "write", iter = 0, Receiving
    PROVE  posted > 0
  <1>0. /\ Len(cq) \in Nat /\ Len(to_s) \in Nat /\ credits \in Int /\ posted \in Nat
        /\ idx \in Nat /\ Window \in Nat /\ Total \in Nat \ {0}
    BY CountTypes
  <1>1. idx < Total /\ wr.st = "none" /\ credits >= 1
    BY DEF SentInv, StageInv, Writing, Ended, CreditInv
  <1>2. /\ credits + Len(to_s) + Len(cq) + One(rp \in {"replenish", "credit"}) = Window
        /\ Len(cq) + One(rp = "replenish") <= idx
    BY <1>0, <1>1 DEF CreditInv, Sending, One
  <1>3. posted + Len(cq) + One(rp = "replenish") = InitialRecvs
    BY DEF RecvInv
  <1>4. PICK u \in {0, 1} : u = One(rp = "replenish")
    BY DEF One
  <1>5. PICK v \in {0, 1} : v = One(rp \in {"replenish", "credit"})
    BY DEF One
  <1>6. u <= v
    BY <1>4, <1>5 DEF One
  <1> QED
    BY <1>0, <1>1, <1>2, <1>3, <1>4, <1>5, <1>6, InitialRecvsType

(* What the sender in --peer mode posts finds a receive.                   *)
LEMMA SenderFindsReceive ==
    ASSUME WriteFindsReceive, CreditInv, SKinds, RKinds, SentInv, RecvInv, StageInv, SHeld,
           SNext, UNCHANGED <<mode, faulty>>
    PROVE  WriteFindsReceive'
  <1>0. iter \in Nat /\ posted' = posted
    BY CountTypes, SenderRecvs
  <1>1. CASE SPost /\ sp = "write"
    <2>1. UNCHANGED <<rp, iter>>
      BY <1>1 DEF SPost, rvars
    <2>2. mode = "peer"
      BY <1>1 DEF SHeld, LoopbackPcs
    <2>3. CASE iter = 0 /\ Receiving
      <3>1. posted > 0
        BY <1>1, <2>3, CreditHasReceive
      <3> QED
        BY <1>0, <3>1 DEF WriteFindsReceive
    <2>4. CASE ~(iter = 0 /\ Receiving)
      BY <1>0, <2>1, <2>2, <2>4 DEF WriteFindsReceive, Receiving
    <2> QED
      BY <2>3, <2>4
  <1>2. CASE SPost /\ sp # "write"
    <2>1. wr'.imm = Sentinel /\ sp = "loop"
      BY <1>2 DEF SPost
    <2>2. mode = "peer"
      BY <2>1 DEF SHeld, LoopbackPcs
    <2> QED
      BY <2>1, <2>2 DEF WriteFindsReceive
  <1>3. CASE ~SPost
    <2>1. wr' = wr \/ wr' = NoWr
      BY <1>3 DEF SNext, SSetup, SAcquire, STcpConnect, SSendMeta, SRecvMeta, SConnectPeer,
           SAwaitReady, SStall, SNoStall, SDrainCredits, SWritten, SWriteFails,
           SAwaitDone, SCloseTcp, SDestroyPeer, SRelease
    <2>2. iter' = iter \/ iter' = iter + 1
      BY <1>3 DEF SNext, SSetup, SAcquire, STcpConnect, SSendMeta, SRecvMeta, SConnectPeer,
           SAwaitReady, SStall, SNoStall, SDrainCredits, SWritten, SWriteFails,
           SAwaitDone, SCloseTcp, SDestroyPeer, SRelease, SFail
    <2>3. rp' = rp \/ rp' = "await_meta"
      BY <1>3 DEF SNext, SSetup, SAcquire, STcpConnect, SSendMeta, SRecvMeta, SConnectPeer,
           SAwaitReady, SStall, SNoStall, SDrainCredits, SWritten, SWriteFails,
           SAwaitDone, SCloseTcp, SDestroyPeer, SRelease, rvars
    <2>4. CASE wr' = NoWr
      BY <2>4 DEF WriteFindsReceive, NoWr
    <2>5. CASE wr' = wr
      <3>1. iter > 0 => iter' > 0
        BY <1>0, <2>2
      <3>2. ~Receiving => ~Receiving'
        BY <2>3 DEF Receiving
      <3> QED
        BY <1>0, <2>5, <3>1, <3>2 DEF WriteFindsReceive
    <2> QED
      BY <2>1, <2>4, <2>5
  <1> QED
    BY <1>1, <1>2, <1>3

(* In --loopback mode the sender posts the receives itself, one for each   *)
(* credit and one for the sentinel.                                        *)
LEMMA LoopbackCredits ==
    ASSUME RecvInv, LCreditInv, WriteFindsReceive, SKinds, RKinds, SentInv, StageInv, SHeld, LNext,
           UNCHANGED <<mode, faulty>>
    PROVE  RecvInv' /\ LCreditInv' /\ WriteFindsReceive' /\ CreditInv'
  <1>0. credits \in Int /\ posted \in Nat /\ Window \in Nat /\ Headroom \in Nat
    BY CountTypes, SizesAssumption
  <1>1. mode = "loopback"
    BY DEF SHeld, LNext, LSetupSource, LSetupDestination, SAcquire, LPrepost, LStall, LReplenish,
           LPost, LSentinel, LWritten, LWriteFails, LDrain, LTail, LCleanup, PeerPcs
  <1>2. rp = "exited" /\ rp' = "exited"
    <2>1. rp' = rp
      BY DEF LNext, LSetupSource, LSetupDestination, SAcquire, LPrepost, LStall, LReplenish,
           LPost, LSentinel, LWritten, LWriteFails, LDrain, LTail, LCleanup, Here, rvars
    <2> QED
      BY <1>1, <2>1 DEF StageInv
  <1>3. posted <= Window + Headroom
    BY <1>0, <1>1 DEF RecvInv
  <1>4. ASSUME posted' \in Nat, posted' <= Window + Headroom PROVE RecvInv'
    <2>1. posted' \in 0..(Window + Headroom)
      BY <1>0, <1>4
    <2> QED
      BY <1>1, <1>2, <2>1 DEF RecvInv, RBefore, Receiving
  <1>5. sp' \notin Sending
    BY <1>1 DEF LNext, LSetupSource, LSetupDestination, SAcquire, LPrepost, LStall, LReplenish,
           LPost, LSentinel, LWritten, LWriteFails, LDrain, LTail, LCleanup, LPollAndTrack,
           SFail, Sending
  <1>6. CreditInv'
    BY <1>5 DEF CreditInv, Sending
  <1>7. ASSUME sp' \notin {"l_loop", "l_replenish", "l_writing"} PROVE LCreditInv'
    BY <1>7 DEF LCreditInv
  <1>8. ASSUME wr' = wr, posted' \in Nat, posted' >= posted PROVE WriteFindsReceive'
    BY <1>0, <1>1, <1>8 DEF WriteFindsReceive
  <1>9. ASSUME wr'.st # "posted" PROVE WriteFindsReceive'
    BY <1>9 DEF WriteFindsReceive
  <1>10. CASE UNCHANGED <<wr, posted>> /\ sp' \notin {"l_loop", "l_replenish", "l_writing"}
    BY <1>0, <1>3, <1>4, <1>6, <1>7, <1>8, <1>10
  <1>11. CASE LSetupSource \/ LSetupDestination \/ LDrain \/ LTail \/ LWriteFails
    <2>1. UNCHANGED <<wr, posted>> /\ sp' \notin {"l_loop", "l_replenish", "l_writing"}
      BY <1>1, <1>11 DEF LSetupSource, LSetupDestination, SAcquire, LDrain, LTail, LWriteFails,
                         LPollAndTrack, SFail, rvars
    <2> QED
      BY <1>10, <2>1
  <1>12. CASE LPrepost
    <2>1. CASE SFail /\ UNCHANGED posted
      BY <1>1, <1>10, <1>12, <2>1 DEF LPrepost, SFail
    <2>2. CASE /\ posted + InitialRecvs <= RecvQueue /\ posted' = posted + InitialRecvs
               /\ credits' = InitialRecvs /\ sp' = "l_loop"
      <3>1. wr' = wr
        BY <1>12 DEF LPrepost
      <3>2. posted' \in Nat /\ posted' <= Window + Headroom /\ posted' >= posted
            /\ credits' <= posted'
        BY <1>0, <2>2, InitialRecvsType DEF RecvQueue
      <3>3. LCreditInv'
        BY <2>2, <3>2 DEF LCreditInv
      <3> QED
        BY <1>4, <1>6, <1>8, <3>1, <3>2, <3>3
    <2> QED
      BY <1>12, <2>1, <2>2 DEF LPrepost
  <1>13. CASE LStall
    <2>1. sp = "l_loop" /\ UNCHANGED <<wr, posted>>
      BY <1>13 DEF LStall
    <2>2. CASE SFail
      BY <1>1, <1>10, <2>1, <2>2 DEF SFail
    <2>3. CASE sp' = "l_replenish" /\ UNCHANGED credits
      <3>1. LCreditInv'
        BY <2>1, <2>3 DEF LCreditInv
      <3> QED
        BY <1>0, <1>3, <1>4, <1>6, <1>8, <2>1, <3>1
    <2> QED
      BY <1>13, <2>2, <2>3 DEF LStall, LPollAndTrack
  <1>14. CASE LReplenish
    <2>1. CASE SFail /\ UNCHANGED posted
      BY <1>1, <1>10, <1>14, <2>1 DEF LReplenish, SFail
    <2>2. CASE /\ posted < RecvQueue /\ posted' = posted + 1 /\ credits' = credits + 1
               /\ sp' = "l_loop"
      <3>1. wr' = wr /\ credits <= posted
        BY <1>14 DEF LReplenish, LCreditInv
      <3>2. posted' \in Nat /\ posted' <= Window + Headroom /\ posted' >= posted
            /\ credits' <= posted'
        BY <1>0, <2>2, <3>1 DEF RecvQueue
      <3>3. LCreditInv'
        BY <2>2, <3>2 DEF LCreditInv
      <3> QED
        BY <1>4, <1>6, <1>8, <3>1, <3>2, <3>3
    <2> QED
      BY <1>14, <2>1, <2>2 DEF LReplenish
  <1>15. CASE LPost
    <2>1. /\ sp = "l_loop" /\ credits > 0 /\ wr'.st = "posted" /\ sp' = "l_writing"
          /\ UNCHANGED <<credits, posted>>
      BY <1>15 DEF LPost
    <2>2. credits <= posted
      BY <2>1 DEF LCreditInv
    <2>3. posted' > 0
      BY <1>0, <2>1, <2>2
    <2>4. LCreditInv'
      BY <1>0, <2>1, <2>2 DEF LCreditInv, One
    <2>5. WriteFindsReceive'
      BY <2>3 DEF WriteFindsReceive
    <2> QED
      BY <1>0, <1>3, <1>4, <1>6, <2>1, <2>4, <2>5
  <1>16. CASE LSentinel
    <2>1. CASE SFail /\ UNCHANGED <<posted, wr>>
      BY <1>1, <1>10, <2>1 DEF SFail
    <2>2. CASE /\ posted < RecvQueue /\ posted' = posted + 1 /\ wr'.st = "posted"
               /\ sp' = "l_writing" /\ UNCHANGED credits
      <3>1. credits <= posted
        BY <1>16 DEF LSentinel, LCreditInv
      <3>2. posted' \in Nat /\ posted' <= Window + Headroom /\ posted' > 0 /\ credits' <= posted'
        BY <1>0, <2>2, <3>1 DEF RecvQueue
      <3>3. LCreditInv'
        BY <1>0, <2>2, <3>2 DEF LCreditInv, One
      <3>4. WriteFindsReceive'
        BY <3>2 DEF WriteFindsReceive
      <3> QED
        BY <1>4, <1>6, <3>2, <3>3, <3>4
    <2> QED
      BY <1>16, <2>1, <2>2 DEF LSentinel
  <1>17. CASE LWritten
    <2>1. /\ sp = "l_writing" /\ wr.st = "acked" /\ wr'.st = "none" /\ credits' = credits - 1
          /\ UNCHANGED posted /\ sp' \in {"l_drain", "l_loop"}
      BY <1>17 DEF LWritten, NoWr
    <2>2. credits <= posted + 1
      BY <2>1 DEF LCreditInv, One
    <2>3. LCreditInv'
      BY <1>0, <2>1, <2>2 DEF LCreditInv
    <2> QED
      BY <1>0, <1>3, <1>4, <1>6, <1>9, <2>1, <2>3
  <1>18. CASE LCleanup
    <2>1. posted' = 0 /\ wr'.st = "none" /\ sp' \in {"l_out2", "exited"}
      BY <1>18 DEF LCleanup, NoWr
    <2> QED
      BY <1>0, <1>4, <1>6, <1>7, <1>9, <2>1
  <1> QED
    BY <1>11, <1>12, <1>13, <1>14, <1>15, <1>16, <1>17, <1>18 DEF LNext

(* The receiver: a receive for every chunk polled, then its credit.        *)
LEMMA ReceiverCredits ==
    ASSUME RecvInv, CreditInv, LCreditInv, WriteFindsReceive, SKinds, RKinds, SentInv, StageInv,
           SHeld, RNext, UNCHANGED <<mode, faulty>>, UNCHANGED <<svars, wr>>
    PROVE  RecvInv' /\ CreditInv' /\ LCreditInv' /\ WriteFindsReceive'
  <1>0. /\ Len(cq) \in Nat /\ Len(to_s) \in Nat /\ credits \in Int /\ posted \in Nat
        /\ iter \in Nat /\ idx \in Nat /\ Window \in Nat /\ PeerRecvWr \in Nat
    BY CountTypes, SizesAssumption
  <1>1. UNCHANGED <<sp, idx, iter, credits, sres, wr>>
    BY DEF svars
  <1>2. mode = "peer" /\ sp \in PeerPcs
    <2>1. rp # "exited"
      BY DEF RNext, RAcquire, RAcceptFails, RRecvMeta, RSendMeta, RConnectPeer, RPrepost, RSendReady, RLoop,
             RPollTimeout, RReplenish, RSendCredit, RPollSentinel, RSendDone, RVerify,
             RDrain, RRelease
    <2> QED
      BY <2>1 DEF StageInv, SHeld
  <1>3. LCreditInv'
    BY <1>1, <1>2 DEF LCreditInv, PeerPcs
  <1>4. posted <= PeerRecvWr
    BY <1>0, <1>2 DEF RecvInv
  <1>5. ASSUME rp' \notin RBefore, ~Receiving', posted' \in 0..PeerRecvWr
        PROVE  RecvInv' /\ CreditInv' /\ WriteFindsReceive'
    <2>1. RecvInv'
      BY <1>2, <1>5 DEF RecvInv, RBefore
    <2>2. CreditInv'
      BY <1>1, <1>5 DEF CreditInv
    <2>3. WriteFindsReceive'
      BY <1>2, <1>5 DEF WriteFindsReceive
    <2> QED
      BY <2>1, <2>2, <2>3
  <1>6. ASSUME rp \in RBefore PROVE CreditInv' /\ WriteFindsReceive'
    <2>1. sp \notin Sending /\ wr.st = "none"
      BY <1>6 DEF StageInv
    <2> QED
      BY <1>1, <2>1 DEF CreditInv, WriteFindsReceive, Sending
  <1>7. posted \in 0..PeerRecvWr /\ 0 \in 0..PeerRecvWr
    BY <1>0, <1>4
  <1>8. CASE posted' \in {posted, 0} /\ rp' \in RCleanup \cup {"tail", "done", "verify"}
    BY <1>3, <1>5, <1>7, <1>8 DEF RBefore, RCleanup, Receiving
  <1>9. CASE \/ RAcquire("rdma", "peer") \/ RAcquire("peer", "accept")
             \/ RAcquire("buf", "mr") \/ RAcquire("mr", "meta") \/ RRecvMeta
             \/ RAcceptFails \/ RSendMeta \/ RConnectPeer
    <2>1. /\ UNCHANGED <<posted, cq>> /\ rp \in RBefore \ {"prepost", "ready"}
          /\ rp' \in (RBefore \ {"ready"}) \cup RCleanup
      BY <1>9 DEF RAcquire, RAcceptFails, RRecvMeta, RSendMeta, RConnectPeer, RFail, RBefore, RCleanup
    <2>2. CASE rp' \in RBefore
      <3>1. posted' = 0
        BY <2>1 DEF RecvInv
      <3>2. 0 <= InitialRecvs
        BY InitialRecvsType
      <3>3. ~Receiving' /\ posted' \in 0..PeerRecvWr
        BY <1>7, <2>1, <2>2, <3>1 DEF Receiving, RBefore, RCleanup
      <3>4. RecvInv'
        BY <1>2, <3>1, <3>2, <3>3 DEF RecvInv
      <3> QED
        BY <1>3, <1>6, <2>1, <3>4
    <2>3. CASE rp' \in RCleanup
      BY <1>3, <1>8, <2>1, <2>3
    <2> QED
      BY <2>1, <2>2, <2>3
  <1>10. CASE RPrepost
    <2>1. rp = "prepost" /\ rp \in RBefore /\ cq = <<>> /\ cq' = cq
      BY <1>10 DEF RPrepost, RFail, RBefore, StageInv
    <2>2. CASE posted < InitialRecvs /\ posted < PeerRecvWr /\ posted' = posted + 1 /\ rp' = rp
      <3>1. posted' \in 0..PeerRecvWr /\ posted' <= InitialRecvs
        BY <1>0, <2>2, InitialRecvsType
      <3>2. RecvInv'
        BY <1>2, <2>1, <2>2, <3>1 DEF RecvInv, Receiving, RBefore
      <3> QED
        BY <1>3, <1>6, <2>1, <3>2
    <2>3. CASE posted = InitialRecvs /\ rp' = "ready" /\ posted' = posted
      <3>1. Len(cq') = 0 /\ One(rp' = "replenish") = 0
        BY <2>1, <2>3 DEF One
      <3>2. posted' + Len(cq') + One(rp' = "replenish") = InitialRecvs
        BY <1>0, <2>3, <3>1
      <3>3. RecvInv'
        BY <1>2, <1>7, <2>3, <3>2 DEF RecvInv, Receiving, RBefore
      <3> QED
        BY <1>3, <1>6, <2>1, <3>3
    <2>4. CASE RFail
      BY <1>3, <1>8, <2>4 DEF RFail, RCleanup
    <2> QED
      BY <1>10, <2>2, <2>3, <2>4 DEF RPrepost
  <1>11. CASE RSendReady
    <2>1. rp = "ready" /\ rp \in RBefore /\ UNCHANGED <<posted, cq>> /\ rp' \in {"loop", "out_tcp", "killed"}
      BY <1>11 DEF RSendReady, RSendByte, RKilled, RBefore
    <2>2. RecvInv'
      BY <1>2, <2>1 DEF RecvInv, Receiving, RBefore, One
    <2> QED
      BY <1>3, <1>6, <2>1, <2>2
  <1>12. ASSUME Receiving, rp \notin RBefore, posted' \in {posted, posted + 1},
                posted' \in 0..PeerRecvWr, rp' \in {"loop", "replenish", "credit"},
                posted' + Len(cq') + One(rp' = "replenish")
                   = posted + Len(cq) + One(rp = "replenish")
         PROVE  RecvInv' /\ WriteFindsReceive'
    <2>1. RecvInv'
      BY <1>2, <1>12 DEF RecvInv, Receiving, RBefore
    <2>2. posted > 0 => posted' > 0
      BY <1>0, <1>12
    <2>3. WriteFindsReceive'
      BY <1>1, <1>2, <1>12, <2>2 DEF WriteFindsReceive
    <2> QED
      BY <2>1, <2>3
  <1>13. CASE RLoop
    <2>1. rp = "loop" /\ UNCHANGED <<posted, to_s>>
      BY <1>13 DEF RLoop
    <2>2. CASE rp' = "tail"
      BY <1>3, <1>8, <2>1, <2>2
    <2>3. CASE rp' = "replenish" /\ cq # <<>> /\ cq' = Tail(cq)
      <3>1. Len(cq') = Len(cq) - 1
        BY <2>3 DEF RKinds
      <3>2. posted' + Len(cq') + 1 = posted + Len(cq) + 0
        BY <1>0, <2>1, <3>1
      <3>3. RecvInv' /\ WriteFindsReceive'
        BY <1>7, <1>12, <2>1, <2>3, <3>2 DEF Receiving, RBefore, One
      <3>4. CreditInv'
        BY <1>0, <1>1, <2>1, <2>3, <3>1 DEF CreditInv, Receiving, One
      <3> QED
        BY <1>3, <3>3, <3>4
    <2> QED
      BY <1>13, <2>2, <2>3 DEF RLoop
  <1>14. CASE RPollTimeout
    BY <1>3, <1>8, <1>14 DEF RPollTimeout, RFail, RCleanup
  <1>15. CASE RReplenish
    <2>1. CASE RFail
      BY <1>3, <1>8, <2>1 DEF RFail, RCleanup
    <2>2. CASE /\ rp = "replenish" /\ posted < PeerRecvWr /\ posted' = posted + 1
               /\ rp' = "credit" /\ cq' = cq
      <3>1. posted' + Len(cq') + 0 = posted + Len(cq) + 1 /\ posted' \in 0..PeerRecvWr
        BY <1>0, <2>2
      <3>2. RecvInv' /\ WriteFindsReceive'
        BY <1>12, <2>2, <3>1 DEF Receiving, RBefore, One
      <3>3. to_s' = to_s
        BY <1>15 DEF RReplenish
      <3>4. CreditInv'
        BY <1>0, <1>1, <2>2, <3>3 DEF CreditInv, Receiving, One
      <3> QED
        BY <1>3, <3>2, <3>4
    <2> QED
      BY <1>15, <2>1, <2>2 DEF RReplenish
  <1>16. CASE RSendCredit
    <2>1. rp = "credit" /\ UNCHANGED <<posted, cq>> /\ rp' \in {"loop", "out_tcp", "killed"}
      BY <1>16 DEF RSendCredit, RSendByte, RKilled
    <2>2. CASE rp' \in {"out_tcp", "killed"}
      BY <1>3, <1>8, <2>1, <2>2 DEF RCleanup
    <2>3. CASE rp' = "loop"
      <3>1. RecvInv' /\ WriteFindsReceive'
        BY <1>7, <1>12, <2>1, <2>3 DEF Receiving, RBefore, One
      <3>2. CASE sp \in Sending
        <4>1. "tcp" \in sres
          BY <3>2 DEF StageInv
        <4>2. to_s' = Append(to_s, "credit")
          BY <1>16, <4>1 DEF RSendCredit, RSendByte
        <4>3. Len(to_s') = Len(to_s) + 1
          BY <4>2 DEF RKinds
        <4>4. CreditInv'
          BY <1>0, <1>1, <2>1, <2>3, <4>3 DEF CreditInv, Receiving, One
        <4> QED
          BY <1>3, <3>1, <4>4
      <3>3. CASE sp \notin Sending
        <4>1. CreditInv'
          BY <1>1, <3>3 DEF CreditInv, Sending
        <4> QED
          BY <1>3, <3>1, <4>1
      <3> QED
        BY <3>2, <3>3
    <2> QED
      BY <2>1, <2>2, <2>3
  <1>17. CASE RPollSentinel \/ RSendDone \/ RVerify \/ RDrain \/ RRelease
    <2>1. posted' \in {posted, 0} /\ rp' \in RCleanup \cup {"tail", "done", "verify"}
      BY <1>17 DEF RPollSentinel, RSendDone, RSendByte, RKilled, RVerify, RDrain, RRelease, RCleanup
    <2> QED
      BY <1>3, <1>8, <2>1
  <1> QED
    BY <1>9, <1>10, <1>11, <1>13, <1>14, <1>15, <1>16, <1>17 DEF RNext

(* The fabric turns a posted receive into a completion.                    *)
LEMMA FabricCredits ==
    ASSUME RecvInv, CreditInv, LCreditInv, SKinds, RKinds, SentInv, StageInv, WrInv,
           Deliver \/ RetriesExhausted, UNCHANGED <<mode, faulty>>
    PROVE  RecvInv' /\ CreditInv' /\ LCreditInv' /\ WriteFindsReceive'
  <1>0. /\ Len(cq) \in Nat /\ Len(to_s) \in Nat /\ credits \in Int /\ posted \in Nat
        /\ iter \in Nat /\ idx \in Nat /\ Window \in Nat
        /\ PeerRecvWr \in Nat /\ Window + Headroom \in Nat
    BY CountTypes, SizesAssumption
  <1>1. UNCHANGED <<sp, idx, iter, credits, rp, to_s>> /\ wr.st = "posted"
    BY DEF Deliver, RetriesExhausted, svars, rvars
  <1>2. rp \notin RBefore
    BY <1>1 DEF StageInv
  <1>3. CASE Deliver
    <2>1. posted > 0 /\ posted' = posted - 1 /\ wr'.st = "acked"
      BY <1>3 DEF Deliver, WrInv
    <2>2. Len(cq') = Len(cq) + 1
      BY <1>3 DEF Deliver, RKinds
    <2>3. posted' \in 0..(IF mode = "peer" THEN PeerRecvWr ELSE Window + Headroom)
      BY <1>0, <2>1 DEF RecvInv
    <2>4. posted' + Len(cq') = posted + Len(cq)
      BY <1>0, <2>1, <2>2
    <2>5. RecvInv'
      <3>1. PICK u \in {0, 1} : u = One(rp = "replenish")
        BY DEF One
      <3>2. posted' + Len(cq') + u = posted + Len(cq) + u
        BY <1>0, <2>1, <2>2, <3>1
      <3> QED
        BY <1>1, <1>2, <2>3, <3>1, <3>2 DEF RecvInv, Receiving, RBefore
    <2>6. CreditInv'
      BY <1>0, <1>1, <2>1, <2>2 DEF CreditInv, Receiving, One
    <2>7. LCreditInv'
      <3>1. sp \notin {"l_loop", "l_replenish"}
        BY <1>1 DEF StageInv, Writing, Ended
      <3> QED
        BY <1>0, <1>1, <2>1, <3>1 DEF LCreditInv, One
    <2> QED
      BY <2>1, <2>5, <2>6, <2>7 DEF WriteFindsReceive
  <1>4. CASE RetriesExhausted
    <2>1. wr'.st = "error" /\ UNCHANGED <<posted, cq>>
      BY <1>4 DEF RetriesExhausted, WrInv, rvars
    <2>2. RecvInv'
      BY <1>1, <2>1 DEF RecvInv, Receiving
    <2>3. CreditInv'
      BY <1>0, <1>1, <2>1 DEF CreditInv, Receiving, One
    <2>4. LCreditInv'
      BY <1>0, <1>1, <2>1 DEF LCreditInv, One
    <2> QED
      BY <2>1, <2>2, <2>3, <2>4 DEF WriteFindsReceive
  <1> QED
    BY <1>3, <1>4

-----------------------------------------------------------------------------
\* The bitmap and the buffer

(* What the tail of the completion queue holds.                            *)
LEMMA TailOfQueue ==
    ASSUME NEW q \in Seq(Int), q # <<>>
    PROVE  /\ Len(q) \in Nat /\ Len(q) >= 1 /\ Len(Tail(q)) = Len(q) - 1
           /\ 1 \in 1..Len(q) /\ Head(q) = q[1]
           /\ \A k \in 1..Len(Tail(q)) : k + 1 \in 1..Len(q) /\ Tail(q)[k] = q[k + 1]
  <1>1. Len(q) \in Nat /\ Len(q) >= 1 /\ Len(Tail(q)) = Len(q) - 1 /\ Head(q) = q[1]
    OBVIOUS
  <1>2. 1 \in 1..Len(q)
    BY <1>1
  <1>3. ASSUME NEW k \in 1..Len(Tail(q))
        PROVE  k + 1 \in 1..Len(q) /\ Tail(q)[k] = q[k + 1]
    BY <1>1, <1>3
  <1> QED
    BY <1>1, <1>2, <1>3

(* Dropping completions without marking anything.                          *)
LEMMA DropMarks ==
    ASSUME MarkInv, RKinds, UNCHANGED <<bitmap, mem>>, wr' = wr \/ wr' = NoWr,
           cq' = cq \/ cq' = <<>> \/ (cq # <<>> /\ cq' = Tail(cq))
    PROVE  MarkInv'
  <1>1. /\ bitmap' \in BitmapType
        /\ \A i \in AllChunks : Marked(bitmap', i) => i \in mem'
    BY DEF MarkInv
  <1>2. wr'.st = "posted" => (wr'.imm = Sentinel /\ mem' = AllChunks) \/ wr'.imm = ImmOf(wr'.off)
    BY DEF MarkInv, NoWr
  <1>3. ASSUME NEW k \in 1..Len(cq')
        PROVE  (cq'[k] = Sentinel /\ mem' = AllChunks) \/ \E i \in mem' : cq'[k] = ImmOf(i)
    <2>1. CASE cq' = cq
      BY <1>3, <2>1 DEF MarkInv
    <2>2. CASE cq' = <<>>
      BY <1>3, <2>2
    <2>3. CASE cq # <<>> /\ cq' = Tail(cq)
      <3>1. k + 1 \in 1..Len(cq) /\ cq'[k] = cq[k + 1]
        BY <1>3, <2>3, TailOfQueue DEF RKinds
      <3> QED
        BY <3>1 DEF MarkInv
    <2> QED
      BY <2>1, <2>2, <2>3
  <1> QED
    BY <1>1, <1>2, <1>3 DEF MarkInv

(* A polled completion that is not the sentinel is that of a chunk.        *)
LEMMA PolledChunk ==
    ASSUME MarkInv, RKinds, SentInv, cq # <<>>, Head(cq) # Sentinel
    PROVE  \E i \in AllChunks : i \in mem /\ Head(cq) = ImmOf(i)
  <1>1. 1 \in 1..Len(cq) /\ Head(cq) = cq[1]
    BY TailOfQueue DEF RKinds
  <1>2. PICK i \in mem : cq[1] = ImmOf(i)
    BY <1>1 DEF MarkInv
  <1> QED
    BY <1>1, <1>2 DEF SentInv, AllChunks

(* Polling the completion of a chunk marks that chunk.                     *)
LEMMA PollMarks ==
    ASSUME Chunks < BitmapBits, MarkInv, RKinds, SentInv, cq # <<>>, Head(cq) # Sentinel,
           cq' = Tail(cq), UNCHANGED <<mem, wr>>,
           bitmap' = BitmapSet(bitmap, ImmLayer(Head(cq)), ImmChunk(Head(cq)))
    PROVE  MarkInv'
  <1>1. PICK h \in AllChunks : h \in mem /\ Head(cq) = ImmOf(h)
    BY PolledChunk
  <1>2. bitmap \in BitmapType
    BY DEF MarkInv
  <1>3. /\ bitmap' \in BitmapType
        /\ \A j \in AllChunks : Marked(bitmap', j) <=> Marked(bitmap, j) \/ j = h
    BY <1>1, <1>2, MarkOne
  <1>4. \A i \in AllChunks : Marked(bitmap', i) => i \in mem'
    BY <1>1, <1>3 DEF MarkInv
  <1>5. ASSUME NEW k \in 1..Len(cq')
        PROVE  (cq'[k] = Sentinel /\ mem' = AllChunks) \/ \E i \in mem' : cq'[k] = ImmOf(i)
    <2>1. k + 1 \in 1..Len(cq) /\ cq'[k] = cq[k + 1]
      BY <1>5, TailOfQueue DEF RKinds
    <2> QED
      BY <2>1 DEF MarkInv
  <1>6. wr'.st = "posted" => (wr'.imm = Sentinel /\ mem' = AllChunks) \/ wr'.imm = ImmOf(wr'.off)
    BY DEF MarkInv
  <1> QED
    BY <1>3, <1>4, <1>5, <1>6 DEF MarkInv

(* A sentinel at the head of the queue: every chunk was marked before it.  *)
LEMMA SentinelIsLast ==
    ASSUME MarkInv, AheadInv, RKinds, SentInv, rp = "loop", cq # <<>>, Head(cq) = Sentinel
    PROVE  mem = AllChunks /\ \A i \in AllChunks : Marked(bitmap, i)
  <1>1. Len(cq) \in Nat /\ 1 \in 1..Len(cq) /\ cq[1] = Sentinel
    BY TailOfQueue DEF RKinds
  <1>2. mem = AllChunks
    <2>1. ASSUME NEW i \in mem PROVE cq[1] # ImmOf(i)
      BY <1>1, SentinelIsNoChunk DEF SentInv
    <2> QED
      BY <1>1, <2>1 DEF MarkInv
  <1>3. ASSUME NEW i \in AllChunks PROVE Marked(bitmap, i)
    <2>1. ASSUME NEW k \in 1..Len(cq), cq[k] = ImmOf(i), \A j \in 1..(k - 1) : cq[j] # Sentinel
          PROVE  FALSE
      <3>1. CASE k = 1
        BY <1>1, <2>1, <3>1, SentinelIsNoChunk DEF AllChunks
      <3>2. CASE k # 1
        <4>1. 1 \in 1..(k - 1)
          BY <1>1, <3>2
        <4> QED
          BY <1>1, <2>1, <4>1
      <3> QED
        BY <3>1, <3>2
    <2> QED
      BY <1>2, <2>1 DEF AheadInv
  <1> QED
    BY <1>2, <1>3

(* After a chunk is polled the others still are marked or ahead.           *)
LEMMA PollAhead ==
    ASSUME Chunks < BitmapBits, MarkInv, AheadInv, RKinds, SentInv, rp = "loop",
           cq # <<>>, Head(cq) # Sentinel, cq' = Tail(cq), UNCHANGED mem,
           bitmap' = BitmapSet(bitmap, ImmLayer(Head(cq)), ImmChunk(Head(cq)))
    PROVE  AheadInv'
  <1>1. PICK h \in AllChunks : h \in mem /\ Head(cq) = ImmOf(h)
    BY PolledChunk
  <1>2. \A j \in AllChunks : Marked(bitmap', j) <=> Marked(bitmap, j) \/ j = h
    BY <1>1, MarkOne DEF MarkInv
  <1>3. ASSUME NEW i \in mem, ~Marked(bitmap', i)
        PROVE  \E k \in 1..Len(cq') :
                  cq'[k] = ImmOf(i) /\ \A j \in 1..(k - 1) : cq'[j] # Sentinel
    <2>1. i \in AllChunks /\ ~Marked(bitmap, i) /\ i # h
      BY <1>2, <1>3 DEF SentInv, AllChunks
    <2>2. PICK k \in 1..Len(cq) : cq[k] = ImmOf(i) /\ \A j \in 1..(k - 1) : cq[j] # Sentinel
      BY <1>3, <2>1 DEF AheadInv
    <2>3. Len(cq) \in Nat /\ Len(cq') = Len(cq) - 1 /\ cq[1] = ImmOf(h)
      BY <1>1, TailOfQueue DEF RKinds
    <2>4. k # 1
      BY <1>1, <2>1, <2>2, <2>3, ImmInjective
    <2>5. k - 1 \in 1..Len(cq') /\ (k - 1) + 1 = k
      BY <2>3, <2>4
    <2>6. cq'[k - 1] = ImmOf(i)
      BY <2>2, <2>5, TailOfQueue DEF RKinds
    <2>7. ASSUME NEW j \in 1..((k - 1) - 1) PROVE cq'[j] # Sentinel
      <3>1. j \in 1..Len(cq') /\ j + 1 \in 1..(k - 1)
        BY <2>3, <2>5
      <3> QED
        BY <2>2, <3>1, TailOfQueue DEF RKinds
    <2> QED
      BY <2>5, <2>6, <2>7
  <1> QED
    BY <1>3 DEF AheadInv

(* The receiver.                                                           *)
LEMMA ReceiverMarks ==
    ASSUME Chunks < BitmapBits, MarkInv, AheadInv, LoopEndsWhole, RKinds, SentInv,
           RNext, wr' = wr
    PROVE  MarkInv' /\ AheadInv' /\ LoopEndsWhole'
  <1>0. mem \subseteq AllChunks /\ bitmap \in BitmapType
    BY DEF SentInv, AllChunks, MarkInv
  <1>1. CASE RLoop
    <2>1. rp = "loop" /\ mem' = mem
      BY <1>1 DEF RLoop
    <2>2. CASE rp' = "tail" /\ UNCHANGED bitmap /\ (cq' = cq \/ (cq # <<>> /\ cq' = Tail(cq)))
               /\ (BitmapAllComplete(bitmap) \/ (cq # <<>> /\ Head(cq) = Sentinel))
      <3>1. mem = AllChunks /\ \A i \in AllChunks : Marked(bitmap, i)
        <4>1. CASE BitmapAllComplete(bitmap)
          <5>1. \A i \in AllChunks : Marked(bitmap, i)
            BY <1>0, <4>1, CompleteIsMarked
          <5> QED
            BY <1>0, <5>1 DEF MarkInv
        <4>2. CASE cq # <<>> /\ Head(cq) = Sentinel
          BY <2>1, <4>2, SentinelIsLast
        <4> QED
          BY <2>2, <4>1, <4>2
      <3>2. \A l \in 0..(Layers - 1) : bitmap[l] = 0..(Chunks - 1)
        BY <1>0, <3>1, MarkedIsFull
      <3>3. LoopEndsWhole'
        BY <2>1, <2>2, <3>1, <3>2 DEF LoopEndsWhole, AllChunks
      <3>4. MarkInv'
        BY <2>1, <2>2, DropMarks
      <3> QED
        BY <2>2, <3>3, <3>4 DEF AheadInv, RBefore
    <2>3. CASE /\ rp' = "replenish" /\ cq # <<>> /\ cq' = Tail(cq) /\ Head(cq) # Sentinel
               /\ bitmap' = BitmapSet(bitmap, ImmLayer(Head(cq)), ImmChunk(Head(cq)))
      <3>1. MarkInv'
        BY <2>1, <2>3, PollMarks
      <3>2. AheadInv'
        BY <2>1, <2>3, PollAhead
      <3> QED
        BY <2>3, <3>1, <3>2 DEF LoopEndsWhole
    <2> QED
      BY <1>1, <2>2, <2>3 DEF RLoop
  <1>2. ASSUME UNCHANGED <<bitmap, mem, cq>>,
               \/ rp \in RBefore \cup {"loop", "replenish", "credit"}
               \/ rp' \notin RBefore \cup {"loop", "replenish", "credit"},
               \/ rp \in {"tail", "done", "verify"}
               \/ rp' \notin {"tail", "done", "verify"}
        PROVE  MarkInv' /\ AheadInv' /\ LoopEndsWhole'
    <2>1. MarkInv'
      BY <1>2, DropMarks
    <2>2. AheadInv'
      BY <1>2 DEF AheadInv
    <2>3. LoopEndsWhole'
      BY <1>2 DEF LoopEndsWhole
    <2> QED
      BY <2>1, <2>2, <2>3
  <1>3. CASE \/ RAcquire("rdma", "peer") \/ RAcquire("peer", "accept")
             \/ RAcquire("buf", "mr") \/ RAcquire("mr", "meta") \/ RRecvMeta
             \/ RAcceptFails \/ RSendMeta \/ RConnectPeer \/ RPrepost \/ RSendReady
    <2>1. /\ UNCHANGED <<bitmap, mem, cq>> /\ rp \in RBefore
          /\ rp' \in RBefore \cup {"loop", "out_tcp", "exited", "killed"}
      BY <1>3 DEF RAcquire, RAcceptFails, RRecvMeta, RSendMeta, RConnectPeer, RPrepost, RSendReady, RSendByte,
                  RKilled, RFail, RBefore
    <2> QED
      BY <1>2, <2>1 DEF RBefore
  <1>4. CASE RPollTimeout \/ RReplenish \/ RSendCredit
    <2>1. /\ UNCHANGED <<bitmap, mem, cq>> /\ rp \in {"loop", "replenish", "credit"}
          /\ rp' \in {"loop", "credit", "out_tcp", "killed"}
      BY <1>4 DEF RPollTimeout, RReplenish, RSendCredit, RSendByte, RKilled, RFail
    <2> QED
      BY <1>2, <2>1
  <1>5. CASE RSendDone \/ RVerify
    <2>1. /\ UNCHANGED <<bitmap, mem, cq>> /\ rp \in {"done", "verify"}
          /\ rp' \in {"verify", "out_tcp", "killed"}
      BY <1>5 DEF RSendDone, RSendByte, RKilled, RVerify
    <2> QED
      BY <1>2, <2>1 DEF RBefore
  <1>6. CASE RPollSentinel \/ RDrain \/ RRelease
    <2>1. /\ UNCHANGED <<bitmap, mem>>
          /\ cq' = cq \/ cq' = <<>> \/ (cq # <<>> /\ cq' = Tail(cq))
          /\ rp = "tail" \/ rp' # "done"
          /\ rp' \in {"done"} \cup RCleanup
      BY <1>6 DEF RPollSentinel, RDrain, RRelease, RCleanup
    <2>2. MarkInv'
      BY <2>1, DropMarks
    <2>3. AheadInv'
      BY <2>1 DEF AheadInv, RBefore, RCleanup
    <2>4. LoopEndsWhole'
      BY <2>1 DEF LoopEndsWhole, RCleanup
    <2> QED
      BY <2>2, <2>3, <2>4
  <1> QED
    BY <1>1, <1>3, <1>4, <1>5, <1>6 DEF RNext

(* A delivery: the first of a chunk comes before any sentinel.             *)
LEMMA FabricMarks ==
    ASSUME MarkInv, AheadInv, LoopEndsWhole, RKinds, SentInv, WrInv, StageInv, RecvInv,
           Deliver \/ RetriesExhausted
    PROVE  MarkInv' /\ AheadInv' /\ LoopEndsWhole'
  <1>0. mem \subseteq AllChunks /\ wr.off \in AllChunks /\ cq \in Seq(Int) /\ Len(cq) \in Nat
    BY DEF SentInv, WrInv, AllChunks, RKinds
  <1>1. CASE Deliver
    <2>1. /\ wr.st = "posted" /\ UNCHANGED <<bitmap, rp>> /\ mem' = mem \cup {wr.off}
          /\ wr'.st = "acked"
      BY <1>1 DEF Deliver, WrInv
    <2>2. (wr.imm = Sentinel /\ mem = AllChunks) \/ wr.imm = ImmOf(wr.off)
      BY <2>1 DEF MarkInv
    <2>3. Sentinel \in Int
      BY SizesAssumption DEF Sentinel
    <2>4. wr.imm \in Int
      BY <1>0, <2>2, <2>3, ChunkIndex
    <2>5. /\ Len(cq') = Len(cq) + 1 /\ cq'[Len(cq) + 1] = wr.imm
          /\ \A k \in 1..Len(cq) : cq'[k] = cq[k]
      BY <1>0, <1>1, <2>4 DEF Deliver
    <2>6. mem' \subseteq AllChunks /\ (mem = AllChunks => mem' = AllChunks)
      BY <1>0, <2>1
    <2>7. ASSUME NEW k \in 1..Len(cq')
          PROVE  (cq'[k] = Sentinel /\ mem' = AllChunks) \/ \E i \in mem' : cq'[k] = ImmOf(i)
      <3>1. CASE k \in 1..Len(cq)
        <4>1. (cq[k] = Sentinel /\ mem = AllChunks) \/ \E i \in mem : cq[k] = ImmOf(i)
          BY <3>1 DEF MarkInv
        <4> QED
          BY <2>1, <2>5, <2>6, <3>1, <4>1
      <3>2. CASE k = Len(cq) + 1
        BY <2>1, <2>2, <2>5, <2>6, <3>2
      <3> QED
        BY <1>0, <2>5, <3>1, <3>2
    <2>8. MarkInv'
      BY <2>1, <2>7 DEF MarkInv
    <2>9. AheadInv'
      <3>1. ASSUME rp \in RBefore \cup {"loop", "replenish", "credit"},
                   NEW i \in mem', ~Marked(bitmap, i)
            PROVE  \E k \in 1..Len(cq') :
                      cq'[k] = ImmOf(i) /\ \A j \in 1..(k - 1) : cq'[j] # Sentinel
        <4>1. CASE i \in mem
          <5>1. PICK k \in 1..Len(cq) :
                   cq[k] = ImmOf(i) /\ \A j \in 1..(k - 1) : cq[j] # Sentinel
            BY <3>1, <4>1 DEF AheadInv
          <5>2. k \in 1..Len(cq') /\ \A j \in 1..(k - 1) : j \in 1..Len(cq)
            BY <1>0, <2>5
          <5> QED
            BY <2>5, <5>1, <5>2
        <4>2. CASE i \notin mem
          <5>1. i = wr.off /\ mem # AllChunks
            BY <1>0, <2>1, <3>1, <4>2
          <5>2. cq'[Len(cq) + 1] = ImmOf(i)
            BY <2>2, <2>5, <5>1
          <5>3. ASSUME NEW j \in 1..Len(cq) PROVE cq'[j] # Sentinel
            <6>1. PICK m \in mem : cq[j] = ImmOf(m)
              BY <5>1 DEF MarkInv
            <6> QED
              BY <1>0, <2>5, <6>1, SentinelIsNoChunk DEF AllChunks
          <5>4. Len(cq) + 1 \in 1..Len(cq') /\ (Len(cq) + 1) - 1 = Len(cq)
            BY <1>0, <2>5
          <5> QED
            BY <5>2, <5>3, <5>4
        <4> QED
          BY <4>1, <4>2
      <3> QED
        BY <2>1, <3>1 DEF AheadInv
    <2>10. LoopEndsWhole'
      BY <2>1, <2>6 DEF LoopEndsWhole, AllChunks
    <2> QED
      BY <2>8, <2>9, <2>10
  <1>2. CASE RetriesExhausted
    <2>1. /\ wr.st = "posted" /\ wr'.st = "error" /\ UNCHANGED <<bitmap, rp, cq>>
          /\ mem' \in {mem, mem \cup {wr.off}} /\ mem \subseteq mem' /\ mem' \subseteq AllChunks
      BY <1>0, <1>2 DEF RetriesExhausted, WrInv
    <2>2. MarkInv'
      BY <2>1 DEF MarkInv
    <2>3. LoopEndsWhole'
      BY <2>1 DEF LoopEndsWhole, AllChunks
    <2>4. CASE mem' = mem
      BY <2>1, <2>2, <2>3, <2>4 DEF AheadInv
    <2>5. CASE mem' # mem
      <3>1. posted > 0 /\ Len(cq) >= CqDepth
        BY <1>2, <2>5 DEF RetriesExhausted
      <3>2. ~Receiving
        <4>1. SUFFICES ASSUME Receiving PROVE FALSE
          OBVIOUS
        <4>2. Len(cq) < InitialRecvs /\ InitialRecvs <= PeerRecvWr
          BY <1>0, <3>1, <4>1, InitialRecvsType DEF RecvInv, One
        <4> QED
          BY <1>0, <3>1, <4>2, SizesAssumption, InitialRecvsType
      <3>3. rp \notin RBefore
        BY <2>1 DEF StageInv
      <3> QED
        BY <2>1, <2>2, <2>3, <3>2, <3>3 DEF AheadInv, Receiving
    <2> QED
      BY <2>4, <2>5
  <1> QED
    BY <1>1, <1>2

(* What the sender posts: a chunk under its own immediate value, and the   *)
(* sentinel after the last.                                                *)
LEMMA PostMarks ==
    ASSUME MarkInv, SentInv, UNCHANGED <<bitmap, mem, cq>>,
           \/ wr' = [imm |-> ImmOf(idx), off |-> idx, st |-> "posted"]
           \/ idx = Total /\ wr' = [imm |-> Sentinel, off |-> 0, st |-> "posted"]
    PROVE  MarkInv'
  <1>1. idx = Total => mem = AllChunks
    BY DEF SentInv, AllChunks
  <1>2. (wr'.imm = Sentinel /\ mem' = AllChunks) \/ wr'.imm = ImmOf(wr'.off)
    BY <1>1
  <1> QED
    BY <1>2 DEF MarkInv

(* The sender in --peer mode.                                              *)
LEMMA SenderMarks ==
    ASSUME MarkInv, AheadInv, LoopEndsWhole, RKinds, SentInv, RecvInv, SNext,
           UNCHANGED <<mode, faulty>>
    PROVE  MarkInv' /\ AheadInv' /\ LoopEndsWhole'
  <1>1. UNCHANGED <<cq, bitmap, mem>>
    BY SenderRecvs
  <1>2. rp' = rp \/ (rp = "accept" /\ rp' = "await_meta")
    BY DEF SNext, SSetup, SAcquire, STcpConnect, RListening, SSendMeta, SRecvMeta, SConnectPeer,
           SAwaitReady, SStall, SNoStall, SDrainCredits, SPost, SWritten, SWriteFails,
           SAwaitDone, SCloseTcp, SDestroyPeer, SRelease, rvars
  <1>3. AheadInv' /\ LoopEndsWhole'
    BY <1>1, <1>2 DEF AheadInv, LoopEndsWhole, RBefore
  <1>4. CASE SPost
    <2>1. MarkInv'
      BY <1>1, <1>4, PostMarks DEF SPost
    <2> QED
      BY <1>3, <2>1
  <1>5. CASE ~SPost
    <2>1. wr' = wr \/ wr' = NoWr
      BY <1>5 DEF SNext, SSetup, SAcquire, STcpConnect, SSendMeta, SRecvMeta, SConnectPeer,
           SAwaitReady, SStall, SNoStall, SDrainCredits, SWritten, SWriteFails,
           SAwaitDone, SCloseTcp, SDestroyPeer, SRelease
    <2>2. MarkInv'
      BY <1>1, <2>1, DropMarks
    <2> QED
      BY <1>3, <2>2
  <1> QED
    BY <1>4, <1>5

-----------------------------------------------------------------------------
\* The first loopback transfer

(* Steps before the drain that leave the buffer, the bitmap and the queue. *)
LEMMA QuietFirst ==
    ASSUME FirstInv, UNCHANGED <<mode, iter, idx, cq, bitmap, mem>>,
           sp \notin {"l_writing", "l_drain", "l_tail"} \cup Ended, sp' # "l_tail"
    PROVE  FirstInv'
  <1> SUFFICES ASSUME mode = "loopback", iter = 0 PROVE FirstInv'
    BY DEF FirstInv
  <1>1. /\ \A i \in mem : i < idx
        /\ \A j, k \in 1..Len(cq) : cq[j] = cq[k] => j = k
        /\ \A k \in 1..Len(cq) : \A i \in AllChunks : cq[k] = ImmOf(i) => ~Marked(bitmap, i)
        /\ \A k \in 1..Len(cq) : cq[k] # Sentinel
    BY DEF FirstInv
  <1> QED
    BY <1>1 DEF FirstInv

(* Polling a chunk before the last transfer's end.                         *)
LEMMA PollFirst ==
    ASSUME Chunks < BitmapBits, FirstInv, MarkInv, RKinds, SentInv,
           UNCHANGED <<mode, iter, idx, mem>>,
           cq # <<>>, Head(cq) # Sentinel, cq' = Tail(cq),
           bitmap' = BitmapSet(bitmap, ImmLayer(Head(cq)), ImmChunk(Head(cq))),
           sp = sp' \/ sp \notin {"l_writing", "l_drain", "l_tail"} \cup Ended,
           sp # "l_writing", sp' # "l_tail"
    PROVE  FirstInv'
  <1> SUFFICES ASSUME mode = "loopback", iter = 0, sp' \notin Ended PROVE FirstInv'
    BY DEF FirstInv
  <1>0. sp \notin Ended
    OBVIOUS
  <1>1. /\ \A i \in mem : i < idx
        /\ \A j, k \in 1..Len(cq) : cq[j] = cq[k] => j = k
        /\ \A k \in 1..Len(cq) : \A i \in AllChunks : cq[k] = ImmOf(i) => ~Marked(bitmap, i)
        /\ \A k \in 1..Len(cq) : cq[k] = Sentinel => k = Len(cq) /\ sp \in {"l_drain", "l_tail"}
    BY <1>0 DEF FirstInv
  <1>2. PICK h \in AllChunks : h \in mem /\ Head(cq) = ImmOf(h)
    BY PolledChunk
  <1>3. \A j \in AllChunks : Marked(bitmap', j) <=> Marked(bitmap, j) \/ j = h
    BY <1>2, MarkOne DEF MarkInv
  <1>4. /\ Len(cq) \in Nat /\ Len(cq') = Len(cq) - 1 /\ 1 \in 1..Len(cq) /\ cq[1] = ImmOf(h)
        /\ \A k \in 1..Len(cq') : k + 1 \in 1..Len(cq) /\ cq'[k] = cq[k + 1]
    BY <1>2, TailOfQueue DEF RKinds
  <1>5. \A j, k \in 1..Len(cq') : cq'[j] = cq'[k] => j = k
    <2> SUFFICES ASSUME NEW j \in 1..Len(cq'), NEW k \in 1..Len(cq'), cq'[j] = cq'[k]
                 PROVE  j = k
      OBVIOUS
    <2>1. j + 1 \in 1..Len(cq) /\ k + 1 \in 1..Len(cq) /\ cq[j + 1] = cq[k + 1]
      BY <1>4
    <2>2. j + 1 = k + 1
      BY <1>1, <2>1
    <2>3. j \in Int /\ k \in Int
      OBVIOUS
    <2> QED
      BY <2>2, <2>3
  <1>6. ASSUME NEW k \in 1..Len(cq'), NEW i \in AllChunks, cq'[k] = ImmOf(i)
        PROVE  ~Marked(bitmap', i)
    <2>1. k + 1 \in 1..Len(cq) /\ cq[k + 1] = ImmOf(i) /\ k + 1 # 1
      BY <1>4, <1>6
    <2>2. ~Marked(bitmap, i)
      BY <1>1, <2>1
    <2>3. i # h
      <3>1. ASSUME i = h PROVE FALSE
        <4>1. cq[k + 1] = cq[1]
          BY <1>4, <2>1, <3>1
        <4>2. k + 1 = 1
          BY <1>1, <1>4, <2>1, <4>1
        <4> QED
          BY <2>1, <4>2
      <3> QED
        BY <3>1
    <2> QED
      BY <1>3, <2>2, <2>3
  <1>7. ASSUME NEW k \in 1..Len(cq'), cq'[k] = Sentinel
        PROVE  k = Len(cq') /\ sp' = "l_drain"
    <2>1. k + 1 \in 1..Len(cq) /\ cq[k + 1] = Sentinel
      BY <1>4, <1>7
    <2>2. k + 1 = Len(cq) /\ sp \in {"l_drain", "l_tail"}
      BY <1>1, <2>1
    <2>3. sp' = "l_drain"
      BY <2>2
    <2>4. PICK n \in Nat : n = Len(cq)
      BY <1>4
    <2>5. k + 1 = n /\ Len(cq') = n - 1
      BY <1>4, <2>2, <2>4
    <2>6. k \in Int
      OBVIOUS
    <2> QED
      BY <2>3, <2>4, <2>5, <2>6
  <1>8. \A i \in mem' : i < idx'
    BY <1>1
  <1> QED
    BY <1>5, <1>6, <1>7, <1>8 DEF FirstInv

(* The drain ends with at most the sentinel in the queue.                  *)
LEMMA DrainedFirst ==
    ASSUME Chunks < BitmapBits, FirstInv, MarkInv, RKinds, SentInv, mode = "loopback",
           iter = 0, sp = "l_drain",
           BitmapAllComplete(bitmap)
    PROVE  Len(cq) <= 1
  <1>1. \A i \in AllChunks : Marked(bitmap, i)
    BY CompleteIsMarked DEF MarkInv
  <1>2. ASSUME NEW k \in 1..Len(cq) PROVE cq[k] = Sentinel
    <2>1. ASSUME NEW i \in mem, cq[k] = ImmOf(i) PROVE FALSE
      <3>1. i \in AllChunks /\ sp \notin Ended
        BY <2>1 DEF SentInv, AllChunks, Ended
      <3> QED
        BY <1>1, <2>1, <3>1 DEF FirstInv
    <2> QED
      BY <2>1 DEF MarkInv
  <1>3. ASSUME NEW k \in 1..Len(cq) PROVE k = Len(cq)
    <2>1. sp \notin Ended
      BY DEF Ended
    <2> QED
      BY <1>2, <2>1 DEF FirstInv
  <1>4. Len(cq) \in Nat
    BY DEF RKinds
  <1>5. PICK n \in Nat : n = Len(cq)
    BY <1>4
  <1>6. ASSUME n > 1 PROVE FALSE
    <2>1. 1 \in 1..n
      BY <1>6
    <2>2. 1 = n
      BY <1>3, <1>5, <2>1
    <2> QED
      BY <1>6, <2>2
  <1>7. n <= 1
    BY <1>6
  <1> QED
    BY <1>5, <1>7

(* In the first transfer the sentinel is polled last.                      *)
LEMMA SentinelFirst ==
    ASSUME FirstInv, RKinds, mode = "loopback", iter = 0, sp \notin Ended,
           cq # <<>>, Head(cq) = Sentinel
    PROVE  Len(Tail(cq)) = 0 /\ sp \in {"l_drain", "l_tail", "l_writing"}
  <1>1. Len(cq) \in Nat /\ 1 \in 1..Len(cq) /\ cq[1] = Sentinel /\ Len(Tail(cq)) = Len(cq) - 1
    BY TailOfQueue DEF RKinds
  <1>2. Len(cq) = 1 /\ sp \in {"l_drain", "l_tail", "l_writing"}
    BY <1>1 DEF FirstInv
  <1> QED
    BY <1>1, <1>2

(* A completion polled by the loopback sender: the buffer and the bitmap.  *)
LEMMA LoopbackPoll ==
    ASSUME Chunks < BitmapBits, MarkInv, RKinds, SentInv, NEW a, NEW b, LPollAndTrack(a, b),
           UNCHANGED <<mem, wr>>
    PROVE  MarkInv'
  <1>1. CASE UNCHANGED <<cq, bitmap>>
    BY <1>1, DropMarks
  <1>2. CASE cq # <<>> /\ cq' = Tail(cq) /\ Head(cq) = Sentinel /\ UNCHANGED bitmap
    BY <1>2, DropMarks
  <1>3. CASE /\ cq # <<>> /\ cq' = Tail(cq) /\ Head(cq) # Sentinel
             /\ bitmap' = BitmapSet(bitmap, ImmLayer(Head(cq)), ImmChunk(Head(cq)))
    BY <1>3, PollMarks
  <1> QED
    BY <1>1, <1>2, <1>3 DEF LPollAndTrack

(* The sender in --loopback mode: what is marked.                          *)
LEMMA LoopbackMarks ==
    ASSUME Chunks < BitmapBits, MarkInv, RKinds, SentInv, StageInv, SHeld, LNext,
           UNCHANGED <<mode, faulty>>
    PROVE  MarkInv' /\ AheadInv' /\ LoopEndsWhole'
  <1>1. mode = "loopback"
    BY DEF SHeld, LNext, LSetupSource, LSetupDestination, SAcquire, LPrepost, LStall, LReplenish,
           LPost, LSentinel, LWritten, LWriteFails, LDrain, LTail, LCleanup, PeerPcs
  <1>2. rp' = "exited"
    <2>1. rp' = rp
      BY DEF LNext, LSetupSource, LSetupDestination, SAcquire, LPrepost, LStall, LReplenish,
           LPost, LSentinel, LWritten, LWriteFails, LDrain, LTail, LCleanup, Here, rvars
    <2> QED
      BY <1>1, <2>1 DEF StageInv
  <1>3. AheadInv' /\ LoopEndsWhole'
    BY <1>2 DEF AheadInv, LoopEndsWhole, RBefore
  <1>4. CASE LStall \/ LDrain
    <2>1. CASE UNCHANGED <<cq, bitmap, mem, wr>>
      BY <1>3, <2>1, DropMarks
    <2>2. CASE LStall
      BY <1>3, <2>2, LoopbackPoll DEF LStall
    <2>3. CASE LDrain /\ ~BitmapAllComplete(bitmap)
      BY <1>3, <2>3, LoopbackPoll DEF LDrain
    <2>4. CASE LDrain /\ BitmapAllComplete(bitmap)
      BY <2>1, <2>4 DEF LDrain
    <2> QED
      BY <1>4, <2>2, <2>3, <2>4
  <1>5. CASE LPost \/ LSentinel
    <2>1. UNCHANGED <<cq, bitmap, mem>>
      BY <1>5 DEF LPost, LSentinel
    <2>2. CASE UNCHANGED wr
      BY <1>3, <2>1, <2>2, DropMarks
    <2>3. CASE \/ wr' = [imm |-> ImmOf(idx), off |-> idx, st |-> "posted"]
               \/ idx = Total /\ wr' = [imm |-> Sentinel, off |-> 0, st |-> "posted"]
      BY <1>3, <2>1, <2>3, PostMarks
    <2> QED
      BY <1>5, <2>2, <2>3 DEF LPost, LSentinel
  <1>6. CASE \/ LSetupSource \/ LSetupDestination \/ LPrepost \/ LReplenish \/ LWritten
             \/ LWriteFails \/ LTail \/ LCleanup
    <2>1. /\ UNCHANGED <<bitmap, mem>> /\ (wr' = wr \/ wr' = NoWr)
          /\ cq' = cq \/ cq' = <<>> \/ (cq # <<>> /\ cq' = Tail(cq))
      BY <1>6 DEF LSetupSource, LSetupDestination, SAcquire, LPrepost, LReplenish, LWritten,
                  LWriteFails, LTail, LCleanup, rvars
    <2> QED
      BY <1>3, <2>1, DropMarks
  <1> QED
    BY <1>4, <1>5, <1>6 DEF LNext

(* The sender in --loopback mode: its first transfer.                      *)
LEMMA LoopbackFirst ==
    ASSUME Chunks < BitmapBits, FirstInv, SetupInv, FirstTransferDrained, MarkInv, SKinds, RKinds,
           SentInv, WrInv, StageInv, SHeld, LNext, UNCHANGED <<mode, faulty>>
    PROVE  FirstInv' /\ SetupInv' /\ FirstTransferDrained'
  <1>0. iter \in Nat /\ mode = "loopback" /\ idx \in Nat /\ Total \in Nat \ {0}
    <2>1. mode = "loopback"
      BY DEF SHeld, LNext, LSetupSource, LSetupDestination, SAcquire, LPrepost, LStall, LReplenish,
           LPost, LSentinel, LWritten, LWriteFails, LDrain, LTail, LCleanup, PeerPcs
    <2>2. iter \in Nat /\ idx \in Nat
      BY SizesAssumption, TotalType DEF SKinds, SentInv
    <2> QED
      BY <2>1, <2>2, TotalType
  <1>1. ASSUME sp' \in Ended PROVE FirstInv' /\ SetupInv' /\ FirstTransferDrained'
    BY <1>1 DEF FirstInv, SetupInv, FirstTransferDrained, Ended
  <1>2. ASSUME SFail PROVE FirstInv' /\ SetupInv' /\ FirstTransferDrained'
    <2>1. sp' \in Ended
      BY <1>0, <1>2 DEF SFail, Ended
    <2> QED
      BY <1>1, <2>1
  <1>3. ASSUME sp' \notin {"dbuf", "dmr", "l_prepost"} PROVE SetupInv' /\ FirstTransferDrained'
    BY <1>3 DEF SetupInv, FirstTransferDrained
  <1>4. CASE LSetupSource \/ LSetupDestination
    <2>1. CASE sp \in {"rdma", "src", "mr", "dbuf", "dmr"} /\ UNCHANGED <<idx, iter>>
               /\ sp' \in {"src", "mr", "dbuf", "dmr", "l_prepost"}
      <3>1. UNCHANGED <<cq, bitmap, mem>> /\ iter = 0
        BY <1>4, <2>1
           DEF LSetupSource, LSetupDestination, SAcquire, rvars, SetupInv, StageInv, Setup
      <3>2. FirstInv'
        BY <2>1, <3>1, QuietFirst DEF Ended
      <3> QED
        BY <1>0, <2>1, <3>1, <3>2 DEF SetupInv, FirstTransferDrained
    <2> QED
      BY <1>2, <1>4, <2>1 DEF LSetupSource, LSetupDestination, SAcquire
  <1>5. CASE LPrepost \/ LReplenish \/ LPost \/ LSentinel
    <2>1. UNCHANGED <<cq, bitmap, mem>> /\ sp \in {"l_prepost", "l_replenish", "l_loop"}
      BY <1>5 DEF LPrepost, LReplenish, LPost, LSentinel
    <2>2. CASE UNCHANGED <<idx, iter>> /\ sp' \in {"l_loop", "l_writing"}
      BY <1>3, <2>1, <2>2, QuietFirst DEF Ended
    <2> QED
      BY <1>2, <1>5, <2>2 DEF LPrepost, LReplenish, LPost, LSentinel
  <1>6. CASE LStall
    <2>1. sp = "l_loop" /\ sp \notin Ended /\ UNCHANGED mem
      BY <1>6 DEF LStall, Ended
    <2>2. CASE cq # <<>> /\ cq' = Tail(cq) /\ sp' = "l_replenish" /\ UNCHANGED <<idx, iter>>
      <3>1. CASE iter # 0
        BY <1>3, <2>2, <3>1 DEF FirstInv
      <3>2. CASE iter = 0
        <4>1. Head(cq) # Sentinel
          BY <1>0, <2>1, <2>2, <3>2, SentinelFirst
        <4>2. bitmap' = BitmapSet(bitmap, ImmLayer(Head(cq)), ImmChunk(Head(cq)))
          BY <1>6, <2>2, <4>1 DEF LStall, LPollAndTrack, SFail
        <4>3. FirstInv'
          BY <2>1, <2>2, <4>1, <4>2, PollFirst DEF Ended
        <4> QED
          BY <1>3, <2>2, <4>3
      <3> QED
        BY <3>1, <3>2
    <2> QED
      BY <1>2, <1>6, <2>2 DEF LStall, LPollAndTrack
  <1>7. CASE LWritten
    <2>1. /\ sp = "l_writing" /\ wr.st = "acked" /\ UNCHANGED <<iter, cq, bitmap, mem>>
          /\ sp' \in {"l_drain", "l_loop"}
          /\ IF wr.imm = Sentinel THEN sp' = "l_drain" /\ idx' = idx
                                  ELSE sp' = "l_loop" /\ idx' = idx + 1
      BY <1>7 DEF LWritten
    <2>2. ASSUME iter = 0 PROVE FirstInv'
      <3>1. /\ \A i \in mem : i <= idx /\ i < Total
            /\ \A j, k \in 1..Len(cq) : cq[j] = cq[k] => j = k
            /\ \A k \in 1..Len(cq) : \A i \in AllChunks : cq[k] = ImmOf(i) => ~Marked(bitmap, i)
            /\ \A k \in 1..Len(cq) : cq[k] = Sentinel => k = Len(cq) /\ idx = Total
        <4>1. ASSUME NEW i \in mem PROVE i <= idx /\ i < Total
          <5>1. i \in Int /\ i < Total
            BY <1>0 DEF SentInv
          <5>2. i < idx \/ i = idx
            BY <1>0, <2>1, <2>2 DEF FirstInv, Ended
          <5> QED
            BY <1>0, <5>1, <5>2
        <4> QED
          BY <1>0, <2>1, <2>2, <4>1 DEF FirstInv, Ended
      <3>2. CASE wr.imm = Sentinel
        <4>1. idx = Total
          <5>1. ASSUME idx < Total, wr.imm = ImmOf(idx) PROVE FALSE
            <6>1. idx \in 0..(Total - 1)
              BY <1>0, <5>1
            <6> QED
              BY <3>2, <5>1, <6>1, SentinelIsNoChunk
          <5> QED
            BY <2>1, <5>1 DEF WrInv
        <4>2. \A i \in mem' : i < idx'
          BY <2>1, <3>1, <3>2, <4>1
        <4> QED
          BY <2>1, <3>1, <3>2, <4>1, <4>2 DEF FirstInv
      <3>3. CASE wr.imm # Sentinel
        <4>1. idx # Total
          BY <1>0, <2>1, <3>3 DEF WrInv
        <4>2. \A i \in mem' : i < idx'
          <5> SUFFICES ASSUME NEW i \in mem PROVE i < idx + 1
            BY <2>1, <3>3
          <5>1. i \in Int /\ i <= idx
            BY <1>0, <3>1 DEF SentInv
          <5> QED
            BY <1>0, <5>1
        <4> QED
          BY <2>1, <3>1, <3>3, <4>1, <4>2 DEF FirstInv
      <3> QED
        BY <3>2, <3>3
    <2>3. CASE iter # 0
      BY <1>3, <2>1, <2>3 DEF FirstInv
    <2> QED
      BY <1>3, <2>1, <2>2, <2>3
  <1>8. CASE LWriteFails
    BY <1>2, <1>8 DEF LWriteFails
  <1>9. CASE LDrain
    <2>1. sp = "l_drain" /\ sp \notin Ended /\ UNCHANGED mem
      BY <1>9 DEF LDrain, Ended
    <2>2. CASE SFail
      BY <1>2, <2>2
    <2>3. CASE iter # 0 /\ UNCHANGED iter /\ sp' \in {"l_tail", "l_drain"}
      BY <1>3, <2>3 DEF FirstInv
    <2>4. CASE /\ iter = 0 /\ BitmapAllComplete(bitmap) /\ sp' = "l_tail"
               /\ UNCHANGED <<idx, iter, cq, bitmap>>
      <3>1. Len(cq) <= 1
        BY <1>0, <2>1, <2>4, DrainedFirst
      <3>2. FirstInv'
        BY <1>0, <2>1, <2>4, <3>1 DEF FirstInv
      <3> QED
        BY <1>3, <2>4, <3>2
    <2>5. CASE /\ iter = 0 /\ cq # <<>> /\ cq' = Tail(cq) /\ UNCHANGED <<idx, iter>>
               /\ Head(cq) = Sentinel /\ sp' = "l_tail" /\ UNCHANGED bitmap
      <3>1. Len(cq') = 0
        BY <1>0, <2>1, <2>5, SentinelFirst
      <3>2. 1..Len(cq') = {} /\ Len(cq') <= 1
        BY <3>1
      <3>3. \A i \in mem' : i < idx'
        BY <1>0, <2>1, <2>5 DEF FirstInv
      <3>4. FirstInv'
        BY <3>2, <3>3 DEF FirstInv
      <3> QED
        BY <1>3, <2>5, <3>4
    <2>6. CASE /\ iter = 0 /\ cq # <<>> /\ cq' = Tail(cq) /\ UNCHANGED <<idx, iter>>
               /\ Head(cq) # Sentinel /\ sp' = "l_drain"
               /\ bitmap' = BitmapSet(bitmap, ImmLayer(Head(cq)), ImmChunk(Head(cq)))
      <3>1. FirstInv'
        BY <2>1, <2>6, PollFirst
      <3> QED
        BY <1>3, <2>6, <3>1
    <2> QED
      BY <1>9, <2>2, <2>3, <2>4, <2>5, <2>6 DEF LDrain, LPollAndTrack
  <1>10. CASE LTail
    <2>1. /\ sp = "l_tail" /\ sp \notin Ended /\ iter' = iter + 1
          /\ cq' = IF cq = <<>> THEN cq ELSE Tail(cq)
          /\ sp' \in {"l_prepost", "l_out"}
      BY <1>10 DEF LTail, Ended
    <2>2. iter' # 0
      BY <1>0, <2>1
    <2>3. ASSUME iter' = 1 PROVE cq' = <<>>
      <3>1. iter = 0
        BY <1>0, <2>1, <2>3
      <3>2. Len(cq) <= 1
        BY <1>0, <2>1, <3>1 DEF FirstInv
      <3>3. CASE cq = <<>>
        BY <2>1, <3>3
      <3>4. CASE cq # <<>>
        <4>1. Len(cq) = 1
          <5>1. Len(cq) \in Nat /\ Len(cq) >= 1
            BY <3>4, TailOfQueue DEF RKinds
          <5>2. PICK n \in Nat : n = Len(cq)
            BY <5>1
          <5>3. n >= 1 /\ n <= 1
            BY <3>2, <5>1, <5>2
          <5>4. n = 1
            BY <5>3
          <5> QED
            BY <5>2, <5>4
        <4>2. cq' = Tail(cq) /\ cq \in Seq(Int)
          BY <2>1, <3>4 DEF RKinds
        <4> QED
          BY <4>1, <4>2
      <3> QED
        BY <3>3, <3>4
    <2> QED
      BY <2>1, <2>2, <2>3 DEF FirstInv, SetupInv, FirstTransferDrained
  <1>11. CASE LCleanup
    <2>1. sp' \in Ended
      BY <1>11 DEF LCleanup, Ended
    <2> QED
      BY <1>1, <2>1
  <1> QED
    BY <1>4, <1>5, <1>6, <1>7, <1>8, <1>9, <1>10, <1>11 DEF LNext

(* A delivery in the first loopback transfer is the first of its chunk.    *)
LEMMA FabricFirst ==
    ASSUME FirstInv, SetupInv, FirstTransferDrained, MarkInv, RKinds, SentInv, WrInv, StageInv,
           SHeld, Deliver \/ RetriesExhausted, UNCHANGED <<mode, faulty>>
    PROVE  FirstInv' /\ SetupInv' /\ FirstTransferDrained'
  <1>1. UNCHANGED <<sp, idx, iter>> /\ wr.st = "posted" /\ sp \in Writing \cup Ended
    BY DEF Deliver, RetriesExhausted, svars, StageInv
  <1>2. SetupInv' /\ FirstTransferDrained'
    BY <1>1 DEF SetupInv, FirstTransferDrained, Writing, Ended
  <1>3. ASSUME mode = "loopback", iter = 0, sp \notin Ended PROVE FirstInv'
    <2>1. sp = "l_writing"
      BY <1>1, <1>3 DEF SHeld, Writing, LoopbackPcs
    <2>2. /\ \A i \in mem : i < idx
          /\ \A j, k \in 1..Len(cq) : cq[j] = cq[k] => j = k
          /\ \A k \in 1..Len(cq) : \A i \in AllChunks : cq[k] = ImmOf(i) => ~Marked(bitmap, i)
          /\ \A k \in 1..Len(cq) : cq[k] # Sentinel
      BY <1>1, <1>3, <2>1 DEF FirstInv
    <2>3. idx \in Nat /\ Total \in Nat /\ mem \subseteq AllChunks /\ Len(cq) \in Nat
          /\ cq \in Seq(Int) /\ wr.off \in AllChunks
      BY TotalType DEF SentInv, RKinds, AllChunks, WrInv
    <2>4. CASE RetriesExhausted
      <3>1. UNCHANGED <<cq, bitmap>> /\ wr'.st = "error" /\ mem' \in {mem, mem \cup {wr.off}}
        BY <2>4 DEF RetriesExhausted, WrInv
      <3>2. wr.off < idx \/ wr.off = idx \/ mem = AllChunks
        BY <1>1, <2>1, <2>3 DEF WrInv, MarkInv, AllChunks
      <3>3. \A i \in mem' : i < idx \/ i = idx
        BY <2>2, <2>3, <3>1, <3>2
      <3> QED
        BY <1>1, <2>1, <2>2, <3>1, <3>3 DEF FirstInv
    <2>5. CASE Deliver
      <3>1. mem' = mem \cup {wr.off} /\ bitmap' = bitmap /\ wr'.st = "acked"
        BY <2>5 DEF Deliver, WrInv
      <3>2. Sentinel \in Int
        BY SizesAssumption DEF Sentinel
      <3>3. CASE idx < Total /\ wr.imm = ImmOf(idx) /\ wr.off = idx
        <4>1. idx \in AllChunks
          BY <2>3, <3>3
        <4>2. wr.imm \in Int /\ wr.imm # Sentinel
          BY <3>3, <4>1, ChunkIndex, SentinelIsNoChunk DEF AllChunks
        <4>3. /\ Len(cq') = Len(cq) + 1 /\ cq'[Len(cq) + 1] = wr.imm
              /\ \A k \in 1..Len(cq) : cq'[k] = cq[k]
          BY <2>3, <2>5, <4>2 DEF Deliver
        <4>4. idx \notin mem
          BY <2>2, <2>3
        <4>5. ASSUME NEW k \in 1..Len(cq) PROVE cq[k] # wr.imm
          <5>1. PICK m \in mem : cq[k] = ImmOf(m)
            BY <2>2 DEF MarkInv
          <5>2. m \in AllChunks /\ m # idx
            BY <2>3, <4>4, <5>1
          <5> QED
            BY <3>3, <4>1, <5>1, <5>2, ImmInjective
        <4>6. \A k \in 1..Len(cq') : k \in 1..Len(cq) \/ k = Len(cq) + 1
          BY <2>3, <4>3
        <4>7. \A j, k \in 1..Len(cq') : cq'[j] = cq'[k] => j = k
          BY <2>2, <4>3, <4>5, <4>6
        <4>8. ASSUME NEW k \in 1..Len(cq'), NEW i \in AllChunks, cq'[k] = ImmOf(i)
              PROVE  ~Marked(bitmap', i)
          <5>1. CASE k \in 1..Len(cq)
            BY <2>2, <3>1, <4>3, <4>8, <5>1
          <5>2. CASE k = Len(cq) + 1
            <6>1. i = idx
              BY <3>3, <4>1, <4>3, <4>8, <5>2, ImmInjective
            <6> QED
              BY <3>1, <4>1, <4>4, <6>1 DEF MarkInv
          <5> QED
            BY <4>6, <5>1, <5>2
        <4>9. \A k \in 1..Len(cq') : cq'[k] # Sentinel
          BY <2>2, <4>2, <4>3, <4>6
        <4>10. \A i \in mem' : i < idx' \/ (i = idx' /\ sp' = "l_writing" /\ wr'.st = "acked")
          BY <1>1, <2>1, <2>2, <3>1, <3>3
        <4> QED
          BY <1>1, <2>1, <4>7, <4>8, <4>9, <4>10 DEF FirstInv
      <3>4. CASE idx = Total /\ wr.imm = Sentinel
        <4>1. /\ Len(cq') = Len(cq) + 1 /\ cq'[Len(cq) + 1] = Sentinel
              /\ \A k \in 1..Len(cq) : cq'[k] = cq[k]
          BY <2>3, <2>5, <3>2, <3>4 DEF Deliver
        <4>2. \A k \in 1..Len(cq') : k \in 1..Len(cq) \/ k = Len(cq) + 1
          BY <2>3, <4>1
        <4>3. \A j, k \in 1..Len(cq') : cq'[j] = cq'[k] => j = k
          BY <2>2, <4>1, <4>2
        <4>4. ASSUME NEW k \in 1..Len(cq'), NEW i \in AllChunks, cq'[k] = ImmOf(i)
              PROVE  ~Marked(bitmap', i)
          <5>1. k \in 1..Len(cq)
            BY <4>1, <4>2, <4>4, SentinelIsNoChunk DEF AllChunks
          <5> QED
            BY <2>2, <3>1, <4>1, <4>4, <5>1
        <4>5. ASSUME NEW k \in 1..Len(cq'), cq'[k] = Sentinel
              PROVE  k = Len(cq') /\ sp' = "l_writing" /\ idx' = Total /\ wr'.st = "acked"
          BY <1>1, <2>1, <2>2, <3>1, <3>4, <4>1, <4>2, <4>5
        <4>6. \A i \in mem' : i < idx'
          <5>1. wr.off < idx
            BY <2>3, <3>4 DEF AllChunks
          <5> QED
            BY <1>1, <2>2, <3>1, <5>1
        <4> QED
          BY <1>1, <2>1, <4>3, <4>4, <4>5, <4>6 DEF FirstInv
      <3> QED
        BY <2>1, <3>3, <3>4 DEF WrInv
    <2> QED
      BY <2>4, <2>5
  <1> QED
    BY <1>1, <1>2, <1>3 DEF FirstInv

-----------------------------------------------------------------------------
\* The transfer is safe

(* The actions of kvcache_sender and kvcache_receiver in --peer mode are   *)
(* those of two machines.                                                  *)
LEMMA PeerActions ==
    ASSUME SHeld, StageInv, SNext \/ RNext
    PROVE  mode = "peer"
  <1>1. CASE SNext
    BY <1>1 DEF SHeld, LoopbackPcs, SNext, SSetup, STcpConnect, SSendMeta, SRecvMeta,
                SConnectPeer, SAwaitReady, SStall, SNoStall, SDrainCredits, SPost, SWritten,
                SWriteFails, SAwaitDone, SCloseTcp, SDestroyPeer, SRelease
  <1>2. CASE RNext
    <2>1. rp # "exited"
      BY <1>2 DEF RNext, RAcquire, RAcceptFails, RRecvMeta, RSendMeta, RConnectPeer, RPrepost, RSendReady, RLoop,
             RPollTimeout, RReplenish, RSendCredit, RPollSentinel, RSendDone, RVerify,
             RDrain, RRelease
    <2> QED
      BY <2>1 DEF StageInv, SHeld
  <1> QED
    BY <1>1, <1>2

(* What only --loopback mode could disturb.                                *)
LEMMA PeerLeavesLoopback ==
    ASSUME mode = "peer", UNCHANGED mode, SHeld'
    PROVE  LCreditInv' /\ FirstInv' /\ SetupInv' /\ FirstTransferDrained'
  <1>1. mode' = "peer" /\ sp' \in PeerPcs
    BY DEF SHeld
  <1> QED
    BY <1>1 DEF LCreditInv, FirstInv, SetupInv, FirstTransferDrained, PeerPcs

(* Nothing is posted, credited or marked at the start.                     *)
LEMMA InitTInv == Init => TInv
  <1> SUFFICES ASSUME Init PROVE TInv
    OBVIOUS
  <1>0. /\ sp = "rdma" /\ iter = 0 /\ idx = 0 /\ credits = 0 /\ posted = 0 /\ sret = 0
        /\ rret = 0 /\ cq = <<>> /\ to_s = <<>> /\ mem = {} /\ meta = {} /\ sres = {}
        /\ wr.st = "none" /\ rp \in {"rdma", "exited"} /\ (mode = "loopback" => rp = "exited")
        /\ faulty \in BOOLEAN /\ mode \in {"peer", "loopback"}
    BY DEF Init, NoWr
  <1>1. KInv
    BY InitKInv
  <1>2. SKinds
    BY <1>0, SizesAssumption DEF SKinds
  <1>3. RKinds
    <2>1. cq \in Seq(Int) /\ to_s \in Seq({"ready", "credit", "done", "lost"})
      BY <1>0
    <2> QED
      BY <1>0, <2>1 DEF RKinds, RBefore, RCleanup
  <1>4. StageInv
    BY <1>0 DEF StageInv, Writing, Ended, Setup, Joined, Sending, RBefore, RCleanup
  <1>5. RecvInv
    <2>1. 0 \in 0..PeerRecvWr /\ 0 \in 0..(Window + Headroom)
      BY SizesAssumption
    <2> QED
      BY <1>0, <2>1 DEF RecvInv, Receiving
  <1>6. CreditInv /\ LCreditInv /\ SetupInv
    BY <1>0 DEF CreditInv, LCreditInv, SetupInv, Sending
  <1>7. MarkInv
    <2>1. bitmap = [l \in 0..(Layers - 1) |-> {}]
      BY DEF Init
    <2>2. bitmap \in BitmapType
      BY <2>1 DEF BitmapType
    <2>3. ASSUME NEW i \in AllChunks PROVE ~Marked(bitmap, i)
      <3>1. i \div Chunks \in 0..(Layers - 1)
        BY ChunkIndex
      <3> QED
        BY <2>1, <3>1 DEF Marked
    <2>4. 1..Len(cq) = {}
      BY <1>0
    <2> QED
      BY <1>0, <2>2, <2>3, <2>4 DEF MarkInv
  <1>8. AheadInv
    BY <1>0 DEF AheadInv
  <1>9. FirstInv
    <2>1. 1..Len(cq) = {}
      BY <1>0
    <2> QED
      BY <1>0, <2>1 DEF FirstInv
  <1>10. WriteFindsReceive /\ LoopEndsWhole /\ FirstTransferDrained
    BY <1>0 DEF WriteFindsReceive, LoopEndsWhole, FirstTransferDrained
  <1> QED
    BY <1>1, <1>2, <1>3, <1>4, <1>5, <1>6, <1>7, <1>8, <1>9, <1>10 DEF TInv

(* Every step of either program or the fabric keeps the invariant of the   *)
(* transfer, for a layer whose chunks one word of the bitmap can record.   *)
LEMMA StepTInv ==
    ASSUME Chunks < BitmapBits, TInv, [Next]_vars
    PROVE  TInv'
  <1>1. /\ KInv /\ SHeld /\ RHeld /\ WrInv /\ SentInv /\ SKinds /\ RKinds /\ StageInv /\ RecvInv
        /\ CreditInv /\ LCreditInv /\ MarkInv /\ AheadInv /\ FirstInv /\ SetupInv
        /\ WriteFindsReceive /\ LoopEndsWhole /\ FirstTransferDrained
    BY DEF TInv, KInv
  <1>2. KInv' /\ SHeld'
    BY <1>1, StepKInv DEF KInv
  <1>3. CASE Sender
    <2>0. UNCHANGED <<mode, faulty>>
      BY <1>3 DEF Sender
    <2>1. CASE SNext
      <3>1. SKinds' /\ RKinds'
        BY <1>1, <2>0, <2>1, SenderKinds
      <3>2. StageInv'
        BY <1>1, <2>0, <2>1, SenderStage
      <3>3. RecvInv'
        BY <1>1, <2>0, <2>1, SenderRecvs
      <3>4. CreditInv'
        BY <1>1, <2>0, <2>1, SenderCredits
      <3>5. WriteFindsReceive'
        BY <1>1, <2>0, <2>1, SenderFindsReceive
      <3>6. MarkInv' /\ AheadInv' /\ LoopEndsWhole'
        BY <1>1, <2>0, <2>1, SenderMarks
      <3>7. LCreditInv' /\ FirstInv' /\ SetupInv' /\ FirstTransferDrained'
        BY <1>1, <1>2, <2>0, <2>1, PeerActions, PeerLeavesLoopback
      <3> QED
        BY <1>2, <3>1, <3>2, <3>3, <3>4, <3>5, <3>6, <3>7 DEF TInv
    <2>2. CASE LNext
      <3>1. SKinds' /\ RKinds'
        BY <1>1, <2>0, <2>2, LoopbackKinds
      <3>2. StageInv'
        BY <1>1, <2>0, <2>2, LoopbackStage
      <3>3. RecvInv' /\ LCreditInv' /\ WriteFindsReceive' /\ CreditInv'
        BY <1>1, <2>0, <2>2, LoopbackCredits
      <3>4. MarkInv' /\ AheadInv' /\ LoopEndsWhole'
        BY <1>1, <2>0, <2>2, LoopbackMarks
      <3>5. FirstInv' /\ SetupInv' /\ FirstTransferDrained'
        BY <1>1, <2>0, <2>2, LoopbackFirst
      <3> QED
        BY <1>2, <3>1, <3>2, <3>3, <3>4, <3>5 DEF TInv
    <2> QED
      BY <1>3, <2>1, <2>2 DEF Sender
  <1>4. CASE Receiver
    <2>1. RNext /\ UNCHANGED <<mode, faulty>>
      BY <1>4 DEF Receiver
    <2>2. UNCHANGED <<svars, wr>>
      BY <2>1 DEF RNext, RAcquire, RAcceptFails, RRecvMeta, RSendMeta, RConnectPeer, RPrepost, RSendReady, RLoop,
             RPollTimeout, RReplenish, RSendCredit, RPollSentinel, RSendDone, RVerify,
             RDrain, RRelease
    <2>3. SKinds' /\ RKinds'
      BY <1>1, <2>1, OthersKinds
    <2>4. StageInv'
      BY <1>1, <2>1, <2>2, ReceiverStage
    <2>5. RecvInv' /\ CreditInv' /\ WriteFindsReceive'
      BY <1>1, <2>1, <2>2, ReceiverCredits
    <2>6. MarkInv' /\ AheadInv' /\ LoopEndsWhole'
      BY <1>1, <2>1, <2>2, ReceiverMarks
    <2>7. LCreditInv' /\ FirstInv' /\ SetupInv' /\ FirstTransferDrained'
      BY <1>1, <1>2, <2>1, PeerActions, PeerLeavesLoopback
    <2> QED
      BY <1>2, <2>3, <2>4, <2>5, <2>6, <2>7 DEF TInv
  <1>5. CASE Fabric
    <2>1. (Deliver \/ RetriesExhausted) /\ UNCHANGED <<mode, faulty>>
      BY <1>5 DEF Fabric
    <2>2. SKinds' /\ RKinds'
      BY <1>1, <2>1, OthersKinds
    <2>3. StageInv'
      BY <1>1, <2>1, FabricStage
    <2>4. RecvInv' /\ CreditInv' /\ LCreditInv' /\ WriteFindsReceive'
      BY <1>1, <2>1, FabricCredits
    <2>5. MarkInv' /\ AheadInv' /\ LoopEndsWhole'
      BY <1>1, <2>1, FabricMarks
    <2>6. FirstInv' /\ SetupInv' /\ FirstTransferDrained'
      BY <1>1, <2>1, FabricFirst
    <2> QED
      BY <1>2, <2>2, <2>3, <2>4, <2>5, <2>6 DEF TInv
  <1>6. CASE UNCHANGED vars
    <2>1. /\ UNCHANGED <<mode, faulty, sp, idx, iter, credits, sres, sret, wr>>
          /\ UNCHANGED <<rp, posted, cq, bitmap, mem, rres, rret, to_s, meta>>
      BY <1>6 DEF vars, svars, rvars
    <2>2. SKinds' /\ RKinds'
      BY <1>1, <2>1 DEF SKinds, RKinds
    <2>3. StageInv' /\ RecvInv' /\ CreditInv' /\ LCreditInv' /\ SetupInv'
      BY <1>1, <2>1 DEF StageInv, RecvInv, Receiving, CreditInv, LCreditInv, SetupInv
    <2>4. MarkInv' /\ AheadInv' /\ FirstInv'
      BY <1>1, <2>1 DEF MarkInv, AheadInv, FirstInv
    <2>5. WriteFindsReceive' /\ LoopEndsWhole' /\ FirstTransferDrained'
      BY <1>1, <2>1 DEF WriteFindsReceive, Receiving, LoopEndsWhole, FirstTransferDrained
    <2> QED
      BY <1>2, <2>2, <2>3, <2>4, <2>5 DEF TInv
  <1> QED
    BY <1>3, <1>4, <1>5, <1>6 DEF Next, Finished

(* The invariant of the transfer, in both modes and for every window: the  *)
(* chunks of a layer must fit the mask of bitmap_layer_complete, whose     *)
(* shift by 64 would leave nothing to wait for (kvcache_common.h:743).     *)
THEOREM TransferInvariant == Chunks < BitmapBits => (Spec => []TInv)
  <1> SUFFICES ASSUME Chunks < BitmapBits PROVE Spec => []TInv
    OBVIOUS
  <1>1. TInv /\ [Next]_vars => TInv'
    BY StepTInv
  <1> QED
    BY <1>1, InitTInv, PTL DEF Spec

(* The transfer is safe: a chunk on the wire finds a posted receive, the   *)
(* receive loop ends only with every chunk in the buffer and marked, and   *)
(* the first loopback transfer leaves no completion to the next.           *)
THEOREM TransferIsSafe == Chunks < BitmapBits => (Spec => []TransferSafe)
  <1> SUFFICES ASSUME Chunks < BitmapBits PROVE Spec => []TransferSafe
    OBVIOUS
  <1>1. TInv => TransferSafe
    <2> SUFFICES ASSUME TInv PROVE TransferSafe
      OBVIOUS
    <2>1. /\ SHeld /\ RHeld /\ WrInv /\ SentInv /\ SKinds /\ RKinds /\ RecvInv /\ MarkInv
          /\ WriteFindsReceive /\ LoopEndsWhole /\ FirstTransferDrained
      BY DEF TInv, KInv
    <2>2. /\ mode \in {"peer", "loopback"} /\ sp \in PeerPcs \cup LoopbackPcs
          /\ sres \subseteq {"rdma", "src", "mr", "peer", "tcp", "qp", "dbuf", "dmr"}
      BY <2>1 DEF SHeld
    <2>3. /\ rp \in RBefore \cup RCleanup
                      \cup {"loop", "replenish", "credit", "tail", "done", "verify"}
          /\ rret \in {0, 1} /\ meta \subseteq {"s", "r"}
          /\ to_s \in Seq({"ready", "credit", "done", "lost"})
      BY <2>1 DEF RKinds
    <2>4. /\ sret \in {0, 1} /\ iter \in 0..Iterations /\ credits \in Int
          /\ wr.st \in {"none", "posted", "acked", "error"} /\ faulty \in BOOLEAN
      BY <2>1 DEF SKinds
    <2>5. /\ posted \in 0..(IF mode = "peer" THEN PeerRecvWr ELSE Window + Headroom)
          /\ bitmap \in [0..(Layers - 1) -> SUBSET (0..(Chunks - 1))]
          /\ idx \in 0..Total /\ mem \subseteq 0..(Total - 1)
          /\ rres \subseteq {"rdma", "buf", "mr", "peer", "tcp", "qp"}
      BY <2>1 DEF RecvInv, MarkInv, BitmapType, SentInv, RHeld
    <2>6. TypeOK
      BY <2>2, <2>3, <2>4, <2>5 DEF TypeOK, PeerPcs, LoopbackPcs, RBefore, RCleanup
    <2> QED
      BY <2>1, <2>6 DEF TransferSafe
  <1> QED
    BY <1>1, TransferInvariant, PTL

=============================================================================
