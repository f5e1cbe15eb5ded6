-------------------------------- MODULE Peer --------------------------------
(***************************************************************************)
(* The peer queue pair between two machines: RDMA_INIT_PEER, CONNECT_PEER, *)
(* DESTROY_PEER, REMOTE_SEND, REMOTE_RECV and, with use_peer_qp set, WRITE *)
(* WITH IMMEDIATE, POST_RECV and POLL_RECV (driver/rdma_engine.c and their *)
(* ioctls in driver/main.c).                                               *)
(*                                                                         *)
(* One CQ takes the completions of both directions, and every call takes   *)
(* the next one for its own.  A call holds the read side of rdma_sem from  *)
(* its post to the end of its poll, up to 10 or 30 seconds; DESTROY_PEER   *)
(* takes the write side.  The module has the control calls of a machine    *)
(* one after the other (OneControlThread); the data calls come from any    *)
(* number of threads.  The RDMA context is up and the regions exist: the   *)
(* module Rdma has their life.                                             *)
(***************************************************************************)
EXTENDS Integers, Sequences, FiniteSets

CONSTANTS Machines, Threads,
          Home,          \* the machine of each thread
          Control,       \* the threads that initialise, connect and destroy
          Calls,         \* the data calls each thread makes
          Qps,           \* queue pairs, each with its CQ, in the order of creation
          Site,          \* the machine of each queue pair
          MaxWr,         \* max_send_wr and max_recv_wr
          MaxMsgs,       \* bound on the sends, and on the receives, of a queue pair
          None

ASSUME PeerAssumption ==
    /\ Home \in [Threads -> Machines] /\ Control \subseteq Threads
    /\ Calls \in [Threads -> SUBSET {"send", "write", "recv", "post", "poll"}]
    /\ Qps \subseteq Nat /\ Site \in [Qps -> Machines]
    /\ MaxWr \in Nat \ {0} /\ MaxMsgs \in Nat \ {0}
    /\ None \notin Nat /\ None \notin Machines

\* The control calls of a machine come from one thread, as in the programs of the repository.
\* The driver does not see to it: INIT_PEER tests and sets qp_peer under the read side of
\* rdma_sem, and of two that overlap one loses its queue pair and its CQ.
OneControlThread == \A t, u \in Control : Home[t] = Home[u] => t = u

VARIABLES
    qp_peer, cq_peer, peer_connected,   \* edev->rdma of each machine
    qps, cqs,        \* the queue pairs and CQs that exist
    st, dest,        \* the state of a queue pair and the remote one it is connected to
    sq, rq,          \* posted sends and receives, oldest first
    cqe,             \* completions in the CQ
    sent, posted,    \* sends and receives posted so far
    got,             \* sends of this queue pair the remote one has received
    pc, call,        \* where each thread is and what it waits for
    lied             \* a call alone on the CQ reported a success it did not have

ctxvars == <<qp_peer, cq_peer, peer_connected, qps, cqs, st, dest>>
wrvars == <<sq, rq, sent, posted, got>>
vars == <<ctxvars, wrvars, cqe, pc, call, lied>>

NoCall == [kind |-> "none", n |-> 0, quiet |-> FALSE]
Wc == [k : {"send", "recv"}, n : 1..MaxMsgs, ok : BOOLEAN]

TypeOK ==
    /\ qp_peer \in [Machines -> Qps \cup {None}] /\ cq_peer \in [Machines -> Qps \cup {None}]
    /\ peer_connected \in [Machines -> BOOLEAN]
    /\ qps \subseteq Qps /\ cqs \subseteq Qps
    /\ st \in [Qps -> {"new", "init", "rtr", "rts", "err", "dead"}]
    /\ dest \in [Qps -> Qps \cup {None}]
    /\ \A q \in Qps :
         /\ \A i \in DOMAIN sq[q] : sq[q][i] \in 1..MaxMsgs
         /\ \A i \in DOMAIN rq[q] : rq[q][i] \in 1..MaxMsgs
         /\ \A i \in DOMAIN cqe[q] : cqe[q][i] \in Wc
         /\ Len(sq[q]) <= MaxWr /\ Len(rq[q]) <= MaxWr
         /\ sent[q] \in 0..MaxMsgs /\ posted[q] \in 0..MaxMsgs /\ got[q] \in 0..sent[q]
    /\ pc \in [Threads -> {"idle", "init", "destroying", "polling"}]
    /\ \A t \in Threads : call[t].kind \in {"none", "send", "recv", "poll"}
    /\ lied \in BOOLEAN

Init ==
    /\ qp_peer = [m \in Machines |-> None] /\ cq_peer = [m \in Machines |-> None]
    /\ peer_connected = [m \in Machines |-> FALSE]
    /\ qps = {} /\ cqs = {}
    /\ st = [q \in Qps |-> "new"] /\ dest = [q \in Qps |-> None]
    /\ sq = [q \in Qps |-> <<>>] /\ rq = [q \in Qps |-> <<>>] /\ cqe = [q \in Qps |-> <<>>]
    /\ sent = [q \in Qps |-> 0] /\ posted = [q \in Qps |-> 0] /\ got = [q \in Qps |-> 0]
    /\ pc = [t \in Threads |-> "idle"]
    /\ call = [t \in Threads |-> NoCall]
    /\ lied = FALSE

Neighbours(t) == {u \in Threads : Home[u] = Home[t]}
Pollers(m) == {t \in Threads : Home[t] = m /\ pc[t] = "polling"}
\* The read side of rdma_sem: a waiting writer keeps new readers out.
ReadLock(t) == pc[t] = "idle" /\ \A u \in Neighbours(t) : pc[u] # "destroying"
Return(t) ==
    /\ pc' = [pc EXCEPT ![t] = "idle"]
    /\ call' = [call EXCEPT ![t] = NoCall]

-----------------------------------------------------------------------------
(* INIT_PEER, CONNECT_PEER and DESTROY_PEER.                               *)

InitCq(t) ==
    /\ t \in Control /\ ReadLock(t)
    /\ qp_peer[Home[t]] = None
    /\ \E q \in Qps :
         /\ Site[q] = Home[t] /\ st[q] = "new"
         /\ \A r \in Qps : Site[r] = Home[t] /\ r < q => st[r] # "new"
         /\ cqs' = cqs \cup {q}
         /\ cq_peer' = [cq_peer EXCEPT ![Home[t]] = q]
    /\ pc' = [pc EXCEPT ![t] = "init"]
    /\ UNCHANGED <<qp_peer, peer_connected, qps, st, dest, wrvars, cqe, call, lied>>

InitQp(t) ==
    /\ pc[t] = "init"
    /\ LET q == cq_peer[Home[t]] IN
         /\ qps' = qps \cup {q}
         /\ qp_peer' = [qp_peer EXCEPT ![Home[t]] = q]
         /\ st' = [st EXCEPT ![q] = "init"]
    /\ Return(t)
    /\ UNCHANGED <<lied, cq_peer, peer_connected, cqs, dest, wrvars, cqe>>

\* Mutant: a failing INIT_PEER leaves its CQ behind.
InitFailsKeepsCq(t) ==
    /\ pc[t] = "init"
    /\ cq_peer' = [cq_peer EXCEPT ![Home[t]] = None]
    /\ st' = [st EXCEPT ![cq_peer[Home[t]]] = "dead"]
    /\ Return(t)
    /\ UNCHANGED <<lied, qp_peer, peer_connected, qps, cqs, dest, wrvars, cqe>>

\* ib_create_qp, qp_to_init or rdma_get_gid_attr fails: QP and CQ are destroyed again.
InitFails(t) ==
    /\ pc[t] = "init"
    /\ cqs' = cqs \ {cq_peer[Home[t]]}
    /\ cq_peer' = [cq_peer EXCEPT ![Home[t]] = None]
    /\ st' = [st EXCEPT ![cq_peer[Home[t]]] = "dead"]
    /\ Return(t)
    /\ UNCHANGED <<lied, qp_peer, peer_connected, qps, dest, wrvars, cqe>>

\* The remote queue pair comes from the user, who has it from the other machine: it may be
\* gone by now.  When qp_to_rts fails the queue pair is left in RTR.
Connect(t, r, to) ==
    /\ t \in Control /\ ReadLock(t)
    /\ LET m == Home[t]
           q == qp_peer[m]
       IN  /\ q # None /\ st[q] = "init"
           /\ Site[r] # m /\ st[r] # "new"
           /\ st' = [st EXCEPT ![q] = to]
           /\ dest' = [dest EXCEPT ![q] = r]
           /\ peer_connected' = [peer_connected EXCEPT ![m] = to = "rts"]
    /\ UNCHANGED <<qp_peer, cq_peer, qps, cqs, wrvars, cqe, pc, call, lied>>

DestroyWaits(t) ==
    /\ t \in Control /\ ReadLock(t)
    /\ qp_peer[Home[t]] # None
    /\ pc' = [pc EXCEPT ![t] = "destroying"]
    /\ UNCHANGED <<ctxvars, wrvars, cqe, call, lied>>

\* Everything of the queue pair goes with it.
TeardownPeer(m) ==
    LET q == qp_peer[m] IN
    /\ qps' = qps \ {q} /\ cqs' = cqs \ {q}
    /\ st' = [st EXCEPT ![q] = "dead"]
    /\ sq' = [sq EXCEPT ![q] = <<>>] /\ rq' = [rq EXCEPT ![q] = <<>>]
    /\ cqe' = [cqe EXCEPT ![q] = <<>>]
    /\ dest' = [dest EXCEPT ![q] = None]
    /\ sent' = [sent EXCEPT ![q] = 0] /\ posted' = [posted EXCEPT ![q] = 0]
    /\ got' = [got EXCEPT ![q] = 0]
    /\ qp_peer' = [qp_peer EXCEPT ![m] = None] /\ cq_peer' = [cq_peer EXCEPT ![m] = None]

\* Mutant: the peer is torn down under the read side of rdma_sem.
DestroyUnlocked(t) ==
    /\ pc[t] = "destroying"
    /\ TeardownPeer(Home[t])
    /\ peer_connected' = [peer_connected EXCEPT ![Home[t]] = FALSE]
    /\ Return(t)
    /\ UNCHANGED lied

Destroy(t) ==
    /\ pc[t] = "destroying" /\ Pollers(Home[t]) = {}
    /\ TeardownPeer(Home[t])
    /\ peer_connected' = [peer_connected EXCEPT ![Home[t]] = FALSE]
    /\ Return(t)
    /\ UNCHANGED lied

-----------------------------------------------------------------------------
(* The calls that post work requests and poll the CQ.  "quiet" is not in   *)
(* the code: it says that nothing else was under way on the CQ during the  *)
(* call that the call could take for its own completion.                   *)

Quiet(t, kind) ==
    LET q == qp_peer[Home[t]] IN
    /\ Pollers(Home[t]) = {}
    /\ sq[q] = <<>> /\ \A i \in DOMAIN cqe[q] : kind = "poll" /\ cqe[q][i].k = "recv"
    /\ kind = "poll" \/ rq[q] = <<>>

\* The other calls of the machine are no longer alone on the CQ.
Waits(t, kind, n) ==
    /\ pc' = [pc EXCEPT ![t] = "polling"]
    /\ call' = [u \in Threads |->
                  IF u = t THEN [kind |-> kind, n |-> n, quiet |-> Quiet(t, kind)]
                  ELSE IF u \in Neighbours(t) THEN [call[u] EXCEPT !.quiet = FALSE]
                  ELSE call[u]]

Error(k, n) == [k |-> k, n |-> n, ok |-> FALSE]

\* A send of either kind is posted and waited for; one posted in ERR is flushed at once.
PostSend(t) ==
    LET q == qp_peer[Home[t]]
        n == sent[q] + 1
    IN  /\ n <= MaxMsgs /\ Len(sq[q]) < MaxWr
        /\ sent' = [sent EXCEPT ![q] = n]
        /\ IF st[q] = "err"
           THEN cqe' = [cqe EXCEPT ![q] = Append(@, Error("send", n))] /\ UNCHANGED sq
           ELSE sq' = [sq EXCEPT ![q] = Append(@, n)] /\ UNCHANGED cqe
        /\ Waits(t, "send", n)
        /\ UNCHANGED <<lied, ctxvars, rq, posted, got>>

\* rdma_engine_remote_send
RemoteSend(t) ==
    /\ "send" \in Calls[t] /\ ReadLock(t) /\ peer_connected[Home[t]]
    /\ PostSend(t)

\* rdma_engine_write_imm: it consumes a receive of the remote side as a send does.
WriteImm(t) ==
    /\ "write" \in Calls[t] /\ ReadLock(t) /\ peer_connected[Home[t]]
    /\ PostSend(t)

\* rdma_engine_post_recv on the peer queue pair.
PostReceive(q) ==
    /\ posted[q] < MaxMsgs /\ Len(rq[q]) < MaxWr
    /\ posted' = [posted EXCEPT ![q] = @ + 1]
    /\ IF st[q] = "err"
       THEN cqe' = [cqe EXCEPT ![q] = Append(@, Error("recv", posted[q] + 1))] /\ UNCHANGED rq
       ELSE rq' = [rq EXCEPT ![q] = Append(@, posted[q] + 1)] /\ UNCHANGED cqe
    /\ UNCHANGED <<lied, ctxvars, sq, sent, got>>

\* rdma_engine_remote_recv
RemoteRecv(t) ==
    /\ "recv" \in Calls[t] /\ ReadLock(t) /\ peer_connected[Home[t]]
    /\ LET q == qp_peer[Home[t]] IN PostReceive(q) /\ Waits(t, "recv", posted[q] + 1)

\* rdma_engine_writeimm_post_recv: the receive is left for a later POLL_RECV.
PostRecv(t) ==
    /\ "post" \in Calls[t] /\ ReadLock(t) /\ peer_connected[Home[t]]
    /\ PostReceive(qp_peer[Home[t]])
    /\ call' = [u \in Threads |-> IF u \in Neighbours(t) /\ call[u].kind # "poll"
                                  THEN [call[u] EXCEPT !.quiet = FALSE] ELSE call[u]]
    /\ UNCHANGED pc

\* rdma_engine_writeimm_poll_recv
PollRecv(t) ==
    /\ "poll" \in Calls[t] /\ ReadLock(t) /\ peer_connected[Home[t]]
    /\ Waits(t, "poll", 0)
    /\ UNCHANGED <<lied, ctxvars, wrvars, cqe>>

\* The completion is of the call's own work, and that work has been done.
Own(t, c) ==
    CASE call[t].kind = "send" -> c.ok /\ c.k = "send" /\ c.n = call[t].n
                                  /\ c.n <= got[qp_peer[Home[t]]]
      [] call[t].kind = "recv" -> c.ok /\ c.k = "recv" /\ c.n = call[t].n
      [] OTHER -> c.ok /\ c.k = "recv"

Lie(t, c) == call[t].quiet /\ ~Own(t, c)

\* Mutant: the status of the completion is not looked at.
PollGetsAnyStatus(t) ==
    /\ pc[t] = "polling"
    /\ LET q == cq_peer[Home[t]] IN
         /\ cqe[q] # <<>>
         /\ cqe' = [cqe EXCEPT ![q] = Tail(@)]
         /\ lied' = (lied \/ Lie(t, Head(cqe[q])))
         /\ Return(t)
    /\ UNCHANGED <<ctxvars, wrvars>>

\* The call takes the oldest completion, whoever it is of.
PollGets(t) ==
    /\ pc[t] = "polling"
    /\ LET q == cq_peer[Home[t]]
           c == Head(cqe[q])
       IN  /\ cqe[q] # <<>>
           /\ cqe' = [cqe EXCEPT ![q] = Tail(@)]
           /\ lied' = (lied \/ (c.ok /\ Lie(t, c)))
           /\ Return(t)
    /\ UNCHANGED <<ctxvars, wrvars>>

\* Mutant: the deadline is computed anew after every empty poll.
PollNeverTimesOut(t) ==
    /\ pc[t] = "polling" /\ cqe[cq_peer[Home[t]]] = <<>>
    /\ UNCHANGED vars

\* The deadline passes; the work request stays posted.
PollTimesOut(t) ==
    /\ pc[t] = "polling" /\ cqe[cq_peer[Home[t]]] = <<>>
    /\ Return(t)
    /\ UNCHANGED <<lied, ctxvars, wrvars, cqe>>

-----------------------------------------------------------------------------
(* The reliable connection.                                                *)

Joined(q, r) == /\ st[q] = "rts" /\ dest[q] = r
                /\ st[r] \in {"rtr", "rts"} /\ dest[r] = q

\* The oldest send not yet received takes the oldest receive; without one it waits (RNR).
Deliver(q, r) ==
    /\ Joined(q, r)
    /\ got[q] < sent[q] /\ \E i \in DOMAIN sq[q] : sq[q][i] = got[q] + 1
    /\ rq[r] # <<>>
    /\ got' = [got EXCEPT ![q] = @ + 1]
    /\ rq' = [rq EXCEPT ![r] = Tail(@)]
    /\ cqe' = [cqe EXCEPT ![r] = Append(@, [k |-> "recv", n |-> Head(rq[r]), ok |-> TRUE])]
    /\ UNCHANGED <<ctxvars, sq, sent, posted, pc, call, lied>>

Ack(q) ==
    /\ st[q] = "rts" /\ sq[q] # <<>> /\ Head(sq[q]) <= got[q]
    /\ sq' = [sq EXCEPT ![q] = Tail(@)]
    /\ cqe' = [cqe EXCEPT ![q] = Append(@, [k |-> "send", n |-> Head(sq[q]), ok |-> TRUE])]
    /\ UNCHANGED <<ctxvars, rq, sent, posted, got, pc, call, lied>>

\* The remote queue pair does not answer and the retries are exhausted, whether or not it
\* has received the sends whose acknowledgement is missing: the queue pair goes to ERR and its work requests are flushed.
RetryExceeded(q) ==
    /\ st[q] = "rts" /\ sq[q] # <<>> /\ ~Joined(q, dest[q])
    /\ st' = [st EXCEPT ![q] = "err"]
    /\ cqe' = [cqe EXCEPT ![q] = @ \o [i \in DOMAIN sq[q] |-> Error("send", sq[q][i])]
                                   \o [i \in DOMAIN rq[q] |-> Error("recv", rq[q][i])]]
    /\ sq' = [sq EXCEPT ![q] = <<>>] /\ rq' = [rq EXCEPT ![q] = <<>>]
    /\ UNCHANGED <<qp_peer, cq_peer, peer_connected, qps, cqs, dest, sent, posted, got,
                   pc, call, lied>>

-----------------------------------------------------------------------------
Steps(t) == InitQp(t) \/ InitFails(t) \/ Destroy(t) \/ PollGets(t) \/ PollTimesOut(t)

Next ==
    \/ \E t \in Threads :
         \/ InitCq(t) \/ DestroyWaits(t)
         \/ \E r \in Qps, to \in {"rtr", "rts"} : Connect(t, r, to)
         \/ RemoteSend(t) \/ WriteImm(t) \/ RemoteRecv(t) \/ PostRecv(t) \/ PollRecv(t)
         \/ Steps(t)
    \/ \E q \in Qps : Ack(q) \/ RetryExceeded(q) \/ \E r \in Qps : Deliver(q, r)

Spec == Init /\ [][Next]_vars /\ \A t \in Threads : WF_vars(Steps(t))

-----------------------------------------------------------------------------
(* Properties.                                                             *)

\* A call that polls the peer CQ for up to 30 s without any lock but the read side of
\* rdma_sem has the queue pair and the CQ it posted to until it returns.
ReadersKeepPeer ==
    \A t \in Threads : pc[t] = "polling" =>
        /\ qp_peer[Home[t]] \in qps /\ cq_peer[Home[t]] \in cqs

\* Outside INIT_PEER the queue pairs and CQs that exist are those the contexts name,
\* whatever failed on the way, when the control calls come from one thread per machine.
NothingLeaks ==
    \A m \in Machines : (\A t \in Threads : Home[t] = m => pc[t] # "init") =>
        /\ {q \in qps : Site[q] = m} = {qp_peer[m]} \ {None}
        /\ {q \in cqs : Site[q] = m} = {qp_peer[m]} \ {None}

\* peer_connected is the only thing the transfers test before they use qp_peer and cq_peer.
ConnectedHasPeer ==
    \A m \in Machines : peer_connected[m] =>
        qp_peer[m] # None /\ cq_peer[m] = qp_peer[m] /\ st[qp_peer[m]] \in {"rts", "err"}

\* A call that returns success although the completion it took was not its own, or not a
\* success, shared the CQ with another call or with work left by one that timed out; alone
\* on the CQ it tells the truth.
FalseOnlyIfShared == ~lied

\* DESTROY_PEER gets the write lock in the end: every poll it waits for has a deadline.
DestroyEnds ==
    \A t \in Threads : pc[t] = "destroying" ~> pc[t] = "idle"

\* The peer's resources through failing set-ups, breaks and reconnections of one control
\* thread per machine: none leaks, and peer_connected promises that they exist.
PeerSafe == TypeOK /\ NothingLeaks /\ ConnectedHasPeer
=============================================================================
