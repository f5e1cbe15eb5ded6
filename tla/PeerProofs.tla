----------------------------- MODULE PeerProofs -----------------------------
(***************************************************************************)
(* Proofs about Peer for every number of machines, threads, queue pairs    *)
(* and messages: no queue pair or CQ leaks or goes under a call that polls *)
(* it, and a call that is alone on the CQ reports the truth.               *)
(***************************************************************************)
EXTENDS Peer, SequenceTheorems, TLAPS

-----------------------------------------------------------------------------
\* The inductive invariant

CtxTypes ==
    /\ qp_peer \in [Machines -> Qps \cup {None}] /\ cq_peer \in [Machines -> Qps \cup {None}]
    /\ peer_connected \in [Machines -> BOOLEAN]
    /\ qps \subseteq Qps /\ cqs \subseteq Qps
    /\ st \in [Qps -> {"new", "init", "rtr", "rts", "err", "dead"}]
    /\ dest \in [Qps -> Qps \cup {None}]

WrTypes ==
    /\ sq \in [Qps -> Seq(1..MaxMsgs)] /\ rq \in [Qps -> Seq(1..MaxMsgs)]
    /\ cqe \in [Qps -> Seq(Wc)]
    /\ sent \in [Qps -> 0..MaxMsgs] /\ posted \in [Qps -> 0..MaxMsgs] /\ got \in [Qps -> 0..MaxMsgs]
    /\ \A q \in Qps : Len(sq[q]) <= MaxWr /\ Len(rq[q]) <= MaxWr /\ got[q] <= sent[q]

Call == [kind : {"none", "send", "recv", "poll"}, n : 0..MaxMsgs, quiet : BOOLEAN]

ThreadTypes ==
    /\ pc \in [Threads -> {"idle", "init", "destroying", "polling"}]
    /\ call \in [Threads -> Call]

(* The queue pairs and CQs that exist are those the contexts name.         *)
NamedExactly ==
    /\ \A q \in Qps : /\ q \in qps <=> qp_peer[Site[q]] = q
                      /\ q \in cqs <=> cq_peer[Site[q]] = q
    /\ \A m \in Machines : /\ qp_peer[m] # None => Site[qp_peer[m]] = m /\ cq_peer[m] = qp_peer[m]
                           /\ cq_peer[m] # None => Site[cq_peer[m]] = m

(* A CQ without its queue pair belongs to an INIT_PEER in progress.        *)
BareCq ==
    \A m \in Machines : qp_peer[m] = None /\ cq_peer[m] # None =>
        \E t \in Control : Home[t] = m /\ pc[t] = "init"

Connected ==
    \A m \in Machines : peer_connected[m] =>
        qp_peer[m] # None /\ st[qp_peer[m]] \in {"rts", "err"}

(* What each thread relies on between two of its steps.                    *)
Relies ==
    \A t \in Threads :
        /\ pc[t] \in {"init", "destroying"} => t \in Control
        /\ pc[t] = "init" => cq_peer[Home[t]] # None /\ qp_peer[Home[t]] = None
        /\ pc[t] = "destroying" => qp_peer[Home[t]] # None
        /\ pc[t] = "polling" => peer_connected[Home[t]]

CtxInv == OneControlThread /\ CtxTypes /\ ThreadTypes /\ NamedExactly /\ BareCq /\ Connected /\ Relies

(* The completions that a call alone on the CQ may find there.             *)
SendDone(n, g) == {c \in Wc : c.k = "send" /\ c.n = n /\ (c.ok => n <= g)}
RecvDone(n) == {c \in Wc : c.k = "recv" /\ c.n = n}
RecvWc == {c \in Wc : c.k = "recv"}

(* A call that is still alone finds nothing but its own work: its send and *)
(* no receive; its receive and no send; or, polling, receives.             *)
Alone(k, n, q) ==
    \/ /\ k = "send" /\ rq[q] = <<>>
       /\ sq[q] \in Seq({n}) /\ cqe[q] \in Seq(SendDone(n, got[q]))
    \/ /\ k = "recv" /\ sq[q] = <<>>
       /\ rq[q] \in Seq({n}) /\ cqe[q] \in Seq(RecvDone(n))
    \/ /\ k = "poll" /\ sq[q] = <<>>
       /\ cqe[q] \in Seq(RecvWc)

AloneInv ==
    \A t \in Threads : pc[t] = "polling" /\ call[t].quiet =>
        Alone(call[t].kind, call[t].n, qp_peer[Home[t]])

PInv == CtxInv /\ WrTypes /\ AloneInv /\ lied = FALSE

-----------------------------------------------------------------------------
\* Facts about the queues

(* What the assumptions on the constants say in the form the steps use.    *)
LEMMA ConstantFacts ==
    /\ None \notin Qps
    /\ \A q \in Qps : Site[q] \in Machines
    /\ \A t \in Threads : Home[t] \in Machines
    /\ Control \subseteq Threads
    /\ MaxMsgs \in Nat /\ MaxWr \in Nat
  BY PeerAssumption

(* A queue is empty exactly when its length is zero.                       *)
LEMMA EmptyFacts ==
    \A S : <<>> \in Seq(S) /\ \A s \in Seq(S) : (s = <<>> <=> Len(s) = 0) /\ Len(s) \in Nat
  BY EmptySeq, LenProperties

(* An append keeps the type of a queue and adds one to its length.         *)
LEMMA AppendFacts ==
    ASSUME NEW S, NEW s \in Seq(S), NEW e \in S
    PROVE  Append(s, e) \in Seq(S) /\ Len(Append(s, e)) = Len(s) + 1
  OBVIOUS

(* What a flush puts into the CQ: an error for every work request.         *)
LEMMA FlushFacts ==
    ASSUME NEW S, NEW T, NEW s \in Seq(T), NEW k, \A n \in T : Error(k, n) \in S
    PROVE  [i \in DOMAIN s |-> Error(k, s[i])] \in Seq(S)
  <1>1. Len(s) \in Nat /\ DOMAIN s = 1..Len(s) /\ \A i \in 1..Len(s) : s[i] \in T
    BY LenProperties, ElementOfSeq
  <1>2. [i \in 1..Len(s) |-> Error(k, s[i])] \in [1..Len(s) -> S]
    BY <1>1
  <1> QED
    BY <1>1, <1>2, SeqDef

(* Every completion the model builds is one of Wc.                         *)
LEMMA WcFacts ==
    /\ \A n \in 1..MaxMsgs, k \in {"send", "recv"} :
          /\ Error(k, n) \in Wc
          /\ [k |-> k, n |-> n, ok |-> TRUE] \in Wc
    /\ \A n \in 1..MaxMsgs : \A g : Error("send", n) \in SendDone(n, g)
    /\ \A n \in 1..MaxMsgs : Error("recv", n) \in RecvDone(n) /\ Error("recv", n) \in RecvWc
  BY DEF Error, Wc, SendDone, RecvDone, RecvWc

(* The sequence contents in terms of TypeOK.                               *)
LEMMA TypesImplyTypeOK == CtxInv /\ WrTypes /\ lied = FALSE => TypeOK
  <1> SUFFICES ASSUME CtxInv, WrTypes, lied = FALSE PROVE TypeOK
    OBVIOUS
  <1>1. ASSUME NEW q \in Qps
        PROVE  /\ \A i \in DOMAIN sq[q] : sq[q][i] \in 1..MaxMsgs
               /\ \A i \in DOMAIN rq[q] : rq[q][i] \in 1..MaxMsgs
               /\ \A i \in DOMAIN cqe[q] : cqe[q][i] \in Wc
    <2>1. sq[q] \in Seq(1..MaxMsgs) /\ rq[q] \in Seq(1..MaxMsgs) /\ cqe[q] \in Seq(Wc)
      BY DEF WrTypes
    <2> QED
      BY <2>1, LenProperties, ElementOfSeq
  <1>2. \A q \in Qps : sent[q] \in 0..MaxMsgs /\ posted[q] \in 0..MaxMsgs /\ got[q] \in 0..sent[q]
    BY ConstantFacts DEF WrTypes
  <1>3. \A t \in Threads : call[t].kind \in {"none", "send", "recv", "poll"}
    BY DEF CtxInv, ThreadTypes, Call
  <1> QED
    BY <1>1, <1>2, <1>3 DEF TypeOK, CtxInv, CtxTypes, ThreadTypes, WrTypes

(* The invariant holds with no peer connected.                             *)
LEMMA InitPInv == OneControlThread /\ Init => PInv
  <1> SUFFICES ASSUME OneControlThread, Init PROVE PInv
    OBVIOUS
  <1>1. CtxInv
    <2>1. 0 \in 0..MaxMsgs
      BY ConstantFacts
    <2>2. NoCall \in Call
      BY <2>1 DEF NoCall, Call
    <2> QED
      BY <2>2, ConstantFacts DEF Init, CtxInv, CtxTypes, ThreadTypes, NamedExactly, BareCq, Connected, Relies
  <1>2. WrTypes
    <2>1. 0 \in 0..MaxMsgs /\ 0 <= MaxWr /\ Len(<<>>) = 0 /\ <<>> \in Seq(1..MaxMsgs) /\ <<>> \in Seq(Wc)
      BY ConstantFacts, EmptySeq
    <2> QED
      BY <2>1 DEF Init, WrTypes
  <1>3. AloneInv
    BY DEF Init, AloneInv
  <1> QED
    BY <1>1, <1>2, <1>3 DEF Init, PInv

-----------------------------------------------------------------------------
\* The context

(* A thread that returns, or starts to wait.                               *)
LEMMA ReturnFacts ==
    ASSUME ThreadTypes, NEW t \in Threads, Return(t)
    PROVE  /\ ThreadTypes'
           /\ pc'[t] = "idle"
           /\ \A u \in Threads \ {t} : pc'[u] = pc[u] /\ call'[u] = call[u]
  <1>1. NoCall \in Call
    <2>1. 0 \in 0..MaxMsgs
      BY ConstantFacts
    <2> QED
      BY <2>1 DEF NoCall, Call
  <1> QED
    BY <1>1 DEF ThreadTypes, Return

(* A call that begins to poll changes its own thread alone.                *)
LEMMA WaitsFacts ==
    ASSUME ThreadTypes, NEW t \in Threads, NEW k \in {"send", "recv", "poll"}, NEW n \in 0..MaxMsgs,
           Waits(t, k, n)
    PROVE  /\ ThreadTypes'
           /\ pc'[t] = "polling" /\ call'[t].kind = k /\ call'[t].n = n
           /\ call'[t].quiet => Quiet(t, k)
           /\ \A u \in Threads \ {t} : pc'[u] = pc[u] /\ call'[u].kind = call[u].kind /\ call'[u].n = call[u].n
           /\ \A u \in Neighbours(t) \ {t} : call'[u].quiet = FALSE
           /\ \A u \in Threads \ Neighbours(t) : u # t => call'[u] = call[u]
  <1>1. \A u \in Threads : call'[u] = IF u = t THEN [kind |-> k, n |-> n, quiet |-> Quiet(t, k)]
                ELSE IF u \in Neighbours(t) THEN [call[u] EXCEPT !.quiet = FALSE]
                ELSE call[u]
    BY DEF Waits
  <1>2. \A u \in Threads : call[u] \in Call
    BY DEF ThreadTypes
  <1>3a. Quiet(t, k) \in BOOLEAN
    BY DEF Quiet
  <1>3. [kind |-> k, n |-> n, quiet |-> Quiet(t, k)] \in Call
    BY <1>3a DEF Call
  <1>4. \A u \in Threads : [call[u] EXCEPT !.quiet = FALSE] \in Call
    BY <1>2 DEF Call
  <1>5. call' \in [Threads -> Call]
    BY <1>1, <1>2, <1>3, <1>4 DEF Waits
  <1>6. pc' \in [Threads -> {"idle", "init", "destroying", "polling"}]
        /\ pc'[t] = "polling" /\ \A u \in Threads \ {t} : pc'[u] = pc[u]
    BY DEF Waits, ThreadTypes
  <1>7. \A u \in Threads : /\ [call[u] EXCEPT !.quiet = FALSE].kind = call[u].kind
                           /\ [call[u] EXCEPT !.quiet = FALSE].n = call[u].n
                           /\ [call[u] EXCEPT !.quiet = FALSE].quiet = FALSE
    BY <1>2 DEF Call
  <1>8. Neighbours(t) \subseteq Threads
    BY DEF Neighbours
  <1>9. call'[t].kind = k /\ call'[t].n = n /\ (call'[t].quiet => Quiet(t, k))
    <2>1. PICK b \in BOOLEAN : b = Quiet(t, k)
      BY <1>3a
    <2>2. call'[t] = [kind |-> k, n |-> n, quiet |-> b]
      BY <1>1, <2>1
    <2> QED
      BY <2>1, <2>2
  <1>10. ASSUME NEW u \in Threads \ {t} PROVE call'[u].kind = call[u].kind /\ call'[u].n = call[u].n
    BY <1>1, <1>7
  <1>11. ASSUME NEW u \in Neighbours(t) \ {t} PROVE call'[u].quiet = FALSE
    BY <1>1, <1>7, <1>8
  <1>12. ASSUME NEW u \in Threads \ Neighbours(t), u # t PROVE call'[u] = call[u]
    BY <1>1, <1>12
  <1> QED
    BY <1>5, <1>6, <1>9, <1>10, <1>11, <1>12 DEF ThreadTypes

(* Transfers leave the context alone, but for a queue pair that breaks.    *)
LEMMA CtxFrame ==
    ASSUME CtxInv, UNCHANGED <<qp_peer, cq_peer, peer_connected, qps, cqs, dest>>, ThreadTypes',
           st' \in [Qps -> {"new", "init", "rtr", "rts", "err", "dead"}],
           \A q \in Qps : st[q] \in {"rts", "err"} => st'[q] \in {"rts", "err"},
           \A t \in Threads : \/ pc'[t] = pc[t]
                              \/ pc[t] # "init" /\ pc'[t] = "idle"
                              \/ pc[t] = "idle" /\ pc'[t] = "polling" /\ peer_connected[Home[t]]
    PROVE  CtxInv'
  <1> USE DEF CtxInv
  <1>1. CtxTypes' /\ NamedExactly'
    BY DEF CtxTypes, NamedExactly
  <1>2. BareCq'
    BY ConstantFacts DEF BareCq
  <1>3. Connected'
    BY DEF Connected, CtxTypes
  <1>4. Relies'
    BY DEF Relies
  <1> QED
    BY <1>1, <1>2, <1>3, <1>4

(* The only thread that may be in INIT_PEER or DESTROY_PEER on a machine.  *)
LEMMA OneControl ==
    ASSUME CtxInv, NEW t \in Control
    PROVE  \A u \in Threads \ {t} : Home[u] = Home[t] => pc[u] \notin {"init", "destroying"}
  BY ConstantFacts DEF CtxInv, Relies, OneControlThread

(* INIT_PEER first gives its context a CQ.                                 *)
LEMMA InitCqCtx ==
    ASSUME CtxInv, NEW t \in Threads, InitCq(t)
    PROVE  CtxInv'
  <1> USE DEF CtxInv
  <1> DEFINE m == Home[t]
  <1>1. m \in Machines /\ t \in Control /\ qp_peer[m] = None /\ pc[t] = "idle"
    BY ConstantFacts DEF InitCq, ReadLock
  <1>2. cq_peer[m] = None
    BY <1>1, ConstantFacts, OneControl DEF BareCq
  <1>3. PICK q \in Qps : Site[q] = m /\ cqs' = cqs \cup {q} /\ cq_peer' = [cq_peer EXCEPT ![m] = q]
    BY DEF InitCq
  <1>4. /\ UNCHANGED <<qp_peer, peer_connected, qps, st, dest, call>>
        /\ pc' = [pc EXCEPT ![t] = "init"]
    BY DEF InitCq
  <1>5. CtxTypes' /\ ThreadTypes'
    BY <1>1, <1>3, <1>4 DEF CtxTypes, ThreadTypes
  <1>6. NamedExactly'
    BY <1>1, <1>2, <1>3, <1>4, ConstantFacts DEF NamedExactly, CtxTypes
  <1>7. BareCq'
    BY <1>1, <1>3, <1>4, ConstantFacts DEF BareCq, CtxTypes, ThreadTypes
  <1>8. Connected' /\ Relies'
    BY <1>1, <1>2, <1>3, <1>4, ConstantFacts, OneControl DEF Connected, Relies, CtxTypes, ThreadTypes
  <1> QED
    BY <1>5, <1>6, <1>7, <1>8

(* INIT_PEER then adds the queue pair to the CQ, or takes the CQ back.     *)
LEMMA InitEndCtx ==
    ASSUME CtxInv, NEW t \in Threads, InitQp(t) \/ InitFails(t)
    PROVE  CtxInv'
  <1> USE DEF CtxInv
  <1>1. PICK m \in Machines : m = Home[t]
    BY ConstantFacts
  <1>2. PICK q \in Qps : q = cq_peer[m] /\ qp_peer[m] = None /\ t \in Control /\ Site[q] = m /\ pc[t] = "init"
    BY <1>1 DEF InitQp, InitFails, Relies, CtxTypes, NamedExactly
  <1>3. /\ ThreadTypes' /\ pc'[t] = "idle"
        /\ \A u \in Threads \ {t} : pc'[u] = pc[u] /\ call'[u] = call[u]
    BY ReturnFacts DEF InitQp, InitFails
  <1>4. \A u \in Threads \ {t} : Home[u] = m => pc[u] \notin {"init", "destroying"}
    BY <1>1, <1>2, OneControl
  <1>5. ~peer_connected[m]
    BY <1>2 DEF Connected
  <1>6. CASE InitQp(t)
    <2>1. /\ qps' = qps \cup {q} /\ qp_peer' = [qp_peer EXCEPT ![m] = q] /\ st' = [st EXCEPT ![q] = "init"]
          /\ UNCHANGED <<cq_peer, peer_connected, cqs, dest>>
      BY <1>1, <1>2, <1>6 DEF InitQp
    <2>2. CtxTypes'
      BY <2>1 DEF CtxTypes
    <2>3. NamedExactly'
      BY <1>2, <2>1, ConstantFacts DEF NamedExactly, CtxTypes
    <2>4. BareCq'
      BY <1>1, <1>2, <1>3, <2>1, ConstantFacts DEF BareCq, CtxTypes
    <2>5. Connected'
      BY <1>2, <1>5, <2>1, ConstantFacts DEF Connected, CtxTypes, NamedExactly
    <2>6. Relies'
      BY <1>1, <1>2, <1>3, <1>4, <2>1, ConstantFacts DEF Relies, CtxTypes
    <2> QED
      BY <1>3, <2>2, <2>3, <2>4, <2>5, <2>6
  <1>7. CASE InitFails(t)
    <2>1. /\ cqs' = cqs \ {q} /\ cq_peer' = [cq_peer EXCEPT ![m] = None] /\ st' = [st EXCEPT ![q] = "dead"]
          /\ UNCHANGED <<qp_peer, peer_connected, qps, dest>>
      BY <1>1, <1>2, <1>7 DEF InitFails
    <2>2. CtxTypes'
      BY <2>1 DEF CtxTypes
    <2>3. NamedExactly'
      BY <1>2, <2>1, ConstantFacts DEF NamedExactly, CtxTypes
    <2>4. BareCq'
      BY <1>1, <1>2, <1>3, <2>1, ConstantFacts DEF BareCq, CtxTypes
    <2>5. Connected'
      BY <1>2, <1>5, <2>1, ConstantFacts DEF Connected, CtxTypes, NamedExactly
    <2>6. Relies'
      BY <1>1, <1>2, <1>3, <1>4, <2>1, ConstantFacts DEF Relies, CtxTypes
    <2> QED
      BY <1>3, <2>2, <2>3, <2>4, <2>5, <2>6
  <1> QED
    BY <1>6, <1>7

(* CONNECT_PEER moves the state of the queue pair of its context alone.    *)
LEMMA ConnectCtx ==
    ASSUME CtxInv, NEW t \in Threads, NEW r \in Qps, NEW to \in {"rtr", "rts"}, Connect(t, r, to)
    PROVE  CtxInv'
  <1> USE DEF CtxInv
  <1>1. PICK m \in Machines : m = Home[t]
    BY ConstantFacts
  <1>2. PICK q \in Qps : /\ q = qp_peer[m] /\ st[q] = "init"
                         /\ st' = [st EXCEPT ![q] = to]
                         /\ dest' = [dest EXCEPT ![q] = r]
                         /\ peer_connected' = [peer_connected EXCEPT ![m] = (to = "rts")]
    BY <1>1 DEF Connect, CtxTypes
  <1>3. UNCHANGED <<qp_peer, cq_peer, qps, cqs, pc, call>>
    BY DEF Connect
  <1>4. ~peer_connected[m]
    BY <1>2 DEF Connected
  <1>5. CtxTypes' /\ ThreadTypes'
    BY <1>2, <1>3 DEF CtxTypes, ThreadTypes
  <1>6. NamedExactly' /\ BareCq'
    BY <1>3 DEF NamedExactly, BareCq
  <1>7. Connected'
    BY <1>2, <1>3, ConstantFacts DEF Connected, CtxTypes, NamedExactly
  <1>8. Relies'
    BY <1>1, <1>2, <1>3, <1>4, ConstantFacts DEF Relies, CtxTypes
  <1> QED
    BY <1>5, <1>6, <1>7, <1>8

(* A destroy that waits for the write lock has changed nothing yet.        *)
LEMMA DestroyWaitsCtx ==
    ASSUME CtxInv, NEW t \in Threads, DestroyWaits(t)
    PROVE  CtxInv'
  <1> USE DEF CtxInv
  <1>1. /\ UNCHANGED <<qp_peer, cq_peer, peer_connected, qps, cqs, st, dest, call>>
        /\ pc' = [pc EXCEPT ![t] = "destroying"]
        /\ t \in Control /\ pc[t] = "idle" /\ qp_peer[Home[t]] # None
    BY DEF DestroyWaits, ctxvars, ReadLock
  <1>2. CtxTypes' /\ ThreadTypes' /\ NamedExactly' /\ Connected'
    BY <1>1 DEF CtxTypes, ThreadTypes, NamedExactly, Connected
  <1>3. BareCq' /\ Relies'
    BY <1>1, ConstantFacts DEF BareCq, Relies, ThreadTypes
  <1> QED
    BY <1>2, <1>3

(* DESTROY_PEER has the write side: nobody polls on its machine.           *)
LEMMA DestroyCtx ==
    ASSUME CtxInv, NEW t \in Threads, Destroy(t)
    PROVE  CtxInv'
  <1> USE DEF CtxInv
  <1>1. PICK m \in Machines : m = Home[t]
    BY ConstantFacts
  <1>2. PICK q \in Qps : q = qp_peer[m] /\ t \in Control /\ Site[q] = m /\ cq_peer[m] = q /\ pc[t] = "destroying"
    BY <1>1 DEF Destroy, Relies, CtxTypes, NamedExactly
  <1>3. /\ ThreadTypes' /\ pc'[t] = "idle"
        /\ \A u \in Threads \ {t} : pc'[u] = pc[u] /\ call'[u] = call[u]
    BY ReturnFacts DEF Destroy
  <1>4. \A u \in Threads \ {t} : Home[u] = m => pc[u] \notin {"init", "destroying", "polling"}
    BY <1>1, <1>2, OneControl DEF Destroy, Pollers
  <1>5. /\ qps' = qps \ {q} /\ cqs' = cqs \ {q} /\ st' = [st EXCEPT ![q] = "dead"]
        /\ dest' = [dest EXCEPT ![q] = None]
        /\ qp_peer' = [qp_peer EXCEPT ![m] = None] /\ cq_peer' = [cq_peer EXCEPT ![m] = None]
        /\ peer_connected' = [peer_connected EXCEPT ![m] = FALSE]
    BY <1>1, <1>2 DEF Destroy, TeardownPeer
  <1>6. CtxTypes'
    BY <1>5 DEF CtxTypes
  <1>7. NamedExactly'
    BY <1>2, <1>5, ConstantFacts DEF NamedExactly, CtxTypes
  <1>8. BareCq'
    BY <1>1, <1>2, <1>3, <1>5, ConstantFacts DEF BareCq, CtxTypes
  <1>9. Connected'
    BY <1>2, <1>5, ConstantFacts DEF Connected, CtxTypes, NamedExactly
  <1>10. Relies'
    BY <1>1, <1>2, <1>3, <1>4, <1>5, ConstantFacts DEF Relies, CtxTypes
  <1> QED
    BY <1>3, <1>6, <1>7, <1>8, <1>9, <1>10

-----------------------------------------------------------------------------
\* The calls that transfer

(* A poller's machine is connected: its queue pair and its CQ exist.       *)
LEMMA PeerFacts ==
    ASSUME CtxInv, NEW t \in Threads, pc[t] = "polling" \/ peer_connected[Home[t]]
    PROVE  /\ qp_peer[Home[t]] \in Qps
           /\ cq_peer[Home[t]] = qp_peer[Home[t]]
           /\ Site[qp_peer[Home[t]]] = Home[t]
           /\ qp_peer[Home[t]] \in qps /\ cq_peer[Home[t]] \in cqs
  <1>1. PICK m \in Machines : m = Home[t]
    BY ConstantFacts
  <1>2. peer_connected[m]
    BY <1>1 DEF CtxInv, Relies
  <1>3. qp_peer[m] \in Qps
    BY <1>2 DEF CtxInv, Connected, CtxTypes
  <1> QED
    BY <1>1, <1>2, <1>3, ConstantFacts DEF CtxInv, NamedExactly

(* A call stays alone when its queue pair is left alone, but for sends of  *)
(* its own that arrive.                                                    *)
LEMMA AloneFrame ==
    ASSUME WrTypes, NEW q \in Qps, NEW k, NEW n \in Nat, Alone(k, n, q),
           sq'[q] = sq[q], rq'[q] = rq[q], cqe'[q] = cqe[q],
           got'[q] \in Nat, got[q] <= got'[q]
    PROVE  Alone(k, n, q)'
  <1>1. SendDone(n, got[q]) \subseteq SendDone(n, got'[q])
    BY ConstantFacts DEF SendDone, WrTypes
  <1>2. cqe[q] \in Seq(SendDone(n, got[q])) => cqe[q] \in Seq(SendDone(n, got'[q]))
    BY <1>1, SeqMonotonic
  <1> QED
    BY <1>2 DEF Alone

(* So does every call on the other machines while one queue pair changes.  *)
LEMMA OthersAlone ==
    ASSUME PInv, NEW q \in Qps, CtxInv',
           \A r \in Qps \ {q} : /\ sq'[r] = sq[r] /\ rq'[r] = rq[r] /\ cqe'[r] = cqe[r]
                                /\ got'[r] \in Nat /\ got[r] <= got'[r],
           NEW t \in Threads, qp_peer'[Home[t]] = qp_peer[Home[t]], pc[t] = "polling", call'[t] = call[t], call'[t].quiet,
           qp_peer[Home[t]] # q
    PROVE  Alone(call[t].kind, call[t].n, qp_peer[Home[t]])'
  <1>1. qp_peer[Home[t]] \in Qps \ {q}
    BY PeerFacts DEF PInv
  <1>2. Alone(call[t].kind, call[t].n, qp_peer[Home[t]])
    BY DEF PInv, AloneInv
  <1>3. call[t].n \in Nat
    BY ConstantFacts DEF PInv, CtxInv, ThreadTypes, Call
  <1>4. PICK r \in Qps \ {q} : r = qp_peer[Home[t]]
    BY <1>1
  <1>5. PICK n \in Nat : n = call[t].n
    BY <1>3
  <1>6. PICK k : k = call[t].kind
    OBVIOUS
  <1>7. Alone(k, n, r)
    BY <1>2, <1>4, <1>5, <1>6
  <1>8. Alone(k, n, r)'
    BY <1>7, AloneFrame DEF PInv
  <1> QED
    BY <1>4, <1>5, <1>6, <1>8 DEF Alone

(* What a call sees when it begins alone on the CQ.                        *)
LEMMA QuietFacts ==
    ASSUME PInv, NEW t \in Threads, NEW k, Quiet(t, k), qp_peer[Home[t]] \in Qps
    PROVE  /\ sq[qp_peer[Home[t]]] = <<>>
           /\ k # "poll" => rq[qp_peer[Home[t]]] = <<>> /\ cqe[qp_peer[Home[t]]] = <<>>
           /\ cqe[qp_peer[Home[t]]] \in Seq(RecvWc)
  <1>1. PICK q \in Qps : q = qp_peer[Home[t]]
    OBVIOUS
  <1>2. /\ sq[q] = <<>> /\ \A i \in DOMAIN cqe[q] : k = "poll" /\ cqe[q][i].k = "recv"
        /\ k = "poll" \/ rq[q] = <<>>
    BY <1>1 DEF Quiet
  <1>3. cqe[q] \in Seq(Wc)
    BY DEF PInv, WrTypes
  <1>4. Len(cqe[q]) \in Nat /\ DOMAIN cqe[q] = 1..Len(cqe[q]) /\ cqe[q] \in [1..Len(cqe[q]) -> Wc]
    BY <1>3, LenProperties
  <1>5. cqe[q] \in Seq(RecvWc)
    <2>1. cqe[q] \in [1..Len(cqe[q]) -> RecvWc]
      BY <1>2, <1>4 DEF RecvWc
    <2> QED
      BY <1>4, <2>1, SeqDef
  <1>6. k # "poll" => cqe[q] = <<>>
    <2>1. SUFFICES ASSUME k # "poll" PROVE cqe[q] = <<>>
      OBVIOUS
    <2>2. Len(cqe[q]) = 0
      <3>1. SUFFICES ASSUME Len(cqe[q]) # 0 PROVE FALSE
        OBVIOUS
      <3>2. 1 \in DOMAIN cqe[q]
        BY <1>4, <3>1
      <3> QED
        BY <1>2, <2>1, <3>2
    <2> QED
      BY <1>3, <2>2, EmptyFacts
  <1> QED
    BY <1>1, <1>2, <1>5, <1>6

(* A call that begins to wait ends the solitude of the others of its       *)
(* machine, and touches no other machine's queue pair.                     *)
LEMMA WaitsStep ==
    ASSUME PInv, NEW t \in Threads, NEW k \in {"send", "recv", "poll"}, NEW n \in 0..MaxMsgs,
           Waits(t, k, n), ReadLock(t), peer_connected[Home[t]],
           UNCHANGED <<ctxvars, lied, got>>, WrTypes',
           \A r \in Qps \ {qp_peer[Home[t]]} : sq'[r] = sq[r] /\ rq'[r] = rq[r] /\ cqe'[r] = cqe[r],
           Quiet(t, k) => Alone(k, n, qp_peer[Home[t]])'
    PROVE  PInv'
  <1>0. CtxInv /\ ThreadTypes /\ UNCHANGED <<qp_peer, cq_peer, peer_connected, qps, cqs, st, dest>>
    BY DEF PInv, CtxInv, ctxvars
  <1>1. /\ ThreadTypes'
        /\ pc'[t] = "polling" /\ call'[t].kind = k /\ call'[t].n = n
        /\ call'[t].quiet => Quiet(t, k)
        /\ \A u \in Threads \ {t} : pc'[u] = pc[u] /\ call'[u].kind = call[u].kind /\ call'[u].n = call[u].n
        /\ \A u \in Neighbours(t) \ {t} : call'[u].quiet = FALSE
        /\ \A u \in Threads \ Neighbours(t) : u # t => call'[u] = call[u]
    BY ONLY <1>0, WaitsFacts, Waits(t, k, n)
  <1>2. CtxInv'
    <2>1. st' \in [Qps -> {"new", "init", "rtr", "rts", "err", "dead"}]
      BY <1>0 DEF CtxInv, CtxTypes
    <2> QED
      BY <1>0, <1>1, <2>1, CtxFrame DEF ReadLock
  <1>3. AloneInv'
    <2>1. SUFFICES ASSUME NEW u \in Threads, pc'[u] = "polling", call'[u].quiet
                   PROVE  Alone(call[u].kind, call[u].n, qp_peer[Home[u]])'
      BY DEF AloneInv
    <2>2. CASE u = t
      BY <1>0, <1>1, <2>1, <2>2 DEF Alone
    <2>3. CASE u # t
      <3>1. pc[u] = "polling" /\ u \notin Neighbours(t) /\ call'[u] = call[u]
        BY <1>1, <2>1, <2>3
      <3>2. Home[u] # Home[t]
        BY <3>1 DEF Neighbours
      <3>3. qp_peer[Home[t]] \in Qps /\ qp_peer[Home[u]] # qp_peer[Home[t]]
        BY <1>0, <3>1, <3>2, PeerFacts
      <3>4. \A r \in Qps : got'[r] \in Nat /\ got[r] <= got'[r]
        BY ConstantFacts DEF PInv, WrTypes
      <3> QED
        BY <1>0, <1>2, <2>1, <3>1, <3>3, <3>4, OthersAlone
    <2> QED
      BY <2>2, <2>3
  <1> QED
    BY <1>2, <1>3 DEF PInv

(* REMOTE_SEND and WRITE_IMM.                                              *)
LEMMA SendStep ==
    ASSUME PInv, NEW t \in Threads, RemoteSend(t) \/ WriteImm(t)
    PROVE  PInv'
  <1>1. PostSend(t) /\ ReadLock(t) /\ peer_connected[Home[t]]
    BY DEF RemoteSend, WriteImm
  <1>2. PICK q \in Qps : q = qp_peer[Home[t]]
    BY <1>1, PeerFacts DEF PInv
  <1>3. PICK n \in 1..MaxMsgs : n = sent[q] + 1
    BY <1>1, <1>2, ConstantFacts DEF PostSend, PInv, WrTypes
  <1>4. /\ sent' = [sent EXCEPT ![q] = n]
        /\ Len(sq[q]) < MaxWr
        /\ Waits(t, "send", n)
        /\ UNCHANGED <<lied, ctxvars, rq, posted, got>>
        /\ \/ cqe' = [cqe EXCEPT ![q] = Append(@, Error("send", n))] /\ sq' = sq
           \/ sq' = [sq EXCEPT ![q] = Append(@, n)] /\ cqe' = cqe
    BY <1>1, <1>2, <1>3 DEF PostSend
  <1>5. sq[q] \in Seq(1..MaxMsgs) /\ cqe[q] \in Seq(Wc) /\ Error("send", n) \in Wc
    BY WcFacts DEF PInv, WrTypes
  <1>6. /\ Append(sq[q], n) \in Seq(1..MaxMsgs) /\ Len(Append(sq[q], n)) = Len(sq[q]) + 1
        /\ Append(cqe[q], Error("send", n)) \in Seq(Wc) /\ Len(sq[q]) \in Nat
    BY <1>5, AppendFacts, LenProperties
  <1>7. WrTypes'
    <2>1. sent' \in [Qps -> 0..MaxMsgs] /\ \A r \in Qps : got'[r] <= sent'[r]
      BY <1>3, <1>4, ConstantFacts DEF PInv, WrTypes
    <2>2. sq' \in [Qps -> Seq(1..MaxMsgs)] /\ cqe' \in [Qps -> Seq(Wc)]
      BY <1>4, <1>6 DEF PInv, WrTypes
    <2>3. ASSUME NEW r \in Qps PROVE Len(sq'[r]) <= MaxWr
      <3>1. sq'[r] = sq[r] \/ (r = q /\ sq'[r] = Append(sq[q], n))
        BY <1>4 DEF PInv, WrTypes
      <3>2. Len(Append(sq[q], n)) <= MaxWr
        BY <1>4, <1>6, ConstantFacts
      <3> QED
        BY <3>1, <3>2 DEF PInv, WrTypes
    <2> QED
      BY <1>4, <2>1, <2>2, <2>3 DEF PInv, WrTypes
  <1>8. \A r \in Qps \ {q} : sq'[r] = sq[r] /\ rq'[r] = rq[r] /\ cqe'[r] = cqe[r]
    BY <1>4 DEF PInv, WrTypes
  <1>9. ASSUME Quiet(t, "send") PROVE Alone("send", n, q)'
    <2>1. sq[q] = <<>> /\ rq[q] = <<>> /\ cqe[q] = <<>>
      BY <1>2, <1>9, QuietFacts
    <2>2. /\ <<>> \in Seq({n}) /\ <<>> \in Seq(SendDone(n, got[q]))
          /\ Error("send", n) \in SendDone(n, got[q])
      BY EmptyFacts, WcFacts
    <2>3. Append(<<>>, n) \in Seq({n}) /\ Append(<<>>, Error("send", n)) \in Seq(SendDone(n, got[q]))
      BY <2>2, AppendFacts
    <2>4. \/ cqe'[q] = Append(<<>>, Error("send", n)) /\ sq'[q] = <<>>
          \/ sq'[q] = Append(<<>>, n) /\ cqe'[q] = <<>>
      BY <1>4, <2>1 DEF PInv, WrTypes
    <2> QED
      BY <1>4, <2>1, <2>2, <2>3, <2>4 DEF Alone
  <1>10. n \in 0..MaxMsgs
    OBVIOUS
  <1>11. ctxvars' = ctxvars /\ Alone("send", n, q)' = Alone("send", n, qp_peer[Home[t]])'
    BY <1>2, <1>4 DEF ctxvars, Alone
  <1> QED
    BY <1>1, <1>2, <1>4, <1>7, <1>8, <1>9, <1>10, <1>11, WaitsStep

(* A receive is posted, or flushed at once.                                *)
LEMMA PostReceiveFacts ==
    ASSUME WrTypes, NEW q \in Qps, PostReceive(q)
    PROVE  /\ posted[q] + 1 \in 1..MaxMsgs
           /\ WrTypes'
           /\ UNCHANGED <<lied, ctxvars, sq, sent, got>>
           /\ \A r \in Qps \ {q} : rq'[r] = rq[r] /\ cqe'[r] = cqe[r]
           /\ \/ cqe'[q] = Append(cqe[q], Error("recv", posted[q] + 1)) /\ rq'[q] = rq[q]
              \/ rq'[q] = Append(rq[q], posted[q] + 1) /\ cqe'[q] = cqe[q]
  <1>1. PICK n \in 1..MaxMsgs : n = posted[q] + 1
    BY ConstantFacts DEF PostReceive, WrTypes
  <1>2. /\ posted' = [posted EXCEPT ![q] = n]
        /\ Len(rq[q]) < MaxWr
        /\ UNCHANGED <<lied, ctxvars, sq, sent, got>>
        /\ \/ cqe' = [cqe EXCEPT ![q] = Append(@, Error("recv", n))] /\ rq' = rq
           \/ rq' = [rq EXCEPT ![q] = Append(@, n)] /\ cqe' = cqe
    BY <1>1 DEF PostReceive, WrTypes
  <1>3. rq[q] \in Seq(1..MaxMsgs) /\ cqe[q] \in Seq(Wc) /\ Error("recv", n) \in Wc
    BY WcFacts DEF WrTypes
  <1>4. /\ Append(rq[q], n) \in Seq(1..MaxMsgs) /\ Len(Append(rq[q], n)) = Len(rq[q]) + 1
        /\ Append(cqe[q], Error("recv", n)) \in Seq(Wc) /\ Len(rq[q]) \in Nat
    BY <1>3, AppendFacts, LenProperties
  <1>5. posted' \in [Qps -> 0..MaxMsgs]
    BY <1>2 DEF WrTypes
  <1>6. rq' \in [Qps -> Seq(1..MaxMsgs)] /\ cqe' \in [Qps -> Seq(Wc)]
    BY <1>2, <1>4 DEF WrTypes
  <1>7. ASSUME NEW r \in Qps PROVE Len(rq'[r]) <= MaxWr
    <2>1. rq'[r] = rq[r] \/ (r = q /\ rq'[r] = Append(rq[q], n))
      BY <1>2 DEF WrTypes
    <2>2. Len(Append(rq[q], n)) <= MaxWr
      BY <1>2, <1>4, ConstantFacts
    <2> QED
      BY <2>1, <2>2 DEF WrTypes
  <1>8. WrTypes'
    BY <1>2, <1>5, <1>6, <1>7 DEF WrTypes
  <1>9. /\ \A r \in Qps \ {q} : rq'[r] = rq[r] /\ cqe'[r] = cqe[r]
        /\ \/ cqe'[q] = Append(cqe[q], Error("recv", n)) /\ rq'[q] = rq[q]
           \/ rq'[q] = Append(rq[q], n) /\ cqe'[q] = cqe[q]
    BY <1>2 DEF WrTypes
  <1> QED
    BY <1>1, <1>2, <1>8, <1>9

(* A remote receive posts in its own context.                              *)
LEMMA RemoteRecvStep ==
    ASSUME PInv, NEW t \in Threads, RemoteRecv(t)
    PROVE  PInv'
  <1>1. ReadLock(t) /\ peer_connected[Home[t]] /\ WrTypes
    BY DEF RemoteRecv, PInv
  <1>2. PICK q \in Qps : q = qp_peer[Home[t]]
    BY <1>1, PeerFacts DEF PInv
  <1>3. PostReceive(q) /\ Waits(t, "recv", posted[q] + 1)
    BY <1>2 DEF RemoteRecv
  <1>4. PICK n \in 1..MaxMsgs : n = posted[q] + 1
    BY <1>1, <1>3, PostReceiveFacts
  <1>5. /\ WrTypes'
        /\ UNCHANGED <<lied, ctxvars, sq, sent, got>>
        /\ \A r \in Qps \ {q} : rq'[r] = rq[r] /\ cqe'[r] = cqe[r]
        /\ \/ cqe'[q] = Append(cqe[q], Error("recv", n)) /\ rq'[q] = rq[q]
           \/ rq'[q] = Append(rq[q], n) /\ cqe'[q] = cqe[q]
    BY <1>1, <1>3, <1>4, PostReceiveFacts
  <1>6. ASSUME Quiet(t, "recv") PROVE Alone("recv", n, q)'
    <2>1. sq[q] = <<>> /\ rq[q] = <<>> /\ cqe[q] = <<>>
      BY <1>2, <1>6, QuietFacts
    <2>2. <<>> \in Seq({n}) /\ <<>> \in Seq(RecvDone(n)) /\ Error("recv", n) \in RecvDone(n)
      BY EmptyFacts, WcFacts
    <2>3. Append(<<>>, n) \in Seq({n}) /\ Append(<<>>, Error("recv", n)) \in Seq(RecvDone(n))
      BY <2>2, AppendFacts
    <2> QED
      BY <1>5, <2>1, <2>2, <2>3 DEF Alone
  <1>7. n \in 0..MaxMsgs
    OBVIOUS
  <1>8. Alone("recv", n, q)' = Alone("recv", n, qp_peer[Home[t]])'
    BY <1>2, <1>5 DEF ctxvars, Alone
  <1> QED
    BY <1>1, <1>2, <1>3, <1>4, <1>5, <1>6, <1>7, <1>8, WaitsStep

(* A poll takes an entry of the CQ of its context.                         *)
LEMMA PollRecvStep ==
    ASSUME PInv, NEW t \in Threads, PollRecv(t)
    PROVE  PInv'
  <1>1. /\ ReadLock(t) /\ peer_connected[Home[t]] /\ WrTypes
        /\ Waits(t, "poll", 0)
        /\ UNCHANGED <<lied, ctxvars, sq, rq, sent, posted, got, cqe>>
    BY DEF PollRecv, PInv, wrvars
  <1>2. PICK q \in Qps : q = qp_peer[Home[t]]
    BY <1>1, PeerFacts DEF PInv
  <1>3. WrTypes'
    BY <1>1 DEF WrTypes
  <1>4. ASSUME Quiet(t, "poll") PROVE Alone("poll", 0, q)'
    <2>1. sq[q] = <<>> /\ cqe[q] \in Seq(RecvWc)
      BY <1>2, <1>4, QuietFacts
    <2> QED
      BY <1>1, <2>1 DEF Alone
  <1>5. 0 \in 0..MaxMsgs
    BY ConstantFacts
  <1>6. Alone("poll", 0, q)' = Alone("poll", 0, qp_peer[Home[t]])'
    BY <1>1, <1>2 DEF ctxvars, Alone
  <1> QED
    BY <1>1, <1>2, <1>3, <1>4, <1>5, <1>6, WaitsStep

(* While no call begins to wait, it is enough to look at the one queue     *)
(* pair that changes.                                                      *)
LEMMA QueueStep ==
    ASSUME PInv, CtxInv', UNCHANGED qp_peer, NEW q \in Qps,
           \A r \in Qps \ {q} : /\ sq'[r] = sq[r] /\ rq'[r] = rq[r] /\ cqe'[r] = cqe[r]
                                /\ got'[r] \in Nat /\ got[r] <= got'[r],
           \A t \in Threads : pc'[t] = "polling" /\ call'[t].quiet =>
               pc[t] = "polling" /\ call'[t] = call[t],
           \A k : \A n \in Nat : Alone(k, n, q) => Alone(k, n, q)'
    PROVE  AloneInv'
  <1>1. SUFFICES ASSUME NEW t \in Threads, pc'[t] = "polling", call'[t].quiet
                 PROVE  Alone(call[t].kind, call[t].n, qp_peer[Home[t]])'
    BY DEF AloneInv
  <1>2. pc[t] = "polling" /\ call'[t] = call[t]
    BY <1>1
  <1>3. CASE qp_peer[Home[t]] # q
    BY <1>1, <1>2, <1>3, OthersAlone
  <1>4. CASE qp_peer[Home[t]] = q
    <2>1. PICK n \in Nat : n = call[t].n
      BY ConstantFacts DEF PInv, CtxInv, ThreadTypes, Call
    <2>2. PICK k : k = call[t].kind
      OBVIOUS
    <2>3. Alone(k, n, q)
      BY <1>1, <1>2, <1>4, <2>1, <2>2 DEF PInv, AloneInv
    <2>4. Alone(k, n, q)'
      BY <2>3
    <2> QED
      BY <1>2, <1>4, <2>1, <2>2, <2>4 DEF Alone
  <1> QED
    BY <1>3, <1>4

(* A posted receive leaves only polling calls alone.                       *)
LEMMA PostRecvStep ==
    ASSUME PInv, NEW t \in Threads, PostRecv(t)
    PROVE  PInv'
  <1>1. /\ peer_connected[Home[t]] /\ WrTypes /\ CtxInv /\ ThreadTypes /\ pc' = pc
        /\ call' = [u \in Threads |-> IF u \in Neighbours(t) /\ call[u].kind # "poll"
                                  THEN [call[u] EXCEPT !.quiet = FALSE] ELSE call[u]]
    BY DEF PostRecv, PInv, CtxInv
  <1>2. PICK q \in Qps : q = qp_peer[Home[t]] /\ PostReceive(q) /\ Site[q] = Home[t]
    BY <1>1, PeerFacts DEF PostRecv
  <1>3. PICK n \in 1..MaxMsgs : n = posted[q] + 1
    BY <1>1, <1>2, PostReceiveFacts
  <1>4. /\ WrTypes'
        /\ UNCHANGED <<lied, ctxvars, sq, sent, got>>
        /\ \A r \in Qps \ {q} : rq'[r] = rq[r] /\ cqe'[r] = cqe[r]
        /\ \/ cqe'[q] = Append(cqe[q], Error("recv", n)) /\ rq'[q] = rq[q]
           \/ rq'[q] = Append(rq[q], n) /\ cqe'[q] = cqe[q]
    BY <1>1, <1>2, <1>3, PostReceiveFacts
  <1>5. ThreadTypes'
    <2>1. \A u \in Threads : call[u] \in Call /\ [call[u] EXCEPT !.quiet = FALSE] \in Call
      BY <1>1 DEF ThreadTypes, Call
    <2> QED
      BY <1>1, <2>1 DEF ThreadTypes
  <1>6. UNCHANGED <<qp_peer, cq_peer, peer_connected, qps, cqs, st, dest>>
    BY <1>4 DEF ctxvars
  <1>7. CtxInv'
    BY <1>1, <1>5, <1>6, CtxFrame DEF CtxInv, CtxTypes
  <1>8. AloneInv'
    <2>1. ASSUME NEW u \in Threads, pc'[u] = "polling", call'[u].quiet
          PROVE  /\ pc[u] = "polling" /\ call'[u] = call[u]
                 /\ qp_peer[Home[u]] = q => call[u].kind \in {"poll"}
      <3>1. pc[u] = "polling"
        BY <1>1, <2>1
      <3>2. [call[u] EXCEPT !.quiet = FALSE].quiet = FALSE
        BY <1>1 DEF ThreadTypes, Call
      <3>3. call'[u] = call[u] /\ (u \in Neighbours(t) => call[u].kind = "poll")
        BY <1>1, <2>1, <3>2
      <3>4. qp_peer[Home[u]] = q => u \in Neighbours(t)
        BY <1>1, <1>2, <3>1, PeerFacts DEF Neighbours
      <3> QED
        BY <3>1, <3>3, <3>4
    <2>2. ASSUME NEW m \in Nat, Alone("poll", m, q) PROVE Alone("poll", m, q)'
      <3>1. sq[q] = <<>> /\ cqe[q] \in Seq(RecvWc)
        BY <2>2 DEF Alone
      <3>2. Append(cqe[q], Error("recv", n)) \in Seq(RecvWc)
        BY <3>1, WcFacts, AppendFacts
      <3> QED
        BY <1>4, <3>1, <3>2 DEF Alone
    <2>3. \A r \in Qps \ {q} : /\ sq'[r] = sq[r] /\ rq'[r] = rq[r] /\ cqe'[r] = cqe[r]
                               /\ got'[r] \in Nat /\ got[r] <= got'[r]
      BY <1>1, <1>4, ConstantFacts DEF WrTypes
    <2>4. ASSUME NEW u \in Threads, pc'[u] = "polling", call'[u].quiet
          PROVE  Alone(call[u].kind, call[u].n, qp_peer[Home[u]])'
      <3>1. CASE qp_peer[Home[u]] # q
        BY <1>6, <1>7, <2>1, <2>3, <2>4, <3>1, OthersAlone
      <3>2. CASE qp_peer[Home[u]] = q
        <4>1. PICK m \in Nat : m = call[u].n
          BY <1>1, ConstantFacts DEF ThreadTypes, Call
        <4>2. call[u].kind = "poll" /\ call'[u] = call[u] /\ pc[u] = "polling"
          BY <2>1, <2>4, <3>2
        <4>3. Alone("poll", m, q)
          BY <2>4, <3>2, <4>1, <4>2 DEF PInv, AloneInv
        <4>4. Alone("poll", m, q)'
          BY <2>2, <4>3
        <4> QED
          BY <1>6, <3>2, <4>1, <4>2, <4>4 DEF Alone
      <3> QED
        BY <3>1, <3>2
    <2> QED
      BY <2>4 DEF AloneInv
  <1> QED
    BY <1>4, <1>7, <1>8 DEF PInv

(* A call alone on the CQ takes a completion that is its own.              *)
LEMMA PollGetsStep ==
    ASSUME PInv, NEW t \in Threads, PollGets(t)
    PROVE  PInv'
  <1>1. WrTypes /\ CtxInv /\ ThreadTypes /\ pc[t] = "polling" /\ Return(t)
    BY DEF PollGets, PInv, CtxInv
  <1>2. PICK q \in Qps : q = qp_peer[Home[t]] /\ q = cq_peer[Home[t]]
    BY <1>1, PeerFacts
  <1>3. /\ cqe[q] # <<>> /\ cqe' = [cqe EXCEPT ![q] = Tail(@)]
        /\ lied' = (lied \/ (Head(cqe[q]).ok /\ Lie(t, Head(cqe[q]))))
        /\ UNCHANGED <<qp_peer, cq_peer, peer_connected, qps, cqs, st, dest, sq, rq, sent, posted, got>>
    BY <1>2 DEF PollGets, ctxvars, wrvars
  <1>4. /\ ThreadTypes' /\ pc'[t] = "idle"
        /\ \A u \in Threads \ {t} : pc'[u] = pc[u] /\ call'[u] = call[u]
    BY <1>1, ReturnFacts
  <1>5. CtxInv'
    BY <1>1, <1>3, <1>4, CtxFrame DEF CtxInv, CtxTypes
  <1>6. cqe[q] \in Seq(Wc) /\ Tail(cqe[q]) \in Seq(Wc)
    BY <1>1, <1>3, HeadTailProperties DEF WrTypes
  <1>7. WrTypes'
    BY <1>1, <1>3, <1>6 DEF WrTypes
  <1>8. AloneInv'
    <2>1. cqe'[q] = Tail(cqe[q]) /\ \A r \in Qps \ {q} : cqe'[r] = cqe[r]
      BY <1>1, <1>3 DEF WrTypes
    <2>2. ASSUME NEW k, NEW n \in Nat, Alone(k, n, q) PROVE Alone(k, n, q)'
      <3>1. \A S : cqe[q] \in Seq(S) => Tail(cqe[q]) \in Seq(S)
        BY <1>3, HeadTailProperties
      <3> QED
        BY <1>3, <2>1, <2>2, <3>1 DEF Alone
    <2>3. \A r \in Qps \ {q} : /\ sq'[r] = sq[r] /\ rq'[r] = rq[r] /\ cqe'[r] = cqe[r]
                               /\ got'[r] \in Nat /\ got[r] <= got'[r]
      BY <1>1, <1>3, <2>1, ConstantFacts DEF WrTypes
    <2>4. \A u \in Threads : pc'[u] = "polling" /\ call'[u].quiet =>
               pc[u] = "polling" /\ call'[u] = call[u]
      BY <1>4
    <2>5. \A k : \A n \in Nat : Alone(k, n, q) => Alone(k, n, q)'
      BY <2>2
    <2> QED
      BY ONLY PInv, <1>3, <1>5, <2>3, <2>4, <2>5, QueueStep
  <1>9. lied' = FALSE
    <2>1. SUFFICES ASSUME Head(cqe[q]).ok, call[t].quiet PROVE Own(t, Head(cqe[q]))
      BY <1>3 DEF PInv, Lie
    <2>2. PICK n \in Nat : n = call[t].n
      BY <1>1, ConstantFacts DEF ThreadTypes, Call
    <2>3. Alone(call[t].kind, n, q)
      BY <1>1, <1>2, <2>1, <2>2 DEF PInv, AloneInv
    <2>4. \A S : cqe[q] \in Seq(S) => Head(cqe[q]) \in S
      BY <1>3, HeadTailProperties
    <2>5. CASE call[t].kind = "send"
      <3>1. Head(cqe[q]) \in SendDone(n, got[q])
        BY <2>3, <2>4, <2>5 DEF Alone
      <3> QED
        BY <1>2, <2>1, <2>2, <2>5, <3>1 DEF SendDone, Own
    <2>6. CASE call[t].kind = "recv"
      <3>1. Head(cqe[q]) \in RecvDone(n)
        BY <2>3, <2>4, <2>6 DEF Alone
      <3> QED
        BY <2>1, <2>2, <2>6, <3>1 DEF RecvDone, Own
    <2>7. CASE call[t].kind = "poll"
      <3>1. Head(cqe[q]) \in RecvWc
        BY <2>3, <2>4, <2>7 DEF Alone
      <3> QED
        BY <2>1, <2>7, <3>1 DEF RecvWc, Own
    <2> QED
      BY <2>3, <2>5, <2>6, <2>7 DEF Alone
  <1> QED
    BY <1>5, <1>7, <1>8, <1>9 DEF PInv

(* The threads are left alone by the network.                              *)
LEMMA NetworkFrame ==
    ASSUME PInv, UNCHANGED <<qp_peer, cq_peer, peer_connected, qps, cqs, dest, pc, call>>,
           st' \in [Qps -> {"new", "init", "rtr", "rts", "err", "dead"}],
           \A q \in Qps : st[q] \in {"rts", "err"} => st'[q] \in {"rts", "err"}
    PROVE  CtxInv'
  <1>1. CtxInv /\ ThreadTypes'
    BY DEF PInv, CtxInv, ThreadTypes
  <1> QED
    BY <1>1, CtxFrame

(* A delivery consumes one receive and completes it on its own CQ.         *)
LEMMA DeliverStep ==
    ASSUME PInv, NEW q \in Qps, NEW r \in Qps, Deliver(q, r)
    PROVE  PInv'
  <1>1. /\ WrTypes /\ rq[r] # <<>> /\ got[q] < sent[q]
        /\ got' = [got EXCEPT ![q] = @ + 1]
        /\ rq' = [rq EXCEPT ![r] = Tail(@)]
        /\ cqe' = [cqe EXCEPT ![r] = Append(@, [k |-> "recv", n |-> Head(rq[r]), ok |-> TRUE])]
        /\ UNCHANGED <<qp_peer, cq_peer, peer_connected, qps, cqs, st, dest, sq, sent, posted, pc, call, lied>>
    BY DEF Deliver, PInv, ctxvars
  <1>2. rq[r] \in Seq(1..MaxMsgs) /\ cqe[r] \in Seq(Wc)
    BY <1>1 DEF WrTypes
  <1>3. PICK n \in 1..MaxMsgs : n = Head(rq[r])
    BY <1>1, <1>2, HeadTailProperties
  <1>4. Tail(rq[r]) \in Seq(1..MaxMsgs) /\ Len(Tail(rq[r])) = Len(rq[r]) - 1 /\ Len(rq[r]) \in Nat
    BY <1>1, <1>2, HeadTailProperties, LenProperties
  <1>5. PICK c \in Wc : c = [k |-> "recv", n |-> n, ok |-> TRUE]
    BY WcFacts
  <1>6. /\ rq'[r] = Tail(rq[r]) /\ cqe'[r] = Append(cqe[r], c)
        /\ \A x \in Qps \ {r} : rq'[x] = rq[x] /\ cqe'[x] = cqe[x]
    BY <1>1, <1>3, <1>5 DEF WrTypes
  <1>7. got' \in [Qps -> 0..MaxMsgs] /\ \A x \in Qps : got[x] <= got'[x] /\ got'[x] <= sent'[x] /\ got'[x] \in Nat
    <2>1. got[q] + 1 \in 0..MaxMsgs /\ got[q] + 1 <= sent[q] /\ got[q] <= got[q] + 1
      <3>1. got[q] \in 0..MaxMsgs /\ sent[q] \in 0..MaxMsgs /\ got[q] < sent[q]
        BY <1>1 DEF WrTypes
      <3> QED
        BY <3>1, ConstantFacts
    <2>2. \A x \in Qps : got[x] \in 0..MaxMsgs /\ got[x] \in Nat /\ got[x] <= sent[x]
      BY <1>1, ConstantFacts DEF WrTypes
    <2>3. \A x \in Qps : got'[x] = IF x = q THEN got[q] + 1 ELSE got[x]
      BY <1>1 DEF WrTypes
    <2>4. got' \in [Qps -> 0..MaxMsgs]
      BY <1>1, <2>1 DEF WrTypes
    <2> QED
      BY <1>1, <2>1, <2>2, <2>3, <2>4
  <1>8. WrTypes'
    <2>1. Append(cqe[r], c) \in Seq(Wc)
      BY <1>2, AppendFacts
    <2>2. rq' \in [Qps -> Seq(1..MaxMsgs)] /\ cqe' \in [Qps -> Seq(Wc)]
      BY <1>1, <1>3, <1>4, <1>5, <2>1 DEF WrTypes
    <2>3. \A x \in Qps : Len(rq'[x]) <= MaxWr
      BY <1>1, <1>4, <1>6, ConstantFacts DEF WrTypes
    <2> QED
      BY <1>1, <1>7, <2>2, <2>3 DEF WrTypes
  <1>9. CtxInv'
    BY <1>1, NetworkFrame DEF PInv, CtxInv, CtxTypes
  <1>10. ASSUME NEW k, NEW m \in Nat, Alone(k, m, r) PROVE Alone(k, m, r)'
    <2>1. CASE k = "recv"
      <3>1. sq[r] = <<>> /\ rq[r] \in Seq({m}) /\ cqe[r] \in Seq(RecvDone(m))
        BY <1>10, <2>1 DEF Alone
      <3>2. m = n /\ Tail(rq[r]) \in Seq({m})
        BY <1>1, <1>3, <3>1, HeadTailProperties
      <3>3. c \in RecvDone(m)
        BY <1>5, <3>2 DEF RecvDone
      <3>4. Append(cqe[r], c) \in Seq(RecvDone(m))
        BY <3>1, <3>3, AppendFacts
      <3> QED
        BY <1>1, <1>6, <2>1, <3>1, <3>2, <3>4 DEF Alone
    <2>2. CASE k = "poll"
      <3>1. sq[r] = <<>> /\ cqe[r] \in Seq(RecvWc)
        BY <1>10, <2>2 DEF Alone
      <3>2. Append(cqe[r], c) \in Seq(RecvWc)
        BY <1>5, <3>1, AppendFacts DEF RecvWc
      <3> QED
        BY <1>1, <1>6, <2>2, <3>1, <3>2 DEF Alone
    <2> QED
      BY <1>1, <1>10, <2>1, <2>2 DEF Alone
  <1>11. AloneInv'
    <2>1. \A x \in Qps \ {r} : /\ sq'[x] = sq[x] /\ rq'[x] = rq[x] /\ cqe'[x] = cqe[x]
                               /\ got'[x] \in Nat /\ got[x] <= got'[x]
      BY <1>1, <1>6, <1>7
    <2>2. \A k : \A m \in Nat : Alone(k, m, r) => Alone(k, m, r)'
      BY <1>10
    <2> QED
      BY ONLY PInv, <1>1, <1>9, <2>1, <2>2, QueueStep
  <1> QED
    BY <1>1, <1>8, <1>9, <1>11 DEF PInv

(* A send is acknowledged only when it has been received.                  *)
LEMMA AckStep ==
    ASSUME PInv, NEW q \in Qps, Ack(q)
    PROVE  PInv'
  <1>1. /\ WrTypes /\ sq[q] # <<>> /\ Head(sq[q]) <= got[q]
        /\ sq' = [sq EXCEPT ![q] = Tail(@)]
        /\ cqe' = [cqe EXCEPT ![q] = Append(@, [k |-> "send", n |-> Head(sq[q]), ok |-> TRUE])]
        /\ UNCHANGED <<qp_peer, cq_peer, peer_connected, qps, cqs, st, dest, rq, sent, posted, got, pc, call, lied>>
    BY DEF Ack, PInv, ctxvars
  <1>2. sq[q] \in Seq(1..MaxMsgs) /\ cqe[q] \in Seq(Wc)
    BY <1>1 DEF WrTypes
  <1>3. PICK n \in 1..MaxMsgs : n = Head(sq[q])
    BY <1>1, <1>2, HeadTailProperties
  <1>4. Tail(sq[q]) \in Seq(1..MaxMsgs) /\ Len(Tail(sq[q])) = Len(sq[q]) - 1 /\ Len(sq[q]) \in Nat
    BY <1>1, <1>2, HeadTailProperties, LenProperties
  <1>5. PICK c \in Wc : c = [k |-> "send", n |-> n, ok |-> TRUE]
    BY WcFacts
  <1>6. /\ sq'[q] = Tail(sq[q]) /\ cqe'[q] = Append(cqe[q], c)
        /\ \A x \in Qps \ {q} : sq'[x] = sq[x] /\ cqe'[x] = cqe[x]
    BY <1>1, <1>3, <1>5 DEF WrTypes
  <1>7. \A x \in Qps : got'[x] = got[x] /\ got[x] <= got'[x] /\ got'[x] \in Nat
    BY <1>1, ConstantFacts DEF WrTypes
  <1>8. WrTypes'
    <2>1. Append(cqe[q], c) \in Seq(Wc)
      BY <1>2, AppendFacts
    <2>2. sq' \in [Qps -> Seq(1..MaxMsgs)] /\ cqe' \in [Qps -> Seq(Wc)]
      BY <1>1, <1>3, <1>4, <1>5, <2>1 DEF WrTypes
    <2>3. \A x \in Qps : Len(sq'[x]) <= MaxWr
      BY <1>1, <1>4, <1>6, ConstantFacts DEF WrTypes
    <2> QED
      BY <1>1, <2>2, <2>3 DEF WrTypes
  <1>9. CtxInv'
    BY <1>1, NetworkFrame DEF PInv, CtxInv, CtxTypes
  <1>10. ASSUME NEW k, NEW m \in Nat, Alone(k, m, q) PROVE Alone(k, m, q)'
    <2>1. k = "send" /\ rq[q] = <<>> /\ sq[q] \in Seq({m}) /\ cqe[q] \in Seq(SendDone(m, got[q]))
      BY <1>1, <1>10 DEF Alone
    <2>2. m = n /\ Tail(sq[q]) \in Seq({m})
      BY <1>1, <1>3, <2>1, HeadTailProperties
    <2>3. c \in SendDone(m, got[q])
      BY <1>1, <1>3, <1>5, <2>2 DEF SendDone
    <2>4. Append(cqe[q], c) \in Seq(SendDone(m, got[q]))
      BY <2>1, <2>3, AppendFacts
    <2> QED
      BY <1>1, <1>6, <2>1, <2>2, <2>4 DEF Alone
  <1>11. AloneInv'
    <2>1. \A x \in Qps \ {q} : /\ sq'[x] = sq[x] /\ rq'[x] = rq[x] /\ cqe'[x] = cqe[x]
                               /\ got'[x] \in Nat /\ got[x] <= got'[x]
      BY <1>1, <1>6, <1>7
    <2>2. \A k : \A m \in Nat : Alone(k, m, q) => Alone(k, m, q)'
      BY <1>10
    <2> QED
      BY ONLY PInv, <1>1, <1>9, <2>1, <2>2, QueueStep
  <1> QED
    BY <1>1, <1>8, <1>9, <1>11 DEF PInv

(* A queue pair breaks: its work requests are flushed as errors.           *)
LEMMA RetryStep ==
    ASSUME PInv, NEW q \in Qps, RetryExceeded(q)
    PROVE  PInv'
  <1> DEFINE fs == [i \in DOMAIN sq[q] |-> Error("send", sq[q][i])]
             fr == [i \in DOMAIN rq[q] |-> Error("recv", rq[q][i])]
  <1>1. /\ WrTypes /\ sq[q] # <<>> /\ st[q] = "rts"
        /\ st' = [st EXCEPT ![q] = "err"]
        /\ cqe' = [cqe EXCEPT ![q] = @ \o fs \o fr]
        /\ sq' = [sq EXCEPT ![q] = <<>>] /\ rq' = [rq EXCEPT ![q] = <<>>]
        /\ UNCHANGED <<qp_peer, cq_peer, peer_connected, qps, cqs, dest, sent, posted, got, pc, call, lied>>
    BY DEF RetryExceeded, PInv
  <1>2. sq[q] \in Seq(1..MaxMsgs) /\ rq[q] \in Seq(1..MaxMsgs) /\ cqe[q] \in Seq(Wc)
    BY <1>1 DEF WrTypes
  <1>3. fs \in Seq(Wc) /\ fr \in Seq(Wc)
    BY <1>2, FlushFacts, WcFacts
  <1>4. cqe[q] \o fs \o fr \in Seq(Wc)
    BY <1>2, <1>3, ConcatProperties
  <1>5. /\ sq'[q] = <<>> /\ rq'[q] = <<>> /\ cqe'[q] = cqe[q] \o fs \o fr
        /\ \A x \in Qps \ {q} : sq'[x] = sq[x] /\ rq'[x] = rq[x] /\ cqe'[x] = cqe[x]
    BY <1>1 DEF WrTypes
  <1>6. WrTypes'
    <2>1. <<>> \in Seq(1..MaxMsgs) /\ Len(<<>>) = 0 /\ 0 <= MaxWr
      BY EmptySeq, ConstantFacts
    <2>2. sq' \in [Qps -> Seq(1..MaxMsgs)] /\ rq' \in [Qps -> Seq(1..MaxMsgs)] /\ cqe' \in [Qps -> Seq(Wc)]
      BY <1>1, <1>4, <2>1 DEF WrTypes
    <2>3. \A x \in Qps : Len(sq'[x]) <= MaxWr /\ Len(rq'[x]) <= MaxWr
      BY <1>1, <1>5, <2>1 DEF WrTypes
    <2> QED
      BY <1>1, <2>2, <2>3 DEF WrTypes
  <1>7. CtxInv'
    <2>1. /\ st' \in [Qps -> {"new", "init", "rtr", "rts", "err", "dead"}]
          /\ \A x \in Qps : st[x] \in {"rts", "err"} => st'[x] \in {"rts", "err"}
      BY <1>1 DEF PInv, CtxInv, CtxTypes
    <2> QED
      BY <1>1, <2>1, NetworkFrame
  <1>8. ASSUME NEW k, NEW m \in Nat, Alone(k, m, q) PROVE Alone(k, m, q)'
    <2>1. k = "send" /\ rq[q] = <<>> /\ sq[q] \in Seq({m}) /\ cqe[q] \in Seq(SendDone(m, got[q]))
      BY <1>1, <1>8 DEF Alone
    <2>2. m \in 1..MaxMsgs
      <3>1. Head(sq[q]) \in {m}
        BY <1>1, <2>1, HeadTailProperties
      <3>2. Head(sq[q]) \in 1..MaxMsgs
        BY <1>1, <1>2, HeadTailProperties
      <3> QED
        BY <3>1, <3>2
    <2>3. \A x \in {m} : Error("send", x) \in SendDone(m, got[q])
      BY <2>2, WcFacts
    <2>4. rq[q] \in Seq({}) /\ \A x \in {} : Error("recv", x) \in SendDone(m, got[q])
      BY <2>1, EmptyFacts
    <2>5. fs \in Seq(SendDone(m, got[q])) /\ fr \in Seq(SendDone(m, got[q]))
      BY <2>1, <2>3, <2>4, FlushFacts
    <2>6. cqe[q] \o fs \o fr \in Seq(SendDone(m, got[q])) /\ <<>> \in Seq({m})
      BY <2>1, <2>5, ConcatProperties, EmptyFacts
    <2> QED
      BY <1>1, <1>5, <2>1, <2>6 DEF Alone
  <1>9. AloneInv'
    <2>1. \A x \in Qps \ {q} : /\ sq'[x] = sq[x] /\ rq'[x] = rq[x] /\ cqe'[x] = cqe[x]
                               /\ got'[x] \in Nat /\ got[x] <= got'[x]
      BY <1>1, <1>5, ConstantFacts DEF WrTypes
    <2>2. \A k : \A m \in Nat : Alone(k, m, q) => Alone(k, m, q)'
      BY <1>8
    <2> QED
      BY ONLY PInv, <1>1, <1>7, <2>1, <2>2, QueueStep
  <1> QED
    BY <1>1, <1>6, <1>7, <1>9 DEF PInv

-----------------------------------------------------------------------------
\* The steps that post nothing

(* The queues are left alone, and so is the peer of every call that waits. *)
LEMMA QueuesKept ==
    ASSUME PInv, CtxInv', UNCHANGED <<sq, rq, sent, posted, got, cqe, lied>>,
           \A t \in Threads : pc'[t] = "polling" =>
               pc[t] = "polling" /\ call'[t] = call[t] /\ qp_peer'[Home[t]] = qp_peer[Home[t]]
    PROVE  PInv'
  <1>1. WrTypes'
    BY DEF PInv, WrTypes
  <1>2. AloneInv'
    BY DEF PInv, AloneInv, Alone
  <1> QED
    BY <1>1, <1>2 DEF PInv

(* The steps that change contexts or threads and no work request.          *)
LEMMA ControlStep ==
    ASSUME PInv, NEW t \in Threads,
           \/ InitCq(t) \/ InitQp(t) \/ InitFails(t) \/ DestroyWaits(t) \/ PollTimesOut(t)
           \/ \E r \in Qps, to \in {"rtr", "rts"} : Connect(t, r, to)
    PROVE  PInv'
  <1>1. CtxInv /\ ThreadTypes
    BY DEF PInv, CtxInv
  <1>2. UNCHANGED <<sq, rq, sent, posted, got, cqe, lied>>
    BY DEF InitCq, InitQp, InitFails, DestroyWaits, PollTimesOut, Connect, wrvars
  <1>3. ASSUME InitQp(t) \/ InitFails(t) \/ PollTimesOut(t)
        PROVE  /\ ThreadTypes' /\ pc'[t] = "idle"
               /\ \A u \in Threads \ {t} : pc'[u] = pc[u] /\ call'[u] = call[u]
    BY <1>1, <1>3, ReturnFacts DEF InitQp, InitFails, PollTimesOut
  <1>4. CASE InitCq(t)
    <2>1. CtxInv'
      BY <1>1, <1>4, InitCqCtx
    <2>2. UNCHANGED <<qp_peer, call>> /\ \A u \in Threads : pc'[u] = "polling" => pc[u] = "polling"
      BY <1>1, <1>4 DEF InitCq, ThreadTypes
    <2> QED
      BY <1>2, <2>1, <2>2, QueuesKept
  <1>5. CASE InitQp(t)
    <2>1. CtxInv'
      BY <1>1, <1>5, InitEndCtx
    <2>2. Home[t] \in Machines /\ pc[t] = "init" /\ qp_peer[Home[t]] = None
      BY <1>1, <1>5, ConstantFacts DEF InitQp, CtxInv, Relies
    <2>3. \A m \in Machines \ {Home[t]} : qp_peer'[m] = qp_peer[m]
      BY <1>1, <1>5 DEF InitQp, CtxInv, CtxTypes
    <2>4. \A u \in Threads : pc[u] = "polling" => Home[u] \in Machines \ {Home[t]}
      BY <1>1, <2>2, ConstantFacts, PeerFacts
    <2>5. \A u \in Threads : pc'[u] = "polling" =>
               pc[u] = "polling" /\ call'[u] = call[u] /\ qp_peer'[Home[u]] = qp_peer[Home[u]]
      BY <1>3, <1>5, <2>3, <2>4
    <2> QED
      BY <1>2, <2>1, <2>5, QueuesKept
  <1>6. CASE InitFails(t)
    <2>1. CtxInv'
      BY <1>1, <1>6, InitEndCtx
    <2> QED
      BY <1>2, <1>3, <1>6, <2>1, QueuesKept DEF InitFails
  <1>7. CASE DestroyWaits(t)
    <2>1. CtxInv'
      BY <1>1, <1>7, DestroyWaitsCtx
    <2>2. UNCHANGED <<qp_peer, call>> /\ \A u \in Threads : pc'[u] = "polling" => pc[u] = "polling"
      BY <1>1, <1>7 DEF DestroyWaits, ThreadTypes, ctxvars
    <2> QED
      BY <1>2, <2>1, <2>2, QueuesKept
  <1>8. CASE PollTimesOut(t)
    <2>1. UNCHANGED <<qp_peer, cq_peer, peer_connected, qps, cqs, st, dest>> /\ pc[t] = "polling"
      BY <1>8 DEF PollTimesOut, ctxvars
    <2>2. CtxInv'
      BY <1>1, <1>3, <1>8, <2>1, CtxFrame DEF CtxInv, CtxTypes
    <2> QED
      BY <1>2, <1>3, <1>8, <2>1, <2>2, QueuesKept
  <1>9. ASSUME NEW r \in Qps, NEW to \in {"rtr", "rts"}, Connect(t, r, to) PROVE PInv'
    <2>1. CtxInv'
      BY <1>1, <1>9, ConnectCtx
    <2> QED
      BY <1>2, <1>9, <2>1, QueuesKept DEF Connect
  <1> QED
    BY <1>4, <1>5, <1>6, <1>7, <1>8, <1>9

(* The teardown clears the queues of a machine on which nobody polls.      *)
LEMMA DestroyStep ==
    ASSUME PInv, NEW t \in Threads, Destroy(t)
    PROVE  PInv'
  <1>1. CtxInv /\ ThreadTypes /\ WrTypes /\ pc[t] = "destroying" /\ Pollers(Home[t]) = {} /\ lied' = lied
    BY DEF PInv, CtxInv, Destroy
  <1>2. CtxInv'
    BY <1>1, DestroyCtx
  <1>3. PICK q \in Qps : q = qp_peer[Home[t]] /\ Site[q] = Home[t]
    BY <1>1, ConstantFacts DEF CtxInv, Relies, CtxTypes, NamedExactly
  <1>4. /\ sq' = [sq EXCEPT ![q] = <<>>] /\ rq' = [rq EXCEPT ![q] = <<>>]
        /\ cqe' = [cqe EXCEPT ![q] = <<>>]
        /\ sent' = [sent EXCEPT ![q] = 0] /\ posted' = [posted EXCEPT ![q] = 0]
        /\ got' = [got EXCEPT ![q] = 0]
        /\ qp_peer' = [qp_peer EXCEPT ![Home[t]] = None]
    BY <1>3 DEF Destroy, TeardownPeer
  <1>5. WrTypes'
    <2>1. /\ <<>> \in Seq(1..MaxMsgs) /\ <<>> \in Seq(Wc) /\ Len(<<>>) = 0 /\ 0 <= MaxWr
          /\ 0 \in 0..MaxMsgs /\ 0 <= 0
      BY EmptySeq, ConstantFacts
    <2> QED
      BY <1>1, <1>4, <2>1 DEF WrTypes
  <1>6. AloneInv'
    <2>1. SUFFICES ASSUME NEW u \in Threads, pc'[u] = "polling", call'[u].quiet
                   PROVE  Alone(call[u].kind, call[u].n, qp_peer[Home[u]])'
      BY DEF AloneInv
    <2>2. u # t /\ pc[u] = "polling" /\ call'[u] = call[u]
      BY <1>1, <2>1, ReturnFacts DEF Destroy
    <2>3. Home[u] # Home[t] /\ Home[u] \in Machines
      BY <1>1, <2>2, ConstantFacts DEF Pollers
    <2>4. qp_peer[Home[u]] # q /\ qp_peer'[Home[u]] = qp_peer[Home[u]]
      BY <1>1, <1>3, <1>4, <2>2, <2>3, PeerFacts DEF CtxInv, CtxTypes
    <2>5. \A x \in Qps \ {q} : /\ sq'[x] = sq[x] /\ rq'[x] = rq[x] /\ cqe'[x] = cqe[x]
                               /\ got'[x] \in Nat /\ got[x] <= got'[x]
      BY <1>1, <1>4, ConstantFacts DEF WrTypes
    <2> QED
      BY <1>2, <2>1, <2>2, <2>4, <2>5, OthersAlone
  <1> QED
    BY <1>1, <1>2, <1>5, <1>6 DEF PInv

(* Every step keeps the invariant.                                         *)
LEMMA StepPInv == PInv /\ [Next]_vars => PInv'
  <1> SUFFICES ASSUME PInv, [Next]_vars PROVE PInv'
    OBVIOUS
  <1>1. CASE UNCHANGED vars
    <2>1. /\ UNCHANGED <<qp_peer, cq_peer, peer_connected, qps, cqs, st, dest, pc, call>>
          /\ UNCHANGED <<sq, rq, sent, posted, got, cqe, lied>>
      BY <1>1 DEF vars, ctxvars, wrvars
    <2>2. CtxInv'
      BY <2>1, NetworkFrame DEF PInv, CtxInv, CtxTypes
    <2> QED
      BY <2>1, <2>2, QueuesKept
  <1>2. ASSUME NEW t \in Threads, RemoteSend(t) \/ WriteImm(t) \/ RemoteRecv(t) \/ PostRecv(t) \/ PollRecv(t)
        PROVE  PInv'
    BY <1>2, SendStep, RemoteRecvStep, PostRecvStep, PollRecvStep
  <1>3. ASSUME NEW t \in Threads, InitCq(t) \/ DestroyWaits(t) \/ Steps(t)
                                  \/ \E r \in Qps, to \in {"rtr", "rts"} : Connect(t, r, to)
        PROVE  PInv'
    BY <1>3, ControlStep, DestroyStep, PollGetsStep DEF Steps
  <1>4. ASSUME NEW q \in Qps, Ack(q) \/ RetryExceeded(q) \/ \E r \in Qps : Deliver(q, r) PROVE PInv'
    BY <1>4, AckStep, RetryStep, DeliverStep
  <1> QED
    BY <1>1, <1>2, <1>3, <1>4 DEF Next

-----------------------------------------------------------------------------
\* Theorems

(* The contexts of all machines, their queue pairs and CQs and the calls   *)
(* that use them agree through failing set-ups, breaks, timeouts and       *)
(* reconnections, when the control calls come from one thread per machine. *)
THEOREM PeerInvariant == OneControlThread => (Spec => []PInv)
  BY InitPInv, StepPInv, PTL DEF Spec

(* With one control thread per machine, which the driver leaves to its     *)
(* users, no queue pair and no CQ leaks, and peer_connected, the only      *)
(* thing a transfer tests, promises both, beside any number of data calls. *)
THEOREM PeerIsSafe == OneControlThread => (Spec => []PeerSafe)
  <1>1. ASSUME PInv PROVE NothingLeaks
    <2>1. SUFFICES ASSUME NEW m \in Machines, \A t \in Threads : Home[t] = m => pc[t] # "init"
                   PROVE  /\ {q \in qps : Site[q] = m} = {qp_peer[m]} \ {None}
                          /\ {q \in cqs : Site[q] = m} = {qp_peer[m]} \ {None}
      BY DEF NothingLeaks
    <2>2. cq_peer[m] = qp_peer[m]
      BY <1>1, <2>1, ConstantFacts DEF PInv, CtxInv, NamedExactly, BareCq
    <2>3. qp_peer[m] \in Qps \cup {None} /\ qps \subseteq Qps /\ cqs \subseteq Qps
      BY <1>1 DEF PInv, CtxInv, CtxTypes
    <2> QED
      BY <1>1, <2>2, <2>3, ConstantFacts DEF PInv, CtxInv, NamedExactly
  <1>2. ASSUME PInv PROVE ConnectedHasPeer
    BY <1>2 DEF PInv, CtxInv, Connected, NamedExactly, ConnectedHasPeer
  <1>3. ASSUME PInv PROVE TypeOK
    <2>1. lied = FALSE
      BY <1>3 DEF PInv
    <2> QED
      BY <1>3, <2>1, TypesImplyTypeOK DEF PInv
  <1>4. PInv => PeerSafe
    BY <1>1, <1>2, <1>3 DEF PeerSafe
  <1> QED
    BY <1>4, PeerInvariant, PTL

(* A call keeps the queue pair and the CQ it polls until it returns: the   *)
(* read side of rdma_sem keeps DESTROY_PEER away.  Control calls of one    *)
(* thread per machine are assumed.                                         *)
THEOREM PollKeepsPeer == OneControlThread => (Spec => []ReadersKeepPeer)
  <1>1. PInv => ReadersKeepPeer
    BY PeerFacts DEF PInv, ReadersKeepPeer
  <1> QED
    BY <1>1, PeerInvariant, PTL

(* A call that shares the CQ with nothing, neither another call nor work   *)
(* left by one that timed out, never takes a completion that is not its    *)
(* own for its success.  Control calls of one thread per machine are       *)
(* assumed.                                                                *)
THEOREM AloneTellsTruth == OneControlThread => (Spec => []FalseOnlyIfShared)
  <1>1. PInv => FalseOnlyIfShared
    BY DEF PInv, FalseOnlyIfShared
  <1> QED
    BY <1>1, PeerInvariant, PTL

=============================================================================
