------------------------------ MODULE Pipeline ------------------------------
(***************************************************************************)
(* What a channel promises its owner.  Entries that SUBMIT accepted are    *)
(* processed one at a time in the order of acceptance and handed back by   *)
(* COMPLETE in that order, each exactly once and with its payload          *)
(* incremented exactly once.  Entries are given up only while the channel  *)
(* is being closed, and a channel that is opened again starts empty.       *)
(***************************************************************************)
EXTENDS Integers, Sequences

CONSTANTS Capacity,    \* entries a ring can hold
          PayloadMod

VARIABLES phase,       \* "free", "open" or "closing"
          pending,     \* accepted and not yet processed, oldest first
          ready        \* processed and not yet handed back, oldest first

vars == <<phase, pending, ready>>

Init == /\ phase = "free"
        /\ pending = <<>>
        /\ ready = <<>>

Open == /\ phase = "free"
        /\ phase' = "open"
        /\ UNCHANGED <<pending, ready>>

Accept == /\ phase = "open"
          /\ Len(pending) <= Capacity
          /\ \E p \in 0..PayloadMod-1 : pending' = Append(pending, p)
          /\ UNCHANGED <<phase, ready>>

Process == /\ phase # "free"
           /\ pending # <<>>
           /\ Len(ready) < Capacity
           /\ ready' = Append(ready, (Head(pending) + 1) % PayloadMod)
           /\ pending' = Tail(pending)
           /\ UNCHANGED phase

HandBack == /\ phase = "open"
            /\ ready # <<>>
            /\ ready' = Tail(ready)
            /\ UNCHANGED <<phase, pending>>

Close == /\ phase = "open"
         /\ phase' = "closing"
         /\ UNCHANGED <<pending, ready>>

GiveUp == /\ phase = "closing"
          /\ pending # <<>>
          /\ pending' = Tail(pending)
          /\ UNCHANGED <<phase, ready>>

Free == /\ phase = "closing"
        /\ phase' = "free"
        /\ pending' = <<>>
        /\ ready' = <<>>

Next == Open \/ Accept \/ Process \/ HandBack \/ Close \/ GiveUp \/ Free

Spec == Init /\ [][Next]_vars

=============================================================================
