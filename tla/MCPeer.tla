------------------------------- MODULE MCPeer -------------------------------
(* Machine a has a second thread and initialises its peer twice.           *)
EXTENDS Peer, TLC
CONSTANTS a, b, a1, a2, b1
MCHome == (a1 :> a) @@ (a2 :> a) @@ (b1 :> b)
MCCalls == (a1 :> {"send"}) @@ (a2 :> {"recv"}) @@ (b1 :> {"write", "post", "poll"})
MCSite == <<a, a, b>>
=============================================================================
