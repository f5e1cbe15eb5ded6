----------------------------- MODULE MCKvCache ------------------------------
(***************************************************************************)
(* Two layers of two chunks, a window of two credits: the sender stalls    *)
(* twice, credits queue up on the TCP stream, and the sentinel may meet a  *)
(* receiver that has no receive posted yet.  Three iterations: the later   *)
(* ones start with what the earlier ones left, and a completion queue of   *)
(* four that they may overrun.                                             *)
(***************************************************************************)
EXTENDS KvCache
=============================================================================
