------------------------------ MODULE MCGpuP2P ------------------------------
(* Two threads, two slots and two pins: a slot is reused, the table fills. *)
EXTENDS GpuP2P
=============================================================================
