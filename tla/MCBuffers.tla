------------------------------ MODULE MCBuffers -----------------------------
(* Two slots, two handles that wrap at once, two mappings and two dma-bufs: *)
(* slots and handles are reused while older mappings, exports and pending  *)
(* releases of them exist.                                                 *)
EXTENDS Device

=============================================================================
