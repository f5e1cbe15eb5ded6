------------------------------- MODULE MCRdma -------------------------------
(* Two threads, one buffer that is destroyed and made again, two MR slots  *)
(* and three handles: slots are reused while an older handle is on its way.*)
EXTENDS Rdma

=============================================================================
