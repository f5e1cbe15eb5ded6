----------------------------- MODULE MCChannel -----------------------------
(* Two threads on one channel whose rings have two slots and whose indices *)
(* wrap at four: both rings fill, empty and wrap in every phase.           *)
EXTENDS Channel

=============================================================================
