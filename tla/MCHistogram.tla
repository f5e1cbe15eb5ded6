---------------------------- MODULE MCHistogram ----------------------------
(* Two recorders and a reader; a latency in each of three buckets.         *)
EXTENDS Histogram
=============================================================================
