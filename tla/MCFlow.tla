------------------------------- MODULE MCFlow -------------------------------
(* Credit windows at their corners: high = max, high = low + 1, a window   *)
(* below and above the queue depth, and two the driver refuses.            *)
EXTENDS Bench

MCConfigs == {[max |-> 2, high |-> 2, low |-> 1], [max |-> 3, high |-> 3, low |-> 1],
              [max |-> 4, high |-> 3, low |-> 2], [max |-> 2, high |-> 3, low |-> 1],
              [max |-> 6, high |-> 3, low |-> 1]}

=============================================================================
