---------------------------- MODULE MCMediaPath ----------------------------
(***************************************************************************)
(* A small instance of the media path: 16 sequence numbers instead of      *)
(* 65536, the code's limits in the same order (1000 < 1500 < 3000 < 10000  *)
(* < half a cycle), a publisher whose numbers and timestamps wrap.         *)
(***************************************************************************)
EXTENDS MediaPath

\* Short courses with every fault, a long one - more than a cycle of
\* numbers - with faults of the network only, and one with a longer loss.
MCPlans ==
    {[packets |-> 6, padding |-> {4}, large |-> {}, joined |-> FALSE, calm |-> FALSE, faults |-> 2],
     [packets |-> 4, padding |-> {}, large |-> {2}, joined |-> TRUE, calm |-> FALSE, faults |-> 2],
     [packets |-> 20, padding |-> {3, 8, 11, 16}, large |-> {7}, joined |-> FALSE, calm |-> TRUE, faults |-> 2],
     [packets |-> 6, padding |-> {}, large |-> {}, joined |-> FALSE, calm |-> TRUE, faults |-> 3]}

MCJumps == {6, -6}
=============================================================================
