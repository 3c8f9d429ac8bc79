------------------------ MODULE MCSimulcastConsumer ------------------------
(***************************************************************************)
(* Sixteen sequence numbers, and a clock of three ticks a frame on which   *)
(* 75 ms are six; both wrap.  The number gap is wider than the network's   *)
(* window, as 100 packets are.                                             *)
(***************************************************************************)
EXTENDS SimulcastConsumer

MCFirstSeq == [l \in 0 .. 2 |-> 12 - 5 * l]
MCFirstTs == [l \in 0 .. 2 |-> 50 - 20 * l]

Two(managed, off, prompt, frames, window) ==
    [layers |-> 2, managed |-> managed, off |-> off, prompt |-> prompt, torn |-> {2},
     frames |-> frames, window |-> window, faults |-> 1]

Three(managed, frames, interruptions) ==
    [layers |-> 3, managed |-> managed, off |-> {}, prompt |-> TRUE, torn |-> {2},
     frames |-> frames, window |-> 1, faults |-> interruptions]

\* Two layers whose packets overtake each other by up to two frames, two on
\* a transport still to be connected, and three that only change places.
MCPlans ==
    {Two(FALSE, {}, TRUE, 5, 3), Two(FALSE, {"transport"}, FALSE, 3, 2),
     Two(TRUE, {}, TRUE, 3, 2), Three(FALSE, 3, 2), Three(TRUE, 2, 1)}
=============================================================================
