----------------------------- MODULE MCPeerQueue -----------------------------
(* Small queues for TLC: one thread that requests, one that responds. *)
EXTENDS PeerQueue, TLC

CONSTANTS r1, n1

OneEach == (r1 :> 1) @@ (n1 :> 1)
OneTwo  == (r1 :> 1) @@ (n1 :> 2)
=============================================================================
