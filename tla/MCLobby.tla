------------------------------- MODULE MCLobby -------------------------------
(* Three web sockets for TLC, two of them of one client that reconnects. *)
EXTENDS Lobby, TLC

CONSTANTS s1, s2, s3, alice, bob

Reconnecting == (s1 :> alice) @@ (s2 :> bob) @@ (s3 :> bob)
Alike        == Permutations({s2, s3})
=============================================================================
