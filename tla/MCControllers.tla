---------------------------- MODULE MCControllers ----------------------------
(* Two threads over a server, and a router with a transport with a producer. *)
EXTENDS Controllers

CONSTANTS s1, r1, t1, p1

MCOwner == (s1 :> Root) @@ (r1 :> Root) @@ (t1 :> r1) @@ (p1 :> t1)
==============================================================================
