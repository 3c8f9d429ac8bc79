--------------------------- MODULE MCVideoQuality ---------------------------
(* Two consumers of one producer, each with two spatial layers. *)
EXTENDS VideoQuality, TLC

CONSTANTS c1, c2

MCLayers == {0, 1}
Symmetric == Permutations(Consumers)
=============================================================================
