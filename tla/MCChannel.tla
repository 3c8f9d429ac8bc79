----------------------------- MODULE MCChannel ------------------------------
(* Two calls over very few ids: they can draw one id by overlapping in      *)
(* genRequestId(), and the counter can wrap between them.                   *)
EXTENDS Channel
=============================================================================
