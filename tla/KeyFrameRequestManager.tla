----------------------- MODULE KeyFrameRequestManager -----------------------
(***************************************************************************)
(* The requests for key frames a producer sends its publisher, worker/src/ *)
(* RTC/KeyFrameRequestManager.cpp, for one SSRC:                           *)
(*   pending   "retry" or "last" while a request waits for its key frame   *)
(*             (its 1 s timer runs): the timeout sends it again, or ends it *)
(*   delayer   "idle" or "wanted" while the delay after a request runs;    *)
(*             "wanted" when another request came meanwhile                *)
(* An operation returns [kf, sent]: the new state, and whether             *)
(* OnKeyFrameNeeded was called, which sends a PLI.                         *)
(***************************************************************************)
CONSTANT Delayed   \* keyFrameRequestDelay > 0

ASSUME DelayedAssumption == Delayed \in BOOLEAN

KeyFrameStates ==
    [pending : {"none", "retry", "last"}, delayer : {"none", "idle", "wanted"}]

NewKeyFrameRequestManager == [pending |-> "none", delayer |-> "none"]

\* Mutated form: a request during the delay is not remembered.
KeyFrameNeededForgotten(kf) ==
    IF Delayed /\ kf.delayer # "none"
    THEN [kf |-> kf, sent |-> FALSE]
    ELSE [kf |-> [pending |-> "retry",
                  delayer |-> IF Delayed THEN "idle" ELSE kf.delayer],
          sent |-> kf.pending = "none"]

KeyFrameNeeded(kf) ==
    IF Delayed /\ kf.delayer # "none"
    THEN [kf |-> [kf EXCEPT !.delayer = "wanted"], sent |-> FALSE]
    ELSE [kf |-> [pending |-> "retry",
                  delayer |-> IF Delayed THEN "idle" ELSE kf.delayer],
          sent |-> kf.pending = "none"]

\* A new delayer replaces a running one, with what it had been asked for.
ForceKeyFrameNeeded(kf) ==
    [kf |-> [pending |-> "retry", delayer |-> IF Delayed THEN "idle" ELSE kf.delayer],
     sent |-> TRUE]

KeyFrameReceived(kf) == [kf EXCEPT !.pending = "none"]

\* The timer of the pending request.
OnKeyFrameRequestTimeout(kf) ==
    [kf |-> [kf EXCEPT !.pending = IF @ = "retry" THEN "last" ELSE "none"],
     sent |-> kf.pending = "retry"]

\* The timer of the delayer.
OnKeyFrameDelayTimeout(kf) ==
    LET ended == [kf EXCEPT !.delayer = "none"]
    IN  IF kf.delayer = "wanted" THEN KeyFrameNeeded(ended) ELSE [kf |-> ended, sent |-> FALSE]
=============================================================================
