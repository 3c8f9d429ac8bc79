--------------------------- MODULE RequestService ---------------------------
(***************************************************************************)
(* What the channel promises its callers: a call asks the worker at most   *)
(* once, the worker serves it at most once and only while it runs, and a   *)
(* call is answered at most once, with the answer to a call that was       *)
(* served and that no other call gets - its own, unless two calls drew one *)
(* request id.  A call whose request is dropped is never served; only a    *)
(* shared id can still bring it an answer.  Channel implements this.       *)
(***************************************************************************)
EXTENDS Integers

CONSTANTS Calls, None

VARIABLES
  progress, \* "new", then "refused", "dropped", or "asked" and then "served"
  answer,   \* what each call was answered: [call, ok], or None
  id,       \* the request id each call drew, or None
  running   \* the worker runs

service == <<progress, answer, id, running>>

Init ==
  /\ progress = [c \in Calls |-> "new"]
  /\ answer = [c \in Calls |-> None]
  /\ id = [c \in Calls |-> None]
  /\ running = TRUE

Becomes(c, from, to) == progress[c] = from /\ progress' = [progress EXCEPT ![c] = to]

Draw(c) ==
  /\ progress[c] = "new" /\ id[c] = None
  /\ id' = [id EXCEPT ![c] = id'[c]]
  /\ UNCHANGED <<progress, answer, running>>

Ask(c) == id[c] # None /\ Becomes(c, "new", "asked") /\ UNCHANGED <<answer, id, running>>

\* The channel is closed, or the request too large.  (A call refused after an
\* answer to its id has reached it ends as if it had been served.)
Refuse(c) ==
  /\ Becomes(c, "new", IF answer[c] = None THEN "refused" ELSE "served")
  /\ UNCHANGED <<answer, id, running>>

\* The request queue does not take the request, and the call waits.
Drop(c) == id[c] # None /\ Becomes(c, "new", "dropped") /\ UNCHANGED <<answer, id, running>>

Serve(c) == running /\ Becomes(c, "asked", "served") /\ UNCHANGED <<answer, id, running>>

Answer(c, d) ==
  /\ progress[c] # "refused" /\ answer[c] = None
  /\ progress[d] = "served" /\ id[d] = id[c]
  /\ \A e \in Calls : answer[e] # None => answer[e].call # d
  /\ \E ok \in BOOLEAN : answer' = [answer EXCEPT ![c] = [call |-> d, ok |-> ok]]
  /\ UNCHANGED <<progress, id, running>>

Stop == running /\ running' = FALSE /\ UNCHANGED <<progress, answer, id>>

Next ==
  \/ Stop
  \/ \E c \in Calls :
       \/ Draw(c) \/ Ask(c) \/ Refuse(c) \/ Drop(c) \/ Serve(c)
       \/ \E d \in Calls : Answer(c, d)

Safety == Init /\ [][Next]_service
=============================================================================
