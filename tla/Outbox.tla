------------------------------- MODULE Outbox -------------------------------
(***************************************************************************)
(* What a peer's message queue promises its callers: a message handed to   *)
(* it is delivered at most once, and only after it was handed over; none   *)
(* disappears while the client is connected unless writing it fails; and   *)
(* while no write has failed each is delivered in the end.  It promises no *)
(* order.  PeerQueue implements this.                                      *)
(***************************************************************************)
EXTENDS Sequences

CONSTANT Message

VARIABLES
  status,    \* what has become of each message
  delivered, \* the messages delivered, in their order
  mode       \* "working", "stalled" after a failed write, "closed"

box == <<status, delivered, mode>>

OutboxOK ==
  /\ status \in [Message -> {"new", "waiting", "delivered", "lost"}]
  /\ delivered \in Seq(Message)
  /\ mode \in {"working", "stalled", "closed"}

Init ==
  /\ status = [m \in Message |-> "new"]
  /\ delivered = <<>>
  /\ mode = "working"

Becomes(m, from, to) == status[m] = from /\ status' = [status EXCEPT ![m] = to]

Send(m) == Becomes(m, "new", "waiting") /\ UNCHANGED <<delivered, mode>>

Deliver(m) ==
  /\ mode # "closed"
  /\ Becomes(m, "waiting", "delivered")
  /\ delivered' = Append(delivered, m)
  /\ UNCHANGED mode

Fail(m) ==
  /\ mode # "closed"
  /\ Becomes(m, "waiting", "lost")
  /\ mode' = "stalled"
  /\ UNCHANGED delivered

Close == mode # "closed" /\ mode' = "closed" /\ UNCHANGED <<status, delivered>>

\* What is still waiting when the client is gone may be thrown away.
Discard(m) == mode = "closed" /\ Becomes(m, "waiting", "lost") /\ UNCHANGED <<delivered, mode>>

Next == Close \/ \E m \in Message : Send(m) \/ Deliver(m) \/ Fail(m) \/ Discard(m)

\* Nothing waits for ever while the queue works.
Delivery == \A m \in Message : status[m] = "waiting" ~> status[m] # "waiting" \/ mode # "working"

Safety == Init /\ [][Next]_box

Spec == Safety /\ Delivery
=============================================================================
