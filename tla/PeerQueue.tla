------------------------------ MODULE PeerQueue ------------------------------
(***************************************************************************)
(* How messages reach one client (sfu/src/rooms/peer.cpp). Any thread may  *)
(* queue a message for a peer: the coroutine of the peer's own requests,   *)
(* those of the other peers in its room, and the channel's pool thread.    *)
(* The flag _executing is meant to keep one message in flight; the         *)
(* coroutine that has sent one clears it and takes the next.               *)
(***************************************************************************)
EXTENDS Integers, Sequences, FiniteSets

CONSTANTS
  Senders,    \* the threads that queue messages for the peer
  Requesters, \* those that call request()
  Responders, \* those that call accept() or reject(); the others call notify()
  Count,      \* how many messages each of them sends, one after the other
  None        \* no value

ASSUME SendersAssumption ==
  /\ Requesters \subseteq Senders
  /\ Responders \subseteq Senders
  /\ Requesters \cap Responders = {}
ASSUME CountAssumption == Count \in [Senders -> Nat]
Message == UNION {[from : {s}, n : 1 .. Count[s]] : s \in Senders}
ASSUME NoneAssumption == None \notin Message /\ Senders \cap Message = {}

\* sendMessage() runs on a sender's thread, or in the coroutine of the message
\* that was sent before.
Runner == Senders \cup Message

VARIABLES
  closed,     \* Peer::_closed
  socket,     \* whether Peer::_socket is set
  executing,  \* Peer::_executing
  queue,      \* Peer::_messageQueue, which keeps each thread's messages in order
  requestMap, \* Peer::_requestMap
  sent,       \* how many messages each sender has queued
  pc,         \* where each sender's call and each message's coroutine stands
  carry,      \* the message each runner has dequeued and not yet sent off
  wire,       \* the messages written to the web socket
  answered,   \* the requests the client has responded to
  resumed,    \* those whose response found its request
  failed,     \* history: whether a write has failed
  overlapped  \* history: the pairs of messages that were both on their way

vars == <<closed, socket, executing, queue, requestMap, sent, pc, carry, wire,
          answered, resumed, failed, overlapped>>

SenderPC    == {"idle", "insert", "check", "run", "dequeue", "send"}
CoroutinePC == {"none", "flight", "written", "run", "dequeue", "send", "done", "failed"}

TypeOK ==
  /\ closed \in BOOLEAN
  /\ socket \in BOOLEAN
  /\ executing \in BOOLEAN
  /\ queue \in [Senders -> Seq(Message)]
  /\ requestMap \subseteq Message
  /\ sent \in [Senders -> Nat]
  /\ \A s \in Senders : sent[s] <= Count[s]
  /\ pc \in [Runner -> SenderPC \cup CoroutinePC]
  /\ \A s \in Senders : pc[s] \in SenderPC
  /\ \A m \in Message : pc[m] \in CoroutinePC
  /\ carry \in [Runner -> Message \cup {None}]
  /\ wire \in Seq(Message)
  /\ answered \subseteq Message
  /\ resumed \subseteq answered
  /\ failed \in BOOLEAN
  /\ overlapped \subseteq SUBSET Message

Init ==
  /\ closed = FALSE
  /\ socket = TRUE
  /\ executing = FALSE
  /\ queue = [s \in Senders |-> <<>>]
  /\ requestMap = {}
  /\ sent = [s \in Senders |-> 0]
  /\ pc = [r \in Runner |-> IF r \in Senders THEN "idle" ELSE "none"]
  /\ carry = [r \in Runner |-> None]
  /\ wire = <<>>
  /\ answered = {}
  /\ resumed = {}
  /\ failed = FALSE
  /\ overlapped = {}

Goto(r, from, to) == pc[r] = from /\ pc' = [pc EXCEPT ![r] = to]

\* Where a runner goes when runOne() returns.
Finished(r) == IF r \in Senders THEN "idle" ELSE "done"

-----------------------------------------------------------------------------
(* request(), notify() and accept()                                        *)

\* Without a socket request() and notify() do nothing; accept() and reject()
\* queue their response all the same.
Enqueue(s) ==
  LET m == [from |-> s, n |-> sent[s] + 1] IN
    /\ socket \/ s \in Responders
    /\ sent[s] < Count[s]
    /\ Goto(s, "idle", IF s \in Requesters THEN "insert" ELSE "check")
    /\ queue' = [queue EXCEPT ![s] = Append(@, m)]
    /\ sent' = [sent EXCEPT ![s] = @ + 1]
    /\ UNCHANGED <<closed, socket, executing, requestMap, carry, wire, answered, resumed,
                   failed, overlapped>>

\* Mutated form of Insert: the request is not stored.
InsertNothing(s) ==
  /\ Goto(s, "insert", "check")
  /\ UNCHANGED <<closed, socket, executing, queue, requestMap, sent, carry, wire, answered,
                 resumed, failed, overlapped>>

\* A request is stored only after it has been queued.
Insert(s) ==
  /\ Goto(s, "insert", "check")
  /\ requestMap' = requestMap \cup {[from |-> s, n |-> sent[s]]}
  /\ UNCHANGED <<closed, socket, executing, queue, sent, carry, wire, answered, resumed,
                 failed, overlapped>>

Check(s) ==
  /\ Goto(s, "check", IF executing THEN "idle" ELSE "run")
  /\ UNCHANGED <<closed, socket, executing, queue, requestMap, sent, carry, wire, answered,
                 resumed, failed, overlapped>>

-----------------------------------------------------------------------------
(* runOne() and sendMessage()                                              *)

RunOne(r) ==
  /\ Goto(r, "run", IF executing THEN Finished(r) ELSE "dequeue")
  /\ UNCHANGED <<closed, socket, executing, queue, requestMap, sent, carry, wire, answered,
                 resumed, failed, overlapped>>

\* Messages taken from the queue and not yet written.
OnTheirWay == {m \in Message : pc[m] = "flight"} \cup ({carry[r] : r \in Runner} \ {None})

DequeueNone(r) ==
  /\ \A s \in Senders : queue[s] = <<>>
  /\ Goto(r, "dequeue", Finished(r))
  /\ UNCHANGED <<closed, socket, executing, queue, requestMap, sent, carry, wire, answered,
                 resumed, failed, overlapped>>

\* Mutated form of DequeueOne: the queue gives a thread's last message first.
DequeueLast(r) ==
  \E s \in Senders :
    /\ queue[s] # <<>>
    /\ Goto(r, "dequeue", "send")
    /\ LET m == queue[s][Len(queue[s])] IN
         /\ carry' = [carry EXCEPT ![r] = m]
         /\ overlapped' = overlapped \cup {{m, o} : o \in OnTheirWay}
    /\ queue' = [queue EXCEPT ![s] = SubSeq(@, 1, Len(@) - 1)]
    /\ UNCHANGED <<closed, socket, executing, requestMap, sent, wire, answered, resumed,
                   failed>>

DequeueOne(r) ==
  \E s \in Senders :
    /\ queue[s] # <<>>
    /\ Goto(r, "dequeue", "send")
    /\ carry' = [carry EXCEPT ![r] = Head(queue[s])]
    /\ overlapped' = overlapped \cup {{Head(queue[s]), o} : o \in OnTheirWay}
    /\ queue' = [queue EXCEPT ![s] = Tail(@)]
    /\ UNCHANGED <<closed, socket, executing, requestMap, sent, wire, answered, resumed,
                   failed>>

\* Mutated form of SendMessage: a message that finds another in flight is dropped.
SendMessageAlone(r) ==
  LET m == carry[r] IN
    /\ pc[r] = "send"
    /\ carry' = [carry EXCEPT ![r] = None]
    /\ IF socket /\ ~executing
       THEN /\ executing' = TRUE
            /\ pc' = [pc EXCEPT ![r] = Finished(r), ![m] = "flight"]
       ELSE /\ pc' = [pc EXCEPT ![r] = Finished(r)]
            /\ UNCHANGED executing
    /\ UNCHANGED <<closed, socket, queue, requestMap, sent, wire, answered, resumed,
                   failed, overlapped>>

\* The flag is set and the message's coroutine started, unless the socket is gone.
SendMessage(r) ==
  LET m == carry[r] IN
    /\ pc[r] = "send"
    /\ carry' = [carry EXCEPT ![r] = None]
    /\ IF socket
       THEN /\ executing' = TRUE
            /\ pc' = [pc EXCEPT ![r] = Finished(r), ![m] = "flight"]
       ELSE /\ pc' = [pc EXCEPT ![r] = Finished(r)]
            /\ UNCHANGED executing
    /\ UNCHANGED <<closed, socket, queue, requestMap, sent, wire, answered, resumed,
                   failed, overlapped>>

-----------------------------------------------------------------------------
(* SendMessageCoroutine                                                    *)

\* A frame is written under the write lock, which coroutines get in any order.
Write(m) ==
  /\ ~closed
  /\ Goto(m, "flight", "written")
  /\ wire' = Append(wire, m)
  /\ UNCHANGED <<closed, socket, executing, queue, requestMap, sent, carry, answered,
                 resumed, failed, overlapped>>

\* A write that fails ends the coroutine, and its completion never runs.
FailWrite(m) ==
  /\ ~closed
  /\ Goto(m, "flight", "failed")
  /\ failed' = TRUE
  /\ UNCHANGED <<closed, socket, executing, queue, requestMap, sent, carry, wire, answered,
                 resumed, overlapped>>

\* Mutated form of Complete: the flag stays set.
CompleteExecuting(m) ==
  /\ Goto(m, "written", "run")
  /\ UNCHANGED <<closed, socket, executing, queue, requestMap, sent, carry, wire, answered,
                 resumed, failed, overlapped>>

Complete(m) ==
  /\ Goto(m, "written", "run")
  /\ executing' = FALSE
  /\ UNCHANGED <<closed, socket, queue, requestMap, sent, carry, wire, answered, resumed,
                 failed, overlapped>>

-----------------------------------------------------------------------------
\* The client responds and handleResponse() looks the request up: when it finds
\* it, the consumer it announced is resumed.
HandleResponse(m) ==
  /\ ~closed
  /\ m.from \in Requesters
  /\ pc[m] \in {"written", "run", "dequeue", "send", "done"}
  /\ m \notin answered
  /\ answered' = answered \cup {m}
  /\ resumed' = resumed \cup (requestMap \cap {m})
  /\ requestMap' = requestMap \ {m}
  /\ UNCHANGED <<closed, socket, executing, queue, sent, pc, carry, wire, failed, overlapped>>

\* The web socket is destroyed: its connection is closed, the requests are
\* forgotten, and nothing more is read from it or written to it ...
Close ==
  /\ ~closed
  /\ closed' = TRUE
  /\ requestMap' = {}
  /\ UNCHANGED <<socket, executing, queue, sent, pc, carry, wire, answered, resumed,
                 failed, overlapped>>

\* ... and the lobby then takes it from the peer.
InvalidateSocket ==
  /\ closed /\ socket
  /\ socket' = FALSE
  /\ UNCHANGED <<closed, executing, queue, requestMap, sent, pc, carry, wire, answered,
                 resumed, failed, overlapped>>

-----------------------------------------------------------------------------
Run(r) == RunOne(r) \/ DequeueNone(r) \/ DequeueOne(r) \/ SendMessage(r)

Call(s) == Insert(s) \/ Check(s) \/ Run(s)

Coroutine(m) == Write(m) \/ Complete(m) \/ Run(m)

Next ==
  \/ \E s \in Senders : Enqueue(s) \/ Call(s)
  \/ \E m \in Message : Coroutine(m) \/ FailWrite(m) \/ HandleResponse(m)
  \/ Close \/ InvalidateSocket

\* A call that has begun goes on, and so do the executor's coroutines. Nothing
\* makes a client respond, a write fail or a socket close.
Fairness ==
  /\ \A s \in Senders : WF_vars(Call(s))
  /\ \A m \in Message : WF_vars(Coroutine(m))

Spec     == Init /\ [][Next]_vars
FairSpec == Spec /\ Fairness

-----------------------------------------------------------------------------
\* While _executing is set some coroutine has yet to clear it, so no message is
\* left in the queue behind a flag nobody owns, unless a write failed.
ExecutingHasOwner ==
  executing => failed \/ \E m \in Message : pc[m] \in {"flight", "written"}

\* No message stays in the queue of an open peer when every call and coroutine
\* is over.
NothingStuck ==
  (\A s \in Senders : pc[s] = "idle")
    /\ (\A m \in Message : pc[m] \in {"none", "done"}) /\ ~closed
  => \A s \in Senders : queue[s] = <<>>

\* Messages of one thread arrive in the order in which it queued them, unless
\* both were on their way at once: _executing is set after the queue is read,
\* so two threads may each take a message (Peer::runOne).
InOrderUnlessOverlapping ==
  \A i, j \in DOMAIN wire :
    i < j /\ wire[i].from = wire[j].from /\ wire[i].n > wire[j].n
      => {wire[i], wire[j]} \in overlapped

\* A response misses its request only while request() has yet to store it.
UnmatchedOnlyBeforeStored ==
  [][\A m \in (answered' \ answered) \ resumed' :
       pc[m.from] = "insert" /\ sent[m.from] = m.n]_vars

-----------------------------------------------------------------------------
(* The queue as its callers see it.                                        *)

\* A message waits while it is in its sender's queue (which holds the last
\* ones it sent), taken out of it, or in flight.
Waiting(m) ==
  \/ m.n > sent[m.from] - Len(queue[m.from])
  \/ \E r \in Runner : carry[r] = m
  \/ pc[m] = "flight"

Status(m) ==
  IF m.n > sent[m.from] THEN "new"
  ELSE IF pc[m] \in {"written", "run", "dequeue", "send", "done"} THEN "delivered"
  ELSE IF Waiting(m) THEN "waiting" ELSE "lost"

Mode == IF closed THEN "closed" ELSE IF failed THEN "stalled" ELSE "working"

Box == INSTANCE Outbox WITH status <- [m \in Message |-> Status(m)],
                            delivered <- wire, mode <- Mode

\* The queue is an outbox: a message is written at most once and only after it
\* was queued, and is never lost but with its socket or by a write that fails.
DeliversAtMostOnce == Box!Safety

\* Every message queued is written in the end, unless a write fails or the
\* socket closes.
EveryMessageWritten == Box!Delivery

\* What the comment in Room::createConsumer says: upon receipt of the response,
\* the consumer is resumed.
ResumedUponResponse == answered \subseteq resumed
=============================================================================
