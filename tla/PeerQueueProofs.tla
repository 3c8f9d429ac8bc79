--------------------------- MODULE PeerQueueProofs ---------------------------
(***************************************************************************)
(* Proofs about PeerQueue, for any threads and any number of messages.     *)
(*                                                                         *)
(* Three arguments share the typing of the state: a message that has left  *)
(* its thread's queue left it after all the earlier ones (OrderInv);       *)
(* somebody is about to look whenever there is something in the queue      *)
(* (DriveInv); a request is missing from the map only while its call has   *)
(* yet to store it (StoredInv).  From them it follows that PeerQueue       *)
(* implements Outbox (RefinementInv).                                      *)
(***************************************************************************)
EXTENDS PeerQueue, SequenceTheorems, TLAPS

\* A message that has been taken from its thread's queue.
Taken(m) == m.n <= sent[m.from] - Len(queue[m.from])

\* A thread's queue holds the last messages it sent, in their order.
QueueOk ==
  \A s \in Senders :
    /\ Len(queue[s]) <= sent[s]
    /\ \A i \in 1 .. Len(queue[s]) :
         queue[s][i] = [from |-> s, n |-> sent[s] - Len(queue[s]) + i]

CarryOk == \A r \in Runner : pc[r] = "send" => carry[r] \in Message

InsertOk == \A s \in Senders : pc[s] = "insert" => sent[s] >= 1

TypeInv == TypeOK /\ QueueOk /\ CarryOk /\ InsertOk

TakenOk ==
  /\ \A m \in Message : pc[m] # "none" => Taken(m)
  /\ \A r \in Runner : carry[r] \in Message => Taken(carry[r])
  /\ \A k \in DOMAIN wire : Taken(wire[k])

\* What leaves the queue after an earlier message leaves it while that one is on
\* its way overlaps it.
OverlapOk ==
  \A a, b \in Message :
    a.from = b.from /\ a.n < b.n /\ Taken(b) /\ a \in OnTheirWay
      => {a, b} \in overlapped

OrderInv == TakenOk /\ OverlapOk /\ InOrderUnlessOverlapping

Resting == {"idle", "none", "done"}

Failure == \E m \in Message : pc[m] = "failed"
Driver == \E r \in Runner : pc[r] \notin Resting

\* A message is carried by one runner, and only before it is sent off.
CarriedOnce ==
  \A r \in Runner : carry[r] \in Message =>
    /\ pc[carry[r]] = "none"
    /\ \A q \in Runner : carry[q] = carry[r] => q = r

DriveInv ==
  /\ CarriedOnce
  /\ socket \/ closed
  /\ ExecutingHasOwner
  /\ failed => Failure
  /\ (\E s \in Senders : queue[s] # <<>>) /\ ~closed => Driver

StoredInv ==
  \A m \in Message :
    m.from \in Requesters /\ m.n <= sent[m.from] /\ ~closed /\ m \notin answered
      => m \in requestMap \/ (pc[m.from] = "insert" /\ sent[m.from] = m.n)

-----------------------------------------------------------------------------
\* A message is named by its thread and its place among the thread's messages.
LEMMA MessageShape ==
  /\ \A m \in Message : /\ m.from \in Senders /\ m.n \in Nat
                        /\ m.n >= 1 /\ m.n <= Count[m.from]
                        /\ m = [from |-> m.from, n |-> m.n]
  /\ \A s \in Senders : \A k \in Nat :
       k >= 1 /\ k <= Count[s] => [from |-> s, n |-> k] \in Message
<1>1. ASSUME NEW m \in Message
      PROVE  /\ m.from \in Senders /\ m.n \in Nat
             /\ m.n >= 1 /\ m.n <= Count[m.from]
             /\ m = [from |-> m.from, n |-> m.n]
  <2>1. PICK s \in Senders : m \in [from : {s}, n : 1 .. Count[s]]
    BY DEF Message
  <2>2. Count[s] \in Nat
    BY CountAssumption
  <2>3. m.from = s /\ m.n \in 1 .. Count[s] /\ m = [from |-> m.from, n |-> m.n]
    BY <2>1
  <2>4. QED BY <2>2, <2>3
<1>2. ASSUME NEW s \in Senders, NEW k \in Nat, k >= 1, k <= Count[s]
      PROVE  [from |-> s, n |-> k] \in Message
  <2>1. Count[s] \in Nat
    BY CountAssumption
  <2>2. [from |-> s, n |-> k] \in [from : {s}, n : 1 .. Count[s]]
    BY <1>2, <2>1
  <2>3. QED BY <2>2 DEF Message
<1>3. QED BY <1>1, <1>2

\* The steps of the specification, one disjunct per action.
LEMMA StepCases ==
  ASSUME [Next]_vars
  PROVE  \/ \E s \in Senders : Enqueue(s) \/ Insert(s) \/ Check(s)
         \/ \E r \in Runner : \/ RunOne(r) \/ DequeueNone(r)
                              \/ DequeueOne(r) \/ SendMessage(r)
         \/ \E m \in Message : Write(m) \/ FailWrite(m) \/ Complete(m) \/ HandleResponse(m)
         \/ Close \/ InvalidateSocket
         \/ UNCHANGED vars
<1>1. Senders \subseteq Runner /\ Message \subseteq Runner
  BY DEF Runner
<1>2. QED BY <1>1 DEF Next, Call, Coroutine, Run

-----------------------------------------------------------------------------
(* Type correctness, and the queues                                        *)

LEMMA TypeInit == Init => TypeInv
<1> SUFFICES ASSUME Init PROVE TypeInv
  OBVIOUS
<1>1. pc \in [Runner -> SenderPC \cup CoroutinePC]
  BY DEF Init, SenderPC, CoroutinePC
<1>2. \A s \in Senders : pc[s] = "idle"
  BY DEF Init, Runner
<1>3. \A m \in Message : pc[m] = "none"
  BY NoneAssumption DEF Init, Runner
<1>4. queue \in [Senders -> Seq(Message)] /\ wire \in Seq(Message)
  BY DEF Init
<1>5. /\ sent \in [Senders -> Nat]
      /\ \A s \in Senders : sent[s] <= Count[s]
  BY CountAssumption DEF Init
<1>6. carry \in [Runner -> Message \cup {None}]
  BY DEF Init
<1>7. TypeOK
  BY <1>1, <1>2, <1>3, <1>4, <1>5, <1>6 DEF Init, TypeOK, SenderPC, CoroutinePC
<1>8. QueueOk
  BY DEF Init, QueueOk
<1>9. CarryOk /\ InsertOk
  BY <1>2, <1>3 DEF CarryOk, InsertOk, Runner
<1>10. QED BY <1>7, <1>8, <1>9 DEF TypeInv

LEMMA EnqueueType ==
  ASSUME TypeInv, NEW s \in Senders, Enqueue(s)
  PROVE  TypeInv'
<1> DEFINE m == [from |-> s, n |-> sent[s] + 1]
<1> USE DEF TypeInv, TypeOK
<1>1. sent[s] \in Nat /\ Count[s] \in Nat /\ sent[s] < Count[s]
  BY CountAssumption DEF Enqueue
<1>2. m \in Message
  <2>1. sent[s] + 1 \in Nat /\ sent[s] + 1 >= 1 /\ sent[s] + 1 <= Count[s]
    BY <1>1
  <2>2. QED BY <2>1, MessageShape
<1>3. queue[s] \in Seq(Message) /\ Append(queue[s], m) \in Seq(Message)
  BY <1>2
<1>4. /\ queue' = [queue EXCEPT ![s] = Append(queue[s], m)]
      /\ sent' = [sent EXCEPT ![s] = sent[s] + 1]
      /\ pc' = [pc EXCEPT ![s] = IF s \in Requesters THEN "insert" ELSE "check"]
      /\ pc[s] = "idle"
      /\ UNCHANGED <<closed, socket, executing, requestMap, carry, wire, answered, resumed,
                     failed, overlapped>>
  BY DEF Enqueue, Goto
<1>5. TypeOK'
  <2>1. queue' \in [Senders -> Seq(Message)]
    BY <1>3, <1>4
  <2>2. sent' \in [Senders -> Nat] /\ \A t \in Senders : sent'[t] <= Count[t]
    BY <1>1, <1>4
  <2>3. /\ pc' \in [Runner -> SenderPC \cup CoroutinePC]
        /\ \A t \in Senders : pc'[t] \in SenderPC
        /\ \A o \in Message : pc'[o] \in CoroutinePC
    BY <1>4, NoneAssumption DEF Runner, SenderPC, CoroutinePC
  <2>4. QED BY <1>4, <2>1, <2>2, <2>3
<1>6. QueueOk'
  <2>1. ASSUME NEW t \in Senders
        PROVE  /\ Len(queue'[t]) <= sent'[t]
               /\ \A i \in 1 .. Len(queue'[t]) :
                    queue'[t][i] = [from |-> t, n |-> sent'[t] - Len(queue'[t]) + i]
    <3>1. CASE t # s
      BY <1>4, <3>1 DEF QueueOk
    <3>2. CASE t = s
      <4>1. queue'[t] = Append(queue[s], m) /\ sent'[t] = sent[s] + 1
        BY <1>4, <3>2
      <4>2. Len(queue'[t]) = Len(queue[s]) + 1
        BY <1>3, <4>1
      <4>3. Len(queue[s]) \in Nat /\ Len(queue[s]) <= sent[s]
        BY <1>3 DEF QueueOk
      <4>4. ASSUME NEW i \in 1 .. Len(queue'[t])
            PROVE  queue'[t][i] = [from |-> t, n |-> sent'[t] - Len(queue'[t]) + i]
        <5>1. sent'[t] - Len(queue'[t]) + i = sent[s] - Len(queue[s]) + i
          BY <1>1, <4>1, <4>2, <4>3
        <5>2. CASE i \in 1 .. Len(queue[s])
          <6>1. queue'[t][i] = queue[s][i]
            BY <1>3, <4>1, <5>2
          <6>2. QED BY <3>2, <5>1, <5>2, <6>1 DEF QueueOk
        <5>3. CASE i = Len(queue[s]) + 1
          <6>1. queue'[t][i] = m
            BY <1>3, <4>1, <5>3
          <6>2. sent[s] - Len(queue[s]) + i = sent[s] + 1
            BY <1>1, <4>3, <5>3
          <6>3. QED BY <3>2, <5>1, <6>1, <6>2
        <5>4. QED BY <4>2, <4>3, <5>2, <5>3
      <4>5. QED BY <1>1, <4>1, <4>2, <4>3, <4>4
    <3>3. QED BY <3>1, <3>2
  <2>2. QED BY <2>1 DEF QueueOk
<1>7. CarryOk'
  BY <1>4, NoneAssumption DEF CarryOk, Runner
<1>8. InsertOk'
  BY <1>1, <1>4 DEF InsertOk, Runner
<1>9. QED BY <1>5, <1>6, <1>7, <1>8

\* The head of a thread's queue is taken off it.
LEMMA DequeueType ==
  ASSUME TypeInv, NEW r \in Runner, DequeueOne(r)
  PROVE  /\ TypeInv'
         /\ pc[r] = "dequeue"
         /\ \E s \in Senders :
              LET m == Head(queue[s]) IN
                /\ queue[s] # <<>> /\ m \in Message /\ m.from = s
                /\ m.n = sent[s] - Len(queue[s]) + 1
                /\ carry' = [carry EXCEPT ![r] = m]
                /\ overlapped' = overlapped \cup {{m, o} : o \in OnTheirWay}
                /\ queue' = [queue EXCEPT ![s] = Tail(queue[s])]
                /\ Len(Tail(queue[s])) = Len(queue[s]) - 1
<1> USE DEF TypeInv, TypeOK
<1>1. PICK s \in Senders :
        /\ queue[s] # <<>>
        /\ pc[r] = "dequeue" /\ pc' = [pc EXCEPT ![r] = "send"]
        /\ carry' = [carry EXCEPT ![r] = Head(queue[s])]
        /\ overlapped' = overlapped \cup {{Head(queue[s]), o} : o \in OnTheirWay}
        /\ queue' = [queue EXCEPT ![s] = Tail(queue[s])]
        /\ UNCHANGED <<closed, socket, executing, requestMap, sent, wire, answered, resumed,
                       failed>>
  BY DEF DequeueOne, Goto
<1> DEFINE m == Head(queue[s])
<1>2. /\ queue[s] \in Seq(Message) /\ m = queue[s][1] /\ m \in Message
      /\ Len(queue[s]) \in Nat /\ Len(queue[s]) >= 1
      /\ Tail(queue[s]) \in Seq(Message)
      /\ Len(Tail(queue[s])) = Len(queue[s]) - 1
      /\ \A i \in 1 .. Len(queue[s]) - 1 : Tail(queue[s])[i] = queue[s][i + 1]
  BY <1>1
<1>3. m = [from |-> s, n |-> sent[s] - Len(queue[s]) + 1]
  <2>1. 1 \in 1 .. Len(queue[s])
    BY <1>2
  <2>2. queue[s][1] = [from |-> s, n |-> sent[s] - Len(queue[s]) + 1]
    BY <2>1 DEF QueueOk
  <2>3. QED BY <1>2, <2>2
<1>4. TypeOK'
  <2>1. queue' \in [Senders -> Seq(Message)]
    BY <1>1, <1>2
  <2>2. /\ pc' \in [Runner -> SenderPC \cup CoroutinePC]
        /\ \A t \in Senders : pc'[t] \in SenderPC
        /\ \A o \in Message : pc'[o] \in CoroutinePC
    BY <1>1 DEF Runner, SenderPC, CoroutinePC
  <2>3. carry' \in [Runner -> Message \cup {None}]
    BY <1>1, <1>2
  <2>4. \A o \in OnTheirWay : {m, o} \subseteq Message
    <3>1. OnTheirWay \subseteq Message
      BY DEF OnTheirWay
    <3>2. QED BY <1>2, <3>1
  <2>5. overlapped' \subseteq SUBSET Message
    <3>1. ASSUME NEW x \in overlapped' PROVE x \subseteq Message
      <4>1. CASE x \in overlapped
        BY <4>1
      <4>2. CASE \E o \in OnTheirWay : x = {m, o}
        BY <2>4, <4>2
      <4>3. QED BY <1>1, <4>1, <4>2
    <3>2. QED BY <3>1
  <2>6. QED BY <1>1, <2>1, <2>2, <2>3, <2>5
<1>5. QueueOk'
  <2>1. ASSUME NEW t \in Senders
        PROVE  /\ Len(queue'[t]) <= sent'[t]
               /\ \A i \in 1 .. Len(queue'[t]) :
                    queue'[t][i] = [from |-> t, n |-> sent'[t] - Len(queue'[t]) + i]
    <3>1. CASE t # s
      BY <1>1, <3>1 DEF QueueOk
    <3>2. CASE t = s
      <4>1. queue'[t] = Tail(queue[s]) /\ sent'[t] = sent[s]
        BY <1>1, <3>2
      <4>2. Len(queue'[t]) = Len(queue[s]) - 1 /\ sent[s] \in Nat
        BY <1>2, <4>1
      <4>3. ASSUME NEW i \in 1 .. Len(queue'[t])
            PROVE  queue'[t][i] = [from |-> t, n |-> sent'[t] - Len(queue'[t]) + i]
        <5>1. i \in 1 .. Len(queue[s]) - 1
          BY <4>2
        <5>2. i + 1 \in 1 .. Len(queue[s])
          BY <1>2, <5>1
        <5>3. queue'[t][i] = [from |-> s, n |-> sent[s] - Len(queue[s]) + (i + 1)]
          BY <1>2, <4>1, <5>1, <5>2 DEF QueueOk
        <5>4. sent[s] - Len(queue[s]) + (i + 1) = sent'[t] - Len(queue'[t]) + i
          BY <1>2, <4>1, <4>2
        <5>5. QED BY <3>2, <5>3, <5>4
      <4>4. Len(queue'[t]) <= sent'[t]
        BY <1>2, <4>1, <4>2 DEF QueueOk
      <4>5. QED BY <4>3, <4>4
    <3>3. QED BY <3>1, <3>2
  <2>2. QED BY <2>1 DEF QueueOk
<1>6. CarryOk'
  BY <1>1, <1>2 DEF CarryOk
<1>7. InsertOk'
  BY <1>1 DEF InsertOk, Runner
<1>8. TypeInv'
  BY <1>4, <1>5, <1>6, <1>7
<1>9. m.from = s /\ m.n = sent[s] - Len(queue[s]) + 1
  BY <1>3
<1> HIDE DEF TypeInv, TypeOK
<1>10. QED BY <1>1, <1>2, <1>8, <1>9

\* The other steps leave the queues and the counters of messages alone.
LEMMA OtherType ==
  ASSUME TypeInv, [Next]_vars,
         \A s \in Senders : ~Enqueue(s), \A r \in Runner : ~DequeueOne(r)
  PROVE  TypeInv' /\ UNCHANGED <<queue, sent>>
<1> USE NoneAssumption DEF TypeInv, TypeOK, QueueOk, CarryOk, InsertOk, Goto, Runner
<1>1. ASSUME NEW s \in Senders, Insert(s)
      PROVE  TypeInv' /\ UNCHANGED <<queue, sent>>
  <2>1. [from |-> s, n |-> sent[s]] \in Message
    BY <1>1, MessageShape DEF Insert
  <2>2. QED BY <1>1, <2>1 DEF Insert, SenderPC, CoroutinePC
<1>2. ASSUME NEW s \in Senders, Check(s)
      PROVE  TypeInv' /\ UNCHANGED <<queue, sent>>
  BY <1>2 DEF Check, SenderPC, CoroutinePC
<1>3. ASSUME NEW r \in Runner, RunOne(r)
      PROVE  TypeInv' /\ UNCHANGED <<queue, sent>>
  BY <1>3 DEF RunOne, Finished, SenderPC, CoroutinePC
<1>4. ASSUME NEW r \in Runner, DequeueNone(r)
      PROVE  TypeInv' /\ UNCHANGED <<queue, sent>>
  BY <1>4 DEF DequeueNone, Finished, SenderPC, CoroutinePC
<1>5. ASSUME NEW r \in Runner, SendMessage(r)
      PROVE  TypeInv' /\ UNCHANGED <<queue, sent>>
  <2>1. carry[r] \in Message
    BY <1>5 DEF SendMessage
  <2>2. /\ carry' = [carry EXCEPT ![r] = None]
        /\ executing' \in BOOLEAN
        /\ UNCHANGED <<closed, socket, queue, requestMap, sent, wire, answered,
                       resumed, failed, overlapped>>
        /\ pc[r] = "send"
        /\ \/ pc' = [pc EXCEPT ![r] = Finished(r)]
           \/ pc' = [pc EXCEPT ![r] = Finished(r), ![carry[r]] = "flight"]
    BY <1>5 DEF SendMessage
  <2>3. carry' \in [Runner -> Message \cup {None}]
    BY <2>2
  <2>4. pc' \in [Runner -> SenderPC \cup CoroutinePC]
    BY <2>1, <2>2 DEF Finished, SenderPC, CoroutinePC
  <2>5. /\ \A s \in Senders : pc'[s] \in SenderPC /\ (pc'[s] = "insert" => pc[s] = "insert")
        /\ \A m \in Message : pc'[m] \in CoroutinePC
    <3>1. \A s \in Senders : pc'[s] = IF s = r THEN "idle" ELSE pc[s]
      BY <2>1, <2>2 DEF Finished
    <3>2. \A m \in Message : pc'[m] \in {pc[m], "done", "flight"}
      BY <2>1, <2>2 DEF Finished
    <3>3. QED BY <3>1, <3>2 DEF SenderPC, CoroutinePC
  <2>6. CarryOk'
    BY <2>1, <2>2 DEF Finished
  <2>7. TypeOK' /\ InsertOk' /\ QueueOk'
    BY <2>2, <2>3, <2>4, <2>5
  <2>8. QED BY <2>2, <2>6, <2>7
<1>6. ASSUME NEW m \in Message, Write(m)
      PROVE  TypeInv' /\ UNCHANGED <<queue, sent>>
  BY <1>6 DEF Write, SenderPC, CoroutinePC
<1>7. ASSUME NEW m \in Message, FailWrite(m) \/ Complete(m) \/ HandleResponse(m)
      PROVE  TypeInv' /\ UNCHANGED <<queue, sent>>
  BY <1>7 DEF FailWrite, Complete, HandleResponse, SenderPC, CoroutinePC
<1>8. CASE Close \/ InvalidateSocket \/ UNCHANGED vars
  BY <1>8 DEF Close, InvalidateSocket, vars
<1>9. QED BY <1>1, <1>2, <1>3, <1>4, <1>5, <1>6, <1>7, <1>8, StepCases

LEMMA TypeStep == TypeInv /\ [Next]_vars => TypeInv'
<1> SUFFICES ASSUME TypeInv, [Next]_vars PROVE TypeInv'
  OBVIOUS
<1>1. CASE \E s \in Senders : Enqueue(s)
  BY <1>1, EnqueueType
<1>2. CASE \E r \in Runner : DequeueOne(r)
  BY <1>2, DequeueType
<1>3. QED BY <1>1, <1>2, OtherType

LEMMA TypeInvariant == Spec => []TypeInv
BY TypeInit, TypeStep, PTL DEF Spec

\* The peer's messages, queue and coroutines have the types the code gives them
\* (Peer::request, notify, accept, runOne).
THEOREM QueueTypeCorrect == Spec => []TypeOK
<1>1. TypeInv => TypeOK
  BY DEF TypeInv
<1>2. QED BY <1>1, TypeInvariant, PTL

-----------------------------------------------------------------------------
(* The order of a thread's messages                                        *)

LEMMA OrderInit == Init => OrderInv
<1> SUFFICES ASSUME Init PROVE OrderInv
  OBVIOUS
<1>1. \A m \in Message : pc[m] = "none"
  BY NoneAssumption DEF Init, Runner
<1>2. OnTheirWay = {}
  BY <1>1 DEF Init, OnTheirWay
<1>3. DOMAIN wire = {}
  BY DEF Init
<1>4. \A r \in Runner : carry[r] \notin Message
  BY NoneAssumption DEF Init
<1>5. QED BY <1>1, <1>2, <1>3, <1>4 DEF OrderInv, TakenOk, OverlapOk, InOrderUnlessOverlapping

LEMMA OnTheirWayTaken ==
  ASSUME TypeInv, TakenOk
  PROVE  \A m \in OnTheirWay : m \in Message /\ Taken(m)
BY DEF OnTheirWay, TypeInv, TypeOK, TakenOk, Runner

\* A step that takes nothing from the queue and writes nothing.
LEMMA OrderQuietStep ==
  ASSUME TypeInv, OrderInv,
         \A m \in Message : Taken(m)' <=> Taken(m),
         \A m \in Message : pc'[m] # "none" => pc[m] # "none" \/ m \in OnTheirWay,
         \A r \in Runner : carry'[r] \in Message => carry'[r] = carry[r],
         OnTheirWay' \subseteq OnTheirWay,
         UNCHANGED <<wire, overlapped>>
  PROVE  OrderInv'
<1>1. TakenOk'
  <2>1. \A k \in DOMAIN wire : wire[k] \in Message
    BY DEF TypeInv, TypeOK
  <2>2. \A m \in Message : pc'[m] # "none" => Taken(m)'
    BY OnTheirWayTaken DEF OrderInv, TakenOk
  <2>3. (\A r \in Runner : carry[r] \in Message => Taken(carry[r]))'
    BY DEF OrderInv, TakenOk, Taken
  <2>4. (\A k \in DOMAIN wire : Taken(wire[k]))'
    BY <2>1 DEF OrderInv, TakenOk, Taken
  <2>5. QED BY <2>2, <2>3, <2>4 DEF TakenOk, Taken
<1>2. OverlapOk'
  BY DEF OrderInv, OverlapOk
<1>3. InOrderUnlessOverlapping'
  BY DEF OrderInv, InOrderUnlessOverlapping
<1>4. QED BY <1>1, <1>2, <1>3 DEF OrderInv

\* The message taken is the first its thread has left in the queue.
LEMMA OrderDequeueStep ==
  ASSUME TypeInv, OrderInv, NEW r \in Runner, DequeueOne(r)
  PROVE  OrderInv'
<1>1. PICK s \in Senders :
        LET m == Head(queue[s]) IN
          /\ queue[s] # <<>> /\ m \in Message /\ m.from = s
          /\ m.n = sent[s] - Len(queue[s]) + 1
          /\ carry' = [carry EXCEPT ![r] = m]
          /\ overlapped' = overlapped \cup {{m, o} : o \in OnTheirWay}
          /\ queue' = [queue EXCEPT ![s] = Tail(queue[s])]
          /\ Len(Tail(queue[s])) = Len(queue[s]) - 1
  BY DequeueType
<1> DEFINE m == Head(queue[s])
<1>2. /\ pc[r] = "dequeue" /\ pc' = [pc EXCEPT ![r] = "send"]
      /\ UNCHANGED <<sent, wire>>
  BY DEF DequeueOne, Goto
<1>3. /\ \A t \in Senders : /\ sent[t] \in Nat /\ Len(queue[t]) \in Nat
                             /\ queue'[t] = IF t = s THEN Tail(queue[s]) ELSE queue[t]
      /\ sent'[s] - Len(queue'[s]) = sent[s] - Len(queue[s]) + 1
  <2>1. \A t \in Senders : /\ sent[t] \in Nat /\ Len(queue[t]) \in Nat
                            /\ queue'[t] = IF t = s THEN Tail(queue[s]) ELSE queue[t]
    BY <1>1 DEF TypeInv, TypeOK
  <2>2. Len(queue'[s]) = Len(queue[s]) - 1
    <3>1. queue'[s] = Tail(queue[s])
      BY <2>1
    <3>2. QED BY <1>1, <3>1
  <2>3. QED BY <1>2, <2>1, <2>2
<1>4. \A o \in Message : /\ Taken(o) => Taken(o)'
                         /\ Taken(o)' => Taken(o) \/ o = m
  <2>1. ASSUME NEW o \in Message
        PROVE  /\ Taken(o) => Taken(o)'
               /\ Taken(o)' => Taken(o) \/ o = m
    <3>1. o.from \in Senders /\ o.n \in Nat /\ o = [from |-> o.from, n |-> o.n]
      BY MessageShape
    <3>2. m = [from |-> m.from, n |-> m.n]
      BY <1>1, MessageShape
    <3>3. CASE o.from # s
      BY <1>2, <1>3, <3>1, <3>3 DEF Taken
    <3>4. CASE o.from = s
      <4>1. Taken(o)' <=> o.n <= sent[s] - Len(queue[s]) + 1
        BY <1>3, <3>4 DEF Taken
      <4>2. Taken(o) <=> o.n <= sent[s] - Len(queue[s])
        BY <3>4 DEF Taken
      <4>3. Taken(o)' /\ ~Taken(o) => o.n = m.n
        BY <1>1, <1>3, <3>1, <4>1, <4>2
      <4>4. QED BY <1>1, <1>3, <3>1, <3>2, <3>4, <4>1, <4>2, <4>3
    <3>5. QED BY <3>3, <3>4
  <2>2. QED BY <2>1
<1>5. /\ m.n = sent'[s] - Len(queue'[s])
      /\ \A o \in Message : o = m => ~Taken(o)
  <2>1. m.n = sent'[s] - Len(queue'[s])
    BY <1>1, <1>3
  <2>2. ~Taken(m)
    BY <1>1, <1>3 DEF Taken
  <2>3. QED BY <2>1, <2>2
<1>6. /\ \A o \in Message : pc'[o] # "none" => pc[o] # "none"
      /\ \A o \in Message : pc'[o] = "flight" => pc[o] = "flight"
      /\ \A x \in Runner : carry'[x] = IF x = r THEN m ELSE carry[x]
  BY <1>1, <1>2 DEF TypeInv, TypeOK, Runner
<1>7. OnTheirWay' \subseteq OnTheirWay \cup {m}
  BY <1>6 DEF OnTheirWay
<1>8. TakenOk'
  <2>1. \A o \in Message : pc'[o] # "none" => Taken(o)'
    BY <1>4, <1>6 DEF OrderInv, TakenOk
  <2>2. ASSUME NEW x \in Runner, carry'[x] \in Message
        PROVE  carry'[x].n <= sent'[carry'[x].from] - Len(queue'[carry'[x].from])
    <3>1. CASE x = r
      <4>1. carry'[x] = m /\ m.from = s /\ m.n \in Nat
        BY <1>1, <1>6, <3>1, MessageShape
      <4>2. QED BY <1>5, <4>1
    <3>2. CASE x # r
      <4>1. carry'[x] = carry[x] /\ Taken(carry[x])
        BY <1>6, <2>2, <3>2 DEF OrderInv, TakenOk
      <4>2. QED BY <1>4, <2>2, <4>1 DEF Taken
    <3>3. QED BY <3>1, <3>2
  <2>3. ASSUME NEW k \in DOMAIN wire
        PROVE  wire[k].n <= sent'[wire[k].from] - Len(queue'[wire[k].from])
    <3>1. wire[k] \in Message /\ Taken(wire[k])
      BY DEF OrderInv, TakenOk, TypeInv, TypeOK
    <3>2. QED BY <1>4, <3>1 DEF Taken
  <2>4. QED BY <1>2, <2>1, <2>2, <2>3 DEF TakenOk, Taken
<1>9. OverlapOk'
  <2>1. SUFFICES ASSUME NEW a \in Message, NEW b \in Message,
                        a.from = b.from, a.n < b.n, Taken(b)', a \in OnTheirWay'
                 PROVE  {a, b} \in overlapped'
    BY DEF OverlapOk
  <2>2. CASE a = m
    <3>1. b # m /\ ~Taken(b)
      <4>1. b.n \in Nat /\ b.from = s /\ b.n > m.n
        BY <1>1, <2>1, <2>2, MessageShape
      <4>2. b.n > sent[s] - Len(queue[s])
        BY <1>1, <1>3, <4>1
      <4>3. ~(b.n <= sent[s] - Len(queue[s]))
        BY <1>3, <4>1, <4>2
      <4>4. QED BY <4>1, <4>3 DEF Taken
    <3>2. QED BY <1>4, <2>1, <3>1
  <2>3. CASE a # m /\ b = m
    BY <1>1, <1>7, <2>1, <2>3
  <2>4. CASE a # m /\ b # m
    BY <1>1, <1>4, <1>7, <2>1, <2>4 DEF OrderInv, OverlapOk
  <2>5. QED BY <2>2, <2>3, <2>4
<1>10. InOrderUnlessOverlapping'
  BY <1>1, <1>2 DEF OrderInv, InOrderUnlessOverlapping
<1>11. QED BY <1>8, <1>9, <1>10 DEF OrderInv

\* The message written was on its way, so what was written before it and comes
\* after it in their thread's order overlapped it.
LEMMA OrderWriteStep ==
  ASSUME TypeInv, OrderInv, NEW m \in Message, Write(m)
  PROVE  OrderInv'
<1>1. /\ pc[m] = "flight" /\ pc' = [pc EXCEPT ![m] = "written"]
      /\ wire' = Append(wire, m)
      /\ UNCHANGED <<queue, sent, carry, overlapped>>
  BY DEF Write, Goto
<1>2. wire \in Seq(Message) /\ Len(wire) \in Nat /\ DOMAIN wire = 1 .. Len(wire)
  BY DEF TypeInv, TypeOK
<1>3. /\ DOMAIN wire' = 1 .. Len(wire) + 1
      /\ wire'[Len(wire) + 1] = m
      /\ \A k \in 1 .. Len(wire) : wire'[k] = wire[k] /\ wire[k] \in Message
  BY <1>1, <1>2
<1>4. \A o \in Message : /\ pc'[o] # "none" => pc[o] # "none"
                         /\ pc'[o] = "flight" => pc[o] = "flight"
  BY <1>1 DEF TypeInv, TypeOK, Runner
<1>5. m \in OnTheirWay /\ Taken(m) /\ OnTheirWay' \subseteq OnTheirWay
  BY <1>1, <1>4 DEF OnTheirWay, OrderInv, TakenOk
<1>6. \A o : Taken(o)' <=> Taken(o)
  BY <1>1 DEF Taken
<1>7. TakenOk'
  <2>1. \A k \in DOMAIN wire' : Taken(wire'[k])
    BY <1>2, <1>3, <1>5 DEF OrderInv, TakenOk
  <2>2. QED BY <1>1, <1>4, <2>1 DEF OrderInv, TakenOk, Taken
<1>8. OverlapOk'
  BY <1>1, <1>5, <1>6 DEF OrderInv, OverlapOk
<1>9. InOrderUnlessOverlapping'
  <2>1. SUFFICES ASSUME NEW i \in DOMAIN wire', NEW j \in DOMAIN wire',
                        i < j, wire'[i].from = wire'[j].from, wire'[i].n > wire'[j].n
                 PROVE  {wire'[i], wire'[j]} \in overlapped'
    BY DEF InOrderUnlessOverlapping
  <2>2. i \in 1 .. Len(wire)
    BY <1>2, <1>3, <2>1
  <2>3. CASE j \in 1 .. Len(wire)
    BY <1>1, <1>2, <1>3, <2>1, <2>2, <2>3 DEF OrderInv, InOrderUnlessOverlapping
  <2>4. CASE j = Len(wire) + 1
    <3>1. wire'[j] = m /\ wire'[i] = wire[i] /\ wire[i] \in Message /\ Taken(wire[i])
      BY <1>2, <1>3, <2>2, <2>4 DEF OrderInv, TakenOk
    <3>2. m.n < wire[i].n
      BY <2>1, <3>1, MessageShape
    <3>3. {m, wire[i]} \in overlapped
      BY <1>5, <2>1, <3>1, <3>2 DEF OrderInv, OverlapOk
    <3>4. {m, wire[i]} = {wire'[i], wire'[j]}
      BY <3>1
    <3>5. QED BY <1>1, <3>3, <3>4
  <2>5. QED BY <1>2, <1>3, <2>3, <2>4
<1>10. QED BY <1>7, <1>8, <1>9 DEF OrderInv

LEMMA OrderStep == TypeInv /\ OrderInv /\ [Next]_vars => OrderInv'
<1> SUFFICES ASSUME TypeInv, OrderInv, [Next]_vars PROVE OrderInv'
  OBVIOUS
<1> USE DEF Goto
<1>1. \A m \in Message : m \in Runner /\ m \notin Senders
  BY NoneAssumption DEF Runner
<1>2. ASSUME NEW s \in Senders, Enqueue(s) PROVE OrderInv'
  <2>1. \A m \in Message : Taken(m)' <=> Taken(m)
    <3>1. ASSUME NEW m \in Message
          PROVE  sent'[m.from] - Len(queue'[m.from]) = sent[m.from] - Len(queue[m.from])
      <4>1. m.from \in Senders
        BY MessageShape
      <4>2. CASE m.from # s
        BY <1>2, <4>1, <4>2 DEF Enqueue, TypeInv, TypeOK
      <4>3. CASE m.from = s
        <5>1. /\ queue'[s] = Append(queue[s], [from |-> s, n |-> sent[s] + 1])
              /\ sent'[s] = sent[s] + 1 /\ sent[s] \in Nat
              /\ queue[s] \in Seq(Message)
          BY <1>2 DEF Enqueue, TypeInv, TypeOK
        <5>2. Len(queue'[s]) = Len(queue[s]) + 1 /\ Len(queue[s]) \in Nat
          BY <5>1
        <5>3. \A x, y \in Nat : (x + 1) - (y + 1) = x - y
          OBVIOUS
        <5>4. sent'[s] - Len(queue'[s]) = sent[s] - Len(queue[s])
          <6>1. (sent[s] + 1) - (Len(queue[s]) + 1) = sent[s] - Len(queue[s])
            BY <5>1, <5>2, <5>3
          <6>2. QED BY <5>1, <5>2, <6>1, Zenon
        <5>5. QED BY <4>3, <5>4
      <4>4. QED BY <4>2, <4>3
    <3>2. QED BY <3>1 DEF Taken
  <2>2. \A m \in Message : pc'[m] = pc[m]
    BY <1>1, <1>2 DEF Enqueue, TypeInv, TypeOK
  <2>3. UNCHANGED <<carry, wire, overlapped>>
    BY <1>2 DEF Enqueue
  <2>4. OnTheirWay' \subseteq OnTheirWay
    BY <2>2, <2>3 DEF OnTheirWay
  <2>5. QED BY <2>1, <2>2, <2>3, <2>4, OrderQuietStep
<1>3. ASSUME UNCHANGED <<queue, sent, wire, overlapped>>,
             \A m \in Message : /\ pc'[m] # "none" => pc[m] # "none" \/ m \in OnTheirWay
                                /\ pc'[m] = "flight" => m \in OnTheirWay,
             \A r \in Runner : carry'[r] \in {None, carry[r]}
      PROVE  OrderInv'
  <2>1. \A m \in Message : Taken(m)' <=> Taken(m)
    BY <1>3 DEF Taken
  <2>2. \A r \in Runner : carry'[r] \in Message => carry'[r] = carry[r]
    BY <1>3, NoneAssumption
  <2>3. OnTheirWay' \subseteq OnTheirWay
    BY <1>3 DEF OnTheirWay
  <2>4. QED BY <1>3, <2>1, <2>2, <2>3, OrderQuietStep
<1>4. ASSUME NEW s \in Senders, Insert(s) \/ Check(s) PROVE OrderInv'
  <2>1. \A m \in Message : pc'[m] = pc[m]
    BY <1>1, <1>4 DEF Insert, Check, TypeInv, TypeOK
  <2>2. QED BY <1>3, <1>4, <2>1 DEF Insert, Check, OnTheirWay
<1>5. ASSUME NEW r \in Runner, RunOne(r) \/ DequeueNone(r) PROVE OrderInv'
  <2>1. /\ pc[r] # "none"
        /\ \A m \in Message : m # r => pc'[m] = pc[m]
        /\ r \in Message => pc'[r] # "flight"
        /\ UNCHANGED <<queue, sent, wire, overlapped, carry>>
    BY <1>1, <1>5 DEF RunOne, DequeueNone, Finished, TypeInv, TypeOK
  <2>2. QED BY <1>3, <2>1 DEF OnTheirWay
<1>6. ASSUME NEW r \in Runner, SendMessage(r) PROVE OrderInv'
  <2>1. /\ pc[r] = "send" /\ carry[r] \in Message
        /\ carry' = [carry EXCEPT ![r] = None]
        /\ \/ pc' = [pc EXCEPT ![r] = Finished(r)]
           \/ pc' = [pc EXCEPT ![r] = Finished(r), ![carry[r]] = "flight"]
        /\ UNCHANGED <<queue, sent, wire, overlapped>>
    BY <1>6 DEF SendMessage, TypeInv, CarryOk
  <2>2. carry[r] \in OnTheirWay
    BY <2>1, NoneAssumption DEF OnTheirWay
  <2>3. \A m \in Message : pc'[m] = pc[m] \/ m = carry[r] \/ (m = r /\ pc'[m] = "done")
    BY <1>1, <2>1 DEF Finished, TypeInv, TypeOK
  <2>4. \A x \in Runner : carry'[x] \in {None, carry[x]}
    BY <2>1 DEF TypeInv, TypeOK
  <2>5. \A m \in Message : /\ pc'[m] # "none" => pc[m] # "none" \/ m \in OnTheirWay
                           /\ pc'[m] = "flight" => m \in OnTheirWay
    BY <2>1, <2>2, <2>3 DEF OnTheirWay
  <2>6. QED BY <1>3, <2>1, <2>4, <2>5
<1>7. ASSUME NEW m \in Message, FailWrite(m) \/ Complete(m) \/ HandleResponse(m)
      PROVE  OrderInv'
  <2>1. /\ pc[m] # "none" /\ UNCHANGED <<queue, sent, wire, overlapped, carry>>
        /\ \A o \in Message : pc'[o] # "none" => pc[o] # "none"
        /\ \A o \in Message : pc'[o] = "flight" => pc[o] = "flight"
    BY <1>1, <1>7 DEF FailWrite, Complete, HandleResponse, TypeInv, TypeOK
  <2>2. QED BY <1>3, <2>1 DEF OnTheirWay
<1>8. CASE Close \/ InvalidateSocket \/ UNCHANGED vars
  BY <1>3, <1>8 DEF Close, InvalidateSocket, vars, OnTheirWay
<1>9. QED
  BY <1>2, <1>4, <1>5, <1>6, <1>7, <1>8, StepCases, OrderDequeueStep, OrderWriteStep

\* A thread's messages are written in the order in which it queued them, unless
\* both were on their way at once (Peer::runOne sets _executing only after it has
\* read the queue).
THEOREM InOrderCorrect == Spec => []InOrderUnlessOverlapping
<1>1. Init => OrderInv
  BY OrderInit
<1>2. TypeInv /\ OrderInv /\ [Next]_vars => OrderInv'
  BY OrderStep
<1>3. OrderInv => InOrderUnlessOverlapping
  BY DEF OrderInv
<1>4. QED BY <1>1, <1>2, <1>3, TypeInvariant, PTL DEF Spec

-----------------------------------------------------------------------------
(* Nothing is left behind                                                  *)

LEMMA DriveInit == Init => DriveInv
<1> SUFFICES ASSUME Init PROVE DriveInv
  OBVIOUS
<1>1. CarriedOnce
  BY NoneAssumption DEF Init, CarriedOnce
<1>2. QED BY <1>1 DEF Init, DriveInv, ExecutingHasOwner

LEMMA CarriedOnceStep ==
  ASSUME TypeInv, OrderInv, CarriedOnce, [Next]_vars
  PROVE  CarriedOnce'
<1> USE DEF Goto
<1>1. \A m \in Message : m \in Runner /\ m \notin Senders
  BY NoneAssumption DEF Runner
<1>2. ASSUME \A m \in Message : pc[m] = "none" => pc'[m] = "none", UNCHANGED carry
      PROVE  CarriedOnce'
  BY <1>2 DEF CarriedOnce
<1>3. ASSUME NEW s \in Senders, Enqueue(s) \/ Insert(s) \/ Check(s) PROVE CarriedOnce'
  BY <1>1, <1>2, <1>3 DEF Enqueue, Insert, Check, TypeInv, TypeOK
<1>4. ASSUME NEW r \in Runner, RunOne(r) \/ DequeueNone(r) PROVE CarriedOnce'
  BY <1>1, <1>2, <1>4 DEF RunOne, DequeueNone, TypeInv, TypeOK
<1>5. ASSUME NEW r \in Runner, DequeueOne(r) PROVE CarriedOnce'
  <2>1. PICK s \in Senders :
          LET m == Head(queue[s]) IN
            /\ m \in Message /\ m.from = s
            /\ m.n = sent[s] - Len(queue[s]) + 1
            /\ carry' = [carry EXCEPT ![r] = m]
    BY <1>5, DequeueType
  <2> DEFINE m == Head(queue[s])
  <2>2. pc[r] = "dequeue" /\ pc' = [pc EXCEPT ![r] = "send"]
    BY <1>5 DEF DequeueOne
  <2>3. ~Taken(m)
    <3>1. sent[s] \in Nat /\ Len(queue[s]) \in Nat
      BY DEF TypeInv, TypeOK
    <3>2. QED BY <2>1, <3>1 DEF Taken
  <2>4. pc[m] = "none" /\ \A q \in Runner : carry[q] # m
    BY <2>1, <2>3 DEF OrderInv, TakenOk
  <2>5. \A q \in Runner : carry'[q] = IF q = r THEN m ELSE carry[q]
    BY <2>1 DEF TypeInv, TypeOK
  <2>6. \A o \in Message : pc[o] = "none" => pc'[o] = "none"
    BY <1>1, <2>2 DEF TypeInv, TypeOK
  <2>7. ASSUME NEW q \in Runner, carry'[q] \in Message
        PROVE  pc'[carry'[q]] = "none"
    BY <2>1, <2>4, <2>5, <2>6, <2>7 DEF CarriedOnce
  <2>8. ASSUME NEW q \in Runner, carry'[q] \in Message,
               NEW x \in Runner, carry'[x] = carry'[q]
        PROVE  x = q
    BY <2>4, <2>5, <2>8 DEF CarriedOnce
  <2>9. QED BY <2>7, <2>8 DEF CarriedOnce
<1>6. ASSUME NEW r \in Runner, SendMessage(r) PROVE CarriedOnce'
  <2>1. /\ pc[r] = "send" /\ carry[r] \in Message
        /\ carry' = [carry EXCEPT ![r] = None]
        /\ \/ pc' = [pc EXCEPT ![r] = Finished(r)]
           \/ pc' = [pc EXCEPT ![r] = Finished(r), ![carry[r]] = "flight"]
    BY <1>6 DEF SendMessage, TypeInv, CarryOk
  <2>2. \A o \in Message : pc[o] = "none" => pc'[o] = "none" \/ o = carry[r]
    BY <1>1, <2>1 DEF TypeInv, TypeOK
  <2>3. \A q \in Runner : carry'[q] = IF q = r THEN None ELSE carry[q]
    BY <2>1 DEF TypeInv, TypeOK
  <2>4. None \notin Message
    BY NoneAssumption
  <2>5. QED BY <2>1, <2>2, <2>3, <2>4 DEF CarriedOnce
<1>7. ASSUME NEW m \in Message,
             Write(m) \/ FailWrite(m) \/ Complete(m) \/ HandleResponse(m)
      PROVE  CarriedOnce'
  BY <1>1, <1>2, <1>7 DEF Write, FailWrite, Complete, HandleResponse, TypeInv, TypeOK
<1>8. CASE Close \/ InvalidateSocket \/ UNCHANGED vars
  BY <1>2, <1>8 DEF Close, InvalidateSocket, vars
<1>9. QED BY <1>3, <1>4, <1>5, <1>6, <1>7, <1>8, StepCases

\* A step of a thread or coroutine that keeps no other from going on.
LEMMA DriveQuietStep ==
  ASSUME DriveInv, CarriedOnce',
         UNCHANGED <<closed, socket, executing, failed>>,
         \A m \in Message : pc[m] \in {"flight", "written", "failed"} => pc'[m] = pc[m],
         (\E s \in Senders : queue'[s] # <<>>) /\ ~closed => Driver'
  PROVE  DriveInv'
BY DEF DriveInv, ExecutingHasOwner, Failure

LEMMA DriveStep == TypeInv /\ OrderInv /\ DriveInv /\ [Next]_vars => DriveInv'
<1> SUFFICES ASSUME TypeInv, OrderInv, DriveInv, [Next]_vars PROVE DriveInv'
  OBVIOUS
<1> USE DEF Goto
<1>1. CarriedOnce'
  BY CarriedOnceStep DEF DriveInv
<1>2. /\ Senders \subseteq Runner
      /\ \A m \in Message : m \in Runner /\ m \notin Senders
      /\ pc \in [Runner -> SenderPC \cup CoroutinePC]
  BY NoneAssumption DEF Runner, TypeInv, TypeOK
<1>3. executing => \E m \in Message : pc[m] \in {"flight", "written", "failed"}
  BY DEF DriveInv, ExecutingHasOwner, Failure
<1>4. ASSUME NEW s \in Senders, Enqueue(s) \/ Insert(s) PROVE DriveInv'
  <2>1. pc'[s] \notin Resting /\ \A m \in Message : pc'[m] = pc[m]
    BY <1>2, <1>4 DEF Enqueue, Insert, Resting
  <2>2. Driver'
    BY <1>2, <2>1 DEF Driver
  <2>3. QED BY <1>1, <1>4, <2>1, <2>2, DriveQuietStep DEF Enqueue, Insert
<1>5. ASSUME NEW r \in Runner,
             RunOne(r) \/ (r \in Senders /\ Check(r))
      PROVE  DriveInv'
  <2>1. /\ UNCHANGED <<closed, socket, executing, failed, queue>>
        /\ pc[r] \in {"run", "check"}
        /\ executing \/ pc'[r] \in {"run", "dequeue"}
        /\ \A x \in Runner : x # r => pc'[x] = pc[x]
    BY <1>2, <1>5 DEF RunOne, Check
  <2>2. \A m \in Message : pc[m] \in {"flight", "written", "failed"} => pc'[m] = pc[m]
    BY <1>2, <2>1
  <2>3. CASE executing
    <3>1. PICK m \in Message : pc[m] \in {"flight", "written", "failed"}
      BY <1>3, <2>3
    <3>2. pc'[m] \notin Resting
      BY <2>2, <3>1 DEF Resting
    <3>3. Driver'
      BY <1>2, <3>2 DEF Driver
    <3>4. QED BY <1>1, <2>1, <2>2, <3>3, DriveQuietStep
  <2>4. CASE ~executing
    <3>1. Driver'
      BY <2>1, <2>4 DEF Driver, Resting
    <3>2. QED BY <1>1, <2>1, <2>2, <3>1, DriveQuietStep
  <2>5. QED BY <2>3, <2>4
<1>6. ASSUME NEW r \in Runner, DequeueNone(r) PROVE DriveInv'
  <2>1. \A m \in Message : pc[m] \in {"flight", "written", "failed"} => pc'[m] = pc[m]
    BY <1>2, <1>6 DEF DequeueNone
  <2>2. QED BY <1>1, <1>6, <2>1, DriveQuietStep DEF DequeueNone
<1>7. ASSUME NEW r \in Runner, DequeueOne(r) PROVE DriveInv'
  <2>1. pc[r] = "dequeue" /\ pc' = [pc EXCEPT ![r] = "send"]
    BY <1>7 DEF DequeueOne
  <2>2. \A m \in Message : pc[m] \in {"flight", "written", "failed"} => pc'[m] = pc[m]
    BY <1>2, <2>1
  <2>3. Driver'
    BY <1>2, <2>1 DEF Driver, Resting
  <2>4. QED BY <1>1, <1>7, <2>2, <2>3, DriveQuietStep DEF DequeueOne
<1>8. ASSUME NEW r \in Runner, SendMessage(r) PROVE DriveInv'
  <2>1. /\ pc[r] = "send" /\ carry[r] \in Message /\ pc[carry[r]] = "none"
        /\ UNCHANGED <<closed, socket, failed, queue>>
    BY <1>8 DEF SendMessage, TypeInv, CarryOk, DriveInv, CarriedOnce
  <2>2. CASE socket
    <3>1. executing' /\ pc' = [pc EXCEPT ![r] = Finished(r), ![carry[r]] = "flight"]
      BY <1>8, <2>2 DEF SendMessage
    <3>2. /\ pc'[carry[r]] = "flight"
          /\ \A m \in Message : pc[m] = "failed" => pc'[m] = "failed"
      BY <1>2, <2>1, <3>1
    <3>3. ExecutingHasOwner' /\ (failed' => Failure')
      BY <2>1, <3>2 DEF ExecutingHasOwner, DriveInv, Failure
    <3>4. Driver'
      BY <1>2, <2>1, <3>2 DEF Driver, Resting
    <3>5. QED BY <1>1, <2>1, <3>3, <3>4 DEF DriveInv
  <2>3. CASE ~socket
    <3>1. UNCHANGED executing /\ pc' = [pc EXCEPT ![r] = Finished(r)]
      BY <1>8, <2>3 DEF SendMessage
    <3>2. \A m \in Message : pc[m] \in {"flight", "written", "failed"} => pc'[m] = pc[m]
      BY <1>2, <2>1, <3>1
    <3>3. closed
      BY <2>3 DEF DriveInv
    <3>4. QED BY <1>1, <2>1, <3>1, <3>2, <3>3, DriveQuietStep
  <2>4. QED BY <2>2, <2>3
<1>9. ASSUME NEW m \in Message, Write(m) \/ FailWrite(m) \/ Complete(m)
      PROVE  DriveInv'
  <2>1. /\ UNCHANGED <<closed, socket>>
        /\ pc[m] \in {"flight", "written"}
        /\ \A o \in Message : o # m => pc'[o] = pc[o]
    BY <1>2, <1>9 DEF Write, FailWrite, Complete
  <2>2. pc'[m] \notin Resting
    BY <1>2, <1>9 DEF Write, FailWrite, Complete, Resting
  <2>3. Driver'
    BY <1>2, <2>2 DEF Driver
  <2>4. failed' => Failure'
    <3>1. CASE failed
      BY <2>1, <3>1 DEF DriveInv, Failure
    <3>2. CASE ~failed
      BY <1>2, <1>9, <3>2 DEF Write, FailWrite, Complete, Failure
    <3>3. QED BY <3>1, <3>2
  <2>5. ExecutingHasOwner'
    BY <1>2, <1>9 DEF Write, FailWrite, Complete, ExecutingHasOwner
  <2>6. QED BY <1>1, <2>1, <2>3, <2>4, <2>5 DEF DriveInv
<1>10. ASSUME NEW m \in Message, HandleResponse(m) PROVE DriveInv'
  <2>1. UNCHANGED <<closed, socket, executing, failed, queue, pc>>
    BY <1>10 DEF HandleResponse
  <2>2. QED BY <1>1, <2>1, DriveQuietStep DEF DriveInv, Driver
<1>11. CASE Close \/ InvalidateSocket
  BY <1>1, <1>11 DEF Close, InvalidateSocket, DriveInv, ExecutingHasOwner, Failure
<1>12. CASE UNCHANGED vars
  BY <1>12 DEF vars, DriveInv, CarriedOnce, ExecutingHasOwner, Failure, Driver
<1>13. QED
  BY <1>2, <1>4, <1>5, <1>6, <1>7, <1>8, <1>9, <1>10, <1>11, <1>12, StepCases

LEMMA DriveInvariant == Spec => []DriveInv
BY TypeInvariant, OrderInit, OrderStep, DriveInit, DriveStep, PTL DEF Spec

\* While _executing is set, some coroutine has yet to clear it, unless a write has
\* failed (Peer::sendMessage).
THEOREM ExecutingHasOwnerCorrect == Spec => []ExecutingHasOwner
<1>1. DriveInv => ExecutingHasOwner
  BY DEF DriveInv
<1>2. QED BY <1>1, DriveInvariant, PTL

\* Once every call and every coroutine is over, an open peer's queue is empty
\* (Peer::request, notify, accept, runOne).
THEOREM NothingStuckCorrect == Spec => []NothingStuck
<1>1. DriveInv => NothingStuck
  <2>1. SUFFICES ASSUME DriveInv, \A s \in Senders : pc[s] = "idle",
                        \A m \in Message : pc[m] \in {"none", "done"}, ~closed,
                        NEW s \in Senders, queue[s] # <<>>
                 PROVE  FALSE
    BY DEF NothingStuck
  <2>2. Driver
    BY <2>1 DEF DriveInv
  <2>3. QED BY <2>1, <2>2 DEF Driver, Resting, Runner
<1>2. QED BY <1>1, DriveInvariant, PTL

-----------------------------------------------------------------------------
(* Responses find their requests                                           *)

LEMMA StoredInit == Init => StoredInv
<1> SUFFICES ASSUME Init, NEW m \in Message, m.n <= sent[m.from] PROVE FALSE
  BY DEF StoredInv
<1>1. m.from \in Senders /\ m.n \in Nat /\ m.n >= 1
  BY MessageShape
<1>2. sent[m.from] = 0
  BY <1>1 DEF Init
<1>3. QED BY <1>1, <1>2

\* A step that queues nothing and stores nothing.
LEMMA StoredQuietStep ==
  ASSUME TypeInv, StoredInv,
         UNCHANGED <<sent, closed, answered, requestMap>>,
         \A s \in Senders : pc[s] = "insert" => pc'[s] = "insert"
  PROVE  StoredInv'
<1>1. \A m \in Message : m.from \in Senders
  BY MessageShape
<1>2. QED BY <1>1 DEF StoredInv

LEMMA StoredStep == TypeInv /\ StoredInv /\ [Next]_vars => StoredInv'
<1> SUFFICES ASSUME TypeInv, StoredInv, [Next]_vars PROVE StoredInv'
  OBVIOUS
<1> USE DEF Goto
<1>1. /\ Senders \subseteq Runner
      /\ \A m \in Message : m \in Runner /\ m \notin Senders
      /\ pc \in [Runner -> SenderPC \cup CoroutinePC]
      /\ sent \in [Senders -> Nat]
  BY NoneAssumption DEF Runner, TypeInv, TypeOK
<1>2. \A m \in Message : /\ m.from \in Senders /\ m.n \in Nat
                         /\ m = [from |-> m.from, n |-> m.n]
  BY MessageShape
<1>3. ASSUME NEW s \in Senders, Enqueue(s) PROVE StoredInv'
  <2>1. /\ pc[s] = "idle"
        /\ pc' = [pc EXCEPT ![s] = IF s \in Requesters THEN "insert" ELSE "check"]
        /\ sent' = [sent EXCEPT ![s] = sent[s] + 1]
        /\ UNCHANGED <<closed, answered, requestMap>>
    BY <1>3 DEF Enqueue
  <2>2. ASSUME NEW m \in Message, m.from \in Requesters, m.n <= sent'[m.from],
               ~closed, m \notin answered
        PROVE  m \in requestMap \/ (pc'[m.from] = "insert" /\ sent'[m.from] = m.n)
    <3>1. CASE m.from # s
      BY <1>1, <1>2, <2>1, <2>2, <3>1 DEF StoredInv
    <3>2. CASE m.from = s /\ m.n <= sent[s]
      BY <2>1, <2>2, <3>2 DEF StoredInv
    <3>3. CASE m.from = s /\ ~(m.n <= sent[s])
      <4>1. sent'[s] = sent[s] + 1 /\ pc'[s] = "insert"
        BY <1>1, <2>1, <2>2, <3>3
      <4>2. m.n = sent[s] + 1
        BY <1>1, <1>2, <2>2, <3>3, <4>1
      <4>3. QED BY <3>3, <4>1, <4>2
    <3>4. QED BY <3>1, <3>2, <3>3
  <2>3. QED BY <2>1, <2>2 DEF StoredInv
<1>4. ASSUME NEW s \in Senders, Insert(s) PROVE StoredInv'
  <2>1. /\ pc[s] = "insert" /\ pc' = [pc EXCEPT ![s] = "check"]
        /\ requestMap' = requestMap \cup {[from |-> s, n |-> sent[s]]}
        /\ UNCHANGED <<closed, answered, sent>>
    BY <1>4 DEF Insert
  <2>2. ASSUME NEW m \in Message, m.from \in Requesters, m.n <= sent[m.from],
               ~closed, m \notin answered
        PROVE  m \in requestMap' \/ (pc'[m.from] = "insert" /\ sent[m.from] = m.n)
    <3>1. m \in requestMap \/ (pc[m.from] = "insert" /\ sent[m.from] = m.n)
      BY <2>2 DEF StoredInv
    <3>2. CASE m.from = s /\ sent[m.from] = m.n
      <4>1. m = [from |-> s, n |-> sent[s]]
        BY <1>2, <3>2
      <4>2. QED BY <2>1, <4>1
    <3>3. CASE ~(m.from = s /\ sent[m.from] = m.n)
      BY <1>1, <1>2, <2>1, <3>1, <3>3
    <3>4. QED BY <3>2, <3>3
  <2>3. QED BY <2>1, <2>2 DEF StoredInv
<1>5. ASSUME NEW s \in Senders, Check(s) PROVE StoredInv'
  BY <1>1, <1>5, StoredQuietStep DEF Check
<1>6. ASSUME NEW r \in Runner, RunOne(r) \/ DequeueNone(r) \/ DequeueOne(r)
      PROVE  StoredInv'
  BY <1>1, <1>6, StoredQuietStep DEF RunOne, DequeueNone, DequeueOne
<1>7. ASSUME NEW r \in Runner, SendMessage(r) PROVE StoredInv'
  <2>1. /\ pc[r] = "send" /\ carry[r] \in Message
        /\ \/ pc' = [pc EXCEPT ![r] = Finished(r)]
           \/ pc' = [pc EXCEPT ![r] = Finished(r), ![carry[r]] = "flight"]
        /\ UNCHANGED <<sent, closed, answered, requestMap>>
    BY <1>7 DEF SendMessage, TypeInv, CarryOk
  <2>2. \A s \in Senders : pc[s] = "insert" => pc'[s] = "insert"
    BY <1>1, <2>1
  <2>3. QED BY <2>1, <2>2, StoredQuietStep
<1>8. ASSUME NEW m \in Message, Write(m) \/ FailWrite(m) \/ Complete(m)
      PROVE  StoredInv'
  BY <1>1, <1>8, StoredQuietStep DEF Write, FailWrite, Complete
<1>9. ASSUME NEW m \in Message, HandleResponse(m) PROVE StoredInv'
  BY <1>9 DEF HandleResponse, StoredInv
<1>10. CASE Close \/ InvalidateSocket \/ UNCHANGED vars
  BY <1>10 DEF Close, InvalidateSocket, vars, StoredInv
<1>11. QED
  BY <1>3, <1>4, <1>5, <1>6, <1>7, <1>8, <1>9, <1>10, StepCases

\* A response that finds no request is one that came while request() had yet to
\* store it (Peer::request, handleResponse).
THEOREM UnmatchedCorrect == Spec => UnmatchedOnlyBeforeStored
<1> DEFINE Explained == \A m \in (answered' \ answered) \ resumed' :
                          pc[m.from] = "insert" /\ sent[m.from] = m.n
<1>1. TypeInv /\ OrderInv /\ StoredInv /\ [Next]_vars => [Explained]_vars
  <2>1. SUFFICES ASSUME TypeInv, OrderInv, StoredInv, [Next]_vars,
                        NEW m \in answered' \ answered, m \notin resumed'
                 PROVE  pc[m.from] = "insert" /\ sent[m.from] = m.n
    OBVIOUS
  <2>2. m \in Message /\ HandleResponse(m)
    BY <2>1, StepCases
    DEF Enqueue, Insert, Check, RunOne, DequeueNone, DequeueOne, SendMessage, Write,
        FailWrite, Complete, HandleResponse, Close, InvalidateSocket, vars
  <2>3. /\ ~closed /\ m.from \in Requesters /\ pc[m] # "none"
        /\ m \notin answered /\ m \notin requestMap
    BY <2>1, <2>2 DEF HandleResponse
  <2>4. m.n <= sent[m.from]
    <3>1. Taken(m)
      BY <2>1, <2>2, <2>3 DEF OrderInv, TakenOk
    <3>2. /\ m.from \in Senders /\ m.n \in Nat
          /\ sent[m.from] \in Nat /\ Len(queue[m.from]) \in Nat
      BY <2>1, <2>2, MessageShape DEF TypeInv, TypeOK
    <3>3. QED BY <3>1, <3>2 DEF Taken
  <2>5. QED BY <2>1, <2>2, <2>3, <2>4 DEF StoredInv
<1>2. QED
  BY <1>1, TypeInvariant, OrderInit, OrderStep, StoredInit, StoredStep, PTL
  DEF Spec, UnmatchedOnlyBeforeStored

-----------------------------------------------------------------------------
(* The queue implements the outbox                                         *)
(*                                                                         *)
(* Every step of the queue is a step of the outbox or changes nothing its  *)
(* callers see.  That no message is lost rests on who carries it: one      *)
(* runner at most (CarriedOnce of DriveInv), which dequeues nothing before *)
(* it has sent off what it carries (CarriedToSend).                        *)

\* A runner carries a message only on its way from the queue to the socket.
CarriedToSend == \A r \in Runner : carry[r] # None => pc[r] = "send"

RefinementInv == TypeInv /\ OrderInv /\ DriveInv /\ CarriedToSend

Delivered == {"written", "run", "dequeue", "send", "done"}

-----------------------------------------------------------------------------
LEMMA CarriedInit == Init => CarriedToSend
BY DEF Init, CarriedToSend

LEMMA CarriedStep ==
  ASSUME TypeInv, DriveInv, CarriedToSend, [Next]_vars
  PROVE  CarriedToSend'
<1> USE DEF Goto
<1>1. /\ Senders \subseteq Runner /\ Message \subseteq Runner
      /\ pc \in [Runner -> SenderPC \cup CoroutinePC]
      /\ carry \in [Runner -> Message \cup {None}]
      /\ None \notin Message
  BY NoneAssumption DEF Runner, TypeInv, TypeOK
<1>2. ASSUME NEW s \in Senders, Enqueue(s) \/ Insert(s) \/ Check(s)
      PROVE  CarriedToSend'
  BY <1>1, <1>2 DEF Enqueue, Insert, Check, CarriedToSend
<1>3. ASSUME NEW r \in Runner, RunOne(r) \/ DequeueNone(r) PROVE CarriedToSend'
  BY <1>1, <1>3 DEF RunOne, DequeueNone, CarriedToSend
<1>4. ASSUME NEW r \in Runner, DequeueOne(r) PROVE CarriedToSend'
  BY <1>1, <1>4 DEF DequeueOne, CarriedToSend
<1>5. ASSUME NEW r \in Runner, SendMessage(r) PROVE CarriedToSend'
  <2>1. /\ pc[r] = "send" /\ carry[r] \in Message /\ pc[carry[r]] = "none"
        /\ carry' = [carry EXCEPT ![r] = None]
        /\ \/ pc' = [pc EXCEPT ![r] = Finished(r)]
           \/ pc' = [pc EXCEPT ![r] = Finished(r), ![carry[r]] = "flight"]
    BY <1>5 DEF SendMessage, TypeInv, CarryOk, DriveInv, CarriedOnce
  <2>2. QED BY <1>1, <2>1 DEF CarriedToSend
<1>6. ASSUME NEW m \in Message, Write(m) \/ FailWrite(m) \/ Complete(m)
      PROVE  CarriedToSend'
  BY <1>1, <1>6 DEF Write, FailWrite, Complete, CarriedToSend
<1>7. ASSUME NEW m \in Message, HandleResponse(m) PROVE CarriedToSend'
  BY <1>7 DEF HandleResponse, CarriedToSend
<1>8. CASE Close \/ InvalidateSocket \/ UNCHANGED vars
  BY <1>8 DEF Close, InvalidateSocket, vars, CarriedToSend
<1>9. QED
  BY <1>2, <1>3, <1>4, <1>5, <1>6, <1>7, <1>8, StepCases

-----------------------------------------------------------------------------
(* What the callers see of a message                                       *)

\* What a message's status depends on.
LEMMA SameStatus ==
  ASSUME NEW x \in Message,
         UNCHANGED <<sent, queue>>,
         \A r \in Runner : carry'[r] = x <=> carry[r] = x,
         \/ pc'[x] = pc[x]
         \/ pc[x] \in Delivered /\ pc'[x] \in Delivered
  PROVE  Status(x)' = Status(x)
BY DEF Status, Waiting, Delivered

\* A step that shows nowhere is a stutter of the outbox.
LEMMA BoxStutter ==
  ASSUME \A x \in Message : Status(x)' = Status(x), UNCHANGED <<wire, closed, failed>>
  PROVE  UNCHANGED Box!box
BY DEF Box!box, Mode

\* A step that shows in one message's status alone.
LEMMA BoxBecomes ==
  ASSUME NEW m \in Message, NEW from, NEW to,
         Status(m) = from, Status(m)' = to,
         \A x \in Message \ {m} : Status(x)' = Status(x)
  PROVE  Box!Becomes(m, from, to)
BY DEF Box!Becomes

-----------------------------------------------------------------------------
LEMMA BoxInit == Init => Box!Init
<1> SUFFICES ASSUME Init PROVE Box!Init
  OBVIOUS
<1>1. \A m \in Message : Status(m) = "new"
  BY MessageShape DEF Init, Status
<1>2. Mode = "working" /\ wire = <<>>
  BY DEF Init, Mode
<1>3. QED BY <1>1, <1>2 DEF Box!Init

\* request(), notify() and accept() hand a message over.
LEMMA BoxEnqueue ==
  ASSUME RefinementInv, NEW s \in Senders, Enqueue(s)
  PROVE  \E m \in Message : Box!Send(m)
<1> USE DEF Goto
<1>0. PICK m \in Message : m = [from |-> s, n |-> sent[s] + 1]
  <2>1. sent[s] \in Nat /\ Count[s] \in Nat /\ sent[s] < Count[s]
    BY CountAssumption DEF Enqueue, RefinementInv, TypeInv, TypeOK
  <2>2. sent[s] + 1 \in Nat /\ sent[s] + 1 >= 1 /\ sent[s] + 1 <= Count[s]
    BY <2>1
  <2>3. QED BY <2>2, MessageShape
<1>1. /\ sent[s] \in Nat /\ Count[s] \in Nat /\ sent[s] < Count[s]
      /\ queue[s] \in Seq(Message)
      /\ sent \in [Senders -> Nat] /\ queue \in [Senders -> Seq(Message)]
      /\ pc \in [Runner -> SenderPC \cup CoroutinePC]
      /\ sent' = [sent EXCEPT ![s] = sent[s] + 1]
      /\ queue' = [queue EXCEPT ![s] = Append(queue[s], m)]
      /\ UNCHANGED <<carry, wire, closed, failed>>
  BY CountAssumption, <1>0 DEF Enqueue, RefinementInv, TypeInv, TypeOK
<1>2. m.from = s /\ m.n = sent[s] + 1
  BY <1>0
<1>3. \A x \in Message : x \in Runner /\ x # s /\ pc'[x] = pc[x]
  BY <1>1, NoneAssumption DEF Enqueue, Runner
<1>4. /\ Len(queue[s]) \in Nat /\ Len(queue[s]) <= sent[s]
      /\ Len(queue'[s]) = Len(queue[s]) + 1 /\ sent'[s] = sent[s] + 1
  <2>1. Len(Append(queue[s], m)) = Len(queue[s]) + 1 /\ Len(queue[s]) \in Nat
    BY <1>1
  <2>2. Len(queue[s]) <= sent[s]
    BY DEF RefinementInv, TypeInv, QueueOk
  <2>3. QED BY <1>1, <2>1, <2>2
<1>5. Status(m) = "new"
  BY <1>1, <1>2 DEF Status
<1>6. Status(m)' = "waiting"
  <2>1. pc[m] = "none"
    <3>1. pc[m] # "none" => m.n <= sent[s] - Len(queue[s])
      BY <1>2 DEF RefinementInv, OrderInv, TakenOk, Taken
    <3>2. QED BY <1>1, <1>2, <1>4, <3>1
  <2>2. m.n <= sent'[m.from] /\ m.n > sent'[m.from] - Len(queue'[m.from])
    BY <1>1, <1>2, <1>4
  <2>3. QED BY <1>1, <1>2, <1>3, <2>1, <2>2 DEF Status, Waiting
<1>7. ASSUME NEW x \in Message \ {m} PROVE Status(x)' = Status(x)
  <2>1. x.from \in Senders /\ x.n \in Nat /\ x = [from |-> x.from, n |-> x.n]
    BY MessageShape
  <2>2. CASE x.from # s
    BY <1>1, <1>3, <2>1, <2>2 DEF Status, Waiting
  <2>3. CASE x.from = s
    <3>1. x.n # sent[s] + 1
      BY <1>0, <2>1, <2>3
    <3>2. x.n > sent'[s] <=> x.n > sent[s]
      BY <1>1, <1>4, <2>1, <3>1
    <3>3. x.n > sent'[s] - Len(queue'[s]) <=> x.n > sent[s] - Len(queue[s])
      BY <1>1, <1>4, <2>1
    <3>4. QED BY <1>1, <1>3, <2>3, <3>2, <3>3 DEF Status, Waiting
  <2>4. QED BY <2>2, <2>3
<1>8. Box!Becomes(m, "new", "waiting")
  BY <1>5, <1>6, <1>7, BoxBecomes
<1>9. QED BY <1>1, <1>8 DEF Box!Send, Mode

\* Taking a message from the queue shows nowhere.
LEMMA BoxDequeue ==
  ASSUME RefinementInv, NEW r \in Runner, DequeueOne(r)
  PROVE  UNCHANGED Box!box
<1> USE DEF Goto
<1>1. PICK s \in Senders :
        /\ queue[s] # <<>> /\ pc[r] = "dequeue"
        /\ pc' = [pc EXCEPT ![r] = "send"]
        /\ carry' = [carry EXCEPT ![r] = Head(queue[s])]
        /\ queue' = [queue EXCEPT ![s] = Tail(queue[s])]
        /\ UNCHANGED <<sent, wire, closed, failed>>
  BY DEF DequeueOne
<1> DEFINE m == Head(queue[s])
<1>2. /\ sent \in [Senders -> Nat] /\ queue \in [Senders -> Seq(Message)]
      /\ pc \in [Runner -> SenderPC \cup CoroutinePC]
      /\ carry \in [Runner -> Message \cup {None}]
      /\ None \notin Message /\ Message \subseteq Runner
  BY NoneAssumption DEF RefinementInv, TypeInv, TypeOK, Runner
<1>3. carry[r] = None
  BY <1>1 DEF RefinementInv, CarriedToSend
<1>4. /\ Len(queue[s]) \in Nat /\ Len(queue[s]) >= 1 /\ sent[s] \in Nat
      /\ Len(queue'[s]) = Len(queue[s]) - 1
      /\ m = queue[s][1]
  <2>1. queue[s] \in Seq(Message)
    BY <1>2
  <2>2. /\ Len(queue[s]) \in Nat /\ Len(queue[s]) >= 1
        /\ Len(Tail(queue[s])) = Len(queue[s]) - 1 /\ m = queue[s][1]
    BY <1>1, <2>1
  <2>3. QED BY <1>1, <1>2, <2>2
<1>5. m = [from |-> s, n |-> sent[s] - Len(queue[s]) + 1] /\ m \in Message
  <2>1. m = [from |-> s, n |-> sent[s] - Len(queue[s]) + 1]
    BY <1>4 DEF RefinementInv, TypeInv, QueueOk
  <2>2. queue[s] \in Seq(Message)
    BY <1>2
  <2>3. QED BY <1>1, <2>1, <2>2, HeadTailProperties
<1>6. ASSUME NEW x \in Message PROVE Status(x)' = Status(x)
  <2>1. x.from \in Senders /\ x.n \in Nat /\ x = [from |-> x.from, n |-> x.n]
    BY MessageShape
  <2>2. pc'[x] = pc[x] \/ (pc[x] \in Delivered /\ pc'[x] \in Delivered)
    BY <1>1, <1>2 DEF Delivered
  <2>3. pc'[x] = "flight" <=> pc[x] = "flight"
    BY <1>1, <1>2
  <2>4. Waiting(x)' <=> Waiting(x)
    <3>1. CASE x = m
      <4>1. Waiting(x)
        <5>1. x.n > sent[x.from] - Len(queue[x.from])
          BY <1>4, <1>5, <3>1
        <5>2. QED BY <5>1 DEF Waiting
      <4>2. carry'[r] = x
        BY <1>1, <1>2, <3>1
      <4>3. QED BY <4>1, <4>2 DEF Waiting
    <3>2. CASE x # m
      <4>1. \A q \in Runner : carry'[q] = x <=> carry[q] = x
        BY <1>1, <1>2, <1>3, <3>2
      <4>2. x.n > sent[x.from] - Len(queue'[x.from]) <=> x.n > sent[x.from] - Len(queue[x.from])
        <5>1. CASE x.from # s
          BY <1>1, <1>2, <5>1
        <5>2. CASE x.from = s
          <6>1. x.n # sent[s] - Len(queue[s]) + 1
            BY <1>5, <2>1, <3>2, <5>2
          <6>2. QED BY <1>4, <2>1, <5>2, <6>1
        <5>3. QED BY <5>1, <5>2
      <4>3. QED BY <1>1, <2>3, <4>1, <4>2 DEF Waiting
    <3>3. QED BY <3>1, <3>2
  <2>5. pc'[x] \in Delivered <=> pc[x] \in Delivered
    BY <2>2
  <2>6. QED BY <1>1, <2>4, <2>5 DEF Status, Delivered
<1>7. QED BY <1>1, <1>6, BoxStutter

\* sendMessage() starts the message's coroutine, or drops it with the socket.
LEMMA BoxSendMessage ==
  ASSUME RefinementInv, NEW r \in Runner, SendMessage(r)
  PROVE  UNCHANGED Box!box \/ \E m \in Message : Box!Discard(m)
<1>0. PICK m \in Message : m = carry[r]
  BY DEF SendMessage, RefinementInv, TypeInv, CarryOk
<1>1. /\ pc \in [Runner -> SenderPC \cup CoroutinePC]
      /\ carry \in [Runner -> Message \cup {None}]
      /\ None \notin Message /\ Message \subseteq Runner /\ Message \cap Senders = {}
  BY NoneAssumption DEF RefinementInv, TypeInv, TypeOK, Runner
<1>2. /\ pc[r] = "send" /\ carry[r] = m /\ pc[m] = "none"
      /\ \A q \in Runner : carry[q] = m => q = r
      /\ carry' = [carry EXCEPT ![r] = None]
      /\ UNCHANGED <<sent, queue, wire, closed, failed>>
  BY <1>0 DEF SendMessage, RefinementInv, DriveInv, CarriedOnce
<1>3. m # r
  BY <1>2
<1>4. /\ m.n \in Nat /\ sent[m.from] \in Nat /\ Len(queue[m.from]) \in Nat
      /\ m.n <= sent[m.from] - Len(queue[m.from])
  BY <1>2, MessageShape DEF RefinementInv, TypeInv, TypeOK, OrderInv, TakenOk, Taken
<1>5. ~(m.n > sent[m.from]) /\ ~(m.n > sent[m.from] - Len(queue[m.from]))
  BY <1>4
<1>6. Status(m) = "waiting"
  BY <1>2, <1>5 DEF Status, Waiting
<1>7. ASSUME NEW x \in Message \ {m},
             \/ pc' = [pc EXCEPT ![r] = Finished(r)]
             \/ pc' = [pc EXCEPT ![r] = Finished(r), ![m] = "flight"]
      PROVE  Status(x)' = Status(x)
  <2>1. pc'[x] = pc[x] \/ (pc[x] \in Delivered /\ pc'[x] \in Delivered)
    <3>1. CASE x = r
      <4>1. Finished(r) = "done"
        BY <1>1, <3>1 DEF Finished
      <4>2. QED BY <1>1, <1>2, <1>3, <1>7, <3>1, <4>1 DEF Delivered
    <3>2. CASE x # r
      BY <1>1, <1>7, <3>2
    <3>3. QED BY <3>1, <3>2
  <2>2. \A q \in Runner : carry'[q] = x <=> carry[q] = x
    BY <1>1, <1>2
  <2>3. QED BY <1>2, <2>1, <2>2, SameStatus
<1>8. CASE socket
  <2>1. pc' = [pc EXCEPT ![r] = Finished(r), ![m] = "flight"]
    BY <1>2, <1>8 DEF SendMessage
  <2>2. pc'[m] = "flight"
    BY <1>1, <1>2, <2>1
  <2>3. Status(m)' = "waiting"
    BY <1>2, <1>5, <2>2 DEF Status, Waiting
  <2>4. QED BY <1>2, <1>6, <1>7, <2>1, <2>3, BoxStutter
<1>9. CASE ~socket
  <2>1. pc' = [pc EXCEPT ![r] = Finished(r)]
    BY <1>2, <1>9 DEF SendMessage
  <2>2. pc'[m] = "none"
    BY <1>1, <1>2, <1>3, <2>1
  <2>3. \A q \in Runner : carry'[q] # m
    BY <1>1, <1>2
  <2>4. Status(m)' = "lost"
    BY <1>2, <1>5, <2>2, <2>3 DEF Status, Waiting
  <2>5. Mode = "closed" /\ UNCHANGED Mode
    BY <1>2, <1>9 DEF Mode, RefinementInv, DriveInv
  <2>6. Box!Becomes(m, "waiting", "lost")
    BY <1>2, <1>6, <1>7, <2>1, <2>4, BoxBecomes
  <2>7. QED BY <1>2, <2>5, <2>6 DEF Box!Discard
<1>10. QED BY <1>8, <1>9

\* The coroutine of a message writes it, or fails to.
LEMMA BoxWrite ==
  ASSUME RefinementInv, NEW m \in Message, Write(m) \/ FailWrite(m)
  PROVE  Box!Deliver(m) \/ Box!Fail(m)
<1> USE DEF Goto
<1>1. /\ pc \in [Runner -> SenderPC \cup CoroutinePC] /\ Message \subseteq Runner
  BY DEF RefinementInv, TypeInv, TypeOK, Runner
<1>2. /\ pc[m] = "flight" /\ ~closed
      /\ \E to : pc' = [pc EXCEPT ![m] = to]
      /\ UNCHANGED <<sent, queue, carry, closed>>
  BY DEF Write, FailWrite
<1>3. /\ m.n \in Nat /\ sent[m.from] \in Nat /\ Len(queue[m.from]) \in Nat
      /\ m.n <= sent[m.from] - Len(queue[m.from])
  BY <1>2, MessageShape DEF RefinementInv, TypeInv, TypeOK, OrderInv, TakenOk, Taken
<1>4. ~(m.n > sent[m.from]) /\ ~(m.n > sent[m.from] - Len(queue[m.from]))
  BY <1>3
<1>5. Status(m) = "waiting"
  BY <1>2, <1>4 DEF Status, Waiting
<1>6. ASSUME NEW x \in Message \ {m} PROVE Status(x)' = Status(x)
  <2>1. pc'[x] = pc[x]
    BY <1>1, <1>2
  <2>2. QED BY <1>2, <2>1, SameStatus
<1>7. Mode # "closed"
  BY <1>2 DEF Mode
<1>8. CASE Write(m)
  <2>1. /\ pc'[m] = "written" /\ wire' = Append(wire, m) /\ failed' = failed
    BY <1>1, <1>8 DEF Write
  <2>2. Status(m)' = "delivered"
    BY <1>2, <1>4, <2>1 DEF Status
  <2>3. Box!Becomes(m, "waiting", "delivered")
    BY <1>5, <1>6, <2>2, BoxBecomes
  <2>4. UNCHANGED Mode
    BY <1>2, <2>1 DEF Mode
  <2>5. QED BY <1>7, <2>1, <2>3, <2>4 DEF Box!Deliver
<1>9. CASE FailWrite(m)
  <2>1. pc'[m] = "failed" /\ failed' = TRUE /\ wire' = wire
    BY <1>1, <1>9 DEF FailWrite
  <2>2. \A q \in Runner : carry'[q] # m
    BY <1>2 DEF RefinementInv, DriveInv, CarriedOnce
  <2>3. Status(m)' = "lost"
    BY <1>2, <1>4, <2>1, <2>2 DEF Status, Waiting
  <2>4. Box!Becomes(m, "waiting", "lost")
    BY <1>5, <1>6, <2>3, BoxBecomes
  <2>5. Mode' = "stalled"
    BY <1>2, <2>1 DEF Mode
  <2>6. QED BY <1>7, <2>1, <2>4, <2>5 DEF Box!Fail
<1>10. QED BY <1>8, <1>9

\* The remaining steps but close() move a call or a coroutine along, unseen.
LEMMA BoxQuiet ==
  ASSUME RefinementInv,
         \/ \E s \in Senders : Insert(s) \/ Check(s)
         \/ \E r \in Runner : RunOne(r) \/ DequeueNone(r)
         \/ \E m \in Message : Complete(m) \/ HandleResponse(m)
         \/ InvalidateSocket \/ UNCHANGED vars
  PROVE  UNCHANGED Box!box
<1> USE DEF Goto
<1>1. /\ pc \in [Runner -> SenderPC \cup CoroutinePC]
      /\ Message \subseteq Runner /\ Message \cap Senders = {}
  BY NoneAssumption DEF RefinementInv, TypeInv, TypeOK, Runner
<1>2. UNCHANGED <<sent, queue, carry, wire, closed, failed>>
  BY DEF Insert, Check, RunOne, DequeueNone, Complete, HandleResponse, InvalidateSocket, vars
<1>3. ASSUME NEW x \in Message
      PROVE  pc'[x] = pc[x] \/ (pc[x] \in Delivered /\ pc'[x] \in Delivered)
  <2>1. CASE \E s \in Senders : Insert(s) \/ Check(s)
    BY <1>1, <1>3, <2>1 DEF Insert, Check
  <2>2. CASE \E r \in Runner : RunOne(r) \/ DequeueNone(r)
    BY <1>1, <1>3, <2>2 DEF RunOne, DequeueNone, Finished, Delivered
  <2>3. CASE \E m \in Message : Complete(m) \/ HandleResponse(m)
    BY <1>1, <1>3, <2>3 DEF Complete, HandleResponse, Delivered
  <2>4. CASE InvalidateSocket \/ UNCHANGED vars
    BY <2>4 DEF InvalidateSocket, vars
  <2>5. QED BY <2>1, <2>2, <2>3, <2>4
<1>4. \A x \in Message : Status(x)' = Status(x)
  BY <1>2, <1>3, SameStatus
<1>5. QED BY <1>2, <1>4, BoxStutter

LEMMA BoxClose ==
  ASSUME RefinementInv, Close
  PROVE  Box!Close
<1>1. ~closed /\ closed' /\ UNCHANGED <<sent, queue, carry, wire, failed, pc>>
  BY DEF Close
<1>2. Mode # "closed" /\ Mode' = "closed"
  BY <1>1 DEF Mode
<1>3. \A x \in Message : Status(x)' = Status(x)
  BY <1>1, SameStatus
<1>4. QED BY <1>1, <1>2, <1>3 DEF Box!Close

LEMMA BoxStep == RefinementInv /\ [Next]_vars => [Box!Next]_(Box!box)
<1> SUFFICES ASSUME RefinementInv, [Next]_vars PROVE Box!Next \/ UNCHANGED Box!box
  OBVIOUS
<1>1. CASE \E s \in Senders : Enqueue(s)
  BY <1>1, BoxEnqueue DEF Box!Next
<1>2. CASE \E r \in Runner : DequeueOne(r)
  BY <1>2, BoxDequeue
<1>3. CASE \E r \in Runner : SendMessage(r)
  BY <1>3, BoxSendMessage DEF Box!Next
<1>4. CASE \E m \in Message : Write(m) \/ FailWrite(m)
  BY <1>4, BoxWrite DEF Box!Next
<1>5. CASE Close
  BY <1>5, BoxClose DEF Box!Next
<1>6. CASE \/ \E s \in Senders : Insert(s) \/ Check(s)
           \/ \E r \in Runner : RunOne(r) \/ DequeueNone(r)
           \/ \E m \in Message : Complete(m) \/ HandleResponse(m)
           \/ InvalidateSocket \/ UNCHANGED vars
  BY <1>6, BoxQuiet
<1>7. QED BY <1>1, <1>2, <1>3, <1>4, <1>5, <1>6, StepCases

\* Whatever the threads and coroutines do, a message is written at most once,
\* after it was queued, and is lost only with its socket or by a failed write
\* (Peer::request, notify, accept, reject, runOne, sendMessage and the
\* coroutine): the queue implements the outbox.
THEOREM OutboxCorrect == Spec => DeliversAtMostOnce
<1>1. Init => RefinementInv
  BY TypeInit, OrderInit, DriveInit, CarriedInit DEF RefinementInv
<1>2. RefinementInv /\ [Next]_vars => RefinementInv'
  BY TypeStep, OrderStep, DriveStep, CarriedStep DEF RefinementInv
<1>3. QED
  BY <1>1, <1>2, BoxInit, BoxStep, PTL DEF Spec, DeliversAtMostOnce, Box!Safety
=============================================================================
