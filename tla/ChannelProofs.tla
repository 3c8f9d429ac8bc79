---------------------------- MODULE ChannelProofs ----------------------------
(***************************************************************************)
(* Proofs about Channel, for any set of calls and any width of the id.     *)
(*                                                                         *)
(* The invariant follows a call's one message (queued request, request the *)
(* worker holds, response posted to the pool thread): as long as it is     *)
(* somewhere and its id is not shared, the call's callback is in the map   *)
(* and its promise is unset.  That the channel implements RequestService   *)
(* needs another, which holds of shared ids too (ServiceInv).              *)
(***************************************************************************)
EXTENDS Channel, SequenceTheorems, TLAPS

Sent == {"notify", "wait", "connect", "done"}

Pending(c) ==
  /\ pc[c] \in {"notify", "wait"}
  /\ result[c] = None
  /\ Registered(c)

\* What is true of a request or a response m of call m.call, wherever it is.
MessageOk(m) ==
  /\ m.id = reqId[m.call]
  /\ pc[m.call] \in Sent
  /\ Unshared(m.call) => Pending(m.call)

IdDrawn ==
  \A c \in Calls : IF pc[c] \in {"start", "incr", "wrap", "read"}
                   THEN reqId[c] = None ELSE reqId[c] \in Ids

Fresh ==
  \A c \in Calls :
    pc[c] \in {"start", "incr", "wrap", "read", "request", "register"} =>
      /\ result[c] = None
      /\ \A i \in DOMAIN callbackMap : callbackMap[i] # c

MapOk == \A i \in DOMAIN callbackMap : reqId[callbackMap[i]] = i

SendOk ==
  \A c \in Calls :
    pc[c] = "send" /\ Unshared(c) => Registered(c) /\ result[c] = None

WorkerOk == wpc = "handle" => wmsg # None

MessagesOk ==
  /\ \A r \in requestQueue : MessageOk(r)
  /\ wmsg # None => MessageOk(wmsg)
  /\ \A k \in DOMAIN inbox : inbox[k].type = "response" => MessageOk(inbox[k])

\* A call's message is in one place.
OneMessage ==
  /\ wmsg # None => \A r \in requestQueue : r.call # wmsg.call
  /\ \A k \in DOMAIN inbox : inbox[k].type = "response" =>
       /\ \A r \in requestQueue : r.call # inbox[k].call
       /\ wmsg # None => wmsg.call # inbox[k].call
       /\ \A j \in DOMAIN inbox :
            inbox[j].type = "response" /\ inbox[j].call = inbox[k].call => j = k

DanglingDone == \A c \in dangling : pc[c] = "done"

AnswerInv ==
  /\ TypeOK
  /\ IdDrawn
  /\ Fresh
  /\ MapOk
  /\ SendOk
  /\ WorkerOk
  /\ MessagesOk
  /\ OneMessage
  /\ DanglingDone
  /\ OwnAnswer
  /\ NoDanglingPromise

\* The worker is awake, or will be, whenever a request is queued.
WakeInv ==
  /\ ~handle /\ wpc = "idle" => async
  /\ \A r \in requestQueue :
       \/ pc[r.call] = "notify"
       \/ r.call \in stranded
       \/ async
       \/ wpc \in {"dequeue", "handle", "stopped"}
       \/ wpc = "setHandle" /\ wmsg # None
-----------------------------------------------------------------------------
(* Type correctness: every step of every thread keeps the state typed.     *)

LEMMA TypeInit == Init => TypeOK
<1> SUFFICES ASSUME Init PROVE TypeOK
  OBVIOUS
<1>1. nextId \in Ids
  BY MaxIdAssumption DEF Init, Ids
<1>2. DOMAIN callbackMap = {}
  BY DEF Init
<1>3. inbox \in Seq(Response \cup Notification)
  BY DEF Init
<1>4. /\ pc \in [Calls -> PC]
      /\ reqId \in [Calls -> Ids \cup {None}]
      /\ result \in [Calls -> Answer \cup {None}]
      /\ told \in [Calls -> {"none", "delivered", "missed"}]
  BY DEF Init, PC
<1>5. QED BY <1>1, <1>2, <1>3, <1>4 DEF Init, TypeOK

LEMMA CallerType ==
  ASSUME TypeOK, IdDrawn, NEW c \in Calls, Caller(c)
  PROVE  TypeOK'
<1> USE NoneAssumption, MaxIdAssumption
    DEF TypeOK, Goto, workerVars, poolVars, history, callVars
<1>1. CASE GenCompare(c)
  BY <1>1 DEF GenCompare, PC
<1>2. CASE GenIncrement(c)
  <2>1. (nextId + 1) % (MaxId + 1) \in Ids
    BY DEF Ids
  <2>2. QED BY <1>2, <2>1 DEF GenIncrement, PC
<1>3. CASE GenWrap(c)
  BY <1>3 DEF GenWrap, PC, Ids
<1>4. CASE GenRead(c)
  BY <1>4 DEF GenRead, PC
<1>5. CASE CheckClosed(c)
  BY <1>5 DEF CheckClosed, PC
<1>6. CASE Register(c)
  <2>1. reqId[c] \in Ids
    BY <1>6 DEF Register, IdDrawn
  <2>2. QED BY <1>6, <2>1 DEF Register, PC
<1>7. CASE TooBig(c)
  BY <1>7 DEF TooBig, PC
<1>8. CASE Enqueue(c)
  <2>1. reqId[c] \in Ids
    BY <1>8 DEF Enqueue, IdDrawn
  <2>2. QED BY <1>8, <2>1 DEF Enqueue, PC, Request
<1>9. CASE NotifyRead(c)
  BY <1>9 DEF NotifyRead, PC
<1>10. CASE Return(c)
  BY <1>10 DEF Return, PC
<1>11. CASE Connect(c)
  BY <1>11 DEF Connect, PC
<1>12. CASE EnqueueFails(c)
  BY <1>12 DEF EnqueueFails, PC
<1>13. QED
  BY <1>1, <1>2, <1>3, <1>4, <1>5, <1>6, <1>7, <1>8, <1>9, <1>10, <1>11, <1>12
  DEF Caller

LEMMA OtherType ==
  ASSUME TypeOK, WorkerOk,
         \/ Worker \/ WorkerStop \/ Close \/ Pool
         \/ \E c \in Calls : Emit(c)
  PROVE  TypeOK'
<1> USE NoneAssumption, MaxIdAssumption
    DEF TypeOK, workerVars, poolVars, history, callVars
<1>1. CASE WakeUp
  BY <1>1 DEF WakeUp
<1>2. CASE Dequeue
  BY <1>2 DEF Dequeue
<1>3. CASE SetHandle
  BY <1>3 DEF SetHandle
<1>4. ASSUME NEW ok \in BOOLEAN, Handle(ok) PROVE TypeOK'
  <2>1. wmsg \in Request
    BY <1>4 DEF Handle, WorkerOk
  <2>2. [type |-> "response", id |-> wmsg.id, call |-> wmsg.call, ok |-> ok]
          \in Response
    BY <2>1 DEF Request, Response
  <2>3. inbox' \in Seq(Response \cup Notification)
    BY <1>4, <2>2 DEF Handle
  <2>4. entities' \in SUBSET Calls
    BY <1>4, <2>1 DEF Handle, Request
  <2>5. QED BY <1>4, <2>3, <2>4 DEF Handle
<1>5. ASSUME NEW c \in Calls, Emit(c) PROVE TypeOK'
  <2>1. [type |-> "notification", call |-> c] \in Notification
    BY DEF Notification
  <2>2. inbox' \in Seq(Response \cup Notification)
    BY <1>5, <2>1 DEF Emit
  <2>3. QED BY <1>5, <2>2 DEF Emit
<1>6. CASE WorkerStop
  BY <1>6 DEF WorkerStop
<1>7. CASE Close
  BY <1>7 DEF Close
<1>8. CASE ProcessResponse
  <2>1. Head(inbox) \in Response \cup Notification /\ inbox' \in Seq(Response \cup Notification)
    BY <1>8 DEF ProcessResponse
  <2>2. Head(inbox) \in Response
    BY <2>1, <1>8 DEF ProcessResponse, Response, Notification
  <2>3. [call |-> Head(inbox).call, ok |-> Head(inbox).ok] \in Answer
    BY <2>2 DEF Response, Answer
  <2>4. CASE Head(inbox).id \in DOMAIN callbackMap
    <3> DEFINE owner == callbackMap[Head(inbox).id]
    <3>1. owner \in Calls
      BY <2>4
    <3>2. callbackMap' = WithoutKey(callbackMap, Head(inbox).id)
      BY <1>8, <2>4 DEF ProcessResponse
    <3>3. /\ DOMAIN callbackMap' \subseteq Ids
          /\ \A i \in DOMAIN callbackMap' : callbackMap'[i] \in Calls
      BY <3>2 DEF WithoutKey
    <3>4. result' \in [Calls -> Answer \cup {None}] /\ dangling' \in SUBSET Calls
      BY <1>8, <2>3, <2>4, <3>1 DEF ProcessResponse
    <3>5. QED BY <1>8, <2>1, <3>3, <3>4 DEF ProcessResponse
  <2>5. CASE Head(inbox).id \notin DOMAIN callbackMap
    BY <1>8, <2>1, <2>5 DEF ProcessResponse
  <2>6. QED BY <2>4, <2>5
<1>9. CASE ProcessNotification
  <2>1. Head(inbox) \in Response \cup Notification /\ inbox' \in Seq(Response \cup Notification)
    BY <1>9 DEF ProcessNotification
  <2>2. QED BY <1>9, <2>1 DEF ProcessNotification
<1>10. QED
  BY <1>1, <1>2, <1>3, <1>4, <1>5, <1>6, <1>7, <1>8, <1>9 DEF Worker, Pool

-----------------------------------------------------------------------------
(* The answer invariant.                                                   *)

LEMMA AnswerInit == Init => AnswerInv
<1> SUFFICES ASSUME Init PROVE AnswerInv
  OBVIOUS
<1>1. TypeOK
  BY TypeInit
<1>2. /\ DOMAIN callbackMap = {} /\ requestQueue = {} /\ wmsg = None
      /\ wpc = "idle" /\ dangling = {} /\ DOMAIN inbox = {}
      /\ \A c \in Calls : pc[c] = "start" /\ result[c] = None /\ reqId[c] = None
  BY DEF Init
<1>3. QED
  BY <1>1, <1>2 DEF AnswerInv, IdDrawn, Fresh, MapOk, SendOk, WorkerOk,
     MessagesOk, OneMessage, DanglingDone, OwnAnswer, NoDanglingPromise

\* A step of call c that leaves ids, callbacks, messages and promises alone,
\* and does not move c into or out of the states its message depends on.
LEMMA QuietStep ==
  ASSUME AnswerInv, TypeOK', NEW c \in Calls, NEW from, NEW to,
         Goto(c, from, to),
         \/ from \in {"start", "incr", "wrap", "read", "request"} /\
              to \in {"incr", "wrap", "read", "register"}
              /\ (from = "request" <=> to = "register")
         \/ from \in {"request", "send", "connect"} /\ to = "done"
         \/ from \in {"notify", "send"} /\ to = "wait"
         \/ from = "wait" /\ to \in {"connect", "done"} /\ result[c] # None,
         UNCHANGED <<callbackMap, requestQueue, reqId, result, wpc, wmsg,
                     inbox, dangling>>
  PROVE  AnswerInv'
<1>1. \A d \in Calls \ {c} : pc'[d] = pc[d]
  BY DEF Goto, AnswerInv, TypeOK
<1>2. pc[c] = from /\ pc'[c] = to
  BY DEF Goto, AnswerInv, TypeOK
<1>3. \A d \in Calls : (Unshared(d)' <=> Unshared(d)) /\ (Registered(d)' <=> Registered(d))
  BY DEF Unshared, Registered
<1>4. IdDrawn'
  BY <1>1, <1>2 DEF AnswerInv, IdDrawn
<1>5. Fresh'
  BY <1>1, <1>2 DEF AnswerInv, Fresh
<1>6. MapOk' /\ WorkerOk' /\ OneMessage'
  BY DEF AnswerInv, MapOk, WorkerOk, OneMessage
<1>7. SendOk'
  BY <1>1, <1>2, <1>3 DEF AnswerInv, SendOk
<1>8. \A d \in Calls : pc[d] \in Sent => pc'[d] \in Sent
  BY <1>1, <1>2 DEF Sent
<1>9. \A d \in Calls : Pending(d) => Pending(d)'
  BY <1>1, <1>2, <1>3 DEF Pending
<1>10. MessagesOk'
  <2>1. \A m : m.call \in Calls /\ MessageOk(m) => MessageOk(m)'
    BY <1>3, <1>8, <1>9 DEF MessageOk
  <2>2. /\ \A r \in requestQueue : r.call \in Calls
        /\ wmsg # None => wmsg.call \in Calls
    BY DEF AnswerInv, TypeOK, Request
  <2>3. \A k \in DOMAIN inbox : inbox[k].call \in Calls
    BY DEF AnswerInv, TypeOK, Response, Notification
  <2>4. QED BY <2>1, <2>2, <2>3 DEF AnswerInv, MessagesOk
<1>11. DanglingDone'
  BY <1>1, <1>2 DEF AnswerInv, DanglingDone, TypeOK
<1>12. OwnAnswer' /\ NoDanglingPromise'
  BY <1>3 DEF AnswerInv, OwnAnswer, NoDanglingPromise, TypeOK
<1>13. QED
  BY <1>4, <1>5, <1>6, <1>7, <1>10, <1>11, <1>12 DEF AnswerInv

LEMMA CallsOfMessages ==
  ASSUME TypeOK
  PROVE  /\ \A r \in requestQueue : r.call \in Calls /\ r.id \in Ids
         /\ wmsg # None => wmsg.call \in Calls /\ wmsg.id \in Ids
         /\ \A k \in DOMAIN inbox : inbox[k].call \in Calls
  BY DEF TypeOK, Request, Response, Notification

\* Drawing an id can only make other calls' ids shared, and c has no message.
LEMMA GenReadStep ==
  ASSUME AnswerInv, TypeOK', NEW c \in Calls, GenRead(c)
  PROVE  AnswerInv'
<1>1. /\ pc[c] = "read" /\ pc'[c] = "request"
      /\ reqId'[c] \in Ids
      /\ \A d \in Calls \ {c} : pc'[d] = pc[d] /\ reqId'[d] = reqId[d]
  BY DEF GenRead, Goto, AnswerInv, TypeOK
<1>2. UNCHANGED <<callbackMap, requestQueue, result, wpc, wmsg, inbox, dangling>>
  BY DEF GenRead, workerVars, poolVars, history
<1>3. \A d \in Calls \ {c} : Unshared(d)' => Unshared(d)
  BY <1>1 DEF Unshared, AnswerInv, IdDrawn
<1>4. \A d \in Calls \ {c} : Registered(d)' <=> Registered(d)
  BY <1>1, <1>2 DEF Registered
<1>5. IdDrawn'
  BY <1>1 DEF AnswerInv, IdDrawn
<1>6. Fresh'
  BY <1>1, <1>2 DEF AnswerInv, Fresh
<1>7. MapOk'
  <2>1. \A i \in DOMAIN callbackMap : callbackMap[i] \in Calls \ {c}
    BY <1>1 DEF AnswerInv, Fresh, TypeOK
  <2>2. QED BY <1>1, <1>2, <2>1 DEF AnswerInv, MapOk
<1>8. SendOk'
  BY <1>1, <1>2, <1>3, <1>4 DEF AnswerInv, SendOk
<1>9. WorkerOk' /\ OneMessage'
  BY <1>2 DEF AnswerInv, WorkerOk, OneMessage
<1>10. MessagesOk'
  <2>1. \A m : m.call \in Calls /\ MessageOk(m) => MessageOk(m)'
    <3> SUFFICES ASSUME NEW m, m.call \in Calls, MessageOk(m)
                 PROVE  MessageOk(m)'
      OBVIOUS
    <3>1. m.call # c
      BY <1>1 DEF MessageOk, Sent
    <3>2. QED BY <1>1, <1>2, <1>3, <1>4, <3>1 DEF MessageOk, Pending
  <2>2. QED BY <1>2, <2>1, CallsOfMessages DEF AnswerInv, MessagesOk
<1>11. DanglingDone'
  BY <1>1, <1>2 DEF AnswerInv, DanglingDone, TypeOK
<1>12. OwnAnswer'
  BY <1>1, <1>2, <1>3 DEF AnswerInv, OwnAnswer, Fresh
<1>13. NoDanglingPromise'
  BY <1>1, <1>2, <1>3 DEF AnswerInv, NoDanglingPromise, DanglingDone, TypeOK
<1>14. QED
  BY <1>5, <1>6, <1>7, <1>8, <1>9, <1>10, <1>11, <1>12, <1>13 DEF AnswerInv

\* Storing the callback: an id that is not shared was not in the map.
LEMMA RegisterStep ==
  ASSUME AnswerInv, TypeOK', NEW c \in Calls, Register(c)
  PROVE  AnswerInv'
<1>1. /\ pc[c] = "register" /\ pc'[c] = "send" /\ reqId[c] \in Ids
      /\ \A d \in Calls \ {c} : pc'[d] = pc[d]
  BY DEF Register, Goto, AnswerInv, TypeOK, IdDrawn
<1>2. UNCHANGED <<reqId, requestQueue, result, wpc, wmsg, inbox, dangling>>
  BY DEF Register, workerVars, poolVars, history
<1>3. /\ DOMAIN callbackMap' = DOMAIN callbackMap \cup {reqId[c]}
      /\ \A i \in DOMAIN callbackMap : callbackMap'[i] = callbackMap[i]
      /\ reqId[c] \notin DOMAIN callbackMap => callbackMap'[reqId[c]] = c
  BY DEF Register
<1>4. \A d \in Calls : Unshared(d)' <=> Unshared(d)
  BY <1>2 DEF Unshared
<1>5. \A d \in Calls : Registered(d) => Registered(d)'
  BY <1>2, <1>3 DEF Registered
<1>6. IdDrawn' /\ Fresh'
  BY <1>1, <1>2, <1>3 DEF AnswerInv, IdDrawn, Fresh
<1>7. MapOk'
  BY <1>2, <1>3 DEF AnswerInv, MapOk
<1>8. SendOk'
  <2>1. ASSUME Unshared(c) PROVE Registered(c)' /\ result'[c] = None
    <3>1. reqId[c] \notin DOMAIN callbackMap
      BY <1>1, <2>1 DEF Unshared, AnswerInv, MapOk, TypeOK, Fresh
    <3>2. QED BY <1>1, <1>2, <1>3, <3>1 DEF Registered, AnswerInv, Fresh
  <2>2. QED BY <1>1, <1>2, <1>4, <1>5, <2>1 DEF AnswerInv, SendOk
<1>9. WorkerOk' /\ OneMessage'
  BY <1>2 DEF AnswerInv, WorkerOk, OneMessage
<1>10. MessagesOk'
  <2>1. \A m : m.call \in Calls /\ MessageOk(m) => MessageOk(m)'
    BY <1>1, <1>2, <1>4, <1>5 DEF MessageOk, Pending, Sent
  <2>2. QED BY <1>2, <2>1, CallsOfMessages DEF AnswerInv, MessagesOk
<1>11. DanglingDone'
  BY <1>1, <1>2 DEF AnswerInv, DanglingDone, TypeOK
<1>12. OwnAnswer' /\ NoDanglingPromise'
  BY <1>2, <1>4 DEF AnswerInv, OwnAnswer, NoDanglingPromise, TypeOK
<1>13. QED
  BY <1>6, <1>7, <1>8, <1>9, <1>10, <1>11, <1>12 DEF AnswerInv

\* Sending the request: c had no message, and its callback is in place.
LEMMA EnqueueStep ==
  ASSUME AnswerInv, TypeOK', NEW c \in Calls, Enqueue(c)
  PROVE  AnswerInv'
<1>1. /\ pc[c] = "send" /\ pc'[c] = "notify" /\ reqId[c] \in Ids
      /\ \A d \in Calls \ {c} : pc'[d] = pc[d]
  BY DEF Enqueue, Goto, AnswerInv, TypeOK, IdDrawn
<1>2. /\ UNCHANGED <<callbackMap, reqId, result, wpc, wmsg, inbox, dangling>>
      /\ requestQueue' = requestQueue \cup {[id |-> reqId[c], call |-> c]}
  BY DEF Enqueue, workerVars, poolVars, history
<1>3. \A d \in Calls : /\ Unshared(d)' <=> Unshared(d)
                       /\ Registered(d)' <=> Registered(d)
  BY <1>2 DEF Unshared, Registered
<1>4. IdDrawn' /\ Fresh' /\ MapOk' /\ WorkerOk'
  BY <1>1, <1>2 DEF AnswerInv, IdDrawn, Fresh, MapOk, WorkerOk
<1>5. SendOk'
  BY <1>1, <1>2, <1>3 DEF AnswerInv, SendOk
<1>6. \A m : m.call \in Calls /\ MessageOk(m) => m.call # c /\ MessageOk(m)'
  BY <1>1, <1>2, <1>3 DEF MessageOk, Pending, Sent
<1>7. MessageOk([id |-> reqId[c], call |-> c])'
  BY <1>1, <1>2, <1>3 DEF MessageOk, Pending, Sent, AnswerInv, SendOk
<1>8. MessagesOk'
  BY <1>2, <1>6, <1>7, CallsOfMessages DEF AnswerInv, MessagesOk
<1>9. OneMessage'
  <2>1. /\ wmsg # None => wmsg.call # c
        /\ \A k \in DOMAIN inbox : inbox[k].type = "response" => inbox[k].call # c
    BY <1>6, CallsOfMessages DEF AnswerInv, MessagesOk
  <2>2. QED BY <1>2, <2>1 DEF AnswerInv, OneMessage
<1>10. DanglingDone'
  BY <1>1, <1>2 DEF AnswerInv, DanglingDone, TypeOK
<1>11. OwnAnswer' /\ NoDanglingPromise'
  BY <1>2, <1>3 DEF AnswerInv, OwnAnswer, NoDanglingPromise, TypeOK
<1>12. QED
  BY <1>4, <1>5, <1>8, <1>9, <1>10, <1>11 DEF AnswerInv

\* The worker reads a request: its message changes place.
LEMMA DequeueStep ==
  ASSUME AnswerInv, TypeOK', Dequeue
  PROVE  AnswerInv'
<1>1. UNCHANGED <<callbackMap, pc, reqId, result, inbox, dangling>>
  BY DEF Dequeue, callVars, poolVars, history
<1>2. \/ wmsg' = None /\ requestQueue' = requestQueue
      \/ \E r \in requestQueue : wmsg' = r /\ requestQueue' = requestQueue \ {r}
  BY DEF Dequeue
<1>3. \A d \in Calls : /\ Unshared(d)' <=> Unshared(d)
                       /\ Registered(d)' <=> Registered(d)
  BY <1>1 DEF Unshared, Registered
<1>4. IdDrawn' /\ Fresh' /\ MapOk' /\ SendOk' /\ DanglingDone'
  BY <1>1, <1>3 DEF AnswerInv, IdDrawn, Fresh, MapOk, SendOk, DanglingDone
<1>5. WorkerOk'
  BY DEF Dequeue, WorkerOk
<1>6. \A m : m.call \in Calls /\ MessageOk(m) => MessageOk(m)'
  BY <1>1, <1>3 DEF MessageOk, Pending
<1>7. MessagesOk'
  BY <1>1, <1>2, <1>6, CallsOfMessages DEF AnswerInv, MessagesOk
<1>8. OneMessage'
  <2>1. CASE wmsg' = None /\ requestQueue' = requestQueue
    BY <1>1, <2>1 DEF AnswerInv, OneMessage
  <2>2. ASSUME NEW r \in requestQueue, wmsg' = r, requestQueue' = requestQueue \ {r}
        PROVE  OneMessage'
    <3>1. \A q \in requestQueue \ {r} : q.call # r.call
      <4> SUFFICES ASSUME NEW q \in requestQueue \ {r}, q.call = r.call
                   PROVE  FALSE
        OBVIOUS
      <4>1. q.id = r.id
        BY DEF AnswerInv, MessagesOk, MessageOk
      <4>2. q \in Request /\ r \in Request
        BY DEF AnswerInv, TypeOK
      <4>3. QED BY <4>1, <4>2 DEF Request
    <3>2. QED BY <1>1, <2>2, <3>1 DEF AnswerInv, OneMessage
  <2>3. QED BY <1>2, <2>1, <2>2
<1>9. OwnAnswer' /\ NoDanglingPromise'
  BY <1>1, <1>3 DEF AnswerInv, OwnAnswer, NoDanglingPromise, TypeOK
<1>10. QED
  BY <1>4, <1>5, <1>7, <1>8, <1>9 DEF AnswerInv

\* The worker answers: the request it held becomes a response in the inbox.
LEMMA HandleStep ==
  ASSUME AnswerInv, TypeOK', NEW ok \in BOOLEAN, Handle(ok)
  PROVE  AnswerInv'
<1> PICK m : m = [type |-> "response", id |-> wmsg.id, call |-> wmsg.call, ok |-> ok]
  OBVIOUS
<1>1. /\ UNCHANGED <<callbackMap, requestQueue, pc, reqId, result, dangling>>
      /\ wmsg # None /\ wmsg' = None /\ wpc' = "dequeue"
      /\ inbox' = Append(inbox, m)
  BY DEF Handle, callVars, history, AnswerInv, WorkerOk
<1>2. /\ DOMAIN inbox = 1 .. Len(inbox) /\ Len(inbox) \in Nat
      /\ DOMAIN inbox' = 1 .. (Len(inbox) + 1)
      /\ \A k \in DOMAIN inbox : inbox'[k] = inbox[k]
      /\ inbox'[Len(inbox) + 1] = m
  BY <1>1 DEF AnswerInv, TypeOK
<1>3. \A d \in Calls : /\ Unshared(d)' <=> Unshared(d)
                       /\ Registered(d)' <=> Registered(d)
  BY <1>1 DEF Unshared, Registered
<1>4. IdDrawn' /\ Fresh' /\ MapOk' /\ SendOk' /\ DanglingDone' /\ WorkerOk'
  BY <1>1, <1>3 DEF AnswerInv, IdDrawn, Fresh, MapOk, SendOk, DanglingDone, WorkerOk
<1>5. \A n : n.call \in Calls /\ MessageOk(n) => MessageOk(n)'
  BY <1>1, <1>3 DEF MessageOk, Pending
<1>6. MessageOk(m)'
  <2>1. MessageOk(wmsg) /\ wmsg.call \in Calls
    BY <1>1, CallsOfMessages DEF AnswerInv, MessagesOk
  <2>2. MessageOk(m)
    BY <2>1 DEF MessageOk
  <2>3. QED BY <1>5, <2>1, <2>2
<1>7. MessagesOk'
  BY <1>1, <1>2, <1>5, <1>6, CallsOfMessages DEF AnswerInv, MessagesOk
<1>8. OneMessage'
  BY <1>1, <1>2 DEF AnswerInv, OneMessage
<1>9. OwnAnswer' /\ NoDanglingPromise'
  BY <1>1, <1>3 DEF AnswerInv, OwnAnswer, NoDanglingPromise, TypeOK
<1>10. QED
  BY <1>4, <1>7, <1>8, <1>9 DEF AnswerInv

\* A notification joins the inbox, or leaves it, without touching responses.
LEMMA EmitStep ==
  ASSUME AnswerInv, TypeOK', NEW c \in Calls, Emit(c)
  PROVE  AnswerInv'
<1> DEFINE m == [type |-> "notification", call |-> c]
<1>1. /\ UNCHANGED <<callbackMap, requestQueue, pc, reqId, result, dangling, wmsg, wpc>>
      /\ inbox' = Append(inbox, m)
  BY DEF Emit, callVars, history
<1>2. /\ DOMAIN inbox = 1 .. Len(inbox) /\ Len(inbox) \in Nat
      /\ DOMAIN inbox' = 1 .. (Len(inbox) + 1)
      /\ \A k \in DOMAIN inbox : inbox'[k] = inbox[k]
      /\ inbox'[Len(inbox) + 1].type # "response"
  BY <1>1 DEF AnswerInv, TypeOK
<1>3. \A d \in Calls : /\ Unshared(d)' <=> Unshared(d)
                       /\ Registered(d)' <=> Registered(d)
  BY <1>1 DEF Unshared, Registered
<1>4. IdDrawn' /\ Fresh' /\ MapOk' /\ SendOk' /\ DanglingDone' /\ WorkerOk'
  BY <1>1, <1>3 DEF AnswerInv, IdDrawn, Fresh, MapOk, SendOk, DanglingDone, WorkerOk
<1>5. \A n : n.call \in Calls /\ MessageOk(n) => MessageOk(n)'
  BY <1>1, <1>3 DEF MessageOk, Pending
<1>6. MessagesOk'
  BY <1>1, <1>2, <1>5, CallsOfMessages DEF AnswerInv, MessagesOk
<1>7. OneMessage'
  BY <1>1, <1>2 DEF AnswerInv, OneMessage
<1>8. OwnAnswer' /\ NoDanglingPromise'
  BY <1>1, <1>3 DEF AnswerInv, OwnAnswer, NoDanglingPromise, TypeOK
<1>9. QED
  BY <1>4, <1>6, <1>7, <1>8 DEF AnswerInv

LEMMA InboxTail ==
  ASSUME TypeOK, inbox # <<>>, inbox' = Tail(inbox)
  PROVE  /\ Head(inbox) = inbox[1] /\ 1 \in DOMAIN inbox
         /\ \A k \in DOMAIN inbox' : /\ k \in Nat /\ k + 1 \in DOMAIN inbox
                                     /\ k + 1 # 1
                                     /\ inbox'[k] = inbox[k + 1]
  BY DEF TypeOK

LEMMA ProcessNotificationStep ==
  ASSUME AnswerInv, TypeOK', ProcessNotification
  PROVE  AnswerInv'
<1>1. /\ UNCHANGED <<callbackMap, requestQueue, pc, reqId, result, dangling, wmsg, wpc>>
      /\ inbox # <<>> /\ inbox' = Tail(inbox)
  BY DEF ProcessNotification, callVars, workerVars, history
<1>2. \A k \in DOMAIN inbox' : /\ k \in Nat /\ k + 1 \in DOMAIN inbox
                               /\ inbox'[k] = inbox[k + 1]
  BY <1>1, InboxTail DEF AnswerInv
<1>3. \A d \in Calls : /\ Unshared(d)' <=> Unshared(d)
                       /\ Registered(d)' <=> Registered(d)
  BY <1>1 DEF Unshared, Registered
<1>4. IdDrawn' /\ Fresh' /\ MapOk' /\ SendOk' /\ DanglingDone' /\ WorkerOk'
  BY <1>1, <1>3 DEF AnswerInv, IdDrawn, Fresh, MapOk, SendOk, DanglingDone, WorkerOk
<1>5. \A n : n.call \in Calls /\ MessageOk(n) => MessageOk(n)'
  BY <1>1, <1>3 DEF MessageOk, Pending
<1>6. MessagesOk'
  BY <1>1, <1>2, <1>5, CallsOfMessages DEF AnswerInv, MessagesOk
<1>7. OneMessage'
  BY <1>1, <1>2 DEF AnswerInv, OneMessage
<1>8. OwnAnswer' /\ NoDanglingPromise'
  BY <1>1, <1>3 DEF AnswerInv, OwnAnswer, NoDanglingPromise, TypeOK
<1>9. QED
  BY <1>4, <1>6, <1>7, <1>8 DEF AnswerInv

\* The heart of the argument: the callback found under the id of a response is
\* that of the response's own call, unless the owner's id is shared.
LEMMA ProcessResponseStep ==
  ASSUME AnswerInv, TypeOK', ProcessResponse
  PROVE  AnswerInv'
<1> PICK m : m = Head(inbox)
  OBVIOUS
<1>1. /\ UNCHANGED <<requestQueue, pc, reqId, wmsg, wpc>>
      /\ inbox # <<>> /\ inbox' = Tail(inbox) /\ m.type = "response"
  BY DEF ProcessResponse, callVars, workerVars
<1>2. /\ m = inbox[1] /\ 1 \in DOMAIN inbox
      /\ \A k \in DOMAIN inbox' : /\ k \in Nat /\ k + 1 \in DOMAIN inbox /\ k + 1 # 1
                                  /\ inbox'[k] = inbox[k + 1]
  BY <1>1, InboxTail DEF AnswerInv
<1>3. MessageOk(m) /\ m.call \in Calls
  BY <1>1, <1>2, CallsOfMessages DEF AnswerInv, MessagesOk
<1>4. /\ \A r \in requestQueue : r.call # m.call
      /\ wmsg # None => wmsg.call # m.call
      /\ \A k \in DOMAIN inbox' : inbox'[k].type = "response" => inbox'[k].call # m.call
  BY <1>1, <1>2 DEF AnswerInv, OneMessage
<1>5. \A d \in Calls : Unshared(d)' <=> Unshared(d)
  BY <1>1 DEF Unshared
<1>6. IdDrawn' /\ WorkerOk'
  BY <1>1 DEF AnswerInv, IdDrawn, WorkerOk
<1>7. OneMessage'
  BY <1>1, <1>2 DEF AnswerInv, OneMessage
<1>8. CASE m.id \notin DOMAIN callbackMap
  <2>1. UNCHANGED <<callbackMap, result, dangling>>
    BY <1>8 DEF ProcessResponse
  <2>2. \A d \in Calls : Registered(d)' <=> Registered(d)
    BY <1>1, <2>1 DEF Registered
  <2>3. Fresh' /\ MapOk' /\ SendOk' /\ DanglingDone'
    BY <1>1, <1>5, <2>1, <2>2 DEF AnswerInv, Fresh, MapOk, SendOk, DanglingDone
  <2>4. \A n : n.call \in Calls /\ MessageOk(n) => MessageOk(n)'
    BY <1>1, <1>5, <2>1, <2>2 DEF MessageOk, Pending
  <2>5. MessagesOk'
    BY <1>1, <1>2, <2>4, CallsOfMessages DEF AnswerInv, MessagesOk
  <2>6. OwnAnswer' /\ NoDanglingPromise'
    BY <1>5, <2>1 DEF AnswerInv, OwnAnswer, NoDanglingPromise, TypeOK
  <2>7. QED BY <1>6, <1>7, <2>3, <2>5, <2>6 DEF AnswerInv
<1>9. CASE m.id \in DOMAIN callbackMap
  <2> PICK owner : owner = callbackMap[m.id]
    OBVIOUS
  <2>1. owner \in Calls /\ reqId[owner] = m.id
    BY <1>9 DEF AnswerInv, TypeOK, MapOk
  <2>2. Unshared(owner) => owner = m.call
    BY <1>3, <2>1 DEF Unshared, MessageOk
  <2>3. /\ DOMAIN callbackMap' = DOMAIN callbackMap \ {m.id}
        /\ \A i \in DOMAIN callbackMap' : callbackMap'[i] = callbackMap[i]
    BY <1>9 DEF ProcessResponse, WithoutKey
  <2>4. pc[owner] \notin {"start", "incr", "wrap", "read", "request", "register"}
    BY <1>9, <2>1 DEF AnswerInv, Fresh
  <2>5. /\ \A d \in Calls \ {owner} : result'[d] = result[d]
        /\ \/ pc[owner] = "done" /\ dangling' = dangling \cup {owner} /\ result' = result
           \/ pc[owner] # "done" /\ dangling' = dangling
              /\ result'[owner] = [call |-> m.call, ok |-> m.ok]
    BY <1>9, <2>1 DEF ProcessResponse, AnswerInv, TypeOK
  <2>6. \A d \in Calls \ {owner} : Unshared(d) => reqId[d] # m.id
    BY <2>1 DEF Unshared
  <2>7. \A d \in Calls \ {owner} : Unshared(d) /\ Registered(d) => Registered(d)'
    BY <1>1, <2>3, <2>6 DEF Registered
  <2>8. Fresh'
    BY <1>1, <2>3, <2>4, <2>5 DEF AnswerInv, Fresh
  <2>9. MapOk'
    BY <1>1, <2>3 DEF AnswerInv, MapOk
  <2>10. Unshared(owner) => Pending(owner)
    BY <1>3, <2>2 DEF MessageOk
  <2>11. SendOk'
    <3> SUFFICES ASSUME NEW d \in Calls, pc[d] = "send", Unshared(d)
                 PROVE  Registered(d)' /\ result'[d] = None
      BY <1>1, <1>5 DEF SendOk
    <3>1. d # owner
      BY <2>10 DEF Pending
    <3>2. QED BY <2>5, <2>7, <3>1 DEF AnswerInv, SendOk
  <2>12. \A n : n.call \in Calls \ {m.call} /\ MessageOk(n) => MessageOk(n)'
    <3> SUFFICES ASSUME NEW n, n.call \in Calls \ {m.call}, MessageOk(n)
                 PROVE  MessageOk(n)'
      OBVIOUS
    <3>1. ASSUME Unshared(n.call) PROVE Pending(n.call)'
      <4>1. n.call # owner
        BY <2>2, <3>1
      <4>2. QED BY <1>1, <2>5, <2>7, <3>1, <4>1 DEF MessageOk, Pending
    <3>2. QED BY <1>1, <1>5, <3>1 DEF MessageOk
  <2>13. MessagesOk'
    BY <1>1, <1>2, <1>4, <2>12, CallsOfMessages DEF AnswerInv, MessagesOk
  <2>14. DanglingDone'
    BY <1>1, <2>5 DEF AnswerInv, DanglingDone
  <2>15. OwnAnswer'
    <3>1. Unshared(owner) /\ result'[owner] # None => result'[owner].call = owner
      BY <2>2, <2>5, <2>10 DEF Pending
    <3>2. QED BY <1>5, <2>5, <3>1 DEF AnswerInv, OwnAnswer
  <2>16. NoDanglingPromise'
    <3>1. pc[owner] = "done" => ~Unshared(owner)
      BY <2>10 DEF Pending
    <3>2. QED BY <1>5, <2>1, <2>5, <3>1 DEF AnswerInv, NoDanglingPromise, TypeOK
  <2>17. QED
    BY <1>6, <1>7, <2>8, <2>9, <2>11, <2>13, <2>14, <2>15, <2>16 DEF AnswerInv
<1>10. QED BY <1>8, <1>9

\* The remaining steps of the worker touch none of this.
LEMMA WorkerQuietStep ==
  ASSUME AnswerInv, TypeOK', WakeUp \/ SetHandle \/ WorkerStop \/ Close
  PROVE  AnswerInv'
<1>1. /\ UNCHANGED <<callbackMap, requestQueue, pc, reqId, result, dangling,
                     wmsg, inbox>>
      /\ wpc' = "handle" => wmsg' # None
  BY DEF WakeUp, SetHandle, WorkerStop, Close, callVars, workerVars, poolVars,
         history, AnswerInv, WorkerOk
<1>2. \A d \in Calls : /\ Unshared(d)' <=> Unshared(d)
                       /\ Registered(d)' <=> Registered(d)
  BY <1>1 DEF Unshared, Registered
<1>3. \A n : MessageOk(n)' <=> MessageOk(n)
  BY <1>1 DEF MessageOk, Pending, Registered, Unshared
<1>4. IdDrawn' /\ Fresh' /\ MapOk' /\ SendOk' /\ DanglingDone' /\ WorkerOk'
  BY <1>1, <1>2 DEF AnswerInv, IdDrawn, Fresh, MapOk, SendOk, DanglingDone, WorkerOk
<1>5. MessagesOk' /\ OneMessage'
  BY <1>1, <1>3 DEF AnswerInv, MessagesOk, OneMessage
<1>6. OwnAnswer' /\ NoDanglingPromise'
  BY <1>1, <1>2 DEF AnswerInv, OwnAnswer, NoDanglingPromise, TypeOK
<1>7. QED BY <1>4, <1>5, <1>6 DEF AnswerInv

LEMMA AnswerStep == AnswerInv /\ [Next]_vars => AnswerInv'
<1> SUFFICES ASSUME AnswerInv, [Next]_vars PROVE AnswerInv'
  OBVIOUS
<1>1. CASE UNCHANGED vars
  BY <1>1 DEF vars, callVars, workerVars, poolVars, history, AnswerInv, TypeOK,
     IdDrawn, Fresh, MapOk, SendOk, WorkerOk, MessagesOk, MessageOk, Pending,
     Registered, Unshared, OneMessage, DanglingDone, OwnAnswer, NoDanglingPromise
<1>2. ASSUME NEW c \in Calls, Caller(c) PROVE AnswerInv'
  <2>1. TypeOK'
    BY <1>2, CallerType DEF AnswerInv
  <2> USE <2>1 DEF callVars, workerVars, poolVars, history
  <2>2. CASE GenCompare(c)
    BY <2>2, QuietStep DEF GenCompare
  <2>3. CASE GenIncrement(c)
    BY <2>3, QuietStep DEF GenIncrement
  <2>4. CASE GenWrap(c)
    BY <2>4, QuietStep DEF GenWrap
  <2>5. CASE GenRead(c)
    BY <2>5, GenReadStep
  <2>6. CASE CheckClosed(c)
    BY <2>6, QuietStep DEF CheckClosed
  <2>7. CASE Register(c)
    BY <2>7, RegisterStep
  <2>8. CASE TooBig(c)
    BY <2>8, QuietStep DEF TooBig
  <2>9. CASE Enqueue(c)
    BY <2>9, EnqueueStep
  <2>10. CASE NotifyRead(c)
    BY <2>10, QuietStep DEF NotifyRead
  <2>11. CASE Return(c)
    BY <2>11, QuietStep DEF Return
  <2>12. CASE Connect(c)
    BY <2>12, QuietStep DEF Connect
  <2>13. CASE EnqueueFails(c)
    BY <2>13, QuietStep DEF EnqueueFails
  <2>14. QED
    BY <1>2, <2>2, <2>3, <2>4, <2>5, <2>6, <2>7, <2>8, <2>9, <2>10, <2>11, <2>12, <2>13
    DEF Caller
<1>3. ASSUME \/ Worker \/ WorkerStop \/ Close \/ Pool
             \/ \E c \in Calls : Emit(c)
      PROVE  AnswerInv'
  <2>1. TypeOK'
    BY <1>3, OtherType DEF AnswerInv
  <2>2. QED
    BY <1>3, <2>1, WorkerQuietStep, DequeueStep, HandleStep, EmitStep,
       ProcessResponseStep, ProcessNotificationStep
    DEF Worker, Pool
<1>4. QED BY <1>1, <1>2, <1>3 DEF Next

LEMMA AnswerInvariant == Spec => []AnswerInv
  BY AnswerInit, AnswerStep, PTL DEF Spec

\* The state stays within its types whatever the threads interleave.
THEOREM TypeCorrect == Spec => []TypeOK
<1>1. AnswerInv => TypeOK
  BY DEF AnswerInv
<1>2. QED BY <1>1, AnswerInvariant, PTL

\* A call whose id is its own gets the response to its own request.
THEOREM OwnAnswerCorrect == Spec => []OwnAnswer
<1>1. AnswerInv => OwnAnswer
  BY DEF AnswerInv
<1>2. QED BY <1>1, AnswerInvariant, PTL

\* No response is dropped as unmatched while its call's id is its own.
THEOREM AnswerFindsCallbackCorrect == Spec => []AnswerFindsCallback
<1>1. AnswerInv => AnswerFindsCallback
  BY DEF AnswerInv, MessagesOk, MessageOk, Pending, AnswerFindsCallback
<1>2. QED BY <1>1, AnswerInvariant, PTL

\* No promise whose id is its own is set after its call has returned.
THEOREM NoDanglingPromiseCorrect == Spec => []NoDanglingPromise
<1>1. AnswerInv => NoDanglingPromise
  BY DEF AnswerInv
<1>2. QED BY <1>1, AnswerInvariant, PTL

-----------------------------------------------------------------------------
(* The wake-up invariant.                                                  *)

LEMMA WakeInit == Init => WakeInv
  BY DEF Init, WakeInv

LEMMA WakeCaller ==
  ASSUME TypeOK, WakeInv, NEW c \in Calls, Caller(c)
  PROVE  WakeInv'
<1>1. UNCHANGED <<handle, wpc, wmsg>>
  BY DEF Caller, GenCompare, GenIncrement, GenWrap, GenRead, CheckClosed,
     Register, TooBig, Enqueue, EnqueueFails, NotifyRead, Return, Connect, workerVars
<1>2. CASE Enqueue(c)
  <2>1. /\ pc' = [pc EXCEPT ![c] = "notify"] /\ UNCHANGED <<stranded, async>>
        /\ requestQueue' = requestQueue \cup {[id |-> reqId[c], call |-> c]}
    BY <1>2 DEF Enqueue, Goto, workerVars, history
  <2>2. \A r \in requestQueue : r.call \in Calls
    BY CallsOfMessages
  <2>3. QED BY <1>1, <2>1, <2>2 DEF WakeInv, TypeOK
<1>3. CASE NotifyRead(c)
  <2>1. /\ pc[c] = "notify" /\ pc' = [pc EXCEPT ![c] = "wait"]
        /\ async' = (async \/ handle) /\ stranded \subseteq stranded'
        /\ UNCHANGED requestQueue
    BY <1>3 DEF NotifyRead, Goto
  <2>2. handle \/ async \/ wpc # "idle"
    BY DEF WakeInv
  <2>3. ASSUME NEW r \in requestQueue, r.call = c
        PROVE  \/ c \in stranded' \/ async' \/ wpc \in {"dequeue", "handle", "stopped"}
               \/ wpc = "setHandle" /\ wmsg # None
    BY <1>3, <2>1, <2>2, <2>3 DEF NotifyRead, TypeOK
  <2>4. \A r \in requestQueue : r.call \in Calls
    BY CallsOfMessages
  <2>5. QED BY <1>1, <2>1, <2>3, <2>4 DEF WakeInv, TypeOK
<1>4. ASSUME ~Enqueue(c), ~NotifyRead(c) PROVE WakeInv'
  <2>1. /\ UNCHANGED <<requestQueue, async, stranded>>
        /\ pc[c] # "notify" /\ \E to : pc' = [pc EXCEPT ![c] = to]
    BY <1>4 DEF Caller, GenCompare, GenIncrement, GenWrap, GenRead, CheckClosed,
       Register, TooBig, EnqueueFails, Return, Connect, Goto, workerVars, history
  <2>2. \A r \in requestQueue : pc[r.call] = "notify" => pc'[r.call] = "notify"
    BY <2>1, CallsOfMessages DEF TypeOK
  <2>3. QED BY <1>1, <2>1, <2>2 DEF WakeInv
<1>5. QED BY <1>2, <1>3, <1>4

LEMMA WakeOther ==
  ASSUME TypeOK, WakeInv,
         \/ Worker \/ WorkerStop \/ Close \/ Pool
         \/ \E c \in Calls : Emit(c)
  PROVE  WakeInv'
<1>1. UNCHANGED <<pc, stranded>>
  BY DEF Worker, WakeUp, Dequeue, SetHandle, Handle, WorkerStop, Close, Pool,
     ProcessResponse, ProcessNotification, Emit, callVars, history
<1>2. CASE WakeUp
  BY <1>1, <1>2 DEF WakeUp, WakeInv
<1>3. CASE Dequeue
  <2>1. /\ UNCHANGED <<handle, async>> /\ wpc' = "setHandle"
        /\ \/ requestQueue' = {}
           \/ requestQueue' \subseteq requestQueue /\ wmsg' # None
    BY <1>3, NoneAssumption DEF Dequeue, TypeOK, Request, Ids, workerVars
  <2>2. QED BY <1>1, <2>1 DEF WakeInv
<1>4. CASE SetHandle
  BY <1>1, <1>4 DEF SetHandle, WakeInv
<1>5. ASSUME NEW ok \in BOOLEAN, Handle(ok) PROVE WakeInv'
  BY <1>1, <1>5 DEF Handle, WakeInv
<1>6. CASE WorkerStop
  BY <1>1, <1>6 DEF WorkerStop, WakeInv
<1>7. CASE Close
  BY <1>1, <1>7 DEF Close, WakeInv, workerVars
<1>8. ASSUME NEW c \in Calls, Emit(c) PROVE WakeInv'
  BY <1>1, <1>8 DEF Emit, WakeInv
<1>9. CASE Pool
  BY <1>1, <1>9 DEF Pool, ProcessResponse, ProcessNotification, WakeInv, workerVars
<1>10. QED
  BY <1>2, <1>3, <1>4, <1>5, <1>6, <1>7, <1>8, <1>9 DEF Worker

LEMMA WakeStep == TypeOK /\ WakeInv /\ [Next]_vars => WakeInv'
<1>1. CASE UNCHANGED vars
  BY <1>1 DEF vars, callVars, workerVars, history, WakeInv
<1>2. QED BY <1>1, WakeCaller, WakeOther DEF Next

\* A request is left in the queue of a sleeping worker only by the lost
\* wake-up of the first read, or for as long as its caller has yet to signal.
THEOREM NoLostWakeUpCorrect == Spec => []NoLostWakeUp
<1>1. WakeInv => NoLostWakeUp
  BY DEF WakeInv, NoLostWakeUp
<1>2. Spec => []WakeInv
  BY WakeInit, WakeStep, TypeCorrect, PTL DEF Spec
<1>3. QED BY <1>1, <1>2, PTL

-----------------------------------------------------------------------------
(* The channel as a request service.                                       *)

\* The call's request or its response is on its way.
InTransit(c) ==
  Asking(c) \/ \E k \in DOMAIN inbox : inbox[k].type = "response" /\ inbox[k].call = c

\* A callback in the map has yet to be called.
CallbackUnset == \A i \in DOMAIN callbackMap : result[callbackMap[i]] = None

\* Who returns while its request or response is on its way has got another's answer.
ReturnedAnswered ==
  \A c \in Calls :
    pc[c] = "connect" \/ (pc[c] = "done" /\ InTransit(c)) => result[c] # None

\* A response that was given to a call is nowhere any more.
GivenOnce ==
  \A c \in Calls : result[c] # None =>
    pc[result[c].call] \in Sent /\ ~InTransit(result[c].call)

HandEmpty == wpc \in {"idle", "dequeue", "stopped"} => wmsg = None

\* A call whose request the queue did not take has none on its way.
Dropped ==
  \A c \in unqueued : pc[c] \in {"wait", "connect", "done"} /\ ~InTransit(c)

ServiceInv == CallbackUnset /\ ReturnedAnswered /\ GivenOnce /\ HandEmpty /\ Dropped

LEMMA ServiceInit == Init => ServiceInv
<1> SUFFICES ASSUME Init PROVE ServiceInv
  OBVIOUS
<1>1. /\ DOMAIN callbackMap = {} /\ wmsg = None
      /\ unqueued = {}
      /\ \A c \in Calls : pc[c] = "start" /\ result[c] = None
  BY DEF Init
<1>2. QED
  BY <1>1 DEF ServiceInv, CallbackUnset, ReturnedAnswered, GivenOnce, HandEmpty, Dropped

\* What is on its way may change its place, ...
LEMMA DequeueTransit ==
  ASSUME AnswerInv, HandEmpty, Dequeue, NEW c \in Calls
  PROVE  (Asking(c)' <=> Asking(c)) /\ (InTransit(c)' <=> InTransit(c))
<1>1. wmsg = None /\ inbox' = inbox
  BY DEF Dequeue, HandEmpty, poolVars
<1>2. Asking(c)' <=> Asking(c)
  <2>1. CASE requestQueue = {} /\ wmsg' = None /\ UNCHANGED requestQueue
    BY <1>1, <2>1 DEF Asking
  <2>2. ASSUME NEW r \in requestQueue, wmsg' = r, requestQueue' = requestQueue \ {r}
        PROVE  Asking(c)' <=> Asking(c)
    <3>1. r # None
      BY NoneAssumption DEF AnswerInv, TypeOK, Request, Ids
    <3>2. Asking(c)' <=> r.call = c \/ \E q \in requestQueue \ {r} : q.call = c
      BY <2>2, <3>1 DEF Asking
    <3>3. QED BY <1>1, <3>2 DEF Asking
  <2>3. QED BY <2>1, <2>2 DEF Dequeue
<1>3. QED BY <1>1, <1>2 DEF InTransit

LEMMA HandleTransit ==
  ASSUME AnswerInv, NEW ok \in BOOLEAN, Handle(ok)
  PROVE  /\ wmsg # None /\ wmsg.call \in Calls
         /\ \A c \in Calls : /\ Asking(c)' <=> Asking(c) /\ c # wmsg.call
                             /\ InTransit(c)' <=> InTransit(c)
<1> PICK m : m = [type |-> "response", id |-> wmsg.id, call |-> wmsg.call, ok |-> ok]
  OBVIOUS
<1>1. /\ requestQueue' = requestQueue /\ wmsg # None /\ wmsg' = None
      /\ inbox' = Append(inbox, m)
  BY DEF Handle, AnswerInv, WorkerOk
<1>2. /\ DOMAIN inbox = 1 .. Len(inbox) /\ Len(inbox) \in Nat
      /\ DOMAIN inbox' = 1 .. (Len(inbox) + 1)
      /\ \A k \in DOMAIN inbox : inbox'[k] = inbox[k]
      /\ inbox'[Len(inbox) + 1] = m
  BY <1>1 DEF AnswerInv, TypeOK
<1>3. \A r \in requestQueue : r.call # wmsg.call
  BY <1>1 DEF AnswerInv, OneMessage
<1>4. \A c : Asking(c)' <=> Asking(c) /\ c # wmsg.call
  BY <1>1, <1>3 DEF Asking
<1>5. \A c : (\E k \in DOMAIN inbox' : inbox'[k].type = "response" /\ inbox'[k].call = c)
      <=> \/ \E k \in DOMAIN inbox : inbox[k].type = "response" /\ inbox[k].call = c
          \/ c = wmsg.call
  BY <1>2
<1>6. Asking(wmsg.call)
  BY <1>1 DEF Asking
<1>7. QED BY <1>1, <1>4, <1>5, <1>6, CallsOfMessages DEF InTransit, AnswerInv

\* ... notifications come and go beside it, ...
LEMMA NotificationTransit ==
  ASSUME AnswerInv, NEW c \in Calls, ProcessNotification \/ \E e \in Calls : Emit(e)
  PROVE  (Asking(c)' <=> Asking(c)) /\ (InTransit(c)' <=> InTransit(c))
<1>1. UNCHANGED <<requestQueue, wmsg>>
  BY DEF Emit, ProcessNotification, workerVars
<1>2. (\E k \in DOMAIN inbox' : inbox'[k].type = "response" /\ inbox'[k].call = c)
      <=> \E k \in DOMAIN inbox : inbox[k].type = "response" /\ inbox[k].call = c
  <2>1. ASSUME NEW e \in Calls, Emit(e)
        PROVE  /\ DOMAIN inbox = 1 .. Len(inbox) /\ Len(inbox) \in Nat
               /\ DOMAIN inbox' = 1 .. (Len(inbox) + 1)
               /\ \A k \in DOMAIN inbox : inbox'[k] = inbox[k]
               /\ inbox'[Len(inbox) + 1].type # "response"
    BY <2>1 DEF Emit, AnswerInv, TypeOK
  <2>2. CASE \E e \in Calls : Emit(e)
    BY <2>1, <2>2
  <2>3. CASE ProcessNotification
    <3>1. /\ \A k \in DOMAIN inbox' : /\ k + 1 \in DOMAIN inbox
                                      /\ inbox'[k] = inbox[k + 1]
          /\ \A k \in DOMAIN inbox : k = 1 \/ (k - 1 \in DOMAIN inbox' /\ inbox'[k - 1] = inbox[k])
          /\ inbox[1].type # "response"
      BY <2>3 DEF ProcessNotification, AnswerInv, TypeOK
    <3>2. QED BY <3>1
  <2>4. QED BY <2>2, <2>3
<1>3. Asking(c)' <=> Asking(c)
  BY <1>1 DEF Asking
<1>4. QED BY <1>2, <1>3 DEF InTransit

\* ... and a response that is processed is gone.
LEMMA ResponseTransit ==
  ASSUME AnswerInv, ProcessResponse
  PROVE  /\ \A c \in Calls : /\ Asking(c)' <=> Asking(c)
                             /\ InTransit(c)' <=> InTransit(c) /\ c # inbox[1].call
         /\ InTransit(inbox[1].call) /\ ~Asking(inbox[1].call)
         /\ MessageOk(inbox[1]) /\ inbox[1].call \in Calls /\ Head(inbox) = inbox[1]
<1>1. /\ UNCHANGED <<requestQueue, wmsg>> /\ inbox # <<>> /\ inbox' = Tail(inbox)
      /\ Head(inbox).type = "response"
  BY DEF ProcessResponse, workerVars
<1>2. /\ \A k \in DOMAIN inbox' : /\ k + 1 \in DOMAIN inbox /\ k + 1 # 1
                                  /\ inbox'[k] = inbox[k + 1]
      /\ \A k \in DOMAIN inbox : k = 1 \/ (k - 1 \in DOMAIN inbox' /\ inbox'[k - 1] = inbox[k])
      /\ 1 \in DOMAIN inbox /\ Head(inbox) = inbox[1]
  BY <1>1 DEF AnswerInv, TypeOK
<1>3. inbox[1].type = "response"
  BY <1>1, <1>2
<1>4. /\ \A k \in DOMAIN inbox : inbox[k].type = "response" /\ inbox[k].call = inbox[1].call => k = 1
      /\ ~Asking(inbox[1].call)
  BY <1>2, <1>3 DEF AnswerInv, OneMessage, Asking
<1>5. \A c : Asking(c)' <=> Asking(c)
  BY <1>1 DEF Asking
<1>6. \A c : (\E k \in DOMAIN inbox' : inbox'[k].type = "response" /\ inbox'[k].call = c)
      <=> /\ \E k \in DOMAIN inbox : inbox[k].type = "response" /\ inbox[k].call = c
          /\ c # inbox[1].call
  BY <1>2, <1>3, <1>4
<1>7. MessageOk(inbox[1]) /\ inbox[1].call \in Calls
  BY <1>2, <1>3, CallsOfMessages DEF AnswerInv, MessagesOk
<1>8. InTransit(inbox[1].call)
  BY <1>2, <1>3 DEF InTransit
<1>9. QED BY <1>2, <1>4, <1>5, <1>6, <1>7, <1>8 DEF InTransit

LEMMA TransitSent ==
  ASSUME AnswerInv, NEW c \in Calls, InTransit(c)
  PROVE  pc[c] \in Sent
  BY DEF AnswerInv, MessagesOk, MessageOk, InTransit, Asking

LEMMA EnqueueTransit ==
  ASSUME AnswerInv, NEW c \in Calls, Enqueue(c), NEW d \in Calls
  PROVE  /\ Asking(d)' <=> Asking(d) \/ d = c
         /\ InTransit(d)' <=> InTransit(d) \/ d = c
<1> PICK r : r = [id |-> reqId[c], call |-> c]
  OBVIOUS
<1>1. /\ requestQueue' = requestQueue \cup {r} /\ r.call = c
      /\ UNCHANGED <<wmsg, inbox>>
  BY DEF Enqueue, workerVars, poolVars
<1>2. Asking(d)' <=> Asking(d) \/ d = c
  BY <1>1 DEF Asking
<1>3. QED BY <1>1, <1>2 DEF InTransit

\* A call's own steps change neither answers nor what is on its way.
LEMMA CallerTransit ==
  ASSUME AnswerInv, NEW c \in Calls, Caller(c), ~Enqueue(c)
  PROVE  /\ UNCHANGED <<requestQueue, wmsg, inbox, result, wpc>>
         /\ \A d \in Calls : (Asking(d)' <=> Asking(d)) /\ (InTransit(d)' <=> InTransit(d))
         /\ \A d \in Calls \ {c} : pc'[d] = pc[d]
<1>1. UNCHANGED <<requestQueue, wmsg, inbox, result, wpc>>
  BY DEF Caller, GenCompare, GenIncrement, GenWrap, GenRead, CheckClosed, Register, TooBig,
     EnqueueFails, NotifyRead, Return, Connect, workerVars, poolVars
<1>2. \A d \in Calls \ {c} : pc'[d] = pc[d]
  BY DEF Caller, GenCompare, GenIncrement, GenWrap, GenRead, CheckClosed, Register, TooBig,
     EnqueueFails, NotifyRead, Return, Connect, Goto, AnswerInv, TypeOK
<1>3. QED BY <1>1, <1>2 DEF Asking, InTransit

LEMMA ServiceCaller ==
  ASSUME AnswerInv, ServiceInv, NEW c \in Calls, Caller(c)
  PROVE  ServiceInv'
<1> USE DEF ServiceInv
<1>1. CASE Enqueue(c)
  <2>1. /\ pc[c] = "send" /\ pc'[c] = "notify"
        /\ \A d \in Calls \ {c} : pc'[d] = pc[d]
        /\ UNCHANGED <<callbackMap, result, wmsg, wpc, unqueued>>
    BY <1>1 DEF Enqueue, Goto, AnswerInv, TypeOK, workerVars, history
  <2>2. CallbackUnset' /\ HandEmpty'
    BY <2>1 DEF CallbackUnset, HandEmpty
  <2>3. ReturnedAnswered'
    BY <1>1, <2>1, EnqueueTransit DEF ReturnedAnswered
  <2>4. GivenOnce'
    <3>1. \A d \in Calls : result[d] # None => result[d].call \in Calls
      BY DEF AnswerInv, TypeOK, Answer
    <3>2. QED BY <1>1, <2>1, <3>1, EnqueueTransit DEF GivenOnce, Sent
  <2>5. Dropped'
    BY <1>1, <2>1, EnqueueTransit DEF Dropped, AnswerInv, TypeOK
  <2>6. QED BY <2>2, <2>3, <2>4, <2>5
<1>2. CASE Register(c)
  <2>1. /\ pc[c] = "register" /\ pc'[c] = "send"
        /\ \A i \in DOMAIN callbackMap' :
             callbackMap'[i] = c \/ (i \in DOMAIN callbackMap /\ callbackMap'[i] = callbackMap[i])
    BY <1>2 DEF Register, Goto, AnswerInv, TypeOK
  <2>2. ~Enqueue(c)
    BY <2>1 DEF Enqueue, Goto
  <2>3. /\ UNCHANGED <<result, wmsg, wpc>>
        /\ \A d \in Calls : InTransit(d)' <=> InTransit(d)
        /\ \A d \in Calls \ {c} : pc'[d] = pc[d]
    BY <2>2, CallerTransit
  <2>4. result[c] = None
    BY <2>1 DEF AnswerInv, Fresh
  <2>5. CallbackUnset' /\ HandEmpty'
    BY <2>1, <2>3, <2>4 DEF CallbackUnset, HandEmpty
  <2>6. ReturnedAnswered'
    BY <2>1, <2>3 DEF ReturnedAnswered
  <2>7. GivenOnce'
    <3>1. \A d \in Calls : result[d] # None => result[d].call \in Calls
      BY DEF AnswerInv, TypeOK, Answer
    <3>2. QED BY <2>1, <2>3, <3>1 DEF GivenOnce, Sent
  <2>8. Dropped'
    <3>1. unqueued' = unqueued
      BY <1>2 DEF Register, history
    <3>2. QED BY <2>1, <2>3, <3>1 DEF Dropped, AnswerInv, TypeOK
  <2>9. QED BY <2>5, <2>6, <2>7, <2>8
<1>3. CASE ~Enqueue(c) /\ ~Register(c)
  <2>1. /\ UNCHANGED <<callbackMap, result, wmsg, wpc>>
        /\ \A d \in Calls : InTransit(d)' <=> InTransit(d)
        /\ \A d \in Calls \ {c} : pc'[d] = pc[d]
    <3>1. UNCHANGED callbackMap
      BY <1>3 DEF Caller, GenCompare, GenIncrement, GenWrap, GenRead, CheckClosed, TooBig,
         EnqueueFails, NotifyRead, Return, Connect
    <3>2. QED BY <1>3, <3>1, CallerTransit
  <2>2. \/ pc[c] \notin Sent /\ pc'[c] # "connect"
        \/ pc[c] = "notify" /\ pc'[c] = "wait"
        \/ pc[c] = "wait" /\ result[c] # None /\ pc'[c] \in {"connect", "done"}
        \/ pc[c] = "connect" /\ pc'[c] = "done"
    BY <1>3 DEF Caller, GenCompare, GenIncrement, GenWrap, GenRead, CheckClosed, TooBig,
       EnqueueFails, NotifyRead, Return, Connect, Goto, AnswerInv, TypeOK, Sent
  <2>3. CallbackUnset' /\ HandEmpty'
    BY <2>1 DEF CallbackUnset, HandEmpty
  <2>4. ReturnedAnswered'
    BY <2>1, <2>2, TransitSent DEF ReturnedAnswered
  <2>5. GivenOnce'
    <3>1. \A d \in Calls : result[d] # None => result[d].call \in Calls
      BY DEF AnswerInv, TypeOK, Answer
    <3>2. \A d \in Calls : pc[d] \in Sent => pc'[d] \in Sent
      BY <2>1, <2>2 DEF Sent
    <3>3. QED BY <2>1, <3>1, <3>2 DEF GivenOnce
  <2>6. Dropped'
    <3>1. CASE EnqueueFails(c)
      <4>1. pc[c] = "send" /\ pc'[c] = "wait" /\ unqueued' = unqueued \cup {c}
        BY <3>1 DEF EnqueueFails, Goto, AnswerInv, TypeOK
      <4>2. ~InTransit(c)
        BY <4>1, TransitSent DEF Sent
      <4>3. QED BY <2>1, <4>1, <4>2 DEF Dropped, AnswerInv, TypeOK
    <3>2. CASE ~EnqueueFails(c)
      <4>1. unqueued' = unqueued
        BY <1>3, <3>2 DEF Caller, GenCompare, GenIncrement, GenWrap, GenRead, CheckClosed,
           TooBig, NotifyRead, Return, Connect, history
      <4>2. pc[c] \in {"wait", "connect", "done"} => pc'[c] \in {"wait", "connect", "done"}
        BY <2>2 DEF Sent
      <4>3. QED BY <2>1, <4>1, <4>2 DEF Dropped, AnswerInv, TypeOK
    <3>3. QED BY <3>1, <3>2
  <2>7. QED BY <2>3, <2>4, <2>5, <2>6
<1>4. QED BY <1>1, <1>2, <1>3

\* The owner of the callback that is found has no answer, nor any call this one.
LEMMA ServiceResponse ==
  ASSUME AnswerInv, ServiceInv, ProcessResponse
  PROVE  ServiceInv'
<1> USE DEF ServiceInv
<1> PICK m : m = inbox[1]
  OBVIOUS
<1>1. /\ UNCHANGED <<pc, wpc, wmsg>> /\ Head(inbox) = m
      /\ m.call \in Calls /\ InTransit(m.call) /\ MessageOk(m)
      /\ \A c \in Calls : InTransit(c)' <=> InTransit(c) /\ c # m.call
  BY ResponseTransit DEF ProcessResponse, callVars, workerVars
<1>2. \A d \in Calls : result[d] # None => result[d].call \in Calls
  BY DEF AnswerInv, TypeOK, Answer
<1>3. HandEmpty' /\ Dropped'
  <2>1. UNCHANGED unqueued
    BY DEF ProcessResponse
  <2>2. QED BY <1>1, <2>1 DEF HandEmpty, Dropped, AnswerInv, TypeOK
<1>4. CASE UNCHANGED <<callbackMap, result>>
  BY <1>1, <1>2, <1>3, <1>4 DEF CallbackUnset, ReturnedAnswered, GivenOnce
<1>5. CASE m.id \in DOMAIN callbackMap
  <2> DEFINE owner == callbackMap[m.id]
             a == [call |-> m.call, ok |-> m.ok]
  <2>1. owner \in Calls /\ reqId[owner] = m.id
    BY <1>5 DEF AnswerInv, TypeOK, MapOk
  <2>2. /\ DOMAIN callbackMap' = DOMAIN callbackMap \ {m.id}
        /\ \A i \in DOMAIN callbackMap' : callbackMap'[i] = callbackMap[i]
        /\ result' = result \/ result' = [result EXCEPT ![owner] = a]
    BY <1>1, <1>5 DEF ProcessResponse, WithoutKey
  <2>3. /\ \A d \in Calls \ {owner} : result'[d] = result[d]
        /\ result'[owner] = result[owner] \/ result'[owner] = a
        /\ a.call = m.call
    BY <2>1, <2>2 DEF AnswerInv, TypeOK
  <2>4. a \in Answer /\ a # None
    <3>1. result' \in [Calls -> Answer \cup {None}]
      BY OtherType DEF Pool, AnswerInv, TypeOK
    <3>2. m.ok \in BOOLEAN
      <4>1. m \in Response \cup Notification /\ m.type = "response"
        BY <1>1 DEF ProcessResponse, AnswerInv, TypeOK
      <4>2. QED BY <4>1 DEF Response, Notification
    <3>3. QED BY <1>1, <3>2, NoneAssumption DEF Answer
  <2> HIDE DEF owner, a
  <2>5. \A i \in DOMAIN callbackMap' : callbackMap'[i] \in Calls \ {owner}
    <3> SUFFICES ASSUME NEW i \in DOMAIN callbackMap' PROVE callbackMap'[i] \in Calls \ {owner}
      OBVIOUS
    <3>1. i \in DOMAIN callbackMap /\ i # m.id /\ reqId[callbackMap[i]] = i
      BY <2>2 DEF AnswerInv, MapOk
    <3>2. QED BY <2>1, <2>2, <3>1 DEF AnswerInv, TypeOK
  <2>6. CallbackUnset'
    BY <2>2, <2>3, <2>5 DEF CallbackUnset
  <2>7. ReturnedAnswered'
    BY <1>1, <2>3, <2>4 DEF ReturnedAnswered
  <2>8. GivenOnce'
    BY <1>1, <1>2, <2>3, TransitSent DEF GivenOnce
  <2>9. QED BY <1>3, <2>6, <2>7, <2>8
<1>6. QED BY <1>1, <1>4, <1>5 DEF ProcessResponse

LEMMA ServiceStep == AnswerInv /\ ServiceInv /\ [Next]_vars => ServiceInv'
<1> SUFFICES ASSUME AnswerInv, ServiceInv, [Next]_vars PROVE ServiceInv'
  OBVIOUS
<1>1. ASSUME NEW c \in Calls, Caller(c) PROVE ServiceInv'
  BY <1>1, ServiceCaller
<1>2. CASE ProcessResponse
  BY <1>2, ServiceResponse
<1>3. ASSUME /\ UNCHANGED <<pc, callbackMap, result, unqueued>>
             /\ \A c \in Calls : InTransit(c)' <=> InTransit(c)
             /\ HandEmpty'
      PROVE  ServiceInv'
  <2>1. \A d \in Calls : result[d] # None => result[d].call \in Calls
    BY DEF AnswerInv, TypeOK, Answer
  <2>2. QED
    BY <1>3, <2>1 DEF ServiceInv, CallbackUnset, ReturnedAnswered, GivenOnce, Dropped,
       AnswerInv, TypeOK
<1>4. CASE \/ Dequeue \/ ProcessNotification
           \/ \E ok \in BOOLEAN : Handle(ok)
           \/ \E c \in Calls : Emit(c)
  <2>1. UNCHANGED <<pc, callbackMap, result, unqueued>> /\ HandEmpty'
    BY <1>4 DEF Dequeue, ProcessNotification, Handle, Emit, callVars, workerVars, history,
       ServiceInv, HandEmpty
  <2>2. \A c \in Calls : InTransit(c)' <=> InTransit(c)
    BY <1>4, DequeueTransit, HandleTransit, NotificationTransit DEF ServiceInv
  <2>3. QED BY <1>3, <2>1, <2>2
<1>5. CASE WakeUp \/ SetHandle \/ WorkerStop \/ Close \/ UNCHANGED vars
  <2>1. /\ UNCHANGED <<pc, callbackMap, result, requestQueue, wmsg, inbox, unqueued>>
        /\ HandEmpty'
    BY <1>5 DEF WakeUp, SetHandle, WorkerStop, Close, vars, callVars, workerVars, poolVars,
       history, ServiceInv, HandEmpty
  <2>2. \A c \in Calls : InTransit(c)' <=> InTransit(c)
    BY <2>1 DEF InTransit, Asking
  <2>3. QED BY <1>3, <2>1, <2>2
<1>6. QED BY <1>1, <1>2, <1>4, <1>5 DEF Next, Worker, Pool

-----------------------------------------------------------------------------
(* What the callers see                                                    *)

LEMMA SameProgress ==
  ASSUME NEW c \in Calls, Asking(c)' <=> Asking(c), pc'[c] = pc[c],
         c \in unqueued' <=> c \in unqueued,
         pc[c] = "done" => result'[c] = result[c]
  PROVE  Progress(c)' = Progress(c)
  BY DEF Progress

\* A step that shows nowhere is a stutter of the service, ...
LEMMA ServiceStutter ==
  ASSUME \A c \in Calls : Progress(c)' = Progress(c),
         UNCHANGED <<result, reqId>>, wpc = "stopped" <=> wpc' = "stopped"
  PROVE  UNCHANGED Service!service
  BY DEF Service!service

\* ... and one that moves a call on is that call's.
LEMMA ServiceBecomes ==
  ASSUME NEW c \in Calls, NEW from, NEW to,
         Progress(c) = from, Progress(c)' = to,
         \A d \in Calls \ {c} : Progress(d)' = Progress(d)
  PROVE  Service!Becomes(c, from, to)
  BY DEF Service!Becomes

LEMMA ServiceBegins == Init => Service!Init
<1> SUFFICES ASSUME Init PROVE Service!Init
  OBVIOUS
<1>1. \A c \in Calls : Progress(c) = "new"
  BY DEF Init, Progress, Asking
<1>2. QED BY <1>1 DEF Init, Service!Init

LEMMA ServiceOfCaller ==
  ASSUME AnswerInv, ServiceInv, NEW c \in Calls, Caller(c)
  PROVE  Service!Next \/ UNCHANGED Service!service
<1>1. CASE Enqueue(c)
  <2>1. /\ pc[c] = "send" /\ pc'[c] = "notify"
        /\ \A d \in Calls \ {c} : pc'[d] = pc[d]
        /\ UNCHANGED <<result, reqId, wpc, unqueued>>
    BY <1>1 DEF Enqueue, Goto, AnswerInv, TypeOK, workerVars, history
  <2>2. ~Asking(c) /\ reqId[c] # None /\ c \notin unqueued
    <3>1. InTransit(c) => pc[c] \in Sent
      BY TransitSent
    <3>2. QED
      BY <2>1, <3>1, NoneAssumption
      DEF InTransit, Sent, AnswerInv, IdDrawn, Ids, ServiceInv, Dropped
  <2>3. Progress(c) = "new" /\ Progress(c)' = "asked"
    BY <1>1, <2>1, <2>2, EnqueueTransit DEF Progress
  <2>4. \A d \in Calls \ {c} : Progress(d)' = Progress(d)
    BY <1>1, <2>1, EnqueueTransit, SameProgress
  <2>5. Service!Ask(c)
    BY <2>1, <2>2, <2>3, <2>4, ServiceBecomes DEF Service!Ask
  <2>6. QED BY <2>5 DEF Service!Next
<1>2. CASE EnqueueFails(c)
  <2>1. /\ pc[c] = "send" /\ pc'[c] = "wait" /\ UNCHANGED reqId
        /\ unqueued' = unqueued \cup {c}
    BY <1>2 DEF EnqueueFails, Goto, AnswerInv, TypeOK
  <2>2. ~Enqueue(c)
    BY <2>1 DEF Enqueue, Goto, AnswerInv, TypeOK
  <2>3. /\ UNCHANGED <<result, wpc>>
        /\ \A d \in Calls : Asking(d)' <=> Asking(d)
        /\ \A d \in Calls \ {c} : pc'[d] = pc[d]
    BY <1>2, <2>2, CallerTransit DEF Caller
  <2>4. ~Asking(c) /\ reqId[c] # None /\ c \notin unqueued
    <3>1. InTransit(c) => pc[c] \in Sent
      BY TransitSent
    <3>2. QED
      BY <2>1, <3>1, NoneAssumption
      DEF InTransit, Sent, AnswerInv, IdDrawn, Ids, ServiceInv, Dropped
  <2>5. Progress(c) = "new" /\ Progress(c)' = "dropped"
    BY <2>1, <2>4 DEF Progress
  <2>6. \A d \in Calls \ {c} : Progress(d)' = Progress(d)
    BY <2>1, <2>3, SameProgress
  <2>7. Service!Drop(c)
    BY <2>1, <2>3, <2>4, <2>5, <2>6, ServiceBecomes DEF Service!Drop
  <2>8. QED BY <2>7 DEF Service!Next
<1>3. CASE ~Enqueue(c) /\ ~EnqueueFails(c)
  <2>1. /\ UNCHANGED <<result, wpc, unqueued>>
        /\ \A d \in Calls : Asking(d)' <=> Asking(d)
        /\ \A d \in Calls \ {c} : pc'[d] = pc[d]
    <3>1. UNCHANGED unqueued
      BY <1>3 DEF Caller, GenCompare, GenIncrement, GenWrap, GenRead, CheckClosed, Register,
         TooBig, NotifyRead, Return, Connect, history
    <3>2. QED BY <1>3, <3>1, CallerTransit
  <2>2. \A d \in Calls \ {c} : Progress(d)' = Progress(d)
    BY <2>1, SameProgress
  <2>3. pc[c] \notin Sent => ~Asking(c) /\ c \notin unqueued
    BY TransitSent DEF InTransit, ServiceInv, Dropped, Sent
  <2>4. CASE GenRead(c)
    <3>1. /\ pc[c] = "read" /\ pc'[c] = "request" /\ reqId[c] = None
          /\ reqId' = [reqId EXCEPT ![c] = nextId] /\ reqId'[c] = nextId
      BY <2>4 DEF GenRead, Goto, AnswerInv, TypeOK, IdDrawn
    <3>2. Progress(c) = "new" /\ Progress(c)' = "new"
      BY <2>1, <2>3, <3>1 DEF Progress, Sent
    <3>3. Service!Draw(c)
      BY <2>1, <2>2, <3>1, <3>2 DEF Service!Draw
    <3>4. QED BY <3>3 DEF Service!Next
  <2>5. CASE (CheckClosed(c) /\ closed) \/ TooBig(c)
    <3>1. /\ pc[c] \in {"request", "send"} /\ pc'[c] = "done" /\ UNCHANGED reqId
      BY <2>5 DEF CheckClosed, TooBig, Goto, AnswerInv, TypeOK
    <3>2. /\ Progress(c) = "new"
          /\ Progress(c)' = IF result[c] = None THEN "refused" ELSE "served"
      BY <2>1, <2>3, <3>1 DEF Progress, Sent
    <3>3. Service!Refuse(c)
      BY <2>1, <2>2, <3>1, <3>2, ServiceBecomes DEF Service!Refuse
    <3>4. QED BY <3>3 DEF Service!Next
  <2>6. CASE \/ GenCompare(c) \/ GenIncrement(c) \/ GenWrap(c) \/ (CheckClosed(c) /\ ~closed)
             \/ Register(c) \/ NotifyRead(c) \/ Return(c) \/ Connect(c)
    <3>1. UNCHANGED reqId
      BY <2>6 DEF GenCompare, GenIncrement, GenWrap, CheckClosed, Register, NotifyRead, Return,
         Connect
    <3>2. \/ /\ pc[c] \in {"start", "incr", "wrap", "request", "register"}
             /\ pc'[c] \in {"incr", "wrap", "read", "register", "send"}
          \/ pc[c] = "notify" /\ pc'[c] = "wait"
          \/ pc[c] = "wait" /\ pc'[c] \in {"connect", "done"} /\ result[c] # None
          \/ pc[c] = "connect" /\ pc'[c] = "done" /\ result[c] # None
      BY <2>6 DEF GenCompare, GenIncrement, GenWrap, CheckClosed, Register, NotifyRead, Return,
         Connect, Goto, AnswerInv, TypeOK, ServiceInv, ReturnedAnswered
    <3>3. Progress(c)' = Progress(c)
      BY <2>1, <3>2 DEF Progress
    <3>4. QED BY <2>1, <2>2, <3>1, <3>3, ServiceStutter
  <2>7. QED BY <1>3, <2>4, <2>5, <2>6 DEF Caller
<1>4. QED BY <1>1, <1>2, <1>3

\* The worker's handling of a request is its serving.
LEMMA ServiceOfHandle ==
  ASSUME AnswerInv, ServiceInv, NEW ok \in BOOLEAN, Handle(ok)
  PROVE  Service!Next
<1> PICK c : c = wmsg.call
  OBVIOUS
<1>1. /\ UNCHANGED <<pc, result, reqId, unqueued>> /\ wpc = "handle" /\ wpc' = "dequeue"
      /\ wmsg # None /\ c \in Calls
      /\ \A d \in Calls : /\ Asking(d)' <=> Asking(d) /\ d # c
                          /\ InTransit(d)' <=> InTransit(d)
  BY HandleTransit DEF Handle, callVars, history
<1>2. Asking(c)
  BY <1>1 DEF Asking
<1>3. InTransit(c)
  BY <1>2 DEF InTransit
<1>4. pc[c] \in Sent /\ (pc[c] = "done" => result[c] # None) /\ c \notin unqueued
  BY <1>1, <1>3, TransitSent DEF ServiceInv, ReturnedAnswered, Dropped
<1>5. Progress(c) = "asked" /\ Progress(c)' = "served"
  BY <1>1, <1>2, <1>4 DEF Progress, Sent
<1>6. \A d \in Calls \ {c} : Progress(d)' = Progress(d)
  BY <1>1, SameProgress
<1>7. Service!Serve(c)
  BY <1>1, <1>5, <1>6, ServiceBecomes DEF Service!Serve
<1>8. QED BY <1>1, <1>7 DEF Service!Next

\* The response answers the call whose callback is found under its id, if there is one
\* and it has not returned.
LEMMA ServiceOfResponse ==
  ASSUME AnswerInv, ServiceInv, ProcessResponse
  PROVE  Service!Next \/ UNCHANGED Service!service
<1> PICK m : m = inbox[1]
  OBVIOUS
<1>1. /\ UNCHANGED <<pc, wpc, reqId, unqueued>> /\ Head(inbox) = m
      /\ m.call \in Calls /\ InTransit(m.call) /\ ~Asking(m.call) /\ MessageOk(m)
      /\ \A c \in Calls : Asking(c)' <=> Asking(c)
  BY ResponseTransit DEF ProcessResponse, callVars, workerVars
<1>2. m.ok \in BOOLEAN
  <2>1. m \in Response \cup Notification /\ m.type = "response"
    BY <1>1 DEF ProcessResponse, AnswerInv, TypeOK
  <2>2. QED BY <2>1 DEF Response, Notification
<1>3. CASE UNCHANGED result
  BY <1>1, <1>3, SameProgress, ServiceStutter
<1>4. CASE m.id \in DOMAIN callbackMap /\ pc[callbackMap[m.id]] # "done"
  <2> DEFINE owner == callbackMap[m.id]
  <2>1. /\ owner \in Calls /\ reqId[owner] = m.id /\ result[owner] = None
        /\ pc[owner] # "done"
    BY <1>4 DEF AnswerInv, TypeOK, MapOk, ServiceInv, CallbackUnset
  <2>2. result' = [result EXCEPT ![owner] = [call |-> m.call, ok |-> m.ok]]
    BY <1>1, <1>4 DEF ProcessResponse
  <2> HIDE DEF owner
  <2>3. \A d \in Calls : Progress(d)' = Progress(d)
    BY <1>1, <2>1, <2>2, SameProgress DEF AnswerInv, TypeOK
  <2>4. Progress(owner) # "refused"
    BY <2>1 DEF Progress
  <2>5. Progress(m.call) = "served" /\ reqId[m.call] = reqId[owner]
    <3>1. /\ pc[m.call] \in Sent /\ (pc[m.call] = "done" => result[m.call] # None)
          /\ m.call \notin unqueued
      BY <1>1, TransitSent DEF ServiceInv, ReturnedAnswered, Dropped
    <3>2. QED BY <1>1, <2>1, <3>1 DEF Progress, Sent, MessageOk
  <2>6. \A e \in Calls : result[e] # None => result[e].call # m.call
    BY <1>1 DEF ServiceInv, GivenOnce
  <2>7. Service!Answer(owner, m.call)
    BY <1>1, <1>2, <2>1, <2>2, <2>3, <2>4, <2>5, <2>6 DEF Service!Answer
  <2>8. QED BY <1>1, <2>1, <2>7 DEF Service!Next
<1>5. QED BY <1>1, <1>3, <1>4 DEF ProcessResponse

LEMMA ServiceOfOthers ==
  ASSUME AnswerInv, ServiceInv,
         \/ WakeUp \/ Dequeue \/ SetHandle \/ WorkerStop \/ Close \/ ProcessNotification
         \/ (\E c \in Calls : Emit(c)) \/ UNCHANGED vars
  PROVE  Service!Next \/ UNCHANGED Service!service
<1>1. UNCHANGED <<pc, result, reqId, unqueued>>
  BY DEF WakeUp, Dequeue, SetHandle, WorkerStop, Close, ProcessNotification, Emit, vars, callVars,
     history
<1>2. \A c \in Calls : Asking(c)' <=> Asking(c)
  <2>1. CASE Dequeue \/ ProcessNotification \/ \E c \in Calls : Emit(c)
    BY <2>1, DequeueTransit, NotificationTransit DEF ServiceInv
  <2>2. CASE WakeUp \/ SetHandle \/ WorkerStop \/ Close \/ UNCHANGED vars
    BY <2>2 DEF WakeUp, SetHandle, WorkerStop, Close, vars, workerVars, Asking
  <2>3. QED BY <2>1, <2>2
<1>3. \A c \in Calls : Progress(c)' = Progress(c)
  BY <1>1, <1>2, SameProgress
<1>4. CASE WorkerStop
  <2>1. Service!Stop
    BY <1>1, <1>3, <1>4 DEF WorkerStop, Service!Stop
  <2>2. QED BY <2>1 DEF Service!Next
<1>5. CASE ~WorkerStop
  <2>1. wpc = "stopped" <=> wpc' = "stopped"
    BY <1>5 DEF WakeUp, Dequeue, SetHandle, Close, ProcessNotification, Emit, vars, workerVars
  <2>2. QED BY <1>1, <1>3, <2>1, ServiceStutter
<1>6. QED BY <1>4, <1>5

LEMMA ServiceSimulates ==
  AnswerInv /\ ServiceInv /\ [Next]_vars => [Service!Next]_(Service!service)
<1> SUFFICES ASSUME AnswerInv, ServiceInv, [Next]_vars
             PROVE  Service!Next \/ UNCHANGED Service!service
  OBVIOUS
<1>1. QED
  BY ServiceOfCaller, ServiceOfHandle, ServiceOfResponse, ServiceOfOthers
  DEF Next, Worker, Pool

\* Whatever ids the threads draw, shared ones included, a request is put to the worker
\* at most once, served once and only while the worker runs, and its answer goes to one
\* call, of the same id; a request the queue did not take is never served, though its
\* call waits (Channel::request, channelRead, processResponse).
THEOREM ServiceCorrect == Spec => ServesLikeARequestService
<1>1. Init => AnswerInv /\ ServiceInv
  BY AnswerInit, ServiceInit
<1>2. (AnswerInv /\ ServiceInv) /\ [Next]_vars => (AnswerInv /\ ServiceInv)'
  BY AnswerStep, ServiceStep
<1>3. QED
  BY <1>1, <1>2, ServiceBegins, ServiceSimulates, PTL
  DEF Spec, ServesLikeARequestService, Service!Safety
=============================================================================
