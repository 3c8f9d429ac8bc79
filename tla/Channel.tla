------------------------------- MODULE Channel -------------------------------
(***************************************************************************)
(* The request / response channel between the application's threads and    *)
(* the mediasoup worker (controller/channel.cpp), in its direct-callback   *)
(* form: the worker's libuv thread pulls requests out of a lock-free queue *)
(* through Channel::channelRead and pushes its messages back through       *)
(* Channel::channelWrite, and a pool of ONE thread dispatches them.        *)
(*                                                                         *)
(* Three kinds of thread interleave here:                                  *)
(*   - application threads, one per call of genRequestId() + request();    *)
(*   - the worker thread, which must be woken with uv_async_send();        *)
(*   - the channel's pool thread, which resolves callbacks and emits       *)
(*     notifications in the order the worker wrote them.                   *)
(***************************************************************************)
EXTENDS Integers, Sequences

CONSTANTS
  Calls,  \* the calls of Channel::request(), each made by some thread
  MaxId,  \* std::numeric_limits<uint32_t>::max(), where the id counter wraps
  None    \* no value

ASSUME MaxIdAssumption == MaxId \in Nat \ {0}
ASSUME NoneAssumption  == /\ None \notin 0 .. MaxId
                          /\ None \notin [id : 0 .. MaxId, call : Calls]
                          /\ None \notin [call : Calls, ok : BOOLEAN]

VARIABLES
  nextId,       \* Channel::_nextId
  closed,       \* Channel::_closed
  handle,       \* whether Channel::_handle has been set by a first read
  callbackMap,  \* Channel::_callbackMap: request id -> the call that waits
  requestQueue, \* Channel::_requestQueue, the requests the worker can read
  pc,           \* where each call stands
  reqId,        \* the id genRequestId() returned to each call
  result,       \* what each call's promise was set to
  async,        \* a uv_async_send() the worker's loop has yet to run
  wpc,          \* where the worker thread stands
  wmsg,         \* the request it has read and not yet handled
  entities,     \* the entities it has created, named after the call
  inbox,        \* messages posted to the channel's pool thread
  connected,    \* entities whose owner listens to notificationSignal
  told,         \* what became of each entity's notification
  stranded,     \* history: calls whose wake-up was lost
  unqueued,     \* history: calls whose request the queue did not take
  dangling      \* history: promises set after request() had returned

callVars   == <<pc, reqId>>
workerVars == <<async, wpc, wmsg, entities>>
poolVars   == <<inbox, told>>
history    == <<stranded, unqueued, dangling>>
vars == <<nextId, closed, handle, callbackMap, requestQueue, callVars, result,
          workerVars, poolVars, connected, history>>

Ids == 0 .. MaxId

Request      == [id : Ids, call : Calls]
Response     == [type : {"response"}, id : Ids, call : Calls, ok : BOOLEAN]
Notification == [type : {"notification"}, call : Calls]
Answer       == [call : Calls, ok : BOOLEAN]

PC == {"start", "incr", "wrap", "read", "request", "register", "send",
       "notify", "wait", "connect", "done"}

TypeOK ==
  /\ nextId \in Ids
  /\ closed \in BOOLEAN
  /\ handle \in BOOLEAN
  /\ DOMAIN callbackMap \subseteq Ids
  /\ \A i \in DOMAIN callbackMap : callbackMap[i] \in Calls
  /\ requestQueue \in SUBSET Request
  /\ pc \in [Calls -> PC]
  /\ reqId \in [Calls -> Ids \cup {None}]
  /\ result \in [Calls -> Answer \cup {None}]
  /\ async \in BOOLEAN
  /\ wpc \in {"idle", "dequeue", "setHandle", "handle", "stopped"}
  /\ wmsg \in Request \cup {None}
  /\ entities \in SUBSET Calls
  /\ inbox \in Seq(Response \cup Notification)
  /\ connected \in SUBSET Calls
  /\ told \in [Calls -> {"none", "delivered", "missed"}]
  /\ stranded \in SUBSET Calls
  /\ unqueued \in SUBSET Calls
  /\ dangling \in SUBSET Calls

\* The worker's ChannelSocket sends itself an async event when it is built, so
\* its first read happens as soon as its loop runs; it has no handle to give
\* the controller before that.
Init ==
  /\ nextId = 0
  /\ closed = FALSE
  /\ handle = FALSE
  /\ callbackMap = [i \in {} |-> None]
  /\ requestQueue = {}
  /\ pc = [c \in Calls |-> "start"]
  /\ reqId = [c \in Calls |-> None]
  /\ result = [c \in Calls |-> None]
  /\ async = TRUE
  /\ wpc = "idle"
  /\ wmsg = None
  /\ entities = {}
  /\ inbox = <<>>
  /\ connected = {}
  /\ told = [c \in Calls |-> "none"]
  /\ stranded = {}
  /\ unqueued = {}
  /\ dangling = {}

Goto(c, from, to) == pc[c] = from /\ pc' = [pc EXCEPT ![c] = to]

-----------------------------------------------------------------------------
(* genRequestId(): the comparison, the write and the second read of the    *)
(* atomic _nextId are three operations other threads may come between.     *)

GenCompare(c) ==
  /\ Goto(c, "start", IF nextId < MaxId THEN "incr" ELSE "wrap")
  /\ UNCHANGED <<nextId, closed, handle, callbackMap, requestQueue, reqId,
                 result, workerVars, poolVars, connected, history>>

\* ++_nextId is modulo 2^32: two threads past the comparison can reach zero.
GenIncrement(c) ==
  /\ Goto(c, "incr", "read")
  /\ nextId' = (nextId + 1) % (MaxId + 1)
  /\ UNCHANGED <<closed, handle, callbackMap, requestQueue, reqId, result,
                 workerVars, poolVars, connected, history>>

GenWrap(c) ==
  /\ Goto(c, "wrap", "read")
  /\ nextId' = 1
  /\ UNCHANGED <<closed, handle, callbackMap, requestQueue, reqId, result,
                 workerVars, poolVars, connected, history>>

GenRead(c) ==
  /\ Goto(c, "read", "request")
  /\ reqId' = [reqId EXCEPT ![c] = nextId]
  /\ UNCHANGED <<nextId, closed, handle, callbackMap, requestQueue, result,
                 workerVars, poolVars, connected, history>>

-----------------------------------------------------------------------------
(* request()                                                               *)

\* A closed channel gives an empty answer at once.
CheckClosed(c) ==
  /\ Goto(c, "request", IF closed THEN "done" ELSE "register")
  /\ UNCHANGED <<nextId, closed, handle, callbackMap, requestQueue, reqId,
                 result, workerVars, poolVars, connected, history>>

\* Mutated forms of Register: the callback is never stored ...
RegisterNothing(c) ==
  /\ Goto(c, "register", "send")
  /\ UNCHANGED <<nextId, closed, handle, callbackMap, requestQueue, reqId,
                 result, workerVars, poolVars, connected, history>>

\* ... or only after the worker has been handed the request.
RegisterLate(c) ==
  \/ /\ pc[c] = "register" /\ reqId[c] \notin {r.id : r \in requestQueue}
     /\ requestQueue' = requestQueue \cup {[id |-> reqId[c], call |-> c]}
     /\ UNCHANGED <<nextId, closed, handle, callbackMap, callVars, result,
                    workerVars, poolVars, connected, history>>
  \/ /\ Goto(c, "register", "send")
     /\ callbackMap' = [i \in DOMAIN callbackMap \cup {reqId[c]} |-> c]
     /\ UNCHANGED <<nextId, closed, handle, requestQueue, reqId, result,
                    workerVars, poolVars, connected, history>>

\* emplace() leaves the callback already stored under the id in place.
Register(c) ==
  /\ Goto(c, "register", "send")
  /\ callbackMap' = [i \in DOMAIN callbackMap \cup {reqId[c]} |->
                       IF i \in DOMAIN callbackMap THEN callbackMap[i] ELSE c]
  /\ UNCHANGED <<nextId, closed, handle, requestQueue, reqId, result,
                 workerVars, poolVars, connected, history>>

\* Mutated form of TooBig: the size is checked after the request was queued.
TooBigQueued(c) ==
  /\ Goto(c, "send", "done")
  /\ requestQueue' = requestQueue \cup {[id |-> reqId[c], call |-> c]}
  /\ UNCHANGED <<nextId, closed, handle, callbackMap, reqId, result,
                 workerVars, poolVars, connected, history>>

\* A request larger than MESSAGE_MAX_LEN returns at once, and its callback,
\* which refers to the promise on this call's stack, stays in the map.
TooBig(c) ==
  /\ Goto(c, "send", "done")
  /\ UNCHANGED <<nextId, closed, handle, callbackMap, requestQueue, reqId,
                 result, workerVars, poolVars, connected, history>>

Enqueue(c) ==
  /\ Goto(c, "send", "notify")
  /\ requestQueue' = requestQueue \cup {[id |-> reqId[c], call |-> c]}
  /\ UNCHANGED <<nextId, closed, handle, callbackMap, reqId, result,
                 workerVars, poolVars, connected, history>>

\* try_enqueue() never allocates: a thread whose part of the queue needs a new
\* block while the blocks the queue was built with are all taken by others is
\* refused.  The failure is logged, and the call waits all the same.
EnqueueFails(c) ==
  /\ Goto(c, "send", "wait")
  /\ unqueued' = unqueued \cup {c}
  /\ UNCHANGED <<nextId, closed, handle, callbackMap, requestQueue, reqId,
                 result, workerVars, poolVars, connected, stranded, dangling>>

\* Mutated form of NotifyRead: the loop is woken only when it looks asleep.
NotifyIdle(c) ==
  /\ Goto(c, "notify", "wait")
  /\ async' = (async \/ (handle /\ wpc = "idle"))
  /\ stranded' = IF /\ ~handle /\ ~async
                    /\ wpc = "setHandle" /\ wmsg = None
                    /\ \E r \in requestQueue : r.call = c
                 THEN stranded \cup {c} ELSE stranded
  /\ UNCHANGED <<nextId, closed, handle, callbackMap, requestQueue, reqId,
                 result, wpc, wmsg, entities, poolVars, connected, unqueued, dangling>>

\* notifyRead() can wake the worker only when a read has set _handle. A call
\* whose request the worker's latest read has just missed is stranded.
NotifyRead(c) ==
  /\ Goto(c, "notify", "wait")
  /\ async' = (async \/ handle)
  /\ stranded' = IF /\ ~handle /\ ~async
                    /\ wpc = "setHandle" /\ wmsg = None
                    /\ \E r \in requestQueue : r.call = c
                 THEN stranded \cup {c} ELSE stranded
  /\ UNCHANGED <<nextId, closed, handle, callbackMap, requestQueue, reqId,
                 result, wpc, wmsg, entities, poolVars, connected, unqueued, dangling>>

\* result.get() returns the response, or throws the error it was rejected with.
Return(c) ==
  /\ result[c] # None
  /\ Goto(c, "wait", IF result[c].ok THEN "connect" ELSE "done")
  /\ UNCHANGED <<nextId, closed, handle, callbackMap, requestQueue, reqId,
                 result, workerVars, poolVars, connected, history>>

\* The caller builds the entity's controller and connects it to the signal.
Connect(c) ==
  /\ Goto(c, "connect", "done")
  /\ connected' = connected \cup {c}
  /\ UNCHANGED <<nextId, closed, handle, callbackMap, requestQueue, reqId,
                 result, workerVars, poolVars, history>>

-----------------------------------------------------------------------------
(* The worker thread                                                       *)

WakeUp ==
  /\ wpc = "idle" /\ async
  /\ wpc' = "dequeue"
  /\ async' = FALSE
  /\ UNCHANGED <<nextId, closed, handle, callbackMap, requestQueue, callVars,
                 result, wmsg, entities, poolVars, connected, history>>

\* Mutated form of Dequeue: the request read stays in the queue.
DequeuePeek ==
  /\ wpc = "dequeue"
  /\ wpc' = "setHandle"
  /\ \/ requestQueue = {} /\ wmsg' = None
     \/ wmsg' \in requestQueue
  /\ UNCHANGED <<nextId, closed, handle, callbackMap, requestQueue, callVars, result,
                 async, entities, poolVars, connected, history>>

\* channelRead(): try_dequeue() takes a request of any thread, if there is one.
\* A call has at most one request, so a set stands for the per-thread queues.
Dequeue ==
  /\ wpc = "dequeue"
  /\ wpc' = "setHandle"
  /\ \/ /\ requestQueue = {}
        /\ wmsg' = None
        /\ UNCHANGED requestQueue
     \/ \E r \in requestQueue :
          /\ wmsg' = r
          /\ requestQueue' = requestQueue \ {r}
  /\ UNCHANGED <<nextId, closed, handle, callbackMap, callVars, result, async,
                 entities, poolVars, connected, history>>

\* The loop of onAsync() goes on as long as a read finds a message.
SetHandle ==
  /\ wpc = "setHandle"
  /\ handle' = TRUE
  /\ wpc' = IF wmsg = None THEN "idle" ELSE "handle"
  /\ UNCHANGED <<nextId, closed, callbackMap, requestQueue, callVars, result,
                 async, wmsg, entities, poolVars, connected, history>>

\* The worker answers a request before it reads the next one: channelWrite()
\* posts the response to the pool thread.
Handle(ok) ==
  /\ wpc = "handle"
  /\ wpc' = "dequeue"
  /\ wmsg' = None
  /\ inbox' = Append(inbox, [type |-> "response", id |-> wmsg.id,
                             call |-> wmsg.call, ok |-> ok])
  /\ entities' = IF ok THEN entities \cup {wmsg.call} ELSE entities
  /\ UNCHANGED <<nextId, closed, handle, callbackMap, requestQueue, callVars,
                 result, async, told, connected, history>>

\* An entity emits a notification from the worker's loop (here, one each).
Emit(c) ==
  /\ wpc = "idle"
  /\ c \in entities
  /\ entities' = entities \ {c}
  /\ inbox' = Append(inbox, [type |-> "notification", call |-> c])
  /\ UNCHANGED <<nextId, closed, handle, callbackMap, requestQueue, callVars,
                 result, async, wpc, wmsg, told, connected, history>>

\* mediasoup_worker_run() returns, ...
WorkerStop ==
  /\ wpc = "idle"
  /\ wpc' = "stopped"
  /\ UNCHANGED <<nextId, closed, handle, callbackMap, requestQueue, callVars,
                 result, async, wmsg, entities, poolVars, connected, history>>

\* ... and WorkerController::close() runs on its thread: it disconnects every
\* listener and closes the channel, which only sets _closed.
Close ==
  /\ wpc = "stopped" /\ ~closed
  /\ closed' = TRUE
  /\ connected' = {}
  /\ UNCHANGED <<nextId, handle, callbackMap, requestQueue, callVars, result,
                 workerVars, poolVars, history>>

-----------------------------------------------------------------------------
(* The pool thread                                                         *)

WithoutKey(f, k) == [i \in DOMAIN f \ {k} |-> f[i]]

\* Mutated form of ProcessResponse: any waiting callback will do.
ProcessAnyResponse ==
  /\ inbox # <<>>
  /\ Head(inbox).type = "response"
  /\ \E i \in DOMAIN callbackMap :
       /\ callbackMap' = WithoutKey(callbackMap, i)
       /\ result' = [result EXCEPT ![callbackMap[i]] =
                       [call |-> Head(inbox).call, ok |-> Head(inbox).ok]]
  /\ inbox' = Tail(inbox)
  /\ UNCHANGED <<nextId, closed, handle, requestQueue, callVars, workerVars,
                 told, connected, history>>

\* processResponse(): the callback found under the id is removed and its
\* promise set. A promise whose call has returned is gone from the stack.
ProcessResponse ==
  /\ inbox # <<>>
  /\ LET m == Head(inbox) IN
       /\ m.type = "response"
       /\ IF m.id \in DOMAIN callbackMap
          THEN LET owner == callbackMap[m.id] IN
                 /\ callbackMap' = WithoutKey(callbackMap, m.id)
                 /\ IF pc[owner] = "done"
                    THEN /\ dangling' = dangling \cup {owner}
                         /\ UNCHANGED result
                    ELSE /\ result' = [result EXCEPT ![owner] =
                                         [call |-> m.call, ok |-> m.ok]]
                         /\ UNCHANGED dangling
          ELSE UNCHANGED <<callbackMap, result, dangling>>
  /\ inbox' = Tail(inbox)
  /\ UNCHANGED <<nextId, closed, handle, requestQueue, callVars, workerVars,
                 told, connected, stranded, unqueued>>

\* processNotification() emits the signal at once.
ProcessNotification ==
  /\ inbox # <<>>
  /\ Head(inbox).type = "notification"
  /\ told' = [told EXCEPT ![Head(inbox).call] =
                IF Head(inbox).call \in connected THEN "delivered" ELSE "missed"]
  /\ inbox' = Tail(inbox)
  /\ UNCHANGED <<nextId, closed, handle, callbackMap, requestQueue, callVars,
                 result, workerVars, connected, history>>

-----------------------------------------------------------------------------
Caller(c) ==
  \/ GenCompare(c) \/ GenIncrement(c) \/ GenWrap(c) \/ GenRead(c)
  \/ CheckClosed(c) \/ Register(c) \/ TooBig(c) \/ Enqueue(c)
  \/ EnqueueFails(c) \/ NotifyRead(c) \/ Return(c) \/ Connect(c)

Worker == WakeUp \/ Dequeue \/ SetHandle \/ \E ok \in BOOLEAN : Handle(ok)

Pool == ProcessResponse \/ ProcessNotification

Next ==
  \/ \E c \in Calls : Caller(c) \/ Emit(c)
  \/ Worker \/ WorkerStop \/ Close
  \/ Pool

\* Threads are scheduled and the worker's loop runs as long as it is not
\* stopped; nothing makes an entity emit or the worker stop.
Fairness ==
  /\ \A c \in Calls : WF_vars(Caller(c))
  /\ WF_vars(Worker)
  /\ WF_vars(Pool)

Spec     == Init /\ [][Next]_vars
FairSpec == Spec /\ Fairness

-----------------------------------------------------------------------------
(* What the channel promises. genRequestId() may return one id to two      *)
(* calls, when they overlap in it or when the counter has wrapped, so the  *)
(* promises are made to the calls whose id no other call holds.            *)

Unshared(c) ==
  /\ reqId[c] # None
  /\ \A d \in Calls \ {c} : reqId[d] # reqId[c]

Registered(c) ==
  /\ reqId[c] \in DOMAIN callbackMap
  /\ callbackMap[reqId[c]] = c

\* A call is answered with the worker's response to its own request
\* (Channel::processResponse finds the promise through _callbackMap).
OwnAnswer ==
  \A c \in Calls : Unshared(c) /\ result[c] # None => result[c].call = c

\* The pool thread never drops a response as unmatched, however early it is:
\* request() stores the callback before the worker can see the request.
AnswerFindsCallback ==
  \A k \in DOMAIN inbox :
    inbox[k].type = "response" /\ Unshared(inbox[k].call)
      => Registered(inbox[k].call)

\* No promise is set after request() has returned and its stack is gone: the
\* callback an oversized request leaves behind is never resolved.
NoDanglingPromise == \A c \in dangling : ~Unshared(c)

\* A queued request is never forgotten by a sleeping worker: a wake-up is
\* pending, or its caller is about to ask for one (Channel::notifyRead), or it
\* fell between the first empty read and the first Channel::setHandle.
NoLostWakeUp ==
  wpc = "idle" /\ ~async =>
    \A r \in requestQueue : pc[r.call] = "notify" \/ r.call \in stranded

-----------------------------------------------------------------------------
(* The channel as its callers see it.                                      *)

Asking(c) ==
  \/ \E r \in requestQueue : r.call = c
  \/ wmsg # None /\ wmsg.call = c

Progress(c) ==
  IF c \in unqueued THEN "dropped"
  ELSE IF Asking(c) THEN "asked"
  ELSE IF pc[c] \in {"notify", "wait", "connect"} THEN "served"
  ELSE IF pc[c] = "done" THEN IF result[c] = None THEN "refused" ELSE "served"
  ELSE "new"

Service == INSTANCE RequestService WITH progress <- [c \in Calls |-> Progress(c)],
                                        answer <- result, id <- reqId,
                                        running <- wpc # "stopped"

\* A request that is put to the worker is put once and served once, while the
\* worker runs, and its answer goes to one call, of the same id; one the queue
\* did not take is never served, though its call waits.
ServesLikeARequestService == Service!Safety

\* Every call that waits is answered and returns, unless the worker stopped
\* (nothing rejects a pending callback: its timeout is commented out and
\* Channel::close() leaves it), its wake-up was lost, its request was never
\* queued (the else branch of try_enqueue() only logs), or its id was shared.
EventuallyReturns ==
  \A c \in Calls :
    pc[c] = "wait" ~> \/ pc[c] # "wait"
                     \/ wpc = "stopped" \/ c \in stranded \/ c \in unqueued
                     \/ ~Unshared(c)

\* What the comment in Channel::processNotification asks for: a notification
\* does not reach its target before the response that created the target.
NotificationWaitsForResponse ==
  \A c \in Calls : told[c] = "missed" => pc[c] \in {"connect", "done"}
=============================================================================
