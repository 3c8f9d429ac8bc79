# A TLA+ model of the Mediasoup SFU

This directory models the conferencing server in `src/sfu`, the C++ port of the
mediasoup controllers in `src/controller`, and the parts of the mediasoup worker
in `src/worker` that decide which media reaches whom. TLC checks the models on
small instances; TLAPS proves the safety properties of the channel, of the controllers,
of the room, of a video's quality, of a peer's message queue, of the lobby, of a
simulcast consumer's layers, and of the lists and requests on a stream's way to a
subscriber, for every instance.

## The system

```
 web sockets            executor threads                     worker thread (libuv)
 ───────────►  Lobby ─► Room ─► controllers ─► Channel ─────► ChannelSocket ─► Router, Transport, …
               peers ◄─ queue  ◄─ signals  ◄─ pool thread ◄─ channelWrite ◄───┘
                                                             publisher ─► Producer ─► consumers ─► subscribers
```

| Part | State it keeps | Operations | Who calls it |
|---|---|---|---|
| `Lobby` | `_roomMap`: room id → room | open and destroy a socket, `getOrCreateRoom`, `onRoomClose` | the executor's threads |
| `Room` | `_peerMap`, the router, the shared video, quality controllers | the client's requests, `createPeer`, `removePeer`, `onPeerClose`, `close` | the coroutine of each peer's socket; the pool thread, through signals |
| `VideoSharingController`, `VideoProducerQualityController` | the one shared video; what each consumer of a video wants | `attach`, `detach`, `close`; `addOrUpdateConsumer`, `getMaxDesiredQ` | the room |
| `Peer`, `PeerData` | joined, capabilities, transports, producers, consumers; the queue of messages to the client, `_executing`, `_requestMap` | `request`, `notify`, `accept`, `handleResponse`, `close` | any thread |
| worker, router, transport, producer, consumer controllers | `_closed`, `_paused`, maps of the entities below | `create…`, `produce`, `consume`, `close`, `pause` | rooms; each blocks in `Channel::request` |
| `Channel` | `_nextId`, `_callbackMap`, `_requestQueue`, `_handle`, `_closed` | `genRequestId`, `request`, `channelRead`, `channelWrite`, `close` | application threads; the worker's loop; a pool of **one** thread that sets promises and emits notifications in order |
| the worker's producers and streams | sequence state, NACK list, key frame requests | packets, timers, RTCP | the worker's own thread |
| the worker's consumers | target and current layers, the numbering sent, the retransmission buffer | packets, requests, bitrate changes | the worker's own thread |
| statistics, DTOs, engine, negotiation | counters and records | | |

What is hard here: every request of every client runs on a thread of its own
and blocks in the middle of its handler; the single pool thread runs callbacks
that take locks; the maps are safe one operation at a time, the sequences of
operations on them are not; messages to a client are handed from thread to
thread through a flag; a wake-up goes to a handle that may not be set; ids
wrap; a close cascades over several threads and meets entities being created.
The worker is single-threaded, but its packets are lost, late and doubled, its
numbers and timestamps wrap, and what it decided at one event it carries out at
another. `PROJECT.json` lists these hazards line by line with the properties
that watch them.

What makes each part correct:

* **Channel** - a call gets its own answer and no other's; the worker never
  sleeps on a queued request; a call that waits returns.
* **Controllers** - an open one has its entity and its owner, a closed one is
  forgotten by both sides; every call ends.
* **Room** - everyone consumes everyone; at most one video is shared; the
  controllers, the worker and the clients agree once all is quiet; handlers end
  and release their locks.
* **Video quality** - the producing client's last message is true.
* **Peer queue** - the flag always has an owner; each message is delivered at most
  once, and in the end; a response finds its request.
* **Lobby** - one room per id, with exactly the peers that are open.
* **Media path** - losses are asked for, a subscriber's gaps are losses, what was
  sent can be sent again, whoever waits for a key frame gets one.
* **Simulcast** - the best layer is chosen, the switch to it is awaited and possible,
  and it keeps the subscriber's numbers unique and its clock rising.

## The modules

| Module | Source | What of it |
|---|---|---|
| `RequestService` | what callers of `Channel::request` rely on | abstract: each call asked, served and answered at most once |
| `Channel` | `controller/channel.cpp`, the callback form of `worker/src/Channel/ChannelSocket.cpp`, the end of `runWorker` | the request/response path; implements `RequestService` |
| `ChannelProofs` | as `Channel` | theorems |
| `Controllers` | `worker_controller.cpp`, `router_controller.cpp`, `abstract_transport_controller.cpp`, `producer_controller.cpp` | create, close and its cascades, pause and resume, the worker's end |
| `ControllersProofs` | as `Controllers` | theorems |
| `Room` | `sfu/src/rooms/room.cpp`, `video_sharing_controller.cpp`, with the controllers and worker entities a room uses | join, produce, share, closeProducer, leave, createConsumer |
| `RoomInvariants` | as `Room` | the inductive invariant of the proofs |
| `RoomProofs` | as `Room` | theorems |
| `VideoQuality` | the quality functions of `room.cpp`, `video_producer_quality_controller.cpp` | requests about consumers and what the producing client is told |
| `VideoQualityProofs` | as `VideoQuality` | theorems |
| `Outbox` | what callers of a peer's queue rely on | abstract: delivery at most once, and in the end |
| `PeerQueue` | `sfu/src/rooms/peer.cpp` | the queue of messages to one client; implements `Outbox` |
| `PeerQueueProofs` | as `PeerQueue` | theorems |
| `Lobby` | `sfu/src/rooms/lobby.cpp`, `Room::createPeer`, `removePeer`, `close` | sockets of one room id |
| `LobbyProofs` | as `Lobby` | theorems |
| `SeqManager`, `NackGenerator`, `RtpRetransmissionBuffer`, `KeyFrameRequestManager`, `RtpStream` | the worker's classes of these names | their operations as operators over records and sequences |
| `MediaPath` | `Producer`, `RtpStreamRecv`, `SimpleConsumer`, `RtpStreamSend` | composes the five into one stream from publisher to subscriber |
| `MediaPathProofs` | as `MediaPath` and the five | theorems |
| `SimulcastConsumer` | `SimulcastConsumer.cpp` and what `Producer` and `Transport` call in it | choosing, switching and joining layers; uses `SeqManager` and `RtpStream` |
| `SimulcastConsumerProofs` | as `SimulcastConsumer` | theorems |
| `MC…` | | small instances for TLC |

A definition whose comment begins "Mutated form of" is no part of a
specification: it is the mistake that a property is there to catch, and
`PROJECT.json` pairs it with the definition it would replace.

### Channel and RequestService

`Calls` are the calls of `genRequestId()` followed by `request()`, each on some
thread; `pc[c]` says where it stands. `GenCompare`, `GenIncrement`, `GenWrap`
and `GenRead` are the separate operations `genRequestId` makes on the atomic
`_nextId`; `MaxId` stands for 2^32 - 1, and `% (MaxId + 1)` is its overflow.
`CheckClosed`, `Register`, `TooBig`, `Enqueue`, `EnqueueFails`, `NotifyRead` and
`Return` are `request()` line by line. `try_enqueue` never allocates, so it may refuse
any request (a thread whose part of the queue needs a block while other threads
have taken those it was built with); the code logs that and waits all the same. On the worker's side `WakeUp` is the libuv callback,
`Dequeue` and `SetHandle` the two halves of `channelRead`, `Handle` the handling
of one request and the posting of its response, `Emit` a notification.
`ProcessResponse` and `ProcessNotification` are the pool thread, which takes the
messages of `inbox` in order. `WorkerStop` and `Close` are the worker's end.

Because two calls may draw one id - both past the comparison, or one after a
wrap - the promises are made to the calls whose id no other call holds
(`Unshared`). `stranded`, `unqueued` and `dangling` are history variables: the calls
that fell in the gap between the first empty read and the first `setHandle`, those
whose request the queue refused, and the promises that were set after their call had
returned.

`RequestService` knows nothing of ids but that an answer goes to a call of the id
it was served under, or of queues. `Service` in `Channel` maps to it: a call is
"asked" while its request is queued or in the worker's hand, "served" after that, and
"dropped" when the queue refused it.
It shows what is left of the contract when ids *are* shared: an answer may reach
the wrong call, but no request is served twice and no answer given twice.

### Controllers

A tree of controllers below `Root`, the worker controller: servers (there from the
start) and routers, transports, producers. A call is a request (`Asked`), the worker's handling
(which changes `alive`, `muted`), its answer (or none, when the channel is closed),
and what the controller does with it - build the object, enter it in a map,
connect its `closeSignal`. `close()` tests and sets `_closed` in two steps, waits for
the worker, and cascades: `frames` is the stack of loops a closing thread is in, one
entity at a time, over a copy of the map (`own` marks the transports' own
close). `WorkerController::close` instead walks its two sets under their locks
(`Walked`). `raced` and `mixed` record creations or closings that met a closing
above or below them, and overlapping pauses of one producer. Parsing an empty
answer crashes (`ParseEmpty`).

### Room

One peer's handlers run one after the other in its socket's coroutine;
different peers' interleave wherever they touch shared state or wait for the
worker. A request is one step of the worker, which appends to `inbox` (a
producer's close first notifies its consumers), a step `PoolResponse`, and a
step of the caller. `Respond` orders the consumers' notifications in every way.
The shared lock that `threadsafe_unordered_map::for_each` holds during its
callback is `local[p].reading`; `WriterPreferring` chooses between the two
behaviours of `std::shared_mutex`. `local[p].holding` is `_sharingMutex`, held
while a shared video is produced, replaces another one, is consumed by those
who joined, or is closed. `local` holds a handler's variables, which are reset
when it ends, as they are when it leaves by an exception. `crashed` is set when a
null pointer is used and stops the model.

A client may close any id: one of the peer's own map, the shared video, whoever's it
is (`CloseVideo`, `DetachClosed` when its owner's leaving has closed it already), or
anything else (`CloseNull`). A handler that throws ends the socket's coroutine, which is
`Leave`: so do the refusals of `produce()`, and the worker's of a close of the video.
`ProduceNull` is the kind that is neither audio nor video.

Peers start with an open socket and their two transports, which a client
creates before it joins. Each producer is created at most once (`made`), as media
or as a shared video (`Shareable`). `missed`, `ghosts` and `told`/`knows` record
what the clients were told, which is what their users see.

### VideoQuality

One video producer, its consumers (each a peer's handlers), the closing owner and
the pool thread. `entry[c]` is the slot in the peer's `consumerControllers`: held,
none, or the null that `operator[]` leaves when the slot was erased after
`contains()`. A handler holds a reference to the slot, not a pointer of its own, so a
slot erased during its request is used after it is gone (`Dangles`). Every
summing up (`ReadMax`, `ReadPaused`) and sending of a quality message is a step, and
two handlers may each make a controller for the producer, of which one is kept
(`orphaned`). `stale` records that the table moved between summing up and sending.

### PeerQueue and Outbox

`Senders` are the threads that queue messages for one peer. Some call
`request()`, which returns at once without a socket and stores the request after
queueing it; some call `accept()` or `reject()`, which queue in any case. The
queue is moodycamel's: one FIFO per thread, from which the consumer may take in
any order. A runner is a thread in `runOne()`/`sendMessage()`, or the coroutine of
the message sent before. A message's coroutine is `flight`, then `written` when the
frame has been written, and then runs `Complete`: it clears `_executing` and
goes on with `runOne()`. `Close` and `InvalidateSocket` are the two steps of the
socket's destruction.

`Outbox` is the promise: a message is new, waiting, delivered or lost, and lost
only by a failing write or with its socket. It promises no order, since the queue
keeps none between messages that were on their way together. `Box` maps a
message in a queue, in a runner's hand or in flight to "waiting".

### Lobby

Sockets that give the same room id. `pc` divides `onAfterCreate_NonBlocking` and
`onBeforeDestroy_NonBlocking` at each access to `_roomMap`, and at each to a room's
`_peerMap` that the handler's own peer depends on (`createPeer`, `onPeerClose`,
`removePeer`): each access is atomic, and `operator[]` on a missing key inserts a null
pointer (`Subscript`, `PeerData`, `TakePeer`). `Room::create` may give null, which
`lobby.cpp:30` uses (`CreateNull`), or throw: the exception ends the socket's coroutine
and the socket is destroyed without a listener (`CreateThrows`, then `Destroy`);
`failed` records such sockets. `raced` records whether an opening ever overlapped another handler;
the invariants say what is lost only then. Pings are left out: the thread that
would send them is commented out in `app.cpp:137-140`.

### SeqManager, NackGenerator, RtpRetransmissionBuffer, KeyFrameRequestManager, RtpStream

Each is one class of the worker, a record and operators that give its next value.
Numbers are modulo `SeqMod` and compared circularly, as `SeqLowerThan` does, which is
no order once two lie half a cycle apart: the containers the code keeps sorted by
it are sequences here, and insertion, lookup and pruning do what `std::set` and
`std::map` do with such a comparison. `Input` and `Drop` give a *set* of results where
the code leaves the output uninitialised (`SeqManager::Input` returning false) or
where such an insertion has no defined place. The same holds of the NACK generator
when it makes room by throwing away what precedes a key frame: the first key frame of a
circular order need not exist, and `MakeRoom` gives a result for each that
`lower_bound` may stop at (`FirstOf`). The buffer keeps its blank slots and its index
arithmetic.

### MediaPath

The publisher's packets are numbered as they are sent; each arrives at once, late,
as a retransmission, doubled, or never. One action handles one packet, timer or
request from the producer to the subscriber, as the worker's thread does. `plan`
is chosen at the start and bounds the run: how many packets, which are padding, which
are larger than the MTU (sent, but not stored: `StorePacket`), whether pauses and restarts happen. A jump that the sending stream confirms clears its
buffer (`ClearedOnReset`); the receiving stream does nothing then. `hist` is read by no
action.

### SimulcastConsumer

The publisher captures frames, a packet per layer. The packets of the last frames
(`plan.window`) arrive in any order or not at all. Each layer numbers and dates its
packets from an origin of its own, and sender reports make the dates comparable;
only whether a stream has one matters here (`reported`). `w` is the worker: which
streams exist and have a score, the key frames asked for, and the consumer with
its `SeqManager` and its sending `RtpStream`. `RecalculateTargetLayers` is the loop
over layers, `IncreaseLayer` one round of the transport's distribution and
`Distribute` what any bitrate may lead to. That round tests a stream's bitrate, whose
window (2500 ms) outlives the check of its activity (1500 ms): a stream without a score
may be passed over or taken. `SendRtpPacket` is the function of that
name, its early returns being `Ignored`, `Refused` and `TooOld`; `spatialLayerToSync`
is left out because it is set and reset within one call. `young` and `wary` stand for the
two timers, `StreamMinActiveMs` and `BweDowngradeConservativeMs`, which may run
out at any time.

## The runs

| Run | Instance | Question |
|---|---|---|
| `channel` | 2 calls, ids 0..1, fair | Are answers matched, wake-ups kept, promises alive; does every call return; is it a request service? |
| `channel_order` (violated) | 2 calls | Does a notification wait for the response before it? |
| `controllers` | 2 threads, the worker's main thread, a server, a router with a transport with a producer, 3 calls, fair | Do the controllers mirror the worker, and do calls end? |
| `room` | 2 peers with a producer each, either may be shared, fair | Do room, worker and clients agree, and do handlers end? |
| `room_locks` | 3 peers, two producers, writers preferred, nobody leaves | Can the system stop for good, and only in the lock cycle? |
| `quality` | 2 consumers with 2 layers, 2 requests each | Is the last quality message true, and who uses a consumer that is gone? |
| `queue` | a requesting thread with 1 message, a responding one with 2, fair | Is anything stuck, out of order, unmatched, lost or doubled? |
| `queue_resume` (violated) | a requesting and a responding thread | Does every response resume its consumer? |
| `lobby` | 3 sockets, two of one peer id | Is the map exact unless openings race? |
| `lobby_share` (violated) | the same | Do two openings share a room? |
| `media` | 16 numbers, 8 timestamps, four plans of 4 to 20 packets, fair NACK timer | Are losses chased, output numbers exact, packets kept, key frames asked for? |
| `simulcast` | 16 numbers, 64 timestamps, five plans of 2 or 3 layers | Is the target the best, the switch awaited and possible, the output monotonic? |

Deadlock is not checked in any run: clients owe the server nothing, so a system
that has answered all of them may stop, and a publisher's frames run out. What must
not stop is stated as `HaltsOnlyInLockCycle`, `HandlersEnd`, `CallsEnd`,
`EventuallyReturns`, `EveryMessageWritten` and `NacksEnd`.

### Bounds

* *channel*: two calls over two ids give both collisions - two calls that
  overlap inside `genRequestId`, and a call met by the wrapped counter - and, when
  one reads the counter before the other increments it past the end, two ids. A call's
  progress depends on the worker, the pool and at most one call that shares its id.
  The proofs cover any number.
* *controllers*: one entity of each kind gives every pair of an owner closing and
  something below it being made or closed; three calls let two closings meet a
  pause.
* *room*: every interaction in `room.cpp` is between two peers' handlers, or a
  handler and the pool thread.
* *room_locks*: the cycle takes a reader, a writer and the pool thread; the second
  producer makes it possible for both peers to write. Leaving only looks up in these
  maps, with no request under the lock, so a leaving peer may wait in such a cycle but
  closes none; nobody leaves here, to keep the run small. A late joiner is the only
  reader of two maps (`LateJoiner`).
* *quality*: two requests of a client are the least that leave a null behind and
  find it; two consumers are the least that disagree.
* *queue*: two messages of one thread can be swapped only by another runner, which
  the other thread's message supplies.
* *lobby*: two sockets race and a third sees what they left; two give one peer id,
  as a client that reconnects does.
* *media*: the code's limits keep their order (the NACK list's 1000 packets, a
  misorder of 1500, a dropout of 3000, an age of 10000, half a cycle);
  the long plan goes more than once around the numbers; short ones combine two of
  every fault.
* *simulcast*: the lowest layer's numbers and timestamps wrap within the longest plan; the
  window is shorter than `MaxSequenceNumberGap`, as it is in the code (100 packets). Each
  plan is there for one thing: two layers with packets overtaking each other and a
  torn frame, a transport still to be connected, bitrate managed, three layers with two
  interruptions, three layers managed.

Symmetry is used only in runs of invariants, and only among peers, sockets or
consumers that the constants do not tell apart.

### Fairness

* Channel: weak fairness of each calling thread, of the worker and of the pool
  thread. Nothing makes an entity emit or the worker stop.
* Controllers: each thread goes on with the call it is in; calls are started
  freely. The worker answers as long as it runs.
* Room: handlers and the pool thread, each by itself. That a lock is granted is
  not assumed but follows from the handlers' progress.
* Peer queue: each call and each coroutine. `FailWrite`, the client's response and
  the close are never forced.
* Media path: the NACK timer only, which is a libuv timer; no packet is forced to
  arrive.

## What the checks show

Most of the code's discipline holds, and the invariants say under which
conditions. In particular a join and a produce never miss each other
(`EveryoneConsumes`), for the shared video too: each handler writes before it reads.
Replacing a shared video never leaves two in the worker (`OneVideoShared`).
Destroying sockets together does no harm to the lobby (`MapIsExact`). `_executing`
is never left set without an owner, though two messages may be in flight at
once. A target layer always has the reports its switch asserts, and a key frame
that is waited for has been asked for.

The conditions themselves are results, each one needed: TLC shows a shorter
statement violated.

* Channel
  * An id may be shared after a wrap or by overlapping calls; answers are then
    crossed or lost (`OwnAnswer`, `AnswerFindsCallback`).
  * A wake-up is lost between the first empty read and the first `setHandle`
    (`NoLostWakeUp`); the next request repairs it.
* Controllers
  * What is created in a closing owner is built all the same and never told
    (`MirrorsWorker`, `router_controller.cpp:117`); on a worker that has closed
    `createRouterController` builds a router that nobody owns.
  * `WorkerController::close` walks a set under its lock while the close of each
    element erases it from that set and waits for the lock
    (`worker_controller.cpp:297-309`): it hangs (`Hangs`).
  * A closed channel answers with nothing, which callers parse.
* Lobby
  * A room that cannot be created crashes the server with one socket alone, as when the
    socket comes before the posted task has made the worker's WebRTC server
    (`CrashNeedsRaceDuplicateOrFailure`, `room.cpp:48-51`, `lobby.cpp:30`).
* Room
  * A consumer whose producer closes while `createConsumer` is at work may be used as
    a null pointer (`NullNeedsClosedProducer`), stay in the room's map, or be announced
    after its `consumerClosed` (`NoStaleConsumer`, `MirrorsWorker`).
  * A close of anything that is not in the peer's own map uses a null pointer when
    nothing is shared (`room.cpp:1164`): a second close of one producer, an unknown
    id, the close of one's own video after another sharer's replaced it and ended.
    An invalid kind makes `onHandleProduce` use one too.
  * Any peer may close the shared video. While its owner's leaving closes it as well, the
    worker refuses one of the two, and the peer whose close was refused is put out of
    the room, `_sharingMutex` released.
  * A peer that leaves may stay on the screen of one that was joining
    (`PeersKnowEachOther`).
  * With a `shared_mutex` that prefers writers the room can stop for good
    (`HaltsOnlyInLockCycle`).
* Video quality
  * Two messages may overtake each other between their summing up and their sending,
    and the controller of a producer may be made twice (`room.cpp:1750-1752`), so
    the last word is stale (`LastWordIsTrue`).
  * A shared video is not in `producerControllers`, so its quality is never reported.
  * Handlers keep references into `consumerControllers` across requests
    (`room.cpp:1263`, `peer.cpp:367`): they dangle after a `producerclose`, and the
    null that `operator[]` leaves is used by a later request (`CrashNeedsOverlap`).
* Media path
  * The NACK list keeps to its limit and its age, although one packet may add more than
    the limit and the key frame to cut at may be any (`NackListIsSound`).
  * A stale entry of `recoveredList`, or an RTX copy thrown away, silences the NACK of
    a packet that is missing (`LossesAreChased`).
  * `SeqManager::Drop` of two numbers half a cycle apart puts the later one in front
    (`GapsMatchDrops`); a packet from before a synchronisation may get a number in
    use (`OutputsUnambiguous`).
  * The retransmission buffer compares the timestamps of a late packet's neighbours
    as plain integers (`SentIsKept`). What it finds for a number was sent under it
    nevertheless (`BufferIsExact`).
  * A key frame is asked for twice and then no more (`WaitingConsumerIsServed`).
* Simulcast
  * Padding of *any* layer is dropped from the numbering of the one that is
    forwarded (`SimulcastConsumer.cpp:731`), and a number may be used twice
    (`OutputsOnce`).
  * The timestamps at a switch are compared as plain integers, and after a key frame
    was refused the next one is taken with any offset, even for another
    target: the clock may go back (`TimeGoesForward`).
  * The reference layer is never given up: if its stream dies before its first
    sender report no other layer can be chosen, and `TargetIsBest` counts only
    layers that can.

Three runs contradict what a comment in the code says; `findings` in
`PROJECT.json` quotes them: a notification does not wait for the response before it,
a client's response may come before its request is stored and its consumer is then
never resumed, and two sockets may create one room twice.

## What is proved

The theorems hold for any sets of calls, threads, messages, sockets, peers,
producers, consumers and layers, from the assumptions the modules state of their
constants. The type invariants of these modules are proved rather than checked by
a run.

### Channel

`ChannelProofs` proves `TypeCorrect`, the four invariants of run `channel`, and that
the channel implements `RequestService` (`ServiceCorrect`). None
of these is inductive. `AnswerInv` strengthens the three about answers: it
follows a call's request from its registration through the queue, the worker's
hand and the inbox, and says that in each place it carries its call's id, that a
call has a message in at most one of those places, and that until the answer is
processed the callback of an unshared id is its own. A step at which a thread draws
an id can only end a call's being unshared, never begin it for a call whose
request is on its way (`GenReadStep`). `WakeInv` strengthens `NoLostWakeUp` with
the worker's position: while it is about to set the handle after an empty read,
only a call at `notify` or a stranded one has a request in the queue. Each action
has a lemma of its own where it disturbs the invariant, and two lemmas cover those
that do not.

For the refinement ids may be shared, so none of this helps. `ServiceInv` says instead
that a callback in the map is one whose promise is unset, that a call which
has returned while its message is still on the way was given another's answer, that an
answer already given is nowhere on the way, that a call whose request the queue
refused has nothing on the way, and that the worker's hand is empty between two
requests. Then every action is one of `Draw`, `Ask`, `Refuse`, `Drop`, `Serve`, `Answer`
and `Stop`, or a stutter.

### Controllers

`ControllersProofs` proves both invariants of run `controllers` and `TypeOK`, for any threads
and any tree of entities that `OwnerAssumption` describes, with any bound on the calls
(`CallsAssumption`). The type invariant holds throughout; the rest, `RunInv`, speaks of the
time before the worker stops, when a quiet state can still be compared with it.

* `BaseInv` says where each call is, and which loops a closing thread is in: the one of
  its own controller and, in a router's, one of a transport.
* `RaceInv` is what the history is for: of an entity outside `raced`, whoever creates or
  closes it, or one that owns it, is alone with those above (`Apart`). Every argument
  that two threads could have met below a closing ends there (lemma `Alone`).
* `TreeInv` is the heart. An open controller has its entity, or an owner's closing is on
  the way to it (`Reaches`: the worker has closed the owner already, or a loop has the
  controller, or its owner, still to visit). It is listed and, a producer, found. A
  closed one has an entity only while its closer's request is unanswered, an entry only
  while somebody is at work on it, and an open controller below only while somebody has
  that one still to come (`ClosedAt`). `NewInv` keeps an owner open while something is
  created in it, and `DeadInv` keeps a second thread from cascading from the same
  controller. Neither of `OpenAt` and `ClosedAt` is inductive alone: a cascade passes from
  the worker's answer to the loop because what is open is listed, and a loop may skip a
  transport that is closed because that one's closer takes over what is below it.
* `MixInv`: of a producer outside `mixed`, `_paused` agrees with the worker, or one
  thread holds the answer that will make it so.

With no calls there are no closers left, and `MirrorsWorker` and `PausedAgrees` remain.

### Room

`RoomProofs` assumes that producers belong to peers, that the lock policy is a Boolean,
that peers and producers are finitely many (their notices are put in an order) and that
`None` is neither. It proves every invariant of run `room`. The inductive invariant,
`RoomInv`, is made in three steps, each on top of the one before.

* `BaseInv`: the types, that a handler has at hand what its next step takes
  (`HandInv`), and that one which waits for the worker has at most one answer coming or
  come, any other none (`AnswerInv`): `PoolResponse` reaches the handler that asked.
* `ProducerInv`: who may hold which lock (`LockInv`), what a handler is doing
  at each of its places (`TaskInv`, `StageInv`, `OwnInv`), and what becomes of a
  producer: the worker's entity, the router's controller and the entries of the peer and
  the room outlive one another only while a handler is about to remove them (`WorkInv`,
  `StoreInv`, `RouteInv`, `SharedInv`, `NullInv`). `LocksAreReleased` and
  `NullNeedsClosedProducer` are conjuncts; `OneVideoShared` is the case where no handler
  is about to do anything.
* `ConsumerInv` relates two peers. Of two joined peers each knows the
  other, or the later one is about to tell it or to be told (`MeetInv`, with `KnowInv`
  and `FarewellInv` for those who leave). `ServeInv` is the argument that a join and a
  produce never miss each other: of a live producer and another joined peer, there is a
  consumer, or one is pending, or the announcement or the walk of the join is still to
  come. `FreshInv` keeps a consumer from being made twice; `PlaceInv`, `ClosedInv`,
  `WorkerInv`, `HeldInv` and `JobInv` follow it from the worker's answer through the
  room's map and the client's list to the notice that ends it. The four properties of a
  quiet room are what is left when there are no handlers.

### Video quality

`VideoQualityProofs` proves both invariants of run `quality` from one invariant,
`QualityInv`, for any finite set of consumers and any layers; what the highest
layer of a set is does not matter to it. `PlaceInv` says what each handler has at hand at
each of its places, and `MetInv` that a slot which is null, or was erased under a
handler that uses it, is recorded in `met`; `CrashNeedsOverlap` follows. While the
producer is open every consumer is held and the pool thread has only answers to
deliver (`OpenInv`). Then the table has what each consumer wants, but for those that a
handler is about to enter and those that went astray, a thread's summing up is still
true unless the table was seen to move, and what was last told is the table's sum or
will be followed by another (`SumInv`). `LastWordIsTrue` speaks of a producer that is
listed; when all is quiet that one is open, because a closed one stays listed only until
the answer to its closer (`CloserInv`).

### Peer queue

`PeerQueueProofs` proves the safety properties of run `queue`, the action
property among them. All rest on `TypeInv`, whose part `QueueOk` says that a
thread's queue holds exactly its last messages in order; a message has therefore
been *taken* when its number is at most `sent - Len(queue)`. From there three
arguments go on:

* `OrderInv`: whatever runs, is carried or has been written was taken, and when a
  later message of a thread has been taken while an earlier one is on its way,
  the pair is in `overlapped`. A message joins the wire from those on their way,
  so what stands before it out of order overlapped it (`OrderWriteStep`).
* `DriveInv`: while an open peer's queue is not empty, some call or coroutine is not
  at rest. A call may go away without looking only when `_executing` is set, and
  then a coroutine that will clear it, or one whose write failed, is there. That a
  message is carried once, before it is sent off (`CarriedOnce`, which needs
  `OrderInv`), keeps such a coroutine from being started over.
* `StoredInv`: a request of an open peer that is neither stored nor answered is the
  one its call is about to store.

It ends with the proof that the queue implements the safety of `Outbox`. Under
`RefinementInv` - the invariants above, and that a runner carries a message only on
its way to the socket - every action is an abstract step: enqueueing is `Send`, a
write `Deliver`, a failed write `Fail`, what is dropped after the close `Discard`; all
else stutters, because a message passes from queue to hand to flight without its
status changing. That none is lost on the way rests on `CarriedOnce`.

### Lobby

`LobbyProofs` proves the three invariants of run `lobby`. `TypeInv` says that no more
rooms were created than sockets that are past creating one, that a handler past its
lookup holds a room, and that members are sockets that were entered. `CalmInv` describes
the lobby while no opening has raced (`Calm`): only the room in the map has peers, and
is without any only while somebody is about to fill or delete it (`RoomsCalm`); its
members are the open peers that call it home, no two of one id (`MembersCalm`); and
every opening or closing handler finds the map as the one before it left it
(`OpeningCalm`, `ClosingCalm`). `StayInv` says, with or without a race, that a peer can be
missing from its room only if it shares its id; with `CalmInv` that gives
`PeersStayInTheirRoom`.

### Simulcast consumer

`SimulcastConsumerProofs` proves `SwitchNeedsReports`, `SwitchIsAwaited` and
`TargetIsBest` for any number of layers (a publisher has at least one,
`PlansAssumption`), frames and interruptions, any packets and any bitrate. The
invariant, `Sound(w, {})`, says besides:

* `Idle` and `Rests`: a consumer that is not active has no target, and one without a
  target forwards no layer. So whatever makes it active finds nothing awaited.
* `Known`: a target has a reference layer, and may be switched to from it. A first target
  becomes the reference, which can only leave fewer layers to choose from, itself
  among them; so the best remains the best (`UpdatedIsLoose`).
* `Wariness`: the timer after a downgrade is for a managed bitrate only.
* `Awaits(c, come)`: the key frame of the target is asked for, or is among those in `come`.
  Between the packet's answering its request (`Received`) and the consumer's dealing
  with it (`SendRtpPacket`), `come` is its layer; then it has switched, or asked again.

What the two loops compute is proved by induction: over the layers for
`RecalculateTargetLayers`, over the transport's rounds for `Distribute`. The
library's induction theorems take a predicate as a parameter, which the provers cannot
instantiate, so the lemmas `SetInduction` and `IntervalInduction` are about
sets instead, from the well-foundedness of `<`; `LoopHasResult` gives the
existence of the functions that the model defines recursively.

### Media path

`MediaPathProofs` proves `TypeOK`, `NackListIsSound`, `BufferIsExact` and
`WaitingConsumerIsServed` for any plan of the publisher and any losses, delays,
copies and restarts. The constants need to be ordered as the code orders its own: a
list shorter than the age it reaches back to (1000 < 10000), and that age, the buffer
(2500) and the dropout and misorder limits at most half a cycle (32767). A packet may be
late by half a cycle at most (`MaxDelay`).

The arithmetic comes first. `WrapNear` says what wrapping does to a number at most a cycle
out of range, and `Distance` what the buffer's circular comparisons mean for how far apart
two of its numbers are; after them every argument is about integers. The invariant,
`Inv`, has these parts besides the types:

* `Sound`: the NACK list has each number once, all of them between one and
  `MaxPacketAge` behind the newest, and a timer while it is not empty. That is more
  than its limit: within an age of half a cycle the circular order is a total one, so
  `lower_bound` and `erase` find what they look for, and the assertion "packet already
  in the NACK list" (`NackGenerator.cpp:195`) cannot fire. The argument is in
  `AddListed`: a packet that opens a gap first drops what has become too old, and the
  numbers it adds are nearer to it than any that is left. That the list is not too
  long is seen to where it grows: it is cut at a key frame, and a gap that does not fit
  even then clears it instead of being added.
* `Indexed`: the buffer is empty, or begins and ends with a packet, holds at most
  `MaxItems` slots, and the packet in slot `i` has the number of the first one plus
  `i - 1`. `AtTheBack` and `AtTheFront` put a packet with its blanks at either end and
  `OneSlot` one between; `FromIsIndexed` takes the oldest off, with the blanks behind
  them. That the slots are counted in wrapping numbers is why `MaxItems` may not be more
  than half a cycle.
* `WaitOK`: a consumer that waits for a key frame, of a producer that is not paused, has
  a request pending or delayed, or the worker has given up (`gaveUp`). What keeps
  it is that every way to start waiting (resume, connection, the producer's resume)
  asks in the same step (`NeededServes`), that the timers clear a request only to
  ask again or give up, and that a key frame which answers a request ends the waiting in
  the same step.

`BufferIsExact` needs a second invariant on top of `Inv`, `HoldOK`: every packet in the
buffer is in the history of what was sent, under the number it is stored with. It needs
`Indexed` for the two ends, from whose numbers an insertion reckons, and it
survives the bound of the history (`SentItemsGrow`), which forgets what is more than
half a cycle old. The lemmas from `FromHolds` to `InsertHolds` are about sequences over
*any* set of slots, so that a buffer of what was sent is one instance of them.

### Model-checked only

* All liveness, and `HaltsOnlyInLockCycle`, which speaks of `ENABLED`: beyond the prover.
* `LossesAreChased`, `GapsMatchDrops`, `OutputsUnambiguous` and `SentIsKept` of the media
  path, and `OutputsOnce` and `TimeGoesForward` of the simulcast consumer. They depend on
  how far numbers and timestamps go, over several cycles: a loss of a whole cycle
  cannot be seen, a number is used again after a cycle, and a clock that jumps makes
  what was just sent look old. So they are claimed for the plans of their runs, whose
  lengths and jumps are the bounds they are about.

## What is not modelled

* Data: RTP parameters, the negotiation in `ortc.cpp`, statistics, DTOs, codecs.
* Transport creation, bots, `restartIce`, `changeDisplayName`: requests that touch one
  peer's data only.
* Undefined behaviour beyond the order of accesses, except where a handler uses an
  object that is gone: the models take each access as one step.
* The socket form of the channel (`channel_socket.cpp`), which the `multiprocess`
  setting selects (`worker_controller.cpp:70-73`) for a worker in a process of its own.
* In the worker: SVC and pipe consumers, temporal layers, bitrates and scores as
  numbers, RTCP reports, data channels, ICE, DTLS, SRTP, port allocation; the
  generated flatbuffers code, which holds no logic.
* Vendored code. `threadsafe_unordered_map`, its set and the concurrent queue
  appear as the operations the code uses.

## Plan

Done, the most important behaviour first: `Channel`, `Controllers`, `Room`, `PeerQueue`,
`Lobby` and `VideoQuality`; the media path; the two abstract specifications; the
simulcast consumer; the proofs of all of them. Left:

1. **Proofs**: `GapsMatchDrops` and `SentIsKept` under a bound on how far the publisher's
   numbers and clock go within one buffer or list, stated in the properties themselves.
2. **Models**: `IceServer`'s states with its tuples, `PortManager`'s table; the layer
   choice of `SvcConsumer` beside that of `SimulcastConsumer`.
