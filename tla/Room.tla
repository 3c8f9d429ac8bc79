-------------------------------- MODULE Room --------------------------------
(***************************************************************************)
(* A conference room (sfu/src/rooms/room.cpp): peers join, produce media,  *)
(* close what they produce and leave, while the room keeps every joined    *)
(* peer consuming every producer of the others.                            *)
(*                                                                         *)
(* The handlers of one peer run one after the other in its web socket's    *)
(* coroutine; those of different peers run on different threads of the     *)
(* executor and interleave wherever they touch shared state or block in a  *)
(* request to the worker. The channel's single pool thread delivers the    *)
(* worker's responses and notifications in order (module Channel), so a    *)
(* request appears here as one step of the worker, which appends to the    *)
(* pool's inbox, and one step of the caller, once it has been answered.    *)
(*                                                                         *)
(* At most one peer shares its screen at a time: the room closes the video *)
(* shared before (sfu/src/rooms/video_sharing_controller.cpp).             *)
(*                                                                         *)
(* The peers are those that have opened their web socket and created their *)
(* two transports, as a client does before it joins.                       *)
(***************************************************************************)
EXTENDS Integers, Sequences, FiniteSets, SequencesExt

CONSTANTS
  Peers,            \* the peers connected to the room
  Producers,        \* the producers they may create, each at most once
  Owner,            \* the peer that creates each producer
  Shareable,        \* bound: the producers that may be shared videos
  WriterPreferring, \* whether a waiting writer keeps new readers of a
                    \* threadsafe_unordered_map out (libc++; glibc lets them in)
  None              \* no value

ASSUME OwnerAssumption == Owner \in [Producers -> Peers] /\ Shareable \subseteq Producers
ASSUME PolicyAssumption == WriterPreferring \in BOOLEAN
ASSUME FiniteAssumption == IsFiniteSet(Peers) /\ IsFiniteSet(Producers)
ASSUME NoneAssumption ==
  None \notin Peers \cup Producers \cup [peer : Peers, prod : Producers, maker : Peers]

VARIABLES
  peerMap,     \* Room::_peerMap
  joined,      \* the peers with PeerData::joined
  producers,   \* PeerData::producerControllers of each peer
  consumers,   \* PeerData::consumerControllers of each peer
  router,      \* RouterController::_producerControllers
  shared,      \* VideoSharingController::_producerController, _peer being its owner
  closed,      \* shared videos whose ProducerController::_closed is set
  pc,          \* where each peer's handler stands
  local,       \* its local variables
  reply,       \* the answer to its request to the worker
  wTransports, \* the worker's transports: <<peer, direction>>
  wProducers,  \* the worker's producers
  wConsumers,  \* the worker's consumers
  inbox,       \* the messages waiting for the channel's pool thread
  told,        \* the consumers each client was told of and not told closed
  knows,       \* the peers each client was told of and not told closed
  made,        \* history: the producers created so far
  videos,      \* those of them that were produced as shared videos
  ended,       \* history: those that their own peer has closed
  missed,      \* history: consumers closed before their room or client knew them
  ghosts,      \* history: <<p, q>>: q was leaving when p was told that it is there
  crashed      \* the peer whose handler dereferenced a null consumer

sharing    == <<shared, closed>>
roomVars   == <<peerMap, joined, producers, consumers, router, sharing>>
workerVars == <<wTransports, wProducers, wConsumers>>
clientVars == <<told, knows>>
clientDid  == <<made, videos, ended>>
history    == <<clientDid, missed, ghosts>>
vars == <<roomVars, pc, local, reply, workerVars, inbox, clientVars, history,
          crashed>>

Directions == {"send", "recv"}

\* A consumer has a fresh id, so two handlers that create one for the same peer
\* and producer create two: its peer's join and its producer's owner.
Consumer == [peer : Peers, prod : Producers, maker : Peers]

PC == {"idle", "gone",
       "caps", "accept", "visit", "newPeer",                    \* join
       "consume", "request", "consuming", "emplace", "tell",    \* createConsumer
       "producing", "store", "share", "replacing", "announce",  \* produce
       "closing", "erase", "detaching",                         \* closeProducer
       "leave", "notify", "transports", "transport"}            \* leave

Local == [others : SUBSET Peers, visit : SUBSET Peers, reading : Peers \cup {None},
          todo : SUBSET (Peers \X Producers), job : Consumer \cup {None},
          prod : Producers \cup {None}, dir : Directions \cup {None},
          holding : BOOLEAN]

Nothing == [others |-> {}, visit |-> {}, reading |-> None, todo |-> {},
            job |-> None, prod |-> None, dir |-> None, holding |-> FALSE]

Message == [type : {"response"}, peer : Peers, ok : BOOLEAN]
           \cup [type : {"producerClose"}, consumer : Consumer]

TypeOK ==
  /\ peerMap \subseteq Peers
  /\ joined \subseteq Peers
  /\ producers \in [Peers -> SUBSET Producers]
  /\ consumers \in [Peers -> SUBSET Consumer]
  /\ router \subseteq Producers
  /\ shared \in videos \cup {None}
  /\ closed \subseteq videos
  /\ pc \in [Peers -> PC]
  /\ local \in [Peers -> Local]
  /\ reply \in [Peers -> {"none", "ok", "error"}]
  /\ wTransports \subseteq Peers \X Directions
  /\ wProducers \subseteq Producers
  /\ wConsumers \subseteq Consumer
  /\ inbox \in Seq(Message)
  /\ told \in [Peers -> SUBSET Consumer]
  /\ knows \in [Peers -> SUBSET Peers]
  /\ made \subseteq Producers
  /\ videos \subseteq made \cap Shareable
  /\ ended \subseteq made
  /\ missed \subseteq Consumer
  /\ ghosts \subseteq Peers \X Peers
  /\ crashed \in Peers \cup {None}

Init ==
  /\ peerMap = Peers
  /\ joined = {}
  /\ producers = [p \in Peers |-> {}]
  /\ consumers = [p \in Peers |-> {}]
  /\ router = {}
  /\ shared = None
  /\ closed = {}
  /\ pc = [p \in Peers |-> "idle"]
  /\ local = [p \in Peers |-> Nothing]
  /\ reply = [p \in Peers |-> "none"]
  /\ wTransports = Peers \X Directions
  /\ wProducers = {}
  /\ wConsumers = {}
  /\ inbox = <<>>
  /\ told = [p \in Peers |-> {}]
  /\ knows = [p \in Peers |-> {}]
  /\ made = {}
  /\ videos = {}
  /\ ended = {}
  /\ missed = {}
  /\ ghosts = {}
  /\ crashed = None

Goto(p, from, to) == pc[p] = from /\ pc' = [pc EXCEPT ![p] = to]
SetLocal(p, l)    == local' = [local EXCEPT ![p] = l]

\* Room::getJoinedPeers()
JoinedPeers(p) == (peerMap \cap joined) \ {p}

\* The lock of a peer's producerControllers: for_each() holds it shared, across
\* the requests its callback makes; only the peer's own handler writes.
Readers(q)  == {p \in Peers : local[p].reading = q}
CanWrite(q) == Readers(q) = {}
CanRead(q)  ==
  ~(WriterPreferring /\ pc[q] \in {"store", "erase"} /\ Readers(q) # {})

\* Room::_sharingMutex: held across the requests made under it, until the block or
\* an exception leaves it.
Free == \A p \in Peers : ~local[p].holding

VideoShared == shared # None /\ shared \notin closed

\* A request runs in the worker, which closes some consumers with their producer
\* and notifies each, in no particular order, before it responds.
Respond(p, orphans, ok) ==
  \E s \in SetToSeqs(orphans) :
    inbox' = inbox
             \o [i \in DOMAIN s |-> [type |-> "producerClose", consumer |-> s[i]]]
             \o <<[type |-> "response", peer |-> p, ok |-> ok]>>

Answered(p) == reply[p] # "none" /\ reply' = [reply EXCEPT ![p] = "none"]

-----------------------------------------------------------------------------
(* join                                                                    *)

\* joined is set before the capabilities are; a second join changes nothing.
Join(p) ==
  /\ Goto(p, "idle", "caps")
  /\ p \in peerMap \ joined
  /\ joined' = joined \cup {p}
  /\ UNCHANGED <<peerMap, sharing, producers, consumers, router, local, reply, workerVars,
                 inbox, clientVars, history, crashed>>

\* The capabilities are stored and the other joined peers copied, ...
JoinSnapshot(p) ==
  /\ Goto(p, "caps", "accept")
  /\ SetLocal(p, [local[p] EXCEPT !.others = JoinedPeers(p), !.visit = JoinedPeers(p)])
  /\ UNCHANGED <<roomVars, reply, workerVars, inbox, clientVars, history, crashed>>

\* A leaving peer that will not tell p, or already has, that it is gone.
PastFarewell(q, p) ==
  \/ pc[q] \in {"transports", "transport", "gone"}
  \/ pc[q] = "notify" /\ p \notin local[q].others

\* ... and the response lists them.
JoinAccept(p) ==
  /\ Goto(p, "accept", "visit")
  /\ knows' = [knows EXCEPT ![p] = @ \cup local[p].others]
  /\ ghosts' = ghosts \cup {<<p, q>> : q \in {r \in local[p].others : PastFarewell(r, p)}}
  /\ UNCHANGED <<roomVars, local, reply, workerVars, inbox, told, clientDid, missed, crashed>>

\* The producers of one of them are walked under the shared lock of their map.
Visit(p) ==
  /\ Goto(p, "visit", "consume")
  /\ \E q \in local[p].visit :
       /\ CanRead(q)
       /\ SetLocal(p, [local[p] EXCEPT !.visit = @ \ {q}, !.reading = q,
                                 !.todo = {p} \X producers[q]])
  /\ UNCHANGED <<roomVars, reply, workerVars, inbox, clientVars, history, crashed>>

\* Then the shared video, if there is one, under its mutex.
JoinSharing(p) ==
  /\ local[p].visit = {} /\ Free
  /\ Goto(p, "visit", IF VideoShared THEN "consume" ELSE "newPeer")
  /\ IF VideoShared
     THEN SetLocal(p, [local[p] EXCEPT !.holding = TRUE, !.todo = {<<p, shared>>}])
     ELSE UNCHANGED local
  /\ UNCHANGED <<roomVars, reply, workerVars, inbox, clientVars, history, crashed>>

\* Mutated form of JoinDone: the others are not told.
JoinDoneSilently(p) ==
  /\ Goto(p, "newPeer", "idle")
  /\ SetLocal(p, Nothing)
  /\ UNCHANGED <<roomVars, reply, workerVars, inbox, clientVars, history, crashed>>

\* Once all are walked, each is told of the new peer.
JoinDone(p) ==
  /\ Goto(p, "newPeer", "idle")
  /\ knows' = [q \in Peers |-> IF q \in local[p].others THEN knows[q] \cup {p} ELSE knows[q]]
  /\ SetLocal(p, Nothing)
  /\ UNCHANGED <<roomVars, reply, workerVars, inbox, told, history, crashed>>

-----------------------------------------------------------------------------
(* createConsumer                                                          *)

\* Mutated form of CanConsume: a joining peer's capabilities are not visible to
\* the others before its join ends.
CanConsumeJoined(p) ==
  /\ pc[p] = "consume"
  /\ \E job \in local[p].todo :
       IF job[2] \in router /\ pc[job[1]] \notin {"caps", "accept", "visit"}
       THEN /\ pc' = [pc EXCEPT ![p] = "request"]
            /\ SetLocal(p, [local[p] EXCEPT !.todo = @ \ {job},
                 !.job = [peer |-> job[1], prod |-> job[2], maker |-> p]])
       ELSE /\ SetLocal(p, [local[p] EXCEPT !.todo = @ \ {job}])
            /\ UNCHANGED pc
  /\ UNCHANGED <<roomVars, reply, workerVars, inbox, clientVars, history, crashed>>

\* Nothing is created for a peer without capabilities, or for a producer that
\* RouterController::canConsume() does not find.
CanConsume(p) ==
  /\ pc[p] = "consume"
  /\ \E job \in local[p].todo :
       IF job[2] \in router /\ pc[job[1]] # "caps"
       THEN /\ pc' = [pc EXCEPT ![p] = "request"]
            /\ SetLocal(p, [local[p] EXCEPT !.todo = @ \ {job},
                 !.job = [peer |-> job[1], prod |-> job[2], maker |-> p]])
       ELSE /\ SetLocal(p, [local[p] EXCEPT !.todo = @ \ {job}])
            /\ UNCHANGED pc
  /\ UNCHANGED <<roomVars, reply, workerVars, inbox, clientVars, history, crashed>>

\* The walk over a peer's producers ends, or the one over the joined peers, or
\* the block that holds the shared video's mutex.
ConsumeDone(p) ==
  /\ local[p].todo = {}
  /\ Goto(p, "consume", IF local[p].holding THEN "newPeer"
                        ELSE IF local[p].reading = None THEN "idle" ELSE "visit")
  /\ SetLocal(p, [local[p] EXCEPT !.reading = None, !.prod = None, !.holding = FALSE])
  /\ UNCHANGED <<roomVars, reply, workerVars, inbox, clientVars, history, crashed>>

\* consume() returns null for a producer the router no longer has, and the
\* result is used at once.
ConsumeNull(p) ==
  /\ pc[p] = "request"
  /\ local[p].job.prod \notin router
  /\ crashed' = p
  /\ UNCHANGED <<roomVars, pc, local, reply, workerVars, inbox, clientVars, history>>

\* Mutated form of Consume: a refused request is not responded to.
ConsumeUnanswered(p) ==
  LET c  == local[p].job
      ok == <<c.peer, "recv">> \in wTransports /\ c.prod \in wProducers
  IN /\ c # None /\ c.prod \in router
     /\ Goto(p, "request", "consuming")
     /\ wConsumers' = IF ok THEN wConsumers \cup {c} ELSE wConsumers
     /\ IF ok THEN Respond(p, {}, ok) ELSE UNCHANGED inbox
     /\ UNCHANGED <<roomVars, local, reply, wTransports, wProducers, clientVars,
                    history, crashed>>

\* The worker refuses when the transport or the producer is gone.
Consume(p) ==
  LET c  == local[p].job
      ok == <<c.peer, "recv">> \in wTransports /\ c.prod \in wProducers
  IN /\ c # None /\ c.prod \in router
     /\ Goto(p, "request", "consuming")
     /\ wConsumers' = IF ok THEN wConsumers \cup {c} ELSE wConsumers
     /\ Respond(p, {}, ok)
     /\ UNCHANGED <<roomVars, local, reply, wTransports, wProducers, clientVars,
                    history, crashed>>

\* Mutated form of ConsumeAnswered: the error does not release the lock.
ConsumeAnsweredLocked(p) ==
  /\ Answered(p)
  /\ IF reply[p] = "ok"
     THEN Goto(p, "consuming", "emplace") /\ UNCHANGED local
     ELSE /\ Goto(p, "consuming", "leave")
          /\ SetLocal(p, [Nothing EXCEPT !.reading = local[p].reading])
  /\ UNCHANGED <<roomVars, workerVars, inbox, clientVars, history, crashed>>

\* A ChannelError passes every catch of the room; it ends the coroutine of the
\* peer whose handler it is, and with it the peer's stay.
ConsumeAnswered(p) ==
  /\ Answered(p)
  /\ IF reply[p] = "ok"
     THEN Goto(p, "consuming", "emplace") /\ UNCHANGED local
     ELSE Goto(p, "consuming", "leave") /\ SetLocal(p, Nothing)
  /\ UNCHANGED <<roomVars, workerVars, inbox, clientVars, history, crashed>>

\* Only now does the room hold the consumer and listen for its producer's close.
Emplace(p) ==
  LET c == local[p].job IN
    /\ Goto(p, "emplace", "tell")
    /\ consumers' = [consumers EXCEPT ![c.peer] = @ \cup {c}]
    /\ UNCHANGED <<peerMap, joined, sharing, producers, router, local, reply, workerVars,
                   inbox, clientVars, history, crashed>>

\* newConsumer is queued for the client; nothing waits for its response.
Tell(p) ==
  LET c == local[p].job IN
    /\ Goto(p, "tell", "consume")
    /\ told' = [told EXCEPT ![c.peer] = @ \cup {c}]
    /\ SetLocal(p, [local[p] EXCEPT !.job = None])
    /\ UNCHANGED <<roomVars, reply, workerVars, inbox, knows, history, crashed>>

-----------------------------------------------------------------------------
ConsumersOf(ms) == {c \in wConsumers : c.prod \in ms}

(* produce                                                                 *)

\* The client says whether it shares its screen (appData.sharing). What produce()
\* or the worker refuses throws, and ends the peer's stay as Leave does.
Produce(p, m) ==
  /\ Goto(p, "idle", "producing")
  /\ p \in joined /\ Owner[m] = p /\ m \notin made
  /\ videos' \in {videos} \cup {videos \cup {m} : x \in Shareable \cap {m}}
  /\ made' = made \cup {m}
  /\ wProducers' = wProducers \cup {m}
  /\ Respond(p, {}, TRUE)
  /\ SetLocal(p, [local[p] EXCEPT !.prod = m])
  /\ UNCHANGED <<roomVars, reply, wTransports, wConsumers, clientVars, ended,
                 missed, ghosts, crashed>>

\* For a kind that is neither audio nor video produce() returns null, which is used.
ProduceNull(p, m) ==
  /\ pc[p] = "idle"
  /\ p \in joined /\ Owner[m] = p /\ m \notin made
  /\ SetLocal(p, [local[p] EXCEPT !.prod = m])
  /\ crashed' = p
  /\ UNCHANGED <<roomVars, pc, reply, workerVars, inbox, clientVars, history>>

\* newProducerSignal puts the new producer in the router's map.
ProduceAnswered(p) ==
  /\ Answered(p)
  /\ Goto(p, "producing", IF local[p].prod \in videos THEN "share" ELSE "store")
  /\ router' = router \cup {local[p].prod}
  /\ UNCHANGED <<peerMap, joined, sharing, producers, consumers, local, workerVars, inbox,
                 clientVars, history, crashed>>

Store(p) ==
  /\ CanWrite(p)
  /\ Goto(p, "store", "announce")
  /\ producers' = [producers EXCEPT ![p] = @ \cup {local[p].prod}]
  /\ UNCHANGED <<peerMap, joined, sharing, consumers, router, local, reply, workerVars,
                 inbox, clientVars, history, crashed>>

\* A shared video is not stored with the peer's producers but attached to the
\* room, once the one that was is closed.  Its owner may be leaving: the worker
\* then refuses.
Replace(p) ==
  LET ok == shared \in wProducers IN
    /\ VideoShared /\ Free
    /\ Goto(p, "share", "replacing")
    /\ closed' = closed \cup {shared}
    /\ wProducers' = wProducers \ {shared}
    /\ wConsumers' = wConsumers \ ConsumersOf({shared})
    /\ Respond(p, ConsumersOf({shared}), ok)
    /\ SetLocal(p, [local[p] EXCEPT !.holding = TRUE])
    /\ UNCHANGED <<peerMap, joined, producers, consumers, router, shared, reply,
                   wTransports, clientVars, history, crashed>>

\* The refusal throws: the new video is not attached, and its owner goes.
ReplaceAnswered(p) ==
  /\ Answered(p)
  /\ IF reply[p] = "ok"
     THEN /\ Goto(p, "replacing", "announce")
          /\ router' = router \ {shared}
          /\ shared' = local[p].prod
          /\ SetLocal(p, [local[p] EXCEPT !.holding = FALSE])
     ELSE /\ Goto(p, "replacing", "leave")
          /\ SetLocal(p, Nothing)
          /\ UNCHANGED <<router, shared>>
  /\ UNCHANGED <<peerMap, joined, producers, consumers, closed, workerVars, inbox,
                 clientVars, history, crashed>>

\* Mutated form of Attach: the video shared before is let run.
AttachOver(p) ==
  /\ Free
  /\ Goto(p, "share", "announce")
  /\ shared' = local[p].prod
  /\ UNCHANGED <<peerMap, joined, producers, consumers, router, closed, local, reply,
                 workerVars, inbox, clientVars, history, crashed>>

Attach(p) ==
  /\ ~VideoShared /\ Free
  /\ Goto(p, "share", "announce")
  /\ shared' = local[p].prod
  /\ UNCHANGED <<peerMap, joined, producers, consumers, router, closed, local, reply,
                 workerVars, inbox, clientVars, history, crashed>>

Announce(p) ==
  /\ Goto(p, "announce", "consume")
  /\ SetLocal(p, [local[p] EXCEPT !.todo = JoinedPeers(p) \X {local[p].prod}])
  /\ UNCHANGED <<roomVars, reply, workerVars, inbox, clientVars, history, crashed>>

-----------------------------------------------------------------------------
(* closeProducer                                                           *)

\* A producer of the peer's own map is closed, ...
CloseProducer(p, m) ==
  /\ Goto(p, "idle", "closing")
  /\ p \in joined /\ m \in producers[p]
  /\ ended' = ended \cup {m}
  /\ wProducers' = wProducers \ {m}
  /\ wConsumers' = wConsumers \ ConsumersOf({m})
  /\ Respond(p, ConsumersOf({m}), TRUE)
  /\ SetLocal(p, [local[p] EXCEPT !.prod = m])
  /\ UNCHANGED <<roomVars, reply, wTransports, clientVars, made, videos, missed, ghosts,
                 crashed>>

\* ... or the shared video, whoever's it is, under its mutex.  Its owner may be
\* leaving: the worker then refuses, ...
CloseVideo(p, m) ==
  LET ok == m \in wProducers IN
    /\ Goto(p, "idle", "detaching")
    /\ p \in joined /\ m \notin producers[p] /\ m = shared /\ m \notin closed /\ Free
    /\ ended' = IF Owner[m] = p THEN ended \cup {m} ELSE ended
    /\ closed' = closed \cup {m}
    /\ wProducers' = wProducers \ {m}
    /\ wConsumers' = wConsumers \ ConsumersOf({m})
    /\ Respond(p, ConsumersOf({m}), ok)
    /\ SetLocal(p, [local[p] EXCEPT !.holding = TRUE])
    /\ UNCHANGED <<peerMap, joined, producers, consumers, router, shared, reply,
                   wTransports, clientVars, made, videos, missed, ghosts, crashed>>

\* ... which throws: the video stays attached, and the peer that closed it goes.
VideoClosed(p) ==
  /\ Answered(p)
  /\ IF reply[p] = "ok"
     THEN /\ Goto(p, "detaching", "idle")
          /\ router' = router \ {shared}
          /\ shared' = None
          /\ SetLocal(p, [local[p] EXCEPT !.holding = FALSE])
     ELSE /\ Goto(p, "detaching", "leave")
          /\ SetLocal(p, Nothing)
          /\ UNCHANGED <<router, shared>>
  /\ UNCHANGED <<peerMap, joined, producers, consumers, closed, workerVars, inbox,
                 clientVars, history, crashed>>

\* A video that its owner's leaving has closed is only detached.
DetachClosed(p, m) ==
  /\ pc[p] = "idle"
  /\ p \in joined /\ m \notin producers[p] /\ m = shared /\ m \in closed /\ Free
  /\ shared' = None
  /\ UNCHANGED <<peerMap, joined, producers, consumers, router, closed, pc, local, reply,
                 workerVars, inbox, clientVars, history, crashed>>

\* That a video is shared is taken for granted: when none is, any id that is not
\* of the peer's own map - an unknown one is a producer not made yet - uses a null
\* pointer.  When another video is, nothing happens.
CloseNull(p, m) ==
  /\ pc[p] = "idle" /\ Free
  /\ p \in joined /\ m \notin producers[p] /\ shared = None
  /\ SetLocal(p, [local[p] EXCEPT !.prod = m])
  /\ crashed' = p
  /\ UNCHANGED <<roomVars, pc, reply, workerVars, inbox, clientVars, history>>

\* Mutated form of CloseAnswered: the producer is closed in a walk over the map
\* it is then taken out of.
CloseAnsweredWalking(p) ==
  /\ Answered(p)
  /\ Goto(p, "closing", "erase")
  /\ router' = router \ {local[p].prod}
  /\ SetLocal(p, [local[p] EXCEPT !.reading = p])
  /\ UNCHANGED <<peerMap, joined, sharing, producers, consumers, workerVars, inbox,
                 clientVars, history, crashed>>

\* closeSignal takes the producer out of the transport's and router's maps.
CloseAnswered(p) ==
  /\ Answered(p)
  /\ Goto(p, "closing", "erase")
  /\ router' = router \ {local[p].prod}
  /\ UNCHANGED <<peerMap, joined, sharing, producers, consumers, local, workerVars, inbox,
                 clientVars, history, crashed>>

Erase(p) ==
  /\ CanWrite(p)
  /\ Goto(p, "erase", "idle")
  /\ producers' = [producers EXCEPT ![p] = @ \ {local[p].prod}]
  /\ SetLocal(p, [local[p] EXCEPT !.prod = None])
  /\ UNCHANGED <<peerMap, joined, sharing, consumers, router, reply, workerVars, inbox,
                 clientVars, history, crashed>>

-----------------------------------------------------------------------------
(* The end of a web socket: Lobby::onBeforeDestroy_NonBlocking()           *)

\* The client closes it, or an exception of a handler ends its coroutine.
Leave(p) ==
  /\ Goto(p, "idle", "leave")
  /\ UNCHANGED <<roomVars, local, reply, workerVars, inbox, clientVars, history, crashed>>

LeaveSnapshot(p) ==
  /\ Goto(p, "leave", "notify")
  /\ SetLocal(p, [local[p] EXCEPT !.others = JoinedPeers(p)])
  /\ UNCHANGED <<roomVars, reply, workerVars, inbox, clientVars, history, crashed>>

\* A joined peer looks its consumers' producers up for the quality controllers,
\* and the others are told that it has gone.
LeaveNotify(p) ==
  /\ Goto(p, "notify", "transports")
  /\ p \in joined /\ consumers[p] # {} => \A q \in peerMap \cap joined : CanRead(q)
  /\ knows' = [q \in Peers |-> IF p \in joined /\ q \in local[p].others
                               THEN knows[q] \ {p} ELSE knows[q]]
  /\ SetLocal(p, Nothing)
  /\ UNCHANGED <<roomVars, reply, workerVars, inbox, told, history, crashed>>

\* Closing a transport closes its producers, with their consumers, and its
\* own consumers.
CloseTransport(p, d) ==
  LET own == IF d = "send" THEN {m \in wProducers : Owner[m] = p} ELSE {} IN
    /\ <<p, d>> \in wTransports
    /\ Goto(p, "transports", "transport")
    /\ wTransports' = wTransports \ {<<p, d>>}
    /\ wProducers' = wProducers \ own
    /\ wConsumers' = wConsumers \ (ConsumersOf(own)
                       \cup {c \in wConsumers : d = "recv" /\ c.peer = p})
    /\ Respond(p, ConsumersOf(own), TRUE)
    /\ SetLocal(p, [local[p] EXCEPT !.dir = d])
    /\ UNCHANGED <<roomVars, reply, clientVars, history, crashed>>

\* The cascade closes the peer's shared videos; the room keeps what it attached.
CloseVideosOf(p) ==
  closed' = IF local[p].dir = "send" THEN closed \cup {m \in videos : Owner[m] = p} ELSE closed

\* Mutated forms of TransportAnswered: the router keeps the producers ...
TransportAnsweredKept(p) ==
  /\ Answered(p)
  /\ Goto(p, "transport", "transports")
  /\ consumers' = IF local[p].dir = "send" THEN consumers
                  ELSE [consumers EXCEPT ![p] = {}]
  /\ SetLocal(p, [local[p] EXCEPT !.dir = None])
  /\ CloseVideosOf(p)
  /\ UNCHANGED <<peerMap, joined, shared, producers, router, workerVars, inbox, clientVars,
                 history, crashed>>

\* ... or forgets those of every transport.
TransportAnsweredAll(p) ==
  /\ Answered(p)
  /\ Goto(p, "transport", "transports")
  /\ router' = {}
  /\ consumers' = IF local[p].dir = "send" THEN consumers
                  ELSE [consumers EXCEPT ![p] = {}]
  /\ SetLocal(p, [local[p] EXCEPT !.dir = None])
  /\ CloseVideosOf(p)
  /\ UNCHANGED <<peerMap, joined, shared, producers, workerVars, inbox, clientVars,
                 history, crashed>>

TransportAnswered(p) ==
  /\ Answered(p)
  /\ Goto(p, "transport", "transports")
  /\ IF local[p].dir = "send"
     THEN /\ router' = {m \in router : Owner[m] # p}
          /\ UNCHANGED consumers
     ELSE /\ consumers' = [consumers EXCEPT ![p] = {}]
          /\ UNCHANGED router
  /\ SetLocal(p, [local[p] EXCEPT !.dir = None])
  /\ CloseVideosOf(p)
  /\ UNCHANGED <<peerMap, joined, shared, producers, workerVars, inbox, clientVars,
                 history, crashed>>

RemovePeer(p) ==
  /\ \A d \in Directions : <<p, d>> \notin wTransports
  /\ Goto(p, "transports", "gone")
  /\ peerMap' = peerMap \ {p}
  /\ UNCHANGED <<joined, sharing, producers, consumers, router, local, reply, workerVars,
                 inbox, clientVars, history, crashed>>

-----------------------------------------------------------------------------
(* The channel's pool thread                                               *)

PoolResponse ==
  /\ inbox # <<>> /\ Head(inbox).type = "response"
  /\ reply' = [reply EXCEPT ![Head(inbox).peer] = IF Head(inbox).ok THEN "ok" ELSE "error"]
  /\ inbox' = Tail(inbox)
  /\ UNCHANGED <<roomVars, pc, local, workerVars, clientVars, history, crashed>>

\* Mutated form of PoolProducerClose: the client is not told.
PoolProducerCloseSilently ==
  /\ inbox # <<>> /\ Head(inbox).type = "producerClose"
  /\ LET c == Head(inbox).consumer IN
       /\ consumers' = [consumers EXCEPT ![c.peer] = @ \ {c}]
       /\ missed' = IF c \in consumers[c.peer] /\ c \in told[c.peer]
                    THEN missed ELSE missed \cup {c}
  /\ inbox' = Tail(inbox)
  /\ UNCHANGED <<peerMap, joined, sharing, producers, router, pc, local, reply, workerVars,
                 told, knows, clientDid, ghosts, crashed>>

\* ConsumerController::onChannel() and the room's producerCloseSignal lambda. A
\* consumer whose lambda is not connected yet keeps its place; consumerClosed
\* may also be queued before newConsumer is.
PoolProducerClose ==
  /\ inbox # <<>> /\ Head(inbox).type = "producerClose"
  /\ LET c == Head(inbox).consumer IN
       /\ c \in consumers[c.peer] => \A q \in peerMap \cap joined : CanRead(q)
       /\ consumers' = [consumers EXCEPT ![c.peer] = @ \ {c}]
       /\ told' = IF c \in consumers[c.peer]
                  THEN [told EXCEPT ![c.peer] = @ \ {c}] ELSE told
       /\ missed' = IF c \in consumers[c.peer] /\ c \in told[c.peer]
                    THEN missed ELSE missed \cup {c}
  /\ inbox' = Tail(inbox)
  /\ UNCHANGED <<peerMap, joined, sharing, producers, router, pc, local, reply, workerVars,
                 knows, clientDid, ghosts, crashed>>

-----------------------------------------------------------------------------
\* What a peer's client may start when no handler of the peer runs, ...
Start(p) ==
  \/ Join(p) \/ Leave(p)
  \/ \E m \in Producers :
       \/ Produce(p, m) \/ ProduceNull(p, m)
       \/ CloseProducer(p, m) \/ CloseVideo(p, m) \/ DetachClosed(p, m) \/ CloseNull(p, m)

\* ... what its handler then goes on to do, ...
Continue(p) ==
  \/ JoinSnapshot(p) \/ JoinAccept(p) \/ Visit(p) \/ JoinSharing(p) \/ JoinDone(p)
  \/ CanConsume(p) \/ ConsumeDone(p) \/ ConsumeNull(p) \/ Consume(p)
  \/ ConsumeAnswered(p) \/ Emplace(p) \/ Tell(p)
  \/ ProduceAnswered(p) \/ Store(p) \/ Announce(p)
  \/ Replace(p) \/ ReplaceAnswered(p) \/ Attach(p)
  \/ CloseAnswered(p) \/ Erase(p) \/ VideoClosed(p)
  \/ LeaveSnapshot(p) \/ LeaveNotify(p)
  \/ \E d \in Directions : CloseTransport(p, d)
  \/ TransportAnswered(p) \/ RemovePeer(p)

\* ... and what the pool thread does.
Pool == PoolResponse \/ PoolProducerClose

Next == crashed = None /\ ((\E p \in Peers : Start(p) \/ Continue(p)) \/ Pool)

\* Handlers and the pool thread are scheduled; clients owe nothing.
Fairness ==
  /\ \A p \in Peers : WF_vars(crashed = None /\ Continue(p))
  /\ WF_vars(crashed = None /\ Pool)

Spec     == Init /\ [][Next]_vars
FairSpec == Spec /\ Fairness
-----------------------------------------------------------------------------
(* What the room promises, once no handler runs and nothing is left for    *)
(* the pool thread to deliver.                                             *)

Present == peerMap \cap joined

Quiet ==
  /\ crashed = None /\ inbox = <<>>
  /\ \A p \in Peers : pc[p] \in {"idle", "gone"}

\* Every joined peer consumes every producer of the others and the shared video,
\* whichever of its join and their produce came first: onHandleJoin marks the peer
\* before it reads the producers, onHandleDefaultProduce stores the producer, and
\* onHandleSharingProduce attaches it, before it reads the peers.
EveryoneConsumes ==
  Quiet => \A p, q \in Present :
    \A m \in producers[q] \cup {v \in {shared} \ closed : v # None /\ Owner[v] = q} :
      p # q => \E c \in consumers[p] : c.prod = m

\* At most one video is shared in the worker, the one the room has attached,
\* though a video is created before the one it replaces is closed, and either may
\* fail.
OneVideoShared ==
  Quiet => videos \cap wProducers = {shared} \ (closed \cup {None})

\* The controllers agree with the worker: the router's producers are the
\* worker's, and the consumers the room holds are the worker's, but for those
\* whose closing was announced before the room listened (Room::createConsumer).
MirrorsWorker ==
  Quiet => /\ router = wProducers
           /\ wConsumers = (UNION {consumers[p] : p \in peerMap}) \ missed

\* A client is left with no consumer of a closed producer, unless its
\* consumerClosed was dropped or overtook newConsumer while the consumer was
\* being created.
NoStaleConsumer ==
  Quiet => \A p \in Present : \A c \in told[p] :
    c.prod \in wProducers \/ c \in missed

\* Each client knows every other joined peer, and no other peer but one that was
\* already leaving when the response to its join listed it: that peer has told
\* those it found joined before (Room::onPeerClose), and is in _peerMap still.
PeersKnowEachOther ==
  Quiet => \A p \in Present :
    /\ Present \ {p} \subseteq knows[p]
    /\ \A q \in knows[p] \ Present : <<p, q>> \in ghosts

\* A null pointer is used only over a producer that is gone or was never there:
\* one that someone else closed while the peer consumed it, be it the peer's own
\* video, or one the peer closes that is not, or not any more, its own. Who creates
\* a producer and closes it once, unless another does so before, is safe
\* (Room::createConsumer, onHandleProduce, onHandleCloseProducer).
NullNeedsClosedProducer ==
  crashed # None =>
    LET job == local[crashed].job
        m   == IF job # None THEN job.prod ELSE local[crashed].prod
    IN  IF job # None
        THEN m \notin wProducers /\ (Owner[m] # crashed \/ m \in closed \ ended)
        ELSE m \notin wProducers \/ Owner[m] # crashed

\* A handler's locks never outlive it: neither a map's shared lock nor the mutex of
\* the shared video stays held by a peer that is idle, leaving or gone, even when an
\* exception ended its handler; nobody waits for one while it holds the other.
LocksAreReleased ==
  \A p \in Peers :
    /\ local[p].reading # None =>
         /\ pc[p] \in {"consume", "request", "consuming", "emplace", "tell"}
         /\ local[p].reading \notin local[p].visit \cup {p}
         /\ ~local[p].holding
    /\ local[p].holding =>
         pc[p] \in {"consume", "request", "consuming", "emplace", "tell",
                   "replacing", "detaching"}

\* A map's writer waits for a reader that waits for the pool thread, which waits
\* behind the writer.
LockCycle ==
  /\ WriterPreferring
  /\ \E p, q \in Peers :
       /\ local[p].reading = q /\ pc[p] = "consuming" /\ reply[p] = "none"
       /\ pc[q] \in {"store", "erase"}

\* While a handler runs, some thread can go on, but for that cycle, which only the
\* lock's policy decides.
HaltsOnlyInLockCycle ==
  \/ \A p \in Peers : pc[p] \in {"idle", "gone"}
  \/ crashed # None \/ LockCycle
  \/ ENABLED (Pool \/ \E p \in Peers : Continue(p))

\* A handler that has started ends, when readers are not kept out by a writer: no
\* peer waits for ever for a lock, for the pool thread or for the worker.
HandlersEnd ==
  \A p \in Peers :
    pc[p] # "idle" ~> pc[p] \in {"idle", "gone"} \/ crashed # None
=============================================================================
