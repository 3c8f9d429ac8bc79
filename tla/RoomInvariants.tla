--------------------------- MODULE RoomInvariants ---------------------------
(***************************************************************************)
(* The inductive invariant of Room, in the three steps it is proved in:    *)
(* BaseInv, ProducerInv, which is about one peer's handler and one         *)
(* producer at a time, and ConsumerInv, which relates two peers.  Then what *)
(* a step does with a handler's variables, as the proofs say it.           *)
(***************************************************************************)
EXTENDS Room

Waiting == {"consuming", "producing", "replacing", "closing", "detaching", "transport"}

\* Message i of the inbox answers x.
Answers(i, x) ==
  i \in DOMAIN inbox /\ inbox[i].type = "response" /\ inbox[i].peer = x

Outstanding(x) == \E i \in DOMAIN inbox : Answers(i, x)
Single(x) == \A i, j \in DOMAIN inbox : Answers(i, x) /\ Answers(j, x) => i = j

\* A handler that waits for the worker has at most one answer coming or come, any
\* other has none.
AnswerInv ==
  \A x \in Peers :
    /\ pc[x] \notin Waiting => reply[x] = "none"
    /\ pc[x] \notin Waiting \/ reply[x] # "none" => ~Outstanding(x)
    /\ Single(x)

Creating == {"request", "consuming", "emplace", "tell"}
Creates  == {"producing", "store", "share", "replacing", "announce"}

\* A handler has at hand what its next step takes.
HandInv ==
  \A p \in Peers :
    /\ pc[p] \in Creating => local[p].job # None
    /\ pc[p] \in Creates \cup {"closing", "erase"} => local[p].prod # None
    /\ pc[p] \in {"share", "replacing"} => local[p].prod \in videos
    /\ pc[p] \in Creates => local[p].prod \in made
    /\ pc[p] = "transport" => local[p].dir \in Directions
    /\ producers[p] \subseteq made

\* x will be told that its request is refused; c, that its producer is closed.
Refusing(x) == \E i \in DOMAIN inbox : Answers(i, x) /\ ~inbox[i].ok
Closing(c)  ==
  \E i \in DOMAIN inbox : inbox[i].type = "producerClose" /\ inbox[i].consumer = c

BaseInv == TypeOK /\ HandInv /\ AnswerInv

-----------------------------------------------------------------------------
(* Locks, tasks and producers.                                             *)

Consuming == {"consume", "request", "consuming", "emplace", "tell"}
Leaving   == {"leave", "notify", "transports", "transport", "gone"}

\* The mutex has one holder, and a lock's holder stands where it uses it.
LockInv ==
  /\ \A p \in Peers : p \notin local[p].visit
  /\ \A p, q \in Peers : local[p].holding /\ local[q].holding => p = q
  /\ \A p \in Peers : pc[p] \in {"replacing", "detaching"} => local[p].holding
  /\ LocksAreReleased

\* p is to make x a consumer of m, now or next.
Task(p, x, m) ==
  \/ <<x, m>> \in local[p].todo
  \/ local[p].job # None /\ local[p].job.peer = x /\ local[p].job.prod = m

\* createConsumer has three callers: what was produced is announced to the others,
\* a joining peer walks another's producers, or takes the shared video.
Announcing(p) ==
  /\ local[p].prod # None /\ local[p].reading = None /\ ~local[p].holding
  /\ local[p].others = {}
  /\ \A x \in Peers, m \in Producers : Task(p, x, m) => x # p /\ m = local[p].prod

Walking(p) ==
  /\ local[p].prod = None /\ local[p].reading # None /\ ~local[p].holding
  /\ \A x \in Peers, m \in Producers :
       Task(p, x, m) =>
         x = p /\ Owner[m] = local[p].reading /\ m \notin videos /\ m \in made

Sharing(p) ==
  /\ local[p].prod = None /\ local[p].reading = None /\ local[p].holding
  /\ local[p].visit = {}
  /\ shared # None
  /\ \A x \in Peers, m \in Producers : Task(p, x, m) => x = p /\ m = shared

Joining(p) ==
  \/ pc[p] \in {"caps", "accept", "visit", "newPeer"}
  \/ pc[p] \in Consuming /\ local[p].prod = None

Tasked(p) ==
  /\ pc[p] \in Creating <=> local[p].job # None
  /\ local[p].job # None => /\ local[p].job.maker = p
                            /\ <<local[p].job.peer, local[p].job.prod>> \notin local[p].todo
  /\ pc[p] \notin Consuming => local[p].todo = {}
  /\ pc[p] \in Consuming => Announcing(p) \/ Walking(p) \/ Sharing(p)

TaskInv == \A p \in Peers : Tasked(p)

Staged(p) ==
  /\ p \in peerMap <=> pc[p] # "gone"
  /\ Joining(p) => p \in joined
  /\ Joining(p) \/ p \notin joined => \A m \in made : Owner[m] # p
  /\ p \notin joined => pc[p] \in {"idle"} \cup Leaving
  /\ local[p].others \subseteq joined /\ p \notin local[p].others
  /\ local[p].visit \subseteq joined
  /\ local[p].visit # {} => Joining(p)
  /\ local[p].others # {} => Joining(p) \/ pc[p] = "notify"
  /\ \A d \in Directions :
       <<p, d>> \notin wTransports => pc[p] \in {"transports", "transport", "gone"}
  /\ pc[p] = "transport" => <<p, local[p].dir>> \notin wTransports
  /\ pc[p] = "gone" => \A d \in Directions : <<p, d>> \notin wTransports

StageInv == \A p \in Peers : Staged(p)

OwnInv ==
  \A p \in Peers :
    /\ local[p].prod # None /\ pc[p] # "idle" =>
         local[p].prod \in made /\ Owner[local[p].prod] = p
    /\ local[p].prod # None /\ crashed = None =>
         pc[p] \in Creates \cup {"closing", "erase"} \cup Consuming
    /\ pc[p] \in {"producing", "store", "share", "replacing"} =>
         /\ local[p].prod \in wProducers
         /\ local[p].prod # shared /\ local[p].prod \notin producers[p]
    /\ pc[p] \in {"store", "share", "replacing"} => local[p].prod \in router
    /\ pc[p] = "store" => local[p].prod \notin videos
    /\ pc[p] \in {"closing", "erase"} => local[p].prod \notin videos \cup wProducers
    /\ pc[p] = "erase" => local[p].prod \notin router
    /\ \A m \in producers[p] : m \notin videos /\ Owner[m] = p

Refused(x) == reply[x] = "error" \/ Refusing(x)

ClosesSend(p) == pc[p] = "transport" /\ local[p].dir = "send"

Making == {"producing", "store", "share", "replacing"}

\* A producer of the worker is open, has its transport, and is someone's: in the
\* router and the map of its owner, shared, or about to be.
WorkInv ==
  \A m \in wProducers :
    /\ m \in made /\ m \notin ended /\ m \notin closed
    /\ <<Owner[m], "send">> \in wTransports
    /\ m \in router \/ (pc[Owner[m]] = "producing" /\ local[Owner[m]].prod = m)
    /\ \/ m \in producers[Owner[m]]
       \/ m = shared
       \/ pc[Owner[m]] \in Making /\ local[Owner[m]].prod = m
       \/ pc[Owner[m]] \in Leaving

\* What the maps hold that the worker no longer has is being taken out of them.
StoreInv ==
  \A m \in Producers :
    m \in producers[Owner[m]] /\ m \notin wProducers =>
      \/ pc[Owner[m]] \in {"closing", "erase"} /\ local[Owner[m]].prod = m
      \/ pc[Owner[m]] \in Leaving

Replacing == \E x \in Peers : pc[x] \in {"replacing", "detaching"} /\ ~Refused(x)

RouteInv ==
  \A m \in Producers :
    m \in router /\ m \notin wProducers =>
      \/ pc[Owner[m]] = "closing" /\ local[Owner[m]].prod = m
      \/ m = shared /\ Replacing
      \/ ClosesSend(Owner[m])

\* The shared video runs, or its owner's transport is being closed; who replaces
\* or detaches it has closed it.
SharedInv ==
  /\ VideoShared => shared \in wProducers \/ ClosesSend(Owner[shared])
  /\ \A p \in Peers : pc[p] \in {"replacing", "detaching"} =>
       shared # None /\ shared \in closed

\* What a peer announces it has not closed itself; what anyone is to make a consumer
\* of has been created.
Created(m)   == ~(pc[Owner[m]] = "producing" /\ local[Owner[m]].prod = m)
TasksCreated == \A p, x \in Peers, m \in Producers : Task(p, x, m) => Created(m)

NullInv ==
  /\ \A p \in Peers :
       pc[p] = "announce" \/ (pc[p] \in Consuming /\ local[p].prod # None) =>
         local[p].prod \notin ended /\ (local[p].prod \in router \/ local[p].prod \in closed)
  /\ TasksCreated
  /\ NullNeedsClosedProducer

ProducerInv ==
  /\ LockInv /\ TaskInv /\ StageInv /\ OwnInv
  /\ WorkInv /\ StoreInv /\ RouteInv /\ SharedInv /\ NullInv

-----------------------------------------------------------------------------
(* Who knows whom, who consumes what.                                      *)

\* A joined peer knows another, or will be told of it: in the answer to its join, by
\* the other's join, or never, as one of them leaves.
Introduces(q, p) == pc[q] = "caps" \/ (Joining(q) /\ p \in local[q].others)

MeetInv ==
  \A p, q \in joined : p # q =>
    \/ q \in knows[p]
    \/ pc[p] = "caps" \/ (pc[p] = "accept" /\ q \in local[p].others)
    \/ Introduces(q, p)
    \/ pc[p] \in Leaving \/ pc[q] \in Leaving

KnowInv ==
  \A p \in Peers :
    /\ knows[p] \subseteq joined \ {p}
    /\ knows[p] # {} => p \in joined

\* Who is past its farewell is known to those only who were told of it since.
FarewellInv ==
  \A p \in Peers : \A q \in knows[p] :
    PastFarewell(q, p) /\ pc[p] # "gone" => <<p, q>> \in ghosts

\* x is still to make p a consumer of m.
Pending(x, p, m) ==
  \/ <<p, m>> \in local[x].todo
  \/ /\ pc[x] # "tell" /\ local[x].job # None
     /\ local[x].job.peer = p /\ local[x].job.prod = m

BeforeSharing(p) == pc[p] \in {"accept", "visit"} \/ local[p].reading # None

\* The join of p will come to m.
ToWalk(p, m) ==
  \/ pc[p] = "caps"
  \/ Owner[m] \in local[p].visit /\ m \notin videos
  \/ m \in videos /\ BeforeSharing(p)

Live(m) == m \in producers[Owner[m]] \/ (m = shared /\ m \notin closed)

Served(p, m) ==
  \/ \E c \in consumers[p] : c.prod = m
  \/ Pending(p, p, m) \/ Pending(Owner[m], p, m)
  \/ pc[Owner[m]] \in {"announce", "closing", "erase"} /\ local[Owner[m]].prod = m
  \/ ToWalk(p, m)
  \/ pc[p] \in Leaving \/ pc[Owner[m]] \in Leaving

ServeInv ==
  \A p \in joined, m \in Producers : p # Owner[m] /\ Live(m) => Served(p, m)

WalkedInv == \A p \in Peers : pc[p] = "newPeer" => local[p].visit = {}

\* A consumer that no one has been made yet, but may be.
ToCome(c) ==
  LET k == c.maker IN
  \/ c.prod \notin made
  \/ Pending(k, c.peer, c.prod)
  \/ k # c.peer /\ pc[k] \in Creates /\ local[k].prod = c.prod
  \/ k = c.peer /\ \/ k \notin joined \/ pc[k] = "caps"
                   \/ c.prod \notin videos /\ Owner[c.prod] \in local[k].visit
                   \/ c.prod \in videos /\ BeforeSharing(k)

Used(c) == c \in consumers[c.peer] \/ c \in told[c.peer]

FreshInv == \A c \in Consumer : ToCome(c) => ~Used(c)

PlaceInv ==
  \A p \in Peers :
    /\ \A c \in consumers[p] \cup told[p] : c.peer = p
    /\ pc[p] = "tell" => local[p].job \notin told[local[p].job.peer]

Lost(c) == <<c.peer, "recv">> \notin wTransports

\* The producer of a consumer whose closing was announced is closed.
ClosedInv ==
  \A c \in Consumer :
    Closing(c) \/ c \in missed => c.prod \in made /\ c.prod \notin wProducers

\* The worker's consumers have their transport and producer, and are, or are about to
\* be, the room's.
WorkerInv ==
  \A c \in wConsumers :
    /\ ~Lost(c) /\ c.prod \in wProducers
    /\ \/ c \in consumers[c.peer]
       \/ pc[c.maker] \in {"consuming", "emplace"} /\ local[c.maker].job = c

\* Nothing the room holds, or a client was told of, is closed without a notice that
\* is on its way or was missed.
HeldInv ==
  \A c \in Consumer :
    /\ c \in consumers[c.peer] => c \in wConsumers \/ Closing(c) \/ c \in missed \/ Lost(c)
    /\ c \in told[c.peer] => c \in consumers[c.peer] \/ c \in missed \/ Lost(c)

\* So it is with the consumer a handler is creating, unless the worker refused it.
JobInv ==
  \A p \in Peers : LET c == local[p].job IN
    /\ pc[p] = "consuming" /\ Refused(p) => Lost(c) \/ c.prod \notin wProducers
    /\ (pc[p] = "consuming" /\ ~Refused(p)) \/ pc[p] = "emplace" =>
         c \in wConsumers \/ Closing(c) \/ c \in missed \/ Lost(c)
    /\ pc[p] = "tell" => c \in consumers[c.peer] \/ c \in missed \/ Lost(c)

ConsumerInv ==
  /\ MeetInv /\ KnowInv /\ FarewellInv
  /\ ServeInv /\ WalkedInv
  /\ FreshInv /\ PlaceInv
  /\ ClosedInv /\ WorkerInv /\ HeldInv /\ JobInv

RoomInv == BaseInv /\ ProducerInv /\ ConsumerInv

-----------------------------------------------------------------------------
(* What a step does.                                                       *)

\* What a step does with its handler's variables, and with no other's.
LocalIs(p, others, visit, reading, todo, job, prod, dir, holding) ==
  /\ local' \in [Peers -> Local]
  /\ local'[p].others = others
  /\ local'[p].visit = visit
  /\ local'[p].reading = reading
  /\ local'[p].todo = todo
  /\ local'[p].job = job
  /\ local'[p].prod = prod
  /\ local'[p].dir = dir
  /\ local'[p].holding = holding
  /\ \A x \in Peers : x # p => local'[x] = local[x]

\* Where a step takes its handler, and no other.
At(p, from, to) ==
  pc[p] = from /\ pc'[p] = to /\ \A x \in Peers : x # p => pc'[x] = pc[x]

\* A walk begins with the producers of q; a task is dropped, or taken.
Visits(p, q) ==
  /\ CanRead(q)
  /\ At(p, "visit", "consume")
  /\ LocalIs(p, local[p].others, local[p].visit \ {q}, q, {p} \X producers[q],
             local[p].job, local[p].prod, local[p].dir, local[p].holding)

Skip(p, w) ==
  /\ ~(w[2] \in router /\ pc[w[1]] # "caps")
  /\ pc[p] = "consume" /\ pc' = pc
  /\ LocalIs(p, local[p].others, local[p].visit, local[p].reading, local[p].todo \ {w},
             local[p].job, local[p].prod, local[p].dir, local[p].holding)

Take(p, w) ==
  /\ w[2] \in router /\ pc[w[1]] # "caps"
  /\ At(p, "consume", "request")
  /\ LocalIs(p, local[p].others, local[p].visit, local[p].reading, local[p].todo \ {w},
             [peer |-> w[1], prod |-> w[2], maker |-> p], local[p].prod, local[p].dir,
             local[p].holding)
=============================================================================
