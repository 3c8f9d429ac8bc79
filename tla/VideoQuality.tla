---------------------------- MODULE VideoQuality ----------------------------
(***************************************************************************)
(* What a producing client is told of the quality its consumers want       *)
(* (Room::updateVideoProducerQuality and removeVideoProducerQuality in     *)
(* sfu/src/rooms/room.cpp, video_producer_quality_controller.cpp), for one *)
(* video producer.  Each consumer belongs to another peer, whose handlers  *)
(* run one after the other; the producer's owner may close it, and the     *)
(* channel's pool thread then tells the consumers.                         *)
(*                                                                         *)
(* The consumers have been created, paused, and announced to their clients *)
(* with newConsumer.  A handler keeps no shared_ptr to the consumer's      *)
(* controller, but a reference into its peer's consumerControllers map.    *)
(***************************************************************************)
EXTENDS Integers, Sequences, FiniteSets, SequencesExt

CONSTANTS
    Consumers,   \* the consumers, which also name their peers' threads
    Pool,        \* the channel's pool thread
    Closer,      \* the thread of the producer's owner
    Layers,      \* spatial layers
    Calls,       \* bound: how many requests about a consumer its client makes
    None         \* no object, no message

ASSUME VideoQualityAssumption ==
    /\ Layers \subseteq Nat /\ Layers # {} /\ IsFiniteSet(Layers)
    /\ Calls \in Nat /\ IsFiniteSet(Consumers)
    /\ {Pool, Closer, None} \cap Consumers = {} /\ Pool # Closer

VARIABLES
    open,      \* the worker has the producer, and its consumers
    listed,    \* the producer is in its owner's producerControllers
    entry,     \* the consumer's entry in its peer's consumerControllers
    status,    \* [paused, layer] of each ConsumerController
    quality,   \* the producer's VideoProducerQualityController, named by its maker
    tables,    \* the m_mapConsumedStatusInfo of each that was made
    pc, local, \* each thread's place and local variables
    reply,     \* the answer to its request to the worker
    inbox,     \* the messages waiting for the pool thread
    told,      \* the last videoProducerQualityChanged queued for the producing client
    calls,     \* how many requests each client has made
    crashed,   \* the consumer whose dangling or null controller was used
    moved,     \* history: threads whose table another changed as they summed it up
    stale,     \* history: told was summed up from a table that had moved, or an orphan
    orphaned,  \* history: consumers whose status went to a table that was not kept
    met        \* history: consumers erased while a handler of their peer used them

roomVars == <<listed, entry, quality, tables, told>>
history  == <<moved, stale, orphaned, met>>
vars == <<open, roomVars, status, pc, local, reply, inbox, calls, crashed, history>>

Threads == Consumers \cup {Pool}

Nothing == [op |-> "none", of |-> None, layer |-> 0, obj |-> None, maxQ |-> -1, paused |-> TRUE]

Goto(t, from, to) == pc[t] = from /\ pc' = [pc EXCEPT ![t] = to]

Highest(s) == CHOOSE x \in s : \A y \in s : y <= x

GetMaxDesiredQ(table) ==
    Highest({-1} \cup {table[c].layer : c \in {d \in DOMAIN table : ~table[d].paused}})

IsAllConsumerPaused(table) == \A c \in DOMAIN table : table[c].paused

-----------------------------------------------------------------------------
(* A request of the consuming client: pauseConsumer, resumeConsumer,       *)
(* setConsumerPreferredLayers, or its response to newConsumer, which       *)
(* resumes the consumer.                                                   *)

\* Mutated form of Request: nothing is asked before operator[].
RequestBlindly(c) ==
    /\ Goto(c, "idle", "found")
    /\ calls[c] < Calls
    /\ calls' = [calls EXCEPT ![c] = @ + 1]
    /\ \E op \in IF calls[c] = 0 THEN {"response"} ELSE {"pause", "resume", "layers"},
          l \in Layers :
         /\ op # "layers" => l = Highest(Layers)
         /\ local' = [local EXCEPT ![c] = [Nothing EXCEPT !.op = op, !.of = c, !.layer = l]]
    /\ UNCHANGED <<open, roomVars, status, reply, inbox, crashed, history>>

\* contains() finds the consumer, be its entry null.
Request(c) ==
    /\ Goto(c, "idle", "found")
    /\ calls[c] < Calls /\ entry[c] # "erased"
    /\ calls' = [calls EXCEPT ![c] = @ + 1]
    /\ \E op \in IF calls[c] = 0 THEN {"response"} ELSE {"pause", "resume", "layers"},
          l \in Layers :
         /\ op # "layers" => l = Highest(Layers)
         /\ local' = [local EXCEPT ![c] = [Nothing EXCEPT !.op = op, !.of = c, !.layer = l]]
    /\ UNCHANGED <<open, roomVars, status, reply, inbox, crashed, history>>

\* operator[]: what was erased since comes back as null, which only the response
\* is prepared for.  The request to the worker follows, which refuses when the
\* consumer is gone.
Subscript(c) ==
    /\ pc[c] = "found"
    /\ IF entry[c] = "held"
       THEN /\ Goto(c, "found", "asked")
            /\ inbox' = Append(inbox, [type |-> "response", of |-> c, ok |-> open])
            /\ UNCHANGED <<entry, local, crashed>>
       ELSE /\ entry' = [entry EXCEPT ![c] = "null"]
            /\ IF local[c].op = "response"
               THEN /\ Goto(c, "found", "idle")
                    /\ local' = [local EXCEPT ![c] = Nothing]
                    /\ UNCHANGED crashed
               ELSE crashed' = c /\ UNCHANGED <<pc, local>>
            /\ UNCHANGED inbox
    /\ UNCHANGED <<open, listed, status, quality, tables, reply, told, calls, history>>

Answered(c) == reply[c] # "none" /\ reply' = [reply EXCEPT ![c] = "none"]

\* A refusal throws, and the peer goes.
Set(c) ==
    /\ Answered(c)
    /\ IF reply[c] = "error"
       THEN Goto(c, "asked", "leave") /\ UNCHANGED status
       ELSE /\ Goto(c, "asked", "find")
            /\ status' = [status EXCEPT ![c] =
                 CASE local[c].op = "pause" -> [@ EXCEPT !.paused = TRUE]
                   [] local[c].op = "layers" -> [@ EXCEPT !.layer = local[c].layer]
                   [] OTHER -> [@ EXCEPT !.paused = FALSE]]
    /\ UNCHANGED <<open, roomVars, local, inbox, calls, crashed, history>>

\* The reference dangles once the pool thread has erased the entry.
Dangles(c) ==
    /\ pc[c] \in {"asked", "find", "make", "add"} /\ local[c].op # "leave"
    /\ pc[c] = "asked" => reply[c] = "ok"
    /\ entry[c] # "held"
    /\ crashed' = c
    /\ UNCHANGED <<open, roomVars, status, pc, local, reply, inbox, calls, history>>

-----------------------------------------------------------------------------
(* updateVideoProducerQuality, and removeVideoProducerQuality.             *)

Removes(t) == t = Pool \/ local[t].op = "leave"

\* A thread that is leaving takes its consumers with it.
End(t) == IF local[t].op = "leave" THEN "closing" ELSE "idle"

\* The producer is looked up, and then its quality controller.
Find(t) ==
    /\ Goto(t, "find", IF ~listed \/ (quality = None /\ Removes(t)) THEN End(t)
                       ELSE IF quality = None THEN "make"
                       ELSE IF Removes(t) THEN "remove" ELSE "add")
    /\ local' = [local EXCEPT ![t] = IF pc'[t] = "idle" THEN Nothing ELSE [@ EXCEPT !.obj = quality]]
    /\ UNCHANGED <<open, roomVars, status, reply, inbox, calls, crashed, history>>

\* emplace() keeps the controller that another thread has put there meanwhile;
\* this thread goes on with its own.
Make(t) ==
    /\ Goto(t, "make", "add")
    /\ quality' = IF quality = None THEN t ELSE quality
    /\ local' = [local EXCEPT ![t].obj = t]
    /\ UNCHANGED <<open, listed, entry, tables, told, status, reply, inbox, calls, crashed,
                   history>>

\* Those that have begun to sum up the table that t is changing.
Moving(t) ==
    moved' = (moved \ {t}) \cup
             {u \in Threads \ {t} : pc[u] \in {"paused", "send"} /\ local[u].obj = local[t].obj}

AddOrUpdateConsumer(t) ==
    LET c == local[t].of
        obj == local[t].obj
    IN  /\ Goto(t, "add", "max")
        /\ tables' = [tables EXCEPT ![obj] =
                        [d \in DOMAIN @ \cup {c} |-> IF d = c THEN status[c] ELSE @[d]]]
        /\ Moving(t)
        /\ orphaned' = IF obj = quality THEN orphaned \ {c} ELSE orphaned \cup {c}
        /\ UNCHANGED <<open, listed, entry, quality, told, status, local, reply, inbox, calls,
                       crashed, stale, met>>

\* Mutated form of RemoveConsumer: the consumer stays in the table.
RemoveNoConsumer(t) ==
    /\ Goto(t, "remove", "max")
    /\ Moving(t)
    /\ orphaned' = orphaned \ {local[t].of}
    /\ UNCHANGED <<open, roomVars, status, local, reply, inbox, calls, crashed, stale, met>>

RemoveConsumer(t) ==
    LET c == local[t].of
        obj == local[t].obj
    IN  /\ Goto(t, "remove", "max")
        /\ tables' = [tables EXCEPT ![obj] = [d \in DOMAIN @ \ {c} |-> @[d]]]
        /\ Moving(t)
        /\ orphaned' = orphaned \ {c}
        /\ UNCHANGED <<open, listed, entry, quality, told, status, local, reply, inbox, calls,
                       crashed, stale, met>>

\* The table is read twice, each time under its lock.
ReadMax(t) ==
    /\ Goto(t, "max", "paused")
    /\ local' = [local EXCEPT ![t].maxQ = GetMaxDesiredQ(tables[local[t].obj])]
    /\ UNCHANGED <<open, roomVars, status, reply, inbox, calls, crashed, history>>

ReadPaused(t) ==
    /\ Goto(t, "paused", "send")
    /\ local' = [local EXCEPT ![t].paused = IsAllConsumerPaused(tables[local[t].obj])]
    /\ UNCHANGED <<open, roomVars, status, reply, inbox, calls, crashed, history>>

\* videoProducerQualityChanged is queued for the producing client.
Send(t) ==
    /\ Goto(t, "send", End(t))
    /\ told' = [desiredQ |-> local[t].maxQ, paused |-> local[t].paused]
    /\ stale' = (t \in moved \/ local[t].obj # quality)
    /\ moved' = moved \ {t}
    /\ local' = [local EXCEPT ![t] = IF pc'[t] = "idle" THEN Nothing ELSE @]
    /\ UNCHANGED <<open, listed, entry, quality, tables, status, reply, inbox, calls,
                   crashed, orphaned, met>>

-----------------------------------------------------------------------------
(* A consuming peer leaves: Room::onPeerClose.                             *)

Leave(c) ==
    /\ Goto(c, "idle", "leave")
    /\ UNCHANGED <<open, roomVars, status, local, reply, inbox, calls, crashed, history>>

\* The walk over its consumers uses a null entry, too.
Walk(c) ==
    /\ pc[c] = "leave"
    /\ local' = [local EXCEPT ![c] = [Nothing EXCEPT !.op = "leave", !.of = c]]
    /\ IF entry[c] = "null" THEN UNCHANGED pc /\ crashed' = c
       ELSE /\ Goto(c, "leave", IF entry[c] = "held" THEN "find" ELSE "closing")
            /\ UNCHANGED crashed
    /\ UNCHANGED <<open, roomVars, status, reply, inbox, calls, history>>

\* Its transports are closed, and its consumers with them.
Gone(c) ==
    /\ Goto(c, "closing", "gone")
    /\ entry' = [entry EXCEPT ![c] = "erased"]
    /\ local' = [local EXCEPT ![c] = Nothing]
    /\ UNCHANGED <<open, listed, quality, tables, told, status, reply, inbox, calls, crashed,
                   history>>

-----------------------------------------------------------------------------
(* The producer is closed: Room::onHandleCloseProducer.                    *)

\* The worker notifies the consumers before it answers.
CloseProducer ==
    /\ open
    /\ open' = FALSE
    /\ \E s \in SetToSeqs({c \in Consumers : pc[c] # "gone"}) :
         inbox' = inbox \o [i \in DOMAIN s |-> [type |-> "producerClose", of |-> s[i], ok |-> TRUE]]
                        \o <<[type |-> "response", of |-> Closer, ok |-> TRUE]>>
    /\ UNCHANGED <<roomVars, status, pc, local, reply, calls, crashed, history>>

Unlist ==
    /\ Answered(Closer)
    /\ listed' = FALSE
    /\ UNCHANGED <<open, entry, quality, tables, told, status, pc, local, inbox, calls, crashed,
                   history>>

PoolResponse ==
    /\ pc[Pool] = "idle" /\ inbox # <<>> /\ Head(inbox).type = "response"
    /\ reply' = [reply EXCEPT ![Head(inbox).of] = IF Head(inbox).ok THEN "ok" ELSE "error"]
    /\ inbox' = Tail(inbox)
    /\ UNCHANGED <<open, roomVars, status, pc, local, calls, crashed, history>>

Using(c) ==
    /\ pc[c] \in {"found", "asked", "find", "make", "add"} /\ local[c].op # "leave"

\* The consumer leaves its peer's map, whose lock a walk holds, and then the table.
PoolProducerClose ==
    LET c == Head(inbox).of
        quit == pc[c] = "gone"
    IN  /\ pc[Pool] = "idle" /\ inbox # <<>> /\ Head(inbox).type = "producerClose"
        /\ local[c].op = "leave" => pc[c] \in {"closing", "gone"}
        /\ inbox' = Tail(inbox)
        /\ entry' = [entry EXCEPT ![c] = "erased"]
        /\ met' = IF Using(c) THEN met \cup {c} ELSE met
        /\ local' = [local EXCEPT ![Pool].of = IF quit THEN None ELSE c]
        /\ pc' = [pc EXCEPT ![Pool] = IF quit THEN "idle" ELSE "find"]
        /\ UNCHANGED <<open, listed, quality, tables, told, status, reply, calls, crashed,
                       moved, stale, orphaned>>

-----------------------------------------------------------------------------
Init ==
    /\ open = TRUE /\ listed = TRUE
    /\ entry = [c \in Consumers |-> "held"]
    /\ status = [c \in Consumers |-> [paused |-> TRUE, layer |-> Highest(Layers)]]
    /\ quality = None
    /\ tables = [t \in Consumers |-> <<>>]
    /\ pc = [t \in Threads |-> "idle"]
    /\ local = [t \in Threads |-> Nothing]
    /\ reply = [t \in Consumers \cup {Closer} |-> "none"]
    /\ inbox = <<>>
    /\ told = None
    /\ calls = [c \in Consumers |-> 0]
    /\ crashed = None
    /\ moved = {} /\ stale = FALSE /\ orphaned = {} /\ met = {}

Updates(t) ==
    \/ Find(t) \/ Make(t) \/ AddOrUpdateConsumer(t) \/ RemoveConsumer(t) \/ ReadMax(t) \/ ReadPaused(t) \/ Send(t)

Handler(c) ==
    \/ Request(c) \/ Subscript(c) \/ Set(c) \/ Dangles(c)
    \/ Leave(c) \/ Walk(c) \/ Gone(c)

Next ==
    /\ crashed = None
    /\ \/ \E t \in Threads : Updates(t)
       \/ \E c \in Consumers : Handler(c)
       \/ CloseProducer \/ Unlist \/ PoolResponse \/ PoolProducerClose

Spec == Init /\ [][Next]_vars

-----------------------------------------------------------------------------
Quiet ==
    /\ crashed = None /\ inbox = <<>> /\ reply[Closer] = "none"
    /\ \A t \in Threads : pc[t] \in {"idle", "gone"}

\* What the consumers of the producer want now, those not resumed yet included.
Wanted ==
    LET here == [c \in {d \in Consumers : entry[d] = "held"} |-> status[c]]
    IN  [desiredQ |-> GetMaxDesiredQ(here), paused |-> IsAllConsumerPaused(here)]

\* Once all is quiet the last videoProducerQualityChanged is what the consumers of
\* the open producer want.  Not so when the table changed between the reading and
\* the sending of that message, and while a status is in a controller that lost the
\* race to be the first.
LastWordIsTrue ==
    Quiet /\ listed /\ told # None /\ ~stale /\ orphaned = {} => told = Wanted

\* A dangling or null consumer is used only by a handler that was at work on it
\* when its producer was closed, or after such a one: the next request, or the
\* leaving, of a peer whose map has the null pointer it left.
CrashNeedsOverlap == crashed # None => crashed \in met
=============================================================================
