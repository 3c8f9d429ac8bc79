----------------------------- MODULE Controllers -----------------------------
(***************************************************************************)
(* The life cycle of the controllers in one application process: a worker  *)
(* controller owns WebRTC servers and routers, a router owns transports, a *)
(* transport owns producers (src/controller/*_controller.cpp).  Each       *)
(* controller stands for an entity in the mediasoup worker; a call is a    *)
(* request, the worker's handling of it, its answer, and what the          *)
(* controller then does, and other threads come in between.  Closing a     *)
(* controller cascades to those it owns, one after the other.              *)
(*                                                                         *)
(* Ids are fresh uuids, so an entity's name fixes its owner.  The worker   *)
(* controller and its channel are Root.                                    *)
(***************************************************************************)
EXTENDS Naturals, Sequences, FiniteSets, TLC

CONSTANTS
    Threads,     \* the application's threads
    Main,        \* the thread that runs the worker
    Servers, Routers, Transports, Producers,
    Owner,       \* who owns each of them
    Root,        \* the worker controller
    Calls        \* bound: how many calls of close(), pause() and resume()

Entities == Servers \cup Routers \cup Transports \cup Producers

ASSUME OwnerAssumption ==
    /\ \A e \in Servers \cup Routers : Owner[e] = Root
    /\ \A e \in Transports : Owner[e] \in Routers
    /\ \A e \in Producers : Owner[e] \in Transports
    /\ Root \notin Entities /\ Main \notin Threads

ASSUME CallsAssumption == Calls \in Nat

VARIABLES
    made,      \* the entities whose controller was built
    closed,    \* controllers whose _closed is set
    listed,    \* controllers in their owner's map or set
    heard,     \* controllers whose owner is connected to their closeSignal
    found,     \* producers in their router's _producerControllers
    paused,    \* ProducerController::_paused
    call,      \* each thread's call: [op, on, at]
    frames,    \* the loops a closing thread is in, innermost first:
               \*   [of, left, own], own: in AbstractTransportController::close
    alive,     \* the worker's entities
    muted,     \* the worker's producers that are paused
    running,   \* the worker runs
    calls,     \* calls of close(), pause() and resume() so far
    crashed,   \* a null answer was dereferenced
    raced,     \* history: entities whose creation or closing met another closing
    mixed      \* history: producers two calls paused or resumed at a time

vars == <<made, closed, listed, heard, found, paused, call, frames, alive, muted,
          running, calls, crashed, raced, mixed>>

Idle == [op |-> "none", on |-> Root, at |-> "idle"]

\* WorkerController::close has closed the channel.
ChannelClosed == Root \in closed

Owned(e) == {x \in listed : Owner[x] = e}

\* An entity and those that own it, and an entity and all it owns.
Above ==
    [e \in Entities |->
        {e} \cup {x \in Entities : x = Owner[e] \/ (Owner[e] # Root /\ x = Owner[Owner[e]])}]

Below(e) == {x \in Entities : e \in Above[x]}

RouterOf(p) == Owner[Owner[p]]

\* Where a call goes when it has made its request.
Asked == IF ChannelClosed THEN "empty" ELSE "sent"

Goto(t, at) == call' = [call EXCEPT ![t].at = at]
Return(t) == call' = [call EXCEPT ![t] = Idle]

\* The lock of the worker's set that WorkerController::close walks.
Walked == IF call[Main].at = "servers" THEN Servers
          ELSE IF call[Main].at = "routers" THEN Routers ELSE {}

-----------------------------------------------------------------------------
(* Creating                                                                *)

\* Anyone may create in what exists; that its owner is closed is not checked.
Create(t, e) ==
    /\ call[t] = Idle
    /\ e \in Entities \ (Servers \cup made)
    /\ \A u \in Threads : ~(call[u].op = "create" /\ call[u].on \in {e, Owner[e]})
    /\ Owner[e] \in made \cup {Root}
    /\ call' = [call EXCEPT ![t] = [op |-> "create", on |-> e, at |-> Asked]]
    /\ UNCHANGED <<made, closed, listed, heard, found, paused, frames, alive, muted,
                   running, calls, crashed>>

\* The answer is parsed, unless it is a router's: an empty one is a null pointer.
ParseEmpty(t) ==
    /\ call[t].op = "create" /\ call[t].at = "empty" /\ call[t].on \notin Routers
    /\ crashed' = TRUE
    /\ UNCHANGED <<made, closed, listed, heard, found, paused, call, frames, alive, muted,
                   running, calls>>

Build(t) ==
    LET e == call[t].on
    IN  /\ call[t].op = "create"
        /\ call[t].at = "ok" \/ (call[t].at = "empty" /\ e \in Routers)
        /\ e \notin Walked
        /\ made' = made \cup {e}
        /\ listed' = listed \cup {e}
        /\ Goto(t, "built")
        /\ UNCHANGED <<closed, heard, found, paused, frames, alive, muted, running, calls, crashed>>

\* Only now does the owner listen to the new controller.
Connect(t) ==
    /\ call[t].op = "create" /\ call[t].at = "built"
    /\ heard' = heard \cup {call[t].on}
    /\ IF call[t].on \in Producers THEN Goto(t, "connected") ELSE Return(t)
    /\ UNCHANGED <<made, closed, listed, found, paused, frames, alive, muted, running, calls, crashed>>

\* newProducerSignal: the router enters the producer in its own map.
Announce(t) ==
    /\ call[t].at = "connected"
    /\ found' = IF Owner[call[t].on] \in heard THEN found \cup {call[t].on} ELSE found
    /\ Return(t)
    /\ UNCHANGED <<made, closed, listed, heard, paused, frames, alive, muted, running, calls, crashed>>

-----------------------------------------------------------------------------
(* The worker                                                              *)

Handles(t, ok) == running /\ call[t].at = "sent" /\ Goto(t, IF ok THEN "ok" ELSE "error")

HandleCreate(t) ==
    LET e == call[t].on
        ok == Owner[e] \in alive \cup {Root}
    IN  /\ call[t].op = "create" /\ Handles(t, ok)
        /\ alive' = IF ok THEN alive \cup {e} ELSE alive
        /\ UNCHANGED <<made, closed, listed, heard, found, paused, frames, muted,
                       running, calls, crashed>>

\* Mutated form of HandleClose: an unknown entity is not answered for.
HandleCloseKnown(t) ==
    LET e == call[t].on
    IN  /\ call[t].op = "close" /\ e \in alive /\ Handles(t, TRUE)
        /\ alive' = alive \ Below(e)
        /\ UNCHANGED <<made, closed, listed, heard, found, paused, frames, muted,
                       running, calls, crashed>>

\* Closing an entity closes what is in it; there is no second closing.
HandleClose(t) ==
    LET e == call[t].on
    IN  /\ call[t].op = "close" /\ Handles(t, e \in alive)
        /\ alive' = alive \ Below(e)
        /\ UNCHANGED <<made, closed, listed, heard, found, paused, frames, muted,
                       running, calls, crashed>>

HandlePause(t) ==
    LET p == call[t].on
    IN  /\ call[t].op \in {"pause", "resume"} /\ Handles(t, p \in alive)
        /\ muted' = IF p \notin alive THEN muted
                    ELSE IF call[t].op = "pause" THEN muted \cup {p} ELSE muted \ {p}
        /\ UNCHANGED <<made, closed, listed, heard, found, paused, frames, alive,
                       running, calls, crashed>>

\* An error answer throws: the call ends where it is.
Throw(t) ==
    /\ call[t].at = "error"
    /\ Return(t)
    /\ UNCHANGED <<made, closed, listed, heard, found, paused, frames, alive, muted,
                   running, calls, crashed>>

-----------------------------------------------------------------------------
(* Pausing                                                                 *)

Pause(t, p) ==
    /\ call[t] = Idle /\ calls < Calls /\ calls' = calls + 1
    /\ p \in made /\ p \in heard
    /\ \E op \in {"pause", "resume"} :
           call' = [call EXCEPT ![t] = [op |-> op, on |-> p, at |-> Asked]]
    /\ UNCHANGED <<made, closed, listed, heard, found, paused, frames, alive, muted,
                   running, crashed>>

\* Mutated form of Paused: resume() sets what pause() sets.
PausedStays(t) ==
    /\ call[t].op \in {"pause", "resume"} /\ call[t].at \in {"ok", "empty"}
    /\ paused' = paused \cup {call[t].on}
    /\ Return(t)
    /\ UNCHANGED <<made, closed, listed, heard, found, frames, alive, muted,
                   running, calls, crashed>>

Paused(t) ==
    LET p == call[t].on
    IN  /\ call[t].op \in {"pause", "resume"} /\ call[t].at \in {"ok", "empty"}
        /\ paused' = IF call[t].op = "pause" THEN paused \cup {p} ELSE paused \ {p}
        /\ Return(t)
        /\ UNCHANGED <<made, closed, listed, heard, found, frames, alive, muted,
                       running, calls, crashed>>

-----------------------------------------------------------------------------
(* Closing                                                                 *)

\* close() finds _closed unset ...
CloseTest(t, e) ==
    /\ call[t] = Idle /\ calls < Calls /\ calls' = calls + 1
    /\ e \in heard \ (closed \cup Servers)
    /\ \A u \in Threads : ~(call[u].op = "create" /\ call[u].on = e)
    /\ call' = [call EXCEPT ![t] = [op |-> "close", on |-> e, at |-> "test"]]
    /\ UNCHANGED <<made, closed, listed, heard, found, paused, frames, alive, muted,
                   running, crashed>>

\* ... sets it, and sends its request.
CloseSet(t) ==
    /\ call[t].op = "close" /\ call[t].at = "test"
    /\ closed' = closed \cup {call[t].on}
    /\ Goto(t, Asked)
    /\ UNCHANGED <<made, listed, heard, found, paused, frames, alive, muted,
                   running, calls, crashed>>

\* Mutated form of Cascade: nobody below is told.
CascadeNothing(t) ==
    LET e == call[t].on
    IN  /\ call[t].op = "close" /\ call[t].at \in {"ok", "empty"}
        /\ frames' = [frames EXCEPT ![t] = <<[of |-> e, left |-> {}, own |-> e \in Transports]>>]
        /\ Goto(t, "cascade")
        /\ UNCHANGED <<made, closed, listed, heard, found, paused, alive, muted,
                       running, calls, crashed>>

\* With the answer the cascade begins, over a copy of the map of those owned.
Cascade(t) ==
    LET e == call[t].on
    IN  /\ call[t].op = "close" /\ call[t].at \in {"ok", "empty"}
        /\ frames' = [frames EXCEPT ![t] = <<[of |-> e, left |-> Owned(e), own |-> e \in Transports]>>]
        /\ Goto(t, "cascade")
        /\ UNCHANGED <<made, closed, listed, heard, found, paused, alive, muted,
                       running, calls, crashed>>

Inner(t) == Head(frames[t])

\* The next controller of the loop: its on...Closed does nothing when it is
\* closed; a producer's ends with its signal, the others begin their own loop.
Visit(t) ==
    /\ frames[t] # <<>>
    /\ \E x \in Inner(t).left :
         LET rest == [frames[t] EXCEPT ![1].left = @ \ {x}]
         IN  /\ closed' = closed \cup {x}
             /\ IF x \in closed
                THEN /\ frames' = [frames EXCEPT ![t] = rest]
                     /\ found' = IF Inner(t).own THEN found \ {x} ELSE found
                     /\ UNCHANGED listed
                ELSE IF x \in Producers
                THEN /\ frames' = [frames EXCEPT ![t] = rest]
                     /\ IF x \in heard THEN listed' = listed \ {x} ELSE UNCHANGED listed
                     /\ found' = IF Inner(t).own \/ x \in heard THEN found \ {x} ELSE found
                ELSE /\ frames' = [frames EXCEPT ![t] =
                                      <<[of |-> x, left |-> Owned(x), own |-> FALSE]>> \o rest]
                     /\ UNCHANGED <<listed, found>>
    /\ UNCHANGED <<made, heard, paused, call, alive, muted, running, calls, crashed>>

\* The loop is over: a router empties its map of producers, and the controller
\* signals.  Taking a router or server out of the worker's set needs its lock.
EndLoop(t) ==
    LET e == Inner(t).of
    IN  /\ frames[t] # <<>> /\ Inner(t).left = {}
        /\ e # Root /\ e \notin Walked
        /\ listed' = IF e \in heard THEN listed \ {e} ELSE listed
        /\ found' = {p \in found \ {e} : RouterOf(p) # e}
        /\ frames' = [frames EXCEPT ![t] = Tail(@)]
        /\ IF Len(frames[t]) = 1 THEN Return(t) ELSE UNCHANGED call
        /\ UNCHANGED <<made, closed, heard, paused, alive, muted, running, calls, crashed>>

-----------------------------------------------------------------------------
(* The worker stops                                                        *)

\* mediasoup_worker_run() returns, with all the worker had.
WorkerStop ==
    /\ running
    /\ running' = FALSE /\ alive' = {} /\ muted' = {}
    /\ UNCHANGED <<made, closed, listed, heard, found, paused, call, frames, calls, crashed>>

\* WorkerController::close: the channel is closed, ...
WorkerClose ==
    /\ ~running /\ Root \notin closed
    /\ closed' = closed \cup {Root}
    /\ call' = [call EXCEPT ![Main] = [op |-> "close", on |-> Root, at |-> "closed"]]
    /\ UNCHANGED <<made, listed, heard, found, paused, frames, alive, muted,
                   running, calls, crashed>>

\* ... the servers and then the routers are told, each set locked meanwhile, ...
Walk(from, to, set) ==
    /\ call[Main].at = from
    /\ Goto(Main, to)
    /\ frames' = [frames EXCEPT ![Main] = <<[of |-> Root, left |-> Owned(Root) \cap set, own |-> FALSE]>>]

WorkerWalk ==
    /\ \/ Walk("closed", "servers", Servers)
       \/ Walk("walked", "routers", Routers)
    /\ UNCHANGED <<made, closed, listed, heard, found, paused, alive, muted,
                   running, calls, crashed>>

\* ... and the set is emptied.
WorkerClear ==
    /\ frames[Main] # <<>> /\ Inner(Main).of = Root /\ Inner(Main).left = {}
    /\ listed' = listed \ Walked
    /\ frames' = [frames EXCEPT ![Main] = <<>>]
    /\ Goto(Main, IF call[Main].at = "servers" THEN "walked" ELSE "done")
    /\ UNCHANGED <<made, closed, heard, found, paused, alive, muted, running, calls, crashed>>

-----------------------------------------------------------------------------
\* The entities whose fate is uncertain: created or closed while one above is
\* being closed, and all they own.
Closes(t, e) ==
    \/ call[t].op = "close" /\ call[t].on = e
    \/ \E i \in 1 .. Len(frames[t]) : frames[t][i].of = e

Racing ==
    LET Busy(t) == {a \in Entities : Closes(t, a)}
        meets == {b \in Entities : \E t \in Threads :
                     /\ call[t].on = b /\ call[t].op \in {"create", "close"}
                     /\ \E u \in (Threads \cup {Main}) \ {t} : (Above[b] \ {b}) \cap Busy(u) # {}}
    IN  {e \in Entities : Above[e] \cap meets # {}}

Mixing ==
    {p \in Producers : \E t, u \in Threads : /\ t # u /\ call[t].on = p /\ call[u].on = p
                                             /\ {call[t].op, call[u].op} \subseteq {"pause", "resume"}}

Thread(t) ==
    \/ ParseEmpty(t) \/ Build(t) \/ Connect(t) \/ Announce(t)
    \/ HandleCreate(t) \/ HandleClose(t) \/ HandlePause(t) \/ Throw(t)
    \/ Paused(t) \/ CloseSet(t) \/ Cascade(t) \/ Visit(t) \/ EndLoop(t)

Stopping == WorkerClose \/ WorkerWalk \/ Visit(Main) \/ EndLoop(Main) \/ WorkerClear

Begin(t) ==
    \/ \E e \in Entities : Create(t, e) \/ CloseTest(t, e)
    \/ \E p \in Producers : Pause(t, p)

\* Every step goes with what the history remembers of it, while the worker runs.
Noted ==
    /\ ~crashed
    /\ IF running' THEN raced' = raced \cup Racing' /\ mixed' = mixed \cup Mixing'
       ELSE raced' = {} /\ mixed' = {}

Next ==
    \/ \E t \in Threads : (Begin(t) \/ Thread(t)) /\ Noted
    \/ (WorkerStop \/ Stopping) /\ Noted

Init ==
    /\ \E s \in SUBSET Servers :
          made = s /\ listed = s /\ heard = s /\ alive = s
    /\ closed = {} /\ found = {} /\ paused = {} /\ muted = {}
    /\ call = [t \in Threads \cup {Main} |-> Idle]
    /\ frames = [t \in Threads \cup {Main} |-> <<>>]
    /\ running = TRUE /\ calls = 0 /\ crashed = FALSE
    /\ raced = {} /\ mixed = {}

Fairness == (\A t \in Threads : WF_vars(Thread(t) /\ Noted)) /\ WF_vars(Stopping /\ Noted)

Spec == Init /\ [][Next]_vars
FairSpec == Spec /\ Fairness

-----------------------------------------------------------------------------
Ops == {"none", "create", "close", "pause", "resume"}
Places ==
    {"idle", "sent", "ok", "error", "empty", "built", "connected", "test", "cascade",
     "closed", "servers", "walked", "routers", "done"}

TypeOK ==
    /\ made \subseteq Entities /\ listed \subseteq made /\ heard \subseteq made
    /\ closed \subseteq made \cup {Root}
    /\ found \subseteq Producers /\ paused \subseteq Producers /\ muted \subseteq Producers
    /\ call \in [Threads \cup {Main} -> [op : Ops, on : Entities \cup {Root}, at : Places]]
    /\ \A t \in Threads \cup {Main} : \A i \in 1 .. Len(frames[t]) : frames[t][i].left \subseteq Entities
    /\ alive \subseteq Entities
    /\ running \in BOOLEAN /\ calls \in 0 .. Calls /\ crashed \in BOOLEAN
    /\ raced \subseteq Entities /\ mixed \subseteq Producers

-----------------------------------------------------------------------------
(* Properties.                                                             *)

Quiet == running /\ \A t \in Threads : call[t] = Idle

\* When every call is over the controllers mirror the worker: an open one has
\* its entity, is known to an owner that is open, and a producer to its router;
\* a closed one has none and is forgotten by all of them.  Not so only what was
\* created or closed while it, or one that owns it, was being closed.
MirrorsWorker ==
    Quiet => \A e \in made \ raced :
        LET open == e \notin closed
        IN  /\ open <=> e \in alive
            /\ open <=> e \in listed
            /\ open => Owner[e] \notin closed
            /\ e \in Producers => (open <=> e \in found)

\* A producer's _paused says what the worker does, unless two calls that pause
\* or resume it overlap.
PausedAgrees ==
    Quiet => \A p \in Producers \cap alive : p \in mixed \/ (p \in paused <=> p \in muted)

\* A thread that is about to change the set WorkerController::close has locked:
\* it enters a new router in it, or takes out a controller that was closed.
WaitsForSet(t) ==
    \/ call[t].op = "create" /\ call[t].at \in {"ok", "empty"} /\ call[t].on \in Walked
    \/ frames[t] # <<>> /\ Inner(t).left = {} /\ Inner(t).of \in Walked

\* WorkerController::close waits for a lock it holds itself.
Hangs == WaitsForSet(Main)

\* Every call ends, the worker controller's close() too.  Not so a call whose
\* request was queued when the worker stopped, which nobody answers, nor, when
\* close() hangs, itself and those that have to change the set it locks.
CallsEnd ==
    \A t \in Threads \cup {Main} :
        call[t] # Idle ~> \/ call[t].at \in {"idle", "done"} \/ crashed
                          \/ ~running /\ call[t].at = "sent"
                          \/ Hangs /\ WaitsForSet(t)
==============================================================================
