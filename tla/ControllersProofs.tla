-------------------------- MODULE ControllersProofs --------------------------
(***************************************************************************)
(* Proofs about Controllers, for any threads and any tree of entities.     *)
(*                                                                         *)
(* While the worker runs, each controller that is open has its entity, or  *)
(* somebody who closes one above it is on the way to it; and of one that   *)
(* is closed nothing is left but what its closer is about to remove.  Both *)
(* need that whoever creates or closes below a closing is in raced (Apart).*)
(***************************************************************************)
EXTENDS Controllers, SequenceTheorems, TLAPS

Everyone == Threads \cup {Main}
Call     == [op : Ops, on : Entities \cup {Root}, at : Places]
Frame    == [of : Entities \cup {Root}, left : SUBSET Entities, own : BOOLEAN]

Creates(t, e)          == call[t].op = "create" /\ call[t].on = e
ClosesAt(t, a, places) == call[t].op = "close" /\ call[t].on = a /\ call[t].at \in places

InFrame(t, a)   == \E i \in 1 .. Len(frames[t]) : frames[t][i].of = a
LeftIn(t, a, x) == \E i \in 1 .. Len(frames[t]) : frames[t][i].of = a /\ x \in frames[t][i].left

-----------------------------------------------------------------------------
\* What a call and a loop are about, whether the worker runs or not.
HandAt(t) ==
  /\ call[t].op = "none" => call[t] = Idle
  /\ call[t].op = "create" => call[t].on \in Entities
  /\ call[t].at \in {"built", "connected"} => call[t].op = "create" /\ call[t].on \in made
  /\ call[t].at = "connected" => call[t].on \in Producers
  /\ call[t].op \in {"pause", "resume"} => call[t].on \in Producers
  /\ call[t].op = "close" => call[t].on \in made \cup {Root}
  /\ frames[t] # <<>> => call[t].at \in {"cascade", "servers", "routers"}
  /\ \A i \in 1 .. Len(frames[t]) : frames[t][i].left \subseteq made

\* The main thread does nothing before it has closed the channel.
MainHand == Root \notin closed => call[Main] = Idle /\ frames[Main] = <<>>

TypeInv ==
  TypeOK /\ frames \in [Everyone -> Seq(Frame)] /\ (\A t \in Everyone : HandAt(t)) /\ MainHand

\* Where a call is, while the worker runs.
PlaceAt(t) ==
  LET c == call[t] IN
  /\ c.op = "none" => c.at = "idle"
  /\ c.op = "create" => /\ c.at \in {"sent", "ok", "error", "built", "connected"}
                        /\ c.on \in made <=> c.at \in {"built", "connected"}
                        /\ c.at = "connected" => c.on \in heard
                        /\ Owner[c.on] \in made \cup {Root}
                        /\ \A u \in Threads : ~Creates(u, Owner[c.on])
                        /\ \A u \in Threads : Creates(u, c.on) => u = t
  /\ c.op = "close" => /\ c.on \in made
                       /\ c.at \in {"test", "sent", "ok", "error", "cascade"}
                       /\ c.at # "test" => c.on \in closed
                       /\ \A u \in Threads : ~Creates(u, c.on)
  /\ c.op \in {"pause", "resume"} => c.on \in made /\ c.at \in {"sent", "ok", "error"}

\* The loops of a closing thread: the one of its call, and in a router's one of a
\* transport.
FrameAt(t) ==
  /\ call[t].at = "cascade" <=> frames[t] # <<>>
  /\ Len(frames[t]) \in 0 .. 2
  /\ frames[t] # <<>> => frames[t][Len(frames[t])].of = call[t].on
  /\ Len(frames[t]) = 2 => /\ call[t].on \in Routers
                           /\ frames[t][1].of \in Transports
                           /\ Owner[frames[t][1].of] = call[t].on
  /\ \A i \in 1 .. Len(frames[t]) :
       /\ frames[t][i].of \in closed
       /\ \A x \in frames[t][i].left : Owner[x] = frames[t][i].of

BaseInv ==
  /\ Root \notin closed /\ call[Main] = Idle /\ frames[Main] = <<>>
  /\ \A t \in Threads : PlaceAt(t) /\ FrameAt(t)
  /\ paused \subseteq made /\ muted \subseteq made
  /\ \A e \in made : /\ e \in heard \/ \E t \in Threads : Creates(t, e)
                     /\ Owner[e] \in made \cup {Root}
  /\ \A e \in alive : Owner[e] \in alive \cup {Root}

\* Who creates or closes an entity that is not in raced is alone with those above it.
Apart ==
  \A e \in Entities \ raced : \A b \in Above[e], t \in Threads :
    call[t].on = b /\ call[t].op \in {"create", "close"} =>
      \A u \in Threads, a \in Above[b] \ {b} : Closes(u, a) => u = t

RaceInv == Apart /\ \A e \in Entities : Owner[e] \in raced => e \in raced

-----------------------------------------------------------------------------
\* An owner that is closing comes to e, or is closed in the worker with it.
Reaches(t, e) ==
  \/ \E a \in Above[e] \ {e} : ClosesAt(t, a, {"ok"})
  \/ LeftIn(t, Owner[e], e)
  \/ Owner[e] \in Entities /\ LeftIn(t, Owner[Owner[e]], Owner[e])

Working(t, a)    == ClosesAt(t, a, {"ok"}) \/ (ClosesAt(t, a, {"sent"}) /\ a \in alive) \/ InFrame(t, a)
Pending(t, a, x) == ClosesAt(t, a, {"ok"}) \/ (ClosesAt(t, a, {"sent"}) /\ a \in alive) \/ LeftIn(t, a, x)

\* What is being created is open, and so is its owner since the worker made it.
NewInv ==
  \A t \in Threads, e \in Entities \ raced :
    Creates(t, e) =>
      /\ e \notin closed
      /\ call[t].at = "ok" => e \in alive
      /\ call[t].at \in {"ok", "built", "connected"} => Owner[e] \notin closed

\* Nothing below an entity lives that the worker has closed, nor does anyone else
\* close it then.
DeadInv ==
  \A t \in Threads, a \in Entities : ClosesAt(t, a, {"ok", "cascade"}) =>
     /\ \A e \in alive \ raced : a \notin Above[e]
     /\ \A u \in Threads : ClosesAt(u, a, {"ok", "cascade"}) => u = t \/ a \in raced

OpenAt(e) ==
  e \notin closed =>
    /\ e \in alive \/ \E t \in Threads : Reaches(t, e)
    /\ e \in listed
    /\ e \in Producers => e \in found \/ \E t \in Threads : Creates(t, e)

ClosedAt(a) ==
  a \in closed =>
    /\ a \in alive => \E t \in Threads : ClosesAt(t, a, {"sent"})
    /\ a \in listed \cup found => \E t \in Threads : Working(t, a)
    /\ \A x \in made \ (raced \cup closed) :
         Owner[x] = a => \E t \in Threads : Pending(t, a, x)

TreeInv == NewInv /\ DeadInv /\ \A e \in made \ raced : OpenAt(e) /\ ClosedAt(e)

\* Of a producer that no two calls pause or resume at a time, the last answer is true.
MixInv ==
  /\ Mixing \subseteq mixed
  /\ \A p \in (Producers \cap alive) \ mixed :
       \/ /\ \A t \in Threads : ~(call[t].on = p /\ call[t].op \in {"pause", "resume"} /\ call[t].at = "ok")
          /\ p \in paused <=> p \in muted
       \/ \E t \in Threads : /\ call[t].on = p /\ call[t].at = "ok"
                             /\ \/ call[t].op = "pause" /\ p \in muted
                                \/ call[t].op = "resume" /\ p \notin muted

RunInv == BaseInv /\ RaceInv /\ TreeInv /\ MixInv

ControllersInv == TypeInv /\ (running => RunInv)

-----------------------------------------------------------------------------
(* The tree                                                                *)

LEMMA Kinds ==
  /\ Root \notin Entities /\ Main \notin Threads
  /\ Routers \subseteq Entities /\ Transports \subseteq Entities /\ Producers \subseteq Entities
  /\ Routers \cap Transports = {} /\ Routers \cap Producers = {} /\ Transports \cap Producers = {}
  /\ \A e \in Entities :
       \/ Owner[e] = Root /\ e \notin Transports \cup Producers
       \/ e \in Transports /\ Owner[e] \in Routers
       \/ e \in Producers /\ Owner[e] \in Transports
  /\ \A e \in Routers : Owner[e] = Root
  BY OwnerAssumption DEF Entities

\* Above and below an entity.
LEMMA AboveIs ==
  ASSUME NEW e \in Entities
  PROVE  /\ e \in Above[e] /\ Above[e] \subseteq Entities
         /\ Owner[e] # e
         /\ Owner[e] \in Entities => Owner[e] \in Above[e] /\ Above[Owner[e]] \subseteq Above[e]
         /\ \A a \in Above[e] \ {e} :
              \/ a = Owner[e]
              \/ e \in Producers /\ Owner[e] \in Transports /\ a = Owner[Owner[e]]
         /\ e \in Producers => Owner[Owner[e]] \in Above[e] \ {e}
<1>1. \A x \in Entities :
        Above[x] = {x} \cup {y \in Entities : y = Owner[x] \/ (Owner[x] # Root /\ y = Owner[Owner[x]])}
  BY DEF Above
<1>2. Owner[e] \in Entities =>
        Above[Owner[e]] = {Owner[e]} \cup {y \in Entities :
          y = Owner[Owner[e]] \/ (Owner[Owner[e]] # Root /\ y = Owner[Owner[Owner[e]]])}
  BY <1>1
<1>3. CASE Owner[e] = Root
  BY <1>1, <1>3, Kinds
<1>4. CASE e \in Transports /\ Owner[e] \in Routers
  BY <1>1, <1>2, <1>4, Kinds
<1>5. CASE e \in Producers /\ Owner[e] \in Transports
  <2>1. /\ Owner[Owner[e]] \in Routers /\ Owner[Owner[Owner[e]]] = Root
    BY <1>5, Kinds
  <2>2. QED BY <1>1, <1>2, <1>5, <2>1, Kinds
<1>6. QED BY <1>3, <1>4, <1>5, Kinds

LEMMA BelowIs == ASSUME NEW a PROVE Below(a) = {e \in Entities : a \in Above[e]}
  BY DEF Below

-----------------------------------------------------------------------------
(* What becomes of the calls                                               *)

LEMMA CallIs ==
  ASSUME TypeInv, NEW t \in Everyone, NEW c \in Call, call' = [call EXCEPT ![t] = c]
  PROVE  /\ call' \in [Everyone -> Call]
         /\ call'[t] = c
         /\ \A u \in Everyone : u # t => call'[u] = call[u]
  BY DEF TypeInv, TypeOK, Everyone, Call

LEMMA IdleIsCall == Idle \in Call /\ Idle.op = "none" /\ Idle.at = "idle" /\ Idle.on = Root
  BY DEF Idle, Call, Ops, Places

LEMMA GotoIs ==
  ASSUME TypeInv, NEW t \in Everyone, NEW at \in Places, Goto(t, at)
  PROVE  /\ call' \in [Everyone -> Call]
         /\ call'[t].op = call[t].op /\ call'[t].on = call[t].on /\ call'[t].at = at
         /\ \A u \in Everyone : u # t => call'[u] = call[u]
  BY DEF TypeInv, TypeOK, Everyone, Call, Goto

LEMMA ReturnIs ==
  ASSUME TypeInv, NEW t \in Everyone, Return(t)
  PROVE  /\ call' \in [Everyone -> Call]
         /\ call'[t] = Idle
         /\ \A u \in Everyone : u # t => call'[u] = call[u]
  BY CallIs, IdleIsCall DEF Return

-----------------------------------------------------------------------------
(* The type invariant                                                      *)

VarsOk ==
  /\ made \subseteq Entities /\ listed \subseteq made /\ heard \subseteq made
  /\ closed \subseteq made \cup {Root}
  /\ found \subseteq Producers /\ paused \subseteq Producers /\ muted \subseteq Producers
  /\ alive \subseteq Entities
  /\ running \in BOOLEAN /\ calls \in 0 .. Calls /\ crashed \in BOOLEAN

LEMMA HandRest ==
  ASSUME NEW u, HandAt(u), call'[u] = call[u], frames'[u] = frames[u], made \subseteq made'
  PROVE  HandAt(u)'
  BY DEF HandAt

LEMMA FrameLeft ==
  ASSUME NEW f \in [Everyone -> Seq(Frame)]
  PROVE  \A t \in Everyone : \A i \in 1 .. Len(f[t]) : f[t][i] \in Frame /\ f[t][i].left \subseteq Entities
<1> SUFFICES ASSUME NEW t \in Everyone, NEW i \in 1 .. Len(f[t]) PROVE f[t][i] \in Frame
  BY DEF Frame
<1>1. f[t] \in Seq(Frame)
  OBVIOUS
<1>2. QED BY <1>1, ElementOfSeq

\* What is left of TypeInv when a step has changed one thread's call.
LEMMA TypeFrom ==
  ASSUME TypeInv, Noted, VarsOk', NEW t \in Everyone,
         call' \in [Everyone -> Call], \A u \in Everyone : u # t => call'[u] = call[u],
         frames' \in [Everyone -> Seq(Frame)], \A u \in Everyone : u # t => frames'[u] = frames[u],
         made \subseteq made', HandAt(t)', closed \subseteq closed', t \in Threads \/ Root \in closed'
  PROVE  TypeInv'
<1>1. raced' \subseteq Entities /\ mixed' \subseteq Producers
  BY DEF Noted, Racing, Mixing, TypeInv, TypeOK
<1>2. \A u \in Everyone : HandAt(u)'
  BY HandRest DEF TypeInv
<1>3. \A u \in Everyone : \A i \in 1 .. Len(frames'[u]) : frames'[u][i].left \subseteq Entities
  BY FrameLeft
<1>4. TypeOK'
  BY <1>1, <1>3 DEF TypeOK, VarsOk, Everyone, Call
<1>5. MainHand'
  BY Kinds DEF MainHand, TypeInv, Everyone
<1>6. QED BY <1>2, <1>4, <1>5 DEF TypeInv

LEMMA TypeInit == Init => TypeInv
<1> SUFFICES ASSUME Init PROVE TypeInv
  OBVIOUS
<1>1. /\ call = [t \in Everyone |-> Idle] /\ frames = [t \in Everyone |-> <<>>]
      /\ calls = 0 /\ raced = {} /\ mixed = {}
  BY DEF Init, Everyone
<1>2. VarsOk
  <2>1. PICK s \in SUBSET Servers : made = s /\ listed = s /\ heard = s /\ alive = s
    BY DEF Init
  <2>2. 0 \in 0 .. Calls
    BY CallsAssumption
  <2>3. QED BY <1>1, <2>1, <2>2 DEF Init, VarsOk, Entities
<1>3. frames \in [Everyone -> Seq(Frame)] /\ \A t \in Everyone : frames[t] = <<>>
  BY <1>1
<1>4. call \in [Everyone -> Call] /\ \A t \in Everyone : call[t] = Idle
  BY <1>1, IdleIsCall
<1>5. TypeOK
  BY <1>1, <1>2, <1>3, <1>4 DEF TypeOK, VarsOk, Everyone, Call
<1>6. ASSUME NEW t \in Everyone PROVE HandAt(t)
  BY <1>3, <1>4, IdleIsCall DEF HandAt
<1>7. Main \in Everyone
  BY DEF Everyone
<1>8. QED BY <1>3, <1>4, <1>5, <1>6, <1>7 DEF TypeInv, MainHand

LEMMA TypeCalls ==
  ASSUME TypeInv, Noted, NEW t \in Threads, Begin(t)
  PROVE  TypeInv'
<1>1. t \in Everyone /\ call[t] = Idle
  BY DEF Everyone, Begin, Create, CloseTest, Pause
<1> DEFINE Begun(c) ==
      /\ call' = [call EXCEPT ![t] = c]
      /\ c.op \in {"create", "close", "pause", "resume"}
      /\ c.at \in {"sent", "empty", "test"}
      /\ c.op = "create" => c.on \in Entities
      /\ c.op = "close" => c.on \in made
      /\ c.op \in {"pause", "resume"} => c.on \in Producers
<1>2. PICK c \in Call : Begun(c)
  <2>1. ASSUME NEW e \in Entities, Create(t, e) PROVE \E c \in Call : Begun(c)
    <3>1. [op |-> "create", on |-> e, at |-> Asked] \in Call
      BY DEF Call, Ops, Places, Asked
    <3>2. QED BY <2>1, <3>1 DEF Create, Asked
  <2>2. ASSUME NEW e \in Entities, CloseTest(t, e) PROVE \E c \in Call : Begun(c)
    <3>1. [op |-> "close", on |-> e, at |-> "test"] \in Call /\ e \in made
      BY <2>2 DEF Call, Ops, Places, CloseTest, TypeInv, TypeOK
    <3>2. QED BY <2>2, <3>1 DEF CloseTest
  <2>3. ASSUME NEW p \in Producers, Pause(t, p) PROVE \E c \in Call : Begun(c)
    <3>1. \A op \in {"pause", "resume"} : [op |-> op, on |-> p, at |-> Asked] \in Call
      BY Kinds DEF Call, Ops, Places, Asked
    <3>2. QED BY <2>3, <3>1 DEF Pause, Asked
  <2>4. QED BY <2>1, <2>2, <2>3 DEF Begin
<1>3. UNCHANGED <<made, closed, listed, heard, found, paused, frames, alive, muted, running, crashed>>
  BY DEF Begin, Create, CloseTest, Pause
<1>4. VarsOk'
  <2>1. calls' \in 0 .. Calls
    BY CallsAssumption DEF TypeInv, TypeOK, Begin, Create, CloseTest, Pause
  <2>2. QED BY <1>3, <2>1 DEF VarsOk, TypeInv, TypeOK
<1>5. call'[t] = c /\ call' \in [Everyone -> Call] /\ \A u \in Everyone : u # t => call'[u] = call[u]
  BY <1>1, <1>2, CallIs
<1>6. HandAt(t)'
  <2>1. HandAt(t) /\ frames[t] = <<>>
    BY <1>1, IdleIsCall DEF TypeInv, HandAt
  <2>2. QED BY <1>2, <1>3, <1>5, <2>1 DEF HandAt
<1>7. QED BY <1>1, <1>3, <1>4, <1>5, <1>6, TypeFrom DEF TypeInv

LEMMA TypePlain ==
  ASSUME TypeInv, Noted, NEW t \in Threads,
         \/ ParseEmpty(t) \/ Build(t) \/ Connect(t) \/ Announce(t) \/ HandleCreate(t)
         \/ HandleClose(t) \/ HandlePause(t) \/ Throw(t) \/ Paused(t) \/ CloseSet(t)
  PROVE  TypeInv'
<1>0. HandAt(t) /\ call[t].at \in {"sent", "ok", "error", "empty", "built", "connected", "test"}
  BY DEF Everyone, TypeInv, Handles, ParseEmpty, Build, Connect, Announce, HandleCreate,
     HandleClose, HandlePause, Throw, Paused, CloseSet
<1>1. /\ t \in Everyone /\ frames' = frames /\ closed \subseteq closed' /\ HandAt(t) /\ call[t] \in Call
      /\ frames[t] = <<>>
  BY <1>0 DEF HandAt, Everyone, TypeInv, TypeOK, Call, ParseEmpty, Build, Connect, Announce, HandleCreate,
     HandleClose, HandlePause, Throw, Paused, CloseSet
<1> DEFINE Done ==
      /\ call' \in [Everyone -> Call] /\ \A u \in Everyone : u # t => call'[u] = call[u]
      /\ VarsOk' /\ made \subseteq made' /\ HandAt(t)'
<1> DEFINE Moved(at) ==
      /\ call' \in [Everyone -> Call] /\ \A u \in Everyone : u # t => call'[u] = call[u]
      /\ call'[t].op = call[t].op /\ call'[t].on = call[t].on /\ call'[t].at = at
<1> USE <1>1 DEF HandAt, Asked
<1>2. VarsOk
  BY DEF TypeInv, TypeOK, VarsOk
<1>3. "built" \in Places /\ "connected" \in Places /\ "ok" \in Places /\ "error" \in Places
      /\ Asked \in Places
  BY DEF Places
<1>4. CASE ParseEmpty(t)
  <2>1. call' = call /\ made' = made /\ VarsOk'
    BY <1>2, <1>4 DEF ParseEmpty, VarsOk
  <2>2. call \in [Everyone -> Call]
    BY DEF TypeInv, TypeOK, Everyone, Call
  <2>3. QED BY <2>1, <2>2, TypeFrom DEF TypeInv
<1>5. CASE Build(t)
  <2>1. Goto(t, "built") /\ call[t].on \in Entities /\ call[t].op = "create"
        /\ made' = made \cup {call[t].on} /\ listed' = listed \cup {call[t].on}
    BY <1>5 DEF Build
  <2>2. VarsOk'
    BY <1>2, <1>5, <2>1 DEF Build, VarsOk
  <2>3. Moved("built")
    BY <1>3, <2>1, GotoIs
  <2>4. HandAt(t)'
    BY <2>1, <2>3
  <2>5. QED BY <2>1, <2>2, <2>3, <2>4, TypeFrom DEF TypeInv
<1>6. CASE Connect(t)
  <2>1. call[t].op = "create" /\ call[t].at = "built" /\ made' = made
        /\ IF call[t].on \in Producers THEN Goto(t, "connected") ELSE Return(t)
    BY <1>6 DEF Connect
  <2>2. VarsOk'
    BY <1>2, <1>6, <2>1 DEF Connect, VarsOk
  <2>3. CASE call[t].on \in Producers
    <3>1. Moved("connected")
      BY <1>3, <2>1, <2>3, GotoIs
    <3>2. HandAt(t)'
      BY <2>1, <2>3, <3>1
    <3>3. QED BY <2>1, <2>2, <3>1, <3>2, TypeFrom DEF TypeInv
  <2>4. CASE call[t].on \notin Producers
    <3>1. Done
      BY <2>1, <2>2, <2>4, ReturnIs, IdleIsCall
    <3>2. QED BY <3>1, TypeFrom DEF TypeInv
  <2>5. QED BY <2>3, <2>4
<1>7. CASE Announce(t)
  <2>1. Return(t) /\ made' = made /\ call[t].on \in Producers
    BY <1>7 DEF Announce
  <2>2. VarsOk'
    BY <1>2, <1>7, <2>1 DEF Announce, VarsOk
  <2>3. Done
    BY <2>1, <2>2, ReturnIs, IdleIsCall
  <2>4. QED BY <2>3, TypeFrom DEF TypeInv
<1>8. CASE HandleCreate(t) \/ HandleClose(t) \/ HandlePause(t)
  <2>1. PICK at \in {"ok", "error"} : Goto(t, at)
    BY <1>8 DEF HandleCreate, HandleClose, HandlePause, Handles
  <2>2. made' = made /\ call[t].op \in {"create", "close", "pause", "resume"}
    BY <1>8 DEF HandleCreate, HandleClose, HandlePause
  <2>3. VarsOk'
    BY <1>2, <1>8 DEF HandleCreate, HandleClose, HandlePause, VarsOk
  <2>4. at \in Places
    BY <1>3
  <2>5. Moved(at)
    BY <2>1, <2>4, GotoIs
  <2>6. HandAt(t)'
    BY <2>2, <2>5
  <2>7. QED BY <2>2, <2>3, <2>5, <2>6, TypeFrom DEF TypeInv
<1>9. CASE Throw(t) \/ Paused(t)
  <2>1. Return(t) /\ made' = made
    BY <1>9 DEF Throw, Paused
  <2>2. VarsOk'
    BY <1>2, <1>9 DEF Throw, Paused, VarsOk
  <2>3. Done
    BY <2>1, <2>2, ReturnIs, IdleIsCall
  <2>4. QED BY <2>3, TypeFrom DEF TypeInv
<1>10. CASE CloseSet(t)
  <2>1. Goto(t, Asked) /\ made' = made /\ call[t].op = "close"
        /\ closed' = closed \cup {call[t].on}
    BY <1>10 DEF CloseSet
  <2>2. VarsOk'
    BY <1>2, <1>10, <2>1 DEF CloseSet, VarsOk
  <2>3. Moved(Asked)
    BY <1>3, <2>1, GotoIs
  <2>4. HandAt(t)'
    BY <2>1, <2>3
  <2>5. QED BY <2>1, <2>2, <2>3, <2>4, TypeFrom DEF TypeInv
<1>11. QED BY <1>4, <1>5, <1>6, <1>7, <1>8, <1>9, <1>10

-----------------------------------------------------------------------------
(* What becomes of the loops                                               *)

LEMMA FramesIs ==
  ASSUME TypeInv, NEW t \in Everyone, NEW s \in Seq(Frame), frames' = [frames EXCEPT ![t] = s]
  PROVE  /\ frames' \in [Everyone -> Seq(Frame)]
         /\ frames'[t] = s
         /\ \A u \in Everyone : u # t => frames'[u] = frames[u]
  BY DEF TypeInv

\* The frame on top with one controller less to visit.
Drop(s, x) == [s EXCEPT ![1].left = @ \ {x}]

Dropped(t, x, r) ==
  /\ r \in Seq(Frame) /\ Len(r) = Len(frames[t]) /\ Len(r) >= 1
  /\ \A i \in 1 .. Len(r) : r[i].of = frames[t][i].of
  /\ r[1].left = frames[t][1].left \ {x}
  /\ \A i \in 2 .. Len(r) : r[i] = frames[t][i]

LEMMA DropIs ==
  ASSUME TypeInv, NEW t \in Everyone, frames[t] # <<>>, NEW x
  PROVE  Dropped(t, x, Drop(frames[t], x))
<1>0. PICK r : r = Drop(frames[t], x)
  OBVIOUS
<1> DEFINE s == frames[t]
<1>1. s \in Seq(Frame) /\ Len(s) >= 1 /\ Len(s) \in Nat
  BY DEF TypeInv
<1>2. s[1] \in Frame
  BY <1>1, ElementOfSeq
<1>3. [s[1] EXCEPT !.left = @ \ {x}] \in Frame
  BY <1>2 DEF Frame
<1> DEFINE f == [s[1] EXCEPT !.left = @ \ {x}]
<1>4. r = [s EXCEPT ![1] = f]
  BY <1>0 DEF Drop
<1>5. r \in Seq(Frame) /\ Len(r) = Len(s) /\ r[1] = f /\ \A i \in 2 .. Len(s) : r[i] = s[i]
  <2>1. f \in Frame
    BY <1>3
  <2> HIDE DEF s, f
  <2>2. 1 \in 1 .. Len(s)
    BY <1>1
  <2>3. /\ [s EXCEPT ![1] = f] \in Seq(Frame) /\ Len([s EXCEPT ![1] = f]) = Len(s)
        /\ \A j \in 1 .. Len(s) : [s EXCEPT ![1] = f][j] = IF j = 1 THEN f ELSE s[j]
    BY <1>1, <2>1, <2>2, ExceptSeq
  <2>4. /\ r \in Seq(Frame) /\ Len(r) = Len(s)
        /\ \A j \in 1 .. Len(s) : r[j] = IF j = 1 THEN f ELSE s[j]
    BY <1>4, <2>3
  <2>5. r[1] = f
    BY <2>2, <2>4
  <2>6. ASSUME NEW i \in 2 .. Len(s) PROVE r[i] = s[i]
    <3>1. i \in 1 .. Len(s) /\ i # 1
      BY <1>1
    <3>2. QED BY <2>4, <3>1
  <2>7. QED BY <2>4, <2>5, <2>6
<1>6. r[1].of = s[1].of /\ r[1].left = s[1].left \ {x}
  BY <1>2, <1>5 DEF Frame
<1>7. ASSUME NEW i \in 1 .. Len(r) PROVE r[i].of = s[i].of
  <2>1. CASE i = 1
    BY <1>6, <2>1
  <2>2. CASE i # 1
    <3>1. i \in 2 .. Len(s)
      BY <1>1, <1>5, <2>2
    <3>2. QED BY <1>5, <3>1
  <2>3. QED BY <2>1, <2>2
<1>8. Dropped(t, x, r)
  BY <1>1, <1>5, <1>6, <1>7 DEF s, Dropped
<1>9. QED BY <1>0, <1>8

LEMMA PushIs ==
  ASSUME NEW f \in Frame, NEW r \in Seq(Frame)
  PROVE  /\ <<f>> \o r \in Seq(Frame) /\ Len(<<f>> \o r) = Len(r) + 1
         /\ (<<f>> \o r)[1] = f
         /\ \A i \in 1 .. Len(r) : (<<f>> \o r)[i + 1] = r[i]
  OBVIOUS

LEMMA TailIs ==
  ASSUME NEW s \in Seq(Frame), s # <<>>
  PROVE  /\ Tail(s) \in Seq(Frame) /\ Len(Tail(s)) = Len(s) - 1 /\ Len(s) >= 1
         /\ \A i \in 1 .. Len(Tail(s)) : Tail(s)[i] = s[i + 1]
  BY HeadTailProperties

\* A visit of x: who is not closed and owns others is put on top.
Loop(x, own) == [of |-> x, left |-> Owned(x), own |-> own]

VisitOf(t, x) ==
  /\ frames[t] # <<>> /\ x \in frames[t][1].left
  /\ closed' = closed \cup {x}
  /\ found' \in {found, found \ {x}} /\ listed' \in {listed, listed \ {x}}
  /\ x \in closed => listed' = listed
  /\ x \notin closed /\ x \in Producers /\ x \in heard =>
       listed' = listed \ {x} /\ found' = found \ {x}
  /\ x \notin closed \cup Producers => listed' = listed /\ found' = found
  /\ frames' = [frames EXCEPT ![t] = IF x \in closed \cup Producers THEN Drop(frames[t], x)
                                     ELSE <<Loop(x, FALSE)>> \o Drop(frames[t], x)]
  /\ UNCHANGED <<made, heard, paused, call, alive, muted, running, calls, crashed>>

LEMMA VisitIs ==
  ASSUME TypeInv, NEW t \in Everyone, Visit(t)
  PROVE  \E x : VisitOf(t, x)
<1>1. frames[t] # <<>> /\ Inner(t) = frames[t][1]
  BY DEF Visit, Inner, TypeInv
<1>2. PICK x \in Inner(t).left :
        LET rest == [frames[t] EXCEPT ![1].left = @ \ {x}]
         IN  /\ closed' = closed \cup {x}
             /\ IF x \in closed
                THEN /\ frames' = [frames EXCEPT ![t] = rest]
                     /\ found' = IF Inner(t).own THEN found \ {x} ELSE found
                     /\ UNCHANGED listed
                ELSE IF x \in Producers
                THEN /\ frames' = [frames EXCEPT ![t] = rest]
                     /\ IF x \in heard THEN listed' = listed \ {x} ELSE UNCHANGED listed
                     /\ found' = IF Inner(t).own \/ x \in heard THEN found \ {x} ELSE found
                ELSE /\ frames' = [frames EXCEPT ![t] =
                                      <<[of |-> x, left |-> Owned(x), own |-> FALSE]>> \o rest]
                     /\ UNCHANGED <<listed, found>>
  BY DEF Visit
<1> DEFINE r == Drop(frames[t], x)
<1>3. frames' = [frames EXCEPT ![t] = IF x \in closed \cup Producers THEN r ELSE <<Loop(x, FALSE)>> \o r]
  BY <1>2 DEF Loop, Drop
<1>4. UNCHANGED <<made, heard, paused, call, alive, muted, running, calls, crashed>>
  BY DEF Visit
<1>5. /\ closed' = closed \cup {x}
      /\ found' \in {found, found \ {x}} /\ listed' \in {listed, listed \ {x}}
      /\ x \in closed => listed' = listed
      /\ x \notin closed /\ x \in Producers /\ x \in heard =>
           listed' = listed \ {x} /\ found' = found \ {x}
      /\ x \notin closed \cup Producers => listed' = listed /\ found' = found
  BY <1>2
<1>6. QED BY <1>1, <1>2, <1>3, <1>4, <1>5 DEF VisitOf

LEMMA OwnedIs == ASSUME TypeInv, NEW x PROVE Owned(x) \subseteq made /\ Owned(x) \subseteq Entities
  BY DEF Owned, TypeInv, TypeOK

LEMMA LoopIs ==
  ASSUME TypeInv, NEW x \in Entities \cup {Root}, NEW own \in BOOLEAN
  PROVE  Loop(x, own) \in Frame /\ Loop(x, own).of = x /\ Loop(x, own).left = Owned(x)
  BY OwnedIs DEF Loop, Frame

\* The frames after a visit: a controller less to visit, and a loop more, perhaps.
VisitFrames(t, x, s) ==
  /\ s \in Seq(Frame)
  /\ \/ /\ x \in closed \cup Producers
        /\ Len(s) = Len(frames[t])
        /\ \A i \in 1 .. Len(s) :
             s[i].of = frames[t][i].of
             /\ s[i].left = IF i = 1 THEN frames[t][i].left \ {x} ELSE frames[t][i].left
     \/ /\ x \notin closed \cup Producers
        /\ Len(s) = Len(frames[t]) + 1
        /\ s[1].of = x /\ s[1].left = Owned(x)
        /\ \A i \in 1 .. Len(frames[t]) :
             s[i + 1].of = frames[t][i].of
             /\ s[i + 1].left = IF i = 1 THEN frames[t][i].left \ {x} ELSE frames[t][i].left

LEMMA VisitLoops ==
  ASSUME TypeInv, NEW t \in Everyone, NEW x, VisitOf(t, x)
  PROVE  /\ x \in made /\ x \in Entities
         /\ VisitFrames(t, x, frames'[t])
         /\ frames' \in [Everyone -> Seq(Frame)]
         /\ \A u \in Everyone : u # t => frames'[u] = frames[u]
<1>1. PICK r : r = Drop(frames[t], x)
  OBVIOUS
<1>2. frames[t] # <<>> /\ x \in frames[t][1].left
  BY DEF VisitOf
<1>3. frames[t] \in Seq(Frame) /\ Len(frames[t]) >= 1 /\ Len(frames[t]) \in Nat
  BY <1>2 DEF TypeInv
<1>4. x \in made /\ x \in Entities
  BY <1>2, <1>3 DEF TypeInv, HandAt, TypeOK
<1>5. /\ r \in Seq(Frame) /\ Len(r) = Len(frames[t]) /\ Len(r) >= 1
      /\ \A i \in 1 .. Len(r) : r[i].of = frames[t][i].of
      /\ r[1].left = frames[t][1].left \ {x}
      /\ \A i \in 2 .. Len(r) : r[i] = frames[t][i]
  <2>1. Dropped(t, x, r)
    BY <1>1, <1>2, DropIs
  <2>2. QED BY <2>1 DEF Dropped
<1>6. \A i \in 1 .. Len(r) : /\ r[i].of = frames[t][i].of
                             /\ r[i].left = IF i = 1 THEN frames[t][i].left \ {x} ELSE frames[t][i].left
  <2> TAKE i \in 1 .. Len(r)
  <2>1. CASE i = 1
    BY <1>5, <2>1
  <2>2. CASE i # 1
    <3>1. i \in 2 .. Len(r)
      BY <1>3, <1>5, <2>2
    <3>2. QED BY <1>5, <2>2, <3>1
  <2>3. QED BY <2>1, <2>2
<1>7. CASE x \in closed \cup Producers
  <2>1. frames' = [frames EXCEPT ![t] = r]
    BY <1>1, <1>7 DEF VisitOf
  <2>2. frames'[t] = r /\ frames' \in [Everyone -> Seq(Frame)]
        /\ \A u \in Everyone : u # t => frames'[u] = frames[u]
    BY <1>5, <2>1, FramesIs
  <2>3. VisitFrames(t, x, r)
    BY <1>5, <1>6, <1>7 DEF VisitFrames
  <2>4. QED BY <1>4, <2>2, <2>3
<1>8. CASE x \notin closed \cup Producers
  <2>1. PICK s : s = <<Loop(x, FALSE)>> \o r
    OBVIOUS
  <2>2. Loop(x, FALSE) \in Frame /\ Loop(x, FALSE).of = x /\ Loop(x, FALSE).left = Owned(x)
    BY <1>4, LoopIs
  <2>3. /\ s \in Seq(Frame) /\ Len(s) = Len(r) + 1 /\ s[1] = Loop(x, FALSE)
        /\ \A i \in 1 .. Len(r) : s[i + 1] = r[i]
    BY <1>5, <2>1, <2>2, PushIs
  <2>4. frames' = [frames EXCEPT ![t] = s]
    BY <1>1, <1>8, <2>1 DEF VisitOf
  <2>5. frames'[t] = s /\ frames' \in [Everyone -> Seq(Frame)]
        /\ \A u \in Everyone : u # t => frames'[u] = frames[u]
    BY <2>3, <2>4, FramesIs
  <2>6. \A i \in 1 .. Len(frames[t]) :
          s[i + 1].of = frames[t][i].of
          /\ s[i + 1].left = IF i = 1 THEN frames[t][i].left \ {x} ELSE frames[t][i].left
    <3> TAKE i \in 1 .. Len(frames[t])
    <3>1. i \in 1 .. Len(r)
      BY <1>5
    <3>2. s[i + 1] = r[i]
      BY <2>3, <3>1
    <3>3. QED BY <1>6, <3>1, <3>2
  <2>7. VisitFrames(t, x, s)
    BY <1>5, <1>8, <2>2, <2>3, <2>6 DEF VisitFrames
  <2>8. QED BY <1>4, <2>5, <2>7
<1>9. QED BY <1>7, <1>8

LEMMA VisitType ==
  ASSUME TypeInv, Noted, NEW t \in Everyone, Visit(t)
  PROVE  TypeInv'
<1>1. PICK x : VisitOf(t, x)
  BY VisitIs
<1>2. /\ x \in made /\ VisitFrames(t, x, frames'[t]) /\ frames' \in [Everyone -> Seq(Frame)]
      /\ \A u \in Everyone : u # t => frames'[u] = frames[u]
  BY <1>1, VisitLoops
<1>3. call' = call /\ made' = made /\ VarsOk'
  BY <1>1, <1>2 DEF VisitOf, VarsOk, TypeInv, TypeOK
<1>4. HandAt(t)'
  <2>1. ASSUME NEW i \in 1 .. Len(frames'[t]) PROVE frames'[t][i].left \subseteq made
    <3>1. \A j \in 1 .. Len(frames[t]) : frames[t][j].left \subseteq made
      BY DEF TypeInv, HandAt
    <3>2. Len(frames[t]) \in Nat
      BY DEF TypeInv
    <3>3. CASE x \in closed \cup Producers
      <4>1. i \in 1 .. Len(frames[t])
            /\ frames'[t][i].left = IF i = 1 THEN frames[t][i].left \ {x} ELSE frames[t][i].left
        BY <1>2, <3>3 DEF VisitFrames
      <4>2. QED BY <3>1, <4>1
    <3>4. CASE x \notin closed \cup Producers /\ i = 1
      BY <1>2, <3>4, OwnedIs DEF VisitFrames
    <3>5. CASE x \notin closed \cup Producers /\ i # 1
      <4>1. i - 1 \in 1 .. Len(frames[t]) /\ i = (i - 1) + 1
        BY <1>2, <3>2, <3>5 DEF VisitFrames
      <4>2. frames'[t][i].left = IF i - 1 = 1 THEN frames[t][i - 1].left \ {x} ELSE frames[t][i - 1].left
        BY <1>2, <3>5, <4>1 DEF VisitFrames
      <4>3. QED BY <3>1, <4>1, <4>2
    <3>6. QED BY <3>3, <3>4, <3>5
  <2>2. frames[t] # <<>>
    BY <1>1 DEF VisitOf
  <2>3. QED BY <1>3, <2>1, <2>2 DEF HandAt, TypeInv
<1>5. call' \in [Everyone -> Call]
  BY <1>3 DEF TypeInv, TypeOK, Everyone, Call
<1>6. closed \subseteq closed' /\ (t \in Threads \/ Root \in closed')
  BY <1>1 DEF VisitOf, TypeInv, MainHand, Everyone
<1>7. QED BY <1>2, <1>3, <1>4, <1>5, <1>6, TypeFrom

\* A thread's call and loops after the first loop began, ...
LEMMA LoopType ==
  ASSUME TypeInv, Noted, VarsOk', made' = made, closed' = closed, NEW t \in Everyone,
         t \in Threads \/ Root \in closed,
         NEW s \in Seq(Frame), frames' = [frames EXCEPT ![t] = s],
         \A i \in 1 .. Len(s) : s[i].left \subseteq made,
         \/ s = <<>> /\ Return(t)
         \/ frames[t] # <<>> /\ call' = call
         \/ \E at \in Places : /\ Goto(t, at) /\ call[t].op # "none"
                               /\ (at \in {"cascade", "servers", "routers"} \/ (s = <<>> /\ at \in {"walked", "done"}))
  PROVE  TypeInv'
<1>1. /\ frames' \in [Everyone -> Seq(Frame)] /\ frames'[t] = s
      /\ \A u \in Everyone : u # t => frames'[u] = frames[u]
  BY FramesIs
<1>2. HandAt(t)
  BY DEF TypeInv
<1>3. ASSUME NEW at \in Places, Goto(t, at), call[t].op # "none",
             at \in {"cascade", "servers", "routers"} \/ (s = <<>> /\ at \in {"walked", "done"})
      PROVE  TypeInv'
  <2>1. call' \in [Everyone -> Call] /\ call'[t].op = call[t].op /\ call'[t].on = call[t].on
        /\ call'[t].at = at /\ \A u \in Everyone : u # t => call'[u] = call[u]
    BY <1>3, GotoIs
  <2>2. HandAt(t)'
    BY <1>1, <1>2, <1>3, <2>1 DEF HandAt
  <2>3. QED BY <1>1, <2>1, <2>2, TypeFrom
<1>4. CASE s = <<>> /\ Return(t)
  <2>1. call' \in [Everyone -> Call] /\ call'[t] = Idle
        /\ \A u \in Everyone : u # t => call'[u] = call[u]
    BY <1>4, ReturnIs
  <2>2. frames'[t] = <<>> /\ \A i \in 1 .. Len(frames'[t]) : frames'[t][i].left \subseteq made
    BY <1>1, <1>4
  <2>3. /\ call'[t] = Idle /\ call'[t].op = "none" /\ call'[t].at = "idle"
        /\ made' = made
    BY <2>1, IdleIsCall
  <2>4. HandAt(t)'
    BY <2>2, <2>3 DEF HandAt
  <2>5. QED BY <1>1, <2>1, <2>4, TypeFrom
<1>5. CASE frames[t] # <<>> /\ call' = call
  <2>1. call' \in [Everyone -> Call]
    BY <1>5 DEF TypeInv, TypeOK, Everyone, Call
  <2>2. HandAt(t)'
    BY <1>1, <1>2, <1>5 DEF HandAt
  <2>3. QED BY <1>1, <1>5, <2>1, <2>2, TypeFrom
<1>6. QED BY <1>3, <1>4, <1>5

LEMMA CascadeType ==
  ASSUME TypeInv, Noted, NEW t \in Threads, Cascade(t)
  PROVE  TypeInv'
<1>1. /\ call[t].op = "close" /\ Goto(t, "cascade") /\ "cascade" \in Places
      /\ frames' = [frames EXCEPT ![t] = <<Loop(call[t].on, call[t].on \in Transports)>>]
  BY DEF Cascade, Loop, Places
<1>2. t \in Everyone /\ call[t].on \in Entities \cup {Root}
  BY DEF Everyone, TypeInv, TypeOK
<1>3. PICK f \in Frame : f = Loop(call[t].on, call[t].on \in Transports) /\ f.left \subseteq made
  <2>1. PICK own \in BOOLEAN : own = (call[t].on \in Transports)
    <3>1. (call[t].on \in Transports) \in BOOLEAN
      OBVIOUS
    <3>2. QED BY <3>1, Zenon
  <2>2. Loop(call[t].on, own) \in Frame /\ Loop(call[t].on, own).left \subseteq made
    BY <1>2, LoopIs, OwnedIs
  <2>3. QED BY <2>1, <2>2
<1>4. <<f>> \in Seq(Frame) /\ Len(<<f>>) = 1 /\ <<f>>[1] = f
  OBVIOUS
<1>5. \A i \in 1 .. Len(<<f>>) : <<f>>[i].left \subseteq made
  BY <1>3, <1>4
<1>6. VarsOk' /\ made' = made /\ closed' = closed
  BY DEF Cascade, VarsOk, TypeInv, TypeOK
<1>7. frames' = [frames EXCEPT ![t] = <<f>>]
  BY <1>1, <1>3
<1>8. QED BY <1>1, <1>2, <1>4, <1>5, <1>6, <1>7, LoopType

\* The loop that ends is taken off.
EndOf(t, e) ==
  /\ frames[t] # <<>> /\ e = frames[t][1].of /\ frames[t][1].left = {}
  /\ e # Root /\ e \notin Walked
  /\ listed' = IF e \in heard THEN listed \ {e} ELSE listed
  /\ found' = {p \in found \ {e} : RouterOf(p) # e}
  /\ frames' = [frames EXCEPT ![t] = Tail(@)]
  /\ IF Len(frames[t]) = 1 THEN Return(t) ELSE call' = call
  /\ UNCHANGED <<made, closed, heard, paused, alive, muted, running, calls, crashed>>

LEMMA EndIs ==
  ASSUME TypeInv, NEW t \in Everyone, EndLoop(t)
  PROVE  \E e : EndOf(t, e)
<1>1. frames[t] # <<>> /\ Inner(t) = frames[t][1]
  BY DEF EndLoop, Inner, TypeInv
<1>2. QED BY <1>1 DEF EndLoop, EndOf

LEMMA EndType ==
  ASSUME TypeInv, Noted, NEW t \in Everyone, EndLoop(t)
  PROVE  TypeInv'
<1>1. PICK e : EndOf(t, e)
  BY EndIs
<1>2. frames[t] # <<>> /\ frames[t] \in Seq(Frame) /\ Len(frames[t]) \in Nat
  BY <1>1 DEF EndOf, TypeInv
<1>3. PICK s \in Seq(Frame) : /\ s = Tail(frames[t]) /\ Len(s) = Len(frames[t]) - 1 /\ Len(frames[t]) >= 1
                              /\ \A i \in 1 .. Len(s) : s[i] = frames[t][i + 1]
  BY <1>2, TailIs
<1>4. ASSUME NEW i \in 1 .. Len(s) PROVE s[i].left \subseteq made
  <2>1. i + 1 \in 1 .. Len(frames[t])
    BY <1>2, <1>3
  <2>2. QED BY <1>3, <2>1 DEF TypeInv, HandAt
<1>5. frames' = [frames EXCEPT ![t] = s]
  BY <1>1, <1>3 DEF EndOf
<1>6. VarsOk' /\ made' = made /\ closed' = closed
  BY <1>1 DEF EndOf, VarsOk, TypeInv, TypeOK
<1>7. t \in Threads \/ Root \in closed
  BY <1>2 DEF TypeInv, MainHand, Everyone
<1>8. \/ s = <<>> /\ Return(t)
      \/ frames[t] # <<>> /\ call' = call
  <2>1. CASE Len(frames[t]) = 1
    <3>1. s = <<>>
      BY <1>3, <2>1, EmptySeq
    <3>2. QED BY <1>1, <2>1, <3>1 DEF EndOf
  <2>2. CASE Len(frames[t]) # 1
    BY <1>1, <1>2, <2>2 DEF EndOf
  <2>3. QED BY <2>1, <2>2
<1>9. QED BY <1>4, <1>5, <1>6, <1>7, <1>8, LoopType

\* ... and the worker controller's, with the channel closed.
LEMMA StoppingType ==
  ASSUME TypeInv, Noted, Stopping
  PROVE  TypeInv'
<1>1. Main \in Everyone /\ HandAt(Main)
  BY DEF Everyone, TypeInv
<1>2. CASE WorkerClose
  <2>1. PICK c \in Call : c = [op |-> "close", on |-> Root, at |-> "closed"]
    BY DEF Call, Ops, Places
  <2>2. call' = [call EXCEPT ![Main] = c] /\ closed' = closed \cup {Root}
        /\ UNCHANGED <<made, listed, heard, found, paused, frames, alive, muted, running, calls, crashed>>
    BY <1>2, <2>1 DEF WorkerClose
  <2>3. call' \in [Everyone -> Call] /\ call'[Main] = c
        /\ \A u \in Everyone : u # Main => call'[u] = call[u]
    BY <1>1, <2>2, CallIs
  <2>4. frames[Main] = <<>>
    BY <1>2 DEF WorkerClose, TypeInv, MainHand
  <2>5. HandAt(Main)'
    BY <1>1, <2>1, <2>2, <2>3, <2>4 DEF HandAt
  <2>6. VarsOk'
    BY <2>2 DEF VarsOk, TypeInv, TypeOK
  <2>7. QED BY <1>1, <2>2, <2>3, <2>5, <2>6, TypeFrom DEF TypeInv
<1>3. CASE WorkerWalk
  <2>1. PICK to \in {"servers", "routers"}, set \in {Servers, Routers}, from \in {"closed", "walked"} :
          Walk(from, to, set)
    BY <1>3 DEF WorkerWalk
  <2>2. UNCHANGED <<made, closed, listed, heard, found, paused, alive, muted, running, calls, crashed>>
    BY <1>3 DEF WorkerWalk
  <2>3. call[Main].at \in {"closed", "walked"} /\ Goto(Main, to) /\ to \in Places
    BY <2>1 DEF Walk, Places
  <2>4. call[Main] # Idle /\ call[Main].op # "none"
    BY <1>1, <2>3, IdleIsCall DEF HandAt
  <2>5. PICK f \in Frame : f = [of |-> Root, left |-> Owned(Root) \cap set, own |-> FALSE]
    BY OwnedIs DEF Frame
  <2>6. f.left \subseteq made
    BY <2>5, OwnedIs
  <2>7. frames' = [frames EXCEPT ![Main] = <<f>>]
    BY <2>1, <2>5 DEF Walk
  <2>8. <<f>> \in Seq(Frame) /\ \A i \in 1 .. Len(<<f>>) : <<f>>[i].left \subseteq made
    BY <2>6
  <2>9. VarsOk' /\ made' = made /\ closed' = closed
    BY <2>2 DEF VarsOk, TypeInv, TypeOK
  <2>10. Root \in closed
    BY <2>4 DEF TypeInv, MainHand
  <2>11. QED BY <1>1, <2>3, <2>4, <2>7, <2>8, <2>9, <2>10, LoopType
<1>4. CASE Visit(Main)
  BY <1>1, <1>4, VisitType
<1>5. CASE EndLoop(Main)
  BY <1>1, <1>5, EndType
<1>6. CASE WorkerClear
  <2>1. PICK to \in {"walked", "done"} : Goto(Main, to)
    BY <1>6 DEF WorkerClear
  <2>2. /\ frames[Main] # <<>> /\ frames' = [frames EXCEPT ![Main] = <<>>]
        /\ listed' \subseteq listed
        /\ UNCHANGED <<made, closed, heard, found, paused, alive, muted, running, calls, crashed>>
    BY <1>6 DEF WorkerClear
  <2>3. VarsOk' /\ made' = made /\ closed' = closed
    BY <2>2 DEF VarsOk, TypeInv, TypeOK
  <2>4. <<>> \in Seq(Frame) /\ \A i \in 1 .. Len(<<>>) : <<>>[i].left \subseteq made
    BY EmptySeq
  <2>5. call[Main].op # "none"
    BY <1>1, <2>2, IdleIsCall DEF HandAt
  <2>6. Root \in closed /\ to \in Places
    BY <2>2 DEF TypeInv, MainHand, Places
  <2>7. PICK s \in Seq(Frame) : s = <<>> /\ \A i \in 1 .. Len(s) : s[i].left \subseteq made
    BY <2>4
  <2>8. QED BY <1>1, <2>1, <2>2, <2>3, <2>5, <2>6, <2>7, LoopType
<1>7. QED BY <1>2, <1>3, <1>4, <1>5, <1>6 DEF Stopping

LEMMA TypeStep ==
  ASSUME TypeInv, [Next]_vars
  PROVE  TypeInv'
<1>1. ASSUME NEW t \in Threads, Begin(t) \/ Thread(t), Noted PROVE TypeInv'
  <2>1. t \in Everyone
    BY DEF Everyone
  <2>2. QED BY <1>1, <2>1, TypeCalls, TypePlain, CascadeType, VisitType, EndType DEF Thread
<1>2. CASE WorkerStop /\ Noted
  <2>1. call' = call /\ frames' = frames /\ made' = made /\ closed' = closed /\ VarsOk'
    BY <1>2 DEF WorkerStop, VarsOk, TypeInv, TypeOK
  <2>2. raced' \subseteq Entities /\ mixed' \subseteq Producers
    BY <1>2 DEF Noted, Racing, Mixing, TypeInv, TypeOK
  <2>3. QED BY <2>1, <2>2 DEF TypeInv, TypeOK, VarsOk, HandAt, MainHand
<1>3. CASE Stopping /\ Noted
  BY <1>3, StoppingType
<1>4. CASE UNCHANGED vars
  BY <1>4 DEF vars, TypeInv, TypeOK, HandAt, MainHand
<1>5. QED BY <1>1, <1>2, <1>3, <1>4 DEF Next

-----------------------------------------------------------------------------
(* The loops of closing threads, while the worker runs                     *)

LEMMA SameLoops ==
  ASSUME NEW u, frames'[u] = frames[u]
  PROVE  \A a, x : (InFrame(u, a)' <=> InFrame(u, a)) /\ (LeftIn(u, a, x)' <=> LeftIn(u, a, x))
  BY DEF InFrame, LeftIn

LEMMA NoLoops ==
  ASSUME NEW t, frames[t] = <<>>
  PROVE  \A a, x : ~InFrame(t, a) /\ ~LeftIn(t, a, x)
  BY DEF InFrame, LeftIn

\* Who is in a loop closes its entity or, as a router, a transport's owner.
LEMMA LoopFacts ==
  ASSUME TypeInv, BaseInv, NEW t \in Threads, NEW a
  PROVE  /\ InFrame(t, a) =>
              /\ a \in Entities /\ a \in made /\ a \in closed
              /\ ClosesAt(t, call[t].on, {"cascade"}) /\ Closes(t, a)
              /\ call[t].on \in Entities /\ call[t].on \in made
              /\ a = call[t].on \/ (a \in Transports /\ Owner[a] = call[t].on)
         /\ \A x : LeftIn(t, a, x) =>
              InFrame(t, a) /\ x \in made /\ x \in Entities /\ Owner[x] = a
<1>1. /\ t \in Everyone /\ PlaceAt(t) /\ FrameAt(t) /\ frames[t] \in Seq(Frame)
      /\ Len(frames[t]) \in Nat /\ HandAt(t)
  BY DEF BaseInv, TypeInv, Everyone
<1>2. made \subseteq Entities /\ closed \subseteq made
  BY DEF TypeInv, TypeOK, BaseInv
<1>3. ASSUME InFrame(t, a)
      PROVE  /\ a \in Entities /\ a \in made /\ a \in closed
             /\ ClosesAt(t, call[t].on, {"cascade"}) /\ Closes(t, a)
             /\ call[t].on \in Entities /\ call[t].on \in made
             /\ a = call[t].on \/ (a \in Transports /\ Owner[a] = call[t].on)
  <2>1. PICK i \in 1 .. Len(frames[t]) : frames[t][i].of = a
    BY <1>3 DEF InFrame
  <2>2. a \in closed
    BY <1>1, <2>1 DEF FrameAt
  <2>3. frames[t] # <<>> /\ call[t].at = "cascade"
    BY <1>1, <2>1 DEF FrameAt
  <2>4. call[t].op \in Ops
    BY <1>1 DEF TypeInv, TypeOK, Everyone
  <2>5. call[t].op = "close"
    BY <1>1, <2>3, <2>4 DEF PlaceAt, Ops
  <2>6. call[t].on \in made
    BY <1>1, <2>5 DEF PlaceAt
  <2>7. Closes(t, a)
    BY <2>1 DEF Closes
  <2>8. a = call[t].on \/ (a \in Transports /\ Owner[a] = call[t].on)
    <3>1. CASE i = Len(frames[t])
      BY <1>1, <2>1, <2>3, <3>1 DEF FrameAt
    <3>2. CASE i # Len(frames[t])
      <4>1. Len(frames[t]) = 2 /\ i = 1
        BY <1>1, <2>1, <3>2 DEF FrameAt
      <4>2. QED BY <1>1, <2>1, <4>1 DEF FrameAt
    <3>3. QED BY <3>1, <3>2
  <2>9. QED BY <1>2, <2>2, <2>3, <2>5, <2>6, <2>7, <2>8 DEF ClosesAt
<1>4. ASSUME NEW x, LeftIn(t, a, x)
      PROVE  InFrame(t, a) /\ x \in made /\ x \in Entities /\ Owner[x] = a
  <2>1. PICK i \in 1 .. Len(frames[t]) : frames[t][i].of = a /\ x \in frames[t][i].left
    BY <1>4 DEF LeftIn
  <2>2. x \in made /\ Owner[x] = a
    BY <1>1, <2>1 DEF FrameAt, HandAt
  <2>3. QED BY <1>2, <2>1, <2>2 DEF InFrame
<1>5. QED BY <1>3, <1>4

LEMMA CascadeLoops ==
  ASSUME TypeInv, BaseInv, NEW t \in Threads, Cascade(t)
  PROVE  /\ \A a, x : ~InFrame(t, a) /\ ~LeftIn(t, a, x)
         /\ \A a : InFrame(t, a)' <=> a = call[t].on
         /\ \A a, x : LeftIn(t, a, x)' <=> a = call[t].on /\ x \in Owned(a)
         /\ \A u \in Everyone : u # t => frames'[u] = frames[u]
         /\ Len(frames'[t]) = 1 /\ frames'[t][1].of = call[t].on /\ frames'[t][1].left = Owned(call[t].on)
<1>1. frames[t] = <<>> /\ t \in Everyone
  BY DEF BaseInv, FrameAt, Cascade, Everyone
<1>2. PICK s : /\ s = <<Loop(call[t].on, call[t].on \in Transports)>>
               /\ frames' = [frames EXCEPT ![t] = s]
  BY DEF Cascade, Loop
<1>3. frames'[t] = s /\ \A u \in Everyone : u # t => frames'[u] = frames[u]
  BY <1>1, <1>2 DEF TypeInv
<1>4. Len(s) = 1 /\ s[1].of = call[t].on /\ s[1].left = Owned(call[t].on)
  BY <1>2 DEF Loop
<1>5. \A a : InFrame(t, a)' <=> a = call[t].on
  BY <1>3, <1>4 DEF InFrame
<1>6. \A a, x : LeftIn(t, a, x)' <=> a = call[t].on /\ x \in Owned(a)
  BY <1>3, <1>4 DEF LeftIn
<1>7. QED BY <1>1, <1>3, <1>4, <1>5, <1>6, NoLoops

LEMMA VisitMeans ==
  ASSUME TypeInv, BaseInv, NEW t \in Threads, NEW x, VisitOf(t, x)
  PROVE  /\ LeftIn(t, Owner[x], x) /\ Owner[x] \in Entities
         /\ x \in made /\ x \in Entities
         /\ x \notin Producers => /\ x \in Transports /\ Len(frames[t]) = 1
                                  /\ Owner[x] = call[t].on /\ call[t].on \in Routers
         /\ x \in Producers \cup Transports
         /\ \A i \in 1 .. Len(frames[t]) : x \in frames[t][i].left => i = 1
<1>1. /\ t \in Everyone /\ PlaceAt(t) /\ FrameAt(t) /\ frames[t] \in Seq(Frame)
      /\ Len(frames[t]) \in Nat /\ HandAt(t)
  BY DEF BaseInv, TypeInv, Everyone
<1>2. frames[t] # <<>> /\ x \in frames[t][1].left
  BY DEF VisitOf
<1>3. 1 \in 1 .. Len(frames[t])
  BY <1>1, <1>2, EmptySeq
<1>4. Owner[x] = frames[t][1].of
  BY <1>1, <1>2, <1>3 DEF FrameAt
<1>5. LeftIn(t, Owner[x], x)
  BY <1>2, <1>3, <1>4 DEF LeftIn
<1>6. Owner[x] \in Entities /\ x \in made /\ x \in Entities
  BY <1>5, LoopFacts
<1>7. x \in Producers \/ (x \in Transports /\ Owner[x] \in Routers)
  BY <1>6, Kinds
<1>8. ASSUME x \notin Producers
      PROVE  Len(frames[t]) = 1 /\ Owner[x] = call[t].on /\ call[t].on \in Routers
  <2>1. frames[t][1].of \in Routers
    BY <1>4, <1>7, <1>8
  <2>2. Len(frames[t]) # 2
    BY <1>1, <2>1, Kinds DEF FrameAt
  <2>3. Len(frames[t]) = 1
    BY <1>1, <1>3, <2>2 DEF FrameAt
  <2>4. QED BY <1>1, <1>2, <1>4, <2>1, <2>3 DEF FrameAt
<1>9. ASSUME NEW i \in 1 .. Len(frames[t]), x \in frames[t][i].left, i # 1 PROVE FALSE
  <2>1. Len(frames[t]) = 2 /\ i = 2
    BY <1>1, <1>9 DEF FrameAt
  <2>2. Owner[x] = frames[t][2].of /\ frames[t][2].of = call[t].on /\ call[t].on \in Routers
        /\ frames[t][1].of \in Transports
    BY <1>1, <1>9, <2>1 DEF FrameAt
  <2>3. QED BY <1>4, <2>2, Kinds
<1>10. QED BY <1>5, <1>6, <1>7, <1>8, <1>9

LEMMA VisitKeeps ==
  ASSUME TypeInv, BaseInv, NEW t \in Threads, NEW x, VisitOf(t, x), x \in closed \cup Producers
  PROVE  /\ \A a : InFrame(t, a)' <=> InFrame(t, a)
         /\ \A a, y : LeftIn(t, a, y)' <=> LeftIn(t, a, y) /\ y # x
<1>1. VisitFrames(t, x, frames'[t])
  BY VisitLoops DEF Everyone
<1>2. /\ Len(frames'[t]) = Len(frames[t])
      /\ \A i \in 1 .. Len(frames[t]) :
           frames'[t][i].of = frames[t][i].of
           /\ frames'[t][i].left = IF i = 1 THEN frames[t][i].left \ {x} ELSE frames[t][i].left
  BY <1>1 DEF VisitFrames
<1>3. \A i \in 1 .. Len(frames[t]) : frames'[t][i].left = frames[t][i].left \ {x}
  <2>1. \A i \in 1 .. Len(frames[t]) : x \in frames[t][i].left => i = 1
    BY VisitMeans
  <2>2. QED BY <1>2, <2>1
<1>4. \A a : InFrame(t, a)' <=> InFrame(t, a)
  BY <1>2 DEF InFrame
<1>5. \A a, y : LeftIn(t, a, y)' <=> LeftIn(t, a, y) /\ y # x
  <2> TAKE a, y
  <2>1. LeftIn(t, a, y)' <=>
          \E i \in 1 .. Len(frames[t]) : frames[t][i].of = a /\ y \in frames[t][i].left \ {x}
    BY <1>2, <1>3 DEF LeftIn
  <2>2. QED BY <2>1 DEF LeftIn
<1>6. QED BY <1>4, <1>5

LEMMA VisitAdds ==
  ASSUME TypeInv, BaseInv, NEW t \in Threads, NEW x, VisitOf(t, x), x \notin closed \cup Producers
  PROVE  /\ \A a : InFrame(t, a)' <=> InFrame(t, a) \/ a = x
         /\ \A a, y : LeftIn(t, a, y)' <=> (LeftIn(t, a, y) /\ y # x) \/ (a = x /\ y \in Owned(x))
         /\ Len(frames'[t]) = 2
<1> DEFINE s == frames'[t]
<1>1. VisitFrames(t, x, s) /\ Len(frames[t]) = 1
  BY VisitLoops, VisitMeans DEF Everyone
<1>2. /\ Len(s) = 2
      /\ s[1].of = x /\ s[1].left = Owned(x)
      /\ \A i \in 1 .. 1 : s[i + 1].of = frames[t][i].of /\ s[i + 1].left = frames[t][i].left \ {x}
  BY <1>1 DEF VisitFrames
<1>3. s[2].of = frames[t][1].of /\ s[2].left = frames[t][1].left \ {x}
  BY <1>2
<1>4. \A a : InFrame(t, a) <=> frames[t][1].of = a
  BY <1>1 DEF InFrame
<1>5. \A a, y : LeftIn(t, a, y) <=> frames[t][1].of = a /\ y \in frames[t][1].left
  BY <1>1 DEF LeftIn
<1>6. \A a : InFrame(t, a)' <=> s[1].of = a \/ s[2].of = a
  <2>1. \A i \in 1 .. 2 : i = 1 \/ i = 2
    OBVIOUS
  <2>2. 1 \in 1 .. Len(s) /\ 2 \in 1 .. Len(s)
    BY <1>2
  <2>3. QED BY <1>2, <2>1, <2>2 DEF InFrame
<1>7. \A a, y : LeftIn(t, a, y)' <=>
        (s[1].of = a /\ y \in s[1].left) \/ (s[2].of = a /\ y \in s[2].left)
  <2>1. \A i \in 1 .. 2 : i = 1 \/ i = 2
    OBVIOUS
  <2>2. 1 \in 1 .. Len(s) /\ 2 \in 1 .. Len(s)
    BY <1>2
  <2>3. QED BY <1>2, <2>1, <2>2 DEF LeftIn
<1>8. QED BY <1>2, <1>3, <1>4, <1>5, <1>6, <1>7

LEMMA EndMeans ==
  ASSUME TypeInv, BaseInv, NEW t \in Threads, NEW e, EndOf(t, e)
  PROVE  /\ InFrame(t, e) /\ \A x : ~LeftIn(t, e, x)
         /\ \A a : InFrame(t, a)' <=> InFrame(t, a) /\ a # e
         /\ \A a, x : LeftIn(t, a, x)' <=> LeftIn(t, a, x)
         /\ \A u \in Everyone : u # t => frames'[u] = frames[u]
         /\ e \in Routers => Len(frames[t]) = 1
         /\ Len(frames[t]) \in 1 .. 2
         /\ Len(frames[t]) = 1 => frames'[t] = <<>> /\ call[t].on = e
         /\ Len(frames[t]) = 2 => Len(frames'[t]) = 1 /\ frames'[t][1] = frames[t][2]
<1>1. /\ t \in Everyone /\ PlaceAt(t) /\ FrameAt(t) /\ frames[t] \in Seq(Frame)
      /\ Len(frames[t]) \in Nat /\ HandAt(t)
  BY DEF BaseInv, TypeInv, Everyone
<1>2. frames[t] # <<>> /\ frames[t][1].of = e /\ frames[t][1].left = {}
  BY DEF EndOf
<1>3. PICK s \in Seq(Frame) : /\ s = Tail(frames[t]) /\ Len(s) = Len(frames[t]) - 1 /\ Len(frames[t]) >= 1
                              /\ \A i \in 1 .. Len(s) : s[i] = frames[t][i + 1]
  BY <1>1, <1>2, TailIs
<1>4. frames'[t] = s /\ \A u \in Everyone : u # t => frames'[u] = frames[u]
  BY <1>1, <1>3 DEF TypeInv, EndOf
<1>5. CASE Len(frames[t]) = 1
  <2>1. s = <<>> /\ call[t].on = e
    BY <1>1, <1>2, <1>3, <1>5, EmptySeq DEF FrameAt
  <2>2. \A a, x : ~InFrame(t, a)' /\ ~LeftIn(t, a, x)'
    BY <1>4, <2>1 DEF InFrame, LeftIn
  <2>3. \A a : InFrame(t, a) <=> a = e
    BY <1>2, <1>5 DEF InFrame
  <2>4. \A a, x : ~LeftIn(t, a, x)
    BY <1>2, <1>5 DEF LeftIn
  <2>5. QED BY <1>4, <1>5, <2>1, <2>2, <2>3, <2>4
<1>6. CASE Len(frames[t]) = 2
  <2>1. Len(s) = 1 /\ s[1] = frames[t][2]
    BY <1>3, <1>6
  <2>2. e \in Transports /\ frames[t][2].of = call[t].on /\ call[t].on \in Routers
    BY <1>1, <1>2, <1>6 DEF FrameAt
  <2>3. e \notin Routers /\ frames[t][2].of # e
    BY <2>2, Kinds
  <2>4. \A i \in 1 .. 2 : i = 1 \/ i = 2
    OBVIOUS
  <2>5. 1 \in 1 .. Len(frames[t]) /\ 2 \in 1 .. Len(frames[t])
    BY <1>6
  <2>6. \A a : InFrame(t, a) <=> a = e \/ a = frames[t][2].of
    BY <1>2, <1>6, <2>4, <2>5 DEF InFrame
  <2>7. \A a, x : LeftIn(t, a, x) <=> a = frames[t][2].of /\ x \in frames[t][2].left
    BY <1>2, <1>6, <2>4, <2>5 DEF LeftIn
  <2>8. \A a : InFrame(t, a)' <=> a = frames[t][2].of
    BY <1>4, <2>1 DEF InFrame
  <2>9. \A a, x : LeftIn(t, a, x)' <=> a = frames[t][2].of /\ x \in frames[t][2].left
    BY <1>4, <2>1 DEF LeftIn
  <2>10. QED BY <1>4, <1>6, <2>1, <2>3, <2>6, <2>7, <2>8, <2>9
<1>7. Len(frames[t]) \in 1 .. 2
  BY <1>1, <1>3 DEF FrameAt
<1>8. QED BY <1>5, <1>6, <1>7

-----------------------------------------------------------------------------
(* Where calls are, while the worker runs                                  *)

LEMMA PlaceRest ==
  ASSUME NEW u, PlaceAt(u), call'[u] = call[u],
         made \subseteq made', heard \subseteq heard', closed \subseteq closed',
         \A w \in Threads : \A e : Creates(w, e)' => Creates(w, e),
         call[u].op = "create" /\ call[u].on \in made' => call[u].on \in made
  PROVE  PlaceAt(u)'
  BY DEF PlaceAt

LEMMA FrameRest ==
  ASSUME NEW u, FrameAt(u), call'[u] = call[u], frames'[u] = frames[u], closed \subseteq closed'
  PROVE  FrameAt(u)'
  BY DEF FrameAt

\* A call that neither was nor is a cascade.
LEMMA NoFrame ==
  ASSUME TypeInv, BaseInv, NEW t \in Threads, call[t].at # "cascade", call'[t].at # "cascade",
         frames' = frames
  PROVE  FrameAt(t)' /\ frames[t] = <<>>
<1>1. frames[t] = <<>> /\ Len(<<>>) = 0
  BY EmptySeq DEF BaseInv, FrameAt
<1>2. QED BY <1>1 DEF FrameAt

Others(t) == \A u \in Everyone : u # t => call'[u] = call[u] /\ frames'[u] = frames[u]

\* A step of a thread that begins no creation.
LEMMA BaseFrom ==
  ASSUME TypeInv, BaseInv, NEW t \in Threads, Others(t), \A e : Creates(t, e)' => Creates(t, e),
         made \subseteq made', heard \subseteq heard', closed \subseteq closed', Root \notin closed',
         PlaceAt(t)', FrameAt(t)', paused' \subseteq made', muted' \subseteq made',
         \A e \in made' \ made : Creates(t, e),
         \A e \in made' : Creates(t, e) => Creates(t, e)' \/ e \in heard',
         \A e \in alive' : Owner[e] \in alive' \cup {Root}
  PROVE  BaseInv'
<1>1. \A u \in Threads : \A e : Creates(u, e)' => Creates(u, e)
  BY DEF Others, Creates, Everyone
<1>2. \A u \in Threads : PlaceAt(u) /\ FrameAt(u)
  BY DEF BaseInv
<1>3. ASSUME NEW u \in Threads, u # t PROVE PlaceAt(u)' /\ FrameAt(u)'
  <2>1. call'[u] = call[u] /\ frames'[u] = frames[u]
    BY <1>3 DEF Others, Everyone
  <2>2. ASSUME call[u].op = "create", call[u].on \in made', call[u].on \notin made PROVE FALSE
    <3>1. Creates(t, call[u].on) /\ Creates(u, call[u].on)
      BY <2>2 DEF Creates
    <3>2. QED BY <1>2, <1>3, <3>1 DEF PlaceAt, Creates
  <2>3. QED BY <1>1, <1>2, <2>1, <2>2, PlaceRest, FrameRest
<1>4. call'[Main] = Idle /\ frames'[Main] = <<>>
  BY Kinds DEF BaseInv, Others, Everyone
<1>5. ASSUME NEW e \in made'
      PROVE  /\ e \in heard' \/ \E u \in Threads : Creates(u, e)'
             /\ Owner[e] \in made' \cup {Root}
  <2>1. CASE Creates(t, e)
    <3>1. Owner[e] \in made \cup {Root}
      BY <1>2, <2>1 DEF PlaceAt, Creates
    <3>2. QED BY <2>1, <3>1
  <2>2. CASE ~Creates(t, e)
    <3>1. e \in made
      BY <2>2
    <3>2. /\ e \in heard \/ \E u \in Threads : Creates(u, e)
          /\ Owner[e] \in made \cup {Root}
      BY <3>1 DEF BaseInv
    <3>3. ASSUME NEW u \in Threads, Creates(u, e) PROVE Creates(u, e)'
      BY <2>2, <3>3 DEF Others, Creates, Everyone
    <3>4. QED BY <3>2, <3>3
  <2>3. QED BY <2>1, <2>2
<1>6. QED BY <1>3, <1>4, <1>5 DEF BaseInv

LEMMA BaseInit == Init => BaseInv
<1> SUFFICES ASSUME Init PROVE BaseInv
  OBVIOUS
<1>1. PICK s \in SUBSET Servers : made = s /\ listed = s /\ heard = s /\ alive = s
  BY DEF Init
<1>2. /\ closed = {} /\ paused = {} /\ muted = {}
      /\ \A t \in Everyone : call[t] = Idle /\ frames[t] = <<>>
  BY DEF Init, Everyone
<1>3. \A e \in s : Owner[e] = Root
  BY OwnerAssumption
<1>4. \A t \in Threads : PlaceAt(t) /\ FrameAt(t)
  BY <1>2, IdleIsCall, EmptySeq DEF PlaceAt, FrameAt, Everyone
<1>5. QED BY <1>1, <1>2, <1>3, <1>4 DEF BaseInv, Everyone

LEMMA Open == ASSUME BaseInv PROVE Asked = "sent" /\ Walked = {}
  BY IdleIsCall DEF BaseInv, Asked, ChannelClosed, Walked

LEMMA OwnPlace ==
  ASSUME TypeInv, BaseInv, NEW t \in Threads
  PROVE  /\ t \in Everyone /\ PlaceAt(t) /\ FrameAt(t) /\ HandAt(t)
         /\ call[t].op \in Ops /\ call[t].at \in Places /\ call[t].on \in Entities \cup {Root}
         /\ made \subseteq Entities /\ closed \subseteq made /\ heard \subseteq made
         /\ listed \subseteq made /\ alive \subseteq Entities /\ found \subseteq Producers
         /\ paused \subseteq made /\ muted \subseteq made
  BY DEF BaseInv, TypeInv, TypeOK, Everyone

LEMMA CreateMeans ==
  ASSUME TypeInv, BaseInv, NEW t \in Threads, NEW e \in Entities, Create(t, e)
  PROVE  /\ call[t] = Idle /\ e \notin made /\ Others(t)
         /\ call'[t].op = "create" /\ call'[t].on = e /\ call'[t].at = "sent"
         /\ \A u \in Threads : ~Creates(u, e) /\ ~Creates(u, Owner[e])
         /\ Owner[e] \in made \cup {Root}
         /\ frames[t] = <<>>
         /\ UNCHANGED <<made, closed, listed, heard, found, paused, frames, alive, muted, running>>
<1>1. PICK c : c = [op |-> "create", on |-> e, at |-> "sent"]
  OBVIOUS
<1>2. c \in Call
  BY <1>1 DEF Call, Ops, Places
<1>3. call' = [call EXCEPT ![t] = c]
  BY <1>1, Open DEF Create
<1>4. call'[t] = c /\ \A u \in Everyone : u # t => call'[u] = call[u]
  BY <1>2, <1>3, CallIs DEF Everyone
<1>5. frames[t] = <<>>
  BY OwnPlace, IdleIsCall DEF Create, FrameAt
<1>6. QED BY <1>1, <1>4, <1>5 DEF Create, Others, Creates

LEMMA BaseCreate ==
  ASSUME TypeInv, BaseInv, NEW t \in Threads, NEW e \in Entities, Create(t, e)
  PROVE  BaseInv'
<1>1. /\ call[t] = Idle /\ e \notin made /\ Others(t)
      /\ call'[t].op = "create" /\ call'[t].on = e /\ call'[t].at = "sent"
      /\ \A u \in Threads : ~Creates(u, e) /\ ~Creates(u, Owner[e])
      /\ Owner[e] \in made \cup {Root}
      /\ frames[t] = <<>>
      /\ UNCHANGED <<made, closed, listed, heard, found, paused, frames, alive, muted, running>>
  BY CreateMeans
<1>2. \A u \in Threads : u # t => call'[u] = call[u]
  BY <1>1 DEF Others, Everyone
<1>3. \A u \in Threads : \A f : Creates(u, f)' <=> Creates(u, f) \/ (u = t /\ f = e)
  BY <1>1, <1>2, IdleIsCall DEF Creates
<1>4. Owner[e] # e /\ e # Root
  BY AboveIs, Kinds
<1>5. PlaceAt(t)'
  BY <1>1, <1>3, <1>4 DEF PlaceAt
<1>6. FrameAt(t)'
  BY <1>1, EmptySeq DEF FrameAt
<1>7. ASSUME NEW u \in Threads, u # t PROVE PlaceAt(u)' /\ FrameAt(u)'
  <2>1. PlaceAt(u) /\ FrameAt(u) /\ call'[u] = call[u] /\ HandAt(u)
    BY <1>2, <1>7, OwnPlace
  <2>2. call[u].op = "create" =>
          /\ \A w \in Threads : ~Creates(w, Owner[call[u].on])'
          /\ \A w \in Threads : Creates(w, call[u].on)' => w = u
    <3>1. SUFFICES ASSUME call[u].op = "create"
                   PROVE  /\ \A w \in Threads : ~Creates(w, Owner[call[u].on])'
                          /\ \A w \in Threads : Creates(w, call[u].on)' => w = u
      OBVIOUS
    <3>2. call[u].on # e
      BY <1>1, <3>1 DEF Creates
    <3>3. Owner[call[u].on] # e
      BY <1>1, <1>4, <2>1, <3>1 DEF PlaceAt
    <3>4. QED BY <1>3, <2>1, <3>1, <3>2, <3>3 DEF PlaceAt
  <2>3. call[u].op = "close" => \A w \in Threads : ~Creates(w, call[u].on)'
    BY <1>1, <1>3, <2>1 DEF PlaceAt
  <2>4. PlaceAt(u)'
    BY <1>1, <2>1, <2>2, <2>3 DEF PlaceAt
  <2>5. QED BY <1>1, <2>1, <2>4, FrameRest
<1>8. call'[Main] = Idle
  BY <1>1, Kinds DEF BaseInv, Others, Everyone
<1>9. \A f \in made : f \in heard \/ \E u \in Threads : Creates(u, f)'
  BY <1>3 DEF BaseInv
<1>10. QED BY <1>1, <1>5, <1>6, <1>7, <1>8, <1>9 DEF BaseInv

Became(t, at) ==
  call'[t].op = call[t].op /\ call'[t].on = call[t].on /\ call'[t].at = at /\ Others(t)

Ended(t) == call'[t] = Idle /\ Others(t)

LEMMA Calls1 ==
  ASSUME TypeInv, NEW t \in Threads, frames' = frames
  PROVE  /\ \A at \in Places : Goto(t, at) => Became(t, at)
         /\ Return(t) => Ended(t)
<1>1. t \in Everyone
  BY DEF Everyone
<1>2. ASSUME NEW at \in Places, Goto(t, at) PROVE Became(t, at)
  BY <1>1, <1>2, GotoIs DEF Became, Others
<1>3. ASSUME Return(t) PROVE Ended(t)
  BY <1>1, <1>3, ReturnIs DEF Ended, Others
<1>4. QED BY <1>2, <1>3

LEMMA CloseTestMeans ==
  ASSUME TypeInv, BaseInv, NEW t \in Threads, NEW e \in Entities, CloseTest(t, e)
  PROVE  /\ call[t] = Idle /\ Others(t)
         /\ call'[t].op = "close" /\ call'[t].on = e /\ call'[t].at = "test"
         /\ e \in made /\ \A u \in Threads : ~Creates(u, e)
         /\ UNCHANGED <<made, closed, listed, heard, found, paused, frames, alive, muted, running>>
<1>1. PICK c : c = [op |-> "close", on |-> e, at |-> "test"]
  OBVIOUS
<1>2. c \in Call
  BY <1>1 DEF Call, Ops, Places
<1>3. call'[t] = c /\ \A u \in Everyone : u # t => call'[u] = call[u]
  BY <1>1, <1>2, CallIs DEF Everyone, CloseTest
<1>4. QED BY <1>1, <1>3, OwnPlace DEF CloseTest, Others, Creates

LEMMA PauseMeans ==
  ASSUME TypeInv, BaseInv, NEW t \in Threads, NEW p \in Producers, Pause(t, p)
  PROVE  /\ call[t] = Idle /\ Others(t)
         /\ call'[t].op \in {"pause", "resume"} /\ call'[t].on = p /\ call'[t].at = "sent"
         /\ p \in made
         /\ UNCHANGED <<made, closed, listed, heard, found, paused, frames, alive, muted, running>>
<1>0. PICK op \in {"pause", "resume"} :
         call' = [call EXCEPT ![t] = [op |-> op, on |-> p, at |-> "sent"]]
  BY Open DEF Pause
<1>1. PICK c : c = [op |-> op, on |-> p, at |-> "sent"] /\ call' = [call EXCEPT ![t] = c]
  BY <1>0
<1>2. c \in Call
  BY <1>1, Kinds DEF Call, Ops, Places
<1>3. call'[t] = c /\ \A u \in Everyone : u # t => call'[u] = call[u]
  BY <1>1, <1>2, CallIs DEF Everyone
<1>4. QED BY <1>1, <1>3 DEF Pause, Others

LEMMA BuildMeans ==
  ASSUME TypeInv, BaseInv, NEW t \in Threads, Build(t)
  PROVE  /\ call[t].op = "create" /\ call[t].at = "ok" /\ Became(t, "built")
         /\ call[t].on \in Entities
         /\ made' = made \cup {call[t].on} /\ listed' = listed \cup {call[t].on}
         /\ UNCHANGED <<closed, heard, found, paused, frames, alive, muted, running>>
<1>1. call[t].op = "create" /\ call[t].at = "ok" /\ call[t].on \in Entities
  BY OwnPlace DEF Build, PlaceAt, HandAt
<1>2. Became(t, "built")
  BY Calls1 DEF Build, Places
<1>3. QED BY <1>1, <1>2 DEF Build

LEMMA ConnectMeans ==
  ASSUME TypeInv, BaseInv, NEW t \in Threads, Connect(t)
  PROVE  /\ call[t].op = "create" /\ call[t].at = "built" /\ call[t].on \in made
         /\ IF call[t].on \in Producers THEN Became(t, "connected") ELSE Ended(t)
         /\ heard' = heard \cup {call[t].on}
         /\ UNCHANGED <<made, closed, listed, found, paused, frames, alive, muted, running>>
<1>1. frames' = frames /\ "connected" \in Places
  BY DEF Connect, Places
<1>2. IF call[t].on \in Producers THEN Became(t, "connected") ELSE Ended(t)
  BY <1>1, Calls1 DEF Connect
<1>3. QED BY <1>2, OwnPlace DEF Connect, PlaceAt

LEMMA AnnounceMeans ==
  ASSUME TypeInv, BaseInv, NEW t \in Threads, Announce(t)
  PROVE  /\ call[t].op = "create" /\ call[t].at = "connected"
         /\ call[t].on \in Producers /\ call[t].on \in made /\ call[t].on \in heard
         /\ Ended(t)
         /\ found' = found \cup {call[t].on}
         /\ UNCHANGED <<made, closed, listed, heard, paused, frames, alive, muted, running>>
<1>1. /\ call[t].op = "create" /\ call[t].at = "connected"
      /\ call[t].on \in Producers /\ call[t].on \in made /\ call[t].on \in heard
      /\ \A u \in Threads : ~Creates(u, Owner[call[t].on])
      /\ Owner[call[t].on] \in made \cup {Root}
  BY OwnPlace DEF Announce, HandAt, PlaceAt
<1>2. Owner[call[t].on] \in made
  BY <1>1, OwnPlace, Kinds
<1>3. Owner[call[t].on] \in heard
  BY <1>1, <1>2 DEF BaseInv
<1>4. Ended(t)
  BY Calls1 DEF Announce
<1>5. QED BY <1>1, <1>3, <1>4 DEF Announce

LEMMA HandleCreateMeans ==
  ASSUME TypeInv, BaseInv, NEW t \in Threads, HandleCreate(t)
  PROVE  LET ok == Owner[call[t].on] \in alive \cup {Root} IN
         /\ call[t].op = "create" /\ call[t].at = "sent" /\ call[t].on \in Entities
         /\ call[t].on \notin made
         /\ Became(t, IF ok THEN "ok" ELSE "error")
         /\ alive' = IF ok THEN alive \cup {call[t].on} ELSE alive
         /\ UNCHANGED <<made, closed, listed, heard, found, paused, frames, muted, running>>
<1> DEFINE ok == Owner[call[t].on] \in alive \cup {Root}
<1>1. /\ call[t].op = "create" /\ call[t].at = "sent" /\ Goto(t, IF ok THEN "ok" ELSE "error")
      /\ frames' = frames
  BY DEF HandleCreate, Handles
<1>2. (IF ok THEN "ok" ELSE "error") \in Places
  BY DEF Places
<1>3. Became(t, IF ok THEN "ok" ELSE "error")
  BY <1>1, <1>2, Calls1
<1>4. call[t].on \in Entities /\ call[t].on \notin made
  BY <1>1, OwnPlace DEF HandAt, PlaceAt
<1>5. QED BY <1>1, <1>3, <1>4 DEF HandleCreate

LEMMA HandleCloseMeans ==
  ASSUME TypeInv, BaseInv, NEW t \in Threads, HandleClose(t)
  PROVE  LET a == call[t].on IN
         /\ ClosesAt(t, a, {"sent"}) /\ a \in made /\ a \in closed /\ a \in Entities
         /\ Became(t, IF a \in alive THEN "ok" ELSE "error")
         /\ alive' = alive \ Below(a)
         /\ a \notin alive => alive' = alive
         /\ UNCHANGED <<made, closed, listed, heard, found, paused, frames, muted, running>>
<1> DEFINE a == call[t].on
<1>1. /\ call[t].op = "close" /\ call[t].at = "sent" /\ Goto(t, IF a \in alive THEN "ok" ELSE "error")
      /\ frames' = frames /\ alive' = alive \ Below(a)
  BY DEF HandleClose, Handles
<1>2. (IF a \in alive THEN "ok" ELSE "error") \in Places
  BY DEF Places
<1>3. Became(t, IF a \in alive THEN "ok" ELSE "error")
  BY <1>1, <1>2, Calls1
<1>4. a \in made /\ a \in closed /\ a \in Entities
  BY <1>1, OwnPlace DEF PlaceAt
<1>5. ASSUME a \notin alive PROVE alive' = alive
  <2>1. ASSUME NEW e \in alive, a \in Above[e] PROVE FALSE
    <3>1. e \in Entities /\ e # a
      BY <1>5, <2>1, OwnPlace
    <3>2. a = Owner[e] \/ a = Owner[Owner[e]]
      BY <2>1, <3>1, AboveIs
    <3>3. Owner[e] \in alive \cup {Root}
      BY DEF BaseInv
    <3>4. CASE a = Owner[e]
      BY <1>4, <1>5, <3>3, <3>4, Kinds
    <3>5. CASE a # Owner[e]
      <4>1. Owner[e] \in alive
        BY <2>1, <3>1, <3>3, <3>5, AboveIs, Kinds
      <4>2. Owner[Owner[e]] \in alive \cup {Root}
        BY <4>1 DEF BaseInv
      <4>3. QED BY <1>4, <1>5, <3>2, <3>5, <4>2, Kinds
    <3>6. QED BY <3>4, <3>5
  <2>2. QED BY <1>1, <2>1, BelowIs
<1>6. QED BY <1>1, <1>3, <1>4, <1>5 DEF HandleClose, ClosesAt

LEMMA HandlePauseMeans ==
  ASSUME TypeInv, BaseInv, NEW t \in Threads, HandlePause(t)
  PROVE  LET p == call[t].on IN
         /\ call[t].op \in {"pause", "resume"} /\ call[t].at = "sent" /\ p \in made
         /\ Became(t, IF p \in alive THEN "ok" ELSE "error")
         /\ muted' = IF p \notin alive THEN muted
                     ELSE IF call[t].op = "pause" THEN muted \cup {p} ELSE muted \ {p}
         /\ UNCHANGED <<made, closed, listed, heard, found, paused, frames, alive, running>>
<1> DEFINE p == call[t].on
<1>1. /\ call[t].op \in {"pause", "resume"} /\ call[t].at = "sent"
      /\ Goto(t, IF p \in alive THEN "ok" ELSE "error") /\ frames' = frames
  BY DEF HandlePause, Handles
<1>2. (IF p \in alive THEN "ok" ELSE "error") \in Places
  BY DEF Places
<1>3. Became(t, IF p \in alive THEN "ok" ELSE "error")
  BY <1>1, <1>2, Calls1
<1>4. p \in made
  BY <1>1, OwnPlace DEF PlaceAt
<1>5. QED BY <1>1, <1>3, <1>4 DEF HandlePause

LEMMA ThrowMeans ==
  ASSUME TypeInv, BaseInv, NEW t \in Threads, Throw(t)
  PROVE  /\ call[t].at = "error" /\ Ended(t)
         /\ UNCHANGED <<made, closed, listed, heard, found, paused, frames, alive, muted, running>>
  BY Calls1 DEF Throw

LEMMA PausedMeans ==
  ASSUME TypeInv, BaseInv, NEW t \in Threads, Paused(t)
  PROVE  /\ call[t].op \in {"pause", "resume"} /\ call[t].at = "ok" /\ Ended(t)
         /\ call[t].on \in made
         /\ paused' = IF call[t].op = "pause" THEN paused \cup {call[t].on} ELSE paused \ {call[t].on}
         /\ UNCHANGED <<made, closed, listed, heard, found, frames, alive, muted, running>>
  BY Calls1, OwnPlace DEF Paused, PlaceAt

LEMMA CloseSetMeans ==
  ASSUME TypeInv, BaseInv, NEW t \in Threads, CloseSet(t)
  PROVE  /\ ClosesAt(t, call[t].on, {"test"}) /\ Became(t, "sent")
         /\ call[t].on \in made /\ call[t].on \in Entities
         /\ closed' = closed \cup {call[t].on}
         /\ UNCHANGED <<made, listed, heard, found, paused, frames, alive, muted, running>>
<1>1. Goto(t, "sent") /\ frames' = frames /\ "sent" \in Places
  BY Open DEF CloseSet, Places
<1>2. Became(t, "sent")
  BY <1>1, Calls1
<1>3. QED BY <1>2, OwnPlace DEF CloseSet, ClosesAt, PlaceAt

LEMMA CascadeMeans ==
  ASSUME TypeInv, BaseInv, NEW t \in Threads, Cascade(t)
  PROVE  /\ ClosesAt(t, call[t].on, {"ok"}) /\ Became(t, "cascade")
         /\ call[t].on \in made /\ call[t].on \in closed /\ call[t].on \in Entities
         /\ UNCHANGED <<made, closed, listed, heard, found, paused, alive, muted, running>>
<1>1. call[t].op = "close" /\ call[t].at = "ok" /\ call[t].on \in closed /\ call[t].on \in Entities
      /\ call[t].on \in made
  BY OwnPlace DEF Cascade, PlaceAt
<1>2. Goto(t, "cascade") /\ "cascade" \in Places /\ t \in Everyone
  BY DEF Cascade, Places, Everyone
<1>3. /\ call'[t].op = call[t].op /\ call'[t].on = call[t].on /\ call'[t].at = "cascade"
      /\ \A u \in Everyone : u # t => call'[u] = call[u]
  BY <1>2, GotoIs
<1>4. \A u \in Everyone : u # t => frames'[u] = frames[u]
  BY CascadeLoops
<1>5. QED BY <1>1, <1>3, <1>4 DEF Became, Others, ClosesAt, Cascade

\* A step that leaves the loops alone, of a thread outside of any.
LEMMA BasePlain ==
  ASSUME TypeInv, BaseInv, NEW t \in Threads, Others(t), frames' = frames,
         call[t].at # "cascade", call'[t].at # "cascade", \A e : Creates(t, e)' => Creates(t, e),
         made \subseteq made', heard \subseteq heard', closed \subseteq closed', Root \notin closed',
         PlaceAt(t)', paused' \subseteq made', muted' \subseteq made',
         \A e \in made' \ made : Creates(t, e),
         \A e \in made' : Creates(t, e) => Creates(t, e)' \/ e \in heard',
         \A e \in alive' : Owner[e] \in alive' \cup {Root}
  PROVE  BaseInv'
<1>1. FrameAt(t)'
  BY NoFrame
<1>2. QED BY <1>1, BaseFrom

LEMMA Creating ==
  ASSUME TypeInv, BaseInv, NEW t \in Threads, Others(t), \A e : Creates(t, e)' => Creates(t, e)
  PROVE  \A u \in Threads : \A e : Creates(u, e)' => Creates(u, e)
  BY DEF Others, Creates, Everyone

LEMMA BaseEnded ==
  ASSUME TypeInv, BaseInv, NEW t \in Threads, Ended(t), frames' = frames, call[t].at # "cascade",
         made' = made, heard \subseteq heard', closed' = closed, alive' = alive,
         paused' \subseteq made, muted' \subseteq made,
         \A e \in made : Creates(t, e) => e \in heard'
  PROVE  BaseInv'
<1>1. \A e : ~Creates(t, e)'
  BY IdleIsCall DEF Ended, Creates
<1>2. PlaceAt(t)'
  BY IdleIsCall DEF Ended, PlaceAt
<1>3. call'[t].at # "cascade" /\ Others(t)
  BY IdleIsCall DEF Ended
<1>4. Root \notin closed' /\ \A e \in alive' : Owner[e] \in alive' \cup {Root}
  BY DEF BaseInv
<1>5. QED BY <1>1, <1>2, <1>3, <1>4, BasePlain

LEMMA BaseCalls ==
  ASSUME TypeInv, BaseInv, NEW t \in Threads, Begin(t)
  PROVE  BaseInv'
<1>1. ASSUME NEW e \in Entities, CloseTest(t, e) PROVE BaseInv'
  <2>1. /\ call[t] = Idle /\ Others(t)
        /\ call'[t].op = "close" /\ call'[t].on = e /\ call'[t].at = "test"
        /\ e \in made /\ \A u \in Threads : ~Creates(u, e)
        /\ UNCHANGED <<made, closed, listed, heard, found, paused, frames, alive, muted, running>>
    BY <1>1, CloseTestMeans
  <2>2. \A x : ~Creates(t, x)' /\ ~Creates(t, x)
    BY <2>1, IdleIsCall DEF Creates
  <2>3. \A u \in Threads : \A x : Creates(u, x)' => Creates(u, x)
    BY <2>1, <2>2, Creating
  <2>4. PlaceAt(t)'
    BY <2>1, <2>3 DEF PlaceAt
  <2>5. QED BY <2>1, <2>2, <2>4, IdleIsCall, BasePlain DEF BaseInv
<1>2. ASSUME NEW p \in Producers, Pause(t, p) PROVE BaseInv'
  <2>1. /\ call[t] = Idle /\ Others(t)
        /\ call'[t].op \in {"pause", "resume"} /\ call'[t].on = p /\ call'[t].at = "sent"
        /\ p \in made
        /\ UNCHANGED <<made, closed, listed, heard, found, paused, frames, alive, muted, running>>
    BY <1>2, PauseMeans
  <2>2. \A x : ~Creates(t, x)' /\ ~Creates(t, x)
    BY <2>1, IdleIsCall DEF Creates
  <2>3. PlaceAt(t)'
    BY <2>1 DEF PlaceAt
  <2>4. QED BY <2>1, <2>2, <2>3, IdleIsCall, BasePlain DEF BaseInv
<1>3. QED BY <1>1, <1>2, BaseCreate DEF Begin

LEMMA BaseCreating ==
  ASSUME TypeInv, BaseInv, NEW t \in Threads, Build(t) \/ Connect(t) \/ Announce(t) \/ HandleCreate(t)
  PROVE  BaseInv'
<1> DEFINE e == call[t].on
<1>0. PlaceAt(t)
  BY OwnPlace
<1>1. CASE Build(t)
  <2>1. /\ call[t].op = "create" /\ call[t].at = "ok" /\ Became(t, "built") /\ e \in Entities
        /\ made' = made \cup {e}
        /\ UNCHANGED <<closed, heard, found, paused, frames, alive, muted, running>>
    BY <1>1, BuildMeans
  <2>2. /\ Creates(t, e) /\ Creates(t, e)' /\ \A x : Creates(t, x)' => Creates(t, x)
        /\ \A x : Creates(t, x) => x = e
        /\ Others(t)
    BY <2>1 DEF Became, Creates
  <2>3. \A u \in Threads : \A x : Creates(u, x)' => Creates(u, x)
    BY <2>2, Creating
  <2>4. PlaceAt(t)'
    BY <1>0, <2>1, <2>2, <2>3 DEF PlaceAt, Became
  <2>5. call'[t].at # "cascade"
    BY <2>1 DEF Became
  <2>6. /\ Root \notin closed' /\ \A x \in alive' : Owner[x] \in alive' \cup {Root}
        /\ paused' \subseteq made' /\ muted' \subseteq made'
    BY <2>1 DEF BaseInv
  <2>7. QED BY <2>1, <2>2, <2>4, <2>5, <2>6, BasePlain
<1>2. CASE Connect(t)
  <2>1. /\ call[t].op = "create" /\ call[t].at = "built" /\ e \in made
        /\ IF e \in Producers THEN Became(t, "connected") ELSE Ended(t)
        /\ heard' = heard \cup {e}
        /\ UNCHANGED <<made, closed, listed, found, paused, frames, alive, muted, running>>
    BY <1>2, ConnectMeans
  <2>2. \A x : Creates(t, x) => x \in heard'
    BY <2>1 DEF Creates
  <2>3. paused' \subseteq made' /\ muted' \subseteq made' /\ Root \notin closed'
        /\ \A x \in alive' : Owner[x] \in alive' \cup {Root}
    BY <2>1 DEF BaseInv
  <2>4. CASE e \in Producers
    <3>1. Became(t, "connected")
      BY <2>1, <2>4
    <3>2. /\ \A x : Creates(t, x)' => Creates(t, x)
          /\ Others(t) /\ call'[t].at = "connected"
      BY <2>1, <3>1 DEF Became, Creates
    <3>3. \A u \in Threads : \A x : Creates(u, x)' => Creates(u, x)
      BY <3>2, Creating
    <3>4. PlaceAt(t)'
      BY <1>0, <2>1, <3>1, <3>3 DEF PlaceAt, Became
    <3>5. QED BY <2>1, <2>2, <2>3, <3>2, <3>4, BasePlain
  <2>5. CASE e \notin Producers
    BY <2>1, <2>2, <2>3, <2>5, BaseEnded
  <2>6. QED BY <2>4, <2>5
<1>3. CASE Announce(t)
  <2>1. /\ call[t].op = "create" /\ call[t].at = "connected" /\ e \in heard
        /\ Ended(t)
        /\ UNCHANGED <<made, closed, listed, heard, paused, frames, alive, muted, running>>
    BY <1>3, AnnounceMeans
  <2>2. \A x : Creates(t, x) => x \in heard'
    BY <2>1 DEF Creates
  <2>3. QED BY <2>1, <2>2, BaseEnded DEF BaseInv
<1>4. CASE HandleCreate(t)
  <2> DEFINE ok == Owner[e] \in alive \cup {Root}
  <2>1. /\ call[t].op = "create" /\ call[t].at = "sent"
        /\ Became(t, IF ok THEN "ok" ELSE "error")
        /\ alive' = IF ok THEN alive \cup {e} ELSE alive
        /\ UNCHANGED <<made, closed, listed, heard, found, paused, frames, muted, running>>
    BY <1>4, HandleCreateMeans
  <2>2. PICK at \in {"ok", "error"} : Became(t, at)
    BY <2>1
  <2>3. /\ \A x : Creates(t, x)' <=> Creates(t, x)
        /\ Others(t) /\ call'[t].at # "cascade"
    BY <2>2 DEF Became, Creates
  <2>4. \A u \in Threads : \A x : Creates(u, x)' => Creates(u, x)
    BY <2>3, Creating
  <2>5. PlaceAt(t)'
    BY <1>0, <2>1, <2>2, <2>4 DEF PlaceAt, Became
  <2>6. /\ Root \notin closed' /\ \A x \in alive' : Owner[x] \in alive' \cup {Root}
        /\ paused' \subseteq made' /\ muted' \subseteq made'
    BY <2>1 DEF BaseInv
  <2>7. QED BY <2>1, <2>3, <2>5, <2>6, BasePlain
<1>5. QED BY <1>1, <1>2, <1>3, <1>4

LEMMA BaseAnswers ==
  ASSUME TypeInv, BaseInv, NEW t \in Threads,
         HandleClose(t) \/ HandlePause(t) \/ Throw(t) \/ Paused(t) \/ CloseSet(t)
  PROVE  BaseInv'
<1> DEFINE e == call[t].on
<1>0. PlaceAt(t)
  BY OwnPlace
<1>1. CASE HandleClose(t)
  <2>1. /\ ClosesAt(t, e, {"sent"}) /\ e \in made /\ e \in closed /\ e \in Entities
        /\ Became(t, IF e \in alive THEN "ok" ELSE "error")
        /\ alive' = alive \ Below(e)
        /\ UNCHANGED <<made, closed, listed, heard, found, paused, frames, muted, running>>
    BY <1>1, HandleCloseMeans
  <2>2. PICK at \in {"ok", "error"} : Became(t, at)
    BY <2>1
  <2>3. /\ \A x : ~Creates(t, x)' /\ ~Creates(t, x)
        /\ Others(t) /\ call'[t].at # "cascade" /\ call[t].at # "cascade"
    BY <2>1, <2>2 DEF Became, Creates, ClosesAt
  <2>4. \A u \in Threads : \A x : Creates(u, x)' => Creates(u, x)
    BY <2>3, Creating
  <2>5. PlaceAt(t)'
    BY <1>0, <2>1, <2>2, <2>4 DEF PlaceAt, Became, ClosesAt
  <2>6. ASSUME NEW x \in alive' PROVE Owner[x] \in alive' \cup {Root}
    <3>1. x \in alive /\ x \in Entities /\ e \notin Above[x]
      BY <2>1, <2>6, BelowIs, OwnPlace
    <3>2. Owner[x] \in alive \cup {Root}
      BY <3>1 DEF BaseInv
    <3>3. Owner[x] # Root => e \notin Above[Owner[x]] /\ Owner[x] \in Entities
      BY <3>1, <3>2, AboveIs, OwnPlace
    <3>4. QED BY <2>1, <3>2, <3>3, BelowIs
  <2>7. Root \notin closed' /\ paused' \subseteq made' /\ muted' \subseteq made'
    BY <2>1 DEF BaseInv
  <2>8. QED BY <2>1, <2>3, <2>5, <2>6, <2>7, BasePlain
<1>2. CASE HandlePause(t)
  <2>1. /\ call[t].op \in {"pause", "resume"} /\ call[t].at = "sent" /\ e \in made
        /\ Became(t, IF e \in alive THEN "ok" ELSE "error")
        /\ muted' \subseteq muted \cup {e}
        /\ UNCHANGED <<made, closed, listed, heard, found, paused, frames, alive, running>>
    BY <1>2, HandlePauseMeans
  <2>2. PICK at \in {"ok", "error"} : Became(t, at)
    BY <2>1
  <2>3. /\ \A x : ~Creates(t, x)' /\ ~Creates(t, x)
        /\ Others(t) /\ call'[t].at # "cascade"
    BY <2>1, <2>2 DEF Became, Creates
  <2>4. PlaceAt(t)'
    BY <1>0, <2>1, <2>2 DEF PlaceAt, Became
  <2>5. /\ Root \notin closed' /\ \A x \in alive' : Owner[x] \in alive' \cup {Root}
        /\ paused' \subseteq made' /\ muted' \subseteq made'
    BY <2>1 DEF BaseInv
  <2>6. QED BY <2>1, <2>3, <2>4, <2>5, BasePlain
<1>3. CASE Throw(t)
  <2>1. /\ call[t].at = "error" /\ Ended(t)
        /\ UNCHANGED <<made, closed, listed, heard, found, paused, frames, alive, muted, running>>
    BY <1>3, ThrowMeans
  <2>2. \A x \in made : ~Creates(t, x)
    BY <1>0, <2>1 DEF PlaceAt, Creates
  <2>3. QED BY <2>1, <2>2, BaseEnded DEF BaseInv
<1>4. CASE Paused(t)
  <2>1. /\ call[t].op \in {"pause", "resume"} /\ call[t].at = "ok" /\ Ended(t) /\ e \in made
        /\ paused' \subseteq paused \cup {e}
        /\ UNCHANGED <<made, closed, listed, heard, found, frames, alive, muted, running>>
    BY <1>4, PausedMeans
  <2>2. \A x \in made : ~Creates(t, x)
    BY <2>1 DEF Creates
  <2>3. paused' \subseteq made /\ muted' \subseteq made
    BY <2>1, OwnPlace
  <2>4. QED BY <2>1, <2>2, <2>3, BaseEnded
<1>5. CASE CloseSet(t)
  <2>1. /\ ClosesAt(t, e, {"test"}) /\ Became(t, "sent") /\ e \in made /\ e \in Entities
        /\ closed' = closed \cup {e}
        /\ UNCHANGED <<made, listed, heard, found, paused, frames, alive, muted, running>>
    BY <1>5, CloseSetMeans
  <2>2. /\ \A x : ~Creates(t, x)' /\ ~Creates(t, x)
        /\ Others(t) /\ call'[t].at # "cascade" /\ call[t].at # "cascade"
    BY <2>1 DEF Became, Creates, ClosesAt
  <2>3. \A u \in Threads : \A x : Creates(u, x)' => Creates(u, x)
    BY <2>2, Creating
  <2>4. PlaceAt(t)'
    BY <1>0, <2>1, <2>3 DEF PlaceAt, Became, ClosesAt
  <2>5. /\ Root \notin closed' /\ \A x \in alive' : Owner[x] \in alive' \cup {Root}
        /\ paused' \subseteq made' /\ muted' \subseteq made'
    BY <2>1, Kinds DEF BaseInv
  <2>6. QED BY <2>1, <2>2, <2>4, <2>5, BasePlain
<1>6. QED BY <1>1, <1>2, <1>3, <1>4, <1>5

LEMMA BaseCascade ==
  ASSUME TypeInv, BaseInv, NEW t \in Threads, Cascade(t)
  PROVE  BaseInv'
<1> DEFINE e == call[t].on
<1>1. /\ ClosesAt(t, e, {"ok"}) /\ Became(t, "cascade")
      /\ e \in made /\ e \in closed /\ e \in Entities
      /\ UNCHANGED <<made, closed, listed, heard, found, paused, alive, muted, running>>
  BY CascadeMeans
<1>2. Len(frames'[t]) = 1 /\ frames'[t][1].of = e /\ frames'[t][1].left = Owned(e)
  BY CascadeLoops
<1>3. /\ \A x : ~Creates(t, x)' /\ ~Creates(t, x)
      /\ Others(t) /\ call'[t].at = "cascade" /\ call'[t].on = e
  BY <1>1 DEF Became, Creates, ClosesAt
<1>4. \A u \in Threads : \A x : Creates(u, x)' => Creates(u, x)
  BY <1>3, Creating
<1>5. PlaceAt(t)'
  <2>1. PlaceAt(t)
    BY OwnPlace
  <2>2. QED BY <1>1, <1>4, <2>1 DEF PlaceAt, Became, ClosesAt
<1>6. FrameAt(t)'
  <2>1. frames'[t] # <<>>
    BY <1>2, EmptySeq
  <2>2. ASSUME NEW i \in 1 .. Len(frames'[t])
        PROVE  /\ frames'[t][i].of \in closed'
               /\ \A x \in frames'[t][i].left : Owner[x] = frames'[t][i].of
    <3>1. i = 1
      BY <1>2
    <3>2. QED BY <1>1, <1>2, <3>1 DEF Owned
  <2>3. QED BY <1>2, <1>3, <2>1, <2>2 DEF FrameAt
<1>7. /\ Root \notin closed' /\ \A x \in alive' : Owner[x] \in alive' \cup {Root}
      /\ paused' \subseteq made' /\ muted' \subseteq made'
  BY <1>1 DEF BaseInv
<1>8. QED BY <1>1, <1>3, <1>5, <1>6, <1>7, BaseFrom

LEMMA VisitDoes ==
  ASSUME TypeInv, BaseInv, NEW t \in Threads, NEW x, VisitOf(t, x)
  PROVE  /\ Others(t) /\ call' = call
         /\ closed' = closed \cup {x} /\ x # Root
         /\ found' \in {found, found \ {x}} /\ listed' \in {listed, listed \ {x}}
         /\ UNCHANGED <<made, heard, paused, alive, muted, running>>
<1>1. \A u \in Everyone : u # t => frames'[u] = frames[u]
  BY VisitLoops DEF Everyone
<1>2. x # Root
  BY VisitMeans, Kinds
<1>3. QED BY <1>1, <1>2 DEF VisitOf, Others

LEMMA BaseVisit ==
  ASSUME TypeInv, BaseInv, NEW t \in Threads, NEW x, VisitOf(t, x)
  PROVE  BaseInv'
<1>1. /\ Others(t) /\ call' = call /\ closed' = closed \cup {x} /\ x # Root
      /\ UNCHANGED <<made, heard, paused, alive, muted, running>>
  BY VisitDoes
<1>2. PlaceAt(t) /\ FrameAt(t) /\ Len(frames[t]) \in Nat /\ frames[t] # <<>>
  BY OwnPlace DEF TypeInv, VisitOf
<1>3. VisitFrames(t, x, frames'[t])
  BY VisitLoops DEF Everyone
<1>4. \A u \in Threads : \A e : Creates(u, e)' <=> Creates(u, e)
  BY <1>1 DEF Creates
<1>5. PlaceAt(t)'
  BY <1>1, <1>2, <1>4, PlaceRest
<1>6. call[t].at = "cascade" /\ Len(frames[t]) >= 1
  BY <1>2, EmptySeq DEF FrameAt, TypeInv, VisitOf
<1>7. CASE x \in closed \cup Producers
  <2>1. Len(frames'[t]) = Len(frames[t])
        /\ \A i \in 1 .. Len(frames[t]) :
             /\ frames'[t][i].of = frames[t][i].of
             /\ frames'[t][i].left \subseteq frames[t][i].left
    BY <1>3, <1>7 DEF VisitFrames
  <2>2. frames'[t] # <<>>
    BY <1>6, <2>1, EmptySeq
  <2>3. ASSUME NEW i \in 1 .. Len(frames'[t])
        PROVE  /\ frames'[t][i].of \in closed'
               /\ \A y \in frames'[t][i].left : Owner[y] = frames'[t][i].of
    BY <1>1, <1>2, <2>1 DEF FrameAt
  <2>4. frames'[t][Len(frames'[t])].of = call'[t].on
    BY <1>1, <1>2, <1>6, <2>1 DEF FrameAt
  <2>5. Len(frames'[t]) = 2 => /\ call'[t].on \in Routers
                               /\ frames'[t][1].of \in Transports
                               /\ Owner[frames'[t][1].of] = call'[t].on
    BY <1>1, <1>2, <2>1 DEF FrameAt
  <2>6. Len(frames'[t]) \in 0 .. 2
    BY <1>2, <2>1 DEF FrameAt
  <2>7. FrameAt(t)'
    BY <1>1, <1>6, <2>2, <2>3, <2>4, <2>5, <2>6 DEF FrameAt
  <2>8. QED BY <1>1, <1>4, <1>5, <2>7, BaseFrom DEF BaseInv
<1>8. CASE x \notin closed \cup Producers
  <2> DEFINE s == frames'[t]
  <2>1. x \in Transports /\ Len(frames[t]) = 1 /\ Owner[x] = call[t].on /\ call[t].on \in Routers
    BY <1>8, VisitMeans
  <2>2. /\ Len(s) = 2 /\ s[1].of = x /\ s[1].left = Owned(x)
        /\ s[2].of = frames[t][1].of /\ s[2].left \subseteq frames[t][1].left
    BY <1>3, <1>8, <2>1 DEF VisitFrames
  <2>3. /\ frames[t][1].of = call[t].on /\ call[t].on \in closed
        /\ \A y \in frames[t][1].left : Owner[y] = call[t].on
    BY <1>2, <2>1 DEF FrameAt
  <2>4. s # <<>>
    BY <2>2, EmptySeq
  <2>5. ASSUME NEW i \in 1 .. Len(s)
        PROVE  s[i].of \in closed' /\ \A y \in s[i].left : Owner[y] = s[i].of
    <3>1. i = 1 \/ i = 2
      BY <2>2
    <3>2. CASE i = 1
      BY <1>1, <2>2, <3>2 DEF Owned
    <3>3. CASE i = 2
      BY <1>1, <2>2, <2>3, <3>3
    <3>4. QED BY <3>1, <3>2, <3>3
  <2>6. FrameAt(t)'
    BY <1>1, <1>6, <2>1, <2>2, <2>3, <2>4, <2>5 DEF FrameAt
  <2>7. QED BY <1>1, <1>4, <1>5, <2>6, BaseFrom DEF BaseInv
<1>9. QED BY <1>7, <1>8

LEMMA EndDoes ==
  ASSUME TypeInv, BaseInv, NEW t \in Threads, NEW e, EndOf(t, e)
  PROVE  /\ Others(t)
         /\ ClosesAt(t, call[t].on, {"cascade"})
         /\ IF Len(frames[t]) = 1 THEN call'[t] = Idle ELSE call'[t] = call[t]
         /\ listed' = IF e \in heard THEN listed \ {e} ELSE listed
         /\ found' = {p \in found \ {e} : RouterOf(p) # e}
         /\ UNCHANGED <<made, closed, heard, paused, alive, muted, running>>
<1>1. \A u \in Everyone : u # t => frames'[u] = frames[u]
  BY EndMeans
<1>2. IF Len(frames[t]) = 1 THEN call'[t] = Idle ELSE call'[t] = call[t]
  BY ReturnIs DEF EndOf, Everyone
<1>3. \A u \in Everyone : u # t => call'[u] = call[u]
  BY ReturnIs DEF EndOf, Everyone
<1>4. InFrame(t, e)
  BY EndMeans
<1>5. QED BY <1>1, <1>2, <1>3, <1>4, LoopFacts DEF EndOf, Others

LEMMA BaseEnd ==
  ASSUME TypeInv, BaseInv, NEW t \in Threads, NEW e, EndOf(t, e)
  PROVE  BaseInv'
<1>1. /\ Others(t) /\ ClosesAt(t, call[t].on, {"cascade"})
      /\ IF Len(frames[t]) = 1 THEN call'[t] = Idle ELSE call'[t] = call[t]
      /\ UNCHANGED <<made, closed, heard, paused, alive, muted, running>>
  BY EndDoes
<1>2. PlaceAt(t) /\ FrameAt(t)
  BY OwnPlace
<1>3. \A x : ~Creates(t, x) /\ ~Creates(t, x)'
  BY <1>1, IdleIsCall DEF Creates, ClosesAt
<1>4. \A u \in Threads : \A x : Creates(u, x)' => Creates(u, x)
  BY <1>1, <1>3, Creating
<1>5. /\ Len(frames[t]) \in 1 .. 2
      /\ Len(frames[t]) = 1 => frames'[t] = <<>>
      /\ Len(frames[t]) = 2 => Len(frames'[t]) = 1 /\ frames'[t][1] = frames[t][2]
  BY EndMeans
<1>6. Root \notin closed' /\ \A x \in alive' : Owner[x] \in alive' \cup {Root}
  BY <1>1 DEF BaseInv
<1>7. CASE Len(frames[t]) = 1
  <2>1. call'[t] = Idle /\ frames'[t] = <<>>
    BY <1>1, <1>5, <1>7
  <2>2. PlaceAt(t)'
    BY <2>1, IdleIsCall DEF PlaceAt
  <2>3. FrameAt(t)'
    BY <2>1, IdleIsCall, EmptySeq DEF FrameAt
  <2>4. QED BY <1>1, <1>3, <1>6, <2>2, <2>3, BaseFrom DEF BaseInv
<1>8. CASE Len(frames[t]) = 2
  <2>1. call'[t] = call[t] /\ Len(frames'[t]) = 1 /\ frames'[t][1] = frames[t][2]
    BY <1>1, <1>5, <1>8
  <2>2. PlaceAt(t)'
    BY <1>1, <1>2, <1>4, <2>1, PlaceRest DEF ClosesAt
  <2>3. /\ frames[t][2].of = call[t].on /\ frames[t][2].of \in closed
        /\ \A y \in frames[t][2].left : Owner[y] = frames[t][2].of
        /\ call[t].at = "cascade"
    BY <1>1, <1>2, <1>8, EmptySeq DEF FrameAt, ClosesAt
  <2>4. frames'[t] # <<>>
    BY <2>1, EmptySeq
  <2>5. FrameAt(t)'
    BY <1>1, <2>1, <2>3, <2>4 DEF FrameAt
  <2>6. QED BY <1>1, <1>3, <1>6, <2>2, <2>5, BaseFrom DEF BaseInv
<1>9. QED BY <1>5, <1>7, <1>8

LEMMA BaseStep ==
  ASSUME TypeInv, BaseInv, running, [Next]_vars, running'
  PROVE  BaseInv'
<1>1. ASSUME NEW t \in Threads, Begin(t) \/ Thread(t) PROVE BaseInv'
  <2>1. ~ParseEmpty(t)
    BY OwnPlace DEF ParseEmpty, PlaceAt
  <2>2. t \in Everyone
    BY DEF Everyone
  <2>3. CASE Visit(t)
    BY <2>2, <2>3, VisitIs, BaseVisit
  <2>4. CASE EndLoop(t)
    BY <2>2, <2>4, EndIs, BaseEnd
  <2>5. QED BY <1>1, <2>1, <2>3, <2>4, BaseCalls, BaseCreating, BaseAnswers, BaseCascade DEF Thread
<1>2. ~WorkerStop
  BY DEF WorkerStop
<1>3. ~Stopping
  BY IdleIsCall DEF Stopping, WorkerClose, WorkerWalk, Walk, Visit, EndLoop, WorkerClear, BaseInv
<1>4. CASE UNCHANGED vars
  BY <1>4 DEF vars, BaseInv, PlaceAt, FrameAt, Creates
<1>5. QED BY <1>1, <1>2, <1>3, <1>4 DEF Next

-----------------------------------------------------------------------------
(* Who is alone                                                            *)

LEMMA RaceStep ==
  ASSUME TypeInv, RaceInv, running, [Next]_vars, running'
  PROVE  RaceInv' /\ raced \subseteq raced'
<1>1. CASE UNCHANGED vars
  <2>1. \A t, a : Closes(t, a)' <=> Closes(t, a)
    BY <1>1 DEF vars, Closes
  <2>2. QED BY <1>1, <2>1 DEF vars, RaceInv, Apart
<1>2. CASE Noted
  <2>1. raced' = raced \cup Racing'
    BY <1>2 DEF Noted
  <2>2. ASSUME NEW e \in Entities \ raced', NEW b \in Above[e], NEW t \in Threads,
               call'[t].on = b, call'[t].op \in {"create", "close"},
               NEW u \in Threads, NEW a \in Above[b] \ {b}, Closes(u, a)'
        PROVE  u = t
    <3>1. b \in Entities /\ a \in Entities
      BY <2>2, AboveIs
    <3>2. ~(e \in Racing')
      BY <2>1
    <3>3. ASSUME u # t PROVE e \in Racing'
      <4>1. u \in (Threads \cup {Main}) \ {t}
        BY <3>3
      <4>2. a \in {x \in Entities : Closes(u, x)'}
        BY <2>2, <3>1
      <4>3. (Above[b] \ {b}) \cap {x \in Entities : Closes(u, x)'} # {}
        BY <2>2, <4>2
      <4>4. b \in {y \in Entities : \E w \in Threads :
                     /\ call'[w].on = y /\ call'[w].op \in {"create", "close"}
                     /\ \E v \in (Threads \cup {Main}) \ {w} :
                          (Above[y] \ {y}) \cap {x \in Entities : Closes(v, x)'} # {}}
        BY <2>2, <3>1, <4>1, <4>3
      <4>5. QED BY <2>2, <4>4 DEF Racing
    <3>4. QED BY <3>2, <3>3
  <2>3. ASSUME NEW e \in Entities, Owner[e] \in raced' PROVE e \in raced'
    <3>1. CASE Owner[e] \in raced
      BY <2>1, <3>1 DEF RaceInv
    <3>2. CASE Owner[e] \in Racing'
      <4>1. Owner[e] \in Entities
        BY <3>2 DEF Racing
      <4>2. Above[Owner[e]] \subseteq Above[e]
        BY <4>1, AboveIs
      <4>3. e \in Racing'
        BY <3>2, <4>2 DEF Racing
      <4>4. QED BY <2>1, <4>3
    <3>3. QED BY <2>1, <2>3, <3>1, <3>2
  <2>4. Apart'
    BY <2>2 DEF Apart
  <2>5. QED BY <2>1, <2>3, <2>4 DEF RaceInv
<1>3. QED BY <1>1, <1>2 DEF Next

\* All that is known before a step, and of its history.
Before == TypeInv /\ BaseInv /\ RaceInv /\ TreeInv

Grown == raced \subseteq raced'

LEMMA Facts ==
  ASSUME Before
  PROVE  /\ TypeInv /\ BaseInv /\ RaceInv /\ Apart /\ NewInv /\ DeadInv
         /\ \A e \in made \ raced : OpenAt(e) /\ ClosedAt(e)
         /\ \A e \in Entities \ raced : Owner[e] \notin raced
         /\ made \subseteq Entities /\ closed \subseteq made
  BY OwnPlace DEF Before, RaceInv, TreeInv, TypeInv, TypeOK, BaseInv

LEMMA ClosesBy ==
  ASSUME Before, NEW u \in Threads, NEW a
  PROVE  /\ \A places : ClosesAt(u, a, places) => Closes(u, a)
         /\ InFrame(u, a) => Closes(u, a)
         /\ \A x : LeftIn(u, a, x) => Closes(u, a)
<1>1. \A places : ClosesAt(u, a, places) => Closes(u, a)
  BY DEF Closes, ClosesAt
<1>2. QED BY <1>1, Facts, LoopFacts

\* Who closes one above those that another creates or closes.
LEMMA Alone ==
  ASSUME Before, NEW e \in Entities, e \notin raced, NEW b \in Above[e],
         NEW t \in Threads, call[t].on = b, call[t].op \in {"create", "close"},
         NEW u \in Threads, NEW a \in Above[b], a # b, Closes(u, a)
  PROVE  u = t
BY Facts DEF Apart

LEMMA ReachesBy ==
  ASSUME Before, NEW e \in Entities, NEW u \in Threads, Reaches(u, e)
  PROVE  \E a \in Above[e] \ {e} : Closes(u, a)
<1>1. CASE \E a \in Above[e] \ {e} : ClosesAt(u, a, {"ok"})
  BY <1>1 DEF Closes, ClosesAt
<1>2. CASE LeftIn(u, Owner[e], e)
  <2>1. Closes(u, Owner[e]) /\ Owner[e] \in Entities
    BY <1>2, Facts, LoopFacts
  <2>2. QED BY <2>1, AboveIs
<1>3. CASE Owner[e] \in Entities /\ LeftIn(u, Owner[Owner[e]], Owner[e])
  <2>1. Closes(u, Owner[Owner[e]]) /\ Owner[Owner[e]] \in Entities
    BY <1>3, Facts, LoopFacts
  <2>2. e \in Producers /\ Owner[Owner[e]] \in Above[e] \ {e}
    BY <1>3, <2>1, Kinds, AboveIs
  <2>3. QED BY <2>1, <2>2
<1>4. QED BY <1>1, <1>2, <1>3 DEF Reaches

\* What others do stays.
LEMMA OthersKeep ==
  ASSUME NEW t \in Threads, Others(t), NEW u \in Threads, u # t
  PROVE  /\ call'[u] = call[u]
         /\ \A a, places : ClosesAt(u, a, places)' <=> ClosesAt(u, a, places)
         /\ \A e : Creates(u, e)' <=> Creates(u, e)
         /\ \A a, x : (InFrame(u, a)' <=> InFrame(u, a)) /\ (LeftIn(u, a, x)' <=> LeftIn(u, a, x))
         /\ \A e : Reaches(u, e)' <=> Reaches(u, e)
<1>1. call'[u] = call[u] /\ frames'[u] = frames[u]
  BY DEF Others, Everyone
<1>2. \A a, x : (InFrame(u, a)' <=> InFrame(u, a)) /\ (LeftIn(u, a, x)' <=> LeftIn(u, a, x))
  BY <1>1, SameLoops
<1>3. QED BY <1>1, <1>2 DEF ClosesAt, Creates, Reaches

\* The new ones of a thread whose call is as it was.
New(t) ==
  \A e \in Entities \ raced :
    Creates(t, e) =>
      /\ e \notin closed
      /\ call[t].at = "ok" => e \in alive
      /\ call[t].at \in {"ok", "built", "connected"} => Owner[e] \notin closed

LEMMA NewRest ==
  ASSUME Before, Grown, NEW u \in Threads, call'[u] = call[u],
         \A e \in Entities \ raced : Creates(u, e) =>
            /\ e \in closed' => e \in closed
            /\ Owner[e] \in closed' => Owner[e] \in closed
            /\ e \in alive => e \in alive'
  PROVE  New(u)'
<1>1. \A e : Creates(u, e)' <=> Creates(u, e)
  BY DEF Creates
<1>2. QED BY <1>1, Facts DEF New, NewInv, Grown

-----------------------------------------------------------------------------
(* The tree: the calls that leave it alone                                 *)

LEMMA TreeFrom ==
  ASSUME \A u \in Threads : New(u)', DeadInv', \A e \in made' \ raced' : OpenAt(e)' /\ ClosedAt(e)'
  PROVE  TreeInv'
  BY DEF TreeInv, NewInv, New

\* A step that leaves the tree, and every closing, where it was.
LEMMA TreeAside ==
  ASSUME Before, Grown, NEW t \in Threads, Others(t),
         UNCHANGED <<made, closed, listed, found, alive, frames>>,
         \A a : \A at \in {"sent", "ok", "cascade"} : ClosesAt(t, a, {at})' <=> ClosesAt(t, a, {at}),
         \A e \in Producers \cap made : Creates(t, e) => Creates(t, e)',
         New(t)'
  PROVE  TreeInv'
<1>1. \A u \in Threads : \A a : \A at \in {"sent", "ok", "cascade"} :
        ClosesAt(u, a, {at})' <=> ClosesAt(u, a, {at})
  <2> TAKE u \in Threads
  <2>1. CASE u = t
    BY <2>1
  <2>2. CASE u # t
    BY <2>2, OthersKeep
  <2>3. QED BY <2>1, <2>2
<1>2. \A u \in Threads : \A a, x : /\ InFrame(u, a)' <=> InFrame(u, a)
                                   /\ LeftIn(u, a, x)' <=> LeftIn(u, a, x)
  BY SameLoops
<1>3. \A u \in Threads : \A a :
        ClosesAt(u, a, {"ok", "cascade"})' <=> ClosesAt(u, a, {"ok", "cascade"})
  <2>1. \A u, a : ClosesAt(u, a, {"ok", "cascade"}) <=> ClosesAt(u, a, {"ok"}) \/ ClosesAt(u, a, {"cascade"})
    BY DEF ClosesAt
  <2>2. \A u, a : ClosesAt(u, a, {"ok", "cascade"})' <=> ClosesAt(u, a, {"ok"})' \/ ClosesAt(u, a, {"cascade"})'
    BY DEF ClosesAt
  <2>3. QED BY <1>1, <2>1, <2>2
<1>4. \A u \in Threads : \A e \in Producers \cap made : Creates(u, e) => Creates(u, e)'
  <2> TAKE u \in Threads
  <2>1. CASE u = t
    BY <2>1
  <2>2. CASE u # t
    BY <2>2, OthersKeep
  <2>3. QED BY <2>1, <2>2
<1>5. \A u \in Threads : New(u)'
  <2> TAKE u \in Threads
  <2>1. CASE u = t
    BY <2>1
  <2>2. CASE u # t
    <3>1. call'[u] = call[u]
      BY <2>2, OthersKeep
    <3>2. QED BY <3>1, NewRest
  <2>3. QED BY <2>1, <2>2
<1>6. DeadInv'
  BY <1>3, Facts DEF DeadInv, Grown
<1>7. \A u \in Threads, e \in Entities : Reaches(u, e)' <=> Reaches(u, e)
  BY <1>1, <1>2 DEF Reaches
<1>8. ASSUME NEW e \in made' \ raced' PROVE OpenAt(e)' /\ ClosedAt(e)'
  <2>1. e \in made \ raced /\ e \in Entities
    BY <1>8, Facts DEF Grown
  <2>2. OpenAt(e) /\ ClosedAt(e)
    BY <2>1, Facts
  <2>3. OpenAt(e)'
    BY <1>4, <1>7, <2>1, <2>2 DEF OpenAt
  <2>4. \A u \in Threads : \A x : /\ Working(u, e)' <=> Working(u, e)
                                  /\ Pending(u, e, x)' <=> Pending(u, e, x)
    BY <1>1, <1>2 DEF Working, Pending
  <2>5. ClosedAt(e)'
    BY <1>1, <2>2, <2>4 DEF ClosedAt, Grown
  <2>6. QED BY <2>3, <2>5
<1>9. QED BY <1>5, <1>6, <1>8, TreeFrom

LEMMA TreeCalls ==
  ASSUME Before, Grown, NEW t \in Threads, Begin(t)
  PROVE  TreeInv'
<1>1. ASSUME NEW e \in Entities, Create(t, e) PROVE TreeInv'
  <2>1. /\ call[t] = Idle /\ e \notin made /\ Others(t)
        /\ call'[t].op = "create" /\ call'[t].on = e /\ call'[t].at = "sent"
        /\ UNCHANGED <<made, closed, listed, heard, found, paused, frames, alive, muted, running>>
    BY <1>1, Facts, CreateMeans
  <2>2. New(t)'
    BY <2>1, Facts DEF New, Creates
  <2>3. \A a, places : ~ClosesAt(t, a, places)' /\ ~ClosesAt(t, a, places)
    BY <2>1, IdleIsCall DEF ClosesAt
  <2>4. \A x : ~Creates(t, x)
    BY <2>1, IdleIsCall DEF Creates
  <2>5. QED BY <2>1, <2>2, <2>3, <2>4, TreeAside
<1>2. ASSUME NEW e \in Entities, CloseTest(t, e) PROVE TreeInv'
  <2>1. /\ call[t] = Idle /\ Others(t)
        /\ call'[t].op = "close" /\ call'[t].on = e /\ call'[t].at = "test"
        /\ UNCHANGED <<made, closed, listed, heard, found, paused, frames, alive, muted, running>>
    BY <1>2, Facts, CloseTestMeans
  <2>2. New(t)'
    BY <2>1 DEF New, Creates
  <2>3. \A a : \A at \in {"sent", "ok", "cascade"} : ~ClosesAt(t, a, {at})' /\ ~ClosesAt(t, a, {at})
    BY <2>1, IdleIsCall DEF ClosesAt
  <2>4. \A x : ~Creates(t, x)
    BY <2>1, IdleIsCall DEF Creates
  <2>5. QED BY <2>1, <2>2, <2>3, <2>4, TreeAside
<1>3. ASSUME NEW p \in Producers, Pause(t, p) PROVE TreeInv'
  <2>1. /\ call[t] = Idle /\ Others(t)
        /\ call'[t].op \in {"pause", "resume"} /\ call'[t].on = p /\ call'[t].at = "sent"
        /\ UNCHANGED <<made, closed, listed, heard, found, paused, frames, alive, muted, running>>
    BY <1>3, Facts, PauseMeans
  <2>2. New(t)'
    BY <2>1 DEF New, Creates
  <2>3. \A a, places : ~ClosesAt(t, a, places)' /\ ~ClosesAt(t, a, places)
    BY <2>1, IdleIsCall DEF ClosesAt
  <2>4. \A x : ~Creates(t, x)
    BY <2>1, IdleIsCall DEF Creates
  <2>5. QED BY <2>1, <2>2, <2>3, <2>4, TreeAside
<1>4. QED BY <1>1, <1>2, <1>3 DEF Begin

LEMMA TreePlain ==
  ASSUME Before, Grown, NEW t \in Threads, Connect(t) \/ HandlePause(t) \/ Throw(t) \/ Paused(t)
  PROVE  TreeInv'
<1> DEFINE e == call[t].on
<1>0. PlaceAt(t)
  BY Facts, OwnPlace
<1>1. CASE Connect(t)
  <2>1. /\ call[t].op = "create" /\ call[t].at = "built" /\ e \in made
        /\ IF e \in Producers THEN Became(t, "connected") ELSE Ended(t)
        /\ UNCHANGED <<made, closed, listed, found, paused, frames, alive, muted, running>>
    BY <1>1, Facts, ConnectMeans
  <2>2. \A x, places : ~ClosesAt(t, x, places)' /\ ~ClosesAt(t, x, places)
    BY <2>1, IdleIsCall DEF ClosesAt, Became, Ended
  <2>3. \A x \in Producers : Creates(t, x) => Creates(t, x)'
    BY <2>1 DEF Creates, Became
  <2>4. \A x : Creates(t, x)' => Creates(t, x) /\ call'[t].at = "connected"
    BY <2>1, IdleIsCall DEF Creates, Became, Ended
  <2>5. New(t)'
    BY <2>1, <2>4, Facts DEF New, NewInv, Grown
  <2>6. Others(t)
    BY <2>1 DEF Became, Ended
  <2>7. QED BY <2>1, <2>2, <2>3, <2>5, <2>6, TreeAside
<1>2. CASE HandlePause(t)
  <2>1. /\ call[t].op \in {"pause", "resume"}
        /\ Became(t, IF e \in alive THEN "ok" ELSE "error")
        /\ UNCHANGED <<made, closed, listed, heard, found, paused, frames, alive, running>>
    BY <1>2, Facts, HandlePauseMeans
  <2>2. /\ \A x, places : ~ClosesAt(t, x, places)' /\ ~ClosesAt(t, x, places)
        /\ \A x : ~Creates(t, x)' /\ ~Creates(t, x)
        /\ Others(t)
    BY <2>1 DEF ClosesAt, Creates, Became
  <2>3. New(t)'
    BY <2>2 DEF New
  <2>4. QED BY <2>1, <2>2, <2>3, TreeAside
<1>3. CASE Throw(t) \/ Paused(t)
  <2>1. /\ Ended(t)
        /\ call[t].at = "error" \/ call[t].op \in {"pause", "resume"}
        /\ UNCHANGED <<made, closed, listed, heard, found, frames, alive, muted, running>>
    BY <1>3, Facts, ThrowMeans, PausedMeans
  <2>2. /\ \A x : \A at \in {"sent", "ok", "cascade"} : ~ClosesAt(t, x, {at})' /\ ~ClosesAt(t, x, {at})
        /\ \A x : ~Creates(t, x)'
        /\ Others(t)
    BY <2>1, IdleIsCall DEF ClosesAt, Creates, Ended
  <2>3. \A x \in made : ~Creates(t, x)
    BY <1>0, <2>1 DEF Creates, PlaceAt
  <2>4. New(t)'
    BY <2>2 DEF New
  <2>5. QED BY <2>1, <2>2, <2>3, <2>4, TreeAside
<1>4. QED BY <1>1, <1>2, <1>3

-----------------------------------------------------------------------------
(* The tree: creating                                                      *)

LEMMA TreeBuild ==
  ASSUME Before, Grown, NEW t \in Threads, Build(t)
  PROVE  TreeInv'
<1> DEFINE n == call[t].on
<1>1. /\ call[t].op = "create" /\ call[t].at = "ok" /\ Became(t, "built") /\ n \in Entities
      /\ made' = made \cup {n} /\ listed' = listed \cup {n}
      /\ UNCHANGED <<closed, heard, found, paused, frames, alive, muted, running>>
  BY Facts, BuildMeans
<1>2. /\ Others(t) /\ Creates(t, n) /\ Creates(t, n)' /\ call'[t].at = "built"
      /\ \A x, places : ~ClosesAt(t, x, places)' /\ ~ClosesAt(t, x, places)
      /\ \A x : Creates(t, x)' => x = n
  BY <1>1 DEF Became, Creates, ClosesAt
<1>3. n \notin raced => n \notin closed /\ n \in alive /\ Owner[n] \notin closed
  BY <1>1, <1>2, Facts DEF NewInv
<1>4. \A u \in Threads : /\ \A a, places : ClosesAt(u, a, places)' <=> ClosesAt(u, a, places)
                         /\ \A e : Creates(u, e)  => Creates(u, e)'
  <2> TAKE u \in Threads
  <2>1. CASE u = t
    BY <1>2, <2>1 DEF Creates
  <2>2. CASE u # t
    BY <1>2, <2>2, OthersKeep
  <2>3. QED BY <2>1, <2>2
<1>5. \A u \in Threads : \A a, x : /\ InFrame(u, a)' <=> InFrame(u, a)
                                   /\ LeftIn(u, a, x)' <=> LeftIn(u, a, x)
  BY <1>1, SameLoops
<1>6. \A u \in Threads : New(u)'
  <2> TAKE u \in Threads
  <2>1. CASE u = t
    BY <1>1, <1>2, <1>3, <2>1 DEF New, Grown
  <2>2. CASE u # t
    <3>1. call'[u] = call[u]
      BY <1>2, <2>2, OthersKeep
    <3>2. QED BY <1>1, <3>1, NewRest
  <2>3. QED BY <2>1, <2>2
<1>7. DeadInv'
  BY <1>1, <1>4, Facts DEF DeadInv, Grown
<1>8. \A u \in Threads, e \in Entities : Reaches(u, e)' <=> Reaches(u, e)
  BY <1>4, <1>5 DEF Reaches
<1>9. \A u \in Threads : \A a, x : /\ Working(u, a)' <=> Working(u, a)
                                   /\ Pending(u, a, x)' <=> Pending(u, a, x)
  BY <1>1, <1>4, <1>5 DEF Working, Pending
<1>10. ASSUME NEW e \in made' \ raced' PROVE OpenAt(e)' /\ ClosedAt(e)'
  <2>1. e \notin raced /\ e \in Entities
    BY <1>1, <1>10, Facts DEF Grown
  <2>2. CASE e = n
    BY <1>1, <1>2, <1>3, <2>1, <2>2 DEF OpenAt, ClosedAt
  <2>3. CASE e # n
    <3>1. OpenAt(e) /\ ClosedAt(e)
      BY <1>1, <1>10, <2>1, <2>3, Facts
    <3>2. OpenAt(e)'
      BY <1>1, <1>4, <1>8, <2>1, <3>1 DEF OpenAt
    <3>3. ASSUME NEW x \in made' \ (raced' \cup closed'), Owner[x] = e, e \in closed
          PROVE  \E u \in Threads : Pending(u, e, x)'
      <4>1. x # n
        BY <1>3, <3>3 DEF Grown
      <4>2. x \in made \ (raced \cup closed)
        BY <1>1, <3>3, <4>1 DEF Grown
      <4>3. QED BY <1>9, <3>1, <3>3, <4>2 DEF ClosedAt
    <3>4. ClosedAt(e)'
      BY <1>1, <1>4, <1>9, <2>3, <3>1, <3>3 DEF ClosedAt
    <3>5. QED BY <3>2, <3>4
  <2>4. QED BY <2>2, <2>3
<1>11. QED BY <1>6, <1>7, <1>10, TreeFrom

LEMMA TreeAnnounce ==
  ASSUME Before, Grown, NEW t \in Threads, Announce(t)
  PROVE  TreeInv'
<1> DEFINE n == call[t].on
<1>1. /\ call[t].op = "create" /\ n \in made /\ Ended(t)
      /\ found' = found \cup {n}
      /\ UNCHANGED <<made, closed, listed, heard, paused, frames, alive, muted, running>>
  BY Facts, AnnounceMeans
<1>2. /\ Others(t) /\ Creates(t, n)
      /\ \A x, places : ~ClosesAt(t, x, places)' /\ ~ClosesAt(t, x, places)
      /\ \A x : ~Creates(t, x)'
      /\ \A x : Creates(t, x) => x = n
  BY <1>1, IdleIsCall DEF Ended, Creates, ClosesAt
<1>3. n \notin raced => n \notin closed
  BY <1>1, <1>2, Facts DEF NewInv
<1>4. \A u \in Threads : /\ \A a, places : ClosesAt(u, a, places)' <=> ClosesAt(u, a, places)
                         /\ \A e : Creates(u, e)  => Creates(u, e)' \/ e = n
  <2> TAKE u \in Threads
  <2>1. CASE u = t
    BY <1>2, <2>1 DEF Creates
  <2>2. CASE u # t
    BY <1>2, <2>2, OthersKeep
  <2>3. QED BY <2>1, <2>2
<1>5. \A u \in Threads : \A a, x : /\ InFrame(u, a)' <=> InFrame(u, a)
                                   /\ LeftIn(u, a, x)' <=> LeftIn(u, a, x)
  BY <1>1, SameLoops
<1>6. \A u \in Threads : New(u)'
  <2> TAKE u \in Threads
  <2>1. CASE u = t
    BY <1>2, <2>1 DEF New
  <2>2. CASE u # t
    <3>1. call'[u] = call[u]
      BY <1>2, <2>2, OthersKeep
    <3>2. QED BY <1>1, <3>1, NewRest
  <2>3. QED BY <2>1, <2>2
<1>7. DeadInv'
  BY <1>1, <1>4, Facts DEF DeadInv, Grown
<1>8. \A u \in Threads, e \in Entities : Reaches(u, e)' <=> Reaches(u, e)
  BY <1>4, <1>5 DEF Reaches
<1>9. \A u \in Threads : \A a, x : /\ Working(u, a)' <=> Working(u, a)
                                   /\ Pending(u, a, x)' <=> Pending(u, a, x)
  BY <1>1, <1>4, <1>5 DEF Working, Pending
<1>10. ASSUME NEW e \in made' \ raced' PROVE OpenAt(e)' /\ ClosedAt(e)'
  <2>1. e \in made \ raced /\ e \in Entities
    BY <1>1, <1>10, Facts DEF Grown
  <2>2. OpenAt(e) /\ ClosedAt(e)
    BY <2>1, Facts
  <2>3. OpenAt(e)'
    BY <1>1, <1>4, <1>8, <2>1, <2>2 DEF OpenAt
  <2>4. ClosedAt(e)'
    <3>1. e \in closed => e # n
      BY <1>3, <2>1
    <3>2. QED BY <1>1, <1>4, <1>9, <2>2, <3>1 DEF ClosedAt, Grown
  <2>5. QED BY <2>3, <2>4
<1>11. QED BY <1>6, <1>7, <1>10, TreeFrom

LEMMA TreeHandleCreate ==
  ASSUME Before, Grown, NEW t \in Threads, HandleCreate(t)
  PROVE  TreeInv'
<1> DEFINE n == call[t].on
           ok == Owner[n] \in alive \cup {Root}
<1>1. /\ call[t].op = "create" /\ call[t].at = "sent" /\ n \in Entities /\ n \notin made
      /\ Became(t, IF ok THEN "ok" ELSE "error")
      /\ alive' = IF ok THEN alive \cup {n} ELSE alive
      /\ UNCHANGED <<made, closed, listed, heard, found, paused, frames, muted, running>>
  BY Facts, HandleCreateMeans
<1>2. /\ Others(t) /\ Creates(t, n)
      /\ \A x, places : ~ClosesAt(t, x, places)' /\ ~ClosesAt(t, x, places)
      /\ \A x : Creates(t, x)' <=> Creates(t, x)
      /\ \A x : Creates(t, x) <=> x = n
      /\ ok => call'[t].at = "ok"
      /\ ~ok => call'[t].at = "error"
  BY <1>1 DEF Became, Creates, ClosesAt
<1>3. \A u \in Threads : /\ \A a, places : ClosesAt(u, a, places)' <=> ClosesAt(u, a, places)
                         /\ \A e : Creates(u, e)  => Creates(u, e)'
  <2> TAKE u \in Threads
  <2>1. CASE u = t
    BY <1>2, <2>1 DEF Creates
  <2>2. CASE u # t
    BY <1>2, <2>2, OthersKeep
  <2>3. QED BY <2>1, <2>2
<1>4. \A u \in Threads : \A a, x : /\ InFrame(u, a)' <=> InFrame(u, a)
                                   /\ LeftIn(u, a, x)' <=> LeftIn(u, a, x)
  BY <1>1, SameLoops
<1>5. alive \subseteq alive' /\ \A e \in alive' : e \in alive \/ e = n
  BY <1>1
<1>6. ASSUME NEW u \in Threads, NEW a \in Above[n] \ {n}, NEW at \in Places, ClosesAt(u, a, {at}),
             n \notin raced
      PROVE  FALSE
  <2>1. n \in Entities /\ n \notin raced /\ n \in Above[n] /\ a # n
    BY <1>1, <1>6, AboveIs
  <2>2. Closes(u, a)
    BY <1>6, ClosesBy
  <2>3. u = t
    BY <1>1, <2>1, <2>2, Alone
  <2>4. QED BY <1>2, <1>6, <2>3
<1>7. New(t)'
  <2>1. n \notin closed /\ (ok => n \in alive')
    BY <1>1, Facts
  <2>2. ASSUME n \notin raced, ok, Owner[n] \in closed PROVE FALSE
    <3>1. Owner[n] \in alive /\ Owner[n] \in made \ raced /\ Owner[n] \in Entities
      BY <1>1, <2>2, Facts DEF BaseInv
    <3>2. PICK u \in Threads : ClosesAt(u, Owner[n], {"sent"})
      BY <2>2, <3>1, Facts DEF ClosedAt
    <3>3. Owner[n] \in Above[n] \ {n} /\ "sent" \in Places
      BY <1>1, <3>1, AboveIs DEF Places
    <3>4. QED BY <1>6, <2>2, <3>2, <3>3
  <2>3. ASSUME NEW e \in Entities \ raced', Creates(t, e)'
        PROVE  /\ e \notin closed'
               /\ call'[t].at = "ok" => e \in alive'
               /\ call'[t].at \in {"ok", "built", "connected"} => Owner[e] \notin closed'
    <3>1. e = n /\ n \notin raced /\ closed' = closed
      BY <1>1, <1>2, <2>3 DEF Grown
    <3>2. CASE ok
      BY <2>1, <2>2, <3>1, <3>2
    <3>3. CASE ~ok
      <4>1. call'[t].at = "error"
        BY <1>2, <3>3
      <4>2. QED BY <2>1, <3>1, <4>1
    <3>4. QED BY <3>2, <3>3
  <2>4. QED BY <2>3 DEF New
<1>8. \A u \in Threads : New(u)'
  <2> TAKE u \in Threads
  <2>1. CASE u = t
    BY <1>7, <2>1
  <2>2. CASE u # t
    <3>1. call'[u] = call[u]
      BY <1>2, <2>2, OthersKeep
    <3>2. QED BY <1>1, <1>5, <3>1, NewRest
  <2>3. QED BY <2>1, <2>2
<1>9. DeadInv'
  <2> SUFFICES ASSUME NEW u \in Threads, NEW a \in Entities, ClosesAt(u, a, {"ok", "cascade"})
               PROVE  /\ \A e \in alive' \ raced' : a \notin Above[e]
                      /\ \A v \in Threads : ClosesAt(v, a, {"ok", "cascade"}) => v = u \/ a \in raced'
    BY <1>3 DEF DeadInv
  <2>1. /\ \A e \in alive \ raced : a \notin Above[e]
        /\ \A v \in Threads : ClosesAt(v, a, {"ok", "cascade"}) => v = u \/ a \in raced
    BY Facts DEF DeadInv
  <2>2. ASSUME n \notin raced, a \in Above[n] PROVE FALSE
    <3>1. a # n
      BY <1>1, Facts, OwnPlace DEF PlaceAt, ClosesAt
    <3>2. PICK at \in Places : ClosesAt(u, a, {at})
      BY DEF ClosesAt, Places
    <3>3. QED BY <1>6, <2>2, <3>1, <3>2
  <2>3. QED BY <1>5, <2>1, <2>2 DEF Grown
<1>10. \A u \in Threads, e \in Entities : Reaches(u, e)' <=> Reaches(u, e)
  BY <1>3, <1>4 DEF Reaches
<1>11. \A u \in Threads : \A a, x : /\ Working(u, a) => Working(u, a)'
                                    /\ Pending(u, a, x) => Pending(u, a, x)'
  BY <1>3, <1>4, <1>5 DEF Working, Pending
<1>12. ASSUME NEW e \in made' \ raced' PROVE OpenAt(e)' /\ ClosedAt(e)'
  <2>1. e \in made \ raced /\ e \in Entities /\ e # n
    BY <1>1, <1>12, Facts DEF Grown
  <2>2. OpenAt(e) /\ ClosedAt(e)
    BY <2>1, Facts
  <2>3. OpenAt(e)'
    BY <1>1, <1>3, <1>5, <1>10, <2>1, <2>2 DEF OpenAt
  <2>4. ClosedAt(e)'
    BY <1>1, <1>3, <1>5, <1>11, <2>1, <2>2 DEF ClosedAt, Grown
  <2>5. QED BY <2>3, <2>4
<1>13. QED BY <1>8, <1>9, <1>12, TreeFrom

-----------------------------------------------------------------------------
(* The tree: closing                                                       *)

LEMMA TreeCloseSet ==
  ASSUME Before, Grown, NEW t \in Threads, CloseSet(t)
  PROVE  TreeInv'
<1>0. PICK c : c = call[t].on
  OBVIOUS
<1>1. /\ ClosesAt(t, c, {"test"}) /\ Became(t, "sent") /\ c \in made /\ c \in Entities
      /\ closed' = closed \cup {c}
      /\ UNCHANGED <<made, listed, heard, found, paused, frames, alive, muted, running>>
  BY <1>0, Facts, CloseSetMeans
<1>2. /\ Others(t) /\ ClosesAt(t, c, {"sent"})' /\ Closes(t, c)
      /\ \A a : ~ClosesAt(t, a, {"sent"}) /\ ~ClosesAt(t, a, {"ok"}) /\ ~ClosesAt(t, a, {"ok"})'
      /\ \A a : ~ClosesAt(t, a, {"ok", "cascade"}) /\ ~ClosesAt(t, a, {"ok", "cascade"})'
      /\ \A x : ~Creates(t, x) /\ ~Creates(t, x)'
      /\ call[t].op = "close" /\ call[t].on = c
  BY <1>0, <1>1 DEF Became, Creates, ClosesAt, Closes
<1>3. \A u \in Threads :
        /\ \A a : ClosesAt(u, a, {"ok", "cascade"})' <=> ClosesAt(u, a, {"ok", "cascade"})
        /\ \A a : ClosesAt(u, a, {"ok"})' <=> ClosesAt(u, a, {"ok"})
        /\ \A a : ClosesAt(u, a, {"sent"}) => ClosesAt(u, a, {"sent"})'
        /\ \A x : Creates(u, x)' <=> Creates(u, x)
  <2> TAKE u \in Threads
  <2>1. CASE u = t
    BY <1>2, <2>1
  <2>2. CASE u # t
    BY <1>2, <2>2, OthersKeep
  <2>3. QED BY <2>1, <2>2
<1>4. \A u \in Threads : \A a, x : /\ InFrame(u, a)' <=> InFrame(u, a)
                                   /\ LeftIn(u, a, x)' <=> LeftIn(u, a, x)
  BY <1>1, SameLoops
<1>5. PlaceAt(t) /\ frames[t] = <<>>
  BY <1>1, <1>2, Facts, OwnPlace DEF ClosesAt, FrameAt
<1>6. ASSUME NEW u \in Threads PROVE New(u)'
  <2>1. CASE u = t
    BY <1>2, <2>1 DEF New
  <2>2. CASE u # t
    <3>1. call'[u] = call[u]
      BY <1>2, <2>2, OthersKeep
    <3>2. ASSUME NEW e \in Entities, e \notin raced, Creates(u, e)
          PROVE  e # c /\ Owner[e] # c
      <4>1. e # c
        BY <1>2, <1>5, <3>2 DEF PlaceAt
      <4>2. ASSUME Owner[e] = c PROVE FALSE
        <5>1. c \in Above[e] /\ e \in Above[e] /\ c # e
          BY <1>1, <3>2, <4>2, AboveIs
        <5>2. call[u].on = e /\ call[u].op \in {"create", "close"}
          BY <3>2 DEF Creates
        <5>3. t = u
          BY <1>2, <3>2, <5>1, <5>2, Alone
        <5>4. QED BY <2>2, <5>3
      <4>3. QED BY <4>1, <4>2
    <3>3. QED BY <1>1, <3>1, <3>2, NewRest
  <2>3. QED BY <2>1, <2>2
<1>7. DeadInv'
  BY <1>1, <1>3, Facts DEF DeadInv, Grown
<1>8. \A u \in Threads, e \in Entities : Reaches(u, e)' <=> Reaches(u, e)
  BY <1>3, <1>4 DEF Reaches
<1>9. \A u \in Threads : \A a, x : /\ Working(u, a) => Working(u, a)'
                                   /\ Pending(u, a, x) => Pending(u, a, x)'
  BY <1>1, <1>3, <1>4 DEF Working, Pending
<1>10. ASSUME NEW e \in made' \ raced' PROVE OpenAt(e)' /\ ClosedAt(e)'
  <2>1. e \in made \ raced /\ e \in Entities
    BY <1>1, <1>10, Facts DEF Grown
  <2>2. OpenAt(e) /\ ClosedAt(e)
    BY <2>1, Facts
  <2>3. OpenAt(e)'
    BY <1>1, <1>3, <1>8, <2>1, <2>2 DEF OpenAt
  <2>4. CASE e \in closed \/ e # c
    <3>1. e \in closed' => e \in closed
      BY <1>1, <2>4
    <3>2. \A x \in made' \ (raced' \cup closed') : x \in made \ (raced \cup closed)
      BY <1>1 DEF Grown
    <3>3. ClosedAt(e)'
      BY <1>1, <1>3, <1>9, <2>2, <3>1, <3>2 DEF ClosedAt
    <3>4. QED BY <2>3, <3>3
  <2>5. CASE e = c /\ e \notin closed
    <3>1. ASSUME NEW u \in Threads, Reaches(u, e) PROVE FALSE
      <4>1. PICK a \in Above[e] \ {e} : Closes(u, a)
        BY <2>1, <3>1, ReachesBy
      <4>2. e \in Above[e] /\ e \in Entities /\ e \notin raced
        BY <2>1, AboveIs
      <4>3. u = t
        BY <1>2, <2>5, <4>1, <4>2, Alone
      <4>4. \A b, x : ~LeftIn(t, b, x)
        BY <1>5, NoLoops
      <4>5. QED BY <1>2, <3>1, <4>3, <4>4 DEF Reaches
    <3>2. e \in alive
      BY <2>2, <2>5, <3>1 DEF OpenAt
    <3>3. Working(t, e)' /\ \A x : Pending(t, e, x)'
      BY <1>1, <1>2, <2>5, <3>2 DEF Working, Pending
    <3>4. ClosedAt(e)'
      BY <1>2, <2>5, <3>3 DEF ClosedAt
    <3>5. QED BY <2>3, <3>4
  <2>6. QED BY <2>3, <2>4, <2>5
<1>11. QED BY <1>6, <1>7, <1>10, TreeFrom

LEMMA TreeHandleClose ==
  ASSUME Before, Grown, NEW t \in Threads, HandleClose(t)
  PROVE  TreeInv'
<1>0. PICK c : c = call[t].on
  OBVIOUS
<1>1. /\ ClosesAt(t, c, {"sent"}) /\ c \in made /\ c \in closed /\ c \in Entities
      /\ Became(t, IF c \in alive THEN "ok" ELSE "error")
      /\ alive' = alive \ Below(c)
      /\ c \notin alive => alive' = alive
      /\ UNCHANGED <<made, closed, listed, heard, found, paused, frames, muted, running>>
  BY <1>0, Facts, HandleCloseMeans
<1>2. /\ Others(t) /\ Closes(t, c) /\ call[t].op = "close" /\ call[t].on = c
      /\ \A a : ClosesAt(t, a, {"sent"}) => a = c
      /\ \A a : ~ClosesAt(t, a, {"ok"}) /\ ~ClosesAt(t, a, {"ok", "cascade"}) /\ ~ClosesAt(t, a, {"sent"})'
      /\ \A a : ClosesAt(t, a, {"ok", "cascade"})' <=> a = c /\ c \in alive
      /\ c \in alive => ClosesAt(t, c, {"ok"})'
      /\ \A x : ~Creates(t, x) /\ ~Creates(t, x)'
  BY <1>0, <1>1 DEF Became, Creates, ClosesAt, Closes
<1>3. \A a, x : ~InFrame(t, a) /\ ~LeftIn(t, a, x)
  <2>1. frames[t] = <<>>
    BY <1>1, Facts, OwnPlace DEF ClosesAt, FrameAt
  <2>2. QED BY <2>1, NoLoops
<1>4. \A e : e \in alive' <=> e \in alive /\ c \notin Above[e]
  BY <1>1, BelowIs, Facts, OwnPlace
<1>5. c \in Above[c]
  BY <1>1, AboveIs
\* Somebody else, who creates or closes below c, is in raced.
<1>6. ASSUME NEW e \in Entities, e \notin raced, c \in Above[e], e # c,
             NEW u \in Threads, u # t, call[u].on = e, call[u].op \in {"create", "close"}
      PROVE  FALSE
  <2>1. e \in Above[e]
    BY <1>6, AboveIs
  <2>2. t = u
    BY <1>2, <1>6, <2>1, Alone
  <2>3. QED BY <1>6, <2>2
<1>7. ASSUME NEW u \in Threads PROVE New(u)'
  <2>1. CASE u = t
    BY <1>2, <2>1 DEF New
  <2>2. CASE u # t
    <3>1. call'[u] = call[u]
      BY <1>2, <2>2, OthersKeep
    <3>2. ASSUME NEW e \in Entities, e \notin raced, Creates(u, e)
          PROVE  c \notin Above[e]
      <4>1. e # c
        BY <1>2, <3>2, Facts, OwnPlace DEF PlaceAt
      <4>2. QED BY <1>6, <2>2, <3>2, <4>1 DEF Creates
    <3>3. QED BY <1>1, <1>4, <3>1, <3>2, NewRest
  <2>3. QED BY <2>1, <2>2
<1>8. DeadInv'
  <2>1. ASSUME NEW u \in Threads, u # t, ClosesAt(u, c, {"ok", "cascade"}), c \in alive
        PROVE  c \in raced
    BY <1>1, <1>5, <2>1, Facts DEF DeadInv
  <2> SUFFICES ASSUME NEW u \in Threads, NEW a \in Entities, ClosesAt(u, a, {"ok", "cascade"})'
               PROVE  /\ \A e \in alive' \ raced' : a \notin Above[e]
                      /\ \A v \in Threads : ClosesAt(v, a, {"ok", "cascade"})' => v = u \/ a \in raced'
    BY DEF DeadInv
  <2>2. CASE u = t
    <3>1. a = c /\ c \in alive
      BY <1>2, <2>2
    <3>2. ASSUME NEW v \in Threads, ClosesAt(v, a, {"ok", "cascade"})', v # u
          PROVE  a \in raced'
      BY <1>2, <2>1, <2>2, <3>1, <3>2, OthersKeep DEF Grown
    <3>3. QED BY <1>4, <3>1, <3>2
  <2>3. CASE u # t
    <3>1. ClosesAt(u, a, {"ok", "cascade"})
      BY <1>2, <2>3, OthersKeep
    <3>2. \A e \in alive' \ raced' : a \notin Above[e]
      BY <1>4, <3>1, Facts DEF DeadInv, Grown
    <3>3. ASSUME NEW v \in Threads, ClosesAt(v, a, {"ok", "cascade"})', v # u
          PROVE  a \in raced'
      <4>1. CASE v = t
        BY <1>2, <2>1, <2>3, <3>1, <3>3, <4>1 DEF Grown
      <4>2. CASE v # t
        <5>1. ClosesAt(v, a, {"ok", "cascade"})
          BY <1>2, <3>3, <4>2, OthersKeep
        <5>2. QED BY <3>1, <3>3, <5>1, Facts DEF DeadInv, Grown
      <4>3. QED BY <4>1, <4>2
    <3>4. QED BY <3>2, <3>3
  <2>4. QED BY <2>2, <2>3
<1>9. ASSUME NEW e \in Entities, NEW u \in Threads, Reaches(u, e) PROVE Reaches(u, e)'
  <2>1. u # t
    BY <1>2, <1>3, <1>9 DEF Reaches
  <2>2. QED BY <1>2, <1>9, <2>1, OthersKeep
<1>10. ASSUME NEW a \in Entities, a \notin raced, NEW u \in Threads, ClosesAt(u, a, {"sent"}), a \in alive
       PROVE  (ClosesAt(u, a, {"sent"})' /\ a \in alive') \/ ClosesAt(t, a, {"ok"})'
  <2>1. CASE u = t
    BY <1>2, <1>10, <2>1
  <2>2. CASE u # t
    <3>1. CASE a = c
      BY <1>2, <1>10, <3>1
    <3>2. CASE a # c
      <4>1. c \notin Above[a]
        BY <1>6, <1>10, <2>2, <3>2 DEF ClosesAt
      <4>2. QED BY <1>2, <1>4, <1>10, <2>2, <4>1, OthersKeep
    <3>3. QED BY <3>1, <3>2
  <2>3. QED BY <2>1, <2>2
<1>11. ASSUME NEW a \in Entities, a \notin raced, NEW u \in Threads, NEW x
       PROVE  /\ Working(u, a) => \E v \in Threads : Working(v, a)'
              /\ Pending(u, a, x) => \E v \in Threads : Pending(v, a, x)'
  <2>1. CASE ClosesAt(u, a, {"sent"}) /\ a \in alive
    BY <1>10, <1>11, <2>1 DEF Working, Pending
  <2>2. CASE ~(ClosesAt(u, a, {"sent"}) /\ a \in alive)
    <3>1. CASE u = t
      BY <1>2, <1>3, <2>2, <3>1 DEF Working, Pending
    <3>2. CASE u # t
      BY <1>2, <2>2, <3>2, OthersKeep DEF Working, Pending
    <3>3. QED BY <3>1, <3>2
  <2>3. QED BY <2>1, <2>2
<1>12. ASSUME NEW e \in made' \ raced' PROVE OpenAt(e)' /\ ClosedAt(e)'
  <2>1. e \in made \ raced /\ e \in Entities
    BY <1>1, <1>12, Facts DEF Grown
  <2>2. OpenAt(e) /\ ClosedAt(e)
    BY <2>1, Facts
  <2>3. OpenAt(e)'
    <3> SUFFICES ASSUME e \notin closed PROVE OpenAt(e)'
      BY <1>1 DEF OpenAt
    <3>1. ASSUME e \in alive, e \notin alive' PROVE Reaches(t, e)'
      <4>1. c \in Above[e] \ {e} /\ c \in Above[c]
        BY <1>1, <1>4, <1>5, <3>1
      <4>2. c \in alive
        BY <1>1, <3>1
      <4>3. QED BY <1>2, <4>1, <4>2 DEF Reaches
    <3>2. e \in alive' \/ \E u \in Threads : Reaches(u, e)'
      BY <1>9, <2>1, <2>2, <3>1 DEF OpenAt
    <3>3. \A u \in Threads : Creates(u, e) => Creates(u, e)'
      BY <1>2, OthersKeep
    <3>4. QED BY <1>1, <2>2, <3>2, <3>3 DEF OpenAt
  <2>4. ClosedAt(e)'
    <3> SUFFICES ASSUME e \in closed PROVE ClosedAt(e)'
      BY <1>1 DEF ClosedAt
    <3>1. ASSUME e \in alive' PROVE \E u \in Threads : ClosesAt(u, e, {"sent"})'
      <4>1. e \in alive /\ e # c
        BY <1>4, <1>5, <3>1
      <4>2. PICK u \in Threads : ClosesAt(u, e, {"sent"})
        BY <2>2, <4>1 DEF ClosedAt
      <4>3. u # t
        BY <1>2, <4>1, <4>2
      <4>4. QED BY <1>2, <4>2, <4>3, OthersKeep
    <3>2. e \in listed' \cup found' => \E u \in Threads : Working(u, e)'
      BY <1>1, <1>11, <2>1, <2>2 DEF ClosedAt
    <3>3. \A x \in made' \ (raced' \cup closed') :
            Owner[x] = e => \E u \in Threads : Pending(u, e, x)'
      BY <1>1, <1>11, <2>1, <2>2 DEF ClosedAt, Grown
    <3>4. QED BY <3>1, <3>2, <3>3 DEF ClosedAt
  <2>5. QED BY <2>3, <2>4
<1>13. QED BY <1>7, <1>8, <1>12, TreeFrom

LEMMA TreeCascade ==
  ASSUME Before, Grown, NEW t \in Threads, Cascade(t)
  PROVE  TreeInv'
<1>0. PICK c : c = call[t].on
  OBVIOUS
<1>1. /\ ClosesAt(t, c, {"ok"}) /\ Became(t, "cascade") /\ c \in made /\ c \in closed /\ c \in Entities
      /\ UNCHANGED <<made, closed, listed, heard, found, paused, alive, muted, running>>
  BY <1>0, Facts, CascadeMeans
<1>2. /\ \A a, x : ~InFrame(t, a) /\ ~LeftIn(t, a, x)
      /\ \A a : InFrame(t, a)' <=> a = c
      /\ \A a, x : LeftIn(t, a, x)' <=> a = c /\ x \in Owned(a)
  BY <1>0, Facts, CascadeLoops
<1>3. /\ Others(t) /\ Closes(t, c) /\ call[t].op = "close" /\ call[t].on = c
      /\ \A a : ~ClosesAt(t, a, {"sent"}) /\ ~ClosesAt(t, a, {"ok"})'
      /\ \A a : ClosesAt(t, a, {"ok"}) => a = c
      /\ \A a : ClosesAt(t, a, {"ok", "cascade"})' <=> ClosesAt(t, a, {"ok", "cascade"})
      /\ \A x : ~Creates(t, x) /\ ~Creates(t, x)'
  BY <1>0, <1>1 DEF Became, Creates, ClosesAt, Closes
<1>4. ASSUME NEW u \in Threads PROVE New(u)'
  <2>1. CASE u = t
    BY <1>3, <2>1 DEF New
  <2>2. CASE u # t
    <3>1. call'[u] = call[u]
      BY <1>3, <2>2, OthersKeep
    <3>2. QED BY <1>1, <3>1, NewRest
  <2>3. QED BY <2>1, <2>2
<1>5. DeadInv'
  <2>1. ASSUME NEW u \in Threads, NEW a
        PROVE  ClosesAt(u, a, {"ok", "cascade"})' <=> ClosesAt(u, a, {"ok", "cascade"})
    <3>1. CASE u = t
      BY <1>3, <3>1
    <3>2. CASE u # t
      BY <1>3, <3>2, OthersKeep
    <3>3. QED BY <3>1, <3>2
  <2>2. QED BY <1>1, <2>1, Facts DEF DeadInv, Grown
\* All that c owns is in its loop, and so reached.
<1>6. \A x \in listed : Owner[x] = c => LeftIn(t, c, x)'
  BY <1>2 DEF Owned
<1>7. ASSUME NEW e \in made \ raced, e \notin closed, NEW u \in Threads, Reaches(u, e)
      PROVE  \E v \in Threads : Reaches(v, e)'
  <2>1. CASE u # t
    BY <1>3, <1>7, <2>1, OthersKeep
  <2>2. CASE u = t
    <3>0. OpenAt(e) /\ e \in Entities
      BY <1>7, Facts
    <3>1. c \in Above[e] \ {e}
      BY <1>2, <1>3, <1>7, <2>2 DEF Reaches
    <3>2. CASE c = Owner[e]
      <4>1. LeftIn(t, Owner[e], e)'
        BY <1>6, <1>7, <3>0, <3>2 DEF OpenAt
      <4>2. QED BY <4>1 DEF Reaches
    <3>3. CASE c # Owner[e]
      <4>0. PICK b : b = Owner[e]
        OBVIOUS
      <4>1. e \in Producers /\ b \in Transports /\ c = Owner[b] /\ b \in Entities
        BY <3>0, <3>1, <3>3, <4>0, AboveIs, Kinds
      <4>2. b \in made \ raced /\ b \in Above[e] \ {e} /\ c \in Above[b] \ {b}
        <5>1. b \in made
          BY <1>7, <4>0, <4>1, Facts, Kinds DEF BaseInv
        <5>2. b \notin raced
          BY <1>7, <3>0, <4>0, Facts
        <5>3. b \in Above[e] \ {e}
          BY <3>0, <4>0, <4>1, AboveIs
        <5>4. c \in Above[b] \ {b}
          BY <1>1, <4>1, AboveIs
        <5>5. QED BY <5>1, <5>2, <5>3, <5>4
      <4>3. CASE b \notin closed
        <5>1. LeftIn(t, c, b)'
          BY <1>6, <4>1, <4>2, <4>3, Facts DEF OpenAt
        <5>2. QED BY <4>0, <4>1, <5>1 DEF Reaches
      <4>4. CASE b \in closed
        <5>1. PICK v \in Threads : Pending(v, b, e)
          BY <1>7, <4>0, <4>2, <4>4, Facts DEF ClosedAt
        <5>2. v # t
          BY <1>2, <1>3, <4>2, <5>1 DEF Pending
        <5>3. ~ClosesAt(v, b, {"sent"})
          <6>1. ASSUME ClosesAt(v, b, {"sent"}) PROVE FALSE
            <7>1. call[v].on = b /\ call[v].op \in {"create", "close"}
              BY <6>1 DEF ClosesAt
            <7>2. t = v
              BY <1>3, <1>7, <3>0, <4>2, <7>1, Alone
            <7>3. QED BY <5>2, <7>2
          <6>2. QED BY <6>1
        <5>4. ClosesAt(v, b, {"ok"}) \/ LeftIn(v, b, e)
          BY <5>1, <5>3 DEF Pending
        <5>5. Reaches(v, e)
          BY <4>0, <4>2, <5>4 DEF Reaches
        <5>6. QED BY <1>3, <5>2, <5>5, OthersKeep
      <4>5. QED BY <4>3, <4>4
    <3>4. QED BY <3>2, <3>3
  <2>3. QED BY <2>1, <2>2
<1>8. \A u \in Threads : /\ \A e : Creates(u, e) => Creates(u, e)'
                         /\ \A a : ClosesAt(u, a, {"sent"}) => ClosesAt(u, a, {"sent"})'
  <2> TAKE u \in Threads
  <2>1. CASE u = t
    BY <1>3, <2>1
  <2>2. CASE u # t
    BY <1>3, <2>2, OthersKeep
  <2>3. QED BY <2>1, <2>2
<1>9. ASSUME NEW u \in Threads, NEW a, Working(u, a) PROVE Working(u, a)'
  <2>1. CASE u = t
    BY <1>2, <1>3, <1>9, <2>1 DEF Working
  <2>2. CASE u # t
    BY <1>1, <1>3, <1>9, <2>2, OthersKeep DEF Working
  <2>3. QED BY <2>1, <2>2
<1>10. ASSUME NEW u \in Threads, NEW a, NEW x \in listed, Owner[x] = a, Pending(u, a, x)
       PROVE  Pending(u, a, x)'
  <2>1. CASE u = t
    BY <1>2, <1>3, <1>6, <1>10, <2>1 DEF Pending
  <2>2. CASE u # t
    BY <1>1, <1>3, <1>10, <2>2, OthersKeep DEF Pending
  <2>3. QED BY <2>1, <2>2
<1>11. ASSUME NEW e \in made' \ raced' PROVE OpenAt(e)' /\ ClosedAt(e)'
  <2>1. e \in made \ raced
    BY <1>1, <1>11 DEF Grown
  <2>2. OpenAt(e) /\ ClosedAt(e)
    BY <2>1, Facts
  <2>3. OpenAt(e)'
    BY <1>1, <1>7, <1>8, <2>1, <2>2 DEF OpenAt
  <2>4. ClosedAt(e)'
    <3>1. ASSUME NEW x \in made \ (raced \cup closed), Owner[x] = e, e \in closed
          PROVE  \E u \in Threads : Pending(u, e, x)'
      <4>1. x \in listed
        BY <3>1, Facts DEF OpenAt
      <4>2. QED BY <1>10, <2>2, <3>1, <4>1 DEF ClosedAt
    <3>2. \A x \in made' \ (raced' \cup closed') : x \in made \ (raced \cup closed)
      BY <1>1 DEF Grown
    <3>3. QED BY <1>1, <1>8, <1>9, <2>2, <3>1, <3>2 DEF ClosedAt
  <2>5. QED BY <2>3, <2>4
<1>12. QED BY <1>4, <1>5, <1>11, TreeFrom

LEMMA TreeVisit ==
  ASSUME Before, Grown, NEW t \in Threads, NEW x, VisitOf(t, x)
  PROVE  TreeInv'
<1>0. PICK c, o : c = call[t].on /\ o = Owner[x]
  OBVIOUS
<1>1. /\ Others(t) /\ call' = call
      /\ closed' = closed \cup {x} /\ x # Root
      /\ found' \in {found, found \ {x}} /\ listed' \in {listed, listed \ {x}}
      /\ UNCHANGED <<made, heard, paused, alive, muted, running>>
  BY Facts, VisitDoes
<1>2. /\ LeftIn(t, o, x) /\ o \in Entities /\ x \in made /\ x \in Entities
      /\ x \in Producers \cup Transports /\ x \notin Routers
  BY <1>0, Facts, VisitMeans, Kinds
<1>3. /\ Closes(t, o) /\ ClosesAt(t, c, {"cascade"}) /\ ClosesAt(t, c, {"ok", "cascade"})
      /\ c \in Entities /\ call[t].on = c /\ call[t].op = "close"
      /\ c = o \/ (o \in Transports /\ Owner[o] = c)
  BY <1>0, <1>2, Facts, LoopFacts DEF ClosesAt
<1>4. o \in Above[x] /\ o # x /\ c \in Above[x] /\ c # x
  <2>1. o \in Above[x] /\ o # x /\ Above[o] \subseteq Above[x] /\ c \in Above[o]
    BY <1>0, <1>2, <1>3, AboveIs
  <2>2. c # x
    BY <1>0, <1>2, <1>3, <2>1, Kinds
  <2>3. QED BY <2>1, <2>2
\* Nobody creates x or closes it with a call of its own.
<1>5. ASSUME x \notin raced, NEW u \in Threads, call[u].on = x, call[u].op \in {"create", "close"}
      PROVE  FALSE
  <2>1. x \in Above[x]
    BY <1>2, AboveIs
  <2>2. t = u
    BY <1>2, <1>3, <1>4, <1>5, <2>1, Alone
  <2>3. QED BY <1>3, <1>4, <1>5, <2>2
<1>6. \A u \in Threads : /\ \A a : InFrame(u, a) => InFrame(u, a)'
                         /\ \A a, y : LeftIn(u, a, y) /\ y # x => LeftIn(u, a, y)'
  <2> TAKE u \in Threads
  <2>1. CASE u = t
    <3>1. CASE x \in closed \cup Producers
      BY <2>1, <3>1, Facts, VisitKeeps
    <3>2. CASE x \notin closed \cup Producers
      BY <2>1, <3>2, Facts, VisitAdds
    <3>3. QED BY <3>1, <3>2
  <2>2. CASE u # t
    BY <1>1, <2>2, OthersKeep
  <2>3. QED BY <2>1, <2>2
<1>7. x \notin closed \cup Producers =>
        InFrame(t, x)' /\ \A y \in listed : Owner[y] = x => LeftIn(t, x, y)'
  BY Facts, VisitAdds DEF Owned
<1>8. \A u : /\ \A a, places : ClosesAt(u, a, places)' <=> ClosesAt(u, a, places)
             /\ \A e : Creates(u, e)' <=> Creates(u, e)
  BY <1>1 DEF ClosesAt, Creates
<1>9. ASSUME NEW u \in Threads PROVE New(u)'
  <2>1. ASSUME NEW e \in Entities, e \notin raced, Creates(u, e)
        PROVE  e # x /\ Owner[e] # x
    <3>1. call[u].on = e /\ call[u].op \in {"create", "close"} /\ u # t
      BY <1>3, <2>1 DEF Creates
    <3>2. e # x
      BY <1>5, <2>1, <3>1
    <3>3. ASSUME Owner[e] = x PROVE FALSE
      <4>1. o \in Above[e] /\ e \in Above[e]
        BY <1>2, <1>4, <2>1, <3>3, AboveIs
      <4>2. o # e
        BY <1>0, <1>2, <2>1, <3>3, Kinds
      <4>3. t = u
        BY <1>3, <2>1, <3>1, <4>1, <4>2, Alone
      <4>4. QED BY <3>1, <4>3
    <3>4. QED BY <3>2, <3>3
  <2>2. QED BY <1>1, <2>1, NewRest
<1>10. DeadInv'
  BY <1>1, <1>8, Facts DEF DeadInv, Grown
<1>11. \A e \in Entities : Owner[e] = x => x \notin Producers /\ Owner[x] \in Entities
  BY <1>0, <1>2, Kinds
<1>12. ASSUME NEW e \in made \ raced, e \notin closed, e # x, NEW u \in Threads, Reaches(u, e)
       PROVE  \E v \in Threads : Reaches(v, e)'
  <2>0. e \in Entities /\ OpenAt(e)
    BY <1>12, Facts
  <2>1. CASE \E a \in Above[e] \ {e} : ClosesAt(u, a, {"ok"})
    BY <1>8, <2>1 DEF Reaches
  <2>2. CASE LeftIn(u, Owner[e], e)
    BY <1>6, <1>12, <2>2 DEF Reaches
  <2>3. CASE Owner[e] \in Entities /\ LeftIn(u, Owner[Owner[e]], Owner[e])
    <3>1. CASE Owner[e] # x
      BY <1>6, <2>3, <3>1 DEF Reaches
    <3>2. CASE Owner[e] = x /\ x \notin closed
      <4>1. LeftIn(t, x, e)'
        BY <1>7, <1>11, <1>12, <2>0, <3>2 DEF OpenAt
      <4>2. QED BY <3>2, <4>1 DEF Reaches
    <3>3. CASE Owner[e] = x /\ x \in closed
      <4>1. x \in made \ raced
        BY <1>2, <1>12, <2>0, <3>3, Facts
      <4>2. PICK v \in Threads : Pending(v, x, e)
        BY <1>12, <3>3, <4>1, Facts DEF ClosedAt
      <4>3. LeftIn(v, x, e)
        BY <1>5, <4>1, <4>2 DEF Pending, ClosesAt
      <4>4. LeftIn(v, x, e)'
        BY <1>6, <1>12, <4>3
      <4>5. QED BY <3>3, <4>4 DEF Reaches
    <3>4. QED BY <3>1, <3>2, <3>3
  <2>4. QED BY <1>12, <2>1, <2>2, <2>3 DEF Reaches
<1>13. \A u \in Threads : \A a, y : /\ Working(u, a) => Working(u, a)'
                                    /\ Pending(u, a, y) /\ y # x => Pending(u, a, y)'
  BY <1>1, <1>6, <1>8 DEF Working, Pending
<1>14. ASSUME NEW e \in made' \ raced' PROVE OpenAt(e)' /\ ClosedAt(e)'
  <2>1. e \in made \ raced /\ e \in Entities
    BY <1>1, <1>14, Facts DEF Grown
  <2>2. OpenAt(e) /\ ClosedAt(e)
    BY <2>1, Facts
  <2>3. OpenAt(e)'
    <3> SUFFICES ASSUME e \notin closed, e # x PROVE OpenAt(e)'
      BY <1>1 DEF OpenAt
    <3>1. e \in alive' \/ \E v \in Threads : Reaches(v, e)'
      BY <1>1, <1>12, <2>1, <2>2 DEF OpenAt
    <3>2. QED BY <1>1, <1>8, <2>2, <3>1 DEF OpenAt
  <2>4. \A y \in made' \ (raced' \cup closed') : y \in made \ (raced \cup closed) /\ y # x
    BY <1>1 DEF Grown
  <2>5. CASE e # x \/ e \in closed
    <3>1. e \in closed' => e \in closed
      BY <1>1, <2>5
    <3>2. listed' \cup found' \subseteq listed \cup found
      BY <1>1
    <3>3. ClosedAt(e)'
      BY <1>1, <1>8, <1>13, <2>2, <2>4, <3>1, <3>2 DEF ClosedAt
    <3>4. QED BY <2>3, <3>3
  <2>6. CASE e = x /\ e \notin closed
    <3>1. x \notin alive
      BY <1>3, <1>4, <2>1, <2>6, Facts DEF DeadInv
    <3>2. ASSUME x \in listed' \cup found' PROVE \E u \in Threads : Working(u, x)'
      <4>1. CASE x \in Producers
        <5>1. x \in heard
          BY <1>2, <1>5, <2>1, <2>6, Facts DEF BaseInv, Creates
        <5>2. QED BY <2>6, <3>2, <4>1, <5>1 DEF VisitOf
      <4>2. CASE x \notin Producers
        BY <1>7, <2>6, <4>2 DEF Working
      <4>3. QED BY <4>1, <4>2
    <3>3. ASSUME NEW y \in made \ (raced \cup closed), Owner[y] = x
          PROVE  \E u \in Threads : Pending(u, x, y)'
      <4>1. y \in listed /\ y \in Entities
        BY <3>3, Facts DEF OpenAt
      <4>2. LeftIn(t, x, y)'
        BY <1>7, <1>11, <2>6, <3>3, <4>1
      <4>3. QED BY <4>2 DEF Pending
    <3>4. ClosedAt(e)'
      BY <1>1, <2>4, <2>6, <3>1, <3>2, <3>3 DEF ClosedAt
    <3>5. QED BY <2>3, <3>4
  <2>7. QED BY <2>5, <2>6
<1>15. QED BY <1>9, <1>10, <1>14, TreeFrom

LEMMA TreeEnd ==
  ASSUME Before, Grown, NEW t \in Threads, NEW d, EndOf(t, d)
  PROVE  TreeInv'
<1>0. PICK c : c = call[t].on
  OBVIOUS
<1>1. /\ Others(t) /\ ClosesAt(t, c, {"cascade"})
      /\ IF Len(frames[t]) = 1 THEN call'[t] = Idle ELSE call'[t] = call[t]
      /\ listed' = IF d \in heard THEN listed \ {d} ELSE listed
      /\ found' = {p \in found \ {d} : RouterOf(p) # d}
      /\ UNCHANGED <<made, closed, heard, paused, alive, muted, running>>
  BY <1>0, Facts, EndDoes
<1>2. /\ InFrame(t, d) /\ \A x : ~LeftIn(t, d, x)
      /\ \A a : InFrame(t, a)' <=> InFrame(t, a) /\ a # d
      /\ \A a, x : LeftIn(t, a, x)' <=> LeftIn(t, a, x)
      /\ d \in Routers => Len(frames[t]) = 1
      /\ Len(frames[t]) = 1 => frames'[t] = <<>> /\ c = d
  BY <1>0, Facts, EndMeans
<1>3. /\ d \in Entities /\ d \in made /\ d \in closed /\ Closes(t, d)
      /\ c \in Entities /\ c \in made
      /\ d = c \/ (d \in Transports /\ Owner[d] = c)
      /\ ClosesAt(t, c, {"ok", "cascade"}) /\ Closes(t, c)
      /\ call[t].on = c /\ call[t].op = "close" /\ call[t].at = "cascade"
  BY <1>0, <1>1, <1>2, Facts, LoopFacts DEF ClosesAt, Closes
<1>4. /\ \A a : ~ClosesAt(t, a, {"ok"}) /\ ~ClosesAt(t, a, {"ok"})'
      /\ \A a : ~ClosesAt(t, a, {"sent"}) /\ ~ClosesAt(t, a, {"sent"})'
      /\ \A a : ClosesAt(t, a, {"ok", "cascade"})' => ClosesAt(t, a, {"ok", "cascade"})
      /\ \A x : ~Creates(t, x) /\ ~Creates(t, x)'
  BY <1>1, <1>3, IdleIsCall DEF ClosesAt, Creates
<1>5. \A u \in Threads :
        /\ \A a : ClosesAt(u, a, {"ok"})' <=> ClosesAt(u, a, {"ok"})
        /\ \A a : ClosesAt(u, a, {"sent"})' <=> ClosesAt(u, a, {"sent"})
        /\ \A a : ClosesAt(u, a, {"ok", "cascade"})' => ClosesAt(u, a, {"ok", "cascade"})
        /\ \A x : Creates(u, x)' <=> Creates(u, x)
        /\ \A a, x : LeftIn(u, a, x)' <=> LeftIn(u, a, x)
        /\ \A a : InFrame(u, a) /\ a # d => InFrame(u, a)'
        /\ u # t => (InFrame(u, d) => InFrame(u, d)')
  <2> TAKE u \in Threads
  <2>1. CASE u = t
    BY <1>2, <1>4, <2>1
  <2>2. CASE u # t
    BY <1>1, <2>2, OthersKeep
  <2>3. QED BY <2>1, <2>2
<1>6. ASSUME NEW u \in Threads PROVE New(u)'
  <2>1. CASE u = t
    BY <1>4, <2>1 DEF New
  <2>2. CASE u # t
    <3>1. call'[u] = call[u]
      BY <1>1, <2>2, OthersKeep
    <3>2. QED BY <1>1, <3>1, NewRest
  <2>3. QED BY <2>1, <2>2
<1>7. DeadInv'
  BY <1>1, <1>5, Facts DEF DeadInv, Grown
<1>8. \A u \in Threads, e \in Entities : Reaches(u, e)' <=> Reaches(u, e)
  BY <1>5 DEF Reaches
<1>9. d \notin raced => d \notin alive /\ \A u \in Threads : ClosesAt(u, d, {"ok", "cascade"}) => u = t
  <2> SUFFICES ASSUME d \notin raced
               PROVE  d \notin alive /\ \A u \in Threads : ClosesAt(u, d, {"ok", "cascade"}) => u = t
    OBVIOUS
  <2>1. c \in Above[d] /\ d \in Above[d]
    BY <1>3, AboveIs
  <2>2. d \notin alive
    BY <1>3, <2>1, Facts DEF DeadInv
  <2>3. ASSUME NEW u \in Threads, ClosesAt(u, d, {"ok", "cascade"}), u # t PROVE FALSE
    <3>1. CASE d = c
      BY <1>3, <2>3, <3>1, Facts DEF DeadInv
    <3>2. CASE d # c
      <4>1. call[u].on = d /\ call[u].op \in {"create", "close"}
        BY <2>3 DEF ClosesAt
      <4>2. t = u
        BY <1>3, <2>1, <3>2, <4>1, Alone
      <4>3. QED BY <2>3, <4>2
    <3>3. QED BY <3>1, <3>2
  <2>4. QED BY <2>2, <2>3
\* Nothing is open any more below a router that ends its loop.
<1>10. ASSUME NEW e \in made \ raced, e \in Producers, RouterOf(e) = d
       PROVE  e \in closed
  <2>0. PICK b : b = Owner[e]
    OBVIOUS
  <2>1. e \in Entities /\ b \in Transports /\ b \in Entities /\ Owner[b] = d /\ d \in Routers
    BY <1>10, <2>0, Facts, Kinds DEF RouterOf
  <2>2. b \in made \ raced /\ d \notin raced /\ b \in Above[e] /\ b # e /\ d \in Above[b] /\ d # b
    <3>1. b \in made
      BY <1>10, <2>0, <2>1, Facts, Kinds DEF BaseInv
    <3>2. b \notin raced
      BY <1>10, <2>0, <2>1, Facts
    <3>3. d \notin raced
      BY <2>1, <3>2, Facts
    <3>4. b \in Above[e] /\ b # e
      BY <2>0, <2>1, AboveIs
    <3>5. d \in Above[b] /\ d # b
      BY <1>3, <2>1, AboveIs
    <3>6. QED BY <3>1, <3>2, <3>3, <3>4, <3>5
  <2>3. frames'[t] = <<>> /\ c = d
    BY <1>2, <2>1
  <2>4. \A a, x : ~LeftIn(t, a, x)
    <3>1. \A a, x : ~LeftIn(t, a, x)'
      BY <2>3 DEF LeftIn
    <3>2. QED BY <1>2, <3>1
  \* Nobody else is in a loop of the router.
  <2>5. ASSUME NEW u \in Threads, InFrame(u, d) PROVE u = t
    <3>1. ClosesAt(u, d, {"ok", "cascade"})
      BY <2>1, <2>5, Facts, LoopFacts, Kinds DEF ClosesAt
    <3>2. QED BY <1>9, <2>2, <3>1
  <2>6. b \in closed
    <3> SUFFICES ASSUME b \notin closed PROVE FALSE
      OBVIOUS
    <3>1. PICK u \in Threads : Pending(u, d, b)
      BY <1>3, <2>1, <2>2, Facts DEF ClosedAt
    <3>2. u # t
      BY <1>4, <2>4, <3>1 DEF Pending
    <3>3. CASE ClosesAt(u, d, {"ok"})
      BY <1>9, <2>2, <3>2, <3>3 DEF ClosesAt
    <3>4. CASE LeftIn(u, d, b)
      BY <2>5, <3>2, <3>4, Facts, LoopFacts
    <3>5. QED BY <1>9, <2>2, <3>1, <3>3, <3>4 DEF Pending
  <2>7. ASSUME e \notin closed PROVE FALSE
    <3>1. PICK u \in Threads : Pending(u, b, e)
      BY <1>10, <2>0, <2>2, <2>6, <2>7, Facts DEF ClosedAt
    <3>2. u # t
      BY <1>4, <2>4, <3>1 DEF Pending
    <3>3. ASSUME call[u].on = b, call[u].op = "close" PROVE FALSE
      <4>1. t = u
        BY <1>3, <1>10, <2>1, <2>2, <3>3, Alone
      <4>2. QED BY <3>2, <4>1
    <3>4. CASE LeftIn(u, b, e)
      <4>1. InFrame(u, b) /\ ClosesAt(u, call[u].on, {"cascade"}) /\ (b = call[u].on \/ Owner[b] = call[u].on)
        BY <3>4, Facts, LoopFacts
      <4>2. call[u].on # b
        BY <3>3, <4>1 DEF ClosesAt
      <4>3. ClosesAt(u, d, {"ok", "cascade"})
        BY <2>1, <4>1, <4>2 DEF ClosesAt
      <4>4. QED BY <1>9, <2>2, <3>2, <4>3
    <3>5. QED BY <3>1, <3>3, <3>4 DEF Pending, ClosesAt
  <2>8. QED BY <2>7
<1>11. ASSUME NEW e \in made' \ raced' PROVE OpenAt(e)' /\ ClosedAt(e)'
  <2>1. e \in made \ raced /\ e \in Entities
    BY <1>1, <1>11, Facts DEF Grown
  <2>2. OpenAt(e) /\ ClosedAt(e)
    BY <2>1, Facts
  <2>3. OpenAt(e)'
    <3> SUFFICES ASSUME e \notin closed PROVE OpenAt(e)'
      BY <1>1 DEF OpenAt
    <3>1. e # d
      BY <1>3
    <3>2. e \in Producers => RouterOf(e) # d
      BY <1>10, <2>1
    <3>3. QED BY <1>1, <1>5, <1>8, <2>1, <2>2, <3>1, <3>2 DEF OpenAt
  <2>4. ClosedAt(e)'
    <3>0. \A y \in made' \ (raced' \cup closed') : y \in made \ (raced \cup closed)
      BY <1>1 DEF Grown
    <3>1. CASE e # d
      <4>1. \A u \in Threads : \A x : /\ Working(u, e) => Working(u, e)'
                                      /\ Pending(u, e, x) => Pending(u, e, x)'
        BY <1>1, <1>5, <3>1 DEF Working, Pending
      <4>2. listed' \cup found' \subseteq listed \cup found
        BY <1>1
      <4>3. QED BY <1>1, <1>5, <2>2, <3>0, <4>1, <4>2 DEF ClosedAt
    <3>2. CASE e = d
      <4>1. d \in heard
        <5>1. ASSUME NEW u \in Threads, Creates(u, d) PROVE FALSE
          <6>1. CASE d = c
            BY <1>3, <5>1, <6>1, Facts, OwnPlace DEF PlaceAt
          <6>2. CASE d # c
            <7>1. c \in Above[d] /\ d \in Above[d]
              BY <1>3, AboveIs
            <7>2. call[u].on = d /\ call[u].op \in {"create", "close"}
              BY <5>1 DEF Creates
            <7>3. t = u
              BY <1>3, <2>1, <3>2, <6>2, <7>1, <7>2, Alone
            <7>4. QED BY <1>4, <5>1, <7>3
          <6>3. QED BY <6>1, <6>2
        <5>2. QED BY <1>3, <5>1, Facts DEF BaseInv
      <4>2. d \notin listed' \cup found' /\ d \notin alive'
        BY <1>1, <1>9, <2>1, <3>2, <4>1
      <4>3. ASSUME NEW u \in Threads, NEW x, Pending(u, d, x) PROVE Pending(u, d, x)'
        BY <1>1, <1>5, <4>3 DEF Pending
      <4>4. QED BY <1>1, <2>2, <3>0, <3>2, <4>2, <4>3 DEF ClosedAt
    <3>3. QED BY <3>1, <3>2
  <2>5. QED BY <2>3, <2>4
<1>12. QED BY <1>6, <1>7, <1>11, TreeFrom

LEMMA TreeStep ==
  ASSUME TypeInv, BaseInv, RaceInv, TreeInv, running, [Next]_vars, running'
  PROVE  TreeInv'
<1>0. Before /\ Grown
  BY RaceStep DEF Before, Grown
<1>1. ASSUME NEW t \in Threads, Begin(t) \/ Thread(t) PROVE TreeInv'
  <2>1. ~ParseEmpty(t)
    BY OwnPlace DEF ParseEmpty, PlaceAt
  <2>2. t \in Everyone
    BY DEF Everyone
  <2>3. CASE Visit(t)
    BY <1>0, <2>2, <2>3, VisitIs, TreeVisit
  <2>4. CASE EndLoop(t)
    BY <1>0, <2>2, <2>4, EndIs, TreeEnd
  <2>5. QED BY <1>0, <1>1, <2>1, <2>3, <2>4, TreeCalls, TreePlain, TreeBuild, TreeAnnounce,
            TreeHandleCreate, TreeHandleClose, TreeCloseSet, TreeCascade DEF Thread
<1>2. ~WorkerStop
  BY DEF WorkerStop
<1>3. ~Stopping
  BY IdleIsCall DEF Stopping, WorkerClose, WorkerWalk, Walk, Visit, EndLoop, WorkerClear, BaseInv
<1>4. CASE UNCHANGED vars
  <2>1. \A t, a, x, places : /\ ClosesAt(t, a, places)' <=> ClosesAt(t, a, places)
                             /\ Creates(t, a)' <=> Creates(t, a)
                             /\ InFrame(t, a)' <=> InFrame(t, a)
                             /\ LeftIn(t, a, x)' <=> LeftIn(t, a, x)
    BY <1>4 DEF vars, ClosesAt, Creates, InFrame, LeftIn
  <2>2. \A t, e, x : /\ Reaches(t, e)' <=> Reaches(t, e)
                     /\ Working(t, e)' <=> Working(t, e)
                     /\ Pending(t, e, x)' <=> Pending(t, e, x)
    BY <1>4, <2>1 DEF vars, Reaches, Working, Pending
  <2>3. NewInv' /\ DeadInv'
    BY <1>4, <2>1 DEF vars, TreeInv, NewInv, DeadInv
  <2>4. \A e : (OpenAt(e)' <=> OpenAt(e)) /\ (ClosedAt(e)' <=> ClosedAt(e))
    BY <1>4, <2>1, <2>2 DEF vars, OpenAt, ClosedAt
  <2>5. QED BY <1>4, <2>3, <2>4 DEF vars, TreeInv
<1>5. QED BY <1>1, <1>2, <1>3, <1>4 DEF Next

-----------------------------------------------------------------------------
(* Pausing                                                                 *)

Told(t, p) == call[t].on = p /\ call[t].op \in {"pause", "resume"} /\ call[t].at = "ok"

Says(t, p) == /\ call[t].on = p /\ call[t].at = "ok"
              /\ \/ call[t].op = "pause" /\ p \in muted
                 \/ call[t].op = "resume" /\ p \notin muted

MixAt(p) ==
  \/ (\A t \in Threads : ~Told(t, p)) /\ (p \in paused <=> p \in muted)
  \/ \E t \in Threads : Says(t, p)

LEMMA MixIs == MixInv <=> Mixing \subseteq mixed /\ \A p \in (Producers \cap alive) \ mixed : MixAt(p)
  BY DEF MixInv, MixAt, Told, Says

\* A producer that the step of t is not about.
LEMMA MixRest ==
  ASSUME NEW t \in Threads, Others(t), NEW p, MixAt(p), ~Told(t, p), ~Told(t, p)',
         p \in paused' <=> p \in paused, p \in muted' <=> p \in muted
  PROVE  MixAt(p)'
<1>1. \A u \in Threads : u # t => call'[u] = call[u]
  BY DEF Others, Everyone
<1>2. CASE (\A u \in Threads : ~Told(u, p)) /\ (p \in paused <=> p \in muted)
  <2>1. \A u \in Threads : ~Told(u, p)'
    BY <1>1, <1>2 DEF Told
  <2>2. QED BY <1>2, <2>1 DEF MixAt
<1>3. CASE \E u \in Threads : Says(u, p)
  <2>1. PICK u \in Threads : Says(u, p)
    BY <1>3
  <2>2. u # t
    BY <2>1 DEF Told, Says
  <2>3. Says(u, p)'
    BY <1>1, <2>1, <2>2 DEF Says
  <2>4. QED BY <2>3 DEF MixAt
<1>4. QED BY <1>2, <1>3 DEF MixAt

\* Whoever else pauses or resumes an unmixed producer is the same thread.
LEMMA Unmixed ==
  ASSUME MixInv, NEW p \in Producers, p \notin mixed,
         NEW t \in Threads, call[t].on = p, call[t].op \in {"pause", "resume"},
         NEW u \in Threads, call[u].on = p, call[u].op \in {"pause", "resume"}
  PROVE  u = t
BY DEF MixInv, Mixing

LEMMA MixThread ==
  ASSUME TypeInv, BaseInv, MixInv, NEW t \in Threads, Begin(t) \/ Thread(t), mixed \subseteq mixed',
         NEW p \in Producers, p \in alive', p \notin mixed'
  PROVE  MixAt(p)'
<1>0. p \in alive /\ p \notin mixed => MixAt(p)
  BY MixIs
<1>1. PlaceAt(t) /\ p \notin mixed
  BY OwnPlace
<1>2. ~ParseEmpty(t)
  BY <1>1 DEF ParseEmpty, PlaceAt
\* Nothing that concerns p.
<1>3. ASSUME Others(t), p \in alive, ~Told(t, p), ~Told(t, p)', UNCHANGED <<paused, muted>>
      PROVE  MixAt(p)'
  BY <1>0, <1>1, <1>3, MixRest
<1>4. ASSUME NEW e \in Entities, Create(t, e) \/ CloseTest(t, e) PROVE MixAt(p)'
  BY <1>3, <1>4, CreateMeans, CloseTestMeans, IdleIsCall DEF Told
<1>5. ASSUME NEW q \in Producers, Pause(t, q) PROVE MixAt(p)'
  BY <1>3, <1>5, PauseMeans, IdleIsCall DEF Told
<1>6. CASE Build(t) \/ Connect(t) \/ Announce(t) \/ Throw(t) \/ CloseSet(t) \/ Cascade(t)
  <2>1. /\ call[t].op \in {"create", "close"} \/ call[t].at = "error"
        /\ call'[t].op = call[t].op \/ call'[t] = Idle
        /\ Others(t) /\ UNCHANGED <<paused, alive, muted>>
    BY <1>6, BuildMeans, ConnectMeans, AnnounceMeans, ThrowMeans, CloseSetMeans, CascadeMeans
       DEF Became, Ended, ClosesAt
  <2>2. call'[t].op \in {"create", "close"} \/ call'[t] = Idle
    BY <1>6, <2>1, ThrowMeans, BuildMeans, ConnectMeans, AnnounceMeans, CloseSetMeans, CascadeMeans
       DEF Ended, ClosesAt
  <2>3. ~Told(t, p) /\ ~Told(t, p)'
    BY <2>1, <2>2, IdleIsCall DEF Told
  <2>4. QED BY <1>3, <2>1, <2>3
<1>7. CASE HandleClose(t)
  <2>1. call[t].op = "close" /\ call'[t].op = "close" /\ Others(t) /\ alive' \subseteq alive
        /\ UNCHANGED <<paused, muted>>
    BY <1>7, HandleCloseMeans DEF Became, ClosesAt
  <2>2. QED BY <1>3, <2>1 DEF Told
<1>8. CASE HandleCreate(t)
  <2>1. PICK n : n = call[t].on
    OBVIOUS
  <2>2. /\ n \notin made /\ call[t].op = "create" /\ call'[t].op = "create" /\ Others(t)
        /\ alive' \subseteq alive \cup {n} /\ UNCHANGED <<paused, muted>>
    BY <1>8, <2>1, HandleCreateMeans DEF Became
  <2>3. CASE p = n
    <3>1. p \notin paused /\ p \notin muted
      BY <2>2, <2>3, OwnPlace
    <3>2. ASSUME NEW u \in Threads PROVE ~Told(u, p)'
      <4>1. CASE u = t
        BY <2>2, <4>1 DEF Told
      <4>2. CASE u # t
        <5>1. PlaceAt(u) /\ call'[u] = call[u]
          BY <2>2, <4>2, OwnPlace, OthersKeep
        <5>2. QED BY <2>2, <2>3, <5>1 DEF Told, PlaceAt
      <4>3. QED BY <4>1, <4>2
    <3>3. QED BY <2>2, <3>1, <3>2 DEF MixAt
  <2>4. CASE p # n
    BY <1>3, <2>2, <2>4 DEF Told
  <2>5. QED BY <2>3, <2>4
<1>9. CASE HandlePause(t)
  <2>1. PICK q : q = call[t].on
    OBVIOUS
  <2>2. /\ call[t].op \in {"pause", "resume"} /\ call[t].at = "sent"
        /\ Became(t, IF q \in alive THEN "ok" ELSE "error")
        /\ muted' = IF q \notin alive THEN muted
                    ELSE IF call[t].op = "pause" THEN muted \cup {q} ELSE muted \ {q}
        /\ UNCHANGED <<paused, alive>>
    BY <1>9, <2>1, HandlePauseMeans
  <2>3. CASE p = q
    <3>1. call'[t].on = p /\ call'[t].at = "ok" /\ call'[t].op = call[t].op
      BY <2>1, <2>2, <2>3 DEF Became
    <3>2. Says(t, p)'
      BY <2>2, <2>3, <3>1 DEF Says
    <3>3. QED BY <3>2 DEF MixAt
  <2>4. CASE p # q
    <3>1. Others(t) /\ ~Told(t, p) /\ ~Told(t, p)' /\ (p \in muted' <=> p \in muted)
      BY <2>1, <2>2, <2>4 DEF Told, Became
    <3>2. QED BY <1>0, <1>1, <2>2, <3>1, MixRest
  <2>5. QED BY <2>3, <2>4
<1>10. CASE Paused(t)
  <2>1. PICK q : q = call[t].on
    OBVIOUS
  <2>2. /\ call[t].op \in {"pause", "resume"} /\ call[t].at = "ok" /\ call'[t] = Idle /\ Others(t)
        /\ paused' = IF call[t].op = "pause" THEN paused \cup {q} ELSE paused \ {q}
        /\ UNCHANGED <<alive, muted>>
    BY <1>10, <2>1, PausedMeans DEF Ended
  <2>3. ~Told(t, p)'
    BY <2>2, IdleIsCall DEF Told
  <2>4. CASE p = q
    <3>1. \A u \in Threads : call[u].on = p /\ call[u].op \in {"pause", "resume"} => u = t
      BY <1>1, <2>1, <2>2, <2>4, Unmixed
    <3>2. Says(t, p)
      <4>1. Told(t, p)
        BY <2>1, <2>2, <2>4 DEF Told
      <4>2. PICK u \in Threads : Says(u, p)
        BY <1>0, <1>1, <2>2, <4>1 DEF MixAt
      <4>3. u = t
        BY <3>1, <4>2 DEF Says
      <4>4. QED BY <4>2, <4>3
    <3>3. p \in paused' <=> p \in muted'
      BY <2>2, <2>4, <3>2 DEF Says
    <3>4. ASSUME NEW u \in Threads PROVE ~Told(u, p)'
      <4>1. CASE u = t
        BY <2>3, <4>1
      <4>2. CASE u # t
        BY <2>2, <3>1, <4>2, OthersKeep DEF Told
      <4>3. QED BY <4>1, <4>2
    <3>5. QED BY <3>3, <3>4 DEF MixAt
  <2>5. CASE p # q
    <3>1. ~Told(t, p) /\ (p \in paused' <=> p \in paused)
      BY <2>1, <2>2, <2>5 DEF Told
    <3>2. QED BY <1>0, <1>1, <2>2, <2>3, <3>1, MixRest
  <2>6. QED BY <2>4, <2>5
<1>11. CASE Visit(t)
  <2>1. PICK x : VisitOf(t, x)
    BY <1>11, VisitIs DEF Everyone
  <2>2. Others(t) /\ call' = call /\ UNCHANGED <<paused, alive, muted>>
    BY <2>1, VisitDoes
  <2>3. call[t].at = "cascade"
    BY <2>1, OwnPlace DEF FrameAt, VisitOf
  <2>4. QED BY <1>3, <2>2, <2>3 DEF Told
<1>12. CASE EndLoop(t)
  <2>1. PICK d : EndOf(t, d)
    BY <1>12, EndIs DEF Everyone
  <2>2. Others(t) /\ UNCHANGED <<paused, alive, muted>> /\ call[t].at = "cascade"
        /\ (call'[t] = Idle \/ call'[t] = call[t])
    BY <2>1, EndDoes DEF ClosesAt
  <2>3. QED BY <1>3, <2>2, IdleIsCall DEF Told
<1>13. QED BY <1>2, <1>4, <1>5, <1>6, <1>7, <1>8, <1>9, <1>10, <1>11, <1>12 DEF Begin, Thread

LEMMA MixStep ==
  ASSUME TypeInv, BaseInv, MixInv, running, [Next]_vars, running'
  PROVE  MixInv'
<1>1. CASE UNCHANGED vars
  BY <1>1 DEF vars, MixInv, Mixing
<1>2. CASE Next
  <2>1. Noted
    BY <1>2 DEF Next
  <2>2. mixed \subseteq mixed' /\ Mixing' \subseteq mixed'
    BY <2>1 DEF Noted
  <2>3. PICK t \in Threads : Begin(t) \/ Thread(t)
    <3>1. ~WorkerStop
      BY DEF WorkerStop
    <3>2. ~Stopping
      BY IdleIsCall DEF Stopping, WorkerClose, WorkerWalk, Walk, Visit, EndLoop, WorkerClear, BaseInv
    <3>3. QED BY <1>2, <3>1, <3>2 DEF Next
  <2>4. \A p \in (Producers \cap alive') \ mixed' : MixAt(p)'
    BY <2>2, <2>3, MixThread
  <2>5. MixInv' <=> Mixing' \subseteq mixed' /\ \A p \in (Producers \cap alive') \ mixed' : MixAt(p)'
    BY DEF MixInv, MixAt, Told, Says
  <2>6. QED BY <2>2, <2>4, <2>5
<1>3. QED BY <1>1, <1>2

-----------------------------------------------------------------------------
(* The invariant                                                           *)

LEMMA RunInit == Init => RunInv
<1> SUFFICES ASSUME Init PROVE RunInv
  OBVIOUS
<1>1. PICK s \in SUBSET Servers : made = s /\ listed = s /\ heard = s /\ alive = s
  BY DEF Init
<1>2. /\ closed = {} /\ found = {} /\ paused = {} /\ muted = {} /\ raced = {} /\ mixed = {}
      /\ \A t \in Threads : call[t] = Idle /\ frames[t] = <<>>
  BY DEF Init
<1>3. BaseInv
  BY BaseInit
<1>4. RaceInv
  BY <1>2, IdleIsCall DEF RaceInv, Apart
<1>5. \A t \in Threads : \A e, places : ~Creates(t, e) /\ ~ClosesAt(t, e, places)
  BY <1>2, IdleIsCall DEF Creates, ClosesAt
<1>6. s \cap Producers = {}
  BY OwnerAssumption, Kinds
<1>7. TreeInv
  BY <1>1, <1>2, <1>5, <1>6 DEF TreeInv, NewInv, DeadInv, OpenAt, ClosedAt
<1>8. MixInv
  BY <1>1, <1>2, <1>6, IdleIsCall DEF MixInv, Mixing
<1>9. QED BY <1>3, <1>4, <1>7, <1>8 DEF RunInv

LEMMA ControllersStep ==
  ASSUME ControllersInv, [Next]_vars
  PROVE  ControllersInv'
<1>1. TypeInv'
  BY TypeStep DEF ControllersInv
<1>2. ASSUME running' PROVE RunInv'
  <2>1. running
    BY <1>2 DEF Next, vars, WorkerStop, Stopping, WorkerClose, WorkerWalk, WorkerClear, Visit, EndLoop,
       Begin, Create, CloseTest, Pause, Thread, ParseEmpty, Build, Connect, Announce, HandleCreate,
       HandleClose, HandlePause, Throw, Paused, CloseSet, Cascade
  <2>2. TypeInv /\ BaseInv /\ RaceInv /\ TreeInv /\ MixInv
    BY <2>1 DEF ControllersInv, RunInv
  <2>3. QED BY <1>2, <2>1, <2>2, BaseStep, RaceStep, TreeStep, MixStep DEF RunInv
<1>3. QED BY <1>1, <1>2 DEF ControllersInv

\* Every state: what is open while the worker runs lives or is reached by its
\* closer, what is closed is being removed, and nobody races below a closing
\* unnoticed.
THEOREM ControllersCorrect == Spec => []ControllersInv
<1>1. Init => ControllersInv
  BY TypeInit, RunInit DEF ControllersInv
<1>2. ControllersInv /\ [Next]_vars => ControllersInv'
  BY ControllersStep
<1>3. QED BY <1>1, <1>2, PTL DEF Spec

\* Every variable keeps its type, also when the worker has stopped.
THEOREM ControllersTypeCorrect == Spec => []TypeOK
<1>1. ControllersInv => TypeOK
  BY DEF ControllersInv, TypeInv
<1>2. QED BY <1>1, ControllersCorrect, PTL

\* With every call over, the controllers that did not race with a closing above
\* them mirror the worker's entities.
THEOREM MirrorsWorkerCorrect == Spec => []MirrorsWorker
<1>1. ControllersInv => MirrorsWorker
  <2> SUFFICES ASSUME ControllersInv, Quiet, NEW e \in made \ raced
               PROVE  LET open == e \notin closed
                      IN  /\ open <=> e \in alive
                          /\ open <=> e \in listed
                          /\ open => Owner[e] \notin closed
                          /\ e \in Producers => (open <=> e \in found)
    BY DEF MirrorsWorker
  <2>1. TypeInv /\ BaseInv /\ TreeInv /\ Before
    BY DEF ControllersInv, RunInv, Quiet, Before
  <2>2. \A t \in Threads : \A a, x, places :
          ~ClosesAt(t, a, places) /\ ~InFrame(t, a) /\ ~LeftIn(t, a, x) /\ ~Creates(t, a)
    <3> TAKE t \in Threads
    <3>1. call[t] = Idle /\ FrameAt(t)
      BY <2>1, OwnPlace DEF Quiet
    <3>2. frames[t] = <<>>
      BY <3>1, IdleIsCall DEF FrameAt
    <3>3. QED BY <3>1, <3>2, NoLoops, IdleIsCall DEF ClosesAt, Creates
  <2>3. OpenAt(e) /\ ClosedAt(e)
    BY <2>1, Facts
  <2>4. \A t \in Threads : \A a, x : ~Reaches(t, a) /\ ~Working(t, a) /\ ~Pending(t, a, x)
    BY <2>2 DEF Reaches, Working, Pending
  <2>5. ASSUME e \notin closed PROVE Owner[e] \notin closed
    <3>1. e \in Entities
      BY <2>1, Facts
    <3>2. ASSUME Owner[e] \in closed PROVE FALSE
      <4>1. Owner[e] \in made \ raced
        BY <2>1, <3>1, <3>2, Facts
      <4>2. ClosedAt(Owner[e])
        BY <2>1, <4>1, Facts
      <4>3. QED BY <2>4, <2>5, <3>2, <4>2 DEF ClosedAt
    <3>3. QED BY <3>2
  <2>6. QED BY <2>2, <2>3, <2>4, <2>5 DEF OpenAt, ClosedAt
<1>2. QED BY <1>1, ControllersCorrect, PTL

\* With every call over, _paused of a producer whose pauses did not overlap says
\* what the worker does.
THEOREM PausedAgreesCorrect == Spec => []PausedAgrees
<1>1. ControllersInv => PausedAgrees
  <2> SUFFICES ASSUME ControllersInv, Quiet, NEW p \in Producers \cap alive, p \notin mixed
               PROVE  p \in paused <=> p \in muted
    BY DEF PausedAgrees
  <2>1. MixAt(p)
    BY MixIs DEF ControllersInv, RunInv, Quiet
  <2>2. \A t \in Threads : call[t].at # "ok"
    BY IdleIsCall DEF Quiet
  <2>3. QED BY <2>1, <2>2 DEF MixAt, Says
<1>2. QED BY <1>1, ControllersCorrect, PTL
==============================================================================
