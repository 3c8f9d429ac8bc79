-------------------------- MODULE VideoQualityProofs --------------------------
(***************************************************************************)
(* Proofs about VideoQuality: its type invariant, that only a handler at   *)
(* work on a consumer whose producer is closed meets a dangling or null    *)
(* entry, and that the last word a producing client hears of the quality   *)
(* its consumers want is true.                                             *)
(***************************************************************************)
EXTENDS VideoQuality, SequenceTheorems, FiniteSetTheorems, TLAPS

Ops == {"none", "response", "pause", "resume", "layers", "leave"}

Summing == {"max", "paused", "send"}
Early   == {"found", "asked", "find", "make", "add"}
PC == {"idle", "remove", "leave", "closing", "gone"} \cup Summing \cup Early

\* What is finite has a highest element; that is not needed here, only that the same
\* table is always summed up to the same.
Depth  == Layers \cup {Highest(Layers), 0}
Status == [paused : BOOLEAN, layer : Depth]
Table  == UNION {[S -> Status] : S \in SUBSET Consumers}
Sum    == {-1} \cup {GetMaxDesiredQ(f) : f \in Table}
Local  == [op : Ops, of : Consumers \cup {None}, layer : Depth, obj : Consumers \cup {None},
           maxQ : Sum, paused : BOOLEAN]
Message == [type : {"response"}, of : Consumers \cup {Closer}, ok : BOOLEAN]
           \cup [type : {"producerClose"}, of : Consumers, ok : {TRUE}]

\* Every variable stays within its type.
TypeOK ==
  /\ open \in BOOLEAN /\ listed \in BOOLEAN /\ stale \in BOOLEAN
  /\ entry \in [Consumers -> {"held", "null", "erased"}]
  /\ status \in [Consumers -> Status]
  /\ quality \in Consumers \cup {None}
  /\ tables \in [Consumers -> Table]
  /\ pc \in [Threads -> PC]
  /\ local \in [Threads -> Local]
  /\ reply \in [Consumers \cup {Closer} -> {"none", "ok", "error"}]
  /\ inbox \in Seq(Message)
  /\ told \in [desiredQ : Sum, paused : BOOLEAN] \cup {None}
  /\ calls \in [Consumers -> Nat]
  /\ crashed \in Consumers \cup {None}
  /\ moved \subseteq Threads /\ orphaned \subseteq Consumers /\ met \subseteq Consumers

\* A thread has at hand what its next step takes.
HandAt(t) ==
  /\ pc[t] \in {"add", "remove"} \cup Summing => local[t].obj \in Consumers /\ quality # None
  /\ pc[t] \in {"find", "make", "add", "remove"} \cup Summing => local[t].of \in Consumers

PoolHand == pc[Pool] \in {"idle", "find", "remove"} \cup Summing /\ local[Pool].op = "none"

RequestAt(c) ==
  /\ pc[c] \in {"idle", "gone"} => local[c].op = "none"
  /\ pc[c] \notin {"idle", "gone", "leave"} => local[c].of = c /\ local[c].op # "none"
  /\ pc[c] \in {"found", "asked", "make", "add"} => local[c].op # "leave"
  /\ pc[c] \in {"remove", "closing"} => local[c].op = "leave"

PlaceInv ==
  (\A t \in Threads : HandAt(t)) /\ PoolHand /\ (\A c \in Consumers : RequestAt(c))

\* A null entry, or one erased under a handler that uses it, was erased under one.
MetAt(c) ==
  /\ entry[c] = "null" => c \in met
  /\ entry[c] # "held" /\ pc[c] \in Early /\ local[c].op # "leave" => c \in met

MetInv == \A c \in Consumers : MetAt(c)

\* While the producer is open the pool thread has only answers to deliver, and every
\* peer that has not left its consumer.
OpenInv ==
  open =>
    /\ listed /\ pc[Pool] = "idle" /\ reply[Closer] = "none" /\ crashed = None
    /\ \A i \in DOMAIN inbox : inbox[i].type = "response" /\ inbox[i].of \in Consumers
    /\ \A c \in Consumers : entry[c] = IF pc[c] = "gone" THEN "erased" ELSE "held"

\* A producer that is closed but listed is about to be taken out of the list.
CloserInv ==
  ~open /\ listed =>
    \/ reply[Closer] # "none"
    \/ \E i \in DOMAIN inbox : inbox[i].type = "response" /\ inbox[i].of = Closer

-----------------------------------------------------------------------------
(* The table while the producer is open.                                   *)

\* Nothing is in a table before there is a controller to keep, and a thread uses that
\* one or its own.
EmptyInv == quality = None => told = None /\ \A c \in Consumers : DOMAIN tables[c] = {}

ObjectAt(c) ==
  /\ pc[c] \in {"add"} \cup Summing => local[c].obj \in {quality, c}
  /\ pc[c] = "remove" => local[c].obj = quality

InTable(c) == quality # None /\ c \in DOMAIN tables[quality]

Updating(c) == pc[c] \in {"find", "make", "add"} /\ local[c].op # "leave"
Removed(c)  == pc[c] = "gone" \/ (pc[c] \in Summing \cup {"closing"} /\ local[c].op = "leave")

\* The table has what a consumer wants, unless it is being entered or went astray.
TableAt(c) ==
  IF Removed(c) THEN ~InTable(c)
  ELSE \/ c \in orphaned \/ Updating(c)
       \/ InTable(c) /\ tables[quality][c] = status[c]
       \/ ~InTable(c) /\ status[c].paused

\* What a thread has summed up is still so, unless the table was seen to move.
MovedAt(c) ==
  local[c].obj = quality /\ c \notin moved =>
    /\ pc[c] \in {"paused", "send"} => local[c].maxQ = GetMaxDesiredQ(tables[quality])
    /\ pc[c] = "send" => local[c].paused = IsAllConsumerPaused(tables[quality])

SumAt(c) == ObjectAt(c) /\ TableAt(c) /\ MovedAt(c)

\* The client was told the sum of the table, or will be told another.
WillTell(c) == pc[c] \in Summing /\ local[c].obj = quality

ToldInv ==
  told # None /\ ~stale =>
    \/ told = [desiredQ |-> GetMaxDesiredQ(tables[quality]),
               paused   |-> IsAllConsumerPaused(tables[quality])]
    \/ \E c \in Consumers : WillTell(c)

SumInv == open => EmptyInv /\ (\A c \in Consumers : SumAt(c)) /\ ToldInv

QualityInv ==
  TypeOK /\ PlaceInv /\ MetInv /\ CrashNeedsOverlap /\ OpenInv /\ CloserInv /\ SumInv

-----------------------------------------------------------------------------
(* What a step does to its thread's place and variables.                   *)

LEMMA Names ==
  /\ Pool \notin Consumers /\ Closer \notin Consumers /\ None \notin Consumers
  /\ Consumers \subseteq Threads /\ Pool \in Threads
  /\ \A t \in Threads : t # Pool => t \in Consumers
  BY VideoQualityAssumption DEF Threads

\* Where a step takes its thread, and no other.
At(t, from, to) ==
  pc[t] = from /\ pc'[t] = to /\ \A u \in Threads : u # t => pc'[u] = pc[u]

LEMMA GotoIs ==
  ASSUME TypeOK, NEW t \in Threads, NEW from, NEW to \in PC, Goto(t, from, to)
  PROVE  At(t, from, to) /\ pc' \in [Threads -> PC]
<1>1. pc \in [Threads -> PC] /\ pc[t] = from /\ pc' = [pc EXCEPT ![t] = to]
  BY DEF TypeOK, Goto
<1>2. QED BY <1>1 DEF At

LocalIs(t, op, of, layer, obj, maxQ, paused) ==
  /\ local' \in [Threads -> Local]
  /\ local'[t].op = op
  /\ local'[t].of = of
  /\ local'[t].layer = layer
  /\ local'[t].obj = obj
  /\ local'[t].maxQ = maxQ
  /\ local'[t].paused = paused
  /\ \A u \in Threads : u # t => local'[u] = local[u]

LEMMA LocalFields ==
  ASSUME NEW r \in Local
  PROVE  /\ Nothing \in Local
         /\ \A op \in Ops, c \in Consumers, l \in Depth :
              [Nothing EXCEPT !.op = op, !.of = c, !.layer = l] \in Local
         /\ \A c \in Consumers : [Nothing EXCEPT !.op = "leave", !.of = c] \in Local
         /\ \A c \in Consumers \cup {None} :
              [r EXCEPT !.obj = c] \in Local /\ [r EXCEPT !.of = c] \in Local
         /\ \A q \in Sum : [r EXCEPT !.maxQ = q] \in Local
         /\ \A b \in BOOLEAN : [r EXCEPT !.paused = b] \in Local
<1> USE DEF Local
<1>1. Nothing \in Local
  BY DEF Nothing, Ops, Depth, Sum
<1>2. \A op \in Ops, c \in Consumers, l \in Depth :
         [Nothing EXCEPT !.op = op, !.of = c, !.layer = l] \in Local
  BY <1>1
<1>3. \A c \in Consumers : [Nothing EXCEPT !.op = "leave", !.of = c] \in Local
  BY <1>1 DEF Ops
<1>4. \A c \in Consumers \cup {None} :
         [r EXCEPT !.obj = c] \in Local /\ [r EXCEPT !.of = c] \in Local
  OBVIOUS
<1>5. /\ \A q \in Sum : [r EXCEPT !.maxQ = q] \in Local
      /\ \A b \in BOOLEAN : [r EXCEPT !.paused = b] \in Local
  OBVIOUS
<1>6. QED BY <1>1, <1>2, <1>3, <1>4, <1>5

LEMMA SetLocalIs ==
  ASSUME TypeOK, NEW t \in Threads, NEW r \in Local, local' = [local EXCEPT ![t] = r]
  PROVE  LocalIs(t, r.op, r.of, r.layer, r.obj, r.maxQ, r.paused)
<1>1. local \in [Threads -> Local]
  BY DEF TypeOK
<1>2. QED BY <1>1 DEF LocalIs

\* The variables of a thread that has gone back to waiting.
Rests(t) == LocalIs(t, "none", None, 0, None, -1, TRUE)

LEMMA NothingRests ==
  ASSUME TypeOK, NEW t \in Threads, local' = [local EXCEPT ![t] = Nothing]
  PROVE  Rests(t)
<1>1. \A r \in Local : Nothing \in Local
  BY LocalFields
<1>2. local[t] \in Local
  BY DEF TypeOK
<1>3. Nothing \in Local
  BY <1>1, <1>2
<1>4. LocalIs(t, Nothing.op, Nothing.of, Nothing.layer, Nothing.obj, Nothing.maxQ,
              Nothing.paused)
  BY <1>3, SetLocalIs
<1>5. QED BY <1>4 DEF Nothing, Rests

-----------------------------------------------------------------------------
(* What each action does, variable by variable.                            *)

LEMMA RequestEffect ==
  ASSUME TypeOK, NEW c \in Consumers, Request(c)
  PROVE  /\ At(c, "idle", "found") /\ pc' \in [Threads -> PC] /\ entry[c] # "erased"
         /\ \E op \in Ops \ {"none", "leave"}, l \in Depth : LocalIs(c, op, c, l, None, -1, TRUE)
         /\ calls' \in [Consumers -> Nat]
         /\ UNCHANGED <<open, listed, entry, status, quality, tables, reply, inbox, told,
                        crashed, moved, stale, orphaned, met>>
<1>1. c \in Threads
  BY Names
<1>2. At(c, "idle", "found") /\ pc' \in [Threads -> PC]
  BY <1>1, GotoIs DEF Request, PC, Early
<1>3. PICK op \in Ops \ {"none", "leave"}, l \in Depth :
        local' = [local EXCEPT ![c] = [Nothing EXCEPT !.op = op, !.of = c, !.layer = l]]
  BY DEF Request, Ops, Depth
<1> DEFINE r == [Nothing EXCEPT !.op = op, !.of = c, !.layer = l]
<1>4. local[c] \in Local
  BY <1>1 DEF TypeOK
<1>5. r \in Local
  BY <1>3, <1>4, LocalFields
<1>6. LocalIs(c, r.op, r.of, r.layer, r.obj, r.maxQ, r.paused)
  BY <1>1, <1>3, <1>5, SetLocalIs
<1>7. r.op = op /\ r.of = c /\ r.layer = l /\ r.obj = None /\ r.maxQ = -1 /\ r.paused = TRUE
  BY DEF Nothing
<1>8. LocalIs(c, op, c, l, None, -1, TRUE)
  BY <1>6, <1>7
<1>9. calls' \in [Consumers -> Nat]
  BY DEF Request, TypeOK
<1>10. /\ entry[c] # "erased"
       /\ UNCHANGED <<open, listed, entry, status, quality, tables, reply, inbox, told,
                      crashed, moved, stale, orphaned, met>>
  BY DEF Request, roomVars, history
<1>11. QED BY <1>2, <1>3, <1>8, <1>9, <1>10

\* The three ways a handler goes on from operator[].
Asks(c) ==
  /\ entry[c] = "held" /\ At(c, "found", "asked") /\ local' = local
  /\ inbox' = Append(inbox, [type |-> "response", of |-> c, ok |-> open])
  /\ UNCHANGED <<entry, crashed>>
Returns(c) ==
  /\ entry[c] # "held" /\ At(c, "found", "idle") /\ Rests(c)
  /\ UNCHANGED <<inbox, crashed>>
Fails(c) ==
  /\ entry[c] # "held" /\ pc[c] = "found" /\ crashed' = c /\ UNCHANGED <<pc, local, inbox>>

LEMMA SubscriptEffect ==
  ASSUME TypeOK, NEW c \in Consumers, Subscript(c)
  PROVE  /\ pc' \in [Threads -> PC]
         /\ Asks(c) \/ Returns(c) \/ Fails(c)
         /\ entry[c] # "held" => entry' = [entry EXCEPT ![c] = "null"]
         /\ UNCHANGED <<open, listed, status, quality, tables, reply, told, calls, moved, stale,
                        orphaned, met>>
<1>1. c \in Threads /\ "asked" \in PC /\ "idle" \in PC /\ pc \in [Threads -> PC]
  BY Names DEF PC, Early, TypeOK
<1>2. CASE entry[c] = "held"
  <2>1. Goto(c, "found", "asked")
    BY <1>2 DEF Subscript
  <2>2. At(c, "found", "asked") /\ pc' \in [Threads -> PC]
    BY <1>1, <2>1, GotoIs
  <2>3. QED BY <1>2, <2>2 DEF Subscript, Asks, history
<1>3. CASE entry[c] # "held" /\ local[c].op = "response"
  <2>1. Goto(c, "found", "idle") /\ local' = [local EXCEPT ![c] = Nothing]
    BY <1>3 DEF Subscript
  <2>2. At(c, "found", "idle") /\ pc' \in [Threads -> PC] /\ Rests(c)
    BY <1>1, <2>1, GotoIs, NothingRests
  <2>3. QED BY <1>3, <2>2 DEF Subscript, Returns, history
<1>4. CASE entry[c] # "held" /\ local[c].op # "response"
  BY <1>1, <1>4 DEF Subscript, Fails, history
<1>5. QED BY <1>2, <1>3, <1>4

LEMMA SetEffect ==
  ASSUME TypeOK, NEW c \in Consumers, Set(c)
  PROVE  /\ pc' \in [Threads -> PC] /\ reply[c] # "none"
         /\ reply' = [reply EXCEPT ![c] = "none"]
         /\ \/ At(c, "asked", "leave") /\ status' = status
            \/ At(c, "asked", "find")
         /\ status' \in [Consumers -> Status]
         /\ \A d \in Consumers : d # c => status'[d] = status[d]
         /\ UNCHANGED <<open, listed, entry, quality, tables, local, inbox, told, calls,
                        crashed, moved, stale, orphaned, met>>
<1>1. c \in Threads /\ "leave" \in PC /\ "find" \in PC
  BY Names DEF PC, Early
<1>2. status \in [Consumers -> Status] /\ local[c].layer \in Depth
  BY <1>1 DEF TypeOK, Local
<1>3. /\ reply[c] # "none" /\ reply' = [reply EXCEPT ![c] = "none"]
      /\ UNCHANGED <<open, listed, entry, quality, tables, local, inbox, told, calls,
                     crashed, moved, stale, orphaned, met>>
  BY DEF Set, Answered, roomVars, history
<1>4. CASE reply[c] = "error"
  <2>1. Goto(c, "asked", "leave") /\ status' = status
    BY <1>4 DEF Set
  <2>2. QED BY <1>1, <1>2, <1>3, <2>1, GotoIs
<1>5. CASE reply[c] # "error"
  <2>1. Goto(c, "asked", "find")
    BY <1>5 DEF Set
  <2>2. PICK s \in {[status[c] EXCEPT !.paused = TRUE], [status[c] EXCEPT !.paused = FALSE],
                    [status[c] EXCEPT !.layer = local[c].layer]} :
          status' = [status EXCEPT ![c] = s]
    BY <1>5 DEF Set
  <2>3. s \in Status
    BY <1>2 DEF Status
  <2>4. QED BY <1>1, <1>2, <1>3, <2>1, <2>2, <2>3, GotoIs
<1>6. QED BY <1>4, <1>5

LEMMA DanglesEffect ==
  ASSUME TypeOK, NEW c \in Consumers, Dangles(c)
  PROVE  /\ pc[c] \in Early /\ local[c].op # "leave" /\ entry[c] # "held" /\ crashed' = c
         /\ UNCHANGED <<open, listed, entry, status, quality, tables, pc, local, reply, inbox,
                        told, calls, moved, stale, orphaned, met>>
  BY DEF Dangles, Early, roomVars, history

\* The variables of t with another object at hand.
Holds(t, obj) ==
  LocalIs(t, local[t].op, local[t].of, local[t].layer, obj, local[t].maxQ, local[t].paused)

\* Where a thread ends up that looked for the quality controller in vain, or is through
\* with it.
Ends(t, from) ==
  \/ local[t].op # "leave" /\ At(t, from, "idle") /\ Rests(t)
  \/ /\ local[t].op = "leave" /\ At(t, from, "closing")
     /\ \E obj \in Consumers \cup {None} : Holds(t, obj)

LEMMA ObjectHeld ==
  ASSUME TypeOK, NEW t \in Threads, NEW obj \in Consumers \cup {None},
         local' = [local EXCEPT ![t] = [@ EXCEPT !.obj = obj]]
  PROVE  Holds(t, obj)
<1> DEFINE r == [local[t] EXCEPT !.obj = obj]
<1>1. local[t] \in Local
  BY DEF TypeOK
<1>2. r \in Local
  BY <1>1, LocalFields
<1>3. LocalIs(t, r.op, r.of, r.layer, r.obj, r.maxQ, r.paused)
  BY <1>1, <1>2, SetLocalIs DEF TypeOK
<1>4. /\ r.op = local[t].op /\ r.of = local[t].of /\ r.layer = local[t].layer /\ r.obj = obj
      /\ r.maxQ = local[t].maxQ /\ r.paused = local[t].paused
  BY <1>1 DEF Local
<1>5. QED BY <1>3, <1>4 DEF Holds

LEMMA FindEffect ==
  ASSUME TypeOK, NEW t \in Threads, Find(t)
  PROVE  /\ pc' \in [Threads -> PC]
         /\ \/ (~listed \/ (quality = None /\ Removes(t))) /\ Ends(t, "find")
            \/ quality = None /\ ~Removes(t) /\ At(t, "find", "make") /\ Holds(t, quality)
            \/ quality # None /\ Removes(t) /\ At(t, "find", "remove") /\ Holds(t, quality)
            \/ quality # None /\ ~Removes(t) /\ At(t, "find", "add") /\ Holds(t, quality)
         /\ UNCHANGED <<open, listed, entry, status, quality, tables, reply, inbox, told, calls,
                        crashed, moved, stale, orphaned, met>>
<1>1. UNCHANGED <<open, listed, entry, status, quality, tables, reply, inbox, told, calls,
                  crashed, moved, stale, orphaned, met>>
  BY DEF Find, roomVars, history
<1> DEFINE to == IF ~listed \/ (quality = None /\ Removes(t)) THEN End(t)
                 ELSE IF quality = None THEN "make" ELSE IF Removes(t) THEN "remove" ELSE "add"
<1>2. to \in PC
  BY DEF End, PC, Early
<1>3. Goto(t, "find", to)
  BY DEF Find
<1>4. At(t, "find", to) /\ pc' \in [Threads -> PC] /\ pc'[t] = to
  <2>1. At(t, "find", to) /\ pc' \in [Threads -> PC]
    BY <1>2, <1>3, GotoIs
  <2>2. QED BY <2>1 DEF At
<1>5. quality \in Consumers \cup {None}
  BY DEF TypeOK
<1>6. to = "idle" => Rests(t)
  BY <1>4, NothingRests DEF Find
<1>7. to # "idle" => Holds(t, quality)
  BY <1>4, <1>5, ObjectHeld DEF Find
<1>8. CASE ~listed \/ (quality = None /\ Removes(t))
  <2>1. to = End(t)
    BY <1>8
  <2>2. Ends(t, "find")
    BY <2>1, <1>4, <1>5, <1>6, <1>7 DEF End, Ends
  <2>3. QED BY <1>1, <1>4, <1>8, <2>2
<1>9. CASE listed /\ ~(quality = None /\ Removes(t))
  <2>1. to = IF quality = None THEN "make" ELSE IF Removes(t) THEN "remove" ELSE "add"
    BY <1>9
  <2>2. QED BY <1>1, <1>4, <1>7, <1>9, <2>1
<1>10. QED BY <1>8, <1>9

LEMMA MakeEffect ==
  ASSUME TypeOK, PlaceInv, NEW t \in Threads, Make(t)
  PROVE  /\ t \in Consumers /\ At(t, "make", "add") /\ pc' \in [Threads -> PC] /\ Holds(t, t)
         /\ quality' = IF quality = None THEN t ELSE quality
         /\ UNCHANGED <<open, listed, entry, status, tables, reply, inbox, told, calls, crashed,
                        moved, stale, orphaned, met>>
<1>1. At(t, "make", "add") /\ pc' \in [Threads -> PC]
  BY GotoIs DEF Make, PC, Early
<1>2. t \in Consumers
  BY <1>1, Names DEF PlaceInv, PoolHand, At, Summing
<1>3. local' = [local EXCEPT ![t] = [@ EXCEPT !.obj = t]]
  BY DEF Make
<1>4. Holds(t, t)
  BY <1>2, <1>3, ObjectHeld
<1>5. QED BY <1>1, <1>2, <1>4 DEF Make, roomVars, history

LEMMA TableFields ==
  /\ \A f \in Table : DOMAIN f \subseteq Consumers /\ \A c \in DOMAIN f : f[c] \in Status
  /\ \A f \in Table, c \in Consumers, s \in Status :
       [d \in DOMAIN f \cup {c} |-> IF d = c THEN s ELSE f[d]] \in Table
  /\ \A f \in Table, c \in Consumers : [d \in DOMAIN f \ {c} |-> f[d]] \in Table
<1>1. \A f \in Table : /\ DOMAIN f \in SUBSET Consumers
                       /\ \A c \in DOMAIN f : f[c] \in Status
  BY DEF Table
<1>2. ASSUME NEW f \in Table, NEW c \in Consumers, NEW s \in Status
      PROVE  [d \in DOMAIN f \cup {c} |-> IF d = c THEN s ELSE f[d]] \in Table
  <2>1. DOMAIN f \cup {c} \in SUBSET Consumers
    BY <1>1, <1>2
  <2>2. [d \in DOMAIN f \cup {c} |-> IF d = c THEN s ELSE f[d]] \in [DOMAIN f \cup {c} -> Status]
    BY <1>1, <1>2
  <2>3. QED BY <2>1, <2>2 DEF Table
<1>3. ASSUME NEW f \in Table, NEW c \in Consumers
      PROVE  [d \in DOMAIN f \ {c} |-> f[d]] \in Table
  <2>1. DOMAIN f \ {c} \in SUBSET Consumers
    BY <1>1, <1>3
  <2>2. [d \in DOMAIN f \ {c} |-> f[d]] \in [DOMAIN f \ {c} -> Status]
    BY <1>1, <1>3
  <2>3. QED BY <2>1, <2>2 DEF Table
<1>4. QED BY <1>1, <1>2, <1>3

\* The threads that t takes by surprise.
Surprised(t) ==
  {u \in Threads \ {t} : pc[u] \in {"paused", "send"} /\ local[u].obj = local[t].obj}

LEMMA AddEffect ==
  ASSUME TypeOK, PlaceInv, NEW t \in Threads, AddOrUpdateConsumer(t)
  PROVE  /\ t \in Consumers /\ local[t].obj \in Consumers /\ quality # None
         /\ At(t, "add", "max") /\ pc' \in [Threads -> PC]
         /\ tables' \in [Consumers -> Table]
         /\ \A x \in Consumers : x # local[t].obj => tables'[x] = tables[x]
         /\ DOMAIN tables'[local[t].obj] = DOMAIN tables[local[t].obj] \cup {t}
         /\ tables'[local[t].obj][t] = status[t]
         /\ \A d \in DOMAIN tables[local[t].obj] :
              d # t => tables'[local[t].obj][d] = tables[local[t].obj][d]
         /\ moved' = (moved \ {t}) \cup Surprised(t)
         /\ orphaned' = IF local[t].obj = quality THEN orphaned \ {t} ELSE orphaned \cup {t}
         /\ UNCHANGED <<open, listed, entry, status, quality, local, reply, inbox, told, calls,
                        crashed, stale, met>>
<1>1. At(t, "add", "max") /\ pc' \in [Threads -> PC]
  BY GotoIs DEF AddOrUpdateConsumer, PC, Early, Summing
<1>2. t \in Consumers
  BY <1>1, Names DEF PlaceInv, PoolHand, At, Summing
<1>3. local[t].obj \in Consumers /\ local[t].of = t /\ quality # None
  BY <1>1, <1>2 DEF PlaceInv, HandAt, RequestAt, At
<1>4. PICK obj \in Consumers : obj = local[t].obj
  BY <1>3
<1>5. tables \in [Consumers -> Table] /\ status[t] \in Status
  BY <1>2 DEF TypeOK
<1>6. PICK f \in Table : f = tables[obj]
  BY <1>5
<1>7. PICK g : g = [d \in DOMAIN f \cup {t} |-> IF d = t THEN status[t] ELSE f[d]]
  OBVIOUS
<1>8. g \in Table
  BY <1>2, <1>5, <1>7, TableFields
<1>9. tables' = [tables EXCEPT ![obj] = g]
  BY <1>3, <1>4, <1>6, <1>7, <1>5 DEF AddOrUpdateConsumer
<1>10. /\ tables' \in [Consumers -> Table] /\ tables'[obj] = g
       /\ \A x \in Consumers : x # obj => tables'[x] = tables[x]
  BY <1>5, <1>8, <1>9
<1>11. /\ DOMAIN g = DOMAIN f \cup {t} /\ g[t] = status[t]
       /\ \A d \in DOMAIN f : d # t => g[d] = f[d]
  BY <1>7
<1>12. moved' = (moved \ {t}) \cup Surprised(t)
  BY DEF AddOrUpdateConsumer, Moving, Surprised
<1>13. /\ orphaned' = IF local[t].obj = quality THEN orphaned \ {t} ELSE orphaned \cup {t}
       /\ UNCHANGED <<open, listed, entry, status, quality, local, reply, inbox, told, calls,
                      crashed, stale, met>>
  BY <1>3 DEF AddOrUpdateConsumer
<1>14. QED BY <1>1, <1>2, <1>3, <1>4, <1>6, <1>10, <1>11, <1>12, <1>13

LEMMA RemoveEffect ==
  ASSUME TypeOK, PlaceInv, NEW t \in Threads, RemoveConsumer(t)
  PROVE  /\ local[t].of \in Consumers /\ local[t].obj \in Consumers /\ quality # None
         /\ At(t, "remove", "max") /\ pc' \in [Threads -> PC]
         /\ tables' \in [Consumers -> Table]
         /\ \A x \in Consumers : x # local[t].obj => tables'[x] = tables[x]
         /\ DOMAIN tables'[local[t].obj] = DOMAIN tables[local[t].obj] \ {local[t].of}
         /\ \A d \in DOMAIN tables[local[t].obj] \ {local[t].of} :
              tables'[local[t].obj][d] = tables[local[t].obj][d]
         /\ moved' = (moved \ {t}) \cup Surprised(t)
         /\ orphaned' = orphaned \ {local[t].of}
         /\ UNCHANGED <<open, listed, entry, status, quality, local, reply, inbox, told, calls,
                        crashed, stale, met>>
<1>1. At(t, "remove", "max") /\ pc' \in [Threads -> PC]
  BY GotoIs DEF RemoveConsumer, PC, Summing
<1>2. local[t].obj \in Consumers /\ local[t].of \in Consumers /\ quality # None
  BY <1>1 DEF PlaceInv, HandAt, At
<1>3. PICK obj \in Consumers, c \in Consumers : obj = local[t].obj /\ c = local[t].of
  BY <1>2
<1>4. tables \in [Consumers -> Table]
  BY DEF TypeOK
<1>5. PICK f \in Table : f = tables[obj]
  BY <1>4
<1>6. PICK g : g = [d \in DOMAIN f \ {c} |-> f[d]]
  OBVIOUS
<1>7. g \in Table
  BY <1>6, TableFields
<1>8. tables' = [tables EXCEPT ![obj] = g]
  BY <1>3, <1>4, <1>5, <1>6 DEF RemoveConsumer
<1>9. /\ tables' \in [Consumers -> Table] /\ tables'[obj] = g
      /\ \A x \in Consumers : x # obj => tables'[x] = tables[x]
  BY <1>4, <1>7, <1>8
<1>10. /\ DOMAIN g = DOMAIN f \ {c}
       /\ \A d \in DOMAIN f \ {c} : g[d] = f[d]
  BY <1>6
<1>11. moved' = (moved \ {t}) \cup Surprised(t)
  BY DEF RemoveConsumer, Moving, Surprised
<1>12. /\ orphaned' = orphaned \ {local[t].of}
       /\ UNCHANGED <<open, listed, entry, status, quality, local, reply, inbox, told, calls,
                      crashed, stale, met>>
  BY DEF RemoveConsumer
<1>13. QED BY <1>1, <1>2, <1>3, <1>5, <1>9, <1>10, <1>11, <1>12

LEMMA ReadMaxEffect ==
  ASSUME TypeOK, PlaceInv, NEW t \in Threads, ReadMax(t)
  PROVE  /\ At(t, "max", "paused") /\ pc' \in [Threads -> PC]
         /\ local[t].obj \in Consumers
         /\ LocalIs(t, local[t].op, local[t].of, local[t].layer, local[t].obj,
                    GetMaxDesiredQ(tables[local[t].obj]), local[t].paused)
         /\ UNCHANGED <<open, listed, entry, status, quality, tables, reply, inbox, told, calls,
                        crashed, moved, stale, orphaned, met>>
<1>1. At(t, "max", "paused") /\ pc' \in [Threads -> PC]
  BY GotoIs DEF ReadMax, PC, Summing
<1>2. local[t].obj \in Consumers /\ local[t] \in Local
  BY <1>1 DEF PlaceInv, HandAt, At, Summing, TypeOK
<1>3. tables[local[t].obj] \in Table
  BY <1>2 DEF TypeOK
<1>4. PICK q \in Sum : q = GetMaxDesiredQ(tables[local[t].obj])
  BY <1>3 DEF Sum
<1> DEFINE r == [local[t] EXCEPT !.maxQ = q]
<1>5. r \in Local
  BY <1>2, LocalFields
<1>6. local' = [local EXCEPT ![t] = r]
  BY <1>4 DEF ReadMax, TypeOK
<1>7. LocalIs(t, r.op, r.of, r.layer, r.obj, r.maxQ, r.paused)
  BY <1>5, <1>6, SetLocalIs
<1>8. /\ r.op = local[t].op /\ r.of = local[t].of /\ r.layer = local[t].layer
      /\ r.obj = local[t].obj /\ r.maxQ = q /\ r.paused = local[t].paused
  BY <1>2 DEF Local
<1>9. QED BY <1>1, <1>2, <1>4, <1>7, <1>8 DEF ReadMax, roomVars, history

LEMMA ReadPausedEffect ==
  ASSUME TypeOK, PlaceInv, NEW t \in Threads, ReadPaused(t)
  PROVE  /\ At(t, "paused", "send") /\ pc' \in [Threads -> PC]
         /\ local[t].obj \in Consumers
         /\ LocalIs(t, local[t].op, local[t].of, local[t].layer, local[t].obj, local[t].maxQ,
                    IsAllConsumerPaused(tables[local[t].obj]))
         /\ UNCHANGED <<open, listed, entry, status, quality, tables, reply, inbox, told, calls,
                        crashed, moved, stale, orphaned, met>>
<1>1. At(t, "paused", "send") /\ pc' \in [Threads -> PC]
  BY GotoIs DEF ReadPaused, PC, Summing
<1>2. local[t].obj \in Consumers /\ local[t] \in Local
  BY <1>1 DEF PlaceInv, HandAt, At, Summing, TypeOK
<1>3. PICK b \in BOOLEAN : b = IsAllConsumerPaused(tables[local[t].obj])
  BY DEF IsAllConsumerPaused
<1> DEFINE r == [local[t] EXCEPT !.paused = b]
<1>4. r \in Local
  BY <1>2, LocalFields
<1>5. local' = [local EXCEPT ![t] = r]
  BY <1>3 DEF ReadPaused, TypeOK
<1>6. LocalIs(t, r.op, r.of, r.layer, r.obj, r.maxQ, r.paused)
  BY <1>4, <1>5, SetLocalIs
<1>7. /\ r.op = local[t].op /\ r.of = local[t].of /\ r.layer = local[t].layer
      /\ r.obj = local[t].obj /\ r.maxQ = local[t].maxQ /\ r.paused = b
  BY <1>2 DEF Local
<1>8. QED BY <1>1, <1>2, <1>3, <1>6, <1>7 DEF ReadPaused, roomVars, history

LEMMA SendEffect ==
  ASSUME TypeOK, NEW t \in Threads, Send(t)
  PROVE  /\ Ends(t, "send") /\ pc' \in [Threads -> PC]
         /\ told' = [desiredQ |-> local[t].maxQ, paused |-> local[t].paused]
         /\ told' \in [desiredQ : Sum, paused : BOOLEAN]
         /\ stale' = (t \in moved \/ local[t].obj # quality)
         /\ moved' = moved \ {t}
         /\ UNCHANGED <<open, listed, entry, status, quality, tables, reply, inbox, calls,
                        crashed, orphaned, met>>
<1>1. Goto(t, "send", End(t)) /\ End(t) \in PC
  BY DEF Send, End, PC, Early
<1>2. At(t, "send", End(t)) /\ pc' \in [Threads -> PC]
  BY <1>1, GotoIs
<1>3. pc'[t] = End(t)
  BY <1>2 DEF At
<1>4. CASE local[t].op = "leave"
  <2>1. local' = [local EXCEPT ![t] = @] /\ local[t] \in Local
    BY <1>3, <1>4 DEF Send, End, TypeOK
  <2>2. local' = [local EXCEPT ![t] = local[t]]
    BY <2>1
  <2>3. LocalIs(t, local[t].op, local[t].of, local[t].layer, local[t].obj, local[t].maxQ,
                local[t].paused) /\ local[t].obj \in Consumers \cup {None}
    BY <2>1, <2>2, SetLocalIs DEF Local
  <2>4. Ends(t, "send")
    BY <1>2, <1>4, <2>3 DEF Ends, Holds, End
  <2>5. QED BY <1>2, <2>1, <2>4 DEF Send, Local
<1>5. CASE local[t].op # "leave"
  <2>1. local' = [local EXCEPT ![t] = Nothing] /\ local[t] \in Local
    BY <1>3, <1>5 DEF Send, End, TypeOK
  <2>2. Ends(t, "send")
    BY <1>2, <1>5, <2>1, NothingRests DEF Ends, End
  <2>3. QED BY <1>2, <2>1, <2>2 DEF Send, Local
<1>6. QED BY <1>4, <1>5

LEMMA LeaveEffect ==
  ASSUME TypeOK, NEW c \in Consumers, Leave(c)
  PROVE  /\ At(c, "idle", "leave") /\ pc' \in [Threads -> PC]
         /\ UNCHANGED <<open, listed, entry, status, quality, tables, local, reply, inbox, told,
                        calls, crashed, moved, stale, orphaned, met>>
<1>1. At(c, "idle", "leave") /\ pc' \in [Threads -> PC]
  BY Names, GotoIs DEF Leave, PC
<1>2. QED BY <1>1 DEF Leave, roomVars, history

LEMMA WalkEffect ==
  ASSUME TypeOK, NEW c \in Consumers, Walk(c)
  PROVE  /\ pc' \in [Threads -> PC]
         /\ LocalIs(c, "leave", c, 0, None, -1, TRUE)
         /\ \/ entry[c] = "null" /\ pc[c] = "leave" /\ pc' = pc /\ crashed' = c
            \/ entry[c] = "held" /\ At(c, "leave", "find") /\ crashed' = crashed
            \/ entry[c] = "erased" /\ At(c, "leave", "closing") /\ crashed' = crashed
         /\ UNCHANGED <<open, listed, entry, status, quality, tables, reply, inbox, told, calls,
                        moved, stale, orphaned, met>>
<1>1. c \in Threads /\ entry[c] \in {"held", "null", "erased"} /\ pc \in [Threads -> PC]
  BY Names DEF TypeOK
<1> DEFINE r == [Nothing EXCEPT !.op = "leave", !.of = c]
<1>2. local[c] \in Local
  BY <1>1 DEF TypeOK
<1>3. r \in Local
  BY <1>2, LocalFields
<1>4. LocalIs(c, r.op, r.of, r.layer, r.obj, r.maxQ, r.paused)
  BY <1>1, <1>3, SetLocalIs DEF Walk
<1>5. LocalIs(c, "leave", c, 0, None, -1, TRUE)
  BY <1>4 DEF Nothing
<1>6. UNCHANGED <<open, listed, entry, status, quality, tables, reply, inbox, told, calls,
                  moved, stale, orphaned, met>>
  BY DEF Walk, roomVars, history
<1>7. CASE entry[c] = "null"
  BY <1>1, <1>5, <1>6, <1>7 DEF Walk
<1>8. CASE entry[c] = "held"
  <2>1. Goto(c, "leave", "find") /\ crashed' = crashed /\ "find" \in PC
    BY <1>8 DEF Walk, PC, Early
  <2>2. QED BY <1>1, <1>5, <1>6, <1>8, <2>1, GotoIs
<1>9. CASE entry[c] = "erased"
  <2>1. Goto(c, "leave", "closing") /\ crashed' = crashed /\ "closing" \in PC
    BY <1>9 DEF Walk, PC
  <2>2. QED BY <1>1, <1>5, <1>6, <1>9, <2>1, GotoIs
<1>10. QED BY <1>1, <1>7, <1>8, <1>9

LEMMA GoneEffect ==
  ASSUME TypeOK, NEW c \in Consumers, Gone(c)
  PROVE  /\ At(c, "closing", "gone") /\ pc' \in [Threads -> PC] /\ Rests(c)
         /\ entry' = [entry EXCEPT ![c] = "erased"]
         /\ UNCHANGED <<open, listed, status, quality, tables, reply, inbox, told, calls,
                        crashed, moved, stale, orphaned, met>>
<1>1. At(c, "closing", "gone") /\ pc' \in [Threads -> PC]
  BY Names, GotoIs DEF Gone, PC
<1>2. Rests(c)
  BY Names, NothingRests DEF Gone
<1>3. QED BY <1>1, <1>2 DEF Gone, history

-----------------------------------------------------------------------------
(* The messages to the pool thread.                                        *)

LEMMA AsksEffect ==
  ASSUME TypeOK, NEW c \in Consumers, Asks(c)
  PROVE  /\ inbox' \in Seq(Message)
         /\ \A i \in DOMAIN inbox : i \in DOMAIN inbox' /\ inbox'[i] = inbox[i]
         /\ \A i \in DOMAIN inbox' \ DOMAIN inbox :
              inbox'[i].type = "response" /\ inbox'[i].of = c
<1> DEFINE m == [type |-> "response", of |-> c, ok |-> open]
<1>1. m \in Message /\ inbox \in Seq(Message) /\ inbox' = Append(inbox, m)
  BY DEF Message, TypeOK, Asks
<1>2. m.type = "response" /\ m.of = c
  OBVIOUS
<1> HIDE DEF m
<1>3. QED BY <1>1, <1>2

LEMMA CloseEffect ==
  ASSUME TypeOK, CloseProducer
  PROVE  /\ inbox' \in Seq(Message)
         /\ \E i \in DOMAIN inbox' : inbox'[i].type = "response" /\ inbox'[i].of = Closer
         /\ open' = FALSE
         /\ UNCHANGED <<listed, entry, status, quality, tables, pc, local, reply, told, calls,
                        crashed, moved, stale, orphaned, met>>
<1> DEFINE S == {c \in Consumers : pc[c] # "gone"}
<1>1. PICK s \in SetToSeqs(S) :
        inbox' = inbox
                 \o [i \in DOMAIN s |-> [type |-> "producerClose", of |-> s[i], ok |-> TRUE]]
                 \o <<[type |-> "response", of |-> Closer, ok |-> TRUE]>>
  BY DEF CloseProducer
<1>2. Cardinality(S) \in Nat
  BY VideoQualityAssumption, FS_Subset, FS_CardinalityType
<1>3. s \in [1..Cardinality(S) -> S]
  BY DEF SetToSeqs
<1> DEFINE u == [i \in DOMAIN s |-> [type |-> "producerClose", of |-> s[i], ok |-> TRUE]]
           r == [type |-> "response", of |-> Closer, ok |-> TRUE]
<1>4. u \in [1..Cardinality(S) -> Message]
  BY <1>3 DEF Message
<1>5. u \in Seq(Message)
  <2>1. PICK n \in Nat : n = Cardinality(S)
    BY <1>2
  <2>2. PICK v \in [1..n -> Message] : v = u
    BY <1>4, <2>1
  <2>3. v \in Seq(Message)
    OBVIOUS
  <2>4. QED BY <2>2, <2>3
<1>6. r \in Message /\ r.type = "response" /\ r.of = Closer
  BY DEF Message
<1>7. inbox \in Seq(Message)
  BY DEF TypeOK
<1> HIDE DEF u, r, S
<1>8. inbox' = (inbox \o u) \o <<r>>
  BY <1>1 DEF u, r
<1>9. inbox \o u \in Seq(Message)
  BY <1>5, <1>7
<1>10. PICK v \in Seq(Message) : v = inbox \o u
  BY <1>9
<1>11. inbox' = Append(v, r)
  BY <1>6, <1>8, <1>10
<1>12. inbox' \in Seq(Message) /\ Len(v) + 1 \in DOMAIN inbox' /\ inbox'[Len(v) + 1] = r
  BY <1>6, <1>10, <1>11
<1>13. open' = FALSE /\ UNCHANGED <<listed, entry, status, quality, tables, pc, local, reply,
                                    told, calls, crashed, moved, stale, orphaned, met>>
  BY DEF CloseProducer, roomVars, history
<1>14. QED BY <1>6, <1>12, <1>13

\* The pool thread takes the first message.
LEMMA Taken ==
  ASSUME inbox \in Seq(Message), inbox # <<>>, inbox' = Tail(inbox)
  PROVE  /\ inbox' \in Seq(Message)
         /\ Head(inbox) \in Message /\ Head(inbox) = inbox[1] /\ 1 \in DOMAIN inbox
         /\ \A i \in DOMAIN inbox' : i + 1 \in DOMAIN inbox /\ inbox'[i] = inbox[i + 1]
         /\ \A i \in DOMAIN inbox : i # 1 => \E j \in DOMAIN inbox' : i = j + 1
<1>1. /\ Len(inbox) \in Nat \ {0} /\ inbox' \in Seq(Message)
      /\ Len(inbox') = Len(inbox) - 1
      /\ \A i \in 1..(Len(inbox) - 1) : inbox'[i] = inbox[i + 1]
  BY EmptySeq, HeadTailProperties
<1>2. DOMAIN inbox = 1..Len(inbox) /\ DOMAIN inbox' = 1..(Len(inbox) - 1)
  BY <1>1
<1>3. Head(inbox) = inbox[1] /\ 1 \in DOMAIN inbox /\ Head(inbox) \in Message
  BY <1>1, <1>2
<1>4. ASSUME NEW i \in DOMAIN inbox, i # 1 PROVE \E j \in DOMAIN inbox' : i = j + 1
  <2>1. i - 1 \in 1..(Len(inbox) - 1) /\ i = (i - 1) + 1
    BY <1>1, <1>2, <1>4
  <2>2. QED BY <1>2, <2>1
<1>5. \A i \in DOMAIN inbox' : i + 1 \in DOMAIN inbox /\ inbox'[i] = inbox[i + 1]
  BY <1>1, <1>2
<1>6. QED BY <1>1, <1>3, <1>4, <1>5

LEMMA PoolResponseEffect ==
  ASSUME TypeOK, PoolResponse
  PROVE  /\ inbox' \in Seq(Message) /\ 1 \in DOMAIN inbox /\ inbox[1].type = "response"
         /\ inbox[1].of \in Consumers \cup {Closer}
         /\ \A i \in DOMAIN inbox' : i + 1 \in DOMAIN inbox /\ inbox'[i] = inbox[i + 1]
         /\ \A i \in DOMAIN inbox : i # 1 => \E j \in DOMAIN inbox' : i = j + 1
         /\ \E answer \in {"ok", "error"} : reply' = [reply EXCEPT ![inbox[1].of] = answer]
         /\ UNCHANGED <<open, listed, entry, status, quality, tables, pc, local, told, calls,
                        crashed, moved, stale, orphaned, met>>
<1>1. /\ inbox \in Seq(Message) /\ inbox # <<>> /\ inbox' = Tail(inbox)
      /\ Head(inbox).type = "response"
  BY DEF TypeOK, PoolResponse
<1>2. /\ inbox' \in Seq(Message)
      /\ Head(inbox) \in Message /\ Head(inbox) = inbox[1] /\ 1 \in DOMAIN inbox
      /\ \A i \in DOMAIN inbox' : i + 1 \in DOMAIN inbox /\ inbox'[i] = inbox[i + 1]
      /\ \A i \in DOMAIN inbox : i # 1 => \E j \in DOMAIN inbox' : i = j + 1
  BY <1>1, Taken
<1>3. inbox[1].of \in Consumers \cup {Closer}
  BY <1>2 DEF Message
<1>4. reply' = [reply EXCEPT ![inbox[1].of] = IF inbox[1].ok THEN "ok" ELSE "error"]
  BY <1>2 DEF PoolResponse
<1>5. QED BY <1>1, <1>2, <1>3, <1>4 DEF PoolResponse, roomVars, history

\* A consumer leaves its peer's map, and the pool thread goes on with it unless the
\* peer has gone.
LEMMA PoolCloseEffect ==
  ASSUME TypeOK, PoolProducerClose
  PROVE  \E c \in Consumers :
           /\ inbox' \in Seq(Message) /\ 1 \in DOMAIN inbox
           /\ inbox[1].type = "producerClose" /\ inbox[1].of = c
           /\ \A i \in DOMAIN inbox' : i + 1 \in DOMAIN inbox /\ inbox'[i] = inbox[i + 1]
           /\ \A i \in DOMAIN inbox : i # 1 => \E j \in DOMAIN inbox' : i = j + 1
           /\ local[c].op = "leave" => pc[c] \in {"closing", "gone"}
           /\ entry' = [entry EXCEPT ![c] = "erased"]
           /\ met' = IF Using(c) THEN met \cup {c} ELSE met
           /\ pc' \in [Threads -> PC] /\ local' \in [Threads -> Local]
           /\ \/ pc[c] = "gone" /\ At(Pool, "idle", "idle")
              \/ pc[c] # "gone" /\ At(Pool, "idle", "find") /\ local'[Pool].of = c
           /\ local'[Pool].op = local[Pool].op
           /\ \A d \in Consumers : local'[d] = local[d]
           /\ UNCHANGED <<open, listed, status, quality, tables, reply, told, calls, crashed,
                          moved, stale, orphaned>>
<1>1. /\ inbox \in Seq(Message) /\ inbox # <<>> /\ inbox' = Tail(inbox)
      /\ Head(inbox).type = "producerClose"
  BY DEF TypeOK, PoolProducerClose
<1>2. /\ inbox' \in Seq(Message)
      /\ Head(inbox) \in Message /\ Head(inbox) = inbox[1] /\ 1 \in DOMAIN inbox
      /\ \A i \in DOMAIN inbox' : i + 1 \in DOMAIN inbox /\ inbox'[i] = inbox[i + 1]
      /\ \A i \in DOMAIN inbox : i # 1 => \E j \in DOMAIN inbox' : i = j + 1
  BY <1>1, Taken
<1>3. PICK c \in Consumers : c = Head(inbox).of
  BY <1>1, <1>2 DEF Message
<1>4. /\ local' = [local EXCEPT ![Pool].of = IF pc[c] = "gone" THEN None ELSE c]
      /\ pc' = [pc EXCEPT ![Pool] = IF pc[c] = "gone" THEN "idle" ELSE "find"]
      /\ pc[Pool] = "idle"
      /\ local[c].op = "leave" => pc[c] \in {"closing", "gone"}
      /\ entry' = [entry EXCEPT ![c] = "erased"]
      /\ met' = IF Using(c) THEN met \cup {c} ELSE met
      /\ UNCHANGED <<open, listed, status, quality, tables, reply, told, calls, crashed,
                     moved, stale, orphaned>>
  BY <1>3 DEF PoolProducerClose
<1>5. PICK x \in Consumers \cup {None} : x = IF pc[c] = "gone" THEN None ELSE c
  OBVIOUS
<1>6. Pool \in Threads /\ local \in [Threads -> Local] /\ local[Pool] \in Local
  BY Names DEF TypeOK
<1> DEFINE r == [local[Pool] EXCEPT !.of = x]
<1>7. r \in Local
  BY <1>6, LocalFields
<1>8. local' = [local EXCEPT ![Pool] = r]
  BY <1>4, <1>5, <1>6
<1>9. /\ local' \in [Threads -> Local] /\ local'[Pool].op = local[Pool].op
      /\ local'[Pool].of = x
      /\ \A d \in Consumers : local'[d] = local[d]
  <2>1. local'[Pool] = r /\ local' \in [Threads -> Local]
    BY <1>6, <1>7, <1>8
  <2>2. r.op = local[Pool].op /\ r.of = x
    BY <1>6 DEF Local
  <2>3. \A d \in Consumers : local'[d] = local[d]
    BY <1>6, <1>8, Names
  <2>4. QED BY <2>1, <2>2, <2>3
<1>10. /\ pc' \in [Threads -> PC]
       /\ \/ pc[c] = "gone" /\ At(Pool, "idle", "idle")
          \/ pc[c] # "gone" /\ At(Pool, "idle", "find")
  <2>1. pc \in [Threads -> PC] /\ "idle" \in PC /\ "find" \in PC
    BY DEF TypeOK, PC, Early
  <2>2. QED BY <1>4, <1>6, <2>1 DEF At
<1>11. QED BY <1>1, <1>2, <1>3, <1>4, <1>5, <1>9, <1>10

-----------------------------------------------------------------------------
(* The invariant holds at the beginning.                                   *)

LEMMA QualityInit == Init => QualityInv
<1> SUFFICES ASSUME Init PROVE QualityInv
  OBVIOUS
<1>1. Nothing \in Local
  BY DEF Nothing, Local, Ops, Depth, Sum
<1>2. local \in [Threads -> Local] /\ \A t \in Threads : local[t] = Nothing
  BY <1>1 DEF Init
<1>3. <<>> \in Table /\ DOMAIN <<>> = {}
  <2>1. <<>> \in Seq(Status) /\ Len(<<>>) = 0
    OBVIOUS
  <2>2. PICK n \in Nat : <<>> \in [1..n -> Status] /\ n = 0
    BY <2>1
  <2>3. 1..0 = {}
    OBVIOUS
  <2>4. QED BY <2>2, <2>3 DEF Table
<1>4. tables \in [Consumers -> Table] /\ \A c \in Consumers : DOMAIN tables[c] = {}
  BY <1>3 DEF Init
<1>5. inbox \in Seq(Message) /\ DOMAIN inbox = {}
  BY DEF Init
<1>6. status \in [Consumers -> Status]
  BY DEF Init, Status, Depth
<1>7. TypeOK
  BY <1>2, <1>4, <1>5, <1>6 DEF Init, TypeOK, PC
<1>8. \A t \in Threads : local[t].op = "none" /\ pc[t] = "idle"
  BY <1>2 DEF Init, Nothing
<1>9. PlaceInv
  BY <1>8, Names DEF PlaceInv, HandAt, PoolHand, RequestAt, Summing
<1>10. MetInv /\ CrashNeedsOverlap
  BY <1>8, Names DEF Init, MetInv, MetAt, CrashNeedsOverlap, Early
<1>11. OpenInv /\ CloserInv
  BY <1>5, <1>8, Names DEF Init, OpenInv, CloserInv
<1>12. SumInv
  <2>1. EmptyInv /\ ToldInv
    BY <1>4 DEF Init, EmptyInv, ToldInv
  <2>2. ASSUME NEW c \in Consumers PROVE SumAt(c)
    BY <1>8, Names DEF Init, SumAt, ObjectAt, TableAt, MovedAt, Removed, Updating, InTable,
       Summing
  <2>3. QED BY <2>1, <2>2 DEF SumInv
<1>13. QED BY <1>7, <1>9, <1>10, <1>11, <1>12 DEF QualityInv

-----------------------------------------------------------------------------
(* Types.                                                                  *)

LEMMA UpdatesType ==
  ASSUME TypeOK, PlaceInv, NEW t \in Threads, Updates(t)
  PROVE  TypeOK'
<1>1. CASE Find(t)
  BY <1>1, FindEffect DEF TypeOK, LocalIs, Ends, Holds, Rests
<1>2. CASE Make(t)
  BY <1>2, MakeEffect DEF TypeOK, LocalIs, Holds
<1>3. CASE AddOrUpdateConsumer(t)
  <2>1. /\ t \in Consumers /\ pc' \in [Threads -> PC] /\ tables' \in [Consumers -> Table]
        /\ moved' = (moved \ {t}) \cup Surprised(t)
        /\ orphaned' = IF local[t].obj = quality THEN orphaned \ {t} ELSE orphaned \cup {t}
        /\ UNCHANGED <<open, listed, entry, status, quality, local, reply, inbox, told, calls,
                       crashed, stale, met>>
    BY <1>3, AddEffect
  <2>2. moved' \subseteq Threads /\ orphaned' \subseteq Consumers
    BY <2>1 DEF TypeOK, Surprised
  <2>3. QED BY <2>1, <2>2 DEF TypeOK
<1>4. CASE RemoveConsumer(t)
  BY <1>4, RemoveEffect DEF TypeOK, Surprised
<1>5. CASE ReadMax(t)
  BY <1>5, ReadMaxEffect DEF TypeOK, LocalIs
<1>6. CASE ReadPaused(t)
  BY <1>6, ReadPausedEffect DEF TypeOK, LocalIs
<1>7. CASE Send(t)
  BY <1>7, SendEffect DEF TypeOK, LocalIs, Ends, Holds, Rests
<1>8. QED BY <1>1, <1>2, <1>3, <1>4, <1>5, <1>6, <1>7 DEF Updates

LEMMA HandlerType ==
  ASSUME TypeOK, NEW c \in Consumers, Handler(c)
  PROVE  TypeOK'
<1>1. CASE Request(c)
  BY <1>1, RequestEffect DEF TypeOK, LocalIs
<1>2. CASE Subscript(c)
  <2>1. /\ pc' \in [Threads -> PC] /\ (Asks(c) \/ Returns(c) \/ Fails(c))
        /\ entry[c] # "held" => entry' = [entry EXCEPT ![c] = "null"]
        /\ UNCHANGED <<open, listed, status, quality, tables, reply, told, calls, moved, stale,
                       orphaned, met>>
    BY <1>2, SubscriptEffect
  <2>2. CASE Asks(c)
    BY <2>1, <2>2, AsksEffect DEF TypeOK, Asks
  <2>3. CASE Returns(c)
    BY <2>1, <2>3 DEF TypeOK, Returns, Rests, LocalIs
  <2>4. CASE Fails(c)
    BY <2>1, <2>4 DEF TypeOK, Fails
  <2>5. QED BY <2>1, <2>2, <2>3, <2>4
<1>3. CASE Set(c)
  BY <1>3, SetEffect DEF TypeOK
<1>4. CASE Dangles(c)
  BY <1>4, DanglesEffect DEF TypeOK
<1>5. CASE Leave(c)
  BY <1>5, LeaveEffect DEF TypeOK
<1>6. CASE Walk(c)
  <2>1. /\ pc' \in [Threads -> PC] /\ local' \in [Threads -> Local]
        /\ crashed' \in {c, crashed}
        /\ UNCHANGED <<open, listed, entry, status, quality, tables, reply, inbox, told, calls,
                       moved, stale, orphaned, met>>
    BY <1>6, WalkEffect DEF LocalIs
  <2>2. QED BY <2>1 DEF TypeOK
<1>7. CASE Gone(c)
  BY <1>7, GoneEffect DEF TypeOK, LocalIs, Rests
<1>8. QED BY <1>1, <1>2, <1>3, <1>4, <1>5, <1>6, <1>7 DEF Handler

LEMMA CloseType ==
  ASSUME TypeOK, CloseProducer \/ Unlist \/ PoolResponse \/ PoolProducerClose
  PROVE  TypeOK'
<1>1. CASE CloseProducer
  BY <1>1, CloseEffect DEF TypeOK
<1>2. CASE Unlist
  BY <1>2 DEF TypeOK, Unlist, Answered, history
<1>3. CASE PoolResponse
  <2>1. PICK x \in Consumers \cup {Closer}, answer \in {"ok", "error"} :
          reply' = [reply EXCEPT ![x] = answer]
    BY <1>3, PoolResponseEffect
  <2>2. /\ inbox' \in Seq(Message)
        /\ UNCHANGED <<open, listed, entry, status, quality, tables, pc, local, told, calls,
                       crashed, moved, stale, orphaned, met>>
    BY <1>3, PoolResponseEffect
  <2>3. QED BY <2>1, <2>2 DEF TypeOK
<1>4. CASE PoolProducerClose
  BY <1>4, PoolCloseEffect DEF TypeOK
<1>5. QED BY <1>1, <1>2, <1>3, <1>4

-----------------------------------------------------------------------------
(* What is at hand, and what was erased.                                   *)

LEMMA ConsumerPlace ==
  ASSUME PlaceInv, MetInv, NEW c \in Consumers, quality # None => quality' # None,
         \A u \in Threads : u # c => pc'[u] = pc[u] /\ local'[u] = local[u],
         \A d \in Consumers : d # c => entry'[d] = entry[d],
         met' = met, HandAt(c)', RequestAt(c)', MetAt(c)'
  PROVE  PlaceInv' /\ MetInv'
<1>1. ASSUME NEW u \in Threads, u # c PROVE HandAt(u)'
  <2>1. HandAt(u) /\ pc'[u] = pc[u] /\ local'[u] = local[u]
    BY <1>1 DEF PlaceInv
  <2>2. QED BY <2>1 DEF HandAt
<1>2. PoolHand'
  BY Names DEF PlaceInv, PoolHand
<1>3. ASSUME NEW d \in Consumers, d # c PROVE RequestAt(d)' /\ MetAt(d)'
  <2>1. RequestAt(d) /\ MetAt(d) /\ pc'[d] = pc[d] /\ local'[d] = local[d] /\ entry'[d] = entry[d]
    BY <1>3, Names DEF PlaceInv, MetInv
  <2>2. QED BY <2>1 DEF RequestAt, MetAt
<1>4. QED BY <1>1, <1>2, <1>3 DEF PlaceInv, MetInv

LEMMA PoolPlace ==
  ASSUME PlaceInv, MetInv, quality' = quality, entry' = entry, met' = met,
         \A u \in Threads : u # Pool => pc'[u] = pc[u] /\ local'[u] = local[u],
         HandAt(Pool)', PoolHand'
  PROVE  PlaceInv' /\ MetInv'
<1>1. ASSUME NEW u \in Threads, u # Pool PROVE HandAt(u)'
  <2>1. HandAt(u) /\ pc'[u] = pc[u] /\ local'[u] = local[u]
    BY <1>1 DEF PlaceInv
  <2>2. QED BY <2>1 DEF HandAt
<1>2. ASSUME NEW d \in Consumers PROVE RequestAt(d)' /\ MetAt(d)'
  <2>1. RequestAt(d) /\ MetAt(d) /\ pc'[d] = pc[d] /\ local'[d] = local[d] /\ entry'[d] = entry[d]
    BY Names DEF PlaceInv, MetInv
  <2>2. QED BY <2>1 DEF RequestAt, MetAt
<1>3. QED BY <1>1, <1>2 DEF PlaceInv, MetInv

\* A step of updateVideoProducerQuality: the thread's place, its object, what it is about.
LEMMA ThreadPlace ==
  ASSUME PlaceInv, MetInv, NEW t \in Threads, quality # None => quality' # None,
         \A u \in Threads : u # t => pc'[u] = pc[u] /\ local'[u] = local[u],
         entry' = entry, met' = met, HandAt(t)', t = Pool => PoolHand' /\ quality' = quality,
         t \in Consumers => RequestAt(t)' /\ MetAt(t)'
  PROVE  PlaceInv' /\ MetInv'
<1>1. CASE t = Pool
  BY <1>1, PoolPlace
<1>2. CASE t \in Consumers
  BY <1>2, ConsumerPlace
<1>3. QED BY <1>1, <1>2, Names

LEMMA UpdatesPlace ==
  ASSUME TypeOK, PlaceInv, MetInv, CrashNeedsOverlap, NEW t \in Threads, Updates(t)
  PROVE  PlaceInv' /\ MetInv' /\ CrashNeedsOverlap'
<1> USE DEF At, LocalIs, Summing, Early
<1>0. HandAt(t) /\ (t = Pool => PoolHand) /\ (t \in Consumers => RequestAt(t) /\ MetAt(t))
  BY DEF PlaceInv, MetInv
<1>1. CASE Find(t)
  <2>1. /\ \A u \in Threads : u # t => pc'[u] = pc[u] /\ local'[u] = local[u]
        /\ UNCHANGED <<entry, met, quality, crashed>>
    BY <1>1, FindEffect DEF Ends, Holds, Rests
  <2>2. quality \in Consumers \cup {None} /\ pc[t] = "find"
    BY <1>1 DEF TypeOK, Find, Goto
  <2>3. HandAt(t)'
    BY <1>0, <1>1, <2>1, <2>2, FindEffect DEF HandAt, Ends, Holds, Rests
  <2>4. t = Pool => PoolHand'
    BY <1>0, <1>1, FindEffect DEF PoolHand, Ends, Holds, Rests, Removes
  <2>5. t \in Consumers => RequestAt(t)'
    BY <1>0, <1>1, <2>2, Names, FindEffect DEF RequestAt, Ends, Holds, Rests, Removes
  <2>6. t \in Consumers => MetAt(t)'
    BY <1>0, <1>1, <2>1, <2>2, Names, FindEffect DEF MetAt, Ends, Holds, Rests, Removes
  <2>7. QED BY <2>1, <2>3, <2>4, <2>5, <2>6, ThreadPlace DEF CrashNeedsOverlap
<1>2. CASE Make(t)
  <2>1. /\ \A u \in Threads : u # t => pc'[u] = pc[u] /\ local'[u] = local[u]
        /\ t \in Consumers /\ quality' = IF quality = None THEN t ELSE quality
        /\ pc[t] = "make" /\ pc'[t] = "add" /\ local'[t].op = local[t].op
        /\ local'[t].of = local[t].of /\ local'[t].obj = t
        /\ UNCHANGED <<entry, met, crashed>>
    BY <1>2, MakeEffect DEF Holds
  <2>2. quality' # None
    BY <2>1, Names
  <2>3. HandAt(t)' /\ RequestAt(t)' /\ MetAt(t)'
    BY <1>0, <2>1, <2>2 DEF HandAt, RequestAt, MetAt
  <2>4. QED BY <2>1, <2>2, <2>3, Names, ThreadPlace DEF CrashNeedsOverlap
<1>3. CASE AddOrUpdateConsumer(t)
  <2>1. /\ \A u \in Threads : u # t => pc'[u] = pc[u] /\ local'[u] = local[u]
        /\ t \in Consumers /\ pc[t] = "add" /\ pc'[t] = "max"
        /\ UNCHANGED <<local, entry, met, crashed, quality>>
    BY <1>3, AddEffect
  <2>2. HandAt(t)' /\ RequestAt(t)' /\ MetAt(t)'
    BY <1>0, <2>1 DEF HandAt, RequestAt, MetAt
  <2>3. QED BY <2>1, <2>2, Names, ThreadPlace DEF CrashNeedsOverlap
<1>4. ASSUME \/ RemoveConsumer(t) /\ pc[t] = "remove" /\ pc'[t] = "max"
             \/ ReadMax(t) /\ pc[t] = "max" /\ pc'[t] = "paused"
             \/ ReadPaused(t) /\ pc[t] = "paused" /\ pc'[t] = "send"
      PROVE  PlaceInv' /\ MetInv' /\ CrashNeedsOverlap'
  <2>1. /\ \A u \in Threads : u # t => pc'[u] = pc[u] /\ local'[u] = local[u]
        /\ local'[t].op = local[t].op /\ local'[t].of = local[t].of
        /\ local'[t].obj = local[t].obj
        /\ UNCHANGED <<entry, met, crashed, quality>>
    BY <1>4, RemoveEffect, ReadMaxEffect, ReadPausedEffect
  <2>2. HandAt(t)' /\ (t = Pool => PoolHand') /\ (t \in Consumers => RequestAt(t)' /\ MetAt(t)')
    BY <1>0, <1>4, <2>1 DEF HandAt, PoolHand, RequestAt, MetAt
  <2>3. QED BY <2>1, <2>2, ThreadPlace DEF CrashNeedsOverlap
<1>5. CASE RemoveConsumer(t)
  BY <1>4, <1>5, RemoveEffect
<1>6. CASE ReadMax(t)
  BY <1>4, <1>6, ReadMaxEffect
<1>7. CASE ReadPaused(t)
  BY <1>4, <1>7, ReadPausedEffect
<1>8. CASE Send(t)
  <2>1. /\ \A u \in Threads : u # t => pc'[u] = pc[u] /\ local'[u] = local[u]
        /\ pc[t] = "send"
        /\ \/ local[t].op # "leave" /\ pc'[t] = "idle" /\ local'[t].op = "none"
           \/ local[t].op = "leave" /\ pc'[t] = "closing" /\ local'[t].op = "leave"
              /\ local'[t].of = local[t].of
        /\ UNCHANGED <<entry, met, crashed, quality>>
    BY <1>8, SendEffect DEF Ends, Holds, Rests
  <2>2. HandAt(t)' /\ (t = Pool => PoolHand') /\ (t \in Consumers => RequestAt(t)' /\ MetAt(t)')
    BY <1>0, <2>1 DEF HandAt, PoolHand, RequestAt, MetAt
  <2>3. QED BY <2>1, <2>2, ThreadPlace DEF CrashNeedsOverlap
<1>9. QED BY <1>1, <1>2, <1>3, <1>5, <1>6, <1>7, <1>8 DEF Updates

LEMMA HandlerPlace ==
  ASSUME TypeOK, PlaceInv, MetInv, crashed = None, NEW c \in Consumers, Handler(c)
  PROVE  PlaceInv' /\ MetInv' /\ CrashNeedsOverlap'
<1> USE DEF At, Summing, Early
<1>0. HandAt(c) /\ RequestAt(c) /\ MetAt(c) /\ c \in Threads
  BY Names DEF PlaceInv, MetInv
<1>1. CASE Request(c)
  <2>0. entry[c] # "erased" /\ entry[c] \in {"held", "null", "erased"}
    BY <1>1, RequestEffect DEF TypeOK
  <2>1. PICK op \in Ops \ {"none", "leave"}, l \in Depth : LocalIs(c, op, c, l, None, -1, TRUE)
    BY <1>1, RequestEffect
  <2>2. /\ \A u \in Threads : u # c => pc'[u] = pc[u] /\ local'[u] = local[u]
        /\ pc'[c] = "found" /\ local'[c].op \notin {"none", "leave"} /\ local'[c].of = c
        /\ UNCHANGED <<entry, met, crashed, quality>>
    <3>1. At(c, "idle", "found") /\ UNCHANGED <<entry, met, crashed, quality>>
      BY <1>1, RequestEffect
    <3>2. QED BY <2>1, <3>1 DEF LocalIs
  <2>3. HandAt(c)' /\ RequestAt(c)' /\ MetAt(c)'
    BY <1>0, <2>0, <2>2 DEF HandAt, RequestAt, MetAt
  <2>4. QED BY <2>2, <2>3, ConsumerPlace DEF CrashNeedsOverlap
<1>2. CASE Subscript(c)
  <2>1. /\ Asks(c) \/ Returns(c) \/ Fails(c)
        /\ entry[c] # "held" => entry' = [entry EXCEPT ![c] = "null"]
        /\ UNCHANGED <<quality, met>>
    BY <1>2, SubscriptEffect
  <2>2. entry[c] # "held" => c \in met
    BY <1>0, <2>1 DEF RequestAt, MetAt, Asks, Returns, Fails
  <2>3. /\ \A u \in Threads : u # c => pc'[u] = pc[u] /\ local'[u] = local[u]
        /\ \A d \in Consumers : d # c => entry'[d] = entry[d]
    BY <2>1 DEF Asks, Returns, Fails, Rests, LocalIs, TypeOK
  <2>4. HandAt(c)' /\ RequestAt(c)'
    BY <1>0, <2>1 DEF HandAt, RequestAt, Asks, Returns, Fails, Rests, LocalIs
  <2>5. MetAt(c)' /\ CrashNeedsOverlap'
    BY <1>0, <2>1, <2>2 DEF MetAt, CrashNeedsOverlap, Asks, Returns, Fails
  <2>6. QED BY <2>1, <2>3, <2>4, <2>5, ConsumerPlace
<1>3. CASE Set(c)
  <2>1. /\ \A u \in Threads : u # c => pc'[u] = pc[u]
        /\ pc[c] = "asked" /\ pc'[c] \in {"leave", "find"}
        /\ UNCHANGED <<local, entry, met, crashed, quality>>
    BY <1>3, SetEffect
  <2>2. HandAt(c)' /\ RequestAt(c)' /\ MetAt(c)'
    BY <1>0, <2>1 DEF HandAt, RequestAt, MetAt
  <2>3. QED BY <2>1, <2>2, ConsumerPlace DEF CrashNeedsOverlap
<1>4. CASE Dangles(c)
  <2>1. /\ pc[c] \in Early /\ local[c].op # "leave" /\ entry[c] # "held" /\ crashed' = c
        /\ UNCHANGED <<pc, local, entry, met, quality>>
    BY <1>4, DanglesEffect
  <2>2. c \in met /\ HandAt(c)' /\ RequestAt(c)' /\ MetAt(c)'
    BY <1>0, <2>1 DEF HandAt, RequestAt, MetAt
  <2>3. QED BY <2>1, <2>2, ConsumerPlace DEF CrashNeedsOverlap
<1>5. CASE Leave(c)
  <2>1. /\ \A u \in Threads : u # c => pc'[u] = pc[u]
        /\ pc'[c] = "leave" /\ UNCHANGED <<local, entry, met, crashed, quality>>
    BY <1>5, LeaveEffect
  <2>2. HandAt(c)' /\ RequestAt(c)' /\ MetAt(c)'
    BY <1>0, <2>1 DEF HandAt, RequestAt, MetAt
  <2>3. QED BY <2>1, <2>2, ConsumerPlace DEF CrashNeedsOverlap
<1>6. CASE Walk(c)
  <2>0. /\ (pc' = pc /\ pc[c] = "leave") \/ At(c, "leave", "find") \/ At(c, "leave", "closing")
        /\ LocalIs(c, "leave", c, 0, None, -1, TRUE)
        /\ crashed' = crashed \/ (crashed' = c /\ entry[c] = "null")
        /\ UNCHANGED <<entry, met, quality>>
    BY <1>6, WalkEffect
  <2>1. /\ \A u \in Threads : u # c => pc'[u] = pc[u] /\ local'[u] = local[u]
        /\ pc'[c] \in {"leave", "find", "closing"}
        /\ local'[c].op = "leave" /\ local'[c].of = c
        /\ crashed' = crashed \/ (crashed' = c /\ entry[c] = "null")
        /\ UNCHANGED <<entry, met, quality>>
    BY <2>0 DEF LocalIs
  <2>2. HandAt(c)' /\ RequestAt(c)' /\ MetAt(c)'
    BY <1>0, <2>1 DEF HandAt, RequestAt, MetAt
  <2>3. CrashNeedsOverlap'
    BY <1>0, <2>1 DEF MetAt, CrashNeedsOverlap
  <2>4. QED BY <2>1, <2>2, <2>3, ConsumerPlace
<1>7. CASE Gone(c)
  <2>0. At(c, "closing", "gone") /\ Rests(c) /\ entry' = [entry EXCEPT ![c] = "erased"]
    BY <1>7, GoneEffect
  <2>1. /\ \A u \in Threads : u # c => pc'[u] = pc[u] /\ local'[u] = local[u]
        /\ pc'[c] = "gone" /\ local'[c].op = "none" /\ entry'[c] = "erased"
        /\ \A d \in Consumers : d # c => entry'[d] = entry[d]
        /\ UNCHANGED <<met, crashed, quality>>
    BY <1>7, <2>0, GoneEffect DEF Rests, LocalIs, TypeOK
  <2>2. HandAt(c)' /\ RequestAt(c)' /\ MetAt(c)'
    BY <1>0, <2>1 DEF HandAt, RequestAt, MetAt
  <2>3. QED BY <2>1, <2>2, ConsumerPlace DEF CrashNeedsOverlap
<1>8. QED BY <1>1, <1>2, <1>3, <1>4, <1>5, <1>6, <1>7 DEF Handler

LEMMA ClosePlace ==
  ASSUME TypeOK, PlaceInv, MetInv, CrashNeedsOverlap,
         CloseProducer \/ Unlist \/ PoolResponse \/ PoolProducerClose
  PROVE  PlaceInv' /\ MetInv' /\ CrashNeedsOverlap'
<1> USE DEF PlaceInv, MetInv, HandAt, PoolHand, RequestAt, MetAt, CrashNeedsOverlap
<1>1. CASE CloseProducer
  BY <1>1, CloseEffect
<1>2. CASE Unlist
  BY <1>2 DEF Unlist, history
<1>3. CASE PoolResponse
  BY <1>3, PoolResponseEffect
<1>4. CASE PoolProducerClose
  <2>1. PICK c \in Consumers :
          /\ entry' = [entry EXCEPT ![c] = "erased"]
          /\ met' = IF Using(c) THEN met \cup {c} ELSE met
          /\ \/ pc[c] = "gone" /\ At(Pool, "idle", "idle")
             \/ pc[c] # "gone" /\ At(Pool, "idle", "find") /\ local'[Pool].of = c
          /\ local'[Pool].op = local[Pool].op
          /\ \A d \in Consumers : local'[d] = local[d]
          /\ UNCHANGED <<quality, crashed>>
    BY <1>4, PoolCloseEffect
  <2>2. \A d \in Consumers : pc'[d] = pc[d]
    BY <2>1, Names DEF At
  <2>3. pc'[Pool] \in {"idle", "find"} /\ (pc'[Pool] = "find" => local'[Pool].of \in Consumers)
    BY <2>1 DEF At
  <2>4. PlaceInv'
    BY <2>1, <2>2, <2>3, Names DEF Summing
  <2>5. MetInv'
    BY <2>1, <2>2 DEF TypeOK, Using, Early
  <2>6. CrashNeedsOverlap'
    BY <2>1
  <2>7. QED BY <2>4, <2>5, <2>6
<1>5. QED BY <1>1, <1>2, <1>3, <1>4

-----------------------------------------------------------------------------
(* The producer is open, or about to be taken out of the list.             *)

LEMMA UpdatesOpen ==
  ASSUME TypeOK, PlaceInv, OpenInv, CloserInv, NEW t \in Threads, Updates(t)
  PROVE  /\ OpenInv' /\ CloserInv' /\ open' = open
         /\ open => t \in Consumers
<1>1. /\ pc[t] \notin {"idle", "gone"} /\ pc'[t] # "gone"
      /\ \A u \in Threads : u # t => pc'[u] = pc[u]
      /\ UNCHANGED <<open, listed, entry, reply, inbox, crashed>>
  <2>1. CASE Find(t)
    BY <2>1, FindEffect DEF Ends, At
  <2>2. CASE Make(t)
    BY <2>2, MakeEffect DEF At
  <2>3. CASE AddOrUpdateConsumer(t)
    BY <2>3, AddEffect DEF At
  <2>4. CASE RemoveConsumer(t)
    BY <2>4, RemoveEffect DEF At
  <2>5. CASE ReadMax(t)
    BY <2>5, ReadMaxEffect DEF At
  <2>6. CASE ReadPaused(t)
    BY <2>6, ReadPausedEffect DEF At
  <2>7. CASE Send(t)
    BY <2>7, SendEffect DEF Ends, At
  <2>8. QED BY <2>1, <2>2, <2>3, <2>4, <2>5, <2>6, <2>7 DEF Updates
<1>2. CloserInv'
  BY <1>1 DEF CloserInv
<1>3. open => t \in Consumers
  BY <1>1, Names DEF OpenInv
<1>4. OpenInv'
  BY <1>1, <1>3, Names DEF OpenInv
<1>5. QED BY <1>1, <1>2, <1>3, <1>4

LEMMA HandlerOpen ==
  ASSUME TypeOK, PlaceInv, OpenInv, CloserInv, NEW c \in Consumers, Handler(c)
  PROVE  OpenInv' /\ CloserInv' /\ open' = open
<1>1. /\ open => entry[c] = IF pc[c] = "gone" THEN "erased" ELSE "held"
      /\ c \in Threads /\ Pool # c /\ Closer # c
  BY Names DEF OpenInv
<1>2. CASE Request(c)
  <2>1. /\ At(c, "idle", "found")
        /\ UNCHANGED <<open, listed, entry, reply, inbox, crashed>>
    BY <1>2, RequestEffect
  <2>2. QED BY <1>1, <2>1, Names DEF OpenInv, CloserInv, At
<1>3. CASE Subscript(c)
  <2>1. /\ Asks(c) \/ Returns(c) \/ Fails(c)
        /\ UNCHANGED <<open, listed, reply>>
    BY <1>3, SubscriptEffect
  <2>2. CASE Asks(c)
    <3>1. /\ \A i \in DOMAIN inbox : i \in DOMAIN inbox' /\ inbox'[i] = inbox[i]
          /\ \A i \in DOMAIN inbox' \ DOMAIN inbox :
               inbox'[i].type = "response" /\ inbox'[i].of = c
      BY <2>2, AsksEffect
    <3>2. At(c, "found", "asked") /\ UNCHANGED <<entry, crashed>>
      BY <2>2 DEF Asks
    <3>3. CloserInv'
      BY <2>1, <3>1 DEF CloserInv
    <3>4. OpenInv'
      BY <1>1, <2>1, <3>1, <3>2, Names DEF OpenInv, At
    <3>5. QED BY <2>1, <3>3, <3>4
  <2>3. CASE Returns(c) \/ Fails(c)
    <3>1. ~open /\ inbox' = inbox
      BY <1>1, <2>3 DEF Returns, Fails, At
    <3>2. QED BY <2>1, <3>1 DEF OpenInv, CloserInv
  <2>4. QED BY <2>1, <2>2, <2>3
<1>4. CASE Set(c)
  <2>1. /\ At(c, "asked", "leave") \/ At(c, "asked", "find")
        /\ reply' = [reply EXCEPT ![c] = "none"]
        /\ UNCHANGED <<open, listed, entry, inbox, crashed>>
    BY <1>4, SetEffect
  <2>2. reply'[Closer] = reply[Closer]
    BY <1>1, <2>1 DEF TypeOK
  <2>3. QED BY <1>1, <2>1, <2>2, Names DEF OpenInv, CloserInv, At
<1>5. CASE Dangles(c)
  <2>1. /\ ~open /\ UNCHANGED <<open, listed, reply, inbox>>
    BY <1>1, <1>5, DanglesEffect DEF Early
  <2>2. QED BY <2>1 DEF OpenInv, CloserInv
<1>6. CASE Leave(c)
  <2>1. /\ At(c, "idle", "leave")
        /\ UNCHANGED <<open, listed, entry, reply, inbox, crashed>>
    BY <1>6, LeaveEffect
  <2>2. QED BY <1>1, <2>1, Names DEF OpenInv, CloserInv, At
<1>7. CASE Walk(c)
  <2>1. /\ \/ entry[c] = "null"
           \/ entry[c] = "held" /\ At(c, "leave", "find") /\ crashed' = crashed
           \/ entry[c] = "erased" /\ At(c, "leave", "closing") /\ crashed' = crashed
        /\ UNCHANGED <<open, listed, entry, reply, inbox>>
    BY <1>7, WalkEffect
  <2>2. CloserInv'
    BY <2>1 DEF CloserInv
  <2>3. OpenInv'
    BY <1>1, <2>1, Names DEF OpenInv, At
  <2>4. QED BY <2>1, <2>2, <2>3
<1>8. CASE Gone(c)
  <2>1. /\ At(c, "closing", "gone") /\ entry' = [entry EXCEPT ![c] = "erased"]
        /\ UNCHANGED <<open, listed, reply, inbox, crashed>>
    BY <1>8, GoneEffect
  <2>2. /\ entry'[c] = "erased" /\ \A d \in Consumers : d # c => entry'[d] = entry[d]
    BY <2>1 DEF TypeOK
  <2>3. QED BY <1>1, <2>1, <2>2, Names DEF OpenInv, CloserInv, At
<1>9. QED BY <1>2, <1>3, <1>4, <1>5, <1>6, <1>7, <1>8 DEF Handler

LEMMA CloseOpen ==
  ASSUME TypeOK, OpenInv, CloserInv,
         CloseProducer \/ Unlist \/ PoolResponse \/ PoolProducerClose
  PROVE  OpenInv' /\ CloserInv'
<1>1. CASE CloseProducer
  BY <1>1, CloseEffect DEF OpenInv, CloserInv
<1>2. CASE Unlist
  BY <1>2 DEF OpenInv, CloserInv, Unlist, Answered
<1>3. CASE PoolResponse
  <2>1. PICK x \in Consumers \cup {Closer}, answer \in {"ok", "error"} :
          /\ x = inbox[1].of /\ reply' = [reply EXCEPT ![x] = answer]
    BY <1>3, PoolResponseEffect
  <2>2. /\ 1 \in DOMAIN inbox
        /\ \A i \in DOMAIN inbox' : i + 1 \in DOMAIN inbox /\ inbox'[i] = inbox[i + 1]
        /\ \A i \in DOMAIN inbox : i # 1 => \E j \in DOMAIN inbox' : i = j + 1
        /\ UNCHANGED <<open, listed, entry, pc, crashed>>
    BY <1>3, PoolResponseEffect
  <2>3. /\ x = Closer => reply'[Closer] # "none"
        /\ x # Closer => reply'[Closer] = reply[Closer]
    BY <2>1 DEF TypeOK
  <2>4. OpenInv'
    BY <2>1, <2>2, <2>3, Names DEF OpenInv
  <2>5. CloserInv'
    BY <2>1, <2>2, <2>3 DEF CloserInv
  <2>6. QED BY <2>4, <2>5
<1>4. CASE PoolProducerClose
  <2>1. /\ 1 \in DOMAIN inbox /\ inbox[1].type = "producerClose"
        /\ \A i \in DOMAIN inbox' : i + 1 \in DOMAIN inbox /\ inbox'[i] = inbox[i + 1]
        /\ \A i \in DOMAIN inbox : i # 1 => \E j \in DOMAIN inbox' : i = j + 1
        /\ UNCHANGED <<open, listed, reply>>
    BY <1>4, PoolCloseEffect
  <2>2. ~open
    BY <2>1 DEF OpenInv
  <2>3. QED BY <2>1, <2>2 DEF OpenInv, CloserInv
<1>5. QED BY <1>1, <1>2, <1>3, <1>4

-----------------------------------------------------------------------------
(* The table while the producer is open, and what is made of it.           *)

Summed == EmptyInv /\ (\A c \in Consumers : SumAt(c)) /\ ToldInv

\* A step that changes no table, and of the consumers' threads only c's.
LEMMA OneSums ==
  ASSUME Summed, NEW c \in Consumers,
         UNCHANGED <<quality, tables, told, stale, moved, orphaned>>,
         \A d \in Consumers : d # c => pc'[d] = pc[d] /\ local'[d] = local[d] /\ status'[d] = status[d],
         SumAt(c)', WillTell(c) => WillTell(c)'
  PROVE  Summed'
<1>1. ASSUME NEW d \in Consumers, d # c PROVE SumAt(d)' /\ (WillTell(d) => WillTell(d)')
  <2>1. /\ SumAt(d)
        /\ pc'[d] = pc[d] /\ local'[d] = local[d] /\ status'[d] = status[d]
    BY <1>1 DEF Summed
  <2>2. QED BY <2>1 DEF SumAt, ObjectAt, TableAt, MovedAt, Removed, Updating, InTable, WillTell
<1>2. EmptyInv'
  BY DEF Summed, EmptyInv
<1>3. \A d \in Consumers : WillTell(d) => WillTell(d)'
  BY <1>1
<1>4. ToldInv'
  BY <1>3 DEF Summed, ToldInv
<1>5. QED BY <1>1, <1>2, <1>4 DEF Summed

LEMMA FindSums ==
  ASSUME TypeOK, PlaceInv, OpenInv, Summed, open, NEW t \in Consumers, Find(t)
  PROVE  Summed'
<1>1. /\ pc[t] = "find"
      /\ \/ local[t].op = "leave" /\ pc'[t] = "closing" /\ local'[t].op = "leave" /\ quality = None
         \/ local[t].op # "leave" /\ pc'[t] = "make" /\ local'[t].op = local[t].op
         \/ local[t].op = "leave" /\ pc'[t] = "remove" /\ local'[t].op = "leave"
            /\ local'[t].obj = quality
         \/ local[t].op # "leave" /\ pc'[t] = "add" /\ local'[t].op = local[t].op
            /\ local'[t].obj = quality
      /\ \A d \in Consumers : d # t => pc'[d] = pc[d] /\ local'[d] = local[d]
      /\ UNCHANGED <<quality, tables, told, stale, moved, orphaned, status>>
  <2>1. listed /\ t \in Threads /\ t # Pool
    BY Names DEF OpenInv
  <2>2. QED BY <2>1, Names, FindEffect DEF Ends, Holds, Removes, At, LocalIs
<1>2. SumAt(t)
  BY DEF Summed
<1>3. SumAt(t)'
  BY <1>1, <1>2 DEF SumAt, ObjectAt, TableAt, MovedAt, Removed, Updating, InTable, Summing
<1>4. ~WillTell(t)
  BY <1>1 DEF WillTell, Summing
<1>5. QED BY <1>1, <1>3, <1>4, OneSums

LEMMA ReadSums ==
  ASSUME TypeOK, PlaceInv, Summed, NEW t \in Consumers, ReadMax(t) \/ ReadPaused(t)
  PROVE  Summed'
<1>1. /\ \/ /\ pc[t] = "max" /\ pc'[t] = "paused"
            /\ local'[t].maxQ = GetMaxDesiredQ(tables[local[t].obj])
         \/ /\ pc[t] = "paused" /\ pc'[t] = "send" /\ local'[t].maxQ = local[t].maxQ
            /\ local'[t].paused = IsAllConsumerPaused(tables[local[t].obj])
      /\ local'[t].op = local[t].op /\ local'[t].obj = local[t].obj
      /\ \A d \in Consumers : d # t => pc'[d] = pc[d] /\ local'[d] = local[d]
      /\ UNCHANGED <<quality, tables, told, stale, moved, orphaned, status>>
  <2>1. CASE ReadMax(t)
    BY <2>1, Names, ReadMaxEffect DEF At, LocalIs
  <2>2. CASE ReadPaused(t)
    BY <2>2, Names, ReadPausedEffect DEF At, LocalIs
  <2>3. QED BY <2>1, <2>2
<1>2. SumAt(t)
  BY DEF Summed
<1>3. ObjectAt(t)' /\ TableAt(t)'
  BY <1>1, <1>2 DEF SumAt, ObjectAt, TableAt, Removed, Updating, InTable, Summing
<1>4. MovedAt(t)'
  BY <1>1, <1>2 DEF SumAt, MovedAt
<1>5. WillTell(t) => WillTell(t)'
  BY <1>1 DEF WillTell, Summing
<1>6. QED BY <1>1, <1>3, <1>4, <1>5, OneSums DEF SumAt

LEMMA MakeSums ==
  ASSUME TypeOK, PlaceInv, Summed, NEW t \in Consumers, Make(t)
  PROVE  Summed'
<1>1. /\ pc[t] = "make" /\ pc'[t] = "add" /\ quality' = IF quality = None THEN t ELSE quality
      /\ local'[t].op = local[t].op /\ local'[t].obj = t
      /\ \A d \in Consumers : d # t => pc'[d] = pc[d] /\ local'[d] = local[d]
      /\ UNCHANGED <<tables, told, stale, moved, orphaned, status>>
  BY Names, MakeEffect DEF At, LocalIs, Holds
<1>2. t # None /\ local[t].op # "leave"
  BY <1>1, Names DEF PlaceInv, RequestAt
<1>3. CASE quality # None
  <2>1. quality' = quality /\ SumAt(t)
    BY <1>1, <1>3 DEF Summed
  <2>2. SumAt(t)'
    BY <1>1, <1>2, <2>1 DEF SumAt, ObjectAt, TableAt, MovedAt, Removed, Updating, InTable, Summing
  <2>3. ~WillTell(t)
    BY <1>1 DEF WillTell, Summing
  <2>4. QED BY <1>1, <2>1, <2>2, <2>3, OneSums
<1>4. CASE quality = None
  <2>1. told = None /\ \A c \in Consumers : DOMAIN tables[c] = {}
    BY <1>4 DEF Summed, EmptyInv
  <2>2. quality' = t /\ quality' # None
    BY <1>1, <1>2, <1>4
  <2>3. \A c \in Consumers : ~InTable(c) /\ ~InTable(c)'
    BY <1>1, <1>4, <2>1, <2>2 DEF InTable
  <2>4. \A c \in Consumers : pc[c] \notin {"add", "remove"} \cup Summing
    BY <1>4, Names DEF PlaceInv, HandAt
  <2>5. ASSUME NEW c \in Consumers PROVE SumAt(c)'
    <3>1. TableAt(c)
      BY DEF Summed, SumAt
    <3>2. pc'[c] \notin {"remove"} \cup Summing
      BY <1>1, <2>4 DEF Summing
    <3>3. ObjectAt(c)'
      BY <1>1, <2>4, <3>2 DEF ObjectAt
    <3>4. MovedAt(c)'
      BY <3>2 DEF MovedAt, Summing
    <3>5. TableAt(c)'
      BY <1>1, <1>2, <2>3, <3>1 DEF TableAt, Removed, Updating
    <3>6. QED BY <3>3, <3>4, <3>5 DEF SumAt
  <2>6. EmptyInv' /\ ToldInv'
    BY <1>1, <2>1, <2>2 DEF EmptyInv, ToldInv
  <2>7. QED BY <2>5, <2>6 DEF Summed
<1>5. QED BY <1>3, <1>4

LEMMA SendSums ==
  ASSUME TypeOK, PlaceInv, Summed, NEW t \in Consumers, Send(t)
  PROVE  Summed'
<1>1. /\ pc[t] = "send"
      /\ \/ local[t].op # "leave" /\ pc'[t] = "idle" /\ local'[t].op = "none"
         \/ local[t].op = "leave" /\ pc'[t] = "closing" /\ local'[t].op = "leave"
      /\ \A d \in Consumers : d # t => pc'[d] = pc[d] /\ local'[d] = local[d]
  <2>1. t \in Threads /\ Ends(t, "send")
    BY Names, SendEffect
  <2>2. CASE local[t].op # "leave" /\ At(t, "send", "idle") /\ Rests(t)
    BY <2>2, Names DEF Rests, At, LocalIs
  <2>3. CASE local[t].op = "leave" /\ At(t, "send", "closing")
    <3>1. PICK obj \in Consumers \cup {None} : Holds(t, obj)
      BY <2>1, <2>3 DEF Ends
    <3>2. QED BY <2>3, <3>1, Names DEF Holds, At, LocalIs
  <2>4. QED BY <2>1, <2>2, <2>3 DEF Ends
<1>2. /\ told' = [desiredQ |-> local[t].maxQ, paused |-> local[t].paused]
      /\ stale' = (t \in moved \/ local[t].obj # quality)
      /\ moved' = moved \ {t}
      /\ UNCHANGED <<quality, tables, orphaned, status>>
  BY Names, SendEffect
<1>3. quality # None
  BY <1>1, Names DEF PlaceInv, HandAt, Summing
<1>4. ASSUME NEW c \in Consumers PROVE SumAt(c)'
  <2>1. SumAt(c)
    BY DEF Summed
  <2>2. CASE c = t
    BY <1>1, <1>2, <2>1, <2>2 DEF SumAt, ObjectAt, TableAt, MovedAt, Removed, Updating,
       InTable, Summing
  <2>3. CASE c # t
    <3>1. pc'[c] = pc[c] /\ local'[c] = local[c] /\ (c \in moved' <=> c \in moved)
      BY <1>1, <1>2, <2>3
    <3>2. QED BY <1>2, <2>1, <3>1 DEF SumAt, ObjectAt, TableAt, MovedAt, Removed, Updating,
             InTable
  <2>4. QED BY <2>2, <2>3
<1>5. ToldInv'
  <2>1. SUFFICES ASSUME ~stale' PROVE told' = [desiredQ |-> GetMaxDesiredQ(tables[quality]),
                                              paused |-> IsAllConsumerPaused(tables[quality])]
    BY <1>2 DEF ToldInv
  <2>2. t \notin moved /\ local[t].obj = quality /\ MovedAt(t)
    BY <1>2, <2>1 DEF Summed, SumAt
  <2>3. QED BY <1>1, <1>2, <2>2 DEF MovedAt
<1>6. EmptyInv'
  BY <1>2, <1>3 DEF EmptyInv
<1>7. QED BY <1>4, <1>5, <1>6 DEF Summed

\* A step that enters c into its thread's table, or takes it out.  The threads that
\* have read that table are marked.
LEMMA ChangeSums ==
  ASSUME TypeOK, PlaceInv, Summed, NEW t \in Consumers,
         pc[t] \notin Summing, pc'[t] = "max", local[t].obj \in Consumers, quality # None,
         local[t].obj \in {quality, t},
         \A d \in Consumers : d # t => pc'[d] = pc[d],
         \A x \in Consumers : x # local[t].obj => tables'[x] = tables[x],
         \A d \in Consumers : d # t =>
           /\ d \in DOMAIN tables'[local[t].obj] <=> d \in DOMAIN tables[local[t].obj]
           /\ d \in DOMAIN tables[local[t].obj] =>
                tables'[local[t].obj][d] = tables[local[t].obj][d],
         moved' = (moved \ {t}) \cup Surprised(t), \A d \in Consumers : d # t /\ d \in orphaned => d \in orphaned',
         UNCHANGED <<quality, local, status, told, stale>>,
         TableAt(t)'
  PROVE  Summed'
<1>1. quality \in Consumers
  BY DEF TypeOK
<1>2. ASSUME NEW d \in Consumers, d # t PROVE InTable(d)' <=> InTable(d)
  BY <1>1, <1>2 DEF InTable
<1>3. ASSUME NEW d \in Consumers, d # t, InTable(d)
      PROVE  tables'[quality][d] = tables[quality][d]
  BY <1>1, <1>3 DEF InTable
<1>4. ASSUME NEW d \in Consumers, d # t PROVE SumAt(d)'
  <2>1. SumAt(d) /\ pc'[d] = pc[d] /\ local'[d] = local[d] /\ status'[d] = status[d]
    BY <1>4 DEF Summed
  <2>2. ObjectAt(d)'
    BY <2>1 DEF SumAt, ObjectAt
  <2>3. TableAt(d)'
    BY <1>2, <1>3, <1>4, <2>1 DEF SumAt, TableAt, Removed, Updating
  <2>4. MovedAt(d)'
    <3>1. SUFFICES ASSUME local[d].obj = quality, d \notin moved', pc[d] \in {"paused", "send"}
                   PROVE  MovedAt(d)'
      BY <2>1 DEF MovedAt
    <3>2. d \notin moved /\ local[t].obj # quality
      BY <1>4, <3>1, Names DEF Surprised
    <3>3. tables'[quality] = tables[quality]
      BY <1>1, <3>2
    <3>4. QED BY <2>1, <3>1, <3>2, <3>3 DEF SumAt, MovedAt
  <2>5. QED BY <2>2, <2>3, <2>4 DEF SumAt
<1>5. SumAt(t)'
  BY DEF SumAt, ObjectAt, MovedAt, Summing
<1>6. EmptyInv'
  BY DEF EmptyInv
<1>7. ToldInv'
  <2>1. CASE local[t].obj = quality
    BY <2>1 DEF ToldInv, WillTell, Summing
  <2>2. CASE local[t].obj # quality
    <3>1. tables'[quality] = tables[quality]
      BY <1>1, <2>2
    <3>2. \A d \in Consumers : WillTell(d) => WillTell(d)'
      BY DEF WillTell
    <3>3. QED BY <3>1, <3>2 DEF Summed, ToldInv
  <2>3. QED BY <2>1, <2>2
<1>8. QED BY <1>4, <1>5, <1>6, <1>7 DEF Summed

LEMMA AddSums ==
  ASSUME TypeOK, PlaceInv, Summed, NEW t \in Consumers, AddOrUpdateConsumer(t)
  PROVE  Summed'
<1>1. PICK obj : obj = local[t].obj
  OBVIOUS
<1>2. /\ obj \in Consumers /\ quality # None
      /\ pc[t] = "add" /\ pc'[t] = "max" /\ \A d \in Consumers : d # t => pc'[d] = pc[d]
      /\ \A x \in Consumers : x # obj => tables'[x] = tables[x]
      /\ DOMAIN tables'[obj] = DOMAIN tables[obj] \cup {t}
      /\ tables'[obj][t] = status[t]
      /\ \A d \in DOMAIN tables[obj] : d # t => tables'[obj][d] = tables[obj][d]
      /\ moved' = (moved \ {t}) \cup Surprised(t)
      /\ orphaned' = IF obj = quality THEN orphaned \ {t} ELSE orphaned \cup {t}
      /\ UNCHANGED <<quality, local, status, told, stale>>
  BY <1>1, Names, AddEffect DEF At
<1>3. obj \in {quality, t} /\ local[t].op # "leave"
  BY <1>1, <1>2, Names DEF Summed, SumAt, ObjectAt, PlaceInv, RequestAt
<1>4. TableAt(t)'
  BY <1>2, <1>3 DEF TableAt, Removed, InTable, Updating, Summing
<1>5. \A d \in Consumers : d # t =>
        /\ d \in DOMAIN tables'[obj] <=> d \in DOMAIN tables[obj]
        /\ d \in DOMAIN tables[obj] => tables'[obj][d] = tables[obj][d]
  BY <1>2
<1>6. \A d \in Consumers : d # t /\ d \in orphaned => d \in orphaned'
  BY <1>2
<1>7. QED BY <1>1, <1>2, <1>3, <1>4, <1>5, <1>6, ChangeSums DEF Summing

LEMMA RemoveSums ==
  ASSUME TypeOK, PlaceInv, Summed, NEW t \in Consumers, RemoveConsumer(t)
  PROVE  Summed'
<1>1. PICK obj : obj = local[t].obj
  OBVIOUS
<1>2. pc[t] = "remove"
  BY Names, RemoveEffect DEF At
<1>3. obj = quality /\ local[t].op = "leave" /\ local[t].of = t
  BY <1>1, <1>2, Names DEF Summed, SumAt, ObjectAt, PlaceInv, RequestAt
<1>4. /\ obj \in Consumers /\ quality # None
      /\ pc'[t] = "max" /\ \A d \in Consumers : d # t => pc'[d] = pc[d]
      /\ \A x \in Consumers : x # obj => tables'[x] = tables[x]
      /\ DOMAIN tables'[obj] = DOMAIN tables[obj] \ {t}
      /\ \A d \in DOMAIN tables[obj] \ {t} : tables'[obj][d] = tables[obj][d]
      /\ moved' = (moved \ {t}) \cup Surprised(t)
      /\ orphaned' = orphaned \ {t}
      /\ UNCHANGED <<quality, local, status, told, stale>>
  BY <1>1, <1>3, Names, RemoveEffect DEF At
<1>5. TableAt(t)'
  BY <1>3, <1>4 DEF TableAt, Removed, InTable, Summing
<1>6. \A d \in Consumers : d # t =>
        /\ d \in DOMAIN tables'[obj] <=> d \in DOMAIN tables[obj]
        /\ d \in DOMAIN tables[obj] => tables'[obj][d] = tables[obj][d]
  BY <1>4
<1>7. \A d \in Consumers : d # t /\ d \in orphaned => d \in orphaned'
  BY <1>4
<1>8. QED BY <1>1, <1>2, <1>3, <1>4, <1>5, <1>6, <1>7, ChangeSums DEF Summing

LEMMA HandlerSums ==
  ASSUME TypeOK, PlaceInv, OpenInv, Summed, open, NEW c \in Consumers, Handler(c)
  PROVE  Summed'
<1>1. SumAt(c) /\ RequestAt(c) /\ c \in Threads
      /\ entry[c] = IF pc[c] = "gone" THEN "erased" ELSE "held"
  BY Names DEF Summed, PlaceInv, OpenInv
<1>2. ASSUME pc[c] \notin Summing \cup {"find", "make", "add"},
             pc'[c] \notin Summing \cup {"add", "remove"},
             Removed(c)' => Removed(c),
             UNCHANGED <<quality, tables, told, stale, moved, orphaned>>,
             \A d \in Consumers : d # c =>
               pc'[d] = pc[d] /\ local'[d] = local[d] /\ status'[d] = status[d],
             (status'[c] = status[c] /\ (Removed(c) => Removed(c)')) \/ Updating(c)'
      PROVE  Summed'
  <2>1. ~WillTell(c) /\ ~Updating(c)
    BY <1>2 DEF WillTell, Updating
  <2>2. ObjectAt(c)' /\ MovedAt(c)'
    BY <1>2 DEF ObjectAt, MovedAt, Summing
  <2>3. TableAt(c)'
    <3>1. CASE Updating(c)'
      <4>1. ~Removed(c)'
        BY <3>1 DEF Updating, Removed, Summing
      <4>2. QED BY <3>1, <4>1 DEF TableAt
    <3>2. CASE ~Updating(c)'
      BY <1>1, <1>2, <2>1, <3>2 DEF SumAt, TableAt, InTable
    <3>3. QED BY <3>1, <3>2
  <2>4. QED BY <1>2, <2>1, <2>2, <2>3, OneSums DEF SumAt
<1>3. CASE Request(c)
  <2>1. /\ At(c, "idle", "found")
        /\ UNCHANGED <<quality, tables, told, stale, moved, orphaned, status>>
    BY <1>3, RequestEffect
  <2>2. PICK op \in Ops \ {"none", "leave"}, l \in Depth : LocalIs(c, op, c, l, None, -1, TRUE)
    BY <1>3, RequestEffect
  <2>3. \A d \in Consumers : d # c => pc'[d] = pc[d] /\ local'[d] = local[d]
    BY <2>1, <2>2, Names DEF At, LocalIs
  <2>4. QED BY <1>2, <2>1, <2>3 DEF At, Removed, Summing
<1>4. CASE Subscript(c)
  <2>1. /\ Asks(c) \/ Returns(c) \/ Fails(c)
        /\ UNCHANGED <<quality, tables, told, stale, moved, orphaned, status>>
    BY <1>4, SubscriptEffect
  <2>2. At(c, "found", "asked") /\ local' = local
    BY <1>1, <2>1 DEF Asks, Returns, Fails, At
  <2>3. QED BY <1>2, <2>1, <2>2, Names DEF At, Removed, Summing
<1>5. CASE Set(c)
  <2>1. /\ (At(c, "asked", "leave") /\ status' = status) \/ At(c, "asked", "find")
        /\ \A d \in Consumers : d # c => status'[d] = status[d]
        /\ UNCHANGED <<quality, tables, told, stale, moved, orphaned, local>>
    BY <1>5, SetEffect
  <2>2. local[c].op # "leave"
    BY <1>1, <2>1 DEF RequestAt, At
  <2>3. QED BY <1>2, <2>1, <2>2, Names DEF At, Removed, Updating, Summing
<1>6. CASE Dangles(c)
  BY <1>1, <1>6, DanglesEffect DEF Early
<1>7. CASE Leave(c)
  <2>1. /\ At(c, "idle", "leave")
        /\ UNCHANGED <<quality, tables, told, stale, moved, orphaned, status, local>>
    BY <1>7, LeaveEffect
  <2>2. QED BY <1>2, <2>1, Names DEF At, Removed, Summing
<1>8. CASE Walk(c)
  <2>1. /\ At(c, "leave", "find") /\ LocalIs(c, "leave", c, 0, None, -1, TRUE)
        /\ UNCHANGED <<quality, tables, told, stale, moved, orphaned, status>>
    BY <1>1, <1>8, WalkEffect DEF At
  <2>2. \A d \in Consumers : d # c => pc'[d] = pc[d] /\ local'[d] = local[d]
    BY <2>1, Names DEF At, LocalIs
  <2>3. QED BY <1>2, <2>1, <2>2 DEF At, Removed, Summing
<1>9. CASE Gone(c)
  <2>1. /\ At(c, "closing", "gone") /\ Rests(c)
        /\ UNCHANGED <<quality, tables, told, stale, moved, orphaned, status>>
    BY <1>9, GoneEffect
  <2>2. local[c].op = "leave"
    BY <1>1, <2>1 DEF RequestAt, At
  <2>3. \A d \in Consumers : d # c => pc'[d] = pc[d] /\ local'[d] = local[d]
    BY <2>1, Names DEF At, Rests, LocalIs
  <2>4. QED BY <1>2, <2>1, <2>2, <2>3 DEF At, Removed, Summing
<1>10. QED BY <1>3, <1>4, <1>5, <1>6, <1>7, <1>8, <1>9 DEF Handler

LEMMA UpdatesSums ==
  ASSUME TypeOK, PlaceInv, OpenInv, Summed, open, NEW t \in Consumers, Updates(t)
  PROVE  Summed'
  BY FindSums, MakeSums, AddSums, RemoveSums, ReadSums, SendSums, Names DEF Updates

-----------------------------------------------------------------------------
LEMMA QualityNext ==
  ASSUME QualityInv, Next
  PROVE  QualityInv'
<1> USE DEF QualityInv
<1>1. crashed = None /\ (open => Summed)
  BY DEF Next, SumInv, Summed
<1>2. ASSUME NEW t \in Threads, Updates(t) PROVE QualityInv'
  <2>1. TypeOK'
    BY <1>2, UpdatesType
  <2>2. PlaceInv' /\ MetInv' /\ CrashNeedsOverlap'
    BY <1>2, UpdatesPlace
  <2>3. OpenInv' /\ CloserInv' /\ open' = open /\ (open => t \in Consumers)
    BY <1>2, UpdatesOpen
  <2>4. open => Summed'
    BY <1>1, <1>2, <2>3, UpdatesSums
  <2>5. SumInv'
    BY <2>3, <2>4 DEF SumInv, Summed
  <2>6. QED BY <2>1, <2>2, <2>3, <2>5
<1>3. ASSUME NEW c \in Consumers, Handler(c) PROVE QualityInv'
  <2>1. TypeOK'
    BY <1>3, HandlerType
  <2>2. PlaceInv' /\ MetInv' /\ CrashNeedsOverlap'
    BY <1>1, <1>3, HandlerPlace
  <2>3. OpenInv' /\ CloserInv' /\ open' = open
    BY <1>3, HandlerOpen
  <2>4. open => Summed'
    BY <1>1, <1>3, HandlerSums
  <2>5. SumInv'
    BY <2>3, <2>4 DEF SumInv, Summed
  <2>6. QED BY <2>1, <2>2, <2>3, <2>5
<1>4. CASE CloseProducer \/ Unlist \/ PoolResponse \/ PoolProducerClose
  <2>1. TypeOK'
    BY <1>4, CloseType
  <2>2. PlaceInv' /\ MetInv' /\ CrashNeedsOverlap'
    BY <1>4, ClosePlace
  <2>3. OpenInv' /\ CloserInv'
    BY <1>4, CloseOpen
  <2>4. SumInv'
    <3>1. CASE CloseProducer
      BY <3>1 DEF CloseProducer, SumInv
    <3>2. CASE Unlist
      BY <3>2 DEF Unlist, Answered, OpenInv, SumInv
    <3>3. CASE PoolResponse
      <4>1. UNCHANGED <<open, status, quality, tables, pc, local, told, moved, stale, orphaned>>
        BY <3>3, PoolResponseEffect
      <4>2. QED BY <4>1 DEF SumInv, EmptyInv, SumAt, ObjectAt, TableAt, MovedAt, InTable,
               Removed, Updating, ToldInv, WillTell
    <3>4. CASE PoolProducerClose
      <4>1. 1 \in DOMAIN inbox /\ inbox[1].type = "producerClose" /\ open' = open
        BY <3>4, PoolCloseEffect
      <4>2. QED BY <4>1 DEF OpenInv, SumInv
    <3>5. QED BY <1>4, <3>1, <3>2, <3>3, <3>4
  <2>5. QED BY <2>1, <2>2, <2>3, <2>4
<1>5. QED BY <1>2, <1>3, <1>4 DEF Next

LEMMA QualityStutter ==
  ASSUME QualityInv, UNCHANGED vars
  PROVE  QualityInv'
<1>1. UNCHANGED <<open, listed, entry, status, quality, tables, pc, local, reply, inbox, told,
                  calls, crashed, moved, stale, orphaned, met>>
  BY DEF vars, roomVars, history
<1>2. TypeOK' /\ PlaceInv' /\ MetInv' /\ CrashNeedsOverlap'
  BY <1>1 DEF QualityInv, TypeOK, PlaceInv, HandAt, PoolHand, RequestAt, MetInv, MetAt,
     CrashNeedsOverlap
<1>3. OpenInv' /\ CloserInv'
  BY <1>1 DEF QualityInv, OpenInv, CloserInv
<1>4. SumInv'
  BY <1>1 DEF QualityInv, SumInv, EmptyInv, SumAt, ObjectAt, TableAt, MovedAt, InTable,
     Removed, Updating, ToldInv, WillTell
<1>5. QED BY <1>2, <1>3, <1>4 DEF QualityInv

\* What TypeOK, PlaceInv, MetInv, OpenInv, CloserInv and SumInv say of the threads, the
\* consumers' entries, the messages and the tables is true at all times.
THEOREM QualityCorrect == Spec => []QualityInv
<1>1. Init => QualityInv
  BY QualityInit
<1>2. QualityInv /\ [Next]_vars => QualityInv'
  BY QualityNext, QualityStutter
<1>3. QED BY <1>1, <1>2, PTL DEF Spec

\* A thread that updates the quality, a handler of a consuming client and the pool
\* thread only ever put values of their types into the room's and their own variables.
THEOREM VideoTypeCorrect == Spec => []TypeOK
<1>1. QualityInv => TypeOK
  BY DEF QualityInv
<1>2. QED BY <1>1, QualityCorrect, PTL

\* A handler uses a dangling or null consumer controller only where the pool thread
\* erased it under that peer's handler, or under an earlier one.
THEOREM CrashCorrect == Spec => []CrashNeedsOverlap
<1>1. QualityInv => CrashNeedsOverlap
  BY DEF QualityInv
<1>2. QED BY <1>1, QualityCorrect, PTL

-----------------------------------------------------------------------------
LEMMA QuietSum ==
  ASSUME QualityInv
  PROVE  LastWordIsTrue
<1> SUFFICES ASSUME Quiet, listed, told # None, ~stale, orphaned = {}
             PROVE  told = Wanted
  BY DEF LastWordIsTrue
<1> USE DEF QualityInv
<1>1. /\ open /\ EmptyInv /\ ToldInv
      /\ \A c \in Consumers : SumAt(c) /\ pc[c] \in {"idle", "gone"}
  <2>1. open
    BY DEF Quiet, CloserInv
  <2>2. \A c \in Consumers : pc[c] \in {"idle", "gone"}
    BY Names DEF Quiet
  <2>3. QED BY <2>1, <2>2 DEF SumInv
<1>2. quality \in Consumers
  BY <1>1 DEF EmptyInv, TypeOK
<1>3. PICK f \in Table : f = tables[quality]
  BY <1>2 DEF TypeOK
<1>4. told = [desiredQ |-> GetMaxDesiredQ(f), paused |-> IsAllConsumerPaused(f)]
  BY <1>1, <1>3 DEF ToldInv, WillTell, Summing
<1> DEFINE held == {d \in Consumers : entry[d] = "held"}
           here == [c \in held |-> status[c]]
<1>5. \A c \in Consumers : c \in held <=> pc[c] # "gone"
  BY <1>1 DEF OpenInv
<1>6. ASSUME NEW c \in DOMAIN f PROVE c \in held /\ f[c] = status[c]
  <2>1. c \in Consumers /\ InTable(c) /\ SumAt(c) /\ pc[c] \in {"idle", "gone"}
    BY <1>1, <1>2, <1>3, <1>6, Names, TableFields DEF InTable
  <2>2. ~Removed(c) /\ ~Updating(c) /\ tables[quality][c] = status[c]
    BY <2>1 DEF SumAt, TableAt, Updating
  <2>3. QED BY <1>3, <1>5, <2>1, <2>2 DEF Removed
<1>7. ASSUME NEW c \in held, ~status[c].paused PROVE c \in DOMAIN f
  <2>1. SumAt(c) /\ pc[c] = "idle" /\ ~Updating(c) /\ ~Removed(c)
    BY <1>1, <1>5 DEF Updating, Removed, Summing
  <2>2. InTable(c)
    BY <1>7, <2>1 DEF SumAt, TableAt
  <2>3. QED BY <1>3, <2>2 DEF InTable
<1>8. /\ DOMAIN here = held /\ \A c \in held : here[c] = status[c]
  OBVIOUS
<1> HIDE DEF here, held
<1>9. {c \in DOMAIN f : ~f[c].paused} = {c \in DOMAIN here : ~here[c].paused}
  BY <1>6, <1>7, <1>8
<1>10. {f[c].layer : c \in {d \in DOMAIN f : ~f[d].paused}}
        = {here[c].layer : c \in {d \in DOMAIN here : ~here[d].paused}}
  <2>1. \A c \in {d \in DOMAIN f : ~f[d].paused} : f[c].layer = here[c].layer
    BY <1>6, <1>8
  <2>2. QED BY <1>9, <2>1
<1>11. GetMaxDesiredQ(f) = GetMaxDesiredQ(here)
  BY <1>10 DEF GetMaxDesiredQ
<1>12. IsAllConsumerPaused(f) = IsAllConsumerPaused(here)
  BY <1>9 DEF IsAllConsumerPaused
<1>13. Wanted = [desiredQ |-> GetMaxDesiredQ(here), paused |-> IsAllConsumerPaused(here)]
  BY DEF Wanted, here, held
<1>14. QED BY <1>4, <1>11, <1>12, <1>13

\* When no handler is at work and the producer is in its owner's map, the last
\* videoProducerQualityChanged is what the consumers want, unless the table moved as
\* that message was made, or a status went to a controller that was not kept.
THEOREM LastWordCorrect == Spec => []LastWordIsTrue
<1>1. QualityInv => LastWordIsTrue
  BY QuietSum
<1>2. QED BY <1>1, QualityCorrect, PTL
=============================================================================
