----------------------------- MODULE RoomProofs -----------------------------
(***************************************************************************)
(* Proofs about Room: what each action does to the variables, the type     *)
(* invariant, the requests a handler waits for; then who holds which lock, *)
(* what a handler is doing at each place of its program, and the producers *)
(* of the worker, the router, the peers and the shared video; last who     *)
(* knows whom, who consumes what, and the consumers of the worker, of the  *)
(* room and of its clients.  A handler's variables are one record, which   *)
(* an action sets as a whole; the lemmas ...Local say what becomes of each *)
(* of its fields, so that the invariants' proofs need not open it.         *)
(***************************************************************************)
EXTENDS RoomInvariants, SequenceTheorems, FiniteSetTheorems, TLAPS

-----------------------------------------------------------------------------
LEMMA FiniteConsumers == IsFiniteSet(Consumer)
<1> DEFINE T == Peers \X (Producers \X Peers)
           f == [t \in T |-> [peer |-> t[1], prod |-> t[2][1], maker |-> t[2][2]]]
<1>1. IsFiniteSet(T)
  BY FiniteAssumption, FS_Product
<1>2. f \in Surjection(T, Consumer)
  <2>1. f \in [T -> Consumer]
    BY DEF Consumer
  <2>2. ASSUME NEW c \in Consumer PROVE \E t \in T : f[t] = c
    <3>1. <<c.peer, <<c.prod, c.maker>>>> \in T
      BY DEF Consumer
    <3>2. f[<<c.peer, <<c.prod, c.maker>>>>] = c
      BY <3>1 DEF Consumer
    <3>3. QED BY <3>1, <3>2
  <2>3. QED BY <2>1, <2>2 DEF Surjection
<1>3. QED BY <1>1, <1>2, FS_Surjection

\* A set of consumers put in some order: a sequence with each of them.
LEMMA Ordered ==
  ASSUME NEW S \in SUBSET Consumer, NEW s \in SetToSeqs(S)
  PROVE  /\ s \in Seq(Consumer)
         /\ \A i \in DOMAIN s : s[i] \in S
         /\ \A c \in S : \E i \in DOMAIN s : s[i] = c
<1>1. IsFiniteSet(S) /\ Cardinality(S) \in Nat
  BY FiniteConsumers, FS_Subset, FS_CardinalityType
<1> DEFINE D == 1..Cardinality(S)
<1>2. s \in [D -> S] /\ \A i, j \in D : i # j => s[i] # s[j]
  BY DEF SetToSeqs
<1>3. s \in Injection(D, S)
  BY <1>2 DEF Injection, IsInjective
<1>4. Cardinality(D) = Cardinality(S)
  BY <1>1, FS_Interval
<1>5. s \in Surjection(D, S)
  BY <1>1, <1>3, <1>4, FS_Injection
<1>6. QED BY <1>1, <1>2, <1>5 DEF Surjection

\* What a request leaves in the inbox: the closes it caused, then its answer.
LEMMA RespondEffect ==
  ASSUME inbox \in Seq(Message), NEW p \in Peers, NEW ok \in BOOLEAN,
         NEW S \in SUBSET Consumer, Respond(p, S, ok)
  PROVE  /\ inbox' \in Seq(Message)
         /\ \E n \in Nat :
              /\ n >= Len(inbox) /\ Len(inbox') = n + 1
              /\ \A i \in 1..Len(inbox) : inbox'[i] = inbox[i]
              /\ \A i \in (Len(inbox) + 1)..n :
                   inbox'[i].type = "producerClose" /\ inbox'[i].consumer \in S
              /\ \A c \in S : \E i \in (Len(inbox) + 1)..n : inbox'[i].consumer = c
              /\ inbox'[n + 1] = [type |-> "response", peer |-> p, ok |-> ok]
<1>1. PICK s \in SetToSeqs(S) :
        inbox' = inbox
                 \o [i \in DOMAIN s |-> [type |-> "producerClose", consumer |-> s[i]]]
                 \o <<[type |-> "response", peer |-> p, ok |-> ok]>>
  BY DEF Respond
<1> DEFINE t == [i \in DOMAIN s |-> [type |-> "producerClose", consumer |-> s[i]]]
           r == [type |-> "response", peer |-> p, ok |-> ok]
<1>2. /\ s \in Seq(Consumer)
      /\ \A i \in DOMAIN s : s[i] \in S
      /\ \A c \in S : \E i \in DOMAIN s : s[i] = c
  BY Ordered
<1>3. t \in Seq(Message) /\ Len(t) = Len(s) /\ DOMAIN t = DOMAIN s
  BY <1>2 DEF Message
<1>4. r \in Message /\ <<r>> \in Seq(Message)
  BY DEF Message
<1> DEFINE n == Len(inbox) + Len(t)
<1>5. n \in Nat /\ n >= Len(inbox) /\ DOMAIN t = 1..Len(t)
  BY <1>3
<1> HIDE DEF t, r
<1>6. inbox' = (inbox \o t) \o <<r>>
  BY <1>1 DEF t, r
<1>7. inbox \o t \in Seq(Message) /\ Len(inbox \o t) = n
  BY <1>3
<1>8. inbox' \in Seq(Message) /\ Len(inbox') = n + 1 /\ inbox'[n + 1] = r
  BY <1>4, <1>6, <1>7
<1>9. \A i \in 1..Len(inbox) : inbox'[i] = inbox[i]
  BY <1>3, <1>4, <1>6, <1>7
<1>10. ASSUME NEW i \in (Len(inbox) + 1)..n
       PROVE  inbox'[i] = t[i - Len(inbox)] /\ i - Len(inbox) \in DOMAIN t
  BY <1>3, <1>4, <1>5, <1>6, <1>7
<1>11. ASSUME NEW i \in (Len(inbox) + 1)..n
       PROVE  inbox'[i].type = "producerClose" /\ inbox'[i].consumer \in S
  <2>1. s[i - Len(inbox)] \in S /\ i - Len(inbox) \in DOMAIN s
    BY <1>2, <1>3, <1>10
  <2>2. t[i - Len(inbox)] = [type |-> "producerClose", consumer |-> s[i - Len(inbox)]]
    BY <2>1 DEF t
  <2>3. QED BY <1>10, <2>1, <2>2
<1>12. ASSUME NEW c \in S PROVE \E i \in (Len(inbox) + 1)..n : inbox'[i].consumer = c
  <2>1. PICK k \in DOMAIN s : s[k] = c
    BY <1>2
  <2>2. k + Len(inbox) \in (Len(inbox) + 1)..n /\ (k + Len(inbox)) - Len(inbox) = k
    BY <1>3, <1>5
  <2>3. t[k].consumer = c
    BY <2>1 DEF t
  <2>4. QED BY <1>10, <2>2, <2>3
<1>13. QED BY <1>5, <1>8, <1>9, <1>11, <1>12 DEF r

-----------------------------------------------------------------------------
LEMMA TypeInit == Init => TypeOK /\ HandInv /\ AnswerInv
<1> SUFFICES ASSUME Init PROVE TypeOK /\ HandInv /\ AnswerInv
  OBVIOUS
<1>1. local \in [Peers -> Local]
  BY DEF Init, Nothing, Local
<1>2. inbox \in Seq(Message) /\ DOMAIN inbox = {}
  BY DEF Init
<1>3. TypeOK
  BY <1>1, <1>2 DEF Init, TypeOK, PC, Message
<1>4. HandInv
  BY DEF Init, HandInv, Creating, Creates
<1>5. AnswerInv
  BY <1>2 DEF Init, AnswerInv, Waiting, Outstanding, Single, Answers
<1>6. QED BY <1>3, <1>4, <1>5

-----------------------------------------------------------------------------
(* The messages on their way                                               *)

LEMMA RespondMeans ==
  ASSUME inbox \in Seq(Message), NEW p \in Peers, NEW ok \in BOOLEAN,
         NEW S \in SUBSET Consumer, Respond(p, S, ok)
  PROVE  /\ \A x \in Peers : Outstanding(x)' <=> Outstanding(x) \/ x = p
         /\ \A x \in Peers : Single(x) /\ (x = p => ~Outstanding(p)) => Single(x)'
         /\ \A x \in Peers : Refusing(x)' <=> Refusing(x) \/ (x = p /\ ~ok)
         /\ \A c \in Consumer : Closing(c)' <=> Closing(c) \/ c \in S
<1>1. PICK n \in Nat :
        /\ n >= Len(inbox) /\ Len(inbox') = n + 1
        /\ \A i \in 1..Len(inbox) : inbox'[i] = inbox[i]
        /\ \A i \in (Len(inbox) + 1)..n :
             inbox'[i].type = "producerClose" /\ inbox'[i].consumer \in S
        /\ \A c \in S : \E i \in (Len(inbox) + 1)..n : inbox'[i].consumer = c
        /\ inbox'[n + 1] = [type |-> "response", peer |-> p, ok |-> ok]
  BY RespondEffect
<1>2. inbox' \in Seq(Message) /\ Len(inbox) \in Nat
  <2>1. inbox' \in Seq(Message)
    BY RespondEffect
  <2>2. QED BY <2>1
<1> DEFINE m == Len(inbox)
<1>3. DOMAIN inbox = 1..m /\ DOMAIN inbox' = 1..(n + 1)
  BY <1>1, <1>2
<1>4. \A i \in 1..(n + 1) : i \in 1..m \/ i \in (m + 1)..n \/ i = n + 1
  BY <1>1, <1>2
<1>5. /\ \A i \in 1..m : i \in 1..(n + 1) /\ i # n + 1
      /\ \A i \in (m + 1)..n : i \in 1..(n + 1)
      /\ n + 1 \in 1..(n + 1)
  BY <1>1, <1>2
<1>6. /\ inbox'[n + 1].type = "response" /\ inbox'[n + 1].peer = p
      /\ inbox'[n + 1].ok = ok
  BY <1>1
<1>7. /\ \A i \in 1..m : inbox'[i] = inbox[i]
      /\ \A i \in (m + 1)..n : inbox'[i].type = "producerClose" /\ inbox'[i].consumer \in S
      /\ \A c \in S : \E i \in (m + 1)..n : inbox'[i].consumer = c
  BY <1>1
<1>8. "producerClose" # "response"
  OBVIOUS
<1> HIDE DEF m
<1>9. ASSUME NEW x \in Peers
      PROVE  \A i \in 1..(n + 1) :
               Answers(i, x)' <=> (i \in 1..m /\ Answers(i, x)) \/ (i = n + 1 /\ x = p)
  BY <1>3, <1>4, <1>5, <1>6, <1>7, <1>8 DEF Answers
<1>10. ASSUME NEW x \in Peers
       PROVE  Outstanding(x)' <=> Outstanding(x) \/ x = p
  BY <1>3, <1>5, <1>9 DEF Outstanding
<1>11. ASSUME NEW x \in Peers, Single(x), x = p => ~Outstanding(p)
       PROVE  Single(x)'
  BY <1>3, <1>5, <1>9, <1>11 DEF Single, Outstanding
<1>12. ASSUME NEW x \in Peers
       PROVE  Refusing(x)' <=> Refusing(x) \/ (x = p /\ ~ok)
  BY <1>3, <1>5, <1>6, <1>7, <1>9 DEF Refusing
<1>13. ASSUME NEW c \in Consumer
       PROVE  Closing(c)' <=> Closing(c) \/ c \in S
  BY <1>3, <1>4, <1>5, <1>6, <1>7, <1>8 DEF Closing
<1>14. QED BY <1>10, <1>11, <1>12, <1>13

\* The pool thread takes the first message.
LEMMA Taken ==
  ASSUME inbox \in Seq(Message), inbox # <<>>, inbox' = Tail(inbox)
  PROVE  /\ inbox' \in Seq(Message)
         /\ Head(inbox) \in Message /\ Head(inbox) = inbox[1] /\ 1 \in DOMAIN inbox
         /\ \A i \in DOMAIN inbox' :
              i + 1 \in DOMAIN inbox /\ inbox'[i] = inbox[i + 1] /\ i + 1 # 1
         /\ \A i \in DOMAIN inbox : i # 1 => \E j \in DOMAIN inbox' : i = j + 1
         /\ \A i, j \in DOMAIN inbox' : i + 1 = j + 1 => i = j
<1>1. /\ Len(inbox) \in Nat \ {0} /\ inbox' \in Seq(Message)
      /\ Len(inbox') = Len(inbox) - 1
      /\ \A i \in 1..(Len(inbox) - 1) : inbox'[i] = inbox[i + 1]
  BY EmptySeq, HeadTailProperties
<1>2. DOMAIN inbox = 1..Len(inbox) /\ DOMAIN inbox' = 1..(Len(inbox) - 1)
  BY <1>1
<1>3. Head(inbox) = inbox[1] /\ 1 \in DOMAIN inbox /\ Head(inbox) \in Message
  BY <1>1, <1>2
<1>4. ASSUME NEW i \in DOMAIN inbox, i # 1 PROVE \E j \in DOMAIN inbox' : i = j + 1
  <2>1. i - 1 \in 1..(Len(inbox) - 1) /\ i = (i - 1) + 1
    BY <1>1, <1>2, <1>4
  <2>2. QED BY <1>2, <2>1
<1>5. \A i \in DOMAIN inbox' :
        i + 1 \in DOMAIN inbox /\ inbox'[i] = inbox[i + 1] /\ i + 1 # 1
  BY <1>1, <1>2
<1>6. \A i, j \in DOMAIN inbox' : i + 1 = j + 1 => i = j
  BY <1>1, <1>2
<1>7. QED BY <1>1, <1>3, <1>4, <1>5, <1>6

LEMMA PoolResponseMeans ==
  ASSUME TypeOK, AnswerInv, PoolResponse
  PROVE  \E x \in Peers, ok \in BOOLEAN :
           /\ Outstanding(x) /\ ~Outstanding(x)' /\ (Refusing(x) <=> ~ok)
           /\ reply' = [reply EXCEPT ![x] = IF ok THEN "ok" ELSE "error"]
           /\ \A y \in Peers \ {x} :
                (Outstanding(y)' <=> Outstanding(y)) /\ (Refusing(y)' <=> Refusing(y))
           /\ \A y \in Peers : Single(y)'
           /\ \A c \in Consumer : Closing(c)' <=> Closing(c)
<1>1. /\ inbox \in Seq(Message) /\ inbox # <<>> /\ inbox' = Tail(inbox)
      /\ Head(inbox).type = "response"
      /\ reply' = [reply EXCEPT ![Head(inbox).peer] = IF Head(inbox).ok THEN "ok" ELSE "error"]
  BY DEF TypeOK, PoolResponse
<1>2. /\ Head(inbox) \in Message /\ Head(inbox) = inbox[1] /\ 1 \in DOMAIN inbox
      /\ \A i \in DOMAIN inbox' :
           i + 1 \in DOMAIN inbox /\ inbox'[i] = inbox[i + 1] /\ i + 1 # 1
      /\ \A i \in DOMAIN inbox : i # 1 => \E j \in DOMAIN inbox' : i = j + 1
      /\ \A i, j \in DOMAIN inbox' : i + 1 = j + 1 => i = j
  BY <1>1, Taken
<1>3. PICK x \in Peers, ok \in BOOLEAN : inbox[1].peer = x /\ inbox[1].ok = ok
  BY <1>1, <1>2 DEF Message
<1>4. \A y : \A i \in DOMAIN inbox' : Answers(i, y)' <=> Answers(i + 1, y)
  BY <1>2 DEF Answers
<1>5. \A y : Answers(1, y) <=> y = x
  BY <1>1, <1>2, <1>3 DEF Answers
<1>6. \A y \in Peers : Single(y)
  BY DEF AnswerInv
<1>7. \A y \in Peers : Single(y)'
  BY <1>2, <1>4, <1>6 DEF Single
<1>8. Outstanding(x)
  BY <1>2, <1>5 DEF Outstanding
<1>9. ~Outstanding(x)'
  <2>1. SUFFICES ASSUME NEW i \in DOMAIN inbox', Answers(i, x)' PROVE FALSE
    BY DEF Outstanding
  <2>2. Answers(i + 1, x) /\ Answers(1, x) /\ i + 1 \in DOMAIN inbox /\ i + 1 # 1
    BY <1>2, <1>4, <1>5, <2>1
  <2>3. Single(x)
    BY <1>3, <1>6
  <2>4. QED BY <1>2, <2>2, <2>3 DEF Single
<1>10. Refusing(x) <=> ~ok
  BY <1>2, <1>3, <1>5, <1>6 DEF Refusing, Single
<1>11. ASSUME NEW y \in Peers \ {x}
       PROVE  (Outstanding(y)' <=> Outstanding(y)) /\ (Refusing(y)' <=> Refusing(y))
  BY <1>2, <1>4, <1>5 DEF Outstanding, Refusing
<1>12. ASSUME NEW c \in Consumer PROVE Closing(c)' <=> Closing(c)
  <2>1. inbox[1].type # "producerClose"
    BY <1>1, <1>2
  <2>2. Closing(c)' => Closing(c)
    BY <1>2 DEF Closing
  <2>3. Closing(c) => Closing(c)'
    BY <1>2, <2>1 DEF Closing
  <2>4. QED BY <2>2, <2>3
<1>13. reply' = [reply EXCEPT ![x] = IF ok THEN "ok" ELSE "error"]
  BY <1>1, <1>2, <1>3
<1>14. QED BY <1>13, <1>7, <1>8, <1>9, <1>10, <1>11, <1>12

LEMMA PoolCloseMeans ==
  ASSUME TypeOK, PoolProducerClose
  PROVE  LET c == Head(inbox).consumer IN
           /\ c \in Consumer /\ Closing(c)
           /\ inbox' \in Seq(Message)
           /\ \A e \in Consumer : (Closing(e)' => Closing(e)) /\ (Closing(e) => e = c \/ Closing(e)')
           /\ \A y \in Peers : /\ Outstanding(y)' <=> Outstanding(y)
                               /\ Refusing(y)' <=> Refusing(y)
                               /\ Single(y) => Single(y)'
<1> DEFINE h == Head(inbox)
<1>1. /\ inbox \in Seq(Message) /\ inbox # <<>> /\ inbox' = Tail(inbox)
      /\ h.type = "producerClose"
  BY DEF TypeOK, PoolProducerClose
<1>2. /\ h \in Message /\ h = inbox[1] /\ 1 \in DOMAIN inbox /\ inbox' \in Seq(Message)
      /\ \A i \in DOMAIN inbox' :
           i + 1 \in DOMAIN inbox /\ inbox'[i] = inbox[i + 1] /\ i + 1 # 1
      /\ \A i \in DOMAIN inbox : i # 1 => \E j \in DOMAIN inbox' : i = j + 1
      /\ \A i, j \in DOMAIN inbox' : i + 1 = j + 1 => i = j
  BY <1>1, Taken
<1>3. h.consumer \in Consumer
  BY <1>1, <1>2 DEF Message
<1> HIDE DEF h
<1>4. \A y : \A i \in DOMAIN inbox' : Answers(i, y)' <=> Answers(i + 1, y)
  BY <1>2 DEF Answers
<1>5. \A y : ~Answers(1, y)
  BY <1>1, <1>2 DEF Answers
<1>6. Closing(h.consumer)
  BY <1>1, <1>2 DEF Closing
<1>7. ASSUME NEW e \in Consumer
      PROVE  (Closing(e)' => Closing(e)) /\ (Closing(e) => e = h.consumer \/ Closing(e)')
  BY <1>1, <1>2 DEF Closing
<1>8. ASSUME NEW y \in Peers
      PROVE  /\ Outstanding(y)' <=> Outstanding(y)
             /\ Refusing(y)' <=> Refusing(y)
             /\ Single(y) => Single(y)'
  BY <1>2, <1>4, <1>5 DEF Outstanding, Refusing, Single
<1>9. QED BY <1>2, <1>3, <1>6, <1>7, <1>8 DEF h

LEMMA InboxStays ==
  ASSUME inbox' = inbox
  PROVE  /\ \A x : (Outstanding(x)' <=> Outstanding(x)) /\ (Single(x)' <=> Single(x))
         /\ \A x : Refusing(x)' <=> Refusing(x)
         /\ \A c : Closing(c)' <=> Closing(c)
  BY DEF Outstanding, Single, Refusing, Closing, Answers

\* What a step may set in a handler's variables.
LEMMA LocalFields ==
  ASSUME NEW r \in Local
  PROVE  /\ Nothing \in Local
         /\ \A s \in SUBSET Peers :
              [r EXCEPT !.others = s] \in Local /\ [r EXCEPT !.others = s, !.visit = s] \in Local
         /\ \A q \in Peers, t \in SUBSET (Peers \X Producers) :
              [r EXCEPT !.visit = @ \ {q}, !.reading = q, !.todo = t] \in Local
         /\ \A t \in SUBSET (Peers \X Producers) :
              [r EXCEPT !.holding = TRUE, !.todo = t] \in Local /\ [r EXCEPT !.todo = t] \in Local
         /\ \A t \in SUBSET (Peers \X Producers), c \in Consumer :
              [r EXCEPT !.todo = t, !.job = c] \in Local
         /\ [r EXCEPT !.reading = None, !.prod = None, !.holding = FALSE] \in Local
         /\ [r EXCEPT !.job = None] \in Local
         /\ \A m \in Producers \cup {None} : [r EXCEPT !.prod = m] \in Local
         /\ \A b \in BOOLEAN : [r EXCEPT !.holding = b] \in Local
         /\ \A d \in Directions \cup {None} : [r EXCEPT !.dir = d] \in Local
<1> USE DEF Local
<1>1. Nothing \in Local
  BY DEF Nothing
<1>2. \A s \in SUBSET Peers :
        [r EXCEPT !.others = s] \in Local /\ [r EXCEPT !.others = s, !.visit = s] \in Local
  OBVIOUS
<1>3. \A q \in Peers, t \in SUBSET (Peers \X Producers) :
        [r EXCEPT !.visit = @ \ {q}, !.reading = q, !.todo = t] \in Local
  OBVIOUS
<1>4. \A t \in SUBSET (Peers \X Producers) :
        [r EXCEPT !.holding = TRUE, !.todo = t] \in Local /\ [r EXCEPT !.todo = t] \in Local
  OBVIOUS
<1>5. \A t \in SUBSET (Peers \X Producers), c \in Consumer :
        [r EXCEPT !.todo = t, !.job = c] \in Local
  OBVIOUS
<1>6. /\ [r EXCEPT !.reading = None, !.prod = None, !.holding = FALSE] \in Local
      /\ [r EXCEPT !.job = None] \in Local
      /\ \A m \in Producers \cup {None} : [r EXCEPT !.prod = m] \in Local
  OBVIOUS
<1>7. /\ \A b \in BOOLEAN : [r EXCEPT !.holding = b] \in Local
      /\ \A d \in Directions \cup {None} : [r EXCEPT !.dir = d] \in Local
  OBVIOUS
<1>8. QED BY <1>1, <1>2, <1>3, <1>4, <1>5, <1>6, <1>7

LEMMA SetLocalIs ==
  ASSUME TypeOK, NEW p \in Peers, NEW r \in Local, SetLocal(p, r)
  PROVE  LocalIs(p, r.others, r.visit, r.reading, r.todo, r.job, r.prod, r.dir, r.holding)
<1>1. local \in [Peers -> Local]
  BY DEF TypeOK
<1>2. local' = [local EXCEPT ![p] = r]
  BY DEF SetLocal
<1>3. QED BY <1>1, <1>2 DEF LocalIs

LEMMA GotoIs ==
  ASSUME TypeOK, NEW p \in Peers, NEW from, NEW to, Goto(p, from, to)
  PROVE  At(p, from, to)
<1>1. pc \in [Peers -> PC] /\ pc[p] = from /\ pc' = [pc EXCEPT ![p] = to]
  BY DEF TypeOK, Goto
<1>2. QED BY <1>1 DEF At

LEMMA JoinSnapshotLocal ==
  ASSUME TypeOK, NEW p \in Peers, JoinSnapshot(p)
  PROVE  LET l == local[p] IN
           /\ Goto(p, "caps", "accept")
           /\ LocalIs(p, JoinedPeers(p), JoinedPeers(p), l.reading, l.todo, l.job, l.prod, l.dir, l.holding)
<1> DEFINE r == [local[p] EXCEPT !.others = JoinedPeers(p), !.visit = JoinedPeers(p)]
<1>1. local[p] \in Local /\ JoinedPeers(p) \in SUBSET Peers
  BY DEF TypeOK, JoinedPeers
<1>2. r \in Local
  BY <1>1, LocalFields
<1>3. SetLocal(p, r) /\ Goto(p, "caps", "accept")
  BY DEF JoinSnapshot
<1>4. QED BY <1>1, <1>2, <1>3, SetLocalIs DEF LocalIs, Local

LEMMA VisitLocal ==
  ASSUME TypeOK, NEW p \in Peers, Visit(p)
  PROVE  \E q \in local[p].visit : Visits(p, q)
<1>1. PICK q \in local[p].visit :
        /\ CanRead(q)
        /\ SetLocal(p, [local[p] EXCEPT !.visit = @ \ {q}, !.reading = q,
                                        !.todo = {p} \X producers[q]])
  BY DEF Visit
<1> DEFINE r == [local[p] EXCEPT !.visit = @ \ {q}, !.reading = q, !.todo = {p} \X producers[q]]
<1>2. local[p] \in Local
  BY DEF TypeOK
<1>3. q \in Peers /\ {p} \X producers[q] \in SUBSET (Peers \X Producers)
  BY <1>2 DEF TypeOK, Local
<1>4. r \in Local
  BY <1>2, <1>3, LocalFields
<1>5. SetLocal(p, r)
  BY <1>1
<1>6. LocalIs(p, local[p].others, local[p].visit \ {q}, q, {p} \X producers[q],
              local[p].job, local[p].prod, local[p].dir, local[p].holding)
  BY <1>2, <1>4, <1>5, SetLocalIs DEF LocalIs, Local
<1>7. At(p, "visit", "consume")
  BY GotoIs DEF Visit
<1>8. QED BY <1>1, <1>6, <1>7 DEF Visits

LEMMA JoinSharingLocal ==
  ASSUME TypeOK, NEW p \in Peers, JoinSharing(p), VideoShared
  PROVE  LET l == local[p] IN
           /\ Goto(p, "visit", "consume")
           /\ LocalIs(p, l.others, l.visit, l.reading, {<<p, shared>>}, l.job, l.prod, l.dir, TRUE)
<1> DEFINE r == [local[p] EXCEPT !.holding = TRUE, !.todo = {<<p, shared>>}]
<1>1. local[p] \in Local /\ {<<p, shared>>} \in SUBSET (Peers \X Producers)
  BY DEF TypeOK, VideoShared
<1>2. r \in Local
  BY <1>1, LocalFields
<1>3. SetLocal(p, r) /\ Goto(p, "visit", "consume")
  BY DEF JoinSharing
<1>4. /\ r.others = local[p].others /\ r.visit = local[p].visit
      /\ r.reading = local[p].reading /\ r.todo = {<<p, shared>>} /\ r.job = local[p].job
      /\ r.prod = local[p].prod /\ r.dir = local[p].dir /\ r.holding = TRUE
  BY <1>1 DEF Local
<1> HIDE DEF r
<1>5. LocalIs(p, r.others, r.visit, r.reading, r.todo, r.job, r.prod, r.dir, r.holding)
  BY <1>2, <1>3, SetLocalIs
<1>6. QED BY <1>3, <1>4, <1>5

LEMMA JoinDoneLocal ==
  ASSUME TypeOK, NEW p \in Peers, JoinDone(p)
  PROVE  LET l == local[p] IN
           Goto(p, "newPeer", "idle") /\ LocalIs(p, {}, {}, None, {}, None, None, None, FALSE)
<1> DEFINE r == Nothing
<1>1. local[p] \in Local
  BY DEF TypeOK
<1>2. r \in Local
  BY <1>1, LocalFields
<1>3. SetLocal(p, r) /\ Goto(p, "newPeer", "idle")
  BY DEF JoinDone
<1>4. QED BY <1>1, <1>2, <1>3, SetLocalIs DEF LocalIs, Local, Nothing

LEMMA CanConsumeLocal ==
  ASSUME TypeOK, NEW p \in Peers, CanConsume(p)
  PROVE  \E w \in local[p].todo : Skip(p, w) \/ Take(p, w)
<1>1. PICK w \in local[p].todo :
        IF w[2] \in router /\ pc[w[1]] # "caps"
        THEN /\ pc' = [pc EXCEPT ![p] = "request"]
             /\ SetLocal(p, [local[p] EXCEPT !.todo = @ \ {w},
                               !.job = [peer |-> w[1], prod |-> w[2], maker |-> p]])
        ELSE pc' = pc /\ SetLocal(p, [local[p] EXCEPT !.todo = @ \ {w}])
  BY DEF CanConsume
<1> DEFINE c == [peer |-> w[1], prod |-> w[2], maker |-> p]
           t == local[p].todo \ {w}
<1>2. pc[p] = "consume" /\ local[p] \in Local
  BY DEF TypeOK, CanConsume
<1>3. c \in Consumer /\ t \in SUBSET (Peers \X Producers)
  BY <1>2 DEF Local, Consumer
<1>4. CASE ~(w[2] \in router /\ pc[w[1]] # "caps")
  <2>1. [local[p] EXCEPT !.todo = t] \in Local
    BY <1>2, <1>3, LocalFields
  <2>2. SetLocal(p, [local[p] EXCEPT !.todo = t])
    BY <1>1, <1>4
  <2>3. LocalIs(p, local[p].others, local[p].visit, local[p].reading, t, local[p].job,
                local[p].prod, local[p].dir, local[p].holding)
    BY <1>2, <2>1, <2>2, SetLocalIs DEF LocalIs, Local
  <2>4. pc' = pc
    BY <1>1, <1>4
  <2>5. QED BY <1>2, <1>4, <2>3, <2>4 DEF Skip
<1>5. CASE w[2] \in router /\ pc[w[1]] # "caps"
  <2> HIDE DEF c, t
  <2>1. [local[p] EXCEPT !.todo = t, !.job = c] \in Local
    BY <1>2, <1>3, LocalFields
  <2>2. SetLocal(p, [local[p] EXCEPT !.todo = t, !.job = c])
    BY <1>1, <1>5 DEF c, t
  <2> DEFINE r == [local[p] EXCEPT !.todo = t, !.job = c]
  <2>3. /\ r.others = local[p].others /\ r.visit = local[p].visit
        /\ r.reading = local[p].reading /\ r.todo = t /\ r.job = c
        /\ r.prod = local[p].prod /\ r.dir = local[p].dir
        /\ r.holding = local[p].holding
    BY <1>2 DEF Local
  <2> HIDE DEF r
  <2>4. LocalIs(p, r.others, r.visit, r.reading, r.todo, r.job, r.prod, r.dir, r.holding)
    BY <2>1, <2>2, SetLocalIs DEF r
  <2>5. LocalIs(p, local[p].others, local[p].visit, local[p].reading, t, c, local[p].prod,
                local[p].dir, local[p].holding)
    BY <2>3, <2>4
  <2>6. At(p, "consume", "request")
    BY <1>1, <1>2, <1>5, GotoIs DEF Goto
  <2>7. QED BY <1>5, <2>5, <2>6 DEF Take, c, t
<1>6. QED BY <1>4, <1>5

LEMMA ConsumeDoneLocal ==
  ASSUME TypeOK, NEW p \in Peers, ConsumeDone(p)
  PROVE  LET l == local[p] IN
           /\ Goto(p, "consume", IF l.holding THEN "newPeer" ELSE IF l.reading = None THEN "idle" ELSE "visit")
           /\ LocalIs(p, l.others, l.visit, None, l.todo, l.job, None, l.dir, FALSE)
<1> DEFINE r == [local[p] EXCEPT !.reading = None, !.prod = None, !.holding = FALSE]
<1>1. local[p] \in Local
  BY DEF TypeOK
<1>2. r \in Local
  BY <1>1, LocalFields
<1>3. SetLocal(p, r) /\ Goto(p, "consume", IF local[p].holding THEN "newPeer" ELSE IF local[p].reading = None THEN "idle" ELSE "visit")
  BY DEF ConsumeDone
<1>4. QED BY <1>1, <1>2, <1>3, SetLocalIs DEF LocalIs, Local

LEMMA ConsumeAnsweredLocal ==
  ASSUME TypeOK, NEW p \in Peers, ConsumeAnswered(p), reply[p] # "ok"
  PROVE  LET l == local[p] IN
           /\ Goto(p, "consuming", "leave")
           /\ LocalIs(p, {}, {}, None, {}, None, None, None, FALSE)
<1> DEFINE r == Nothing
<1>1. local[p] \in Local
  BY DEF TypeOK
<1>2. r \in Local
  BY <1>1, LocalFields
<1>3. SetLocal(p, r) /\ Goto(p, "consuming", "leave")
  BY DEF ConsumeAnswered
<1>4. QED BY <1>1, <1>2, <1>3, SetLocalIs DEF LocalIs, Local, Nothing

LEMMA TellLocal ==
  ASSUME TypeOK, NEW p \in Peers, Tell(p)
  PROVE  LET l == local[p] IN
           /\ Goto(p, "tell", "consume")
           /\ LocalIs(p, l.others, l.visit, l.reading, l.todo, None, l.prod, l.dir, l.holding)
<1> DEFINE r == [local[p] EXCEPT !.job = None]
<1>1. local[p] \in Local
  BY DEF TypeOK
<1>2. r \in Local
  BY <1>1, LocalFields
<1>3. SetLocal(p, r) /\ Goto(p, "tell", "consume")
  BY DEF Tell
<1>4. QED BY <1>1, <1>2, <1>3, SetLocalIs DEF LocalIs, Local

LEMMA ProduceLocal ==
  ASSUME TypeOK, NEW p \in Peers, NEW m \in Producers, Produce(p, m)
  PROVE  LET l == local[p] IN
           /\ Goto(p, "idle", "producing")
           /\ LocalIs(p, l.others, l.visit, l.reading, l.todo, l.job, m, l.dir, l.holding)
<1> DEFINE r == [local[p] EXCEPT !.prod = m]
<1>1. local[p] \in Local
  BY DEF TypeOK
<1>2. r \in Local
  BY <1>1, LocalFields
<1>3. SetLocal(p, r) /\ Goto(p, "idle", "producing")
  BY DEF Produce
<1>4. QED BY <1>1, <1>2, <1>3, SetLocalIs DEF LocalIs, Local

LEMMA AnnounceLocal ==
  ASSUME TypeOK, NEW p \in Peers, Announce(p), local[p].prod # None
  PROVE  LET l == local[p] IN
           /\ Goto(p, "announce", "consume")
           /\ LocalIs(p, l.others, l.visit, l.reading, JoinedPeers(p) \X {l.prod}, l.job, l.prod, l.dir, l.holding)
<1> DEFINE r == [local[p] EXCEPT !.todo = JoinedPeers(p) \X {local[p].prod}]
<1>1. local[p] \in Local /\ JoinedPeers(p) \X {local[p].prod} \in SUBSET (Peers \X Producers)
  BY DEF TypeOK, JoinedPeers, Local
<1>2. r \in Local
  BY <1>1, LocalFields
<1>3. SetLocal(p, r) /\ Goto(p, "announce", "consume")
  BY DEF Announce
<1>4. QED BY <1>1, <1>2, <1>3, SetLocalIs DEF LocalIs, Local

LEMMA ReplaceLocal ==
  ASSUME TypeOK, NEW p \in Peers, Replace(p)
  PROVE  LET l == local[p] IN
           /\ Goto(p, "share", "replacing")
           /\ LocalIs(p, l.others, l.visit, l.reading, l.todo, l.job, l.prod, l.dir, TRUE)
<1> DEFINE r == [local[p] EXCEPT !.holding = TRUE]
<1>1. local[p] \in Local
  BY DEF TypeOK
<1>2. r \in Local
  BY <1>1, LocalFields
<1>3. SetLocal(p, r) /\ Goto(p, "share", "replacing")
  BY DEF Replace
<1>4. QED BY <1>1, <1>2, <1>3, SetLocalIs DEF LocalIs, Local

LEMMA ReplaceAnsweredLocal ==
  ASSUME TypeOK, NEW p \in Peers, ReplaceAnswered(p)
  PROVE  LET l == local[p] IN
           /\ Goto(p, "replacing", IF reply[p] = "ok" THEN "announce" ELSE "leave")
           /\ IF reply[p] = "ok"
              THEN LocalIs(p, l.others, l.visit, l.reading, l.todo, l.job, l.prod, l.dir, FALSE)
              ELSE LocalIs(p, {}, {}, None, {}, None, None, None, FALSE)
<1>1. local[p] \in Local
  BY DEF TypeOK
<1>2. Goto(p, "replacing", IF reply[p] = "ok" THEN "announce" ELSE "leave")
  BY DEF ReplaceAnswered
<1>3. CASE reply[p] = "ok"
  <2>1. [local[p] EXCEPT !.holding = FALSE] \in Local
    BY <1>1, LocalFields
  <2>2. SetLocal(p, [local[p] EXCEPT !.holding = FALSE])
    BY <1>3 DEF ReplaceAnswered
  <2>3. LET l == local[p] IN LocalIs(p, l.others, l.visit, l.reading, l.todo, l.job, l.prod, l.dir, FALSE)
    BY <1>1, <2>1, <2>2, SetLocalIs DEF LocalIs, Local
  <2>4. QED BY <1>2, <1>3, <2>3
<1>4. CASE reply[p] # "ok"
  <2>1. Nothing \in Local
    BY <1>1, LocalFields
  <2>2. SetLocal(p, Nothing)
    BY <1>4 DEF ReplaceAnswered
  <2>3. LocalIs(p, {}, {}, None, {}, None, None, None, FALSE)
    BY <2>1, <2>2, SetLocalIs DEF LocalIs, Nothing
  <2>4. QED BY <1>2, <1>4, <2>3
<1>5. QED BY <1>3, <1>4

LEMMA CloseProducerLocal ==
  ASSUME TypeOK, NEW p \in Peers, NEW m \in Producers, CloseProducer(p, m)
  PROVE  LET l == local[p] IN
           /\ Goto(p, "idle", "closing")
           /\ LocalIs(p, l.others, l.visit, l.reading, l.todo, l.job, m, l.dir, l.holding)
<1> DEFINE r == [local[p] EXCEPT !.prod = m]
<1>1. local[p] \in Local
  BY DEF TypeOK
<1>2. r \in Local
  BY <1>1, LocalFields
<1>3. SetLocal(p, r) /\ Goto(p, "idle", "closing")
  BY DEF CloseProducer
<1>4. QED BY <1>1, <1>2, <1>3, SetLocalIs DEF LocalIs, Local

LEMMA CloseVideoLocal ==
  ASSUME TypeOK, NEW p \in Peers, NEW m \in Producers, CloseVideo(p, m)
  PROVE  LET l == local[p] IN
           /\ Goto(p, "idle", "detaching")
           /\ LocalIs(p, l.others, l.visit, l.reading, l.todo, l.job, l.prod, l.dir, TRUE)
<1> DEFINE r == [local[p] EXCEPT !.holding = TRUE]
<1>1. local[p] \in Local
  BY DEF TypeOK
<1>2. r \in Local
  BY <1>1, LocalFields
<1>3. SetLocal(p, r) /\ Goto(p, "idle", "detaching")
  BY DEF CloseVideo
<1>4. QED BY <1>1, <1>2, <1>3, SetLocalIs DEF LocalIs, Local

LEMMA VideoClosedLocal ==
  ASSUME TypeOK, NEW p \in Peers, VideoClosed(p)
  PROVE  LET l == local[p] IN
           /\ Goto(p, "detaching", IF reply[p] = "ok" THEN "idle" ELSE "leave")
           /\ IF reply[p] = "ok"
              THEN LocalIs(p, l.others, l.visit, l.reading, l.todo, l.job, l.prod, l.dir, FALSE)
              ELSE LocalIs(p, {}, {}, None, {}, None, None, None, FALSE)
<1>1. local[p] \in Local
  BY DEF TypeOK
<1>2. Goto(p, "detaching", IF reply[p] = "ok" THEN "idle" ELSE "leave")
  BY DEF VideoClosed
<1>3. CASE reply[p] = "ok"
  <2>1. [local[p] EXCEPT !.holding = FALSE] \in Local
    BY <1>1, LocalFields
  <2>2. SetLocal(p, [local[p] EXCEPT !.holding = FALSE])
    BY <1>3 DEF VideoClosed
  <2>3. LET l == local[p] IN LocalIs(p, l.others, l.visit, l.reading, l.todo, l.job, l.prod, l.dir, FALSE)
    BY <1>1, <2>1, <2>2, SetLocalIs DEF LocalIs, Local
  <2>4. QED BY <1>2, <1>3, <2>3
<1>4. CASE reply[p] # "ok"
  <2>1. Nothing \in Local
    BY <1>1, LocalFields
  <2>2. SetLocal(p, Nothing)
    BY <1>4 DEF VideoClosed
  <2>3. LocalIs(p, {}, {}, None, {}, None, None, None, FALSE)
    BY <2>1, <2>2, SetLocalIs DEF LocalIs, Nothing
  <2>4. QED BY <1>2, <1>4, <2>3
<1>5. QED BY <1>3, <1>4

\* A null pointer is used: there is no shared video, or no producer of such a kind.
NullStep(p, m) == CloseNull(p, m) \/ ProduceNull(p, m)

LEMMA NullStepLocal ==
  ASSUME TypeOK, NEW p \in Peers, NEW m \in Producers, NullStep(p, m)
  PROVE  LET l == local[p] IN
           pc[p] = "idle" /\ pc' = pc /\ LocalIs(p, l.others, l.visit, l.reading, l.todo, l.job, m, l.dir, l.holding)
<1>1. local[p] \in Local
  BY DEF TypeOK
<1>2. [local[p] EXCEPT !.prod = m] \in Local
  BY <1>1, LocalFields
<1>3. SetLocal(p, [local[p] EXCEPT !.prod = m]) /\ pc[p] = "idle" /\ pc' = pc
  BY DEF NullStep, CloseNull, ProduceNull
<1>4. QED BY <1>1, <1>2, <1>3, SetLocalIs DEF LocalIs, Local

LEMMA EraseLocal ==
  ASSUME TypeOK, NEW p \in Peers, Erase(p)
  PROVE  LET l == local[p] IN
           /\ Goto(p, "erase", "idle")
           /\ LocalIs(p, l.others, l.visit, l.reading, l.todo, l.job, None, l.dir, l.holding)
<1> DEFINE r == [local[p] EXCEPT !.prod = None]
<1>1. local[p] \in Local
  BY DEF TypeOK
<1>2. r \in Local
  BY <1>1, LocalFields
<1>3. SetLocal(p, r) /\ Goto(p, "erase", "idle")
  BY DEF Erase
<1>4. QED BY <1>1, <1>2, <1>3, SetLocalIs DEF LocalIs, Local

LEMMA LeaveSnapshotLocal ==
  ASSUME TypeOK, NEW p \in Peers, LeaveSnapshot(p)
  PROVE  LET l == local[p] IN
           /\ Goto(p, "leave", "notify")
           /\ LocalIs(p, JoinedPeers(p), l.visit, l.reading, l.todo, l.job, l.prod, l.dir, l.holding)
<1> DEFINE r == [local[p] EXCEPT !.others = JoinedPeers(p)]
<1>1. local[p] \in Local /\ JoinedPeers(p) \in SUBSET Peers
  BY DEF TypeOK, JoinedPeers
<1>2. r \in Local
  BY <1>1, LocalFields
<1>3. SetLocal(p, r) /\ Goto(p, "leave", "notify")
  BY DEF LeaveSnapshot
<1>4. QED BY <1>1, <1>2, <1>3, SetLocalIs DEF LocalIs, Local

LEMMA LeaveNotifyLocal ==
  ASSUME TypeOK, NEW p \in Peers, LeaveNotify(p)
  PROVE  LET l == local[p] IN
           /\ Goto(p, "notify", "transports")
           /\ LocalIs(p, {}, {}, None, {}, None, None, None, FALSE)
<1> DEFINE r == Nothing
<1>1. local[p] \in Local
  BY DEF TypeOK
<1>2. r \in Local
  BY <1>1, LocalFields
<1>3. SetLocal(p, r) /\ Goto(p, "notify", "transports")
  BY DEF LeaveNotify
<1>4. QED BY <1>1, <1>2, <1>3, SetLocalIs DEF LocalIs, Local, Nothing

LEMMA CloseTransportLocal ==
  ASSUME TypeOK, NEW p \in Peers, NEW d \in Directions, CloseTransport(p, d)
  PROVE  LET l == local[p] IN
           /\ Goto(p, "transports", "transport")
           /\ LocalIs(p, l.others, l.visit, l.reading, l.todo, l.job, l.prod, d, l.holding)
<1> DEFINE r == [local[p] EXCEPT !.dir = d]
<1>1. local[p] \in Local
  BY DEF TypeOK
<1>2. r \in Local
  BY <1>1, LocalFields
<1>3. SetLocal(p, r) /\ Goto(p, "transports", "transport")
  BY DEF CloseTransport
<1>4. QED BY <1>1, <1>2, <1>3, SetLocalIs DEF LocalIs, Local

LEMMA TransportAnsweredLocal ==
  ASSUME TypeOK, NEW p \in Peers, TransportAnswered(p)
  PROVE  LET l == local[p] IN
           /\ Goto(p, "transport", "transports")
           /\ LocalIs(p, l.others, l.visit, l.reading, l.todo, l.job, l.prod, None, l.holding)
<1> DEFINE r == [local[p] EXCEPT !.dir = None]
<1>1. local[p] \in Local
  BY DEF TypeOK
<1>2. r \in Local
  BY <1>1, LocalFields
<1>3. SetLocal(p, r) /\ Goto(p, "transport", "transports")
  BY DEF TransportAnswered
<1>4. QED BY <1>1, <1>2, <1>3, SetLocalIs DEF LocalIs, Local

JoinStep(p) ==
  \/ Join(p) \/ JoinSnapshot(p) \/ JoinAccept(p) \/ Visit(p) \/ JoinSharing(p)
  \/ JoinDone(p)

ConsumeStep(p) ==
  \/ CanConsume(p) \/ ConsumeDone(p) \/ ConsumeNull(p) \/ Consume(p)
  \/ ConsumeAnswered(p) \/ Emplace(p) \/ Tell(p)

ProduceStep(p) ==
  \/ (\E m \in Producers : Produce(p, m)) \/ ProduceAnswered(p) \/ Store(p)
  \/ Announce(p) \/ Replace(p) \/ ReplaceAnswered(p) \/ Attach(p)

CloseStep(p) ==
  \/ (\E m \in Producers : CloseProducer(p, m))
  \/ (\E m \in Producers : CloseVideo(p, m)) \/ VideoClosed(p)
  \/ (\E m \in Producers : DetachClosed(p, m))
  \/ (\E m \in Producers : NullStep(p, m)) \/ CloseAnswered(p) \/ Erase(p)

LeaveStep(p) ==
  \/ Leave(p) \/ LeaveSnapshot(p) \/ LeaveNotify(p)
  \/ (\E d \in Directions : CloseTransport(p, d)) \/ TransportAnswered(p)
  \/ RemovePeer(p)

LEMMA JoinHand ==
  ASSUME TypeOK, HandInv, NEW p \in Peers, JoinStep(p)
  PROVE  HandInv'
<1>1. CASE Join(p)
  <2>1. At(p, "idle", "caps") /\ local' = local
    BY <1>1, GotoIs DEF Join
  <2>2. UNCHANGED <<videos, made, producers>>
    BY <1>1 DEF Join, roomVars, sharing, workerVars, clientVars, history, clientDid
  <2>3. QED BY <2>1, <2>2 DEF HandInv, Creating, Creates, LocalIs, At
<1>2. CASE JoinSnapshot(p)
  <2>1. /\ At(p, "caps", "accept")
        /\ LocalIs(p, JoinedPeers(p), JoinedPeers(p), local[p].reading, local[p].todo,
                   local[p].job, local[p].prod, local[p].dir, local[p].holding)
    BY <1>2, JoinSnapshotLocal, GotoIs
  <2>2. UNCHANGED <<videos, made, producers>>
    BY <1>2 DEF JoinSnapshot, roomVars, sharing, workerVars, clientVars, history, clientDid
  <2>3. QED BY <2>1, <2>2 DEF HandInv, Creating, Creates, LocalIs, At
<1>3. CASE JoinAccept(p)
  <2>1. At(p, "accept", "visit") /\ local' = local
    BY <1>3, GotoIs DEF JoinAccept
  <2>2. UNCHANGED <<videos, made, producers>>
    BY <1>3 DEF JoinAccept, roomVars, sharing, workerVars, clientVars, history, clientDid
  <2>3. QED BY <2>1, <2>2 DEF HandInv, Creating, Creates, LocalIs, At
<1>4. ASSUME Visit(p), NEW q \in local[p].visit, Visits(p, q) PROVE HandInv'
  <2>2. UNCHANGED <<videos, made, producers>>
    BY <1>4 DEF Visit, roomVars, sharing, workerVars, clientVars, history, clientDid
  <2>3. QED BY <1>4, <2>2 DEF HandInv, Creating, Creates, LocalIs, At, Visits
<1>5. CASE JoinSharing(p) /\ VideoShared
  <2>1. /\ At(p, "visit", "consume")
        /\ LocalIs(p, local[p].others, local[p].visit, local[p].reading, {<<p,
                   shared>>}, local[p].job, local[p].prod, local[p].dir, TRUE)
    BY <1>5, JoinSharingLocal, GotoIs
  <2>2. UNCHANGED <<videos, made, producers>>
    BY <1>5 DEF JoinSharing, roomVars, sharing, workerVars, clientVars, history, clientDid
  <2>3. QED BY <2>1, <2>2 DEF HandInv, Creating, Creates, LocalIs, At
<1>6. CASE JoinSharing(p) /\ ~VideoShared
  <2>1. At(p, "visit", "newPeer") /\ local' = local
    BY <1>6, GotoIs DEF JoinSharing
  <2>2. UNCHANGED <<videos, made, producers>>
    BY <1>6 DEF JoinSharing, roomVars, sharing, workerVars, clientVars, history, clientDid
  <2>3. QED BY <2>1, <2>2 DEF HandInv, Creating, Creates, LocalIs, At
<1>7. CASE JoinDone(p)
  <2>1. /\ At(p, "newPeer", "idle")
        /\ LocalIs(p, {}, {}, None, {}, None, None, None, FALSE)
    BY <1>7, JoinDoneLocal, GotoIs
  <2>2. UNCHANGED <<videos, made, producers>>
    BY <1>7 DEF JoinDone, roomVars, sharing, workerVars, clientVars, history, clientDid
  <2>3. QED BY <2>1, <2>2 DEF HandInv, Creating, Creates, LocalIs, At
<1>8. QED BY <1>1, <1>2, <1>3, <1>4, <1>5, <1>6, <1>7, VisitLocal DEF JoinStep

LEMMA ConsumeHand ==
  ASSUME TypeOK, HandInv, NEW p \in Peers, ConsumeStep(p)
  PROVE  HandInv'
<1>1. ASSUME CanConsume(p), NEW w \in local[p].todo, Skip(p, w) PROVE HandInv'
  <2>2. UNCHANGED <<videos, made, producers>>
    BY <1>1 DEF CanConsume, roomVars, sharing, workerVars, clientVars, history, clientDid
  <2>3. QED BY <1>1, <2>2 DEF HandInv, Creating, Creates, LocalIs, At, Skip
<1>2. ASSUME CanConsume(p), NEW w \in local[p].todo, Take(p, w) PROVE HandInv'
  <2>2. UNCHANGED <<videos, made, producers>>
    BY <1>2 DEF CanConsume, roomVars, sharing, workerVars, clientVars, history, clientDid
  <2>3. [peer |-> w[1], prod |-> w[2], maker |-> p] # None
    BY NoneAssumption, <1>2 DEF TypeOK, Local, Consumer
  <2>4. QED BY <1>2, <2>2, <2>3 DEF HandInv, Creating, Creates, LocalIs, At, Take
<1>3. CASE ConsumeDone(p)
  <2>1. /\ At(p, "consume", IF local[p].holding THEN "newPeer" ELSE IF local[p].reading = None THEN "idle" ELSE "visit")
        /\ LocalIs(p, local[p].others, local[p].visit, None, local[p].todo,
                   local[p].job, None, local[p].dir, FALSE)
    BY <1>3, ConsumeDoneLocal, GotoIs
  <2>2. UNCHANGED <<videos, made, producers>>
    BY <1>3 DEF ConsumeDone, roomVars, sharing, workerVars, clientVars, history, clientDid
  <2>3. QED BY <2>1, <2>2 DEF HandInv, Creating, Creates, LocalIs, At
<1>4. CASE ConsumeNull(p)
  <2>1. pc[p] = "request" /\ pc' = pc /\ local' = local
    BY <1>4 DEF ConsumeNull
  <2>2. UNCHANGED <<videos, made, producers>>
    BY <1>4 DEF ConsumeNull, roomVars, sharing, workerVars, clientVars, history, clientDid
  <2>3. QED BY <2>1, <2>2 DEF HandInv, Creating, Creates, LocalIs, At
<1>5. CASE Consume(p)
  <2>1. At(p, "request", "consuming") /\ local' = local
    BY <1>5, GotoIs DEF Consume
  <2>2. UNCHANGED <<videos, made, producers>>
    BY <1>5 DEF Consume, roomVars, sharing, workerVars, clientVars, history, clientDid
  <2>3. QED BY <2>1, <2>2 DEF HandInv, Creating, Creates, LocalIs, At
<1>6. CASE ConsumeAnswered(p) /\ reply[p] = "ok"
  <2>1. At(p, "consuming", "emplace") /\ local' = local
    BY <1>6, GotoIs DEF ConsumeAnswered
  <2>2. UNCHANGED <<videos, made, producers>>
    BY <1>6 DEF ConsumeAnswered, roomVars, sharing, workerVars, clientVars, history, clientDid
  <2>3. QED BY <2>1, <2>2 DEF HandInv, Creating, Creates, LocalIs, At
<1>7. CASE ConsumeAnswered(p) /\ reply[p] # "ok"
  <2>1. /\ At(p, "consuming", "leave")
        /\ LocalIs(p, {}, {}, None, {}, None, None, None, FALSE)
    BY <1>7, ConsumeAnsweredLocal, GotoIs
  <2>2. UNCHANGED <<videos, made, producers>>
    BY <1>7 DEF ConsumeAnswered, roomVars, sharing, workerVars, clientVars, history, clientDid
  <2>3. QED BY <2>1, <2>2 DEF HandInv, Creating, Creates, LocalIs, At
<1>8. CASE Emplace(p)
  <2>1. At(p, "emplace", "tell") /\ local' = local
    BY <1>8, GotoIs DEF Emplace
  <2>2. UNCHANGED <<videos, made, producers>>
    BY <1>8 DEF Emplace, roomVars, sharing, workerVars, clientVars, history, clientDid
  <2>3. QED BY <2>1, <2>2 DEF HandInv, Creating, Creates, LocalIs, At
<1>9. CASE Tell(p)
  <2>1. /\ At(p, "tell", "consume")
        /\ LocalIs(p, local[p].others, local[p].visit, local[p].reading, local[p].todo,
                   None, local[p].prod, local[p].dir, local[p].holding)
    BY <1>9, TellLocal, GotoIs
  <2>2. UNCHANGED <<videos, made, producers>>
    BY <1>9 DEF Tell, roomVars, sharing, workerVars, clientVars, history, clientDid
  <2>3. QED BY <2>1, <2>2 DEF HandInv, Creating, Creates, LocalIs, At
<1>10. QED BY <1>1, <1>2, <1>3, <1>4, <1>5, <1>6, <1>7, <1>8, <1>9,
              CanConsumeLocal DEF ConsumeStep

LEMMA ProduceHand ==
  ASSUME TypeOK, HandInv, NEW p \in Peers, ProduceStep(p)
  PROVE  HandInv'
<1>1. ASSUME NEW m \in Producers, Produce(p, m) PROVE HandInv'
  <2>1. /\ At(p, "idle", "producing")
        /\ LocalIs(p, local[p].others, local[p].visit, local[p].reading, local[p].todo,
                   local[p].job, m, local[p].dir, local[p].holding)
    BY <1>1, ProduceLocal, GotoIs
  <2>2. /\ videos \subseteq videos'
        /\ made' = made \cup {m}
        /\ UNCHANGED producers
    BY <1>1 DEF Produce, roomVars, sharing, workerVars, clientVars, history, clientDid
  <2>3. QED BY <2>1, <2>2, NoneAssumption DEF HandInv, Creating, Creates, LocalIs, At
<1>2. CASE ProduceAnswered(p)
  <2>1. At(p, "producing", IF local[p].prod \in videos THEN "share" ELSE "store") /\ local' = local
    BY <1>2, GotoIs DEF ProduceAnswered
  <2>2. UNCHANGED <<videos, made, producers>>
    BY <1>2 DEF ProduceAnswered, roomVars, sharing, workerVars, clientVars, history, clientDid
  <2>3. QED BY <2>1, <2>2 DEF HandInv, Creating, Creates, LocalIs, At
<1>3. CASE Store(p)
  <2>1. At(p, "store", "announce") /\ local' = local
    BY <1>3, GotoIs DEF Store
  <2>2. /\ producers' = [producers EXCEPT ![p] = @ \cup {local[p].prod}]
        /\ UNCHANGED <<videos, made>>
    BY <1>3 DEF Store, roomVars, sharing, workerVars, clientVars, history, clientDid
  <2>3. QED BY <2>1, <2>2 DEF HandInv, Creating, Creates, LocalIs, At, TypeOK
<1>4. CASE Announce(p)
  <2>0. local[p].prod # None
    BY <1>4 DEF Announce, HandInv, Creates, Goto
  <2>1. /\ At(p, "announce", "consume")
        /\ LocalIs(p, local[p].others, local[p].visit, local[p].reading,
                   JoinedPeers(p) \X {local[p].prod}, local[p].job, local[p].prod,
                   local[p].dir, local[p].holding)
    BY <1>4, AnnounceLocal, GotoIs, <2>0
  <2>2. UNCHANGED <<videos, made, producers>>
    BY <1>4 DEF Announce, roomVars, sharing, workerVars, clientVars, history, clientDid
  <2>3. QED BY <2>1, <2>2 DEF HandInv, Creating, Creates, LocalIs, At
<1>5. CASE Replace(p)
  <2>1. /\ At(p, "share", "replacing")
        /\ LocalIs(p, local[p].others, local[p].visit, local[p].reading, local[p].todo,
                   local[p].job, local[p].prod, local[p].dir, TRUE)
    BY <1>5, ReplaceLocal, GotoIs
  <2>2. UNCHANGED <<videos, made, producers>>
    BY <1>5 DEF Replace, roomVars, sharing, workerVars, clientVars, history, clientDid
  <2>3. QED BY <2>1, <2>2 DEF HandInv, Creating, Creates, LocalIs, At
<1>6. CASE ReplaceAnswered(p) /\ reply[p] = "ok"
  <2>1. /\ At(p, "replacing", "announce")
        /\ LocalIs(p, local[p].others, local[p].visit, local[p].reading, local[p].todo,
                   local[p].job, local[p].prod, local[p].dir, FALSE)
    BY <1>6, ReplaceAnsweredLocal, GotoIs
  <2>2. UNCHANGED <<videos, made, producers>>
    BY <1>6 DEF ReplaceAnswered, roomVars, sharing, workerVars, clientVars, history, clientDid
  <2>3. QED BY <2>1, <2>2 DEF HandInv, Creating, Creates, LocalIs, At
<1>7. CASE ReplaceAnswered(p) /\ reply[p] # "ok"
  <2>1. /\ At(p, "replacing", "leave")
        /\ LocalIs(p, {}, {}, None, {}, None, None, None, FALSE)
    BY <1>7, ReplaceAnsweredLocal, GotoIs
  <2>2. UNCHANGED <<videos, made, producers>>
    BY <1>7 DEF ReplaceAnswered, roomVars, sharing, workerVars, clientVars, history, clientDid
  <2>3. QED BY <2>1, <2>2 DEF HandInv, Creating, Creates, LocalIs, At
<1>8. CASE Attach(p)
  <2>1. At(p, "share", "announce") /\ local' = local
    BY <1>8, GotoIs DEF Attach
  <2>2. UNCHANGED <<videos, made, producers>>
    BY <1>8 DEF Attach, roomVars, sharing, workerVars, clientVars, history, clientDid
  <2>3. QED BY <2>1, <2>2 DEF HandInv, Creating, Creates, LocalIs, At
<1>9. QED BY <1>1, <1>2, <1>3, <1>4, <1>5, <1>6, <1>7, <1>8 DEF ProduceStep

LEMMA CloseHand ==
  ASSUME TypeOK, HandInv, NEW p \in Peers, CloseStep(p)
  PROVE  HandInv'
<1>1. ASSUME NEW m \in Producers, CloseProducer(p, m) PROVE HandInv'
  <2>1. /\ At(p, "idle", "closing")
        /\ LocalIs(p, local[p].others, local[p].visit, local[p].reading, local[p].todo,
                   local[p].job, m, local[p].dir, local[p].holding)
    BY <1>1, CloseProducerLocal, GotoIs
  <2>2. UNCHANGED <<videos, made, producers>>
    BY <1>1 DEF CloseProducer, roomVars, sharing, workerVars, clientVars, history, clientDid
  <2>3. QED BY <2>1, <2>2, NoneAssumption DEF HandInv, Creating, Creates, LocalIs, At
<1>2. ASSUME NEW m \in Producers, CloseVideo(p, m) PROVE HandInv'
  <2>1. /\ At(p, "idle", "detaching")
        /\ LocalIs(p, local[p].others, local[p].visit, local[p].reading, local[p].todo,
                   local[p].job, local[p].prod, local[p].dir, TRUE)
    BY <1>2, CloseVideoLocal, GotoIs
  <2>2. UNCHANGED <<videos, made, producers>>
    BY <1>2 DEF CloseVideo, roomVars, sharing, workerVars, clientVars, history, clientDid
  <2>3. QED BY <2>1, <2>2 DEF HandInv, Creating, Creates, LocalIs, At
<1>3. CASE VideoClosed(p) /\ reply[p] = "ok"
  <2>1. /\ At(p, "detaching", "idle")
        /\ LocalIs(p, local[p].others, local[p].visit, local[p].reading, local[p].todo,
                   local[p].job, local[p].prod, local[p].dir, FALSE)
    BY <1>3, VideoClosedLocal, GotoIs
  <2>2. UNCHANGED <<videos, made, producers>>
    BY <1>3 DEF VideoClosed, roomVars, sharing, workerVars, clientVars, history, clientDid
  <2>3. QED BY <2>1, <2>2 DEF HandInv, Creating, Creates, LocalIs, At
<1>4. ASSUME NEW m \in Producers, NullStep(p, m) PROVE HandInv'
  <2>1. /\ pc[p] = "idle" /\ pc' = pc
        /\ LocalIs(p, local[p].others, local[p].visit, local[p].reading, local[p].todo,
                   local[p].job, m, local[p].dir, local[p].holding)
    BY <1>4, NullStepLocal, GotoIs
  <2>2. UNCHANGED <<videos, made, producers>>
    BY <1>4 DEF NullStep, CloseNull, ProduceNull, roomVars, sharing, workerVars, clientVars,
       history, clientDid
  <2>3. QED BY <2>1, <2>2 DEF HandInv, Creating, Creates, LocalIs, At
<1>5. CASE CloseAnswered(p)
  <2>1. At(p, "closing", "erase") /\ local' = local
    BY <1>5, GotoIs DEF CloseAnswered
  <2>2. UNCHANGED <<videos, made, producers>>
    BY <1>5 DEF CloseAnswered, roomVars, sharing, workerVars, clientVars, history, clientDid
  <2>3. QED BY <2>1, <2>2 DEF HandInv, Creating, Creates, LocalIs, At
<1>6. CASE Erase(p)
  <2>1. /\ At(p, "erase", "idle")
        /\ LocalIs(p, local[p].others, local[p].visit, local[p].reading, local[p].todo,
                   local[p].job, None, local[p].dir, local[p].holding)
    BY <1>6, EraseLocal, GotoIs
  <2>2. /\ producers' = [producers EXCEPT ![p] = @ \ {local[p].prod}]
        /\ UNCHANGED <<videos, made>>
    BY <1>6 DEF Erase, roomVars, sharing, workerVars, clientVars, history, clientDid
  <2>3. QED BY <2>1, <2>2 DEF HandInv, Creating, Creates, LocalIs, At, TypeOK
<1>7. CASE VideoClosed(p) /\ reply[p] # "ok"
  <2>1. /\ At(p, "detaching", "leave")
        /\ LocalIs(p, {}, {}, None, {}, None, None, None, FALSE)
    BY <1>7, VideoClosedLocal, GotoIs
  <2>2. UNCHANGED <<videos, made, producers>>
    BY <1>7 DEF VideoClosed, roomVars, sharing, workerVars, clientVars, history, clientDid
  <2>3. QED BY <2>1, <2>2 DEF HandInv, Creating, Creates, LocalIs, At
<1>8. ASSUME NEW m \in Producers, DetachClosed(p, m) PROVE HandInv'
  <2>1. pc[p] = "idle" /\ pc' = pc /\ local' = local
    BY <1>8 DEF DetachClosed
  <2>2. UNCHANGED <<videos, made, producers>>
    BY <1>8 DEF DetachClosed, roomVars, sharing, workerVars, clientVars, history, clientDid
  <2>3. QED BY <2>1, <2>2 DEF HandInv, Creating, Creates, LocalIs, At
<1>9. QED BY <1>1, <1>2, <1>3, <1>4, <1>5, <1>6, <1>7, <1>8 DEF CloseStep

LEMMA LeaveHand ==
  ASSUME TypeOK, HandInv, NEW p \in Peers, LeaveStep(p)
  PROVE  HandInv'
<1>1. CASE Leave(p)
  <2>1. At(p, "idle", "leave") /\ local' = local
    BY <1>1, GotoIs DEF Leave
  <2>2. UNCHANGED <<videos, made, producers>>
    BY <1>1 DEF Leave, roomVars, sharing, workerVars, clientVars, history, clientDid
  <2>3. QED BY <2>1, <2>2 DEF HandInv, Creating, Creates, LocalIs, At
<1>2. CASE LeaveSnapshot(p)
  <2>1. /\ At(p, "leave", "notify")
        /\ LocalIs(p, JoinedPeers(p), local[p].visit, local[p].reading, local[p].todo,
                   local[p].job, local[p].prod, local[p].dir, local[p].holding)
    BY <1>2, LeaveSnapshotLocal, GotoIs
  <2>2. UNCHANGED <<videos, made, producers>>
    BY <1>2 DEF LeaveSnapshot, roomVars, sharing, workerVars, clientVars, history, clientDid
  <2>3. QED BY <2>1, <2>2 DEF HandInv, Creating, Creates, LocalIs, At
<1>3. CASE LeaveNotify(p)
  <2>1. /\ At(p, "notify", "transports")
        /\ LocalIs(p, {}, {}, None, {}, None, None, None, FALSE)
    BY <1>3, LeaveNotifyLocal, GotoIs
  <2>2. UNCHANGED <<videos, made, producers>>
    BY <1>3 DEF LeaveNotify, roomVars, sharing, workerVars, clientVars, history, clientDid
  <2>3. QED BY <2>1, <2>2 DEF HandInv, Creating, Creates, LocalIs, At
<1>4. ASSUME NEW d \in Directions, CloseTransport(p, d) PROVE HandInv'
  <2>1. /\ At(p, "transports", "transport")
        /\ LocalIs(p, local[p].others, local[p].visit, local[p].reading, local[p].todo,
                   local[p].job, local[p].prod, d, local[p].holding)
    BY <1>4, CloseTransportLocal, GotoIs
  <2>2. UNCHANGED <<videos, made, producers>>
    BY <1>4 DEF CloseTransport, roomVars, sharing, workerVars, clientVars, history, clientDid
  <2>3. QED BY <2>1, <2>2 DEF HandInv, Creating, Creates, LocalIs, At
<1>5. CASE TransportAnswered(p)
  <2>1. /\ At(p, "transport", "transports")
        /\ LocalIs(p, local[p].others, local[p].visit, local[p].reading, local[p].todo,
                   local[p].job, local[p].prod, None, local[p].holding)
    BY <1>5, TransportAnsweredLocal, GotoIs
  <2>2. UNCHANGED <<videos, made, producers>>
    BY <1>5 DEF TransportAnswered, roomVars, sharing, workerVars, clientVars, history, clientDid
  <2>3. QED BY <2>1, <2>2 DEF HandInv, Creating, Creates, LocalIs, At
<1>6. CASE RemovePeer(p)
  <2>1. At(p, "transports", "gone") /\ local' = local
    BY <1>6, GotoIs DEF RemovePeer
  <2>2. UNCHANGED <<videos, made, producers>>
    BY <1>6 DEF RemovePeer, roomVars, sharing, workerVars, clientVars, history, clientDid
  <2>3. QED BY <2>1, <2>2 DEF HandInv, Creating, Creates, LocalIs, At
<1>7. QED BY <1>1, <1>2, <1>3, <1>4, <1>5, <1>6 DEF LeaveStep

LEMMA JoinType ==
  ASSUME TypeOK, HandInv, NEW p \in Peers, JoinStep(p)
  PROVE  TypeOK'
<1>1. CASE Join(p)
  <2>1. At(p, "idle", "caps") /\ local' = local
    BY <1>1, GotoIs DEF Join
  <2>2. /\ joined' = joined \cup {p}
        /\ UNCHANGED <<peerMap, producers, consumers, router, shared, closed, reply,
                       wTransports, wProducers, wConsumers, inbox, told, knows, made, videos,
                       ended, missed, ghosts, crashed>>
    BY <1>1 DEF Join, roomVars, sharing, workerVars, clientVars, history, clientDid
  <2>3. pc' \in [Peers -> PC]
    BY <1>1 DEF TypeOK, PC, Goto, Join
  <2>4. QED BY <2>1, <2>2, <2>3 DEF TypeOK, LocalIs
<1>2. CASE JoinSnapshot(p)
  <2>1. /\ At(p, "caps", "accept")
        /\ LocalIs(p, JoinedPeers(p), JoinedPeers(p), local[p].reading, local[p].todo,
                   local[p].job, local[p].prod, local[p].dir, local[p].holding)
    BY <1>2, JoinSnapshotLocal, GotoIs
  <2>2. UNCHANGED <<peerMap, joined, producers, consumers, router, shared, closed, reply,
                    wTransports, wProducers, wConsumers, inbox, told, knows, made, videos,
                    ended, missed, ghosts, crashed>>
    BY <1>2 DEF JoinSnapshot, roomVars, sharing, workerVars, clientVars, history, clientDid
  <2>3. pc' \in [Peers -> PC]
    BY <1>2 DEF TypeOK, PC, Goto, JoinSnapshot
  <2>4. QED BY <2>1, <2>2, <2>3 DEF TypeOK, LocalIs
<1>3. CASE JoinAccept(p)
  <2>1. At(p, "accept", "visit") /\ local' = local
    BY <1>3, GotoIs DEF JoinAccept
  <2>2. /\ knows' = [knows EXCEPT ![p] = @ \cup local[p].others]
        /\ ghosts' \subseteq ghosts \cup (Peers \X Peers)
        /\ UNCHANGED <<peerMap, joined, producers, consumers, router, shared, closed, reply,
                       wTransports, wProducers, wConsumers, inbox, told, made, videos, ended,
                       missed, crashed>>
    BY <1>3 DEF JoinAccept, TypeOK, Local, roomVars, sharing, workerVars, clientVars,
       history, clientDid
  <2>3. pc' \in [Peers -> PC]
    BY <1>3 DEF TypeOK, PC, Goto, JoinAccept
  <2>4. local[p].others \in SUBSET Peers
    BY DEF TypeOK, Local
  <2>5. QED BY <2>1, <2>2, <2>3, <2>4 DEF TypeOK, LocalIs
<1>4. ASSUME Visit(p), NEW q \in local[p].visit, Visits(p, q) PROVE TypeOK'
  <2>2. UNCHANGED <<peerMap, joined, producers, consumers, router, shared, closed, reply,
                    wTransports, wProducers, wConsumers, inbox, told, knows, made, videos,
                    ended, missed, ghosts, crashed>>
    BY <1>4 DEF Visit, roomVars, sharing, workerVars, clientVars, history, clientDid
  <2>3. pc' \in [Peers -> PC]
    BY <1>4 DEF TypeOK, PC, Goto, Visit
  <2>4. QED BY <1>4, <2>2, <2>3 DEF TypeOK, LocalIs, Visits
<1>5. CASE JoinSharing(p) /\ VideoShared
  <2>1. /\ At(p, "visit", "consume")
        /\ LocalIs(p, local[p].others, local[p].visit, local[p].reading, {<<p,
                   shared>>}, local[p].job, local[p].prod, local[p].dir, TRUE)
    BY <1>5, JoinSharingLocal, GotoIs
  <2>2. UNCHANGED <<peerMap, joined, producers, consumers, router, shared, closed, reply,
                    wTransports, wProducers, wConsumers, inbox, told, knows, made, videos,
                    ended, missed, ghosts, crashed>>
    BY <1>5 DEF JoinSharing, roomVars, sharing, workerVars, clientVars, history, clientDid
  <2>3. pc' \in [Peers -> PC]
    BY <1>5 DEF TypeOK, PC, Goto, JoinSharing
  <2>4. QED BY <2>1, <2>2, <2>3 DEF TypeOK, LocalIs
<1>6. CASE JoinSharing(p) /\ ~VideoShared
  <2>1. At(p, "visit", "newPeer") /\ local' = local
    BY <1>6, GotoIs DEF JoinSharing
  <2>2. UNCHANGED <<peerMap, joined, producers, consumers, router, shared, closed, reply,
                    wTransports, wProducers, wConsumers, inbox, told, knows, made, videos,
                    ended, missed, ghosts, crashed>>
    BY <1>6 DEF JoinSharing, roomVars, sharing, workerVars, clientVars, history, clientDid
  <2>3. pc' \in [Peers -> PC]
    BY <1>6 DEF TypeOK, PC, Goto, JoinSharing
  <2>4. QED BY <2>1, <2>2, <2>3 DEF TypeOK, LocalIs
<1>7. CASE JoinDone(p)
  <2>1. /\ At(p, "newPeer", "idle")
        /\ LocalIs(p, {}, {}, None, {}, None, None, None, FALSE)
    BY <1>7, JoinDoneLocal, GotoIs
  <2>2. /\ knows' = [q \in Peers |-> IF q \in local[p].others THEN knows[q] \cup {p} ELSE knows[q]]
        /\ UNCHANGED <<peerMap, joined, producers, consumers, router, shared, closed, reply,
                       wTransports, wProducers, wConsumers, inbox, told, made, videos, ended,
                       missed, ghosts, crashed>>
    BY <1>7 DEF JoinDone, roomVars, sharing, workerVars, clientVars, history, clientDid
  <2>3. pc' \in [Peers -> PC]
    BY <1>7 DEF TypeOK, PC, Goto, JoinDone
  <2>4. QED BY <2>1, <2>2, <2>3 DEF TypeOK, LocalIs
<1>8. QED BY <1>1, <1>2, <1>3, <1>4, <1>5, <1>6, <1>7, VisitLocal DEF JoinStep

LEMMA ConsumeType ==
  ASSUME TypeOK, HandInv, NEW p \in Peers, ConsumeStep(p)
  PROVE  TypeOK'
<1>1. ASSUME CanConsume(p), NEW w \in local[p].todo, Skip(p, w) PROVE TypeOK'
  <2>2. UNCHANGED <<peerMap, joined, producers, consumers, router, shared, closed, reply,
                    wTransports, wProducers, wConsumers, inbox, told, knows, made, videos,
                    ended, missed, ghosts, crashed>>
    BY <1>1 DEF CanConsume, roomVars, sharing, workerVars, clientVars, history, clientDid
  <2>3. pc' \in [Peers -> PC]
    BY <1>1 DEF TypeOK, PC, CanConsume
  <2>4. QED BY <1>1, <2>2, <2>3 DEF TypeOK, LocalIs, Skip
<1>2. ASSUME CanConsume(p), NEW w \in local[p].todo, Take(p, w) PROVE TypeOK'
  <2>2. UNCHANGED <<peerMap, joined, producers, consumers, router, shared, closed, reply,
                    wTransports, wProducers, wConsumers, inbox, told, knows, made, videos,
                    ended, missed, ghosts, crashed>>
    BY <1>2 DEF CanConsume, roomVars, sharing, workerVars, clientVars, history, clientDid
  <2>3. pc' \in [Peers -> PC]
    BY <1>2 DEF TypeOK, PC, CanConsume
  <2>4. QED BY <1>2, <2>2, <2>3 DEF TypeOK, LocalIs, Take
<1>3. CASE ConsumeDone(p)
  <2>1. /\ At(p, "consume", IF local[p].holding THEN "newPeer" ELSE IF local[p].reading = None THEN "idle" ELSE "visit")
        /\ LocalIs(p, local[p].others, local[p].visit, None, local[p].todo,
                   local[p].job, None, local[p].dir, FALSE)
    BY <1>3, ConsumeDoneLocal, GotoIs
  <2>2. UNCHANGED <<peerMap, joined, producers, consumers, router, shared, closed, reply,
                    wTransports, wProducers, wConsumers, inbox, told, knows, made, videos,
                    ended, missed, ghosts, crashed>>
    BY <1>3 DEF ConsumeDone, roomVars, sharing, workerVars, clientVars, history, clientDid
  <2>3. pc' \in [Peers -> PC]
    BY <1>3 DEF TypeOK, PC, Goto, ConsumeDone
  <2>4. QED BY <2>1, <2>2, <2>3 DEF TypeOK, LocalIs
<1>4. CASE ConsumeNull(p)
  <2>1. pc[p] = "request" /\ pc' = pc /\ local' = local
    BY <1>4 DEF ConsumeNull
  <2>2. /\ crashed' = p
        /\ UNCHANGED <<peerMap, joined, producers, consumers, router, shared, closed, reply,
                       wTransports, wProducers, wConsumers, inbox, told, knows, made, videos,
                       ended, missed, ghosts>>
    BY <1>4 DEF ConsumeNull, roomVars, sharing, workerVars, clientVars, history, clientDid
  <2>3. pc' \in [Peers -> PC]
    BY <1>4 DEF TypeOK, PC, ConsumeNull
  <2>4. QED BY <2>1, <2>2, <2>3 DEF TypeOK, LocalIs
<1>5. CASE Consume(p)
  <2>1. At(p, "request", "consuming") /\ local' = local
    BY <1>5, GotoIs DEF Consume
  <2>2. /\ wConsumers' \in {wConsumers, wConsumers \cup {local[p].job}}
        /\ UNCHANGED <<peerMap, joined, producers, consumers, router, shared, closed, reply,
                       wTransports, wProducers, told, knows, made, videos, ended, missed,
                       ghosts, crashed>>
    BY <1>5 DEF Consume, roomVars, sharing, workerVars, clientVars, history, clientDid
  <2>3. pc' \in [Peers -> PC]
    BY <1>5 DEF TypeOK, PC, Goto, Consume
  <2>4. Respond(p, {}, <<local[p].job.peer, "recv">> \in wTransports /\ local[p].job.prod \in wProducers)
    BY <1>5 DEF Consume
  <2>5. inbox' \in Seq(Message)
    BY <2>4, RespondEffect DEF TypeOK
  <2>6. local[p].job \in Consumer
    BY <1>5 DEF Consume, TypeOK, Local
  <2>7. QED BY <2>1, <2>2, <2>3, <2>4, <2>5, <2>6 DEF TypeOK, LocalIs
<1>6. CASE ConsumeAnswered(p) /\ reply[p] = "ok"
  <2>1. At(p, "consuming", "emplace") /\ local' = local
    BY <1>6, GotoIs DEF ConsumeAnswered
  <2>2. /\ reply' = [reply EXCEPT ![p] = "none"]
        /\ UNCHANGED <<peerMap, joined, producers, consumers, router, shared, closed,
                       wTransports, wProducers, wConsumers, inbox, told, knows, made, videos,
                       ended, missed, ghosts, crashed>>
    BY <1>6 DEF ConsumeAnswered, Answered, roomVars, sharing, workerVars, clientVars,
       history, clientDid
  <2>3. pc' \in [Peers -> PC]
    BY <1>6 DEF TypeOK, PC, Goto, ConsumeAnswered
  <2>4. QED BY <2>1, <2>2, <2>3 DEF TypeOK, LocalIs
<1>7. CASE ConsumeAnswered(p) /\ reply[p] # "ok"
  <2>1. /\ At(p, "consuming", "leave")
        /\ LocalIs(p, {}, {}, None, {}, None, None, None, FALSE)
    BY <1>7, ConsumeAnsweredLocal, GotoIs
  <2>2. /\ reply' = [reply EXCEPT ![p] = "none"]
        /\ UNCHANGED <<peerMap, joined, producers, consumers, router, shared, closed,
                       wTransports, wProducers, wConsumers, inbox, told, knows, made, videos,
                       ended, missed, ghosts, crashed>>
    BY <1>7 DEF ConsumeAnswered, Answered, roomVars, sharing, workerVars, clientVars,
       history, clientDid
  <2>3. pc' \in [Peers -> PC]
    BY <1>7 DEF TypeOK, PC, Goto, ConsumeAnswered
  <2>4. QED BY <2>1, <2>2, <2>3 DEF TypeOK, LocalIs
<1>8. CASE Emplace(p)
  <2>1. At(p, "emplace", "tell") /\ local' = local
    BY <1>8, GotoIs DEF Emplace
  <2>2. /\ consumers' = [consumers EXCEPT ![local[p].job.peer] = @ \cup {local[p].job}]
        /\ UNCHANGED <<peerMap, joined, producers, router, shared, closed, reply,
                       wTransports, wProducers, wConsumers, inbox, told, knows, made, videos,
                       ended, missed, ghosts, crashed>>
    BY <1>8 DEF Emplace, roomVars, sharing, workerVars, clientVars, history, clientDid
  <2>3. pc' \in [Peers -> PC]
    BY <1>8 DEF TypeOK, PC, Goto, Emplace
  <2>4. local[p].job \in Consumer
    BY <1>8 DEF Emplace, TypeOK, Local, HandInv, Creating, Goto
  <2>5. QED BY <2>1, <2>2, <2>3, <2>4 DEF TypeOK, LocalIs, Consumer
<1>9. CASE Tell(p)
  <2>1. /\ At(p, "tell", "consume")
        /\ LocalIs(p, local[p].others, local[p].visit, local[p].reading, local[p].todo,
                   None, local[p].prod, local[p].dir, local[p].holding)
    BY <1>9, TellLocal, GotoIs
  <2>2. /\ told' = [told EXCEPT ![local[p].job.peer] = @ \cup {local[p].job}]
        /\ UNCHANGED <<peerMap, joined, producers, consumers, router, shared, closed, reply,
                       wTransports, wProducers, wConsumers, inbox, knows, made, videos,
                       ended, missed, ghosts, crashed>>
    BY <1>9 DEF Tell, roomVars, sharing, workerVars, clientVars, history, clientDid
  <2>3. pc' \in [Peers -> PC]
    BY <1>9 DEF TypeOK, PC, Goto, Tell
  <2>4. local[p].job \in Consumer
    BY <1>9 DEF Tell, TypeOK, Local, HandInv, Creating, Goto
  <2>5. QED BY <2>1, <2>2, <2>3, <2>4 DEF TypeOK, LocalIs, Consumer
<1>10. QED BY <1>1, <1>2, <1>3, <1>4, <1>5, <1>6, <1>7, <1>8, <1>9,
              CanConsumeLocal DEF ConsumeStep

LEMMA ProduceType ==
  ASSUME TypeOK, HandInv, NEW p \in Peers, ProduceStep(p)
  PROVE  TypeOK'
<1>1. ASSUME NEW m \in Producers, Produce(p, m) PROVE TypeOK'
  <2>1. /\ At(p, "idle", "producing")
        /\ LocalIs(p, local[p].others, local[p].visit, local[p].reading, local[p].todo,
                   local[p].job, m, local[p].dir, local[p].holding)
    BY <1>1, ProduceLocal, GotoIs
  <2>2. /\ videos' \in {videos} \cup {videos \cup {m} : x \in Shareable \cap {m}}
        /\ wProducers' = wProducers \cup {m}
        /\ made' = made \cup {m}
        /\ UNCHANGED <<peerMap, joined, producers, consumers, router, shared, closed, reply,
                       wTransports, wConsumers, told, knows, ended, missed, ghosts, crashed>>
    BY <1>1 DEF Produce, roomVars, sharing, workerVars, clientVars, history, clientDid
  <2>3. pc' \in [Peers -> PC]
    BY <1>1 DEF TypeOK, PC, Goto, Produce
  <2>4. Respond(p, {}, TRUE)
    BY <1>1 DEF Produce
  <2>5. inbox' \in Seq(Message)
    BY <2>4, RespondEffect DEF TypeOK
  <2>6. QED BY <2>1, <2>2, <2>3, <2>4, <2>5 DEF TypeOK, LocalIs
<1>2. CASE ProduceAnswered(p)
  <2>1. At(p, "producing", IF local[p].prod \in videos THEN "share" ELSE "store") /\ local' = local
    BY <1>2, GotoIs DEF ProduceAnswered
  <2>2. /\ reply' = [reply EXCEPT ![p] = "none"]
        /\ router' = router \cup {local[p].prod}
        /\ UNCHANGED <<peerMap, joined, producers, consumers, shared, closed, wTransports,
                       wProducers, wConsumers, inbox, told, knows, made, videos, ended,
                       missed, ghosts, crashed>>
    BY <1>2 DEF ProduceAnswered, Answered, roomVars, sharing, workerVars, clientVars,
       history, clientDid
  <2>3. pc' \in [Peers -> PC]
    BY <1>2 DEF TypeOK, PC, Goto, ProduceAnswered
  <2>4. local[p].prod \in Producers
    BY <1>2 DEF ProduceAnswered, TypeOK, Local, HandInv, Creates, Goto
  <2>5. QED BY <2>1, <2>2, <2>3, <2>4 DEF TypeOK, LocalIs
<1>3. CASE Store(p)
  <2>1. At(p, "store", "announce") /\ local' = local
    BY <1>3, GotoIs DEF Store
  <2>2. /\ producers' = [producers EXCEPT ![p] = @ \cup {local[p].prod}]
        /\ UNCHANGED <<peerMap, joined, consumers, router, shared, closed, reply,
                       wTransports, wProducers, wConsumers, inbox, told, knows, made, videos,
                       ended, missed, ghosts, crashed>>
    BY <1>3 DEF Store, roomVars, sharing, workerVars, clientVars, history, clientDid
  <2>3. pc' \in [Peers -> PC]
    BY <1>3 DEF TypeOK, PC, Goto, Store
  <2>4. local[p].prod \in Producers
    BY <1>3 DEF Store, TypeOK, Local, HandInv, Creates, Goto
  <2>5. QED BY <2>1, <2>2, <2>3, <2>4 DEF TypeOK, LocalIs
<1>4. CASE Announce(p)
  <2>0. local[p].prod # None
    BY <1>4 DEF Announce, HandInv, Creates, Goto
  <2>1. /\ At(p, "announce", "consume")
        /\ LocalIs(p, local[p].others, local[p].visit, local[p].reading,
                   JoinedPeers(p) \X {local[p].prod}, local[p].job, local[p].prod,
                   local[p].dir, local[p].holding)
    BY <1>4, AnnounceLocal, GotoIs, <2>0
  <2>2. UNCHANGED <<peerMap, joined, producers, consumers, router, shared, closed, reply,
                    wTransports, wProducers, wConsumers, inbox, told, knows, made, videos,
                    ended, missed, ghosts, crashed>>
    BY <1>4 DEF Announce, roomVars, sharing, workerVars, clientVars, history, clientDid
  <2>3. pc' \in [Peers -> PC]
    BY <1>4 DEF TypeOK, PC, Goto, Announce
  <2>4. QED BY <2>1, <2>2, <2>3 DEF TypeOK, LocalIs
<1>5. CASE Replace(p)
  <2>1. /\ At(p, "share", "replacing")
        /\ LocalIs(p, local[p].others, local[p].visit, local[p].reading, local[p].todo,
                   local[p].job, local[p].prod, local[p].dir, TRUE)
    BY <1>5, ReplaceLocal, GotoIs
  <2>2. /\ closed' = closed \cup {shared}
        /\ wProducers' = wProducers \ {shared}
        /\ wConsumers' \subseteq wConsumers
        /\ UNCHANGED <<peerMap, joined, producers, consumers, router, shared, reply,
                       wTransports, told, knows, made, videos, ended, missed, ghosts, crashed>>
    BY <1>5 DEF Replace, roomVars, sharing, workerVars, clientVars, history, clientDid
  <2>3. pc' \in [Peers -> PC]
    BY <1>5 DEF TypeOK, PC, Goto, Replace
  <2>4. ConsumersOf({shared}) \in SUBSET Consumer
    BY DEF ConsumersOf, TypeOK
  <2>5. (shared \in wProducers) \in BOOLEAN
    OBVIOUS
  <2>6. Respond(p, ConsumersOf({shared}), shared \in wProducers)
    BY <1>5 DEF Replace
  <2>7. inbox' \in Seq(Message)
    BY <2>4, <2>5, <2>6, RespondEffect DEF TypeOK
  <2>8. shared \in videos
    BY <1>5 DEF Replace, VideoShared, TypeOK
  <2>9. QED BY <2>1, <2>2, <2>3, <2>4, <2>5, <2>6, <2>7, <2>8 DEF TypeOK, LocalIs
<1>6. CASE ReplaceAnswered(p) /\ reply[p] = "ok"
  <2>1. /\ At(p, "replacing", "announce")
        /\ LocalIs(p, local[p].others, local[p].visit, local[p].reading, local[p].todo,
                   local[p].job, local[p].prod, local[p].dir, FALSE)
    BY <1>6, ReplaceAnsweredLocal, GotoIs
  <2>2. /\ reply' = [reply EXCEPT ![p] = "none"]
        /\ router' = router \ {shared}
        /\ shared' = local[p].prod
        /\ UNCHANGED <<peerMap, joined, producers, consumers, closed, wTransports,
                       wProducers, wConsumers, inbox, told, knows, made, videos, ended,
                       missed, ghosts, crashed>>
    BY <1>6 DEF ReplaceAnswered, Answered, roomVars, sharing, workerVars, clientVars,
       history, clientDid
  <2>3. pc' \in [Peers -> PC]
    BY <1>6 DEF TypeOK, PC, Goto, ReplaceAnswered
  <2>4. local[p].prod \in videos
    BY <1>6 DEF ReplaceAnswered, HandInv, Goto
  <2>5. QED BY <2>1, <2>2, <2>3, <2>4 DEF TypeOK, LocalIs
<1>7. CASE ReplaceAnswered(p) /\ reply[p] # "ok"
  <2>1. /\ At(p, "replacing", "leave")
        /\ LocalIs(p, {}, {}, None, {}, None, None, None, FALSE)
    BY <1>7, ReplaceAnsweredLocal, GotoIs
  <2>2. /\ reply' = [reply EXCEPT ![p] = "none"]
        /\ UNCHANGED <<peerMap, joined, producers, consumers, router, shared, closed,
                       wTransports, wProducers, wConsumers, inbox, told, knows, made, videos,
                       ended, missed, ghosts, crashed>>
    BY <1>7 DEF ReplaceAnswered, Answered, roomVars, sharing, workerVars, clientVars,
       history, clientDid
  <2>3. pc' \in [Peers -> PC]
    BY <1>7 DEF TypeOK, PC, Goto, ReplaceAnswered
  <2>4. QED BY <2>1, <2>2, <2>3 DEF TypeOK, LocalIs
<1>8. CASE Attach(p)
  <2>1. At(p, "share", "announce") /\ local' = local
    BY <1>8, GotoIs DEF Attach
  <2>2. /\ shared' = local[p].prod
        /\ UNCHANGED <<peerMap, joined, producers, consumers, router, closed, reply,
                       wTransports, wProducers, wConsumers, inbox, told, knows, made, videos,
                       ended, missed, ghosts, crashed>>
    BY <1>8 DEF Attach, roomVars, sharing, workerVars, clientVars, history, clientDid
  <2>3. pc' \in [Peers -> PC]
    BY <1>8 DEF TypeOK, PC, Goto, Attach
  <2>4. local[p].prod \in videos
    BY <1>8 DEF Attach, HandInv, Goto
  <2>5. QED BY <2>1, <2>2, <2>3, <2>4 DEF TypeOK, LocalIs
<1>9. QED BY <1>1, <1>2, <1>3, <1>4, <1>5, <1>6, <1>7, <1>8 DEF ProduceStep

LEMMA CloseType ==
  ASSUME TypeOK, HandInv, NEW p \in Peers, CloseStep(p)
  PROVE  TypeOK'
<1>1. ASSUME NEW m \in Producers, CloseProducer(p, m) PROVE TypeOK'
  <2>1. /\ At(p, "idle", "closing")
        /\ LocalIs(p, local[p].others, local[p].visit, local[p].reading, local[p].todo,
                   local[p].job, m, local[p].dir, local[p].holding)
    BY <1>1, CloseProducerLocal, GotoIs
  <2>2. /\ wProducers' = wProducers \ {m}
        /\ ended' = ended \cup {m}
        /\ wConsumers' \subseteq wConsumers
        /\ UNCHANGED <<peerMap, joined, producers, consumers, router, shared, closed, reply,
                       wTransports, told, knows, made, videos, missed, ghosts, crashed>>
    BY <1>1 DEF CloseProducer, roomVars, sharing, workerVars, clientVars, history, clientDid
  <2>3. pc' \in [Peers -> PC]
    BY <1>1 DEF TypeOK, PC, Goto, CloseProducer
  <2>4. ConsumersOf({m}) \in SUBSET Consumer
    BY DEF ConsumersOf, TypeOK
  <2>5. Respond(p, ConsumersOf({m}), TRUE)
    BY <1>1 DEF CloseProducer
  <2>6. inbox' \in Seq(Message)
    BY <2>4, <2>5, RespondEffect DEF TypeOK
  <2>7. m \in made
    BY <1>1 DEF CloseProducer, HandInv
  <2>8. QED BY <2>1, <2>2, <2>3, <2>4, <2>5, <2>6, <2>7 DEF TypeOK, LocalIs
<1>2. ASSUME NEW m \in Producers, CloseVideo(p, m) PROVE TypeOK'
  <2>1. /\ At(p, "idle", "detaching")
        /\ LocalIs(p, local[p].others, local[p].visit, local[p].reading, local[p].todo,
                   local[p].job, local[p].prod, local[p].dir, TRUE)
    BY <1>2, CloseVideoLocal, GotoIs
  <2>2. /\ closed' = closed \cup {m}
        /\ wProducers' = wProducers \ {m}
        /\ ended' \subseteq ended \cup {m}
        /\ wConsumers' \subseteq wConsumers
        /\ UNCHANGED <<peerMap, joined, producers, consumers, router, shared, reply,
                       wTransports, told, knows, made, videos, missed, ghosts, crashed>>
    BY <1>2 DEF CloseVideo, roomVars, sharing, workerVars, clientVars, history, clientDid
  <2>3. pc' \in [Peers -> PC]
    BY <1>2 DEF TypeOK, PC, Goto, CloseVideo
  <2>4. ConsumersOf({m}) \in SUBSET Consumer
    BY DEF ConsumersOf, TypeOK
  <2>5. Respond(p, ConsumersOf({m}), m \in wProducers) /\ (m \in wProducers) \in BOOLEAN
    BY <1>2 DEF CloseVideo
  <2>6. inbox' \in Seq(Message)
    BY <2>4, <2>5, RespondEffect DEF TypeOK
  <2>7. m \in videos
    BY <1>2, NoneAssumption DEF CloseVideo, TypeOK
  <2>8. QED BY <2>1, <2>2, <2>3, <2>4, <2>5, <2>6, <2>7 DEF TypeOK, LocalIs
<1>3. CASE VideoClosed(p) /\ reply[p] = "ok"
  <2>1. /\ At(p, "detaching", "idle")
        /\ LocalIs(p, local[p].others, local[p].visit, local[p].reading, local[p].todo,
                   local[p].job, local[p].prod, local[p].dir, FALSE)
    BY <1>3, VideoClosedLocal, GotoIs
  <2>2. /\ reply' = [reply EXCEPT ![p] = "none"]
        /\ router' = router \ {shared}
        /\ shared' = None
        /\ UNCHANGED <<peerMap, joined, producers, consumers, closed, wTransports,
                       wProducers, wConsumers, inbox, told, knows, made, videos, ended,
                       missed, ghosts, crashed>>
    BY <1>3 DEF VideoClosed, Answered, roomVars, sharing, workerVars, clientVars, history,
       clientDid
  <2>3. pc' \in [Peers -> PC]
    BY <1>3 DEF TypeOK, PC, Goto, VideoClosed
  <2>4. QED BY <2>1, <2>2, <2>3 DEF TypeOK, LocalIs
<1>4. ASSUME NEW m \in Producers, NullStep(p, m) PROVE TypeOK'
  <2>1. /\ pc[p] = "idle" /\ pc' = pc
        /\ LocalIs(p, local[p].others, local[p].visit, local[p].reading, local[p].todo,
                   local[p].job, m, local[p].dir, local[p].holding)
    BY <1>4, NullStepLocal, GotoIs
  <2>2. /\ crashed' = p
        /\ UNCHANGED <<peerMap, joined, producers, consumers, router, shared, closed, reply,
                       wTransports, wProducers, wConsumers, inbox, told, knows, made, videos,
                       ended, missed, ghosts>>
    BY <1>4 DEF NullStep, CloseNull, ProduceNull, roomVars, sharing, workerVars, clientVars,
       history, clientDid
  <2>3. pc' \in [Peers -> PC]
    BY <1>4 DEF TypeOK, PC, NullStep, CloseNull, ProduceNull
  <2>4. QED BY <2>1, <2>2, <2>3 DEF TypeOK, LocalIs
<1>5. CASE CloseAnswered(p)
  <2>1. At(p, "closing", "erase") /\ local' = local
    BY <1>5, GotoIs DEF CloseAnswered
  <2>2. /\ reply' = [reply EXCEPT ![p] = "none"]
        /\ router' = router \ {local[p].prod}
        /\ UNCHANGED <<peerMap, joined, producers, consumers, shared, closed, wTransports,
                       wProducers, wConsumers, inbox, told, knows, made, videos, ended,
                       missed, ghosts, crashed>>
    BY <1>5 DEF CloseAnswered, Answered, roomVars, sharing, workerVars, clientVars, history,
       clientDid
  <2>3. pc' \in [Peers -> PC]
    BY <1>5 DEF TypeOK, PC, Goto, CloseAnswered
  <2>4. QED BY <2>1, <2>2, <2>3 DEF TypeOK, LocalIs
<1>6. CASE Erase(p)
  <2>1. /\ At(p, "erase", "idle")
        /\ LocalIs(p, local[p].others, local[p].visit, local[p].reading, local[p].todo,
                   local[p].job, None, local[p].dir, local[p].holding)
    BY <1>6, EraseLocal, GotoIs
  <2>2. /\ producers' = [producers EXCEPT ![p] = @ \ {local[p].prod}]
        /\ UNCHANGED <<peerMap, joined, consumers, router, shared, closed, reply,
                       wTransports, wProducers, wConsumers, inbox, told, knows, made, videos,
                       ended, missed, ghosts, crashed>>
    BY <1>6 DEF Erase, roomVars, sharing, workerVars, clientVars, history, clientDid
  <2>3. pc' \in [Peers -> PC]
    BY <1>6 DEF TypeOK, PC, Goto, Erase
  <2>4. QED BY <2>1, <2>2, <2>3 DEF TypeOK, LocalIs
<1>7. CASE VideoClosed(p) /\ reply[p] # "ok"
  <2>1. /\ At(p, "detaching", "leave")
        /\ LocalIs(p, {}, {}, None, {}, None, None, None, FALSE)
    BY <1>7, VideoClosedLocal, GotoIs
  <2>2. /\ reply' = [reply EXCEPT ![p] = "none"]
        /\ UNCHANGED <<peerMap, joined, producers, consumers, router, shared, closed,
                       wTransports, wProducers, wConsumers, inbox, told, knows, made, videos,
                       ended, missed, ghosts, crashed>>
    BY <1>7 DEF VideoClosed, Answered, roomVars, sharing, workerVars, clientVars,
       history, clientDid
  <2>3. pc' \in [Peers -> PC]
    BY <1>7 DEF TypeOK, PC, Goto, VideoClosed
  <2>4. QED BY <2>1, <2>2, <2>3 DEF TypeOK, LocalIs
<1>8. ASSUME NEW m \in Producers, DetachClosed(p, m) PROVE TypeOK'
  <2>1. pc[p] = "idle" /\ pc' = pc /\ local' = local
    BY <1>8 DEF DetachClosed
  <2>2. /\ shared' = None
        /\ UNCHANGED <<peerMap, joined, producers, consumers, router, closed, reply,
                       wTransports, wProducers, wConsumers, inbox, told, knows, made, videos,
                       ended, missed, ghosts, crashed>>
    BY <1>8 DEF DetachClosed, roomVars, sharing, workerVars, clientVars, history, clientDid
  <2>3. pc' \in [Peers -> PC]
    BY <1>8 DEF TypeOK, PC, DetachClosed
  <2>4. QED BY <2>1, <2>2, <2>3 DEF TypeOK
<1>9. QED BY <1>1, <1>2, <1>3, <1>4, <1>5, <1>6, <1>7, <1>8 DEF CloseStep

LEMMA LeaveType ==
  ASSUME TypeOK, HandInv, NEW p \in Peers, LeaveStep(p)
  PROVE  TypeOK'
<1>1. CASE Leave(p)
  <2>1. At(p, "idle", "leave") /\ local' = local
    BY <1>1, GotoIs DEF Leave
  <2>2. UNCHANGED <<peerMap, joined, producers, consumers, router, shared, closed, reply,
                    wTransports, wProducers, wConsumers, inbox, told, knows, made, videos,
                    ended, missed, ghosts, crashed>>
    BY <1>1 DEF Leave, roomVars, sharing, workerVars, clientVars, history, clientDid
  <2>3. pc' \in [Peers -> PC]
    BY <1>1 DEF TypeOK, PC, Goto, Leave
  <2>4. QED BY <2>1, <2>2, <2>3 DEF TypeOK, LocalIs
<1>2. CASE LeaveSnapshot(p)
  <2>1. /\ At(p, "leave", "notify")
        /\ LocalIs(p, JoinedPeers(p), local[p].visit, local[p].reading, local[p].todo,
                   local[p].job, local[p].prod, local[p].dir, local[p].holding)
    BY <1>2, LeaveSnapshotLocal, GotoIs
  <2>2. UNCHANGED <<peerMap, joined, producers, consumers, router, shared, closed, reply,
                    wTransports, wProducers, wConsumers, inbox, told, knows, made, videos,
                    ended, missed, ghosts, crashed>>
    BY <1>2 DEF LeaveSnapshot, roomVars, sharing, workerVars, clientVars, history, clientDid
  <2>3. pc' \in [Peers -> PC]
    BY <1>2 DEF TypeOK, PC, Goto, LeaveSnapshot
  <2>4. QED BY <2>1, <2>2, <2>3 DEF TypeOK, LocalIs
<1>3. CASE LeaveNotify(p)
  <2>1. /\ At(p, "notify", "transports")
        /\ LocalIs(p, {}, {}, None, {}, None, None, None, FALSE)
    BY <1>3, LeaveNotifyLocal, GotoIs
  <2>2. /\ knows' = [q \in Peers |-> IF p \in joined /\ q \in local[p].others
                                    THEN knows[q] \ {p} ELSE knows[q]]
        /\ UNCHANGED <<peerMap, joined, producers, consumers, router, shared, closed, reply,
                       wTransports, wProducers, wConsumers, inbox, told, made, videos, ended,
                       missed, ghosts, crashed>>
    BY <1>3 DEF LeaveNotify, roomVars, sharing, workerVars, clientVars, history, clientDid
  <2>3. pc' \in [Peers -> PC]
    BY <1>3 DEF TypeOK, PC, Goto, LeaveNotify
  <2>4. QED BY <2>1, <2>2, <2>3 DEF TypeOK, LocalIs
<1>4. ASSUME NEW d \in Directions, CloseTransport(p, d) PROVE TypeOK'
  <2>1. /\ At(p, "transports", "transport")
        /\ LocalIs(p, local[p].others, local[p].visit, local[p].reading, local[p].todo,
                   local[p].job, local[p].prod, d, local[p].holding)
    BY <1>4, CloseTransportLocal, GotoIs
  <2>2. /\ wTransports' \subseteq wTransports
        /\ wProducers' \subseteq wProducers
        /\ wConsumers' \subseteq wConsumers
        /\ UNCHANGED <<peerMap, joined, producers, consumers, router, shared, closed, reply,
                       told, knows, made, videos, ended, missed, ghosts, crashed>>
    BY <1>4 DEF CloseTransport, roomVars, sharing, workerVars, clientVars, history, clientDid
  <2>3. pc' \in [Peers -> PC]
    BY <1>4 DEF TypeOK, PC, Goto, CloseTransport
  <2>4. ConsumersOf(IF d = "send" THEN {m \in wProducers : Owner[m] = p} ELSE {}) \in SUBSET Consumer
    BY DEF ConsumersOf, TypeOK
  <2>5. Respond(p, ConsumersOf(IF d = "send" THEN {m \in wProducers : Owner[m] = p} ELSE {}), TRUE)
    BY <1>4 DEF CloseTransport
  <2>6. inbox' \in Seq(Message)
    BY <2>4, <2>5, RespondEffect DEF TypeOK
  <2>7. QED BY <2>1, <2>2, <2>3, <2>4, <2>5, <2>6 DEF TypeOK, LocalIs
<1>5. CASE TransportAnswered(p)
  <2>1. /\ At(p, "transport", "transports")
        /\ LocalIs(p, local[p].others, local[p].visit, local[p].reading, local[p].todo,
                   local[p].job, local[p].prod, None, local[p].holding)
    BY <1>5, TransportAnsweredLocal, GotoIs
  <2>2. /\ reply' = [reply EXCEPT ![p] = "none"]
        /\ router' \subseteq router
        /\ consumers' \in {consumers, [consumers EXCEPT ![p] = {}]}
        /\ closed' \subseteq closed \cup videos
        /\ UNCHANGED <<peerMap, joined, producers, shared, wTransports, wProducers,
                       wConsumers, inbox, told, knows, made, videos, ended, missed, ghosts,
                       crashed>>
    BY <1>5 DEF TransportAnswered, Answered, CloseVideosOf, roomVars, sharing, workerVars,
       clientVars, history, clientDid
  <2>3. pc' \in [Peers -> PC]
    BY <1>5 DEF TypeOK, PC, Goto, TransportAnswered
  <2>4. QED BY <2>1, <2>2, <2>3 DEF TypeOK, LocalIs
<1>6. CASE RemovePeer(p)
  <2>1. At(p, "transports", "gone") /\ local' = local
    BY <1>6, GotoIs DEF RemovePeer
  <2>2. /\ peerMap' = peerMap \ {p}
        /\ UNCHANGED <<joined, producers, consumers, router, shared, closed, reply,
                       wTransports, wProducers, wConsumers, inbox, told, knows, made, videos,
                       ended, missed, ghosts, crashed>>
    BY <1>6 DEF RemovePeer, roomVars, sharing, workerVars, clientVars, history, clientDid
  <2>3. pc' \in [Peers -> PC]
    BY <1>6 DEF TypeOK, PC, Goto, RemovePeer
  <2>4. QED BY <2>1, <2>2, <2>3 DEF TypeOK, LocalIs
<1>7. QED BY <1>1, <1>2, <1>3, <1>4, <1>5, <1>6 DEF LeaveStep

LEMMA JoinAnswer ==
  ASSUME TypeOK, HandInv, AnswerInv, NEW p \in Peers, JoinStep(p)
  PROVE  AnswerInv'
<1>1. CASE Join(p)
  <2>1. At(p, "idle", "caps") /\ local' = local
    BY <1>1, GotoIs DEF Join
  <2>2. UNCHANGED <<reply, inbox>>
    BY <1>1 DEF Join, roomVars, sharing, workerVars, clientVars, history, clientDid
  <2>3. \A x : (Outstanding(x)' <=> Outstanding(x)) /\ (Single(x)' <=> Single(x))
    BY <2>2, InboxStays
  <2>4. QED BY <2>1, <2>2, <2>3 DEF AnswerInv, Waiting, At
<1>2. CASE JoinSnapshot(p)
  <2>1. /\ At(p, "caps", "accept")
        /\ LocalIs(p, JoinedPeers(p), JoinedPeers(p), local[p].reading, local[p].todo,
                   local[p].job, local[p].prod, local[p].dir, local[p].holding)
    BY <1>2, JoinSnapshotLocal, GotoIs
  <2>2. UNCHANGED <<reply, inbox>>
    BY <1>2 DEF JoinSnapshot, roomVars, sharing, workerVars, clientVars, history, clientDid
  <2>3. \A x : (Outstanding(x)' <=> Outstanding(x)) /\ (Single(x)' <=> Single(x))
    BY <2>2, InboxStays
  <2>4. QED BY <2>1, <2>2, <2>3 DEF AnswerInv, Waiting, At
<1>3. CASE JoinAccept(p)
  <2>1. At(p, "accept", "visit") /\ local' = local
    BY <1>3, GotoIs DEF JoinAccept
  <2>2. UNCHANGED <<reply, inbox>>
    BY <1>3 DEF JoinAccept, roomVars, sharing, workerVars, clientVars, history, clientDid
  <2>3. \A x : (Outstanding(x)' <=> Outstanding(x)) /\ (Single(x)' <=> Single(x))
    BY <2>2, InboxStays
  <2>4. QED BY <2>1, <2>2, <2>3 DEF AnswerInv, Waiting, At
<1>4. ASSUME Visit(p), NEW q \in local[p].visit, Visits(p, q) PROVE AnswerInv'
  <2>2. UNCHANGED <<reply, inbox>>
    BY <1>4 DEF Visit, roomVars, sharing, workerVars, clientVars, history, clientDid
  <2>3. \A x : (Outstanding(x)' <=> Outstanding(x)) /\ (Single(x)' <=> Single(x))
    BY <2>2, InboxStays
  <2>4. QED BY <1>4, <2>2, <2>3 DEF AnswerInv, Waiting, At, Visits
<1>5. CASE JoinSharing(p) /\ VideoShared
  <2>1. /\ At(p, "visit", "consume")
        /\ LocalIs(p, local[p].others, local[p].visit, local[p].reading, {<<p,
                   shared>>}, local[p].job, local[p].prod, local[p].dir, TRUE)
    BY <1>5, JoinSharingLocal, GotoIs
  <2>2. UNCHANGED <<reply, inbox>>
    BY <1>5 DEF JoinSharing, roomVars, sharing, workerVars, clientVars, history, clientDid
  <2>3. \A x : (Outstanding(x)' <=> Outstanding(x)) /\ (Single(x)' <=> Single(x))
    BY <2>2, InboxStays
  <2>4. QED BY <2>1, <2>2, <2>3 DEF AnswerInv, Waiting, At
<1>6. CASE JoinSharing(p) /\ ~VideoShared
  <2>1. At(p, "visit", "newPeer") /\ local' = local
    BY <1>6, GotoIs DEF JoinSharing
  <2>2. UNCHANGED <<reply, inbox>>
    BY <1>6 DEF JoinSharing, roomVars, sharing, workerVars, clientVars, history, clientDid
  <2>3. \A x : (Outstanding(x)' <=> Outstanding(x)) /\ (Single(x)' <=> Single(x))
    BY <2>2, InboxStays
  <2>4. QED BY <2>1, <2>2, <2>3 DEF AnswerInv, Waiting, At
<1>7. CASE JoinDone(p)
  <2>1. /\ At(p, "newPeer", "idle")
        /\ LocalIs(p, {}, {}, None, {}, None, None, None, FALSE)
    BY <1>7, JoinDoneLocal, GotoIs
  <2>2. UNCHANGED <<reply, inbox>>
    BY <1>7 DEF JoinDone, roomVars, sharing, workerVars, clientVars, history, clientDid
  <2>3. \A x : (Outstanding(x)' <=> Outstanding(x)) /\ (Single(x)' <=> Single(x))
    BY <2>2, InboxStays
  <2>4. QED BY <2>1, <2>2, <2>3 DEF AnswerInv, Waiting, At
<1>8. QED BY <1>1, <1>2, <1>3, <1>4, <1>5, <1>6, <1>7, VisitLocal DEF JoinStep

LEMMA ConsumeAnswer ==
  ASSUME TypeOK, HandInv, AnswerInv, NEW p \in Peers, ConsumeStep(p)
  PROVE  AnswerInv'
<1>1. ASSUME CanConsume(p), NEW w \in local[p].todo, Skip(p, w) PROVE AnswerInv'
  <2>2. UNCHANGED <<reply, inbox>>
    BY <1>1 DEF CanConsume, roomVars, sharing, workerVars, clientVars, history, clientDid
  <2>3. \A x : (Outstanding(x)' <=> Outstanding(x)) /\ (Single(x)' <=> Single(x))
    BY <2>2, InboxStays
  <2>4. QED BY <1>1, <2>2, <2>3 DEF AnswerInv, Waiting, At, Skip
<1>2. ASSUME CanConsume(p), NEW w \in local[p].todo, Take(p, w) PROVE AnswerInv'
  <2>2. UNCHANGED <<reply, inbox>>
    BY <1>2 DEF CanConsume, roomVars, sharing, workerVars, clientVars, history, clientDid
  <2>3. \A x : (Outstanding(x)' <=> Outstanding(x)) /\ (Single(x)' <=> Single(x))
    BY <2>2, InboxStays
  <2>4. QED BY <1>2, <2>2, <2>3 DEF AnswerInv, Waiting, At, Take
<1>3. CASE ConsumeDone(p)
  <2>1. /\ At(p, "consume", IF local[p].holding THEN "newPeer" ELSE IF local[p].reading = None THEN "idle" ELSE "visit")
        /\ LocalIs(p, local[p].others, local[p].visit, None, local[p].todo,
                   local[p].job, None, local[p].dir, FALSE)
    BY <1>3, ConsumeDoneLocal, GotoIs
  <2>2. UNCHANGED <<reply, inbox>>
    BY <1>3 DEF ConsumeDone, roomVars, sharing, workerVars, clientVars, history, clientDid
  <2>3. \A x : (Outstanding(x)' <=> Outstanding(x)) /\ (Single(x)' <=> Single(x))
    BY <2>2, InboxStays
  <2>4. QED BY <2>1, <2>2, <2>3 DEF AnswerInv, Waiting, At
<1>4. CASE ConsumeNull(p)
  <2>1. pc[p] = "request" /\ pc' = pc /\ local' = local
    BY <1>4 DEF ConsumeNull
  <2>2. UNCHANGED <<reply, inbox>>
    BY <1>4 DEF ConsumeNull, roomVars, sharing, workerVars, clientVars, history, clientDid
  <2>3. \A x : (Outstanding(x)' <=> Outstanding(x)) /\ (Single(x)' <=> Single(x))
    BY <2>2, InboxStays
  <2>4. QED BY <2>1, <2>2, <2>3 DEF AnswerInv, Waiting, At
<1>5. CASE Consume(p)
  <2>1. At(p, "request", "consuming") /\ local' = local
    BY <1>5, GotoIs DEF Consume
  <2>2. UNCHANGED reply
    BY <1>5 DEF Consume, roomVars, sharing, workerVars, clientVars, history, clientDid
  <2>3. Respond(p, {}, <<local[p].job.peer, "recv">> \in wTransports /\ local[p].job.prod \in wProducers)
    BY <1>5 DEF Consume
  <2>4. /\ \A x \in Peers : Outstanding(x)' <=> Outstanding(x) \/ x = p
        /\ \A x \in Peers : Single(x) /\ (x = p => ~Outstanding(p)) => Single(x)'
    BY <2>3, RespondMeans DEF TypeOK
  <2>5. QED BY <2>1, <2>2, <2>3, <2>4 DEF AnswerInv, Waiting, At
<1>6. CASE ConsumeAnswered(p) /\ reply[p] = "ok"
  <2>1. At(p, "consuming", "emplace") /\ local' = local
    BY <1>6, GotoIs DEF ConsumeAnswered
  <2>2. /\ reply[p] # "none" /\ reply' = [reply EXCEPT ![p] = "none"]
        /\ UNCHANGED inbox
    BY <1>6 DEF ConsumeAnswered, Answered, roomVars, sharing, workerVars, clientVars,
       history, clientDid
  <2>3. \A x : (Outstanding(x)' <=> Outstanding(x)) /\ (Single(x)' <=> Single(x))
    BY <2>2, InboxStays
  <2>4. QED BY <2>1, <2>2, <2>3 DEF AnswerInv, Waiting, At, TypeOK
<1>7. CASE ConsumeAnswered(p) /\ reply[p] # "ok"
  <2>1. /\ At(p, "consuming", "leave")
        /\ LocalIs(p, {}, {}, None, {}, None, None, None, FALSE)
    BY <1>7, ConsumeAnsweredLocal, GotoIs
  <2>2. /\ reply[p] # "none" /\ reply' = [reply EXCEPT ![p] = "none"]
        /\ UNCHANGED inbox
    BY <1>7 DEF ConsumeAnswered, Answered, roomVars, sharing, workerVars, clientVars,
       history, clientDid
  <2>3. \A x : (Outstanding(x)' <=> Outstanding(x)) /\ (Single(x)' <=> Single(x))
    BY <2>2, InboxStays
  <2>4. QED BY <2>1, <2>2, <2>3 DEF AnswerInv, Waiting, At, TypeOK
<1>8. CASE Emplace(p)
  <2>1. At(p, "emplace", "tell") /\ local' = local
    BY <1>8, GotoIs DEF Emplace
  <2>2. UNCHANGED <<reply, inbox>>
    BY <1>8 DEF Emplace, roomVars, sharing, workerVars, clientVars, history, clientDid
  <2>3. \A x : (Outstanding(x)' <=> Outstanding(x)) /\ (Single(x)' <=> Single(x))
    BY <2>2, InboxStays
  <2>4. QED BY <2>1, <2>2, <2>3 DEF AnswerInv, Waiting, At
<1>9. CASE Tell(p)
  <2>1. /\ At(p, "tell", "consume")
        /\ LocalIs(p, local[p].others, local[p].visit, local[p].reading, local[p].todo,
                   None, local[p].prod, local[p].dir, local[p].holding)
    BY <1>9, TellLocal, GotoIs
  <2>2. UNCHANGED <<reply, inbox>>
    BY <1>9 DEF Tell, roomVars, sharing, workerVars, clientVars, history, clientDid
  <2>3. \A x : (Outstanding(x)' <=> Outstanding(x)) /\ (Single(x)' <=> Single(x))
    BY <2>2, InboxStays
  <2>4. QED BY <2>1, <2>2, <2>3 DEF AnswerInv, Waiting, At
<1>10. QED BY <1>1, <1>2, <1>3, <1>4, <1>5, <1>6, <1>7, <1>8, <1>9,
              CanConsumeLocal DEF ConsumeStep

LEMMA ProduceAnswer ==
  ASSUME TypeOK, HandInv, AnswerInv, NEW p \in Peers, ProduceStep(p)
  PROVE  AnswerInv'
<1>1. ASSUME NEW m \in Producers, Produce(p, m) PROVE AnswerInv'
  <2>1. /\ At(p, "idle", "producing")
        /\ LocalIs(p, local[p].others, local[p].visit, local[p].reading, local[p].todo,
                   local[p].job, m, local[p].dir, local[p].holding)
    BY <1>1, ProduceLocal, GotoIs
  <2>2. UNCHANGED reply
    BY <1>1 DEF Produce, roomVars, sharing, workerVars, clientVars, history, clientDid
  <2>3. Respond(p, {}, TRUE)
    BY <1>1 DEF Produce
  <2>4. /\ \A x \in Peers : Outstanding(x)' <=> Outstanding(x) \/ x = p
        /\ \A x \in Peers : Single(x) /\ (x = p => ~Outstanding(p)) => Single(x)'
    BY <2>3, RespondMeans DEF TypeOK
  <2>5. QED BY <2>1, <2>2, <2>3, <2>4 DEF AnswerInv, Waiting, At
<1>2. CASE ProduceAnswered(p)
  <2>1. At(p, "producing", IF local[p].prod \in videos THEN "share" ELSE "store") /\ local' = local
    BY <1>2, GotoIs DEF ProduceAnswered
  <2>2. /\ reply[p] # "none" /\ reply' = [reply EXCEPT ![p] = "none"]
        /\ UNCHANGED inbox
    BY <1>2 DEF ProduceAnswered, Answered, roomVars, sharing, workerVars, clientVars,
       history, clientDid
  <2>3. \A x : (Outstanding(x)' <=> Outstanding(x)) /\ (Single(x)' <=> Single(x))
    BY <2>2, InboxStays
  <2>4. QED BY <2>1, <2>2, <2>3 DEF AnswerInv, Waiting, At, TypeOK
<1>3. CASE Store(p)
  <2>1. At(p, "store", "announce") /\ local' = local
    BY <1>3, GotoIs DEF Store
  <2>2. UNCHANGED <<reply, inbox>>
    BY <1>3 DEF Store, roomVars, sharing, workerVars, clientVars, history, clientDid
  <2>3. \A x : (Outstanding(x)' <=> Outstanding(x)) /\ (Single(x)' <=> Single(x))
    BY <2>2, InboxStays
  <2>4. QED BY <2>1, <2>2, <2>3 DEF AnswerInv, Waiting, At
<1>4. CASE Announce(p)
  <2>0. local[p].prod # None
    BY <1>4 DEF Announce, HandInv, Creates, Goto
  <2>1. /\ At(p, "announce", "consume")
        /\ LocalIs(p, local[p].others, local[p].visit, local[p].reading,
                   JoinedPeers(p) \X {local[p].prod}, local[p].job, local[p].prod,
                   local[p].dir, local[p].holding)
    BY <1>4, AnnounceLocal, GotoIs, <2>0
  <2>2. UNCHANGED <<reply, inbox>>
    BY <1>4 DEF Announce, roomVars, sharing, workerVars, clientVars, history, clientDid
  <2>3. \A x : (Outstanding(x)' <=> Outstanding(x)) /\ (Single(x)' <=> Single(x))
    BY <2>2, InboxStays
  <2>4. QED BY <2>1, <2>2, <2>3 DEF AnswerInv, Waiting, At
<1>5. CASE Replace(p)
  <2>1. /\ At(p, "share", "replacing")
        /\ LocalIs(p, local[p].others, local[p].visit, local[p].reading, local[p].todo,
                   local[p].job, local[p].prod, local[p].dir, TRUE)
    BY <1>5, ReplaceLocal, GotoIs
  <2>2. UNCHANGED reply
    BY <1>5 DEF Replace, roomVars, sharing, workerVars, clientVars, history, clientDid
  <2>3. ConsumersOf({shared}) \in SUBSET Consumer
    BY DEF ConsumersOf, TypeOK
  <2>4. (shared \in wProducers) \in BOOLEAN
    OBVIOUS
  <2>5. Respond(p, ConsumersOf({shared}), shared \in wProducers)
    BY <1>5 DEF Replace
  <2>6. /\ \A x \in Peers : Outstanding(x)' <=> Outstanding(x) \/ x = p
        /\ \A x \in Peers : Single(x) /\ (x = p => ~Outstanding(p)) => Single(x)'
    BY <2>3, <2>4, <2>5, RespondMeans DEF TypeOK
  <2>7. QED BY <2>1, <2>2, <2>3, <2>4, <2>5, <2>6 DEF AnswerInv, Waiting, At
<1>6. CASE ReplaceAnswered(p) /\ reply[p] = "ok"
  <2>1. /\ At(p, "replacing", "announce")
        /\ LocalIs(p, local[p].others, local[p].visit, local[p].reading, local[p].todo,
                   local[p].job, local[p].prod, local[p].dir, FALSE)
    BY <1>6, ReplaceAnsweredLocal, GotoIs
  <2>2. /\ reply[p] # "none" /\ reply' = [reply EXCEPT ![p] = "none"]
        /\ UNCHANGED inbox
    BY <1>6 DEF ReplaceAnswered, Answered, roomVars, sharing, workerVars, clientVars,
       history, clientDid
  <2>3. \A x : (Outstanding(x)' <=> Outstanding(x)) /\ (Single(x)' <=> Single(x))
    BY <2>2, InboxStays
  <2>4. QED BY <2>1, <2>2, <2>3 DEF AnswerInv, Waiting, At, TypeOK
<1>7. CASE ReplaceAnswered(p) /\ reply[p] # "ok"
  <2>1. /\ At(p, "replacing", "leave")
        /\ LocalIs(p, {}, {}, None, {}, None, None, None, FALSE)
    BY <1>7, ReplaceAnsweredLocal, GotoIs
  <2>2. /\ reply[p] # "none" /\ reply' = [reply EXCEPT ![p] = "none"]
        /\ UNCHANGED inbox
    BY <1>7 DEF ReplaceAnswered, Answered, roomVars, sharing, workerVars, clientVars,
       history, clientDid
  <2>3. \A x : (Outstanding(x)' <=> Outstanding(x)) /\ (Single(x)' <=> Single(x))
    BY <2>2, InboxStays
  <2>4. QED BY <2>1, <2>2, <2>3 DEF AnswerInv, Waiting, At, TypeOK
<1>8. CASE Attach(p)
  <2>1. At(p, "share", "announce") /\ local' = local
    BY <1>8, GotoIs DEF Attach
  <2>2. UNCHANGED <<reply, inbox>>
    BY <1>8 DEF Attach, roomVars, sharing, workerVars, clientVars, history, clientDid
  <2>3. \A x : (Outstanding(x)' <=> Outstanding(x)) /\ (Single(x)' <=> Single(x))
    BY <2>2, InboxStays
  <2>4. QED BY <2>1, <2>2, <2>3 DEF AnswerInv, Waiting, At
<1>9. QED BY <1>1, <1>2, <1>3, <1>4, <1>5, <1>6, <1>7, <1>8 DEF ProduceStep

LEMMA CloseAnswer ==
  ASSUME TypeOK, HandInv, AnswerInv, NEW p \in Peers, CloseStep(p)
  PROVE  AnswerInv'
<1>1. ASSUME NEW m \in Producers, CloseProducer(p, m) PROVE AnswerInv'
  <2>1. /\ At(p, "idle", "closing")
        /\ LocalIs(p, local[p].others, local[p].visit, local[p].reading, local[p].todo,
                   local[p].job, m, local[p].dir, local[p].holding)
    BY <1>1, CloseProducerLocal, GotoIs
  <2>2. UNCHANGED reply
    BY <1>1 DEF CloseProducer, roomVars, sharing, workerVars, clientVars, history, clientDid
  <2>3. ConsumersOf({m}) \in SUBSET Consumer
    BY DEF ConsumersOf, TypeOK
  <2>4. Respond(p, ConsumersOf({m}), TRUE)
    BY <1>1 DEF CloseProducer
  <2>5. /\ \A x \in Peers : Outstanding(x)' <=> Outstanding(x) \/ x = p
        /\ \A x \in Peers : Single(x) /\ (x = p => ~Outstanding(p)) => Single(x)'
    BY <2>3, <2>4, RespondMeans DEF TypeOK
  <2>6. QED BY <2>1, <2>2, <2>3, <2>4, <2>5 DEF AnswerInv, Waiting, At
<1>2. ASSUME NEW m \in Producers, CloseVideo(p, m) PROVE AnswerInv'
  <2>1. /\ At(p, "idle", "detaching")
        /\ LocalIs(p, local[p].others, local[p].visit, local[p].reading, local[p].todo,
                   local[p].job, local[p].prod, local[p].dir, TRUE)
    BY <1>2, CloseVideoLocal, GotoIs
  <2>2. UNCHANGED reply
    BY <1>2 DEF CloseVideo, roomVars, sharing, workerVars, clientVars, history, clientDid
  <2>3. ConsumersOf({m}) \in SUBSET Consumer
    BY DEF ConsumersOf, TypeOK
  <2>4. Respond(p, ConsumersOf({m}), m \in wProducers) /\ (m \in wProducers) \in BOOLEAN
    BY <1>2 DEF CloseVideo
  <2>5. /\ \A x \in Peers : Outstanding(x)' <=> Outstanding(x) \/ x = p
        /\ \A x \in Peers : Single(x) /\ (x = p => ~Outstanding(p)) => Single(x)'
    BY <2>3, <2>4, RespondMeans DEF TypeOK
  <2>6. QED BY <2>1, <2>2, <2>3, <2>4, <2>5 DEF AnswerInv, Waiting, At
<1>3. CASE VideoClosed(p) /\ reply[p] = "ok"
  <2>1. /\ At(p, "detaching", "idle")
        /\ LocalIs(p, local[p].others, local[p].visit, local[p].reading, local[p].todo,
                   local[p].job, local[p].prod, local[p].dir, FALSE)
    BY <1>3, VideoClosedLocal, GotoIs
  <2>2. /\ reply[p] # "none" /\ reply' = [reply EXCEPT ![p] = "none"]
        /\ UNCHANGED inbox
    BY <1>3 DEF VideoClosed, Answered, roomVars, sharing, workerVars, clientVars, history,
       clientDid
  <2>3. \A x : (Outstanding(x)' <=> Outstanding(x)) /\ (Single(x)' <=> Single(x))
    BY <2>2, InboxStays
  <2>4. QED BY <2>1, <2>2, <2>3 DEF AnswerInv, Waiting, At, TypeOK
<1>4. ASSUME NEW m \in Producers, NullStep(p, m) PROVE AnswerInv'
  <2>1. /\ pc[p] = "idle" /\ pc' = pc
        /\ LocalIs(p, local[p].others, local[p].visit, local[p].reading, local[p].todo,
                   local[p].job, m, local[p].dir, local[p].holding)
    BY <1>4, NullStepLocal, GotoIs
  <2>2. UNCHANGED <<reply, inbox>>
    BY <1>4 DEF NullStep, CloseNull, ProduceNull, roomVars, sharing, workerVars, clientVars,
       history, clientDid
  <2>3. \A x : (Outstanding(x)' <=> Outstanding(x)) /\ (Single(x)' <=> Single(x))
    BY <2>2, InboxStays
  <2>4. QED BY <2>1, <2>2, <2>3 DEF AnswerInv, Waiting, At
<1>5. CASE CloseAnswered(p)
  <2>1. At(p, "closing", "erase") /\ local' = local
    BY <1>5, GotoIs DEF CloseAnswered
  <2>2. /\ reply[p] # "none" /\ reply' = [reply EXCEPT ![p] = "none"]
        /\ UNCHANGED inbox
    BY <1>5 DEF CloseAnswered, Answered, roomVars, sharing, workerVars, clientVars, history,
       clientDid
  <2>3. \A x : (Outstanding(x)' <=> Outstanding(x)) /\ (Single(x)' <=> Single(x))
    BY <2>2, InboxStays
  <2>4. QED BY <2>1, <2>2, <2>3 DEF AnswerInv, Waiting, At, TypeOK
<1>6. CASE Erase(p)
  <2>1. /\ At(p, "erase", "idle")
        /\ LocalIs(p, local[p].others, local[p].visit, local[p].reading, local[p].todo,
                   local[p].job, None, local[p].dir, local[p].holding)
    BY <1>6, EraseLocal, GotoIs
  <2>2. UNCHANGED <<reply, inbox>>
    BY <1>6 DEF Erase, roomVars, sharing, workerVars, clientVars, history, clientDid
  <2>3. \A x : (Outstanding(x)' <=> Outstanding(x)) /\ (Single(x)' <=> Single(x))
    BY <2>2, InboxStays
  <2>4. QED BY <2>1, <2>2, <2>3 DEF AnswerInv, Waiting, At
<1>7. CASE VideoClosed(p) /\ reply[p] # "ok"
  <2>1. /\ At(p, "detaching", "leave")
        /\ LocalIs(p, {}, {}, None, {}, None, None, None, FALSE)
    BY <1>7, VideoClosedLocal, GotoIs
  <2>2. /\ reply[p] # "none" /\ reply' = [reply EXCEPT ![p] = "none"]
        /\ UNCHANGED inbox
    BY <1>7 DEF VideoClosed, Answered, roomVars, sharing, workerVars, clientVars,
       history, clientDid
  <2>3. \A x : (Outstanding(x)' <=> Outstanding(x)) /\ (Single(x)' <=> Single(x))
    BY <2>2, InboxStays
  <2>4. QED BY <2>1, <2>2, <2>3 DEF AnswerInv, Waiting, At, TypeOK
<1>8. ASSUME NEW m \in Producers, DetachClosed(p, m) PROVE AnswerInv'
  <2>1. pc[p] = "idle" /\ pc' = pc /\ local' = local
    BY <1>8 DEF DetachClosed
  <2>2. UNCHANGED <<reply, inbox>>
    BY <1>8 DEF DetachClosed, roomVars, sharing, workerVars, clientVars, history, clientDid
  <2>3. \A x : (Outstanding(x)' <=> Outstanding(x)) /\ (Single(x)' <=> Single(x))
    BY <2>2, InboxStays
  <2>4. QED BY <2>1, <2>2, <2>3 DEF AnswerInv, Waiting, At
<1>9. QED BY <1>1, <1>2, <1>3, <1>4, <1>5, <1>6, <1>7, <1>8 DEF CloseStep

LEMMA LeaveAnswer ==
  ASSUME TypeOK, HandInv, AnswerInv, NEW p \in Peers, LeaveStep(p)
  PROVE  AnswerInv'
<1>1. CASE Leave(p)
  <2>1. At(p, "idle", "leave") /\ local' = local
    BY <1>1, GotoIs DEF Leave
  <2>2. UNCHANGED <<reply, inbox>>
    BY <1>1 DEF Leave, roomVars, sharing, workerVars, clientVars, history, clientDid
  <2>3. \A x : (Outstanding(x)' <=> Outstanding(x)) /\ (Single(x)' <=> Single(x))
    BY <2>2, InboxStays
  <2>4. QED BY <2>1, <2>2, <2>3 DEF AnswerInv, Waiting, At
<1>2. CASE LeaveSnapshot(p)
  <2>1. /\ At(p, "leave", "notify")
        /\ LocalIs(p, JoinedPeers(p), local[p].visit, local[p].reading, local[p].todo,
                   local[p].job, local[p].prod, local[p].dir, local[p].holding)
    BY <1>2, LeaveSnapshotLocal, GotoIs
  <2>2. UNCHANGED <<reply, inbox>>
    BY <1>2 DEF LeaveSnapshot, roomVars, sharing, workerVars, clientVars, history, clientDid
  <2>3. \A x : (Outstanding(x)' <=> Outstanding(x)) /\ (Single(x)' <=> Single(x))
    BY <2>2, InboxStays
  <2>4. QED BY <2>1, <2>2, <2>3 DEF AnswerInv, Waiting, At
<1>3. CASE LeaveNotify(p)
  <2>1. /\ At(p, "notify", "transports")
        /\ LocalIs(p, {}, {}, None, {}, None, None, None, FALSE)
    BY <1>3, LeaveNotifyLocal, GotoIs
  <2>2. UNCHANGED <<reply, inbox>>
    BY <1>3 DEF LeaveNotify, roomVars, sharing, workerVars, clientVars, history, clientDid
  <2>3. \A x : (Outstanding(x)' <=> Outstanding(x)) /\ (Single(x)' <=> Single(x))
    BY <2>2, InboxStays
  <2>4. QED BY <2>1, <2>2, <2>3 DEF AnswerInv, Waiting, At
<1>4. ASSUME NEW d \in Directions, CloseTransport(p, d) PROVE AnswerInv'
  <2>1. /\ At(p, "transports", "transport")
        /\ LocalIs(p, local[p].others, local[p].visit, local[p].reading, local[p].todo,
                   local[p].job, local[p].prod, d, local[p].holding)
    BY <1>4, CloseTransportLocal, GotoIs
  <2>2. UNCHANGED reply
    BY <1>4 DEF CloseTransport, roomVars, sharing, workerVars, clientVars, history, clientDid
  <2>3. ConsumersOf(IF d = "send" THEN {m \in wProducers : Owner[m] = p} ELSE {}) \in SUBSET Consumer
    BY DEF ConsumersOf, TypeOK
  <2>4. Respond(p, ConsumersOf(IF d = "send" THEN {m \in wProducers : Owner[m] = p} ELSE {}), TRUE)
    BY <1>4 DEF CloseTransport
  <2>5. /\ \A x \in Peers : Outstanding(x)' <=> Outstanding(x) \/ x = p
        /\ \A x \in Peers : Single(x) /\ (x = p => ~Outstanding(p)) => Single(x)'
    BY <2>3, <2>4, RespondMeans DEF TypeOK
  <2>6. QED BY <2>1, <2>2, <2>3, <2>4, <2>5 DEF AnswerInv, Waiting, At
<1>5. CASE TransportAnswered(p)
  <2>1. /\ At(p, "transport", "transports")
        /\ LocalIs(p, local[p].others, local[p].visit, local[p].reading, local[p].todo,
                   local[p].job, local[p].prod, None, local[p].holding)
    BY <1>5, TransportAnsweredLocal, GotoIs
  <2>2. /\ reply[p] # "none" /\ reply' = [reply EXCEPT ![p] = "none"]
        /\ UNCHANGED inbox
    BY <1>5 DEF TransportAnswered, Answered, roomVars, sharing, workerVars, clientVars,
       history, clientDid
  <2>3. \A x : (Outstanding(x)' <=> Outstanding(x)) /\ (Single(x)' <=> Single(x))
    BY <2>2, InboxStays
  <2>4. QED BY <2>1, <2>2, <2>3 DEF AnswerInv, Waiting, At, TypeOK
<1>6. CASE RemovePeer(p)
  <2>1. At(p, "transports", "gone") /\ local' = local
    BY <1>6, GotoIs DEF RemovePeer
  <2>2. UNCHANGED <<reply, inbox>>
    BY <1>6 DEF RemovePeer, roomVars, sharing, workerVars, clientVars, history, clientDid
  <2>3. \A x : (Outstanding(x)' <=> Outstanding(x)) /\ (Single(x)' <=> Single(x))
    BY <2>2, InboxStays
  <2>4. QED BY <2>1, <2>2, <2>3 DEF AnswerInv, Waiting, At
<1>7. QED BY <1>1, <1>2, <1>3, <1>4, <1>5, <1>6 DEF LeaveStep

LEMMA PoolBase ==
  ASSUME TypeOK, HandInv, AnswerInv, Pool
  PROVE  TypeOK' /\ HandInv' /\ AnswerInv'
<1>1. CASE PoolResponse
  <2>1. PICK x \in Peers, ok \in BOOLEAN :
          /\ Outstanding(x) /\ ~Outstanding(x)'
          /\ reply' = [reply EXCEPT ![x] = IF ok THEN "ok" ELSE "error"]
          /\ \A y \in Peers \ {x} : Outstanding(y)' <=> Outstanding(y)
          /\ \A y \in Peers : Single(y)'
    BY <1>1, PoolResponseMeans
  <2>2. inbox' \in Seq(Message)
    BY <1>1, Taken DEF PoolResponse, TypeOK
  <2>3. UNCHANGED <<peerMap, joined, producers, consumers, router, shared, closed, pc, local,
                    wTransports, wProducers, wConsumers, told, knows, made, videos, ended,
                    missed, ghosts, crashed>>
    BY <1>1 DEF PoolResponse, roomVars, sharing, workerVars, clientVars, history, clientDid
  <2>4. TypeOK'
    BY <2>1, <2>2, <2>3 DEF TypeOK
  <2>5. HandInv'
    BY <2>3 DEF HandInv
  <2>6. AnswerInv'
    BY <2>1, <2>3 DEF AnswerInv, TypeOK
  <2>7. QED BY <2>4, <2>5, <2>6
<1>2. CASE PoolProducerClose
  <2> DEFINE c == Head(inbox).consumer
  <2>1. /\ c \in Consumer /\ inbox' \in Seq(Message)
        /\ \A y \in Peers : (Outstanding(y)' <=> Outstanding(y)) /\ (Single(y) => Single(y)')
    BY <1>2, PoolCloseMeans
  <2>2. /\ consumers' = [consumers EXCEPT ![c.peer] = @ \ {c}]
        /\ told' = IF c \in consumers[c.peer]
                   THEN [told EXCEPT ![c.peer] = @ \ {c}] ELSE told
        /\ missed' \subseteq missed \cup {c}
        /\ UNCHANGED <<peerMap, joined, producers, router, shared, closed, pc, local, reply,
                       wTransports, wProducers, wConsumers, knows, made, videos, ended,
                       ghosts, crashed>>
    BY <1>2 DEF PoolProducerClose, sharing, workerVars, clientDid
  <2> HIDE DEF c
  <2>3. c.peer \in Peers
    BY <2>1 DEF Consumer
  <2>4. TypeOK'
    BY <2>1, <2>2, <2>3 DEF TypeOK
  <2>5. HandInv'
    BY <2>2 DEF HandInv
  <2>6. AnswerInv'
    BY <2>1, <2>2 DEF AnswerInv
  <2>7. QED BY <2>4, <2>5, <2>6
<1>3. QED BY <1>1, <1>2 DEF Pool

\* A step of the room is a peer's or the pool thread's, and none follows a crash.
LEMMA Steps ==
  ASSUME Next
  PROVE  /\ crashed = None
         /\ \/ \E p \in Peers : JoinStep(p) \/ ConsumeStep(p) \/ ProduceStep(p)
                                \/ CloseStep(p) \/ LeaveStep(p)
            \/ Pool
<1>1. CASE Pool
  BY <1>1 DEF Next
<1>2. ASSUME NEW p \in Peers, Start(p)
      PROVE  JoinStep(p) \/ ProduceStep(p) \/ CloseStep(p) \/ LeaveStep(p)
  BY <1>2 DEF Start, NullStep, JoinStep, ProduceStep, CloseStep, LeaveStep
<1>3. ASSUME NEW p \in Peers, Continue(p)
      PROVE  JoinStep(p) \/ ConsumeStep(p) \/ ProduceStep(p) \/ CloseStep(p) \/ LeaveStep(p)
  BY <1>3 DEF Continue, JoinStep, ConsumeStep, ProduceStep, CloseStep, LeaveStep
<1>4. QED BY <1>1, <1>2, <1>3 DEF Next

LEMMA BaseStep == BaseInv /\ [Next]_vars => BaseInv'
<1> SUFFICES ASSUME BaseInv, [Next]_vars PROVE BaseInv'
  OBVIOUS
<1> USE DEF BaseInv
<1>1. CASE UNCHANGED vars
  <2>1. inbox' = inbox /\ pc' = pc /\ reply' = reply
    BY <1>1 DEF vars
  <2>2. AnswerInv'
    BY <2>1, InboxStays DEF AnswerInv
  <2>3. TypeOK' /\ HandInv'
    BY <1>1 DEF TypeOK, HandInv, vars, roomVars, sharing, workerVars, clientVars, history,
                clientDid
  <2>4. QED BY <2>2, <2>3
<1>2. ASSUME NEW p \in Peers, JoinStep(p) PROVE BaseInv'
  BY <1>2, JoinType, JoinHand, JoinAnswer
<1>3. ASSUME NEW p \in Peers, ConsumeStep(p) PROVE BaseInv'
  BY <1>3, ConsumeType, ConsumeHand, ConsumeAnswer
<1>4. ASSUME NEW p \in Peers, ProduceStep(p) PROVE BaseInv'
  BY <1>4, ProduceType, ProduceHand, ProduceAnswer
<1>5. ASSUME NEW p \in Peers, CloseStep(p) PROVE BaseInv'
  BY <1>5, CloseType, CloseHand, CloseAnswer
<1>6. ASSUME NEW p \in Peers, LeaveStep(p) PROVE BaseInv'
  BY <1>6, LeaveType, LeaveHand, LeaveAnswer
<1>7. CASE Pool
  BY <1>7, PoolBase
<1>8. QED BY <1>1, <1>2, <1>3, <1>4, <1>5, <1>6, <1>7, Steps

\* The type invariant is inductive with two facts about handlers: one that waits for
\* the worker has one answer to come at most, and each has at hand what it uses next.
THEOREM BaseInvariant == Spec => []BaseInv
<1>1. Init => BaseInv
  BY TypeInit DEF BaseInv
<1>2. QED BY <1>1, BaseStep, PTL DEF Spec

\* The room's state stays of its type, whatever the handlers, the pool thread and
\* the worker interleave.
THEOREM TypeCorrect == Spec => []TypeOK
<1>1. BaseInv => TypeOK
  BY DEF BaseInv
<1>2. QED BY <1>1, BaseInvariant, PTL

-----------------------------------------------------------------------------
(* Locks, tasks and producers                                            *)

LEMMA OwnMeans ==
  ASSUME OwnInv, crashed = None, NEW p \in Peers, local[p].prod # None
  PROVE  local[p].prod \in made /\ Owner[local[p].prod] = p
<1>1. pc[p] # "idle"
  BY DEF OwnInv, Creates, Consuming
<1>2. QED BY <1>1 DEF OwnInv

LEMMA JoinStage ==
  ASSUME TypeOK, HandInv, AnswerInv, LockInv, TaskInv, StageInv, OwnInv, crashed = None, NEW p \in Peers, JoinStep(p)
  PROVE  LockInv' /\ TaskInv' /\ StageInv' /\ OwnInv'
<1>1. CASE Join(p)
  <2>1. At(p, "idle", "caps") /\ local' = local
    BY <1>1, GotoIs DEF Join
  <2>2. /\ joined' = joined \cup {p}
        /\ p \in peerMap \ joined
        /\ UNCHANGED <<peerMap, producers, router, shared, wTransports, wProducers, made,
                       videos, crashed>>
    BY <1>1 DEF Join, roomVars, sharing, workerVars, clientVars, history, clientDid
  <2>3. LockInv'
    BY <2>1, <2>2 DEF LockInv, LocksAreReleased, LocalIs, At
  <2>4. TaskInv'
    BY <2>1, <2>2 DEF TaskInv, Tasked, Announcing, Walking, Sharing, Task, Consuming,
       Creating, LocalIs, At
  <2>5. StageInv'
    BY <2>1, <2>2 DEF StageInv, Staged, Joining, Consuming, Leaving, LocalIs, At
  <2>6. OwnInv'
    BY <2>1, <2>2 DEF OwnInv, Creates, Consuming, LocalIs, At
  <2>7. QED BY <2>3, <2>4, <2>5, <2>6
<1>2. CASE JoinSnapshot(p)
  <2>1. /\ At(p, "caps", "accept")
        /\ LocalIs(p, JoinedPeers(p), JoinedPeers(p), local[p].reading, local[p].todo,
                   local[p].job, local[p].prod, local[p].dir, local[p].holding)
    BY <1>2, JoinSnapshotLocal, GotoIs
  <2>2. UNCHANGED <<peerMap, joined, producers, router, shared, wTransports, wProducers,
                    made, videos, crashed>>
    BY <1>2 DEF JoinSnapshot, roomVars, sharing, workerVars, clientVars, history, clientDid
  <2>3. LockInv'
    BY <2>1, <2>2 DEF LockInv, LocksAreReleased, LocalIs, At, JoinedPeers
  <2>4. TaskInv'
    BY <2>1, <2>2 DEF TaskInv, Tasked, Announcing, Walking, Sharing, Task, Consuming,
       Creating, LocalIs, At
  <2>5. StageInv'
    BY <2>1, <2>2 DEF StageInv, Staged, Joining, Consuming, Leaving, LocalIs, At, JoinedPeers
  <2>6. OwnInv'
    BY <2>1, <2>2 DEF OwnInv, Creates, Consuming, LocalIs, At
  <2>7. QED BY <2>3, <2>4, <2>5, <2>6
<1>3. CASE JoinAccept(p)
  <2>1. At(p, "accept", "visit") /\ local' = local
    BY <1>3, GotoIs DEF JoinAccept
  <2>2. UNCHANGED <<peerMap, joined, producers, router, shared, wTransports, wProducers,
                    made, videos, crashed>>
    BY <1>3 DEF JoinAccept, roomVars, sharing, workerVars, clientVars, history, clientDid
  <2>3. LockInv'
    BY <2>1, <2>2 DEF LockInv, LocksAreReleased, LocalIs, At
  <2>4. TaskInv'
    BY <2>1, <2>2 DEF TaskInv, Tasked, Announcing, Walking, Sharing, Task, Consuming,
       Creating, LocalIs, At
  <2>5. StageInv'
    BY <2>1, <2>2 DEF StageInv, Staged, Joining, Consuming, Leaving, LocalIs, At
  <2>6. OwnInv'
    BY <2>1, <2>2 DEF OwnInv, Creates, Consuming, LocalIs, At
  <2>7. QED BY <2>3, <2>4, <2>5, <2>6
<1>4. ASSUME Visit(p), NEW q \in local[p].visit, Visits(p, q) PROVE LockInv' /\ TaskInv' /\ StageInv' /\ OwnInv'
  <2>2. UNCHANGED <<peerMap, joined, producers, router, shared, wTransports, wProducers,
                    made, videos, crashed>>
    BY <1>4 DEF Visit, roomVars, sharing, workerVars, clientVars, history, clientDid
  <2>3. LockInv'
    BY <1>4, <2>2 DEF LockInv, LocksAreReleased, LocalIs, At, Visits
  <2>4. q \in Peers /\ q # None
    BY <1>4, NoneAssumption DEF TypeOK, Local
  <2>5. /\ local[p].prod = None /\ local[p].job = None /\ local[p].todo = {}
        /\ ~local[p].holding
    BY <1>4 DEF OwnInv, TaskInv, Tasked, LockInv, LocksAreReleased, Visits, At, Creates,
       Creating, Consuming
  <2>6. \A m \in producers[q] : m \in made /\ m \notin videos /\ Owner[m] = q
    BY <2>4 DEF HandInv, OwnInv
  <2>7. Walking(p)'
    BY <1>4, <2>2, <2>4, <2>5, <2>6 DEF Walking, Task, Visits, LocalIs
  <2>8. TaskInv'
    BY <1>4, <2>2, <2>4, <2>5, <2>6, <2>7 DEF TaskInv, Tasked, Announcing, Walking, Sharing,
       Task, Consuming, Creating, LocalIs, At, Visits
  <2>9. local[p].prod = None
    BY <1>4 DEF OwnInv, Creates, Consuming, At, Visits
  <2>10. StageInv'
    BY <1>4, <2>2, <2>9 DEF StageInv, Staged, Joining, Consuming, Leaving, LocalIs, At, Visits
  <2>11. OwnInv'
    BY <1>4, <2>2 DEF OwnInv, Creates, Consuming, LocalIs, At, Visits
  <2>12. QED BY <2>3, <2>8, <2>10, <2>11
<1>5. CASE JoinSharing(p) /\ VideoShared
  <2>1. /\ At(p, "visit", "consume")
        /\ LocalIs(p, local[p].others, local[p].visit, local[p].reading, {<<p,
                   shared>>}, local[p].job, local[p].prod, local[p].dir, TRUE)
    BY <1>5, JoinSharingLocal, GotoIs
  <2>2. /\ local[p].visit = {} /\ Free
        /\ UNCHANGED <<peerMap, joined, producers, router, shared, wTransports, wProducers,
                       made, videos, crashed>>
    BY <1>5 DEF JoinSharing, roomVars, sharing, workerVars, clientVars, history, clientDid
  <2>3. LockInv'
    BY <2>1, <2>2 DEF LockInv, LocksAreReleased, LocalIs, At, Free
  <2>4. /\ local[p].prod = None /\ local[p].job = None /\ local[p].reading = None
        /\ shared # None /\ local[p].visit = {}
    BY <1>5, <2>1, <2>2 DEF OwnInv, TaskInv, Tasked, LockInv, LocksAreReleased, At, Creates,
       Creating, Consuming, VideoShared
  <2>5. Sharing(p)'
    BY <2>1, <2>2, <2>4 DEF Sharing, Task, LocalIs
  <2>6. TaskInv'
    BY <2>1, <2>2, <2>4, <2>5 DEF TaskInv, Tasked, Announcing, Walking, Sharing, Task,
       Consuming, Creating, LocalIs, At
  <2>7. local[p].prod = None
    BY <1>5, <2>1 DEF OwnInv, Creates, Consuming, At
  <2>8. StageInv'
    BY <2>1, <2>2, <2>7 DEF StageInv, Staged, Joining, Consuming, Leaving, LocalIs, At
  <2>9. OwnInv'
    BY <2>1, <2>2 DEF OwnInv, Creates, Consuming, LocalIs, At
  <2>10. QED BY <2>3, <2>6, <2>8, <2>9
<1>6. CASE JoinSharing(p) /\ ~VideoShared
  <2>1. At(p, "visit", "newPeer") /\ local' = local
    BY <1>6, GotoIs DEF JoinSharing
  <2>2. /\ local[p].visit = {}
        /\ UNCHANGED <<peerMap, joined, producers, router, shared, wTransports, wProducers,
                       made, videos, crashed>>
    BY <1>6 DEF JoinSharing, roomVars, sharing, workerVars, clientVars, history, clientDid
  <2>3. LockInv'
    BY <2>1, <2>2 DEF LockInv, LocksAreReleased, LocalIs, At
  <2>4. TaskInv'
    BY <2>1, <2>2 DEF TaskInv, Tasked, Announcing, Walking, Sharing, Task, Consuming,
       Creating, LocalIs, At
  <2>5. StageInv'
    BY <2>1, <2>2 DEF StageInv, Staged, Joining, Consuming, Leaving, LocalIs, At
  <2>6. OwnInv'
    BY <2>1, <2>2 DEF OwnInv, Creates, Consuming, LocalIs, At
  <2>7. QED BY <2>3, <2>4, <2>5, <2>6
<1>7. CASE JoinDone(p)
  <2>1. /\ At(p, "newPeer", "idle")
        /\ LocalIs(p, {}, {}, None, {}, None, None, None, FALSE)
    BY <1>7, JoinDoneLocal, GotoIs
  <2>2. UNCHANGED <<peerMap, joined, producers, router, shared, wTransports, wProducers,
                    made, videos, crashed>>
    BY <1>7 DEF JoinDone, roomVars, sharing, workerVars, clientVars, history, clientDid
  <2>3. LockInv'
    BY <2>1, <2>2 DEF LockInv, LocksAreReleased, LocalIs, At
  <2>4. TaskInv'
    BY <2>1, <2>2 DEF TaskInv, Tasked, Announcing, Walking, Sharing, Task, Consuming,
       Creating, LocalIs, At
  <2>5. StageInv'
    <3>1. Staged(p)'
      BY <2>1, <2>2 DEF StageInv, Staged, Joining, Consuming, Leaving, LocalIs, At
    <3>2. ASSUME NEW x \in Peers, x # p PROVE Staged(x)'
      <4>1. pc'[x] = pc[x] /\ local'[x] = local[x]
        BY <2>1, <3>2 DEF At, LocalIs
      <4>2. QED BY <2>2, <4>1, <3>2 DEF StageInv, Staged, Joining, Consuming, Leaving
    <3>3. QED BY <3>1, <3>2 DEF StageInv
  <2>6. OwnInv'
    BY <2>1, <2>2 DEF OwnInv, Creates, Consuming, LocalIs, At
  <2>7. QED BY <2>3, <2>4, <2>5, <2>6
<1>8. QED BY <1>1, <1>2, <1>3, <1>4, <1>5, <1>6, <1>7, VisitLocal DEF JoinStep

LEMMA ConsumeStage ==
  ASSUME TypeOK, HandInv, AnswerInv, LockInv, TaskInv, StageInv, OwnInv, crashed = None, NEW p \in Peers, ConsumeStep(p)
  PROVE  LockInv' /\ TaskInv' /\ StageInv' /\ OwnInv'
<1>1. ASSUME CanConsume(p), NEW w \in local[p].todo, Skip(p, w) PROVE LockInv' /\ TaskInv' /\ StageInv' /\ OwnInv'
  <2>2. UNCHANGED <<peerMap, joined, producers, router, shared, wTransports, wProducers,
                    made, videos, crashed>>
    BY <1>1 DEF CanConsume, roomVars, sharing, workerVars, clientVars, history, clientDid
  <2>3. LockInv'
    BY <1>1, <2>2 DEF LockInv, LocksAreReleased, LocalIs, At, Skip
  <2>4. TaskInv'
    BY <1>1, <2>2 DEF TaskInv, Tasked, Announcing, Walking, Sharing, Task, Consuming,
       Creating, LocalIs, At, Skip
  <2>5. StageInv'
    BY <1>1, <2>2 DEF StageInv, Staged, Joining, Consuming, Leaving, LocalIs, At, Skip
  <2>6. OwnInv'
    BY <1>1, <2>2 DEF OwnInv, Creates, Consuming, LocalIs, At, Skip
  <2>7. QED BY <2>3, <2>4, <2>5, <2>6
<1>2. ASSUME CanConsume(p), NEW w \in local[p].todo, Take(p, w) PROVE LockInv' /\ TaskInv' /\ StageInv' /\ OwnInv'
  <2>2. UNCHANGED <<peerMap, joined, producers, router, shared, wTransports, wProducers,
                    made, videos, crashed>>
    BY <1>2 DEF CanConsume, roomVars, sharing, workerVars, clientVars, history, clientDid
  <2>3. LockInv'
    BY <1>2, <2>2 DEF LockInv, LocksAreReleased, LocalIs, At, Take
  <2>4. w \in Peers \X Producers /\ w = <<w[1], w[2]>>
    BY <1>2 DEF TypeOK, Local
  <2>5. [peer |-> w[1], prod |-> w[2], maker |-> p] # None
    BY NoneAssumption, <1>2 DEF TypeOK, Local, Consumer
  <2>6. \A x \in Peers, m \in Producers : Task(p, x, m)' => Task(p, x, m)
    BY <1>2, <2>4, <2>5 DEF Task, Take, LocalIs
  <2>7. <<w[1], w[2]>> \notin local'[p].todo
    BY <1>2, <2>4 DEF Take, LocalIs
  <2>8. Announcing(p) => Announcing(p)'
    BY <1>2, <2>2, <2>6 DEF Announcing, Take, LocalIs
  <2>9. Walking(p) => Walking(p)'
    BY <1>2, <2>2, <2>6 DEF Walking, Take, LocalIs
  <2>10. Sharing(p) => Sharing(p)'
    BY <1>2, <2>2, <2>6 DEF Sharing, Take, LocalIs
  <2>11. /\ local'[p].job # None /\ local'[p].job.maker = p
         /\ <<local'[p].job.peer, local'[p].job.prod>> \notin local'[p].todo
    BY <1>2, <2>5, <2>7 DEF Take, LocalIs
  <2>12. TaskInv'
    <3>1. Tasked(p)'
      BY <1>2, <2>2, <2>4, <2>5, <2>6, <2>7, <2>8, <2>9, <2>10, <2>11 DEF TaskInv, Tasked,
         Consuming, Creating, Take, LocalIs, At
    <3>2. ASSUME NEW x \in Peers, x # p PROVE Tasked(x)'
      <4>1. pc'[x] = pc[x] /\ local'[x] = local[x]
        BY <1>2, <3>2 DEF At, LocalIs, Take
      <4>2. QED BY <2>2, <2>4, <2>5, <2>6, <2>7, <2>8, <2>9, <2>10, <2>11, <4>1,
                   <3>2 DEF TaskInv, Tasked, Announcing, Walking, Sharing, Task, Consuming,
                   Creating, Take
    <3>3. QED BY <3>1, <3>2 DEF TaskInv
  <2>13. StageInv'
    BY <1>2, <2>2 DEF StageInv, Staged, Joining, Consuming, Leaving, LocalIs, At, Take
  <2>14. OwnInv'
    BY <1>2, <2>2 DEF OwnInv, Creates, Consuming, LocalIs, At, Take
  <2>15. QED BY <2>3, <2>12, <2>13, <2>14
<1>3. CASE ConsumeDone(p)
  <2>1. /\ At(p, "consume", IF local[p].holding THEN "newPeer" ELSE IF local[p].reading = None THEN "idle" ELSE "visit")
        /\ LocalIs(p, local[p].others, local[p].visit, None, local[p].todo,
                   local[p].job, None, local[p].dir, FALSE)
    BY <1>3, ConsumeDoneLocal, GotoIs
  <2>2. /\ local[p].todo = {}
        /\ UNCHANGED <<peerMap, joined, producers, router, shared, wTransports, wProducers,
                       made, videos, crashed>>
    BY <1>3 DEF ConsumeDone, roomVars, sharing, workerVars, clientVars, history, clientDid
  <2>3. LockInv'
    BY <2>1, <2>2 DEF LockInv, LocksAreReleased, LocalIs, At
  <2>4. TaskInv'
    BY <2>1, <2>2 DEF TaskInv, Tasked, Announcing, Walking, Sharing, Task, Consuming,
       Creating, LocalIs, At
  <2>5. Announcing(p) \/ Walking(p) \/ Sharing(p)
    BY <2>1 DEF TaskInv, Tasked, Consuming, At
  <2>6. StageInv'
    BY <2>1, <2>2, <2>5 DEF StageInv, Staged, Joining, Consuming, Leaving, LocalIs, At,
       Announcing, Walking, Sharing
  <2>7. OwnInv'
    BY <2>1, <2>2 DEF OwnInv, Creates, Consuming, LocalIs, At
  <2>8. QED BY <2>3, <2>4, <2>6, <2>7
<1>4. CASE ConsumeNull(p)
  <2>1. pc[p] = "request" /\ pc' = pc /\ local' = local
    BY <1>4 DEF ConsumeNull
  <2>2. /\ crashed' = p
        /\ UNCHANGED <<peerMap, joined, producers, router, shared, wTransports, wProducers,
                       made, videos>>
    BY <1>4 DEF ConsumeNull, roomVars, sharing, workerVars, clientVars, history, clientDid
  <2>3. LockInv'
    BY <2>1, <2>2 DEF LockInv, LocksAreReleased, LocalIs, At
  <2>4. TaskInv'
    BY <2>1, <2>2 DEF TaskInv, Tasked, Announcing, Walking, Sharing, Task, Consuming,
       Creating, LocalIs, At
  <2>5. StageInv'
    BY <2>1, <2>2 DEF StageInv, Staged, Joining, Consuming, Leaving, LocalIs, At
  <2>6. OwnInv'
    BY <2>1, <2>2 DEF OwnInv, Creates, Consuming, LocalIs, At
  <2>7. QED BY <2>3, <2>4, <2>5, <2>6
<1>5. CASE Consume(p)
  <2>1. At(p, "request", "consuming") /\ local' = local
    BY <1>5, GotoIs DEF Consume
  <2>2. UNCHANGED <<peerMap, joined, producers, router, shared, wTransports, wProducers,
                    made, videos, crashed>>
    BY <1>5 DEF Consume, roomVars, sharing, workerVars, clientVars, history, clientDid
  <2>3. LockInv'
    BY <2>1, <2>2 DEF LockInv, LocksAreReleased, LocalIs, At
  <2>4. TaskInv'
    BY <2>1, <2>2 DEF TaskInv, Tasked, Announcing, Walking, Sharing, Task, Consuming,
       Creating, LocalIs, At
  <2>5. StageInv'
    BY <2>1, <2>2 DEF StageInv, Staged, Joining, Consuming, Leaving, LocalIs, At
  <2>6. OwnInv'
    BY <2>1, <2>2 DEF OwnInv, Creates, Consuming, LocalIs, At
  <2>7. QED BY <2>3, <2>4, <2>5, <2>6
<1>6. CASE ConsumeAnswered(p) /\ reply[p] = "ok"
  <2>1. At(p, "consuming", "emplace") /\ local' = local
    BY <1>6, GotoIs DEF ConsumeAnswered
  <2>2. UNCHANGED <<peerMap, joined, producers, router, shared, wTransports, wProducers,
                    made, videos, crashed>>
    BY <1>6 DEF ConsumeAnswered, roomVars, sharing, workerVars, clientVars, history, clientDid
  <2>3. LockInv'
    BY <2>1, <2>2 DEF LockInv, LocksAreReleased, LocalIs, At
  <2>4. TaskInv'
    BY <2>1, <2>2 DEF TaskInv, Tasked, Announcing, Walking, Sharing, Task, Consuming,
       Creating, LocalIs, At
  <2>5. StageInv'
    BY <2>1, <2>2 DEF StageInv, Staged, Joining, Consuming, Leaving, LocalIs, At
  <2>6. OwnInv'
    BY <2>1, <2>2 DEF OwnInv, Creates, Consuming, LocalIs, At
  <2>7. QED BY <2>3, <2>4, <2>5, <2>6
<1>7. CASE ConsumeAnswered(p) /\ reply[p] # "ok"
  <2>1. /\ At(p, "consuming", "leave")
        /\ LocalIs(p, {}, {}, None, {}, None, None, None, FALSE)
    BY <1>7, ConsumeAnsweredLocal, GotoIs
  <2>2. UNCHANGED <<peerMap, joined, producers, router, shared, wTransports, wProducers,
                    made, videos, crashed>>
    BY <1>7 DEF ConsumeAnswered, roomVars, sharing, workerVars, clientVars, history, clientDid
  <2>3. LockInv'
    BY <2>1, <2>2 DEF LockInv, LocksAreReleased, LocalIs, At
  <2>4. TaskInv'
    BY <2>1, <2>2 DEF TaskInv, Tasked, Announcing, Walking, Sharing, Task, Consuming,
       Creating, LocalIs, At
  <2>5. StageInv'
    <3>1. Staged(p)'
      BY <2>1, <2>2 DEF StageInv, Staged, Joining, Consuming, Leaving, LocalIs, At
    <3>2. ASSUME NEW x \in Peers, x # p PROVE Staged(x)'
      <4>1. pc'[x] = pc[x] /\ local'[x] = local[x]
        BY <2>1, <3>2 DEF At, LocalIs
      <4>2. QED BY <2>2, <4>1, <3>2 DEF StageInv, Staged, Joining, Consuming, Leaving
    <3>3. QED BY <3>1, <3>2 DEF StageInv
  <2>6. OwnInv'
    BY <2>1, <2>2 DEF OwnInv, Creates, Consuming, LocalIs, At
  <2>7. QED BY <2>3, <2>4, <2>5, <2>6
<1>8. CASE Emplace(p)
  <2>1. At(p, "emplace", "tell") /\ local' = local
    BY <1>8, GotoIs DEF Emplace
  <2>2. UNCHANGED <<peerMap, joined, producers, router, shared, wTransports, wProducers,
                    made, videos, crashed>>
    BY <1>8 DEF Emplace, roomVars, sharing, workerVars, clientVars, history, clientDid
  <2>3. LockInv'
    BY <2>1, <2>2 DEF LockInv, LocksAreReleased, LocalIs, At
  <2>4. TaskInv'
    BY <2>1, <2>2 DEF TaskInv, Tasked, Announcing, Walking, Sharing, Task, Consuming,
       Creating, LocalIs, At
  <2>5. StageInv'
    BY <2>1, <2>2 DEF StageInv, Staged, Joining, Consuming, Leaving, LocalIs, At
  <2>6. OwnInv'
    BY <2>1, <2>2 DEF OwnInv, Creates, Consuming, LocalIs, At
  <2>7. QED BY <2>3, <2>4, <2>5, <2>6
<1>9. CASE Tell(p)
  <2>1. /\ At(p, "tell", "consume")
        /\ LocalIs(p, local[p].others, local[p].visit, local[p].reading, local[p].todo,
                   None, local[p].prod, local[p].dir, local[p].holding)
    BY <1>9, TellLocal, GotoIs
  <2>2. UNCHANGED <<peerMap, joined, producers, router, shared, wTransports, wProducers,
                    made, videos, crashed>>
    BY <1>9 DEF Tell, roomVars, sharing, workerVars, clientVars, history, clientDid
  <2>3. LockInv'
    BY <2>1, <2>2 DEF LockInv, LocksAreReleased, LocalIs, At
  <2>4. \A x \in Peers, m \in Producers : Task(p, x, m)' => Task(p, x, m)
    BY <2>1 DEF Task, LocalIs
  <2>5. Announcing(p) => Announcing(p)'
    BY <2>1, <2>2, <2>4 DEF Announcing, LocalIs
  <2>6. Walking(p) => Walking(p)'
    BY <2>1, <2>2, <2>4 DEF Walking, LocalIs
  <2>7. Sharing(p) => Sharing(p)'
    BY <2>1, <2>2, <2>4 DEF Sharing, LocalIs
  <2>8. TaskInv'
    <3>1. Tasked(p)'
      BY <2>1, <2>2, <2>4, <2>5, <2>6, <2>7 DEF TaskInv, Tasked, Consuming, Creating,
         LocalIs, At
    <3>2. ASSUME NEW x \in Peers, x # p PROVE Tasked(x)'
      <4>1. pc'[x] = pc[x] /\ local'[x] = local[x]
        BY <2>1, <3>2 DEF At, LocalIs
      <4>2. QED BY <2>2, <2>4, <2>5, <2>6, <2>7, <4>1, <3>2 DEF TaskInv, Tasked, Announcing,
                   Walking, Sharing, Task, Consuming, Creating
    <3>3. QED BY <3>1, <3>2 DEF TaskInv
  <2>9. StageInv'
    BY <2>1, <2>2 DEF StageInv, Staged, Joining, Consuming, Leaving, LocalIs, At
  <2>10. OwnInv'
    BY <2>1, <2>2 DEF OwnInv, Creates, Consuming, LocalIs, At
  <2>11. QED BY <2>3, <2>8, <2>9, <2>10
<1>10. QED BY <1>1, <1>2, <1>3, <1>4, <1>5, <1>6, <1>7, <1>8, <1>9,
              CanConsumeLocal DEF ConsumeStep

LEMMA ProduceStage ==
  ASSUME TypeOK, HandInv, AnswerInv, LockInv, TaskInv, StageInv, OwnInv, crashed = None, NEW p \in Peers, ProduceStep(p)
  PROVE  LockInv' /\ TaskInv' /\ StageInv' /\ OwnInv'
<1>1. ASSUME NEW m \in Producers, Produce(p, m) PROVE LockInv' /\ TaskInv' /\ StageInv' /\ OwnInv'
  <2>1. /\ At(p, "idle", "producing")
        /\ LocalIs(p, local[p].others, local[p].visit, local[p].reading, local[p].todo,
                   local[p].job, m, local[p].dir, local[p].holding)
    BY <1>1, ProduceLocal, GotoIs
  <2>2. /\ videos' \in {videos, videos \cup {m}}
        /\ p \in joined /\ Owner[m] = p /\ m \notin made
        /\ wProducers' = wProducers \cup {m}
        /\ made' = made \cup {m}
        /\ UNCHANGED <<peerMap, joined, producers, router, shared, wTransports, crashed>>
    BY <1>1 DEF Produce, roomVars, sharing, workerVars, clientVars, history, clientDid
  <2>3. LockInv'
    BY <2>1, <2>2 DEF LockInv, LocksAreReleased, LocalIs, At
  <2>4. TaskInv'
    BY <2>1, <2>2 DEF TaskInv, Tasked, Announcing, Walking, Sharing, Task, Consuming,
       Creating, LocalIs, At
  <2>5. StageInv'
    BY <2>1, <2>2 DEF StageInv, Staged, Joining, Consuming, Leaving, LocalIs, At
  <2>6. \A x \in Peers : producers[x] \subseteq made
    BY DEF HandInv
  <2>7. shared \in made \cup {None} /\ m # None
    BY NoneAssumption DEF TypeOK
  <2>8. OwnInv'
    BY <2>1, <2>2, <2>6, <2>7 DEF OwnInv, Creates, Consuming, LocalIs, At
  <2>9. QED BY <2>3, <2>4, <2>5, <2>8
<1>2. CASE ProduceAnswered(p)
  <2>1. At(p, "producing", IF local[p].prod \in videos THEN "share" ELSE "store") /\ local' = local
    BY <1>2, GotoIs DEF ProduceAnswered
  <2>2. /\ router' = router \cup {local[p].prod}
        /\ UNCHANGED <<peerMap, joined, producers, shared, wTransports, wProducers, made,
                       videos, crashed>>
    BY <1>2 DEF ProduceAnswered, roomVars, sharing, workerVars, clientVars, history, clientDid
  <2>3. LockInv'
    BY <2>1, <2>2 DEF LockInv, LocksAreReleased, LocalIs, At
  <2>4. TaskInv'
    BY <2>1, <2>2 DEF TaskInv, Tasked, Announcing, Walking, Sharing, Task, Consuming,
       Creating, LocalIs, At
  <2>5. StageInv'
    BY <2>1, <2>2 DEF StageInv, Staged, Joining, Consuming, Leaving, LocalIs, At
  <2>6. OwnInv'
    BY <2>1, <2>2 DEF OwnInv, Creates, Consuming, LocalIs, At
  <2>7. QED BY <2>3, <2>4, <2>5, <2>6
<1>3. CASE Store(p)
  <2>1. At(p, "store", "announce") /\ local' = local
    BY <1>3, GotoIs DEF Store
  <2>2. /\ producers' = [producers EXCEPT ![p] = @ \cup {local[p].prod}]
        /\ UNCHANGED <<peerMap, joined, router, shared, wTransports, wProducers, made,
                       videos, crashed>>
    BY <1>3 DEF Store, roomVars, sharing, workerVars, clientVars, history, clientDid
  <2>3. LockInv'
    BY <2>1, <2>2 DEF LockInv, LocksAreReleased, LocalIs, At
  <2>4. TaskInv'
    BY <2>1, <2>2 DEF TaskInv, Tasked, Announcing, Walking, Sharing, Task, Consuming,
       Creating, LocalIs, At
  <2>5. StageInv'
    BY <2>1, <2>2 DEF StageInv, Staged, Joining, Consuming, Leaving, LocalIs, At
  <2>6. producers'[p] = producers[p] \cup {local[p].prod}
        /\ \A x \in Peers : x # p => producers'[x] = producers[x]
    BY <2>2 DEF TypeOK
  <2>7. \A x \in Peers : pc[x] \in Creates \cup {"closing", "erase"} => local[x].prod # None
    BY DEF HandInv
  <2>8. OwnInv'
    BY <2>1, <2>2, <2>6, <2>7 DEF OwnInv, Creates, Consuming, LocalIs, At
  <2>9. QED BY <2>3, <2>4, <2>5, <2>8
<1>4. CASE Announce(p)
  <2>0. local[p].prod # None
    BY <1>4 DEF Announce, HandInv, Creates, Goto
  <2>1. /\ At(p, "announce", "consume")
        /\ LocalIs(p, local[p].others, local[p].visit, local[p].reading,
                   JoinedPeers(p) \X {local[p].prod}, local[p].job, local[p].prod,
                   local[p].dir, local[p].holding)
    BY <1>4, AnnounceLocal, GotoIs, <2>0
  <2>2. UNCHANGED <<peerMap, joined, producers, router, shared, wTransports, wProducers,
                    made, videos, crashed>>
    BY <1>4 DEF Announce, roomVars, sharing, workerVars, clientVars, history, clientDid
  <2>3. LockInv'
    BY <2>1, <2>2 DEF LockInv, LocksAreReleased, LocalIs, At
  <2>4. /\ local[p].job = None /\ local[p].reading = None /\ ~local[p].holding
        /\ local[p].others = {}
    BY <2>1 DEF TaskInv, Tasked, LockInv, LocksAreReleased, StageInv, Staged, Joining, At,
       Creating, Consuming
  <2>5. Announcing(p)'
    BY <2>0, <2>1, <2>4 DEF Announcing, Task, LocalIs, JoinedPeers
  <2>6. TaskInv'
    BY <2>1, <2>2, <2>4, <2>5 DEF TaskInv, Tasked, Announcing, Walking, Sharing, Task,
       Consuming, Creating, LocalIs, At
  <2>7. StageInv'
    BY <2>1, <2>2, <2>0 DEF StageInv, Staged, Joining, Consuming, Leaving, LocalIs, At
  <2>8. OwnInv'
    BY <2>1, <2>2 DEF OwnInv, Creates, Consuming, LocalIs, At
  <2>9. QED BY <2>3, <2>6, <2>7, <2>8
<1>5. CASE Replace(p)
  <2>1. /\ At(p, "share", "replacing")
        /\ LocalIs(p, local[p].others, local[p].visit, local[p].reading, local[p].todo,
                   local[p].job, local[p].prod, local[p].dir, TRUE)
    BY <1>5, ReplaceLocal, GotoIs
  <2>2. /\ wProducers' = wProducers \ {shared}
        /\ Free
        /\ UNCHANGED <<peerMap, joined, producers, router, shared, wTransports, made, videos,
                       crashed>>
    BY <1>5 DEF Replace, roomVars, sharing, workerVars, clientVars, history, clientDid
  <2>3. LockInv'
    BY <2>1, <2>2 DEF LockInv, LocksAreReleased, LocalIs, At, Free
  <2>4. TaskInv'
    BY <2>1, <2>2 DEF TaskInv, Tasked, Announcing, Walking, Sharing, Task, Consuming,
       Creating, LocalIs, At
  <2>5. StageInv'
    BY <2>1, <2>2 DEF StageInv, Staged, Joining, Consuming, Leaving, LocalIs, At
  <2>6. OwnInv'
    BY <2>1, <2>2 DEF OwnInv, Creates, Consuming, LocalIs, At
  <2>7. QED BY <2>3, <2>4, <2>5, <2>6
<1>6. CASE ReplaceAnswered(p) /\ reply[p] = "ok"
  <2>1. /\ At(p, "replacing", "announce")
        /\ LocalIs(p, local[p].others, local[p].visit, local[p].reading, local[p].todo,
                   local[p].job, local[p].prod, local[p].dir, FALSE)
    BY <1>6, ReplaceAnsweredLocal, GotoIs
  <2>2. /\ router' = router \ {shared}
        /\ shared' = local[p].prod
        /\ UNCHANGED <<peerMap, joined, producers, wTransports, wProducers, made, videos,
                       crashed>>
    BY <1>6 DEF ReplaceAnswered, roomVars, sharing, workerVars, clientVars, history, clientDid
  <2>3. LockInv'
    BY <2>1, <2>2 DEF LockInv, LocksAreReleased, LocalIs, At
  <2>4. TaskInv'
    BY <2>1, <2>2 DEF TaskInv, Tasked, Announcing, Walking, Sharing, Task, Consuming,
       Creating, LocalIs, At, LockInv
  <2>5. StageInv'
    BY <2>1, <2>2 DEF StageInv, Staged, Joining, Consuming, Leaving, LocalIs, At
  <2>6. \A x \in Peers : pc[x] \in Creates \cup {"closing", "erase"} => local[x].prod # None
    BY DEF HandInv
  <2>7. OwnInv'
    BY <2>1, <2>2, <2>6 DEF OwnInv, Creates, Consuming, LocalIs, At
  <2>8. QED BY <2>3, <2>4, <2>5, <2>7
<1>7. CASE ReplaceAnswered(p) /\ reply[p] # "ok"
  <2>1. /\ At(p, "replacing", "leave")
        /\ LocalIs(p, {}, {}, None, {}, None, None, None, FALSE)
    BY <1>7, ReplaceAnsweredLocal, GotoIs
  <2>2. UNCHANGED <<peerMap, joined, producers, router, shared, wTransports, wProducers,
                    made, videos, crashed>>
    BY <1>7 DEF ReplaceAnswered, roomVars, sharing, workerVars, clientVars, history, clientDid
  <2>3. LockInv'
    BY <2>1, <2>2 DEF LockInv, LocksAreReleased, LocalIs, At
  <2>4. TaskInv'
    BY <2>1, <2>2 DEF TaskInv, Tasked, Announcing, Walking, Sharing, Task, Consuming,
       Creating, LocalIs, At
  <2>5. StageInv'
    <3>1. Staged(p)'
      BY <2>1, <2>2 DEF StageInv, Staged, Joining, Consuming, Leaving, LocalIs, At
    <3>2. ASSUME NEW x \in Peers, x # p PROVE Staged(x)'
      <4>1. pc'[x] = pc[x] /\ local'[x] = local[x]
        BY <2>1, <3>2 DEF At, LocalIs
      <4>2. QED BY <2>2, <4>1, <3>2 DEF StageInv, Staged, Joining, Consuming, Leaving
    <3>3. QED BY <3>1, <3>2 DEF StageInv
  <2>6. OwnInv'
    BY <2>1, <2>2 DEF OwnInv, Creates, Consuming, LocalIs, At
  <2>7. QED BY <2>3, <2>4, <2>5, <2>6
<1>8. CASE Attach(p)
  <2>1. At(p, "share", "announce") /\ local' = local
    BY <1>8, GotoIs DEF Attach
  <2>2. /\ shared' = local[p].prod
        /\ Free
        /\ UNCHANGED <<peerMap, joined, producers, router, wTransports, wProducers, made,
                       videos, crashed>>
    BY <1>8 DEF Attach, roomVars, sharing, workerVars, clientVars, history, clientDid
  <2>3. LockInv'
    BY <2>1, <2>2 DEF LockInv, LocksAreReleased, LocalIs, At
  <2>4. TaskInv'
    BY <2>1, <2>2 DEF TaskInv, Tasked, Announcing, Walking, Sharing, Task, Consuming,
       Creating, LocalIs, At, Free
  <2>5. StageInv'
    BY <2>1, <2>2 DEF StageInv, Staged, Joining, Consuming, Leaving, LocalIs, At
  <2>6. \A x \in Peers : pc[x] \in Creates \cup {"closing", "erase"} => local[x].prod # None
    BY DEF HandInv
  <2>7. OwnInv'
    BY <2>1, <2>2, <2>6 DEF OwnInv, Creates, Consuming, LocalIs, At
  <2>8. QED BY <2>3, <2>4, <2>5, <2>7
<1>9. QED BY <1>1, <1>2, <1>3, <1>4, <1>5, <1>6, <1>7, <1>8 DEF ProduceStep

LEMMA CloseStage ==
  ASSUME TypeOK, HandInv, AnswerInv, LockInv, TaskInv, StageInv, OwnInv, crashed = None, NEW p \in Peers, CloseStep(p)
  PROVE  LockInv' /\ TaskInv' /\ StageInv' /\ OwnInv'
<1>1. ASSUME NEW m \in Producers, CloseProducer(p, m) PROVE LockInv' /\ TaskInv' /\ StageInv' /\ OwnInv'
  <2>1. /\ At(p, "idle", "closing")
        /\ LocalIs(p, local[p].others, local[p].visit, local[p].reading, local[p].todo,
                   local[p].job, m, local[p].dir, local[p].holding)
    BY <1>1, CloseProducerLocal, GotoIs
  <2>2. /\ wProducers' = wProducers \ {m}
        /\ m \in producers[p]
        /\ p \in joined
        /\ UNCHANGED <<peerMap, joined, producers, router, shared, wTransports, made, videos,
                       crashed>>
    BY <1>1 DEF CloseProducer, roomVars, sharing, workerVars, clientVars, history, clientDid
  <2>3. LockInv'
    BY <2>1, <2>2 DEF LockInv, LocksAreReleased, LocalIs, At
  <2>4. TaskInv'
    BY <2>1, <2>2 DEF TaskInv, Tasked, Announcing, Walking, Sharing, Task, Consuming,
       Creating, LocalIs, At
  <2>5. StageInv'
    BY <2>1, <2>2 DEF StageInv, Staged, Joining, Consuming, Leaving, LocalIs, At
  <2>6. \A x \in Peers : producers[x] \subseteq made
    BY DEF HandInv
  <2>7. \A x \in Peers : pc[x] \in Creates \cup {"closing", "erase"} => local[x].prod # None
    BY DEF HandInv
  <2>8. m # None
    BY NoneAssumption
  <2>9. OwnInv'
    BY <2>1, <2>2, <2>6, <2>7, <2>8 DEF OwnInv, Creates, Consuming, LocalIs, At
  <2>10. QED BY <2>3, <2>4, <2>5, <2>9
<1>2. ASSUME NEW m \in Producers, CloseVideo(p, m) PROVE LockInv' /\ TaskInv' /\ StageInv' /\ OwnInv'
  <2>1. /\ At(p, "idle", "detaching")
        /\ LocalIs(p, local[p].others, local[p].visit, local[p].reading, local[p].todo,
                   local[p].job, local[p].prod, local[p].dir, TRUE)
    BY <1>2, CloseVideoLocal, GotoIs
  <2>2. /\ wProducers' = wProducers \ {m}
        /\ m = shared /\ p \in joined /\ Free
        /\ UNCHANGED <<peerMap, joined, producers, router, shared, wTransports, made, videos,
                       crashed>>
    BY <1>2 DEF CloseVideo, roomVars, sharing, workerVars, clientVars, history, clientDid
  <2>3. LockInv'
    BY <2>1, <2>2 DEF LockInv, LocksAreReleased, LocalIs, At, Free
  <2>4. TaskInv'
    BY <2>1, <2>2 DEF TaskInv, Tasked, Announcing, Walking, Sharing, Task, Consuming,
       Creating, LocalIs, At
  <2>5. StageInv'
    BY <2>1, <2>2 DEF StageInv, Staged, Joining, Consuming, Leaving, LocalIs, At
  <2>6. \A x \in Peers : pc[x] \in Creates \cup {"closing", "erase"} => local[x].prod # None
    BY DEF HandInv
  <2>7. OwnInv'
    BY <2>1, <2>2, <2>6 DEF OwnInv, Creates, Consuming, LocalIs, At
  <2>8. QED BY <2>3, <2>4, <2>5, <2>7
<1>3. CASE VideoClosed(p) /\ reply[p] = "ok"
  <2>1. /\ At(p, "detaching", "idle")
        /\ LocalIs(p, local[p].others, local[p].visit, local[p].reading, local[p].todo,
                   local[p].job, local[p].prod, local[p].dir, FALSE)
    BY <1>3, VideoClosedLocal, GotoIs
  <2>2. /\ router' = router \ {shared}
        /\ shared' = None
        /\ UNCHANGED <<peerMap, joined, producers, wTransports, wProducers, made, videos,
                       crashed>>
    BY <1>3 DEF VideoClosed, roomVars, sharing, workerVars, clientVars, history, clientDid
  <2>3. LockInv'
    BY <2>1, <2>2 DEF LockInv, LocksAreReleased, LocalIs, At
  <2>4. TaskInv'
    BY <2>1, <2>2 DEF TaskInv, Tasked, Announcing, Walking, Sharing, Task, Consuming,
       Creating, LocalIs, At, LockInv
  <2>5. StageInv'
    BY <2>1, <2>2 DEF StageInv, Staged, Joining, Consuming, Leaving, LocalIs, At
  <2>6. \A x \in Peers : pc[x] \in Creates \cup {"closing", "erase"} => local[x].prod # None
    BY DEF HandInv
  <2>7. OwnInv'
    BY <2>1, <2>2, <2>6 DEF OwnInv, Creates, Consuming, LocalIs, At
  <2>8. QED BY <2>3, <2>4, <2>5, <2>7
<1>4. ASSUME NEW m \in Producers, NullStep(p, m) PROVE LockInv' /\ TaskInv' /\ StageInv' /\ OwnInv'
  <2>1. /\ pc[p] = "idle" /\ pc' = pc
        /\ LocalIs(p, local[p].others, local[p].visit, local[p].reading, local[p].todo,
                   local[p].job, m, local[p].dir, local[p].holding)
    BY <1>4, NullStepLocal, GotoIs
  <2>2. /\ crashed' = p
        /\ UNCHANGED <<peerMap, joined, producers, router, shared, wTransports, wProducers,
                       made, videos>>
    BY <1>4 DEF NullStep, CloseNull, ProduceNull, roomVars, sharing, workerVars, clientVars,
       history, clientDid
  <2>3. LockInv'
    BY <2>1, <2>2 DEF LockInv, LocksAreReleased, LocalIs, At
  <2>4. TaskInv'
    BY <2>1, <2>2 DEF TaskInv, Tasked, Announcing, Walking, Sharing, Task, Consuming,
       Creating, LocalIs, At
  <2>5. StageInv'
    BY <2>1, <2>2 DEF StageInv, Staged, Joining, Consuming, Leaving, LocalIs, At
  <2>6. m # None /\ p # None
    BY NoneAssumption
  <2>7. OwnInv'
    BY <2>1, <2>2, <2>6 DEF OwnInv, Creates, Consuming, LocalIs, At
  <2>8. QED BY <2>3, <2>4, <2>5, <2>7
<1>5. CASE CloseAnswered(p)
  <2>1. At(p, "closing", "erase") /\ local' = local
    BY <1>5, GotoIs DEF CloseAnswered
  <2>2. /\ router' = router \ {local[p].prod}
        /\ UNCHANGED <<peerMap, joined, producers, shared, wTransports, wProducers, made,
                       videos, crashed>>
    BY <1>5 DEF CloseAnswered, roomVars, sharing, workerVars, clientVars, history, clientDid
  <2>3. LockInv'
    BY <2>1, <2>2 DEF LockInv, LocksAreReleased, LocalIs, At
  <2>4. TaskInv'
    BY <2>1, <2>2 DEF TaskInv, Tasked, Announcing, Walking, Sharing, Task, Consuming,
       Creating, LocalIs, At
  <2>5. StageInv'
    BY <2>1, <2>2 DEF StageInv, Staged, Joining, Consuming, Leaving, LocalIs, At
  <2>6. OwnInv'
    BY <2>1, <2>2 DEF OwnInv, Creates, Consuming, LocalIs, At
  <2>7. QED BY <2>3, <2>4, <2>5, <2>6
<1>6. CASE Erase(p)
  <2>1. /\ At(p, "erase", "idle")
        /\ LocalIs(p, local[p].others, local[p].visit, local[p].reading, local[p].todo,
                   local[p].job, None, local[p].dir, local[p].holding)
    BY <1>6, EraseLocal, GotoIs
  <2>2. /\ producers' = [producers EXCEPT ![p] = @ \ {local[p].prod}]
        /\ UNCHANGED <<peerMap, joined, router, shared, wTransports, wProducers, made,
                       videos, crashed>>
    BY <1>6 DEF Erase, roomVars, sharing, workerVars, clientVars, history, clientDid
  <2>3. LockInv'
    BY <2>1, <2>2 DEF LockInv, LocksAreReleased, LocalIs, At
  <2>4. TaskInv'
    BY <2>1, <2>2 DEF TaskInv, Tasked, Announcing, Walking, Sharing, Task, Consuming,
       Creating, LocalIs, At
  <2>5. StageInv'
    BY <2>1, <2>2 DEF StageInv, Staged, Joining, Consuming, Leaving, LocalIs, At
  <2>6. producers'[p] = producers[p] \ {local[p].prod}
        /\ \A x \in Peers : x # p => producers'[x] = producers[x]
    BY <2>2 DEF TypeOK
  <2>7. \A x \in Peers : pc[x] \in Creates \cup {"closing", "erase"} => local[x].prod # None
    BY DEF HandInv
  <2>8. OwnInv'
    BY <2>1, <2>2, <2>6, <2>7 DEF OwnInv, Creates, Consuming, LocalIs, At
  <2>9. QED BY <2>3, <2>4, <2>5, <2>8
<1>7. CASE VideoClosed(p) /\ reply[p] # "ok"
  <2>1. /\ At(p, "detaching", "leave")
        /\ LocalIs(p, {}, {}, None, {}, None, None, None, FALSE)
    BY <1>7, VideoClosedLocal, GotoIs
  <2>2. UNCHANGED <<peerMap, joined, producers, router, shared, wTransports, wProducers,
                    made, videos, crashed>>
    BY <1>7 DEF VideoClosed, roomVars, sharing, workerVars, clientVars, history, clientDid
  <2>3. LockInv'
    BY <2>1, <2>2 DEF LockInv, LocksAreReleased, LocalIs, At
  <2>4. TaskInv'
    BY <2>1, <2>2 DEF TaskInv, Tasked, Announcing, Walking, Sharing, Task, Consuming,
       Creating, LocalIs, At
  <2>5. StageInv'
    <3>1. Staged(p)'
      BY <2>1, <2>2 DEF StageInv, Staged, Joining, Consuming, Leaving, LocalIs, At
    <3>2. ASSUME NEW x \in Peers, x # p PROVE Staged(x)'
      <4>1. pc'[x] = pc[x] /\ local'[x] = local[x]
        BY <2>1, <3>2 DEF At, LocalIs
      <4>2. QED BY <2>2, <4>1, <3>2 DEF StageInv, Staged, Joining, Consuming, Leaving
    <3>3. QED BY <3>1, <3>2 DEF StageInv
  <2>6. OwnInv'
    BY <2>1, <2>2 DEF OwnInv, Creates, Consuming, LocalIs, At
  <2>7. QED BY <2>3, <2>4, <2>5, <2>6
<1>8. ASSUME NEW m \in Producers, DetachClosed(p, m) PROVE LockInv' /\ TaskInv' /\ StageInv' /\ OwnInv'
  <2>1. pc[p] = "idle" /\ pc' = pc /\ local' = local
    BY <1>8 DEF DetachClosed
  <2>2. /\ shared' = None /\ Free
        /\ UNCHANGED <<peerMap, joined, producers, router, wTransports, wProducers, made,
                       videos, crashed>>
    BY <1>8 DEF DetachClosed, roomVars, sharing, workerVars, clientVars, history, clientDid
  <2>3. LockInv'
    BY <2>1, <2>2 DEF LockInv, LocksAreReleased
  <2>4. TaskInv'
    BY <2>1, <2>2 DEF TaskInv, Tasked, Announcing, Walking, Sharing, Task, Consuming,
       Creating, Free
  <2>5. StageInv'
    BY <2>1, <2>2 DEF StageInv, Staged, Joining, Consuming, Leaving
  <2>6. \A x \in Peers : pc[x] \in Creates \cup {"closing", "erase"} => local[x].prod # None
    BY DEF HandInv
  <2>7. OwnInv'
    BY <2>1, <2>2, <2>6 DEF OwnInv, Creates, Consuming
  <2>8. QED BY <2>3, <2>4, <2>5, <2>7
<1>9. QED BY <1>1, <1>2, <1>3, <1>4, <1>5, <1>6, <1>7, <1>8 DEF CloseStep

LEMMA LeaveStage ==
  ASSUME TypeOK, HandInv, AnswerInv, LockInv, TaskInv, StageInv, OwnInv, crashed = None, NEW p \in Peers, LeaveStep(p)
  PROVE  LockInv' /\ TaskInv' /\ StageInv' /\ OwnInv'
<1>1. CASE Leave(p)
  <2>1. At(p, "idle", "leave") /\ local' = local
    BY <1>1, GotoIs DEF Leave
  <2>2. UNCHANGED <<peerMap, joined, producers, router, shared, wTransports, wProducers,
                    made, videos, crashed>>
    BY <1>1 DEF Leave, roomVars, sharing, workerVars, clientVars, history, clientDid
  <2>3. LockInv'
    BY <2>1, <2>2 DEF LockInv, LocksAreReleased, LocalIs, At
  <2>4. TaskInv'
    BY <2>1, <2>2 DEF TaskInv, Tasked, Announcing, Walking, Sharing, Task, Consuming,
       Creating, LocalIs, At
  <2>5. StageInv'
    BY <2>1, <2>2 DEF StageInv, Staged, Joining, Consuming, Leaving, LocalIs, At
  <2>6. OwnInv'
    BY <2>1, <2>2 DEF OwnInv, Creates, Consuming, LocalIs, At
  <2>7. QED BY <2>3, <2>4, <2>5, <2>6
<1>2. CASE LeaveSnapshot(p)
  <2>1. /\ At(p, "leave", "notify")
        /\ LocalIs(p, JoinedPeers(p), local[p].visit, local[p].reading, local[p].todo,
                   local[p].job, local[p].prod, local[p].dir, local[p].holding)
    BY <1>2, LeaveSnapshotLocal, GotoIs
  <2>2. UNCHANGED <<peerMap, joined, producers, router, shared, wTransports, wProducers,
                    made, videos, crashed>>
    BY <1>2 DEF LeaveSnapshot, roomVars, sharing, workerVars, clientVars, history, clientDid
  <2>3. LockInv'
    BY <2>1, <2>2 DEF LockInv, LocksAreReleased, LocalIs, At
  <2>4. TaskInv'
    BY <2>1, <2>2 DEF TaskInv, Tasked, Announcing, Walking, Sharing, Task, Consuming,
       Creating, LocalIs, At
  <2>5. StageInv'
    BY <2>1, <2>2 DEF StageInv, Staged, Joining, Consuming, Leaving, LocalIs, At, JoinedPeers
  <2>6. OwnInv'
    BY <2>1, <2>2 DEF OwnInv, Creates, Consuming, LocalIs, At
  <2>7. QED BY <2>3, <2>4, <2>5, <2>6
<1>3. CASE LeaveNotify(p)
  <2>1. /\ At(p, "notify", "transports")
        /\ LocalIs(p, {}, {}, None, {}, None, None, None, FALSE)
    BY <1>3, LeaveNotifyLocal, GotoIs
  <2>2. UNCHANGED <<peerMap, joined, producers, router, shared, wTransports, wProducers,
                    made, videos, crashed>>
    BY <1>3 DEF LeaveNotify, roomVars, sharing, workerVars, clientVars, history, clientDid
  <2>3. LockInv'
    BY <2>1, <2>2 DEF LockInv, LocksAreReleased, LocalIs, At
  <2>4. TaskInv'
    BY <2>1, <2>2 DEF TaskInv, Tasked, Announcing, Walking, Sharing, Task, Consuming,
       Creating, LocalIs, At
  <2>5. StageInv'
    <3>1. Staged(p)'
      BY <2>1, <2>2 DEF StageInv, Staged, Joining, Consuming, Leaving, LocalIs, At
    <3>2. ASSUME NEW x \in Peers, x # p PROVE Staged(x)'
      <4>1. pc'[x] = pc[x] /\ local'[x] = local[x]
        BY <2>1, <3>2 DEF At, LocalIs
      <4>2. QED BY <2>2, <4>1, <3>2 DEF StageInv, Staged, Joining, Consuming, Leaving
    <3>3. QED BY <3>1, <3>2 DEF StageInv
  <2>6. OwnInv'
    BY <2>1, <2>2 DEF OwnInv, Creates, Consuming, LocalIs, At
  <2>7. QED BY <2>3, <2>4, <2>5, <2>6
<1>4. ASSUME NEW d \in Directions, CloseTransport(p, d) PROVE LockInv' /\ TaskInv' /\ StageInv' /\ OwnInv'
  <2>1. /\ At(p, "transports", "transport")
        /\ LocalIs(p, local[p].others, local[p].visit, local[p].reading, local[p].todo,
                   local[p].job, local[p].prod, d, local[p].holding)
    BY <1>4, CloseTransportLocal, GotoIs
  <2>2. /\ <<p, d>> \in wTransports
        /\ wTransports' = wTransports \ {<<p, d>>}
        /\ wProducers' \subseteq wProducers /\ \A m \in wProducers : Owner[m] # p => m \in wProducers'
        /\ UNCHANGED <<peerMap, joined, producers, router, shared, made, videos, crashed>>
    BY <1>4 DEF CloseTransport, roomVars, sharing, workerVars, clientVars, history, clientDid
  <2>3. LockInv'
    BY <2>1, <2>2 DEF LockInv, LocksAreReleased, LocalIs, At
  <2>4. TaskInv'
    BY <2>1, <2>2 DEF TaskInv, Tasked, Announcing, Walking, Sharing, Task, Consuming,
       Creating, LocalIs, At
  <2>5. local[p].others = {} /\ local[p].visit = {} /\ local'[p].others = {} /\ local'[p].visit = {}
    BY <2>1 DEF StageInv, Staged, Joining, Consuming, At, LocalIs
  <2>6. StageInv'
    <3>1. Staged(p)'
      BY <2>1, <2>2, <2>5 DEF StageInv, Staged, Joining, Consuming, Leaving, LocalIs, At
    <3>2. ASSUME NEW x \in Peers, x # p PROVE Staged(x)'
      <4>1. pc'[x] = pc[x] /\ local'[x] = local[x]
        BY <2>1, <3>2 DEF At, LocalIs
      <4>2. QED BY <2>2, <2>5, <4>1, <3>2 DEF StageInv, Staged, Joining, Consuming, Leaving
    <3>3. QED BY <3>1, <3>2 DEF StageInv
  <2>7. \A x \in Peers : pc[x] \in Creates \cup {"closing", "erase"} => local[x].prod # None
    BY DEF HandInv
  <2>8. OwnInv'
    BY <2>1, <2>2, <2>7 DEF OwnInv, Creates, Consuming, LocalIs, At
  <2>9. QED BY <2>3, <2>4, <2>6, <2>8
<1>5. CASE TransportAnswered(p)
  <2>1. /\ At(p, "transport", "transports")
        /\ LocalIs(p, local[p].others, local[p].visit, local[p].reading, local[p].todo,
                   local[p].job, local[p].prod, None, local[p].holding)
    BY <1>5, TransportAnsweredLocal, GotoIs
  <2>2. /\ router' \subseteq router /\ \A m \in router : Owner[m] # p => m \in router'
        /\ UNCHANGED <<peerMap, joined, producers, shared, wTransports, wProducers, made,
                       videos, crashed>>
    BY <1>5 DEF TransportAnswered, roomVars, sharing, workerVars, clientVars, history, clientDid
  <2>3. LockInv'
    BY <2>1, <2>2 DEF LockInv, LocksAreReleased, LocalIs, At
  <2>4. TaskInv'
    BY <2>1, <2>2 DEF TaskInv, Tasked, Announcing, Walking, Sharing, Task, Consuming,
       Creating, LocalIs, At
  <2>5. local[p].others = {} /\ local[p].visit = {} /\ local'[p].others = {} /\ local'[p].visit = {}
    BY <2>1 DEF StageInv, Staged, Joining, Consuming, At, LocalIs
  <2>6. StageInv'
    <3>1. Staged(p)'
      BY <2>1, <2>2, <2>5 DEF StageInv, Staged, Joining, Consuming, Leaving, LocalIs, At
    <3>2. ASSUME NEW x \in Peers, x # p PROVE Staged(x)'
      <4>1. pc'[x] = pc[x] /\ local'[x] = local[x]
        BY <2>1, <3>2 DEF At, LocalIs
      <4>2. QED BY <2>2, <2>5, <4>1, <3>2 DEF StageInv, Staged, Joining, Consuming, Leaving
    <3>3. QED BY <3>1, <3>2 DEF StageInv
  <2>7. \A x \in Peers : pc[x] \in Creates \cup {"closing", "erase"} => local[x].prod # None
    BY DEF HandInv
  <2>8. OwnInv'
    BY <2>1, <2>2, <2>7 DEF OwnInv, Creates, Consuming, LocalIs, At
  <2>9. QED BY <2>3, <2>4, <2>6, <2>8
<1>6. CASE RemovePeer(p)
  <2>1. At(p, "transports", "gone") /\ local' = local
    BY <1>6, GotoIs DEF RemovePeer
  <2>2. /\ peerMap' = peerMap \ {p}
        /\ \A d \in Directions : <<p, d>> \notin wTransports
        /\ UNCHANGED <<joined, producers, router, shared, wTransports, wProducers, made,
                       videos, crashed>>
    BY <1>6 DEF RemovePeer, roomVars, sharing, workerVars, clientVars, history, clientDid
  <2>3. LockInv'
    BY <2>1, <2>2 DEF LockInv, LocksAreReleased, LocalIs, At
  <2>4. TaskInv'
    BY <2>1, <2>2 DEF TaskInv, Tasked, Announcing, Walking, Sharing, Task, Consuming,
       Creating, LocalIs, At
  <2>5. StageInv'
    BY <2>1, <2>2 DEF StageInv, Staged, Joining, Consuming, Leaving, LocalIs, At
  <2>6. OwnInv'
    BY <2>1, <2>2 DEF OwnInv, Creates, Consuming, LocalIs, At
  <2>7. QED BY <2>3, <2>4, <2>5, <2>6
<1>7. QED BY <1>1, <1>2, <1>3, <1>4, <1>5, <1>6 DEF LeaveStep

-----------------------------------------------------------------------------
(* The producers, the router and the shared video                          *)

LEMMA RefusedStays ==
  ASSUME inbox' = inbox, reply' = reply
  PROVE  \A x \in Peers : Refused(x)' <=> Refused(x)
  BY InboxStays DEF Refused

LEMMA RefusedResponds ==
  ASSUME TypeOK, NEW p \in Peers, NEW ok \in BOOLEAN, NEW S \in SUBSET Consumer,
         Respond(p, S, ok), reply' = reply
  PROVE  \A x \in Peers : Refused(x)' <=> Refused(x) \/ (x = p /\ ~ok)
<1>1. \A x \in Peers : Refusing(x)' <=> Refusing(x) \/ (x = p /\ ~ok)
  BY RespondMeans DEF TypeOK
<1>2. QED BY <1>1 DEF Refused

LEMMA RefusedAnswered ==
  ASSUME TypeOK, NEW p \in Peers, Answered(p), inbox' = inbox
  PROVE  \A x \in Peers : x # p => (Refused(x)' <=> Refused(x))
<1>1. \A x \in Peers : Refusing(x)' <=> Refusing(x)
  BY InboxStays
<1>2. \A x \in Peers : x # p => reply'[x] = reply[x]
  BY DEF Answered, TypeOK
<1>3. QED BY <1>1, <1>2 DEF Refused

LEMMA RefusedPool ==
  ASSUME TypeOK, AnswerInv, Pool
  PROVE  \A x \in Peers : Refused(x)' <=> Refused(x)
<1>1. CASE PoolResponse
  <2>1. PICK x \in Peers, ok \in BOOLEAN :
          /\ Outstanding(x) /\ ~Outstanding(x)' /\ (Refusing(x) <=> ~ok)
          /\ reply' = [reply EXCEPT ![x] = IF ok THEN "ok" ELSE "error"]
          /\ \A y \in Peers \ {x} : Refusing(y)' <=> Refusing(y)
    BY <1>1, PoolResponseMeans
  <2>2. reply[x] = "none"
    BY <2>1 DEF AnswerInv
  <2>3. ~Refusing(x)'
    BY <2>1 DEF Refusing, Outstanding
  <2>4. /\ reply'[x] = IF ok THEN "ok" ELSE "error"
        /\ \A y \in Peers \ {x} : reply'[y] = reply[y]
    BY <2>1 DEF TypeOK
  <2>5. QED BY <2>1, <2>2, <2>3, <2>4 DEF Refused
<1>2. CASE PoolProducerClose
  <2>1. \A y \in Peers : Refusing(y)' <=> Refusing(y)
    BY <1>2, PoolCloseMeans
  <2>2. reply' = reply
    BY <1>2 DEF PoolProducerClose
  <2>3. QED BY <2>1, <2>2 DEF Refused
<1>3. QED BY <1>1, <1>2 DEF Pool

LEMMA NotRefused ==
  ASSUME AnswerInv, NEW x \in Peers, pc[x] \notin Waiting
  PROVE  ~Refused(x)
<1>1. reply[x] = "none" /\ ~Outstanding(x)
  BY DEF AnswerInv
<1>2. QED BY <1>1 DEF Refused, Refusing, Outstanding

LEMMA Basics ==
  ASSUME TypeOK
  PROVE  /\ wProducers \subseteq Producers /\ router \subseteq Producers
         /\ shared \in videos \cup {None} /\ closed \subseteq videos
         /\ videos \subseteq made /\ ended \subseteq made /\ made \subseteq Producers
         /\ None \notin Producers /\ None \notin Peers
         /\ \A m \in Producers : Owner[m] \in Peers
  BY OwnerAssumption, NoneAssumption DEF TypeOK

LEMMA JoinWork ==
  ASSUME TypeOK, HandInv, AnswerInv, LockInv, TaskInv, StageInv, OwnInv, WorkInv, StoreInv, RouteInv, SharedInv, NullInv,
         crashed = None, NEW p \in Peers, JoinStep(p)
  PROVE  WorkInv' /\ StoreInv' /\ RouteInv' /\ SharedInv' /\ NullInv'
<1>1. CASE Join(p)
  <2>1. At(p, "idle", "caps") /\ local' = local
    BY <1>1, GotoIs DEF Join
  <2>2. UNCHANGED <<router, shared, closed, producers, wTransports, wProducers, made, videos,
                    ended, crashed>>
    BY <1>1 DEF Join, roomVars, sharing, workerVars, clientVars, history, clientDid
  <2>3. inbox' = inbox /\ reply' = reply
    BY <1>1 DEF Join
  <2>4. \A x \in Peers : Refused(x)' <=> Refused(x)
    BY <2>3, RefusedStays
  <2>5. WorkInv'
    BY <2>1, <2>2, Basics DEF WorkInv, Making, Leaving, LocalIs, At
  <2>6. StoreInv'
    BY <2>1, <2>2, Basics DEF StoreInv, Leaving, LocalIs, At
  <2>7. RouteInv'
    BY <2>1, <2>2, <2>4, Basics DEF RouteInv, Replacing, ClosesSend, LocalIs, At
  <2>8. SharedInv'
    BY <2>1, <2>2, <2>4, Basics DEF SharedInv, VideoShared, ClosesSend, LocalIs, At
  <2>9. NullInv'
    BY <2>1, <2>2, Basics DEF NullInv, NullNeedsClosedProducer, TasksCreated, Task, Created,
       Consuming, Leaving, LocalIs, At
  <2>10. QED BY <2>5, <2>6, <2>7, <2>8, <2>9
<1>2. CASE JoinSnapshot(p)
  <2>1. /\ At(p, "caps", "accept")
        /\ LocalIs(p, JoinedPeers(p), JoinedPeers(p), local[p].reading, local[p].todo,
                   local[p].job, local[p].prod, local[p].dir, local[p].holding)
    BY <1>2, JoinSnapshotLocal, GotoIs
  <2>2. UNCHANGED <<router, shared, closed, producers, wTransports, wProducers, made, videos,
                    ended, crashed>>
    BY <1>2 DEF JoinSnapshot, roomVars, sharing, workerVars, clientVars, history, clientDid
  <2>3. inbox' = inbox /\ reply' = reply
    BY <1>2 DEF JoinSnapshot
  <2>4. \A x \in Peers : Refused(x)' <=> Refused(x)
    BY <2>3, RefusedStays
  <2>5. WorkInv'
    BY <2>1, <2>2, Basics DEF WorkInv, Making, Leaving, LocalIs, At
  <2>6. StoreInv'
    BY <2>1, <2>2, Basics DEF StoreInv, Leaving, LocalIs, At
  <2>7. RouteInv'
    BY <2>1, <2>2, <2>4, Basics DEF RouteInv, Replacing, ClosesSend, LocalIs, At
  <2>8. SharedInv'
    BY <2>1, <2>2, <2>4, Basics DEF SharedInv, VideoShared, ClosesSend, LocalIs, At
  <2>9. NullInv'
    BY <2>1, <2>2, Basics DEF NullInv, NullNeedsClosedProducer, TasksCreated, Task, Created,
       Consuming, Leaving, LocalIs, At
  <2>10. QED BY <2>5, <2>6, <2>7, <2>8, <2>9
<1>3. CASE JoinAccept(p)
  <2>1. At(p, "accept", "visit") /\ local' = local
    BY <1>3, GotoIs DEF JoinAccept
  <2>2. UNCHANGED <<router, shared, closed, producers, wTransports, wProducers, made, videos,
                    ended, crashed>>
    BY <1>3 DEF JoinAccept, roomVars, sharing, workerVars, clientVars, history, clientDid
  <2>3. inbox' = inbox /\ reply' = reply
    BY <1>3 DEF JoinAccept
  <2>4. \A x \in Peers : Refused(x)' <=> Refused(x)
    BY <2>3, RefusedStays
  <2>5. WorkInv'
    BY <2>1, <2>2, Basics DEF WorkInv, Making, Leaving, LocalIs, At
  <2>6. StoreInv'
    BY <2>1, <2>2, Basics DEF StoreInv, Leaving, LocalIs, At
  <2>7. RouteInv'
    BY <2>1, <2>2, <2>4, Basics DEF RouteInv, Replacing, ClosesSend, LocalIs, At
  <2>8. SharedInv'
    BY <2>1, <2>2, <2>4, Basics DEF SharedInv, VideoShared, ClosesSend, LocalIs, At
  <2>9. NullInv'
    BY <2>1, <2>2, Basics DEF NullInv, NullNeedsClosedProducer, TasksCreated, Task, Created,
       Consuming, Leaving, LocalIs, At
  <2>10. QED BY <2>5, <2>6, <2>7, <2>8, <2>9
<1>4. ASSUME Visit(p), NEW q \in local[p].visit, Visits(p, q) PROVE WorkInv' /\ StoreInv' /\ RouteInv' /\ SharedInv' /\ NullInv'
  <2>2. UNCHANGED <<router, shared, closed, producers, wTransports, wProducers, made, videos,
                    ended, crashed>>
    BY <1>4 DEF Visit, roomVars, sharing, workerVars, clientVars, history, clientDid
  <2>3. inbox' = inbox /\ reply' = reply
    BY <1>4 DEF Visit
  <2>4. \A x \in Peers : Refused(x)' <=> Refused(x)
    BY <2>3, RefusedStays
  <2>5. WorkInv'
    BY <1>4, <2>2, Basics DEF WorkInv, Making, Leaving, LocalIs, At, Visits
  <2>6. StoreInv'
    BY <1>4, <2>2, Basics DEF StoreInv, Leaving, LocalIs, At, Visits
  <2>7. RouteInv'
    BY <1>4, <2>2, <2>4, Basics DEF RouteInv, Replacing, ClosesSend, LocalIs, At, Visits
  <2>8. SharedInv'
    BY <1>4, <2>2, <2>4, Basics DEF SharedInv, VideoShared, ClosesSend, LocalIs, At, Visits
  <2>9. local[p].prod = None
    BY <1>4 DEF OwnInv, Creates, Consuming, At, Visits
  <2>10. ASSUME NEW y \in Peers, NEW x \in Peers, NEW n \in Producers, Task(y, x, n)' PROVE Created(n)'
    <3>1. CASE y = p
      <4>1. n \in producers[q] \/ Task(p, x, n)
        BY <1>4, <2>10, <3>1 DEF Task, LocalIs, Visits
      <4>2. q \in Peers
        BY DEF TypeOK, Local
      <4>3. n \in producers[q] => Created(n)
        BY <4>2 DEF OwnInv, Created
      <4>4. Created(n)
        BY <4>1, <4>3 DEF NullInv, TasksCreated
      <4>5. QED BY <1>4, <4>4, Basics DEF Created, LocalIs, At, Visits
    <3>2. CASE y # p
      <4>1. Task(y, x, n)
        BY <1>4, <2>10, <3>2 DEF Task, LocalIs, Visits
      <4>2. QED BY <1>4, <4>1, Basics DEF NullInv, TasksCreated, Created, LocalIs, At, Visits
    <3>3. QED BY <3>1, <3>2
  <2>11. NullInv'
    BY <1>4, <2>2, Basics, <2>9, <2>10 DEF NullInv, NullNeedsClosedProducer, TasksCreated,
       Consuming, Leaving, LocalIs, At, Visits
  <2>12. QED BY <2>5, <2>6, <2>7, <2>8, <2>11
<1>5. CASE JoinSharing(p) /\ VideoShared
  <2>1. /\ At(p, "visit", "consume")
        /\ LocalIs(p, local[p].others, local[p].visit, local[p].reading, {<<p,
                   shared>>}, local[p].job, local[p].prod, local[p].dir, TRUE)
    BY <1>5, JoinSharingLocal, GotoIs
  <2>2. UNCHANGED <<router, shared, closed, producers, wTransports, wProducers, made, videos,
                    ended, crashed>>
    BY <1>5 DEF JoinSharing, roomVars, sharing, workerVars, clientVars, history, clientDid
  <2>3. inbox' = inbox /\ reply' = reply
    BY <1>5 DEF JoinSharing
  <2>4. \A x \in Peers : Refused(x)' <=> Refused(x)
    BY <2>3, RefusedStays
  <2>5. WorkInv'
    BY <2>1, <2>2, Basics DEF WorkInv, Making, Leaving, LocalIs, At
  <2>6. StoreInv'
    BY <2>1, <2>2, Basics DEF StoreInv, Leaving, LocalIs, At
  <2>7. RouteInv'
    BY <2>1, <2>2, <2>4, Basics DEF RouteInv, Replacing, ClosesSend, LocalIs, At
  <2>8. SharedInv'
    BY <2>1, <2>2, <2>4, Basics DEF SharedInv, VideoShared, ClosesSend, LocalIs, At
  <2>9. local[p].prod = None
    BY <1>5, <2>1 DEF OwnInv, Creates, Consuming, At
  <2>10. ASSUME NEW y \in Peers, NEW x \in Peers, NEW n \in Producers, Task(y, x, n)' PROVE Created(n)'
    <3>1. n = shared \/ Task(y, x, n)
      BY <2>1, <2>10 DEF Task, LocalIs
    <3>2. n = shared => Created(n)
      BY Basics DEF OwnInv, Created
    <3>3. Created(n)
      BY <3>1, <3>2 DEF NullInv, TasksCreated
    <3>4. QED BY <2>1, <3>3, Basics DEF Created, LocalIs, At
  <2>11. NullInv'
    BY <2>1, <2>2, Basics, <2>9, <2>10 DEF NullInv, NullNeedsClosedProducer, TasksCreated,
       Consuming, Leaving, LocalIs, At
  <2>12. QED BY <2>5, <2>6, <2>7, <2>8, <2>11
<1>6. CASE JoinSharing(p) /\ ~VideoShared
  <2>1. At(p, "visit", "newPeer") /\ local' = local
    BY <1>6, GotoIs DEF JoinSharing
  <2>2. UNCHANGED <<router, shared, closed, producers, wTransports, wProducers, made, videos,
                    ended, crashed>>
    BY <1>6 DEF JoinSharing, roomVars, sharing, workerVars, clientVars, history, clientDid
  <2>3. inbox' = inbox /\ reply' = reply
    BY <1>6 DEF JoinSharing
  <2>4. \A x \in Peers : Refused(x)' <=> Refused(x)
    BY <2>3, RefusedStays
  <2>5. WorkInv'
    BY <2>1, <2>2, Basics DEF WorkInv, Making, Leaving, LocalIs, At
  <2>6. StoreInv'
    BY <2>1, <2>2, Basics DEF StoreInv, Leaving, LocalIs, At
  <2>7. RouteInv'
    BY <2>1, <2>2, <2>4, Basics DEF RouteInv, Replacing, ClosesSend, LocalIs, At
  <2>8. SharedInv'
    BY <2>1, <2>2, <2>4, Basics DEF SharedInv, VideoShared, ClosesSend, LocalIs, At
  <2>9. NullInv'
    BY <2>1, <2>2, Basics DEF NullInv, NullNeedsClosedProducer, TasksCreated, Task, Created,
       Consuming, Leaving, LocalIs, At
  <2>10. QED BY <2>5, <2>6, <2>7, <2>8, <2>9
<1>7. CASE JoinDone(p)
  <2>1. /\ At(p, "newPeer", "idle")
        /\ LocalIs(p, {}, {}, None, {}, None, None, None, FALSE)
    BY <1>7, JoinDoneLocal, GotoIs
  <2>2. UNCHANGED <<router, shared, closed, producers, wTransports, wProducers, made, videos,
                    ended, crashed>>
    BY <1>7 DEF JoinDone, roomVars, sharing, workerVars, clientVars, history, clientDid
  <2>3. inbox' = inbox /\ reply' = reply
    BY <1>7 DEF JoinDone
  <2>4. \A x \in Peers : Refused(x)' <=> Refused(x)
    BY <2>3, RefusedStays
  <2>5. WorkInv'
    BY <2>1, <2>2, Basics DEF WorkInv, Making, Leaving, LocalIs, At
  <2>6. StoreInv'
    BY <2>1, <2>2, Basics DEF StoreInv, Leaving, LocalIs, At
  <2>7. RouteInv'
    BY <2>1, <2>2, <2>4, Basics DEF RouteInv, Replacing, ClosesSend, LocalIs, At
  <2>8. SharedInv'
    BY <2>1, <2>2, <2>4, Basics DEF SharedInv, VideoShared, ClosesSend, LocalIs, At
  <2>9. NullInv'
    BY <2>1, <2>2, Basics DEF NullInv, NullNeedsClosedProducer, TasksCreated, Task, Created,
       Consuming, Leaving, LocalIs, At
  <2>10. QED BY <2>5, <2>6, <2>7, <2>8, <2>9
<1>8. QED BY <1>1, <1>2, <1>3, <1>4, <1>5, <1>6, <1>7, VisitLocal DEF JoinStep

LEMMA ConsumeWork ==
  ASSUME TypeOK, HandInv, AnswerInv, LockInv, TaskInv, StageInv, OwnInv, WorkInv, StoreInv, RouteInv, SharedInv, NullInv,
         crashed = None, NEW p \in Peers, ConsumeStep(p)
  PROVE  WorkInv' /\ StoreInv' /\ RouteInv' /\ SharedInv' /\ NullInv'
<1>1. ASSUME CanConsume(p), NEW w \in local[p].todo, Skip(p, w) PROVE WorkInv' /\ StoreInv' /\ RouteInv' /\ SharedInv' /\ NullInv'
  <2>2. UNCHANGED <<router, shared, closed, producers, wTransports, wProducers, made, videos,
                    ended, crashed>>
    BY <1>1 DEF CanConsume, roomVars, sharing, workerVars, clientVars, history, clientDid
  <2>3. inbox' = inbox /\ reply' = reply
    BY <1>1 DEF CanConsume
  <2>4. \A x \in Peers : Refused(x)' <=> Refused(x)
    BY <2>3, RefusedStays
  <2>5. WorkInv'
    BY <1>1, <2>2, Basics DEF WorkInv, Making, Leaving, LocalIs, At, Skip
  <2>6. StoreInv'
    BY <1>1, <2>2, Basics DEF StoreInv, Leaving, LocalIs, At, Skip
  <2>7. RouteInv'
    BY <1>1, <2>2, <2>4, Basics DEF RouteInv, Replacing, ClosesSend, LocalIs, At, Skip
  <2>8. SharedInv'
    BY <1>1, <2>2, <2>4, Basics DEF SharedInv, VideoShared, ClosesSend, LocalIs, At, Skip
  <2>9. NullInv'
    BY <1>1, <2>2, Basics DEF NullInv, NullNeedsClosedProducer, TasksCreated, Task, Created,
       Consuming, Leaving, LocalIs, At, Skip
  <2>10. QED BY <2>5, <2>6, <2>7, <2>8, <2>9
<1>2. ASSUME CanConsume(p), NEW w \in local[p].todo, Take(p, w) PROVE WorkInv' /\ StoreInv' /\ RouteInv' /\ SharedInv' /\ NullInv'
  <2>2. UNCHANGED <<router, shared, closed, producers, wTransports, wProducers, made, videos,
                    ended, crashed>>
    BY <1>2 DEF CanConsume, roomVars, sharing, workerVars, clientVars, history, clientDid
  <2>3. inbox' = inbox /\ reply' = reply
    BY <1>2 DEF CanConsume
  <2>4. \A x \in Peers : Refused(x)' <=> Refused(x)
    BY <2>3, RefusedStays
  <2>5. WorkInv'
    BY <1>2, <2>2, Basics DEF WorkInv, Making, Leaving, LocalIs, At, Take
  <2>6. StoreInv'
    BY <1>2, <2>2, Basics DEF StoreInv, Leaving, LocalIs, At, Take
  <2>7. RouteInv'
    BY <1>2, <2>2, <2>4, Basics DEF RouteInv, Replacing, ClosesSend, LocalIs, At, Take
  <2>8. SharedInv'
    BY <1>2, <2>2, <2>4, Basics DEF SharedInv, VideoShared, ClosesSend, LocalIs, At, Take
  <2>9. ASSUME NEW y \in Peers, NEW x \in Peers, NEW n \in Producers, Task(y, x, n)' PROVE Created(n)'
    <3>1. w = <<w[1], w[2]>>
      BY DEF TypeOK, Local
    <3>2. Task(y, x, n)
      BY <1>2, <2>9, <3>1 DEF Task, LocalIs, Take
    <3>3. QED BY <1>2, <3>2, Basics DEF NullInv, TasksCreated, Created, LocalIs, At, Take
  <2>10. NullInv'
    BY <1>2, <2>2, <2>9, Basics DEF NullInv, NullNeedsClosedProducer, TasksCreated,
       Consuming, Leaving, LocalIs, At, Take
  <2>11. QED BY <2>5, <2>6, <2>7, <2>8, <2>10
<1>3. CASE ConsumeDone(p)
  <2>1. /\ At(p, "consume", IF local[p].holding THEN "newPeer" ELSE IF local[p].reading = None THEN "idle" ELSE "visit")
        /\ LocalIs(p, local[p].others, local[p].visit, None, local[p].todo,
                   local[p].job, None, local[p].dir, FALSE)
    BY <1>3, ConsumeDoneLocal, GotoIs
  <2>2. UNCHANGED <<router, shared, closed, producers, wTransports, wProducers, made, videos,
                    ended, crashed>>
    BY <1>3 DEF ConsumeDone, roomVars, sharing, workerVars, clientVars, history, clientDid
  <2>3. inbox' = inbox /\ reply' = reply
    BY <1>3 DEF ConsumeDone
  <2>4. \A x \in Peers : Refused(x)' <=> Refused(x)
    BY <2>3, RefusedStays
  <2>5. WorkInv'
    BY <2>1, <2>2, Basics DEF WorkInv, Making, Leaving, LocalIs, At
  <2>6. StoreInv'
    BY <2>1, <2>2, Basics DEF StoreInv, Leaving, LocalIs, At
  <2>7. RouteInv'
    BY <2>1, <2>2, <2>4, Basics DEF RouteInv, Replacing, ClosesSend, LocalIs, At
  <2>8. SharedInv'
    BY <2>1, <2>2, <2>4, Basics DEF SharedInv, VideoShared, ClosesSend, LocalIs, At
  <2>9. NullInv'
    BY <2>1, <2>2, Basics DEF NullInv, NullNeedsClosedProducer, TasksCreated, Task, Created,
       Consuming, Leaving, LocalIs, At
  <2>10. QED BY <2>5, <2>6, <2>7, <2>8, <2>9
<1>4. CASE ConsumeNull(p)
  <2>1. pc[p] = "request" /\ pc' = pc /\ local' = local
    BY <1>4 DEF ConsumeNull
  <2>2. /\ crashed' = p
        /\ UNCHANGED <<router, shared, closed, producers, wTransports, wProducers, made,
                       videos, ended>>
    BY <1>4 DEF ConsumeNull, roomVars, sharing, workerVars, clientVars, history, clientDid
  <2>3. inbox' = inbox /\ reply' = reply
    BY <1>4 DEF ConsumeNull
  <2>4. \A x \in Peers : Refused(x)' <=> Refused(x)
    BY <2>3, RefusedStays
  <2>5. WorkInv'
    BY <2>1, <2>2, Basics DEF WorkInv, Making, Leaving, LocalIs, At
  <2>6. StoreInv'
    BY <2>1, <2>2, Basics DEF StoreInv, Leaving, LocalIs, At
  <2>7. RouteInv'
    BY <2>1, <2>2, <2>4, Basics DEF RouteInv, Replacing, ClosesSend, LocalIs, At
  <2>8. SharedInv'
    BY <2>1, <2>2, <2>4, Basics DEF SharedInv, VideoShared, ClosesSend, LocalIs, At
  <2>9. local[p].job # None
    BY <2>1 DEF TaskInv, Tasked, Creating, Consuming
  <2>10. local[p].job \in Consumer
    BY <2>9 DEF TypeOK, Local
  <2>11. /\ local[p].job.prod \notin router
        /\ local[p].job.prod \in Producers /\ local[p].job.peer \in Peers
    BY <1>4, <2>10 DEF ConsumeNull, Consumer
  <2>12. Task(p, local[p].job.peer, local[p].job.prod)
    BY <2>9 DEF Task
  <2>13. Announcing(p) \/ Walking(p) \/ Sharing(p)
    BY <2>1 DEF TaskInv, Tasked, Consuming
  <2>14. Announcing(p) => local[p].job.prod \in closed \ ended
    BY <2>11, <2>12, <2>1 DEF Announcing, NullInv, Consuming
  <2>15. Walking(p) => Owner[local[p].job.prod] # p
    BY <2>11, <2>12 DEF Walking, LockInv, LocksAreReleased
  <2>16. Sharing(p) => Joining(p) /\ local[p].job.prod \in made
    BY <2>11, <2>12, <2>1, Basics DEF Sharing, Joining, Consuming
  <2>17. Sharing(p) => Owner[local[p].job.prod] # p
    BY <2>16 DEF StageInv, Staged
  <2>18. local[p].job.prod \notin wProducers
    <3>1. Created(local[p].job.prod)
      BY <2>11, <2>12 DEF NullInv, TasksCreated
    <3>2. QED BY <2>11, <3>1 DEF Created, WorkInv
  <2>19. NullInv'
    BY <2>1, <2>2, Basics, <2>9, <2>10, <2>11, <2>12, <2>13, <2>14, <2>15, <2>16,
       <2>17, <2>18 DEF NullInv, NullNeedsClosedProducer, TasksCreated, Task, Created, Consuming, Leaving, LocalIs, At
  <2>20. QED BY <2>5, <2>6, <2>7, <2>8, <2>19
<1>5. CASE Consume(p)
  <2>1. At(p, "request", "consuming") /\ local' = local
    BY <1>5, GotoIs DEF Consume
  <2>2. UNCHANGED <<router, shared, closed, producers, wTransports, wProducers, made, videos,
                    ended, crashed>>
    BY <1>5 DEF Consume, roomVars, sharing, workerVars, clientVars, history, clientDid
  <2>3. Respond(p, {}, <<local[p].job.peer, "recv">> \in wTransports /\ local[p].job.prod \in wProducers) /\ reply' = reply
    BY <1>5 DEF Consume
  <2>4. \A x \in Peers : Refused(x)' <=> Refused(x) \/ (x = p /\ ~(<<local[p].job.peer, "recv">> \in wTransports /\ local[p].job.prod \in wProducers))
    BY <2>3, RefusedResponds
  <2>5. ~Refused(p)
    BY <2>1, NotRefused DEF At, Waiting
  <2>6. WorkInv'
    BY <2>1, <2>2, Basics DEF WorkInv, Making, Leaving, LocalIs, At
  <2>7. StoreInv'
    BY <2>1, <2>2, Basics DEF StoreInv, Leaving, LocalIs, At
  <2>8. RouteInv'
    BY <2>1, <2>2, <2>4, <2>5, Basics DEF RouteInv, Replacing, ClosesSend, LocalIs, At
  <2>9. SharedInv'
    BY <2>1, <2>2, <2>4, <2>5, Basics DEF SharedInv, VideoShared, ClosesSend, LocalIs, At
  <2>10. NullInv'
    BY <2>1, <2>2, Basics DEF NullInv, NullNeedsClosedProducer, TasksCreated, Task, Created,
       Consuming, Leaving, LocalIs, At
  <2>11. QED BY <2>6, <2>7, <2>8, <2>9, <2>10
<1>6. CASE ConsumeAnswered(p) /\ reply[p] = "ok"
  <2>1. At(p, "consuming", "emplace") /\ local' = local
    BY <1>6, GotoIs DEF ConsumeAnswered
  <2>2. UNCHANGED <<router, shared, closed, producers, wTransports, wProducers, made, videos,
                    ended, crashed>>
    BY <1>6 DEF ConsumeAnswered, roomVars, sharing, workerVars, clientVars, history, clientDid
  <2>3. Answered(p) /\ inbox' = inbox
    BY <1>6 DEF ConsumeAnswered
  <2>4. \A x \in Peers : x # p => (Refused(x)' <=> Refused(x))
    BY <2>3, RefusedAnswered
  <2>5. WorkInv'
    BY <2>1, <2>2, Basics DEF WorkInv, Making, Leaving, LocalIs, At
  <2>6. StoreInv'
    BY <2>1, <2>2, Basics DEF StoreInv, Leaving, LocalIs, At
  <2>7. RouteInv'
    BY <2>1, <2>2, <2>4, Basics DEF RouteInv, Replacing, ClosesSend, LocalIs, At
  <2>8. SharedInv'
    BY <2>1, <2>2, <2>4, Basics DEF SharedInv, VideoShared, ClosesSend, LocalIs, At
  <2>9. NullInv'
    BY <2>1, <2>2, Basics DEF NullInv, NullNeedsClosedProducer, TasksCreated, Task, Created,
       Consuming, Leaving, LocalIs, At
  <2>10. QED BY <2>5, <2>6, <2>7, <2>8, <2>9
<1>7. CASE ConsumeAnswered(p) /\ reply[p] # "ok"
  <2>1. /\ At(p, "consuming", "leave")
        /\ LocalIs(p, {}, {}, None, {}, None, None, None, FALSE)
    BY <1>7, ConsumeAnsweredLocal, GotoIs
  <2>2. UNCHANGED <<router, shared, closed, producers, wTransports, wProducers, made, videos,
                    ended, crashed>>
    BY <1>7 DEF ConsumeAnswered, roomVars, sharing, workerVars, clientVars, history, clientDid
  <2>3. Answered(p) /\ inbox' = inbox
    BY <1>7 DEF ConsumeAnswered
  <2>4. \A x \in Peers : x # p => (Refused(x)' <=> Refused(x))
    BY <2>3, RefusedAnswered
  <2>5. WorkInv'
    BY <2>1, <2>2, Basics DEF WorkInv, Making, Leaving, LocalIs, At
  <2>6. StoreInv'
    BY <2>1, <2>2, Basics DEF StoreInv, Leaving, LocalIs, At
  <2>7. RouteInv'
    BY <2>1, <2>2, <2>4, Basics DEF RouteInv, Replacing, ClosesSend, LocalIs, At
  <2>8. SharedInv'
    BY <2>1, <2>2, <2>4, Basics DEF SharedInv, VideoShared, ClosesSend, LocalIs, At
  <2>9. NullInv'
    BY <2>1, <2>2, Basics DEF NullInv, NullNeedsClosedProducer, TasksCreated, Task, Created,
       Consuming, Leaving, LocalIs, At
  <2>10. QED BY <2>5, <2>6, <2>7, <2>8, <2>9
<1>8. CASE Emplace(p)
  <2>1. At(p, "emplace", "tell") /\ local' = local
    BY <1>8, GotoIs DEF Emplace
  <2>2. UNCHANGED <<router, shared, closed, producers, wTransports, wProducers, made, videos,
                    ended, crashed>>
    BY <1>8 DEF Emplace, roomVars, sharing, workerVars, clientVars, history, clientDid
  <2>3. inbox' = inbox /\ reply' = reply
    BY <1>8 DEF Emplace
  <2>4. \A x \in Peers : Refused(x)' <=> Refused(x)
    BY <2>3, RefusedStays
  <2>5. WorkInv'
    BY <2>1, <2>2, Basics DEF WorkInv, Making, Leaving, LocalIs, At
  <2>6. StoreInv'
    BY <2>1, <2>2, Basics DEF StoreInv, Leaving, LocalIs, At
  <2>7. RouteInv'
    BY <2>1, <2>2, <2>4, Basics DEF RouteInv, Replacing, ClosesSend, LocalIs, At
  <2>8. SharedInv'
    BY <2>1, <2>2, <2>4, Basics DEF SharedInv, VideoShared, ClosesSend, LocalIs, At
  <2>9. NullInv'
    BY <2>1, <2>2, Basics DEF NullInv, NullNeedsClosedProducer, TasksCreated, Task, Created,
       Consuming, Leaving, LocalIs, At
  <2>10. QED BY <2>5, <2>6, <2>7, <2>8, <2>9
<1>9. CASE Tell(p)
  <2>1. /\ At(p, "tell", "consume")
        /\ LocalIs(p, local[p].others, local[p].visit, local[p].reading, local[p].todo,
                   None, local[p].prod, local[p].dir, local[p].holding)
    BY <1>9, TellLocal, GotoIs
  <2>2. UNCHANGED <<router, shared, closed, producers, wTransports, wProducers, made, videos,
                    ended, crashed>>
    BY <1>9 DEF Tell, roomVars, sharing, workerVars, clientVars, history, clientDid
  <2>3. inbox' = inbox /\ reply' = reply
    BY <1>9 DEF Tell
  <2>4. \A x \in Peers : Refused(x)' <=> Refused(x)
    BY <2>3, RefusedStays
  <2>5. WorkInv'
    BY <2>1, <2>2, Basics DEF WorkInv, Making, Leaving, LocalIs, At
  <2>6. StoreInv'
    BY <2>1, <2>2, Basics DEF StoreInv, Leaving, LocalIs, At
  <2>7. RouteInv'
    BY <2>1, <2>2, <2>4, Basics DEF RouteInv, Replacing, ClosesSend, LocalIs, At
  <2>8. SharedInv'
    BY <2>1, <2>2, <2>4, Basics DEF SharedInv, VideoShared, ClosesSend, LocalIs, At
  <2>9. NullInv'
    BY <2>1, <2>2, Basics DEF NullInv, NullNeedsClosedProducer, TasksCreated, Task, Created,
       Consuming, Leaving, LocalIs, At
  <2>10. QED BY <2>5, <2>6, <2>7, <2>8, <2>9
<1>10. QED BY <1>1, <1>2, <1>3, <1>4, <1>5, <1>6, <1>7, <1>8, <1>9,
              CanConsumeLocal DEF ConsumeStep

LEMMA ProduceWork ==
  ASSUME TypeOK, HandInv, AnswerInv, LockInv, TaskInv, StageInv, OwnInv, WorkInv, StoreInv, RouteInv, SharedInv, NullInv,
         crashed = None, NEW p \in Peers, ProduceStep(p)
  PROVE  WorkInv' /\ StoreInv' /\ RouteInv' /\ SharedInv' /\ NullInv'
<1>1. ASSUME NEW m \in Producers, Produce(p, m) PROVE WorkInv' /\ StoreInv' /\ RouteInv' /\ SharedInv' /\ NullInv'
  <2>1. /\ At(p, "idle", "producing")
        /\ LocalIs(p, local[p].others, local[p].visit, local[p].reading, local[p].todo,
                   local[p].job, m, local[p].dir, local[p].holding)
    BY <1>1, ProduceLocal, GotoIs
  <2>2. /\ videos' \in {videos, videos \cup {m}}
        /\ p \in joined /\ Owner[m] = p /\ m \notin made
        /\ wProducers' = wProducers \cup {m}
        /\ made' = made \cup {m}
        /\ UNCHANGED <<router, shared, closed, producers, wTransports, ended, crashed>>
    BY <1>1 DEF Produce, roomVars, sharing, workerVars, clientVars, history, clientDid
  <2>3. Respond(p, {}, TRUE) /\ reply' = reply
    BY <1>1 DEF Produce
  <2>4. \A x \in Peers : Refused(x)' <=> Refused(x)
    BY <2>3, RefusedResponds
  <2>5. ~Refused(p)
    BY <2>1, NotRefused DEF At, Waiting
  <2>6. m \notin ended /\ m \notin closed
    BY <2>2, Basics
  <2>7. <<p, "send">> \in wTransports
    BY <2>1 DEF StageInv, Staged, Directions, At
  <2>8. WorkInv'
    BY <2>1, <2>2, Basics, <2>6, <2>7 DEF WorkInv, Making, Leaving, LocalIs, At
  <2>9. StoreInv'
    BY <2>1, <2>2, Basics DEF StoreInv, Leaving, LocalIs, At
  <2>10. RouteInv'
    BY <2>1, <2>2, <2>4, <2>5, Basics DEF RouteInv, Replacing, ClosesSend, LocalIs, At
  <2>11. SharedInv'
    BY <2>1, <2>2, <2>4, <2>5, Basics DEF SharedInv, VideoShared, ClosesSend, LocalIs, At
  <2>12. local[p].job = None /\ local[p].todo = {}
    BY <2>1 DEF TaskInv, Tasked, Creating, Consuming, At
  <2>13. ASSUME NEW y \in Peers, NEW x \in Peers, NEW n \in Producers, Task(y, x, n)' PROVE Created(n)'
    <3>1. Task(y, x, n) /\ y # p
      BY <2>1, <2>12, <2>13 DEF Task, LocalIs
    <3>2. n \in made
      <4>1. pc[y] \in Consuming
        BY <3>1 DEF TaskInv, Tasked, Task, Creating, Consuming
      <4>2. Announcing(y) \/ Walking(y) \/ Sharing(y)
        BY <4>1 DEF TaskInv, Tasked
      <4>3. CASE Announcing(y)
        BY <3>1, <4>3, OwnMeans DEF Announcing
      <4>4. CASE Walking(y)
        BY <3>1, <4>4 DEF Walking
      <4>5. CASE Sharing(y)
        BY <3>1, <4>5, Basics DEF Sharing
      <4>6. QED BY <4>2, <4>3, <4>4, <4>5
    <3>3. n # m /\ Created(n)
      BY <2>2, <3>1, <3>2 DEF NullInv, TasksCreated
    <3>4. QED BY <2>1, <3>3, Basics DEF Created, LocalIs, At
  <2>14. NullInv'
    BY <2>1, <2>2, <2>13, Basics DEF NullInv, NullNeedsClosedProducer, TasksCreated,
       Consuming, Leaving, LocalIs, At
  <2>15. QED BY <2>8, <2>9, <2>10, <2>11, <2>14
<1>2. CASE ProduceAnswered(p)
  <2>1. At(p, "producing", IF local[p].prod \in videos THEN "share" ELSE "store") /\ local' = local
    BY <1>2, GotoIs DEF ProduceAnswered
  <2>2. /\ router' = router \cup {local[p].prod}
        /\ UNCHANGED <<shared, closed, producers, wTransports, wProducers, made, videos,
                       ended, crashed>>
    BY <1>2 DEF ProduceAnswered, roomVars, sharing, workerVars, clientVars, history, clientDid
  <2>3. Answered(p) /\ inbox' = inbox
    BY <1>2 DEF ProduceAnswered
  <2>4. \A x \in Peers : x # p => (Refused(x)' <=> Refused(x))
    BY <2>3, RefusedAnswered
  <2>5. WorkInv'
    BY <2>1, <2>2, Basics DEF WorkInv, Making, Leaving, LocalIs, At
  <2>6. StoreInv'
    BY <2>1, <2>2, Basics DEF StoreInv, Leaving, LocalIs, At
  <2>7. local[p].prod \in wProducers
    BY <2>1 DEF OwnInv, At
  <2>8. RouteInv'
    BY <2>1, <2>2, <2>4, Basics, <2>7 DEF RouteInv, Replacing, ClosesSend, LocalIs, At
  <2>9. SharedInv'
    BY <2>1, <2>2, <2>4, Basics DEF SharedInv, VideoShared, ClosesSend, LocalIs, At
  <2>10. NullInv'
    BY <2>1, <2>2, Basics DEF NullInv, NullNeedsClosedProducer, TasksCreated, Task, Created,
       Consuming, Leaving, LocalIs, At
  <2>11. QED BY <2>5, <2>6, <2>8, <2>9, <2>10
<1>3. CASE Store(p)
  <2>1. At(p, "store", "announce") /\ local' = local
    BY <1>3, GotoIs DEF Store
  <2>2. /\ producers' = [producers EXCEPT ![p] = @ \cup {local[p].prod}]
        /\ UNCHANGED <<router, shared, closed, wTransports, wProducers, made, videos, ended,
                       crashed>>
    BY <1>3 DEF Store, roomVars, sharing, workerVars, clientVars, history, clientDid
  <2>3. inbox' = inbox /\ reply' = reply
    BY <1>3 DEF Store
  <2>4. \A x \in Peers : Refused(x)' <=> Refused(x)
    BY <2>3, RefusedStays
  <2>5. producers'[p] = producers[p] \cup {local[p].prod}
        /\ \A x \in Peers : x # p => producers'[x] = producers[x]
    BY <2>2 DEF TypeOK
  <2>6. \A x \in Peers : pc[x] \in Creates \cup {"closing", "erase"} => local[x].prod # None
    BY DEF HandInv
  <2>7. /\ local[p].prod \in made /\ local[p].prod # None
        /\ Owner[local[p].prod] = p /\ local[p].prod \in wProducers
    BY <2>1, <2>6 DEF OwnInv, Creates, At
  <2>8. local[p].prod \notin ended /\ local[p].prod \in router
    BY <2>1, <2>7 DEF WorkInv, OwnInv, At
  <2>9. WorkInv'
    BY <2>1, <2>2, Basics, <2>5, <2>6, <2>7, <2>8 DEF WorkInv, Making, Leaving, LocalIs, At
  <2>10. producers'[p] = producers[p] \cup {local[p].prod}
        /\ \A x \in Peers : x # p => producers'[x] = producers[x]
    BY <2>2 DEF TypeOK
  <2>11. \A x \in Peers : pc[x] \in Creates \cup {"closing", "erase"} => local[x].prod # None
    BY DEF HandInv
  <2>12. /\ local[p].prod \in made /\ local[p].prod # None
        /\ Owner[local[p].prod] = p /\ local[p].prod \in wProducers
    BY <2>1, <2>11 DEF OwnInv, Creates, At
  <2>13. local[p].prod \notin ended /\ local[p].prod \in router
    BY <2>1, <2>12 DEF WorkInv, OwnInv, At
  <2>14. StoreInv'
    BY <2>1, <2>2, Basics, <2>10, <2>11, <2>12, <2>13 DEF StoreInv, Leaving, LocalIs, At
  <2>15. RouteInv'
    BY <2>1, <2>2, <2>4, Basics DEF RouteInv, Replacing, ClosesSend, LocalIs, At
  <2>16. SharedInv'
    BY <2>1, <2>2, <2>4, Basics DEF SharedInv, VideoShared, ClosesSend, LocalIs, At
  <2>17. producers'[p] = producers[p] \cup {local[p].prod}
        /\ \A x \in Peers : x # p => producers'[x] = producers[x]
    BY <2>2 DEF TypeOK
  <2>18. \A x \in Peers : pc[x] \in Creates \cup {"closing", "erase"} => local[x].prod # None
    BY DEF HandInv
  <2>19. /\ local[p].prod \in made /\ local[p].prod # None
        /\ Owner[local[p].prod] = p /\ local[p].prod \in wProducers
    BY <2>1, <2>18 DEF OwnInv, Creates, At
  <2>20. local[p].prod \notin ended /\ local[p].prod \in router
    BY <2>1, <2>19 DEF WorkInv, OwnInv, At
  <2>21. NullInv'
    BY <2>1, <2>2, Basics, <2>17, <2>18, <2>19, <2>20 DEF NullInv, NullNeedsClosedProducer,
       TasksCreated, Task, Created, Consuming, Leaving, LocalIs, At
  <2>22. QED BY <2>9, <2>14, <2>15, <2>16, <2>21
<1>4. CASE Announce(p)
  <2>0. local[p].prod # None
    BY <1>4 DEF Announce, HandInv, Creates, Goto
  <2>1. /\ At(p, "announce", "consume")
        /\ LocalIs(p, local[p].others, local[p].visit, local[p].reading,
                   JoinedPeers(p) \X {local[p].prod}, local[p].job, local[p].prod,
                   local[p].dir, local[p].holding)
    BY <1>4, AnnounceLocal, GotoIs, <2>0
  <2>2. UNCHANGED <<router, shared, closed, producers, wTransports, wProducers, made, videos,
                    ended, crashed>>
    BY <1>4 DEF Announce, roomVars, sharing, workerVars, clientVars, history, clientDid
  <2>3. inbox' = inbox /\ reply' = reply
    BY <1>4 DEF Announce
  <2>4. \A x \in Peers : Refused(x)' <=> Refused(x)
    BY <2>3, RefusedStays
  <2>5. WorkInv'
    BY <2>1, <2>2, Basics DEF WorkInv, Making, Leaving, LocalIs, At
  <2>6. StoreInv'
    BY <2>1, <2>2, Basics DEF StoreInv, Leaving, LocalIs, At
  <2>7. RouteInv'
    BY <2>1, <2>2, <2>4, Basics DEF RouteInv, Replacing, ClosesSend, LocalIs, At
  <2>8. SharedInv'
    BY <2>1, <2>2, <2>4, Basics DEF SharedInv, VideoShared, ClosesSend, LocalIs, At
  <2>9. ASSUME NEW y \in Peers, NEW x \in Peers, NEW n \in Producers, Task(y, x, n)' PROVE Created(n)'
    <3>1. Task(y, x, n) \/ n = local[p].prod
      BY <2>1, <2>9 DEF Task, LocalIs
    <3>2. n = local[p].prod => Created(n)
      BY <2>0, <2>1 DEF OwnInv, Created, At
    <3>3. Created(n)
      BY <3>1, <3>2 DEF NullInv, TasksCreated
    <3>4. QED BY <2>1, <3>3, Basics DEF Created, LocalIs, At
  <2>10. NullInv'
    BY <2>1, <2>2, <2>9, Basics DEF NullInv, NullNeedsClosedProducer, TasksCreated,
       Consuming, Leaving, LocalIs, At
  <2>11. QED BY <2>5, <2>6, <2>7, <2>8, <2>10
<1>5. CASE Replace(p)
  <2>1. /\ At(p, "share", "replacing")
        /\ LocalIs(p, local[p].others, local[p].visit, local[p].reading, local[p].todo,
                   local[p].job, local[p].prod, local[p].dir, TRUE)
    BY <1>5, ReplaceLocal, GotoIs
  <2>2. /\ closed' = closed \cup {shared}
        /\ wProducers' = wProducers \ {shared}
        /\ Free /\ VideoShared
        /\ UNCHANGED <<router, shared, producers, wTransports, made, videos, ended, crashed>>
    BY <1>5 DEF Replace, roomVars, sharing, workerVars, clientVars, history, clientDid
  <2>3. ConsumersOf({shared}) \in SUBSET Consumer
    BY DEF ConsumersOf, TypeOK
  <2>4. (shared \in wProducers) \in BOOLEAN
    OBVIOUS
  <2>5. Respond(p, ConsumersOf({shared}), shared \in wProducers) /\ reply' = reply
    BY <1>5 DEF Replace
  <2>6. \A x \in Peers : Refused(x)' <=> Refused(x) \/ (x = p /\ ~(shared \in wProducers))
    BY <2>3, <2>4, <2>5, RefusedResponds
  <2>7. ~Refused(p)
    BY <2>1, NotRefused DEF At, Waiting
  <2>8. WorkInv'
    BY <2>1, <2>2, Basics DEF WorkInv, Making, Leaving, LocalIs, At
  <2>9. shared \in Producers /\ shared \notin producers[Owner[shared]]
    BY <2>2, Basics DEF OwnInv, VideoShared
  <2>10. StoreInv'
    BY <2>1, <2>2, Basics, <2>9 DEF StoreInv, Leaving, LocalIs, At
  <2>11. RouteInv'
    BY <2>1, <2>2, <2>6, <2>7, Basics DEF RouteInv, Replacing, ClosesSend, LocalIs, At
  <2>12. SharedInv'
    BY <2>1, <2>2, <2>6, <2>7, Basics DEF SharedInv, VideoShared, ClosesSend, LocalIs, At
  <2>13. NullInv'
    BY <2>1, <2>2, Basics DEF NullInv, NullNeedsClosedProducer, TasksCreated, Task, Created,
       Consuming, Leaving, LocalIs, At
  <2>14. QED BY <2>8, <2>10, <2>11, <2>12, <2>13
<1>6. CASE ReplaceAnswered(p) /\ reply[p] = "ok"
  <2>1. /\ At(p, "replacing", "announce")
        /\ LocalIs(p, local[p].others, local[p].visit, local[p].reading, local[p].todo,
                   local[p].job, local[p].prod, local[p].dir, FALSE)
    BY <1>6, ReplaceAnsweredLocal, GotoIs
  <2>2. /\ router' = router \ {shared}
        /\ shared' = local[p].prod
        /\ UNCHANGED <<closed, producers, wTransports, wProducers, made, videos, ended,
                       crashed>>
    BY <1>6 DEF ReplaceAnswered, roomVars, sharing, workerVars, clientVars, history, clientDid
  <2>3. Answered(p) /\ inbox' = inbox
    BY <1>6 DEF ReplaceAnswered
  <2>4. \A x \in Peers : x # p => (Refused(x)' <=> Refused(x))
    BY <2>3, RefusedAnswered
  <2>5. shared # None /\ shared \in closed /\ shared \in Producers
    BY <2>1, Basics DEF SharedInv, At
  <2>6. shared \notin wProducers
    BY <2>5 DEF WorkInv
  <2>7. \A x \in Peers : x # p => pc[x] \notin {"replacing", "detaching"}
    BY <2>1 DEF LockInv, At
  <2>8. \A x \in Peers : pc[x] \in Creates \cup {"closing", "erase"} => local[x].prod # None
    BY DEF HandInv
  <2>9. /\ local[p].prod \in made /\ local[p].prod # None
        /\ Owner[local[p].prod] = p /\ local[p].prod \in wProducers
    BY <2>1, <2>8 DEF OwnInv, Creates, At
  <2>10. local[p].prod \notin ended /\ local[p].prod \notin closed
    BY <2>9 DEF WorkInv
  <2>11. local[p].prod \in videos /\ local[p].prod \in router
    BY <2>1 DEF HandInv, OwnInv, At
  <2>12. WorkInv'
    BY <2>1, <2>2, Basics, <2>5, <2>6, <2>7, <2>8, <2>9, <2>10, <2>11 DEF WorkInv, Making,
       Leaving, LocalIs, At
  <2>13. StoreInv'
    BY <2>1, <2>2, Basics DEF StoreInv, Leaving, LocalIs, At
  <2>14. RouteInv'
    BY <2>1, <2>2, <2>4, Basics DEF RouteInv, Replacing, ClosesSend, LocalIs, At
  <2>15. shared # None /\ shared \in closed /\ shared \in Producers
    BY <2>1, Basics DEF SharedInv, At
  <2>16. shared \notin wProducers
    BY <2>15 DEF WorkInv
  <2>17. \A x \in Peers : x # p => pc[x] \notin {"replacing", "detaching"}
    BY <2>1 DEF LockInv, At
  <2>18. \A x \in Peers : pc[x] \in Creates \cup {"closing", "erase"} => local[x].prod # None
    BY DEF HandInv
  <2>19. /\ local[p].prod \in made /\ local[p].prod # None
        /\ Owner[local[p].prod] = p /\ local[p].prod \in wProducers
    BY <2>1, <2>18 DEF OwnInv, Creates, At
  <2>20. local[p].prod \notin ended /\ local[p].prod \notin closed
    BY <2>19 DEF WorkInv
  <2>21. local[p].prod \in videos /\ local[p].prod \in router
    BY <2>1 DEF HandInv, OwnInv, At
  <2>22. SharedInv'
    BY <2>1, <2>2, <2>4, Basics, <2>15, <2>16, <2>17, <2>18, <2>19, <2>20,
       <2>21 DEF SharedInv, VideoShared, ClosesSend, LocalIs, At
  <2>23. shared # None /\ shared \in closed /\ shared \in Producers
    BY <2>1, Basics DEF SharedInv, At
  <2>24. shared \notin wProducers
    BY <2>23 DEF WorkInv
  <2>25. \A x \in Peers : x # p => pc[x] \notin {"replacing", "detaching"}
    BY <2>1 DEF LockInv, At
  <2>26. \A x \in Peers : pc[x] \in Creates \cup {"closing", "erase"} => local[x].prod # None
    BY DEF HandInv
  <2>27. /\ local[p].prod \in made /\ local[p].prod # None
        /\ Owner[local[p].prod] = p /\ local[p].prod \in wProducers
    BY <2>1, <2>26 DEF OwnInv, Creates, At
  <2>28. local[p].prod \notin ended /\ local[p].prod \notin closed
    BY <2>27 DEF WorkInv
  <2>29. local[p].prod \in videos /\ local[p].prod \in router
    BY <2>1 DEF HandInv, OwnInv, At
  <2>30. NullInv'
    BY <2>1, <2>2, Basics, <2>23, <2>24, <2>25, <2>26, <2>27, <2>28, <2>29 DEF NullInv,
       NullNeedsClosedProducer, TasksCreated, Task, Created, Consuming, Leaving, LocalIs, At
  <2>31. QED BY <2>12, <2>13, <2>14, <2>22, <2>30
<1>7. CASE ReplaceAnswered(p) /\ reply[p] # "ok"
  <2>1. /\ At(p, "replacing", "leave")
        /\ LocalIs(p, {}, {}, None, {}, None, None, None, FALSE)
    BY <1>7, ReplaceAnsweredLocal, GotoIs
  <2>2. UNCHANGED <<router, shared, closed, producers, wTransports, wProducers, made, videos,
                    ended, crashed>>
    BY <1>7 DEF ReplaceAnswered, roomVars, sharing, workerVars, clientVars, history, clientDid
  <2>3. Answered(p) /\ inbox' = inbox
    BY <1>7 DEF ReplaceAnswered
  <2>4. \A x \in Peers : x # p => (Refused(x)' <=> Refused(x))
    BY <2>3, RefusedAnswered
  <2>5. WorkInv'
    BY <2>1, <2>2, Basics DEF WorkInv, Making, Leaving, LocalIs, At
  <2>6. StoreInv'
    BY <2>1, <2>2, Basics DEF StoreInv, Leaving, LocalIs, At
  <2>7. Refused(p)
    BY <1>7, <2>3 DEF Answered, Refused, TypeOK
  <2>8. RouteInv'
    BY <2>1, <2>2, <2>4, Basics, <2>7 DEF RouteInv, Replacing, ClosesSend, LocalIs, At
  <2>9. SharedInv'
    BY <2>1, <2>2, <2>4, Basics DEF SharedInv, VideoShared, ClosesSend, LocalIs, At
  <2>10. NullInv'
    BY <2>1, <2>2, Basics DEF NullInv, NullNeedsClosedProducer, TasksCreated, Task, Created,
       Consuming, Leaving, LocalIs, At
  <2>11. QED BY <2>5, <2>6, <2>8, <2>9, <2>10
<1>8. CASE Attach(p)
  <2>1. At(p, "share", "announce") /\ local' = local
    BY <1>8, GotoIs DEF Attach
  <2>2. /\ shared' = local[p].prod
        /\ Free /\ ~VideoShared
        /\ UNCHANGED <<router, closed, producers, wTransports, wProducers, made, videos,
                       ended, crashed>>
    BY <1>8 DEF Attach, roomVars, sharing, workerVars, clientVars, history, clientDid
  <2>3. inbox' = inbox /\ reply' = reply
    BY <1>8 DEF Attach
  <2>4. \A x \in Peers : Refused(x)' <=> Refused(x)
    BY <2>3, RefusedStays
  <2>5. shared = None \/ shared \in closed
    BY <2>2 DEF VideoShared
  <2>6. shared \notin wProducers
    BY <2>5, Basics DEF WorkInv
  <2>7. \A x \in Peers : pc[x] \notin {"replacing", "detaching"}
    BY <2>2 DEF LockInv, Free
  <2>8. \A x \in Peers : pc[x] \in Creates \cup {"closing", "erase"} => local[x].prod # None
    BY DEF HandInv
  <2>9. /\ local[p].prod \in made /\ local[p].prod # None
        /\ Owner[local[p].prod] = p /\ local[p].prod \in wProducers
    BY <2>1, <2>8 DEF OwnInv, Creates, At
  <2>10. local[p].prod \notin ended /\ local[p].prod \notin closed
    BY <2>9 DEF WorkInv
  <2>11. local[p].prod \in videos /\ local[p].prod \in router
    BY <2>1 DEF HandInv, OwnInv, At
  <2>12. WorkInv'
    BY <2>1, <2>2, Basics, <2>5, <2>6, <2>7, <2>8, <2>9, <2>10, <2>11 DEF WorkInv, Making,
       Leaving, LocalIs, At
  <2>13. StoreInv'
    BY <2>1, <2>2, Basics DEF StoreInv, Leaving, LocalIs, At
  <2>14. shared = None \/ shared \in closed
    BY <2>2 DEF VideoShared
  <2>15. shared \notin wProducers
    BY <2>14, Basics DEF WorkInv
  <2>16. \A x \in Peers : pc[x] \notin {"replacing", "detaching"}
    BY <2>2 DEF LockInv, Free
  <2>17. \A x \in Peers : pc[x] \in Creates \cup {"closing", "erase"} => local[x].prod # None
    BY DEF HandInv
  <2>18. /\ local[p].prod \in made /\ local[p].prod # None
        /\ Owner[local[p].prod] = p /\ local[p].prod \in wProducers
    BY <2>1, <2>17 DEF OwnInv, Creates, At
  <2>19. local[p].prod \notin ended /\ local[p].prod \notin closed
    BY <2>18 DEF WorkInv
  <2>20. local[p].prod \in videos /\ local[p].prod \in router
    BY <2>1 DEF HandInv, OwnInv, At
  <2>21. RouteInv'
    BY <2>1, <2>2, <2>4, Basics, <2>14, <2>15, <2>16, <2>17, <2>18, <2>19,
       <2>20 DEF RouteInv, Replacing, ClosesSend, LocalIs, At
  <2>22. shared = None \/ shared \in closed
    BY <2>2 DEF VideoShared
  <2>23. shared \notin wProducers
    BY <2>22, Basics DEF WorkInv
  <2>24. \A x \in Peers : pc[x] \notin {"replacing", "detaching"}
    BY <2>2 DEF LockInv, Free
  <2>25. \A x \in Peers : pc[x] \in Creates \cup {"closing", "erase"} => local[x].prod # None
    BY DEF HandInv
  <2>26. /\ local[p].prod \in made /\ local[p].prod # None
        /\ Owner[local[p].prod] = p /\ local[p].prod \in wProducers
    BY <2>1, <2>25 DEF OwnInv, Creates, At
  <2>27. local[p].prod \notin ended /\ local[p].prod \notin closed
    BY <2>26 DEF WorkInv
  <2>28. local[p].prod \in videos /\ local[p].prod \in router
    BY <2>1 DEF HandInv, OwnInv, At
  <2>29. SharedInv'
    BY <2>1, <2>2, <2>4, Basics, <2>22, <2>23, <2>24, <2>25, <2>26, <2>27,
       <2>28 DEF SharedInv, VideoShared, ClosesSend, LocalIs, At
  <2>30. shared = None \/ shared \in closed
    BY <2>2 DEF VideoShared
  <2>31. shared \notin wProducers
    BY <2>30, Basics DEF WorkInv
  <2>32. \A x \in Peers : pc[x] \notin {"replacing", "detaching"}
    BY <2>2 DEF LockInv, Free
  <2>33. \A x \in Peers : pc[x] \in Creates \cup {"closing", "erase"} => local[x].prod # None
    BY DEF HandInv
  <2>34. /\ local[p].prod \in made /\ local[p].prod # None
        /\ Owner[local[p].prod] = p /\ local[p].prod \in wProducers
    BY <2>1, <2>33 DEF OwnInv, Creates, At
  <2>35. local[p].prod \notin ended /\ local[p].prod \notin closed
    BY <2>34 DEF WorkInv
  <2>36. local[p].prod \in videos /\ local[p].prod \in router
    BY <2>1 DEF HandInv, OwnInv, At
  <2>37. NullInv'
    BY <2>1, <2>2, Basics, <2>30, <2>31, <2>32, <2>33, <2>34, <2>35, <2>36 DEF NullInv,
       NullNeedsClosedProducer, TasksCreated, Task, Created, Consuming, Leaving, LocalIs, At
  <2>38. QED BY <2>12, <2>13, <2>21, <2>29, <2>37
<1>9. QED BY <1>1, <1>2, <1>3, <1>4, <1>5, <1>6, <1>7, <1>8 DEF ProduceStep

LEMMA CloseWork ==
  ASSUME TypeOK, HandInv, AnswerInv, LockInv, TaskInv, StageInv, OwnInv, WorkInv, StoreInv, RouteInv, SharedInv, NullInv,
         crashed = None, NEW p \in Peers, CloseStep(p)
  PROVE  WorkInv' /\ StoreInv' /\ RouteInv' /\ SharedInv' /\ NullInv'
<1>1. ASSUME NEW m \in Producers, CloseProducer(p, m) PROVE WorkInv' /\ StoreInv' /\ RouteInv' /\ SharedInv' /\ NullInv'
  <2>1. /\ At(p, "idle", "closing")
        /\ LocalIs(p, local[p].others, local[p].visit, local[p].reading, local[p].todo,
                   local[p].job, m, local[p].dir, local[p].holding)
    BY <1>1, CloseProducerLocal, GotoIs
  <2>2. /\ wProducers' = wProducers \ {m}
        /\ ended' = ended \cup {m}
        /\ m \in producers[p]
        /\ UNCHANGED <<router, shared, closed, producers, wTransports, made, videos, crashed>>
    BY <1>1 DEF CloseProducer, roomVars, sharing, workerVars, clientVars, history, clientDid
  <2>3. ConsumersOf({m}) \in SUBSET Consumer
    BY DEF ConsumersOf, TypeOK
  <2>4. Respond(p, ConsumersOf({m}), TRUE) /\ reply' = reply
    BY <1>1 DEF CloseProducer
  <2>5. \A x \in Peers : Refused(x)' <=> Refused(x)
    BY <2>3, <2>4, RefusedResponds
  <2>6. ~Refused(p)
    BY <2>1, NotRefused DEF At, Waiting
  <2>7. WorkInv'
    BY <2>1, <2>2, Basics DEF WorkInv, Making, Leaving, LocalIs, At
  <2>8. Owner[m] = p /\ m \notin videos /\ m # shared /\ m # None
    BY <2>2, Basics DEF OwnInv
  <2>9. StoreInv'
    BY <2>1, <2>2, Basics, <2>8 DEF StoreInv, Leaving, LocalIs, At
  <2>10. Owner[m] = p /\ m \notin videos /\ m # shared /\ m # None
    BY <2>2, Basics DEF OwnInv
  <2>11. RouteInv'
    BY <2>1, <2>2, <2>5, <2>6, Basics, <2>10 DEF RouteInv, Replacing, ClosesSend, LocalIs, At
  <2>12. Owner[m] = p /\ m \notin videos /\ m # shared /\ m # None
    BY <2>2, Basics DEF OwnInv
  <2>13. SharedInv'
    BY <2>1, <2>2, <2>5, <2>6, Basics, <2>12 DEF SharedInv, VideoShared, ClosesSend, LocalIs, At
  <2>14. Owner[m] = p /\ m \notin videos /\ m # shared /\ m # None
    BY <2>2, Basics DEF OwnInv
  <2>15. \A x \in Peers : x # p => local[x].prod # m
    BY <2>14, Basics, OwnMeans
  <2>16. NullInv'
    BY <2>1, <2>2, Basics, <2>14, <2>15 DEF NullInv, NullNeedsClosedProducer, TasksCreated,
       Task, Created, Consuming, Leaving, LocalIs, At
  <2>17. QED BY <2>7, <2>9, <2>11, <2>13, <2>16
<1>2. ASSUME NEW m \in Producers, CloseVideo(p, m) PROVE WorkInv' /\ StoreInv' /\ RouteInv' /\ SharedInv' /\ NullInv'
  <2>1. /\ At(p, "idle", "detaching")
        /\ LocalIs(p, local[p].others, local[p].visit, local[p].reading, local[p].todo,
                   local[p].job, local[p].prod, local[p].dir, TRUE)
    BY <1>2, CloseVideoLocal, GotoIs
  <2>2. /\ closed' = closed \cup {m}
        /\ wProducers' = wProducers \ {m}
        /\ ended' = IF Owner[m] = p THEN ended \cup {m} ELSE ended
        /\ m = shared /\ m \notin closed /\ Free
        /\ UNCHANGED <<router, shared, producers, wTransports, made, videos, crashed>>
    BY <1>2 DEF CloseVideo, roomVars, sharing, workerVars, clientVars, history, clientDid
  <2>3. ConsumersOf({m}) \in SUBSET Consumer
    BY DEF ConsumersOf, TypeOK
  <2>4. /\ Respond(p, ConsumersOf({m}), m \in wProducers) /\ reply' = reply
        /\ (m \in wProducers) \in BOOLEAN
    BY <1>2 DEF CloseVideo
  <2>5. \A x \in Peers : Refused(x)' <=> Refused(x) \/ (x = p /\ ~(m \in wProducers))
    BY <2>3, <2>4, RefusedResponds
  <2>6. ~Refused(p)
    BY <2>1, NotRefused DEF At, Waiting
  <2>7. WorkInv'
    BY <2>1, <2>2, Basics DEF WorkInv, Making, Leaving, LocalIs, At
  <2>8. m \in videos /\ m \notin producers[Owner[m]]
    BY <2>2, Basics DEF OwnInv
  <2>9. StoreInv'
    BY <2>1, <2>2, Basics, <2>8 DEF StoreInv, Leaving, LocalIs, At
  <2>10. \A x \in Peers : pc[x] # "replacing" /\ pc[x] # "detaching"
    BY <2>2 DEF LockInv, Free
  <2>11. m \in router /\ m \notin wProducers => ClosesSend(Owner[m])
    BY <2>2, <2>8, <2>10, Basics DEF RouteInv, Replacing, OwnInv
  <2>12. RouteInv'
    BY <2>1, <2>2, <2>5, <2>6, <2>10, <2>11, Basics DEF RouteInv, Replacing, ClosesSend,
       LocalIs, At
  <2>13. SharedInv'
    BY <2>1, <2>2, <2>5, <2>6, Basics DEF SharedInv, VideoShared, ClosesSend, LocalIs, At
  <2>14. m # None
    BY Basics
  <2>15. \A x \in Peers : x # p /\ Owner[m] = p => local[x].prod # m
    BY <2>2, Basics, OwnMeans
  <2>16. NullInv'
    BY <2>1, <2>2, Basics, <2>14, <2>15 DEF NullInv, NullNeedsClosedProducer, TasksCreated,
       Task, Created, Consuming, Leaving, LocalIs, At
  <2>17. QED BY <2>7, <2>9, <2>12, <2>13, <2>16
<1>3. CASE VideoClosed(p) /\ reply[p] = "ok"
  <2>1. /\ At(p, "detaching", "idle")
        /\ LocalIs(p, local[p].others, local[p].visit, local[p].reading, local[p].todo,
                   local[p].job, local[p].prod, local[p].dir, FALSE)
    BY <1>3, VideoClosedLocal, GotoIs
  <2>2. /\ router' = router \ {shared}
        /\ shared' = None
        /\ UNCHANGED <<closed, producers, wTransports, wProducers, made, videos, ended,
                       crashed>>
    BY <1>3 DEF VideoClosed, roomVars, sharing, workerVars, clientVars, history, clientDid
  <2>3. Answered(p) /\ inbox' = inbox
    BY <1>3 DEF VideoClosed
  <2>4. \A x \in Peers : x # p => (Refused(x)' <=> Refused(x))
    BY <2>3, RefusedAnswered
  <2>5. shared # None /\ shared \in closed /\ shared \in Producers
    BY <2>1, Basics DEF SharedInv, At
  <2>6. shared \notin wProducers
    BY <2>5 DEF WorkInv
  <2>7. \A x \in Peers : x # p => pc[x] \notin {"replacing", "detaching"}
    BY <2>1 DEF LockInv, At
  <2>8. WorkInv'
    BY <2>1, <2>2, Basics, <2>5, <2>6, <2>7 DEF WorkInv, Making, Leaving, LocalIs, At
  <2>9. StoreInv'
    BY <2>1, <2>2, Basics DEF StoreInv, Leaving, LocalIs, At
  <2>10. RouteInv'
    BY <2>1, <2>2, <2>4, Basics DEF RouteInv, Replacing, ClosesSend, LocalIs, At
  <2>11. shared # None /\ shared \in closed /\ shared \in Producers
    BY <2>1, Basics DEF SharedInv, At
  <2>12. shared \notin wProducers
    BY <2>11 DEF WorkInv
  <2>13. \A x \in Peers : x # p => pc[x] \notin {"replacing", "detaching"}
    BY <2>1 DEF LockInv, At
  <2>14. SharedInv'
    BY <2>1, <2>2, <2>4, Basics, <2>11, <2>12, <2>13 DEF SharedInv, VideoShared, ClosesSend,
       LocalIs, At
  <2>15. shared # None /\ shared \in closed /\ shared \in Producers
    BY <2>1, Basics DEF SharedInv, At
  <2>16. shared \notin wProducers
    BY <2>15 DEF WorkInv
  <2>17. \A x \in Peers : x # p => pc[x] \notin {"replacing", "detaching"}
    BY <2>1 DEF LockInv, At
  <2>18. NullInv'
    BY <2>1, <2>2, Basics, <2>15, <2>16, <2>17 DEF NullInv, NullNeedsClosedProducer,
       TasksCreated, Task, Created, Consuming, Leaving, LocalIs, At
  <2>19. QED BY <2>8, <2>9, <2>10, <2>14, <2>18
<1>4. ASSUME NEW m \in Producers, NullStep(p, m) PROVE WorkInv' /\ StoreInv' /\ RouteInv' /\ SharedInv' /\ NullInv'
  <2>1. /\ pc[p] = "idle" /\ pc' = pc
        /\ LocalIs(p, local[p].others, local[p].visit, local[p].reading, local[p].todo,
                   local[p].job, m, local[p].dir, local[p].holding)
    BY <1>4, NullStepLocal, GotoIs
  <2>2. /\ crashed' = p
        /\ UNCHANGED <<router, shared, closed, producers, wTransports, wProducers, made,
                       videos, ended>>
    BY <1>4 DEF NullStep, CloseNull, ProduceNull, roomVars, sharing, workerVars, clientVars,
       history, clientDid
  <2>3. inbox' = inbox /\ reply' = reply
    BY <1>4 DEF NullStep, CloseNull, ProduceNull
  <2>4. \A x \in Peers : Refused(x)' <=> Refused(x)
    BY <2>3, RefusedStays
  <2>5. WorkInv'
    BY <2>1, <2>2, Basics DEF WorkInv, Making, Leaving, LocalIs, At
  <2>6. StoreInv'
    BY <2>1, <2>2, Basics DEF StoreInv, Leaving, LocalIs, At
  <2>7. RouteInv'
    BY <2>1, <2>2, <2>4, Basics DEF RouteInv, Replacing, ClosesSend, LocalIs, At
  <2>8. SharedInv'
    BY <2>1, <2>2, <2>4, Basics DEF SharedInv, VideoShared, ClosesSend, LocalIs, At
  <2>9. m \notin wProducers \/ Owner[m] # p
    <3>1. CASE CloseNull(p, m)
      <4>1. m \notin producers[p] /\ shared = None /\ m # None
        BY <3>1, Basics DEF CloseNull
      <4>2. QED BY <2>1, <4>1 DEF WorkInv, Making, Leaving
    <3>2. CASE ProduceNull(p, m)
      BY <3>2 DEF ProduceNull, WorkInv
    <3>3. QED BY <1>4, <3>1, <3>2 DEF NullStep
  <2>10. local[p].job = None
    BY <2>1 DEF TaskInv, Tasked, Creating, Consuming
  <2>11. NullInv'
    BY <2>1, <2>2, Basics, <2>9, <2>10 DEF NullInv, NullNeedsClosedProducer, TasksCreated,
       Task, Created, Consuming, Leaving, LocalIs, At
  <2>12. QED BY <2>5, <2>6, <2>7, <2>8, <2>11
<1>5. CASE CloseAnswered(p)
  <2>1. At(p, "closing", "erase") /\ local' = local
    BY <1>5, GotoIs DEF CloseAnswered
  <2>2. /\ router' = router \ {local[p].prod}
        /\ UNCHANGED <<shared, closed, producers, wTransports, wProducers, made, videos,
                       ended, crashed>>
    BY <1>5 DEF CloseAnswered, roomVars, sharing, workerVars, clientVars, history, clientDid
  <2>3. Answered(p) /\ inbox' = inbox
    BY <1>5 DEF CloseAnswered
  <2>4. \A x \in Peers : x # p => (Refused(x)' <=> Refused(x))
    BY <2>3, RefusedAnswered
  <2>5. local[p].prod \notin wProducers
    BY <2>1 DEF OwnInv, At
  <2>6. WorkInv'
    BY <2>1, <2>2, Basics, <2>5 DEF WorkInv, Making, Leaving, LocalIs, At
  <2>7. StoreInv'
    BY <2>1, <2>2, Basics DEF StoreInv, Leaving, LocalIs, At
  <2>8. RouteInv'
    BY <2>1, <2>2, <2>4, Basics DEF RouteInv, Replacing, ClosesSend, LocalIs, At
  <2>9. SharedInv'
    BY <2>1, <2>2, <2>4, Basics DEF SharedInv, VideoShared, ClosesSend, LocalIs, At
  <2>10. \A x \in Peers : pc[x] \in Creates \cup {"closing", "erase"} => local[x].prod # None
    BY DEF HandInv
  <2>11. \A x \in Peers : x # p /\ local[x].prod # None => local[x].prod # local[p].prod
    BY <2>1, <2>10, OwnMeans DEF At
  <2>12. NullInv'
    BY <2>1, <2>2, Basics, <2>10, <2>11 DEF NullInv, NullNeedsClosedProducer, TasksCreated,
       Task, Created, Consuming, Leaving, LocalIs, At
  <2>13. QED BY <2>6, <2>7, <2>8, <2>9, <2>12
<1>6. CASE Erase(p)
  <2>1. /\ At(p, "erase", "idle")
        /\ LocalIs(p, local[p].others, local[p].visit, local[p].reading, local[p].todo,
                   local[p].job, None, local[p].dir, local[p].holding)
    BY <1>6, EraseLocal, GotoIs
  <2>2. /\ producers' = [producers EXCEPT ![p] = @ \ {local[p].prod}]
        /\ UNCHANGED <<router, shared, closed, wTransports, wProducers, made, videos, ended,
                       crashed>>
    BY <1>6 DEF Erase, roomVars, sharing, workerVars, clientVars, history, clientDid
  <2>3. inbox' = inbox /\ reply' = reply
    BY <1>6 DEF Erase
  <2>4. \A x \in Peers : Refused(x)' <=> Refused(x)
    BY <2>3, RefusedStays
  <2>5. producers'[p] = producers[p] \ {local[p].prod}
        /\ \A x \in Peers : x # p => producers'[x] = producers[x]
    BY <2>2 DEF TypeOK
  <2>6. local[p].prod \notin wProducers
    BY <2>1 DEF OwnInv, At
  <2>7. WorkInv'
    BY <2>1, <2>2, Basics, <2>5, <2>6 DEF WorkInv, Making, Leaving, LocalIs, At
  <2>8. producers'[p] = producers[p] \ {local[p].prod}
        /\ \A x \in Peers : x # p => producers'[x] = producers[x]
    BY <2>2 DEF TypeOK
  <2>9. local[p].prod \notin wProducers
    BY <2>1 DEF OwnInv, At
  <2>10. StoreInv'
    BY <2>1, <2>2, Basics, <2>8, <2>9 DEF StoreInv, Leaving, LocalIs, At
  <2>11. RouteInv'
    BY <2>1, <2>2, <2>4, Basics DEF RouteInv, Replacing, ClosesSend, LocalIs, At
  <2>12. SharedInv'
    BY <2>1, <2>2, <2>4, Basics DEF SharedInv, VideoShared, ClosesSend, LocalIs, At
  <2>13. NullInv'
    BY <2>1, <2>2, Basics DEF NullInv, NullNeedsClosedProducer, TasksCreated, Task, Created,
       Consuming, Leaving, LocalIs, At
  <2>14. QED BY <2>7, <2>10, <2>11, <2>12, <2>13
<1>7. CASE VideoClosed(p) /\ reply[p] # "ok"
  <2>1. /\ At(p, "detaching", "leave")
        /\ LocalIs(p, {}, {}, None, {}, None, None, None, FALSE)
    BY <1>7, VideoClosedLocal, GotoIs
  <2>2. UNCHANGED <<router, shared, closed, producers, wTransports, wProducers, made, videos,
                    ended, crashed>>
    BY <1>7 DEF VideoClosed, roomVars, sharing, workerVars, clientVars, history, clientDid
  <2>3. Answered(p) /\ inbox' = inbox
    BY <1>7 DEF VideoClosed
  <2>4. \A x \in Peers : x # p => (Refused(x)' <=> Refused(x))
    BY <2>3, RefusedAnswered
  <2>5. WorkInv'
    BY <2>1, <2>2, Basics DEF WorkInv, Making, Leaving, LocalIs, At
  <2>6. StoreInv'
    BY <2>1, <2>2, Basics DEF StoreInv, Leaving, LocalIs, At
  <2>7. Refused(p)
    BY <1>7, <2>3 DEF Answered, Refused, TypeOK
  <2>8. RouteInv'
    BY <2>1, <2>2, <2>4, Basics, <2>7 DEF RouteInv, Replacing, ClosesSend, LocalIs, At
  <2>9. SharedInv'
    BY <2>1, <2>2, <2>4, Basics DEF SharedInv, VideoShared, ClosesSend, LocalIs, At
  <2>10. NullInv'
    BY <2>1, <2>2, Basics DEF NullInv, NullNeedsClosedProducer, TasksCreated, Task, Created,
       Consuming, Leaving, LocalIs, At
  <2>11. QED BY <2>5, <2>6, <2>8, <2>9, <2>10
<1>8. ASSUME NEW m \in Producers, DetachClosed(p, m) PROVE WorkInv' /\ StoreInv' /\ RouteInv' /\ SharedInv' /\ NullInv'
  <2>1. pc[p] = "idle" /\ pc' = pc /\ local' = local
    BY <1>8 DEF DetachClosed
  <2>2. /\ shared' = None /\ m = shared /\ m \in closed /\ Free
        /\ UNCHANGED <<router, closed, producers, wTransports, wProducers, made, videos,
                       ended, crashed>>
    BY <1>8 DEF DetachClosed, roomVars, sharing, workerVars, clientVars, history, clientDid
  <2>3. inbox' = inbox /\ reply' = reply
    BY <1>8 DEF DetachClosed
  <2>4. \A x \in Peers : Refused(x)' <=> Refused(x)
    BY <2>3, RefusedStays
  <2>5. WorkInv'
    BY <2>1, <2>2, Basics DEF WorkInv, Making, Leaving
  <2>6. StoreInv'
    BY <2>1, <2>2, Basics DEF StoreInv, Leaving
  <2>7. \A x \in Peers : pc[x] # "replacing" /\ pc[x] # "detaching"
    BY <2>2 DEF LockInv, Free
  <2>8. RouteInv'
    BY <2>1, <2>2, <2>4, <2>7, Basics DEF RouteInv, Replacing, ClosesSend
  <2>9. SharedInv'
    BY <2>1, <2>2, <2>4, <2>7, Basics DEF SharedInv, VideoShared, ClosesSend
  <2>10. NullInv'
    BY <2>1, <2>2, Basics DEF NullInv, NullNeedsClosedProducer, TasksCreated, Task, Created,
       Consuming
  <2>11. QED BY <2>5, <2>6, <2>8, <2>9, <2>10
<1>9. QED BY <1>1, <1>2, <1>3, <1>4, <1>5, <1>6, <1>7, <1>8 DEF CloseStep

LEMMA LeaveWork ==
  ASSUME TypeOK, HandInv, AnswerInv, LockInv, TaskInv, StageInv, OwnInv, WorkInv, StoreInv, RouteInv, SharedInv, NullInv,
         crashed = None, NEW p \in Peers, LeaveStep(p)
  PROVE  WorkInv' /\ StoreInv' /\ RouteInv' /\ SharedInv' /\ NullInv'
<1>1. CASE Leave(p)
  <2>1. At(p, "idle", "leave") /\ local' = local
    BY <1>1, GotoIs DEF Leave
  <2>2. UNCHANGED <<router, shared, closed, producers, wTransports, wProducers, made, videos,
                    ended, crashed>>
    BY <1>1 DEF Leave, roomVars, sharing, workerVars, clientVars, history, clientDid
  <2>3. inbox' = inbox /\ reply' = reply
    BY <1>1 DEF Leave
  <2>4. \A x \in Peers : Refused(x)' <=> Refused(x)
    BY <2>3, RefusedStays
  <2>5. WorkInv'
    BY <2>1, <2>2, Basics DEF WorkInv, Making, Leaving, LocalIs, At
  <2>6. StoreInv'
    BY <2>1, <2>2, Basics DEF StoreInv, Leaving, LocalIs, At
  <2>7. RouteInv'
    BY <2>1, <2>2, <2>4, Basics DEF RouteInv, Replacing, ClosesSend, LocalIs, At
  <2>8. SharedInv'
    BY <2>1, <2>2, <2>4, Basics DEF SharedInv, VideoShared, ClosesSend, LocalIs, At
  <2>9. NullInv'
    BY <2>1, <2>2, Basics DEF NullInv, NullNeedsClosedProducer, TasksCreated, Task, Created,
       Consuming, Leaving, LocalIs, At
  <2>10. QED BY <2>5, <2>6, <2>7, <2>8, <2>9
<1>2. CASE LeaveSnapshot(p)
  <2>1. /\ At(p, "leave", "notify")
        /\ LocalIs(p, JoinedPeers(p), local[p].visit, local[p].reading, local[p].todo,
                   local[p].job, local[p].prod, local[p].dir, local[p].holding)
    BY <1>2, LeaveSnapshotLocal, GotoIs
  <2>2. UNCHANGED <<router, shared, closed, producers, wTransports, wProducers, made, videos,
                    ended, crashed>>
    BY <1>2 DEF LeaveSnapshot, roomVars, sharing, workerVars, clientVars, history, clientDid
  <2>3. inbox' = inbox /\ reply' = reply
    BY <1>2 DEF LeaveSnapshot
  <2>4. \A x \in Peers : Refused(x)' <=> Refused(x)
    BY <2>3, RefusedStays
  <2>5. WorkInv'
    BY <2>1, <2>2, Basics DEF WorkInv, Making, Leaving, LocalIs, At
  <2>6. StoreInv'
    BY <2>1, <2>2, Basics DEF StoreInv, Leaving, LocalIs, At
  <2>7. RouteInv'
    BY <2>1, <2>2, <2>4, Basics DEF RouteInv, Replacing, ClosesSend, LocalIs, At
  <2>8. SharedInv'
    BY <2>1, <2>2, <2>4, Basics DEF SharedInv, VideoShared, ClosesSend, LocalIs, At
  <2>9. NullInv'
    BY <2>1, <2>2, Basics DEF NullInv, NullNeedsClosedProducer, TasksCreated, Task, Created,
       Consuming, Leaving, LocalIs, At
  <2>10. QED BY <2>5, <2>6, <2>7, <2>8, <2>9
<1>3. CASE LeaveNotify(p)
  <2>1. /\ At(p, "notify", "transports")
        /\ LocalIs(p, {}, {}, None, {}, None, None, None, FALSE)
    BY <1>3, LeaveNotifyLocal, GotoIs
  <2>2. UNCHANGED <<router, shared, closed, producers, wTransports, wProducers, made, videos,
                    ended, crashed>>
    BY <1>3 DEF LeaveNotify, roomVars, sharing, workerVars, clientVars, history, clientDid
  <2>3. inbox' = inbox /\ reply' = reply
    BY <1>3 DEF LeaveNotify
  <2>4. \A x \in Peers : Refused(x)' <=> Refused(x)
    BY <2>3, RefusedStays
  <2>5. WorkInv'
    BY <2>1, <2>2, Basics DEF WorkInv, Making, Leaving, LocalIs, At
  <2>6. StoreInv'
    BY <2>1, <2>2, Basics DEF StoreInv, Leaving, LocalIs, At
  <2>7. RouteInv'
    BY <2>1, <2>2, <2>4, Basics DEF RouteInv, Replacing, ClosesSend, LocalIs, At
  <2>8. SharedInv'
    BY <2>1, <2>2, <2>4, Basics DEF SharedInv, VideoShared, ClosesSend, LocalIs, At
  <2>9. NullInv'
    BY <2>1, <2>2, Basics DEF NullInv, NullNeedsClosedProducer, TasksCreated, Task, Created,
       Consuming, Leaving, LocalIs, At
  <2>10. QED BY <2>5, <2>6, <2>7, <2>8, <2>9
<1>4. ASSUME NEW d \in Directions, CloseTransport(p, d) PROVE WorkInv' /\ StoreInv' /\ RouteInv' /\ SharedInv' /\ NullInv'
  <2>1. /\ At(p, "transports", "transport")
        /\ LocalIs(p, local[p].others, local[p].visit, local[p].reading, local[p].todo,
                   local[p].job, local[p].prod, d, local[p].holding)
    BY <1>4, CloseTransportLocal, GotoIs
  <2>2. /\ <<p, d>> \in wTransports /\ wTransports' = wTransports \ {<<p, d>>}
        /\ wProducers' \subseteq wProducers
        /\ \A m \in wProducers : m \in wProducers' <=> (d = "send" => Owner[m] # p)
        /\ UNCHANGED <<router, shared, closed, producers, made, videos, ended, crashed>>
    BY <1>4 DEF CloseTransport, TypeOK, roomVars, sharing, workerVars, clientVars, history,
       clientDid
  <2>3. ConsumersOf(IF d = "send" THEN {m \in wProducers : Owner[m] = p} ELSE {}) \in SUBSET Consumer
    BY DEF ConsumersOf, TypeOK
  <2>4. Respond(p, ConsumersOf(IF d = "send" THEN {m \in wProducers : Owner[m] = p} ELSE {}), TRUE) /\ reply' = reply
    BY <1>4 DEF CloseTransport
  <2>5. \A x \in Peers : Refused(x)' <=> Refused(x)
    BY <2>3, <2>4, RefusedResponds
  <2>6. ~Refused(p)
    BY <2>1, NotRefused DEF At, Waiting
  <2>7. WorkInv'
    BY <2>1, <2>2, Basics DEF WorkInv, Making, Leaving, LocalIs, At
  <2>8. StoreInv'
    BY <2>1, <2>2, Basics DEF StoreInv, Leaving, LocalIs, At
  <2>9. RouteInv'
    BY <2>1, <2>2, <2>5, <2>6, Basics DEF RouteInv, Replacing, ClosesSend, LocalIs, At
  <2>10. SharedInv'
    BY <2>1, <2>2, <2>5, <2>6, Basics DEF SharedInv, VideoShared, ClosesSend, LocalIs, At
  <2>11. NullInv'
    BY <2>1, <2>2, Basics DEF NullInv, NullNeedsClosedProducer, TasksCreated, Task, Created,
       Consuming, Leaving, LocalIs, At
  <2>12. QED BY <2>7, <2>8, <2>9, <2>10, <2>11
<1>5. CASE TransportAnswered(p)
  <2>1. /\ At(p, "transport", "transports")
        /\ LocalIs(p, local[p].others, local[p].visit, local[p].reading, local[p].todo,
                   local[p].job, local[p].prod, None, local[p].holding)
    BY <1>5, TransportAnsweredLocal, GotoIs
  <2>2. /\ router' \subseteq router /\ closed \subseteq closed' /\ closed' \subseteq closed \cup videos
        /\ \A m \in router : m \in router' <=> (local[p].dir = "send" => Owner[m] # p)
        /\ \A m \in videos : m \in closed' <=> m \in closed \/ (local[p].dir = "send" /\ Owner[m] = p)
        /\ UNCHANGED <<shared, producers, wTransports, wProducers, made, videos, ended,
                       crashed>>
    BY <1>5 DEF TransportAnswered, CloseVideosOf, TypeOK, roomVars, sharing, workerVars,
       clientVars, history, clientDid
  <2>3. Answered(p) /\ inbox' = inbox
    BY <1>5 DEF TransportAnswered
  <2>4. \A x \in Peers : x # p => (Refused(x)' <=> Refused(x))
    BY <2>3, RefusedAnswered
  <2>5. local[p].dir = "send" => \A m \in wProducers : Owner[m] # p
    BY <2>1 DEF StageInv, Staged, WorkInv, At
  <2>6. WorkInv'
    BY <2>1, <2>2, Basics, <2>5 DEF WorkInv, Making, Leaving, LocalIs, At
  <2>7. StoreInv'
    BY <2>1, <2>2, Basics DEF StoreInv, Leaving, LocalIs, At
  <2>8. RouteInv'
    BY <2>1, <2>2, <2>4, Basics DEF RouteInv, Replacing, ClosesSend, LocalIs, At
  <2>9. SharedInv'
    BY <2>1, <2>2, <2>4, Basics DEF SharedInv, VideoShared, ClosesSend, LocalIs, At
  <2>10. \A x \in Peers : pc[x] \in Creates \cup {"closing", "erase"} => local[x].prod # None
    BY DEF HandInv
  <2>11. \A x \in Peers : local[x].prod # None => Owner[local[x].prod] = x /\ local[x].prod \in Producers
    BY Basics, OwnMeans
  <2>12. NullInv'
    BY <2>1, <2>2, Basics, <2>10, <2>11 DEF NullInv, NullNeedsClosedProducer, TasksCreated,
       Task, Created, Consuming, Leaving, LocalIs, At
  <2>13. QED BY <2>6, <2>7, <2>8, <2>9, <2>12
<1>6. CASE RemovePeer(p)
  <2>1. At(p, "transports", "gone") /\ local' = local
    BY <1>6, GotoIs DEF RemovePeer
  <2>2. UNCHANGED <<router, shared, closed, producers, wTransports, wProducers, made, videos,
                    ended, crashed>>
    BY <1>6 DEF RemovePeer, roomVars, sharing, workerVars, clientVars, history, clientDid
  <2>3. inbox' = inbox /\ reply' = reply
    BY <1>6 DEF RemovePeer
  <2>4. \A x \in Peers : Refused(x)' <=> Refused(x)
    BY <2>3, RefusedStays
  <2>5. WorkInv'
    BY <2>1, <2>2, Basics DEF WorkInv, Making, Leaving, LocalIs, At
  <2>6. StoreInv'
    BY <2>1, <2>2, Basics DEF StoreInv, Leaving, LocalIs, At
  <2>7. RouteInv'
    BY <2>1, <2>2, <2>4, Basics DEF RouteInv, Replacing, ClosesSend, LocalIs, At
  <2>8. SharedInv'
    BY <2>1, <2>2, <2>4, Basics DEF SharedInv, VideoShared, ClosesSend, LocalIs, At
  <2>9. NullInv'
    BY <2>1, <2>2, Basics DEF NullInv, NullNeedsClosedProducer, TasksCreated, Task, Created,
       Consuming, Leaving, LocalIs, At
  <2>10. QED BY <2>5, <2>6, <2>7, <2>8, <2>9
<1>7. QED BY <1>1, <1>2, <1>3, <1>4, <1>5, <1>6 DEF LeaveStep

-----------------------------------------------------------------------------
(* The invariant                                                           *)

\* The pool thread moves no handler and no producer.
LEMMA ProducerStays ==
  ASSUME ProducerInv,
         UNCHANGED <<pc, local, peerMap, joined, producers, router, shared, closed,
                     wTransports, wProducers, made, videos, ended, crashed>>,
         \A x \in Peers : Refused(x)' <=> Refused(x)
  PROVE  ProducerInv'
<1>1. LockInv' /\ SharedInv'
  BY DEF ProducerInv, LockInv, LocksAreReleased, SharedInv, VideoShared, ClosesSend
<1>2. \A p \in Peers : (Announcing(p) => Announcing(p)') /\ (Walking(p) => Walking(p)')
                       /\ (Sharing(p) => Sharing(p)')
  BY DEF Announcing, Walking, Sharing, Task
<1>3. TaskInv'
  BY <1>2 DEF ProducerInv, TaskInv, Tasked
<1>4. StageInv' /\ OwnInv'
  BY DEF ProducerInv, StageInv, Staged, Joining, OwnInv
<1>5. WorkInv' /\ StoreInv' /\ NullInv'
  BY DEF ProducerInv, WorkInv, StoreInv, NullInv, NullNeedsClosedProducer, TasksCreated,
     Task, Created
<1>6. RouteInv'
  BY DEF ProducerInv, RouteInv, Replacing, ClosesSend
<1>7. QED BY <1>1, <1>3, <1>4, <1>5, <1>6 DEF ProducerInv

LEMMA ProducerInit == Init => ProducerInv
<1> SUFFICES ASSUME Init PROVE ProducerInv
  OBVIOUS
<1>1. \A p \in Peers : pc[p] = "idle" /\ local[p] = Nothing
  BY DEF Init
<1>2. \A p \in Peers : /\ local[p].others = {} /\ local[p].visit = {} /\ local[p].todo = {}
                       /\ local[p].reading = None /\ local[p].job = None
                       /\ local[p].prod = None /\ local[p].holding = FALSE
  BY <1>1 DEF Nothing
<1>3. LockInv
  BY <1>1, <1>2 DEF LockInv, LocksAreReleased
<1>4. TaskInv
  BY <1>1, <1>2 DEF TaskInv, Tasked, Creating, Consuming
<1>5. StageInv
  BY <1>1, <1>2 DEF Init, StageInv, Staged, Joining, Consuming, Leaving
<1>6. OwnInv
  BY <1>1, <1>2 DEF Init, OwnInv
<1>7. WorkInv /\ StoreInv /\ RouteInv
  BY OwnerAssumption DEF Init, WorkInv, StoreInv, RouteInv
<1>8. SharedInv
  BY <1>1 DEF Init, SharedInv, VideoShared
<1>9. NullInv
  BY <1>1, <1>2 DEF Init, NullInv, NullNeedsClosedProducer, TasksCreated, Task, Consuming
<1>10. QED BY <1>3, <1>4, <1>5, <1>6, <1>7, <1>8, <1>9 DEF ProducerInv

LEMMA ProducerStep == BaseInv /\ ProducerInv /\ [Next]_vars => ProducerInv'
<1> SUFFICES ASSUME BaseInv, ProducerInv, [Next]_vars PROVE ProducerInv'
  OBVIOUS
<1>1. CASE UNCHANGED vars
  <2>1. /\ UNCHANGED <<pc, local, peerMap, joined, producers, router, shared, closed,
                       wTransports, wProducers, made, videos, ended, crashed>>
        /\ inbox' = inbox /\ reply' = reply
    BY <1>1 DEF vars, roomVars, sharing, workerVars, history, clientDid
  <2>2. QED BY <2>1, RefusedStays, ProducerStays
<1>2. CASE Pool
  <2>1. UNCHANGED <<pc, local, peerMap, joined, producers, router, shared, closed,
                    wTransports, wProducers, made, videos, ended, crashed>>
    BY <1>2 DEF Pool, PoolResponse, PoolProducerClose, roomVars, sharing, workerVars, history,
                clientDid
  <2>2. QED BY <1>2, <2>1, RefusedPool, ProducerStays DEF BaseInv
<1>3. ASSUME NEW p \in Peers, crashed = None,
             JoinStep(p) \/ ConsumeStep(p) \/ ProduceStep(p) \/ CloseStep(p) \/ LeaveStep(p)
      PROVE  ProducerInv'
  <2> USE <1>3 DEF BaseInv, ProducerInv
  <2>1. CASE JoinStep(p)
    BY <2>1, JoinStage, JoinWork
  <2>2. CASE ConsumeStep(p)
    BY <2>2, ConsumeStage, ConsumeWork
  <2>3. CASE ProduceStep(p)
    BY <2>3, ProduceStage, ProduceWork
  <2>4. CASE CloseStep(p)
    BY <2>4, CloseStage, CloseWork
  <2>5. CASE LeaveStep(p)
    BY <2>5, LeaveStage, LeaveWork
  <2>6. QED BY <2>1, <2>2, <2>3, <2>4, <2>5
<1>4. QED BY <1>1, <1>2, <1>3, Steps

\* The inductive invariant of locks, tasks, stages and producers, which the
\* theorems below project.
THEOREM ProducerInvariant == Spec => [](BaseInv /\ ProducerInv)
<1>1. Init => BaseInv /\ ProducerInv
  BY TypeInit, ProducerInit DEF BaseInv
<1>2. (BaseInv /\ ProducerInv) /\ [Next]_vars => (BaseInv /\ ProducerInv)'
  BY BaseStep, ProducerStep
<1>3. QED BY <1>1, <1>2, PTL DEF Spec

\* No handler leaves a map's shared lock or the mutex of the shared video locked
\* behind it, an exception in a request made under it included, and none waits for
\* the one while it holds the other (Room::createConsumer, onHandleSharingProduce).
THEOREM LocksReleased == Spec => []LocksAreReleased
<1>1. ProducerInv => LocksAreReleased
  BY DEF ProducerInv, LockInv
<1>2. QED BY <1>1, ProducerInvariant, PTL

\* A peer's handler uses a null consumer, producer or sharing controller only over a
\* producer that is gone or was never there: one another peer closed or that is not
\* the peer's, or one it closes that it has not, or not any more
\* (Room::createConsumer, onHandleProduce, onHandleCloseProducer).
THEOREM NullNeedsClosed == Spec => []NullNeedsClosedProducer
<1>1. ProducerInv => NullNeedsClosedProducer
  BY DEF ProducerInv, NullInv
<1>2. QED BY <1>1, ProducerInvariant, PTL

\* When no handler runs, the worker has one open shared video at most, the one the
\* room holds, whatever order the videos were produced, replaced, closed and their
\* owners left in (VideoSharingController::attach, detach).
THEOREM OneVideo == Spec => []OneVideoShared
<1>1. ASSUME BaseInv, ProducerInv, Quiet
      PROVE  videos \cap wProducers = {shared} \ (closed \cup {None})
  <2> USE <1>1 DEF BaseInv, ProducerInv
  <2>1. \A p \in Peers : pc[p] = "idle" \/ pc[p] = "gone"
    BY DEF Quiet
  <2>2. ASSUME NEW m \in videos, m \in wProducers
        PROVE  m = shared /\ m \notin closed /\ m # None
    <3>1. m \in Producers /\ Owner[m] \in Peers /\ m # None
      BY <2>2, Basics
    <3>2. m \notin producers[Owner[m]]
      BY <2>2, <3>1 DEF OwnInv
    <3>3. pc[Owner[m]] # "gone"
      BY <2>2, <3>1 DEF WorkInv, StageInv, Staged, Directions
    <3>4. QED BY <2>1, <2>2, <3>1, <3>2, <3>3 DEF WorkInv, Making, Leaving
  <2>3. ASSUME shared # None, shared \notin closed
        PROVE  shared \in videos \cap wProducers
    <3>1. shared \in videos /\ Owner[shared] \in Peers
      BY <2>3, Basics
    <3>2. QED BY <2>1, <2>3, <3>1 DEF SharedInv, VideoShared, ClosesSend
  <2>4. QED BY <2>2, <2>3
<1>2. BaseInv /\ ProducerInv => OneVideoShared
  BY <1>1 DEF OneVideoShared
<1>3. QED BY <1>2, ProducerInvariant, PTL

-----------------------------------------------------------------------------
(* Who knows whom                                                          *)

LEMMA KnowBasics ==
  ASSUME TypeOK
  PROVE  /\ joined \subseteq Peers /\ None \notin Peers
         /\ \A x \in Peers : knows[x] \subseteq Peers /\ local[x].others \subseteq Peers
  BY NoneAssumption DEF TypeOK, Local

LEMMA JoinKnow ==
  ASSUME TypeOK, HandInv, LockInv, TaskInv, StageInv, OwnInv, MeetInv, KnowInv, FarewellInv,
         crashed = None, NEW p \in Peers, JoinStep(p)
  PROVE  MeetInv' /\ KnowInv' /\ FarewellInv'
<1>1. CASE Join(p)
  <2>1. At(p, "idle", "caps") /\ local' = local
    BY <1>1, GotoIs DEF Join
  <2>2. /\ joined' = joined \cup {p}
        /\ p \in peerMap \ joined
        /\ UNCHANGED <<peerMap, knows, ghosts>>
    BY <1>1 DEF Join, roomVars, sharing, workerVars, clientVars, history, clientDid
  <2>3. MeetInv'
    BY <2>1, <2>2, KnowBasics DEF MeetInv, Introduces, Joining, Consuming, Leaving, LocalIs, At
  <2>4. KnowInv'
    BY <2>1, <2>2, KnowBasics DEF KnowInv
  <2>5. FarewellInv'
    BY <2>1, <2>2, KnowBasics DEF FarewellInv, PastFarewell, LocalIs, At
  <2>6. QED BY <2>3, <2>4, <2>5
<1>2. CASE JoinSnapshot(p)
  <2>1. /\ At(p, "caps", "accept")
        /\ LocalIs(p, JoinedPeers(p), JoinedPeers(p), local[p].reading, local[p].todo,
                   local[p].job, local[p].prod, local[p].dir, local[p].holding)
    BY <1>2, JoinSnapshotLocal, GotoIs
  <2>2. UNCHANGED <<peerMap, joined, knows, ghosts>>
    BY <1>2 DEF JoinSnapshot, roomVars, sharing, workerVars, clientVars, history, clientDid
  <2>3. \A x \in Peers : x \in peerMap \/ pc[x] = "gone"
    BY DEF StageInv, Staged
  <2>4. MeetInv'
    BY <2>1, <2>2, KnowBasics, <2>3 DEF MeetInv, Introduces, Joining, Consuming, Leaving,
       LocalIs, At, JoinedPeers, TypeOK
  <2>5. KnowInv'
    BY <2>1, <2>2, KnowBasics DEF KnowInv
  <2>6. FarewellInv'
    BY <2>1, <2>2, KnowBasics DEF FarewellInv, PastFarewell, LocalIs, At
  <2>7. QED BY <2>4, <2>5, <2>6
<1>3. CASE JoinAccept(p)
  <2>1. At(p, "accept", "visit") /\ local' = local
    BY <1>3, GotoIs DEF JoinAccept
  <2>2. /\ knows' = [knows EXCEPT ![p] = @ \cup local[p].others]
        /\ ghosts' = ghosts \cup {<<p, q>> : q \in {r \in local[p].others : PastFarewell(r, p)}}
        /\ UNCHANGED <<peerMap, joined>>
    BY <1>3 DEF JoinAccept, roomVars, sharing, workerVars, clientVars, history, clientDid
  <2>3. MeetInv'
    BY <2>1, <2>2, KnowBasics DEF MeetInv, Introduces, Joining, Consuming, Leaving, LocalIs,
       At, TypeOK
  <2>4. local[p].others \subseteq joined \ {p}
    BY DEF StageInv, Staged
  <2>5. p \in joined
    BY <2>1 DEF StageInv, Staged, Joining, At
  <2>6. KnowInv'
    BY <2>1, <2>2, KnowBasics, <2>4, <2>5 DEF KnowInv, TypeOK
  <2>7. local[p].others \subseteq joined \ {p}
    BY DEF StageInv, Staged
  <2>8. FarewellInv'
    BY <2>1, <2>2, KnowBasics, <2>7 DEF FarewellInv, PastFarewell, LocalIs, At, TypeOK
  <2>9. QED BY <2>3, <2>6, <2>8
<1>4. ASSUME Visit(p), NEW q \in local[p].visit, Visits(p, q) PROVE MeetInv' /\ KnowInv' /\ FarewellInv'
  <2>2. UNCHANGED <<peerMap, joined, knows, ghosts>>
    BY <1>4 DEF Visit, roomVars, sharing, workerVars, clientVars, history, clientDid
  <2>3. local[p].prod = None
    BY <1>4 DEF OwnInv, Creates, Consuming, At, Visits
  <2>4. MeetInv'
    BY <1>4, <2>2, KnowBasics, <2>3 DEF MeetInv, Introduces, Joining, Consuming, Leaving,
       LocalIs, At, Visits
  <2>5. KnowInv'
    BY <1>4, <2>2, KnowBasics DEF KnowInv, Visits
  <2>6. FarewellInv'
    BY <1>4, <2>2, KnowBasics DEF FarewellInv, PastFarewell, LocalIs, At, Visits
  <2>7. QED BY <2>4, <2>5, <2>6
<1>5. CASE JoinSharing(p) /\ VideoShared
  <2>1. /\ At(p, "visit", "consume")
        /\ LocalIs(p, local[p].others, local[p].visit, local[p].reading, {<<p,
                   shared>>}, local[p].job, local[p].prod, local[p].dir, TRUE)
    BY <1>5, JoinSharingLocal, GotoIs
  <2>2. UNCHANGED <<peerMap, joined, knows, ghosts>>
    BY <1>5 DEF JoinSharing, roomVars, sharing, workerVars, clientVars, history, clientDid
  <2>3. local[p].prod = None
    BY <1>5, <2>1 DEF OwnInv, Creates, Consuming, At
  <2>4. MeetInv'
    BY <2>1, <2>2, KnowBasics, <2>3 DEF MeetInv, Introduces, Joining, Consuming, Leaving,
       LocalIs, At
  <2>5. KnowInv'
    BY <2>1, <2>2, KnowBasics DEF KnowInv
  <2>6. FarewellInv'
    BY <2>1, <2>2, KnowBasics DEF FarewellInv, PastFarewell, LocalIs, At
  <2>7. QED BY <2>4, <2>5, <2>6
<1>6. CASE JoinSharing(p) /\ ~VideoShared
  <2>1. At(p, "visit", "newPeer") /\ local' = local
    BY <1>6, GotoIs DEF JoinSharing
  <2>2. UNCHANGED <<peerMap, joined, knows, ghosts>>
    BY <1>6 DEF JoinSharing, roomVars, sharing, workerVars, clientVars, history, clientDid
  <2>3. MeetInv'
    BY <2>1, <2>2, KnowBasics DEF MeetInv, Introduces, Joining, Consuming, Leaving, LocalIs, At
  <2>4. KnowInv'
    BY <2>1, <2>2, KnowBasics DEF KnowInv
  <2>5. FarewellInv'
    BY <2>1, <2>2, KnowBasics DEF FarewellInv, PastFarewell, LocalIs, At
  <2>6. QED BY <2>3, <2>4, <2>5
<1>7. CASE JoinDone(p)
  <2>1. /\ At(p, "newPeer", "idle")
        /\ LocalIs(p, {}, {}, None, {}, None, None, None, FALSE)
    BY <1>7, JoinDoneLocal, GotoIs
  <2>2. /\ knows' = [q \in Peers |-> IF q \in local[p].others THEN knows[q] \cup {p} ELSE knows[q]]
        /\ UNCHANGED <<peerMap, joined, ghosts>>
    BY <1>7 DEF JoinDone, roomVars, sharing, workerVars, clientVars, history, clientDid
  <2>3. \A x \in Peers : /\ knows[x] \subseteq knows'[x]
                         /\ x \in local[p].others => p \in knows'[x]
    BY <2>2
  <2>4. pc[p] = "newPeer" /\ pc'[p] = "idle"
    BY <2>1 DEF At
  <2>5. MeetInv'
    BY <2>1, <2>2, KnowBasics, <2>3, <2>4 DEF MeetInv, Introduces, Joining, Consuming,
       Leaving, LocalIs, At
  <2>6. local[p].others \subseteq joined \ {p}
    BY DEF StageInv, Staged
  <2>7. p \in joined
    BY <2>1 DEF StageInv, Staged, Joining, At
  <2>8. KnowInv'
    BY <2>1, <2>2, KnowBasics, <2>6, <2>7 DEF KnowInv, TypeOK
  <2>9. local[p].others \subseteq joined \ {p}
    BY DEF StageInv, Staged
  <2>10. p \in joined
    BY <2>1 DEF StageInv, Staged, Joining, At
  <2>11. FarewellInv'
    BY <2>1, <2>2, KnowBasics, <2>9, <2>10 DEF FarewellInv, PastFarewell, LocalIs, At, TypeOK
  <2>12. QED BY <2>5, <2>8, <2>11
<1>8. QED BY <1>1, <1>2, <1>3, <1>4, <1>5, <1>6, <1>7, VisitLocal DEF JoinStep

LEMMA ConsumeKnow ==
  ASSUME TypeOK, HandInv, LockInv, TaskInv, StageInv, OwnInv, MeetInv, KnowInv, FarewellInv,
         crashed = None, NEW p \in Peers, ConsumeStep(p)
  PROVE  MeetInv' /\ KnowInv' /\ FarewellInv'
<1>1. ASSUME CanConsume(p), NEW w \in local[p].todo, Skip(p, w) PROVE MeetInv' /\ KnowInv' /\ FarewellInv'
  <2>2. UNCHANGED <<peerMap, joined, knows, ghosts>>
    BY <1>1 DEF CanConsume, roomVars, sharing, workerVars, clientVars, history, clientDid
  <2>3. MeetInv'
    BY <1>1, <2>2, KnowBasics DEF MeetInv, Introduces, Joining, Consuming, Leaving, LocalIs,
       At, Skip
  <2>4. KnowInv'
    BY <1>1, <2>2, KnowBasics DEF KnowInv, Skip
  <2>5. FarewellInv'
    BY <1>1, <2>2, KnowBasics DEF FarewellInv, PastFarewell, LocalIs, At, Skip
  <2>6. QED BY <2>3, <2>4, <2>5
<1>2. ASSUME CanConsume(p), NEW w \in local[p].todo, Take(p, w) PROVE MeetInv' /\ KnowInv' /\ FarewellInv'
  <2>2. UNCHANGED <<peerMap, joined, knows, ghosts>>
    BY <1>2 DEF CanConsume, roomVars, sharing, workerVars, clientVars, history, clientDid
  <2>3. MeetInv'
    BY <1>2, <2>2, KnowBasics DEF MeetInv, Introduces, Joining, Consuming, Leaving, LocalIs,
       At, Take
  <2>4. KnowInv'
    BY <1>2, <2>2, KnowBasics DEF KnowInv, Take
  <2>5. FarewellInv'
    BY <1>2, <2>2, KnowBasics DEF FarewellInv, PastFarewell, LocalIs, At, Take
  <2>6. QED BY <2>3, <2>4, <2>5
<1>3. CASE ConsumeDone(p)
  <2>1. /\ At(p, "consume", IF local[p].holding THEN "newPeer" ELSE IF local[p].reading = None THEN "idle" ELSE "visit")
        /\ LocalIs(p, local[p].others, local[p].visit, None, local[p].todo,
                   local[p].job, None, local[p].dir, FALSE)
    BY <1>3, ConsumeDoneLocal, GotoIs
  <2>2. /\ local[p].todo = {}
        /\ UNCHANGED <<peerMap, joined, knows, ghosts>>
    BY <1>3 DEF ConsumeDone, roomVars, sharing, workerVars, clientVars, history, clientDid
  <2>3. Announcing(p) \/ Walking(p) \/ Sharing(p)
    BY <2>1 DEF TaskInv, Tasked, Consuming, At
  <2>4. MeetInv'
    BY <2>1, <2>2, KnowBasics, <2>3 DEF MeetInv, Introduces, Joining, Consuming, Leaving,
       LocalIs, At, Announcing, Walking, Sharing
  <2>5. KnowInv'
    BY <2>1, <2>2, KnowBasics DEF KnowInv
  <2>6. FarewellInv'
    BY <2>1, <2>2, KnowBasics DEF FarewellInv, PastFarewell, LocalIs, At
  <2>7. QED BY <2>4, <2>5, <2>6
<1>4. CASE ConsumeNull(p)
  <2>1. pc[p] = "request" /\ pc' = pc /\ local' = local
    BY <1>4 DEF ConsumeNull
  <2>2. UNCHANGED <<peerMap, joined, knows, ghosts>>
    BY <1>4 DEF ConsumeNull, roomVars, sharing, workerVars, clientVars, history, clientDid
  <2>3. MeetInv'
    BY <2>1, <2>2, KnowBasics DEF MeetInv, Introduces, Joining, Consuming, Leaving, LocalIs, At
  <2>4. KnowInv'
    BY <2>1, <2>2, KnowBasics DEF KnowInv
  <2>5. FarewellInv'
    BY <2>1, <2>2, KnowBasics DEF FarewellInv, PastFarewell, LocalIs, At
  <2>6. QED BY <2>3, <2>4, <2>5
<1>5. CASE Consume(p)
  <2>1. At(p, "request", "consuming") /\ local' = local
    BY <1>5, GotoIs DEF Consume
  <2>2. UNCHANGED <<peerMap, joined, knows, ghosts>>
    BY <1>5 DEF Consume, roomVars, sharing, workerVars, clientVars, history, clientDid
  <2>3. MeetInv'
    BY <2>1, <2>2, KnowBasics DEF MeetInv, Introduces, Joining, Consuming, Leaving, LocalIs, At
  <2>4. KnowInv'
    BY <2>1, <2>2, KnowBasics DEF KnowInv
  <2>5. FarewellInv'
    BY <2>1, <2>2, KnowBasics DEF FarewellInv, PastFarewell, LocalIs, At
  <2>6. QED BY <2>3, <2>4, <2>5
<1>6. CASE ConsumeAnswered(p) /\ reply[p] = "ok"
  <2>1. At(p, "consuming", "emplace") /\ local' = local
    BY <1>6, GotoIs DEF ConsumeAnswered
  <2>2. UNCHANGED <<peerMap, joined, knows, ghosts>>
    BY <1>6 DEF ConsumeAnswered, roomVars, sharing, workerVars, clientVars, history, clientDid
  <2>3. MeetInv'
    BY <2>1, <2>2, KnowBasics DEF MeetInv, Introduces, Joining, Consuming, Leaving, LocalIs, At
  <2>4. KnowInv'
    BY <2>1, <2>2, KnowBasics DEF KnowInv
  <2>5. FarewellInv'
    BY <2>1, <2>2, KnowBasics DEF FarewellInv, PastFarewell, LocalIs, At
  <2>6. QED BY <2>3, <2>4, <2>5
<1>7. CASE ConsumeAnswered(p) /\ reply[p] # "ok"
  <2>1. /\ At(p, "consuming", "leave")
        /\ LocalIs(p, {}, {}, None, {}, None, None, None, FALSE)
    BY <1>7, ConsumeAnsweredLocal, GotoIs
  <2>2. UNCHANGED <<peerMap, joined, knows, ghosts>>
    BY <1>7 DEF ConsumeAnswered, roomVars, sharing, workerVars, clientVars, history, clientDid
  <2>3. MeetInv'
    BY <2>1, <2>2, KnowBasics DEF MeetInv, Introduces, Joining, Consuming, Leaving, LocalIs, At
  <2>4. KnowInv'
    BY <2>1, <2>2, KnowBasics DEF KnowInv
  <2>5. FarewellInv'
    BY <2>1, <2>2, KnowBasics DEF FarewellInv, PastFarewell, LocalIs, At
  <2>6. QED BY <2>3, <2>4, <2>5
<1>8. CASE Emplace(p)
  <2>1. At(p, "emplace", "tell") /\ local' = local
    BY <1>8, GotoIs DEF Emplace
  <2>2. UNCHANGED <<peerMap, joined, knows, ghosts>>
    BY <1>8 DEF Emplace, roomVars, sharing, workerVars, clientVars, history, clientDid
  <2>3. MeetInv'
    BY <2>1, <2>2, KnowBasics DEF MeetInv, Introduces, Joining, Consuming, Leaving, LocalIs, At
  <2>4. KnowInv'
    BY <2>1, <2>2, KnowBasics DEF KnowInv
  <2>5. FarewellInv'
    BY <2>1, <2>2, KnowBasics DEF FarewellInv, PastFarewell, LocalIs, At
  <2>6. QED BY <2>3, <2>4, <2>5
<1>9. CASE Tell(p)
  <2>1. /\ At(p, "tell", "consume")
        /\ LocalIs(p, local[p].others, local[p].visit, local[p].reading, local[p].todo,
                   None, local[p].prod, local[p].dir, local[p].holding)
    BY <1>9, TellLocal, GotoIs
  <2>2. UNCHANGED <<peerMap, joined, knows, ghosts>>
    BY <1>9 DEF Tell, roomVars, sharing, workerVars, clientVars, history, clientDid
  <2>3. MeetInv'
    BY <2>1, <2>2, KnowBasics DEF MeetInv, Introduces, Joining, Consuming, Leaving, LocalIs, At
  <2>4. KnowInv'
    BY <2>1, <2>2, KnowBasics DEF KnowInv
  <2>5. FarewellInv'
    BY <2>1, <2>2, KnowBasics DEF FarewellInv, PastFarewell, LocalIs, At
  <2>6. QED BY <2>3, <2>4, <2>5
<1>10. QED BY <1>1, <1>2, <1>3, <1>4, <1>5, <1>6, <1>7, <1>8, <1>9,
              CanConsumeLocal DEF ConsumeStep

LEMMA ProduceKnow ==
  ASSUME TypeOK, HandInv, LockInv, TaskInv, StageInv, OwnInv, MeetInv, KnowInv, FarewellInv,
         crashed = None, NEW p \in Peers, ProduceStep(p)
  PROVE  MeetInv' /\ KnowInv' /\ FarewellInv'
<1>1. ASSUME NEW m \in Producers, Produce(p, m) PROVE MeetInv' /\ KnowInv' /\ FarewellInv'
  <2>1. /\ At(p, "idle", "producing")
        /\ LocalIs(p, local[p].others, local[p].visit, local[p].reading, local[p].todo,
                   local[p].job, m, local[p].dir, local[p].holding)
    BY <1>1, ProduceLocal, GotoIs
  <2>2. UNCHANGED <<peerMap, joined, knows, ghosts>>
    BY <1>1 DEF Produce, roomVars, sharing, workerVars, clientVars, history, clientDid
  <2>3. MeetInv'
    BY <2>1, <2>2, KnowBasics DEF MeetInv, Introduces, Joining, Consuming, Leaving, LocalIs, At
  <2>4. KnowInv'
    BY <2>1, <2>2, KnowBasics DEF KnowInv
  <2>5. FarewellInv'
    BY <2>1, <2>2, KnowBasics DEF FarewellInv, PastFarewell, LocalIs, At
  <2>6. QED BY <2>3, <2>4, <2>5
<1>2. CASE ProduceAnswered(p)
  <2>1. At(p, "producing", IF local[p].prod \in videos THEN "share" ELSE "store") /\ local' = local
    BY <1>2, GotoIs DEF ProduceAnswered
  <2>2. UNCHANGED <<peerMap, joined, knows, ghosts>>
    BY <1>2 DEF ProduceAnswered, roomVars, sharing, workerVars, clientVars, history, clientDid
  <2>3. MeetInv'
    BY <2>1, <2>2, KnowBasics DEF MeetInv, Introduces, Joining, Consuming, Leaving, LocalIs, At
  <2>4. KnowInv'
    BY <2>1, <2>2, KnowBasics DEF KnowInv
  <2>5. FarewellInv'
    BY <2>1, <2>2, KnowBasics DEF FarewellInv, PastFarewell, LocalIs, At
  <2>6. QED BY <2>3, <2>4, <2>5
<1>3. CASE Store(p)
  <2>1. At(p, "store", "announce") /\ local' = local
    BY <1>3, GotoIs DEF Store
  <2>2. UNCHANGED <<peerMap, joined, knows, ghosts>>
    BY <1>3 DEF Store, roomVars, sharing, workerVars, clientVars, history, clientDid
  <2>3. MeetInv'
    BY <2>1, <2>2, KnowBasics DEF MeetInv, Introduces, Joining, Consuming, Leaving, LocalIs, At
  <2>4. KnowInv'
    BY <2>1, <2>2, KnowBasics DEF KnowInv
  <2>5. FarewellInv'
    BY <2>1, <2>2, KnowBasics DEF FarewellInv, PastFarewell, LocalIs, At
  <2>6. QED BY <2>3, <2>4, <2>5
<1>4. CASE Announce(p)
  <2>0. local[p].prod # None
    BY <1>4 DEF Announce, HandInv, Creates, Goto
  <2>1. /\ At(p, "announce", "consume")
        /\ LocalIs(p, local[p].others, local[p].visit, local[p].reading,
                   JoinedPeers(p) \X {local[p].prod}, local[p].job, local[p].prod,
                   local[p].dir, local[p].holding)
    BY <1>4, AnnounceLocal, GotoIs, <2>0
  <2>2. UNCHANGED <<peerMap, joined, knows, ghosts>>
    BY <1>4 DEF Announce, roomVars, sharing, workerVars, clientVars, history, clientDid
  <2>3. local[p].prod # None
    BY <2>1 DEF HandInv, Creates, At
  <2>4. MeetInv'
    BY <2>1, <2>2, KnowBasics, <2>3 DEF MeetInv, Introduces, Joining, Consuming, Leaving,
       LocalIs, At
  <2>5. KnowInv'
    BY <2>1, <2>2, KnowBasics DEF KnowInv
  <2>6. FarewellInv'
    BY <2>1, <2>2, KnowBasics DEF FarewellInv, PastFarewell, LocalIs, At
  <2>7. QED BY <2>4, <2>5, <2>6
<1>5. CASE Replace(p)
  <2>1. /\ At(p, "share", "replacing")
        /\ LocalIs(p, local[p].others, local[p].visit, local[p].reading, local[p].todo,
                   local[p].job, local[p].prod, local[p].dir, TRUE)
    BY <1>5, ReplaceLocal, GotoIs
  <2>2. UNCHANGED <<peerMap, joined, knows, ghosts>>
    BY <1>5 DEF Replace, roomVars, sharing, workerVars, clientVars, history, clientDid
  <2>3. MeetInv'
    BY <2>1, <2>2, KnowBasics DEF MeetInv, Introduces, Joining, Consuming, Leaving, LocalIs, At
  <2>4. KnowInv'
    BY <2>1, <2>2, KnowBasics DEF KnowInv
  <2>5. FarewellInv'
    BY <2>1, <2>2, KnowBasics DEF FarewellInv, PastFarewell, LocalIs, At
  <2>6. QED BY <2>3, <2>4, <2>5
<1>6. CASE ReplaceAnswered(p) /\ reply[p] = "ok"
  <2>1. /\ At(p, "replacing", "announce")
        /\ LocalIs(p, local[p].others, local[p].visit, local[p].reading, local[p].todo,
                   local[p].job, local[p].prod, local[p].dir, FALSE)
    BY <1>6, ReplaceAnsweredLocal, GotoIs
  <2>2. UNCHANGED <<peerMap, joined, knows, ghosts>>
    BY <1>6 DEF ReplaceAnswered, roomVars, sharing, workerVars, clientVars, history, clientDid
  <2>3. MeetInv'
    BY <2>1, <2>2, KnowBasics DEF MeetInv, Introduces, Joining, Consuming, Leaving, LocalIs, At
  <2>4. KnowInv'
    BY <2>1, <2>2, KnowBasics DEF KnowInv
  <2>5. FarewellInv'
    BY <2>1, <2>2, KnowBasics DEF FarewellInv, PastFarewell, LocalIs, At
  <2>6. QED BY <2>3, <2>4, <2>5
<1>7. CASE ReplaceAnswered(p) /\ reply[p] # "ok"
  <2>1. /\ At(p, "replacing", "leave")
        /\ LocalIs(p, {}, {}, None, {}, None, None, None, FALSE)
    BY <1>7, ReplaceAnsweredLocal, GotoIs
  <2>2. UNCHANGED <<peerMap, joined, knows, ghosts>>
    BY <1>7 DEF ReplaceAnswered, roomVars, sharing, workerVars, clientVars, history, clientDid
  <2>3. MeetInv'
    BY <2>1, <2>2, KnowBasics DEF MeetInv, Introduces, Joining, Consuming, Leaving, LocalIs, At
  <2>4. KnowInv'
    BY <2>1, <2>2, KnowBasics DEF KnowInv
  <2>5. FarewellInv'
    BY <2>1, <2>2, KnowBasics DEF FarewellInv, PastFarewell, LocalIs, At
  <2>6. QED BY <2>3, <2>4, <2>5
<1>8. CASE Attach(p)
  <2>1. At(p, "share", "announce") /\ local' = local
    BY <1>8, GotoIs DEF Attach
  <2>2. UNCHANGED <<peerMap, joined, knows, ghosts>>
    BY <1>8 DEF Attach, roomVars, sharing, workerVars, clientVars, history, clientDid
  <2>3. MeetInv'
    BY <2>1, <2>2, KnowBasics DEF MeetInv, Introduces, Joining, Consuming, Leaving, LocalIs, At
  <2>4. KnowInv'
    BY <2>1, <2>2, KnowBasics DEF KnowInv
  <2>5. FarewellInv'
    BY <2>1, <2>2, KnowBasics DEF FarewellInv, PastFarewell, LocalIs, At
  <2>6. QED BY <2>3, <2>4, <2>5
<1>9. QED BY <1>1, <1>2, <1>3, <1>4, <1>5, <1>6, <1>7, <1>8 DEF ProduceStep

LEMMA CloseKnow ==
  ASSUME TypeOK, HandInv, LockInv, TaskInv, StageInv, OwnInv, MeetInv, KnowInv, FarewellInv,
         crashed = None, NEW p \in Peers, CloseStep(p)
  PROVE  MeetInv' /\ KnowInv' /\ FarewellInv'
<1>1. ASSUME NEW m \in Producers, CloseProducer(p, m) PROVE MeetInv' /\ KnowInv' /\ FarewellInv'
  <2>1. /\ At(p, "idle", "closing")
        /\ LocalIs(p, local[p].others, local[p].visit, local[p].reading, local[p].todo,
                   local[p].job, m, local[p].dir, local[p].holding)
    BY <1>1, CloseProducerLocal, GotoIs
  <2>2. UNCHANGED <<peerMap, joined, knows, ghosts>>
    BY <1>1 DEF CloseProducer, roomVars, sharing, workerVars, clientVars, history, clientDid
  <2>3. MeetInv'
    BY <2>1, <2>2, KnowBasics DEF MeetInv, Introduces, Joining, Consuming, Leaving, LocalIs, At
  <2>4. KnowInv'
    BY <2>1, <2>2, KnowBasics DEF KnowInv
  <2>5. FarewellInv'
    BY <2>1, <2>2, KnowBasics DEF FarewellInv, PastFarewell, LocalIs, At
  <2>6. QED BY <2>3, <2>4, <2>5
<1>2. ASSUME NEW m \in Producers, CloseVideo(p, m) PROVE MeetInv' /\ KnowInv' /\ FarewellInv'
  <2>1. /\ At(p, "idle", "detaching")
        /\ LocalIs(p, local[p].others, local[p].visit, local[p].reading, local[p].todo,
                   local[p].job, local[p].prod, local[p].dir, TRUE)
    BY <1>2, CloseVideoLocal, GotoIs
  <2>2. UNCHANGED <<peerMap, joined, knows, ghosts>>
    BY <1>2 DEF CloseVideo, roomVars, sharing, workerVars, clientVars, history, clientDid
  <2>3. MeetInv'
    BY <2>1, <2>2, KnowBasics DEF MeetInv, Introduces, Joining, Consuming, Leaving, LocalIs, At
  <2>4. KnowInv'
    BY <2>1, <2>2, KnowBasics DEF KnowInv
  <2>5. FarewellInv'
    BY <2>1, <2>2, KnowBasics DEF FarewellInv, PastFarewell, LocalIs, At
  <2>6. QED BY <2>3, <2>4, <2>5
<1>3. CASE VideoClosed(p) /\ reply[p] = "ok"
  <2>1. /\ At(p, "detaching", "idle")
        /\ LocalIs(p, local[p].others, local[p].visit, local[p].reading, local[p].todo,
                   local[p].job, local[p].prod, local[p].dir, FALSE)
    BY <1>3, VideoClosedLocal, GotoIs
  <2>2. UNCHANGED <<peerMap, joined, knows, ghosts>>
    BY <1>3 DEF VideoClosed, roomVars, sharing, workerVars, clientVars, history, clientDid
  <2>3. MeetInv'
    BY <2>1, <2>2, KnowBasics DEF MeetInv, Introduces, Joining, Consuming, Leaving, LocalIs, At
  <2>4. KnowInv'
    BY <2>1, <2>2, KnowBasics DEF KnowInv
  <2>5. FarewellInv'
    BY <2>1, <2>2, KnowBasics DEF FarewellInv, PastFarewell, LocalIs, At
  <2>6. QED BY <2>3, <2>4, <2>5
<1>4. ASSUME NEW m \in Producers, NullStep(p, m) PROVE MeetInv' /\ KnowInv' /\ FarewellInv'
  <2>1. /\ pc[p] = "idle" /\ pc' = pc
        /\ LocalIs(p, local[p].others, local[p].visit, local[p].reading, local[p].todo,
                   local[p].job, m, local[p].dir, local[p].holding)
    BY <1>4, NullStepLocal, GotoIs
  <2>2. UNCHANGED <<peerMap, joined, knows, ghosts>>
    BY <1>4 DEF NullStep, CloseNull, ProduceNull, roomVars, sharing, workerVars, clientVars,
       history, clientDid
  <2>3. MeetInv'
    BY <2>1, <2>2, KnowBasics DEF MeetInv, Introduces, Joining, Consuming, Leaving, LocalIs, At
  <2>4. KnowInv'
    BY <2>1, <2>2, KnowBasics DEF KnowInv
  <2>5. FarewellInv'
    BY <2>1, <2>2, KnowBasics DEF FarewellInv, PastFarewell, LocalIs, At
  <2>6. QED BY <2>3, <2>4, <2>5
<1>5. CASE CloseAnswered(p)
  <2>1. At(p, "closing", "erase") /\ local' = local
    BY <1>5, GotoIs DEF CloseAnswered
  <2>2. UNCHANGED <<peerMap, joined, knows, ghosts>>
    BY <1>5 DEF CloseAnswered, roomVars, sharing, workerVars, clientVars, history, clientDid
  <2>3. MeetInv'
    BY <2>1, <2>2, KnowBasics DEF MeetInv, Introduces, Joining, Consuming, Leaving, LocalIs, At
  <2>4. KnowInv'
    BY <2>1, <2>2, KnowBasics DEF KnowInv
  <2>5. FarewellInv'
    BY <2>1, <2>2, KnowBasics DEF FarewellInv, PastFarewell, LocalIs, At
  <2>6. QED BY <2>3, <2>4, <2>5
<1>6. CASE Erase(p)
  <2>1. /\ At(p, "erase", "idle")
        /\ LocalIs(p, local[p].others, local[p].visit, local[p].reading, local[p].todo,
                   local[p].job, None, local[p].dir, local[p].holding)
    BY <1>6, EraseLocal, GotoIs
  <2>2. UNCHANGED <<peerMap, joined, knows, ghosts>>
    BY <1>6 DEF Erase, roomVars, sharing, workerVars, clientVars, history, clientDid
  <2>3. MeetInv'
    BY <2>1, <2>2, KnowBasics DEF MeetInv, Introduces, Joining, Consuming, Leaving, LocalIs, At
  <2>4. KnowInv'
    BY <2>1, <2>2, KnowBasics DEF KnowInv
  <2>5. FarewellInv'
    BY <2>1, <2>2, KnowBasics DEF FarewellInv, PastFarewell, LocalIs, At
  <2>6. QED BY <2>3, <2>4, <2>5
<1>7. CASE VideoClosed(p) /\ reply[p] # "ok"
  <2>1. /\ At(p, "detaching", "leave")
        /\ LocalIs(p, {}, {}, None, {}, None, None, None, FALSE)
    BY <1>7, VideoClosedLocal, GotoIs
  <2>2. UNCHANGED <<peerMap, joined, knows, ghosts>>
    BY <1>7 DEF VideoClosed, roomVars, sharing, workerVars, clientVars, history, clientDid
  <2>3. MeetInv'
    BY <2>1, <2>2, KnowBasics DEF MeetInv, Introduces, Joining, Consuming, Leaving, LocalIs, At
  <2>4. KnowInv'
    BY <2>1, <2>2, KnowBasics DEF KnowInv
  <2>5. FarewellInv'
    BY <2>1, <2>2, KnowBasics DEF FarewellInv, PastFarewell, LocalIs, At
  <2>6. QED BY <2>3, <2>4, <2>5
<1>8. ASSUME NEW m \in Producers, DetachClosed(p, m) PROVE MeetInv' /\ KnowInv' /\ FarewellInv'
  <2>1. pc[p] = "idle" /\ pc' = pc /\ local' = local
    BY <1>8 DEF DetachClosed
  <2>2. UNCHANGED <<peerMap, joined, knows, ghosts>>
    BY <1>8 DEF DetachClosed, roomVars, sharing, workerVars, clientVars, history, clientDid
  <2>3. MeetInv'
    BY <2>1, <2>2, KnowBasics DEF MeetInv, Introduces, Joining, Consuming, Leaving
  <2>4. KnowInv'
    BY <2>1, <2>2, KnowBasics DEF KnowInv
  <2>5. FarewellInv'
    BY <2>1, <2>2, KnowBasics DEF FarewellInv, PastFarewell
  <2>6. QED BY <2>3, <2>4, <2>5
<1>9. QED BY <1>1, <1>2, <1>3, <1>4, <1>5, <1>6, <1>7, <1>8 DEF CloseStep

LEMMA LeaveKnow ==
  ASSUME TypeOK, HandInv, LockInv, TaskInv, StageInv, OwnInv, MeetInv, KnowInv, FarewellInv,
         crashed = None, NEW p \in Peers, LeaveStep(p)
  PROVE  MeetInv' /\ KnowInv' /\ FarewellInv'
<1>1. CASE Leave(p)
  <2>1. At(p, "idle", "leave") /\ local' = local
    BY <1>1, GotoIs DEF Leave
  <2>2. UNCHANGED <<peerMap, joined, knows, ghosts>>
    BY <1>1 DEF Leave, roomVars, sharing, workerVars, clientVars, history, clientDid
  <2>3. MeetInv'
    BY <2>1, <2>2, KnowBasics DEF MeetInv, Introduces, Joining, Consuming, Leaving, LocalIs, At
  <2>4. KnowInv'
    BY <2>1, <2>2, KnowBasics DEF KnowInv
  <2>5. FarewellInv'
    BY <2>1, <2>2, KnowBasics DEF FarewellInv, PastFarewell, LocalIs, At
  <2>6. QED BY <2>3, <2>4, <2>5
<1>2. CASE LeaveSnapshot(p)
  <2>1. /\ At(p, "leave", "notify")
        /\ LocalIs(p, JoinedPeers(p), local[p].visit, local[p].reading, local[p].todo,
                   local[p].job, local[p].prod, local[p].dir, local[p].holding)
    BY <1>2, LeaveSnapshotLocal, GotoIs
  <2>2. UNCHANGED <<peerMap, joined, knows, ghosts>>
    BY <1>2 DEF LeaveSnapshot, roomVars, sharing, workerVars, clientVars, history, clientDid
  <2>3. MeetInv'
    BY <2>1, <2>2, KnowBasics DEF MeetInv, Introduces, Joining, Consuming, Leaving, LocalIs, At
  <2>4. KnowInv'
    BY <2>1, <2>2, KnowBasics DEF KnowInv
  <2>5. \A x \in Peers : x \in peerMap \/ pc[x] = "gone"
    BY DEF StageInv, Staged
  <2>6. FarewellInv'
    BY <2>1, <2>2, KnowBasics, <2>5 DEF FarewellInv, PastFarewell, LocalIs, At, JoinedPeers,
       KnowInv, TypeOK
  <2>7. QED BY <2>3, <2>4, <2>6
<1>3. CASE LeaveNotify(p)
  <2>1. /\ At(p, "notify", "transports")
        /\ LocalIs(p, {}, {}, None, {}, None, None, None, FALSE)
    BY <1>3, LeaveNotifyLocal, GotoIs
  <2>2. /\ knows' = [q \in Peers |-> IF p \in joined /\ q \in local[p].others
                               THEN knows[q] \ {p} ELSE knows[q]]
        /\ UNCHANGED <<peerMap, joined, ghosts>>
    BY <1>3 DEF LeaveNotify, roomVars, sharing, workerVars, clientVars, history, clientDid
  <2>3. MeetInv'
    BY <2>1, <2>2, KnowBasics DEF MeetInv, Introduces, Joining, Consuming, Leaving, LocalIs,
       At, TypeOK
  <2>4. KnowInv'
    BY <2>1, <2>2, KnowBasics DEF KnowInv, TypeOK
  <2>5. \A x \in Peers : p \in knows[x] => p \in joined
    BY DEF KnowInv
  <2>6. FarewellInv'
    BY <2>1, <2>2, KnowBasics, <2>5 DEF FarewellInv, PastFarewell, LocalIs, At, TypeOK
  <2>7. QED BY <2>3, <2>4, <2>6
<1>4. ASSUME NEW d \in Directions, CloseTransport(p, d) PROVE MeetInv' /\ KnowInv' /\ FarewellInv'
  <2>1. /\ At(p, "transports", "transport")
        /\ LocalIs(p, local[p].others, local[p].visit, local[p].reading, local[p].todo,
                   local[p].job, local[p].prod, d, local[p].holding)
    BY <1>4, CloseTransportLocal, GotoIs
  <2>2. UNCHANGED <<peerMap, joined, knows, ghosts>>
    BY <1>4 DEF CloseTransport, roomVars, sharing, workerVars, clientVars, history, clientDid
  <2>3. MeetInv'
    BY <2>1, <2>2, KnowBasics DEF MeetInv, Introduces, Joining, Consuming, Leaving, LocalIs, At
  <2>4. KnowInv'
    BY <2>1, <2>2, KnowBasics DEF KnowInv
  <2>5. FarewellInv'
    BY <2>1, <2>2, KnowBasics DEF FarewellInv, PastFarewell, LocalIs, At
  <2>6. QED BY <2>3, <2>4, <2>5
<1>5. CASE TransportAnswered(p)
  <2>1. /\ At(p, "transport", "transports")
        /\ LocalIs(p, local[p].others, local[p].visit, local[p].reading, local[p].todo,
                   local[p].job, local[p].prod, None, local[p].holding)
    BY <1>5, TransportAnsweredLocal, GotoIs
  <2>2. UNCHANGED <<peerMap, joined, knows, ghosts>>
    BY <1>5 DEF TransportAnswered, roomVars, sharing, workerVars, clientVars, history, clientDid
  <2>3. MeetInv'
    BY <2>1, <2>2, KnowBasics DEF MeetInv, Introduces, Joining, Consuming, Leaving, LocalIs, At
  <2>4. KnowInv'
    BY <2>1, <2>2, KnowBasics DEF KnowInv
  <2>5. FarewellInv'
    BY <2>1, <2>2, KnowBasics DEF FarewellInv, PastFarewell, LocalIs, At
  <2>6. QED BY <2>3, <2>4, <2>5
<1>6. CASE RemovePeer(p)
  <2>1. At(p, "transports", "gone") /\ local' = local
    BY <1>6, GotoIs DEF RemovePeer
  <2>2. /\ peerMap' = peerMap \ {p}
        /\ UNCHANGED <<joined, knows, ghosts>>
    BY <1>6 DEF RemovePeer, roomVars, sharing, workerVars, clientVars, history, clientDid
  <2>3. MeetInv'
    BY <2>1, <2>2, KnowBasics DEF MeetInv, Introduces, Joining, Consuming, Leaving, LocalIs, At
  <2>4. KnowInv'
    BY <2>1, <2>2, KnowBasics DEF KnowInv
  <2>5. FarewellInv'
    BY <2>1, <2>2, KnowBasics DEF FarewellInv, PastFarewell, LocalIs, At
  <2>6. QED BY <2>3, <2>4, <2>5
<1>7. QED BY <1>1, <1>2, <1>3, <1>4, <1>5, <1>6 DEF LeaveStep

-----------------------------------------------------------------------------
(* Who consumes what                                                       *)

LEMMA ServeBasics ==
  ASSUME TypeOK, HandInv, OwnInv
  PROVE  /\ joined \subseteq Peers /\ None \notin Producers /\ None \notin Peers
         /\ \A m \in Producers : Owner[m] \in Peers
         /\ \A m \in Producers : Live(m) => m \in made
         /\ \A m \in videos, x \in Peers : m \notin producers[x]
         /\ shared # None => shared \in videos /\ shared \in Producers
  BY OwnerAssumption, NoneAssumption DEF TypeOK, HandInv, OwnInv, Live

LEMMA JoinServe ==
  ASSUME TypeOK, HandInv, AnswerInv, LockInv, TaskInv, StageInv, OwnInv, WorkInv, StoreInv,
         SharedInv, ServeInv, WalkedInv, crashed = None, NEW p \in Peers, JoinStep(p)
  PROVE  ServeInv' /\ WalkedInv'
<1>1. CASE Join(p)
  <2>1. At(p, "idle", "caps") /\ local' = local
    BY <1>1, GotoIs DEF Join
  <2>2. /\ joined' = joined \cup {p}
        /\ p \in peerMap \ joined
        /\ UNCHANGED <<peerMap, producers, consumers, shared, closed, made, videos>>
    BY <1>1 DEF Join, roomVars, sharing, workerVars, clientVars, history, clientDid
  <2>3. \A m \in made : Owner[m] # p
    BY <2>2 DEF StageInv, Staged
  <2>4. ServeInv'
    BY <2>1, <2>2, ServeBasics, <2>3 DEF ServeInv, Served, Pending, ToWalk, BeforeSharing,
       Live, Leaving, LocalIs, At
  <2>5. WalkedInv'
    BY <2>1, <2>2 DEF WalkedInv, LocalIs, At
  <2>6. QED BY <2>4, <2>5
<1>2. CASE JoinSnapshot(p)
  <2>1. /\ At(p, "caps", "accept")
        /\ LocalIs(p, JoinedPeers(p), JoinedPeers(p), local[p].reading, local[p].todo,
                   local[p].job, local[p].prod, local[p].dir, local[p].holding)
    BY <1>2, JoinSnapshotLocal, GotoIs
  <2>2. UNCHANGED <<peerMap, joined, producers, consumers, shared, closed, made, videos>>
    BY <1>2 DEF JoinSnapshot, roomVars, sharing, workerVars, clientVars, history, clientDid
  <2>3. local[p].todo = {} /\ local[p].job = None
    BY <2>1 DEF TaskInv, Tasked, Consuming, Creating, At
  <2>4. \A m \in made : Owner[m] # p
    BY <2>1 DEF StageInv, Staged, Joining, At
  <2>5. \A m \in made : Owner[m] \in Peers => Owner[m] \in joined /\ (Owner[m] \in peerMap \/ pc[Owner[m]] = "gone")
    BY DEF StageInv, Staged
  <2>6. ServeInv'
    BY <2>1, <2>2, ServeBasics, <2>3, <2>4, <2>5 DEF ServeInv, Served, Pending, ToWalk,
       BeforeSharing, Live, Leaving, LocalIs, At, JoinedPeers
  <2>7. WalkedInv'
    BY <2>1, <2>2 DEF WalkedInv, LocalIs, At
  <2>8. QED BY <2>6, <2>7
<1>3. CASE JoinAccept(p)
  <2>1. At(p, "accept", "visit") /\ local' = local
    BY <1>3, GotoIs DEF JoinAccept
  <2>2. UNCHANGED <<peerMap, joined, producers, consumers, shared, closed, made, videos>>
    BY <1>3 DEF JoinAccept, roomVars, sharing, workerVars, clientVars, history, clientDid
  <2>3. ServeInv'
    BY <2>1, <2>2, ServeBasics DEF ServeInv, Served, Pending, ToWalk, BeforeSharing, Live,
       Leaving, LocalIs, At
  <2>4. WalkedInv'
    BY <2>1, <2>2 DEF WalkedInv, LocalIs, At
  <2>5. QED BY <2>3, <2>4
<1>4. ASSUME Visit(p), NEW q \in local[p].visit, Visits(p, q) PROVE ServeInv' /\ WalkedInv'
  <2>2. UNCHANGED <<peerMap, joined, producers, consumers, shared, closed, made, videos>>
    BY <1>4 DEF Visit, roomVars, sharing, workerVars, clientVars, history, clientDid
  <2>3. local[p].todo = {} /\ local[p].job = None
    BY <1>4 DEF TaskInv, Tasked, Consuming, Creating, Visits, At
  <2>4. local[p].prod = None
    BY <1>4 DEF OwnInv, Creates, Consuming, At, Visits
  <2>5. q \in Peers /\ q # None
    BY <1>4, NoneAssumption DEF TypeOK, Local
  <2>6. \A m \in Producers : Live(m) /\ m \notin videos => m \in producers[Owner[m]]
    BY ServeBasics DEF Live
  <2>7. \A m \in producers[q] : <<p, m>> \in local'[p].todo
    BY <1>4 DEF Visits, LocalIs
  <2>8. BeforeSharing(p)'
    BY <1>4, <2>5 DEF BeforeSharing, Visits, LocalIs
  <2>9. /\ local'[p].visit = local[p].visit \ {q} /\ pc[p] = "visit"
        /\ \A x \in Peers : x # p => local'[x] = local[x] /\ pc'[x] = pc[x]
    BY <1>4 DEF Visits, At, LocalIs
  <2>10. p \in joined
    BY <1>4 DEF StageInv, Staged, Joining, Visits, At
  <2>11. ASSUME NEW m \in Producers, p # Owner[m], Live(m), m \notin videos, Owner[m] # q
       PROVE  Served(p, m)'
    BY <2>2, <2>11, ServeBasics, <2>3, <2>6, <2>9, <2>10 DEF ServeInv, Served, Pending,
       ToWalk, Leaving, BeforeSharing
  <2>12. ASSUME NEW m \in Producers, p # Owner[m], Live(m) PROVE Served(p, m)'
    BY <2>2, <2>11, <2>12, <2>6, <2>7, <2>8 DEF Served, Pending, ToWalk
  <2>13. ASSUME NEW x \in joined, x # p, NEW m \in Producers, Served(x, m) PROVE Served(x, m)'
    BY <2>2, <2>13, ServeBasics, <2>3, <2>9 DEF Served, Pending, ToWalk, Leaving, BeforeSharing
  <2>14. \A m \in Producers : Live(m)' <=> Live(m)
    BY <2>2 DEF Live
  <2>15. ServeInv'
    BY <1>4, <2>2, ServeBasics, <2>3, <2>4, <2>5, <2>6, <2>7, <2>8, <2>9, <2>10, <2>11,
       <2>12, <2>13, <2>14 DEF ServeInv, Served, Pending, ToWalk, BeforeSharing, Live,
       Leaving, LocalIs, At, Visits
  <2>16. WalkedInv'
    BY <1>4, <2>2 DEF WalkedInv, LocalIs, At, Visits
  <2>17. QED BY <2>15, <2>16
<1>5. CASE JoinSharing(p) /\ VideoShared
  <2>1. /\ At(p, "visit", "consume")
        /\ LocalIs(p, local[p].others, local[p].visit, local[p].reading, {<<p,
                   shared>>}, local[p].job, local[p].prod, local[p].dir, TRUE)
    BY <1>5, JoinSharingLocal, GotoIs
  <2>2. /\ local[p].visit = {} /\ Free
        /\ UNCHANGED <<peerMap, joined, producers, consumers, shared, closed, made, videos>>
    BY <1>5 DEF JoinSharing, roomVars, sharing, workerVars, clientVars, history, clientDid
  <2>3. local[p].todo = {} /\ local[p].job = None
    BY <2>1 DEF TaskInv, Tasked, Consuming, Creating, At
  <2>4. ServeInv'
    BY <2>1, <2>2, ServeBasics, <2>3 DEF ServeInv, Served, Pending, ToWalk, BeforeSharing,
       Live, Leaving, LocalIs, At, VideoShared
  <2>5. WalkedInv'
    BY <2>1, <2>2 DEF WalkedInv, LocalIs, At
  <2>6. QED BY <2>4, <2>5
<1>6. CASE JoinSharing(p) /\ ~VideoShared
  <2>1. At(p, "visit", "newPeer") /\ local' = local
    BY <1>6, GotoIs DEF JoinSharing
  <2>2. /\ local[p].visit = {} /\ ~VideoShared
        /\ UNCHANGED <<peerMap, joined, producers, consumers, shared, closed, made, videos>>
    BY <1>6 DEF JoinSharing, roomVars, sharing, workerVars, clientVars, history, clientDid
  <2>3. local[p].todo = {} /\ local[p].job = None
    BY <2>1 DEF TaskInv, Tasked, Consuming, Creating, At
  <2>4. ServeInv'
    BY <2>1, <2>2, ServeBasics, <2>3 DEF ServeInv, Served, Pending, ToWalk, BeforeSharing,
       Live, Leaving, LocalIs, At, VideoShared
  <2>5. WalkedInv'
    BY <2>1, <2>2 DEF WalkedInv, LocalIs, At
  <2>6. QED BY <2>4, <2>5
<1>7. CASE JoinDone(p)
  <2>1. /\ At(p, "newPeer", "idle")
        /\ LocalIs(p, {}, {}, None, {}, None, None, None, FALSE)
    BY <1>7, JoinDoneLocal, GotoIs
  <2>2. UNCHANGED <<peerMap, joined, producers, consumers, shared, closed, made, videos>>
    BY <1>7 DEF JoinDone, roomVars, sharing, workerVars, clientVars, history, clientDid
  <2>3. local[p].todo = {} /\ local[p].job = None
    BY <2>1 DEF TaskInv, Tasked, Consuming, Creating, At
  <2>4. local[p].visit = {} /\ local[p].reading = None
    BY <2>1 DEF WalkedInv, LockInv, LocksAreReleased, At
  <2>5. ServeInv'
    BY <2>1, <2>2, ServeBasics, <2>3, <2>4 DEF ServeInv, Served, Pending, ToWalk,
       BeforeSharing, Live, Leaving, LocalIs, At
  <2>6. WalkedInv'
    BY <2>1, <2>2 DEF WalkedInv, LocalIs, At
  <2>7. QED BY <2>5, <2>6
<1>8. QED BY <1>1, <1>2, <1>3, <1>4, <1>5, <1>6, <1>7, VisitLocal DEF JoinStep

LEMMA ConsumeServe ==
  ASSUME TypeOK, HandInv, AnswerInv, LockInv, TaskInv, StageInv, OwnInv, WorkInv, StoreInv,
         SharedInv, ServeInv, WalkedInv, crashed = None, NEW p \in Peers, ConsumeStep(p)
  PROVE  ServeInv' /\ WalkedInv'
<1>1. ASSUME CanConsume(p), NEW w \in local[p].todo, Skip(p, w) PROVE ServeInv' /\ WalkedInv'
  <2>2. UNCHANGED <<peerMap, joined, producers, consumers, shared, closed, made, videos>>
    BY <1>1 DEF CanConsume, roomVars, sharing, workerVars, clientVars, history, clientDid
  <2>3. \A m \in Producers : Live(m) =>
          \/ m \in wProducers
          \/ pc[Owner[m]] \in {"closing", "erase"} /\ local[Owner[m]].prod = m
          \/ pc[Owner[m]] \in Leaving
    BY ServeBasics DEF Live, StoreInv, SharedInv, VideoShared, ClosesSend, Leaving
  <2>4. \A x \in Peers : pc[x] = "producing" =>
          local[x].prod # shared /\ local[x].prod \notin producers[x]
    BY DEF OwnInv
  <2>5. \A m \in wProducers : Live(m) => m \in router
    <3>1. TAKE m \in wProducers
    <3>2. HAVE Live(m)
    <3>3. Owner[m] \in Peers
      BY ServeBasics, Basics
    <3>4. ~(pc[Owner[m]] = "producing" /\ local[Owner[m]].prod = m)
      BY <2>4, <3>2, <3>3 DEF Live
    <3>5. QED BY <3>4 DEF WorkInv
  <2>6. w \in Peers \X Producers /\ w = <<w[1], w[2]>>
    BY <1>1 DEF TypeOK, Local
  <2>7. ServeInv'
    BY <1>1, <2>2, ServeBasics, <2>3, <2>4, <2>5, <2>6 DEF ServeInv, Served, Pending, ToWalk,
       BeforeSharing, Live, Leaving, LocalIs, At, Skip
  <2>8. WalkedInv'
    BY <1>1, <2>2 DEF WalkedInv, LocalIs, At, Skip
  <2>9. QED BY <2>7, <2>8
<1>2. ASSUME CanConsume(p), NEW w \in local[p].todo, Take(p, w) PROVE ServeInv' /\ WalkedInv'
  <2>2. UNCHANGED <<peerMap, joined, producers, consumers, shared, closed, made, videos>>
    BY <1>2 DEF CanConsume, roomVars, sharing, workerVars, clientVars, history, clientDid
  <2>3. w \in Peers \X Producers /\ w = <<w[1], w[2]>>
    BY <1>2 DEF TypeOK, Local
  <2>4. [peer |-> w[1], prod |-> w[2], maker |-> p] # None
    BY NoneAssumption, <2>3 DEF Consumer
  <2>5. local[p].job = None
    BY <1>2 DEF TaskInv, Tasked, Consuming, Creating, Take, At
  <2>6. \A x \in Peers, m \in Producers : Pending(p, x, m) => Pending(p, x, m)'
    BY <1>2, <2>3, <2>4, <2>5 DEF Pending, Take, LocalIs, At
  <2>7. ServeInv'
    BY <1>2, <2>2, ServeBasics, <2>3, <2>4, <2>5, <2>6 DEF ServeInv, Served, Pending, ToWalk,
       BeforeSharing, Live, Leaving, LocalIs, At, Take
  <2>8. WalkedInv'
    BY <1>2, <2>2 DEF WalkedInv, LocalIs, At, Take
  <2>9. QED BY <2>7, <2>8
<1>3. CASE ConsumeDone(p)
  <2>1. /\ At(p, "consume", IF local[p].holding THEN "newPeer" ELSE IF local[p].reading = None THEN "idle" ELSE "visit")
        /\ LocalIs(p, local[p].others, local[p].visit, None, local[p].todo,
                   local[p].job, None, local[p].dir, FALSE)
    BY <1>3, ConsumeDoneLocal, GotoIs
  <2>2. /\ local[p].todo = {}
        /\ UNCHANGED <<peerMap, joined, producers, consumers, shared, closed, made, videos>>
    BY <1>3 DEF ConsumeDone, roomVars, sharing, workerVars, clientVars, history, clientDid
  <2>3. local[p].job = None
    BY <2>1 DEF TaskInv, Tasked, Consuming, Creating, At
  <2>4. Announcing(p) \/ Walking(p) \/ Sharing(p)
    BY <2>1 DEF TaskInv, Tasked, Consuming, At
  <2>5. ServeInv'
    BY <2>1, <2>2, ServeBasics, <2>3, <2>4 DEF ServeInv, Served, Pending, ToWalk,
       BeforeSharing, Live, Leaving, LocalIs, At, Announcing, Walking, Sharing
  <2>6. Announcing(p) \/ Walking(p) \/ Sharing(p)
    BY <2>1 DEF TaskInv, Tasked, Consuming, At
  <2>7. WalkedInv'
    BY <2>1, <2>2, <2>6 DEF WalkedInv, LocalIs, At, Announcing, Walking, Sharing
  <2>8. QED BY <2>5, <2>7
<1>4. CASE ConsumeNull(p)
  <2>1. pc[p] = "request" /\ pc' = pc /\ local' = local
    BY <1>4 DEF ConsumeNull
  <2>2. UNCHANGED <<peerMap, joined, producers, consumers, shared, closed, made, videos>>
    BY <1>4 DEF ConsumeNull, roomVars, sharing, workerVars, clientVars, history, clientDid
  <2>3. ServeInv'
    BY <2>1, <2>2, ServeBasics DEF ServeInv, Served, Pending, ToWalk, BeforeSharing, Live,
       Leaving, LocalIs, At
  <2>4. WalkedInv'
    BY <2>1, <2>2 DEF WalkedInv, LocalIs, At
  <2>5. QED BY <2>3, <2>4
<1>5. CASE Consume(p)
  <2>1. At(p, "request", "consuming") /\ local' = local
    BY <1>5, GotoIs DEF Consume
  <2>2. UNCHANGED <<peerMap, joined, producers, consumers, shared, closed, made, videos>>
    BY <1>5 DEF Consume, roomVars, sharing, workerVars, clientVars, history, clientDid
  <2>3. ServeInv'
    BY <2>1, <2>2, ServeBasics DEF ServeInv, Served, Pending, ToWalk, BeforeSharing, Live,
       Leaving, LocalIs, At
  <2>4. WalkedInv'
    BY <2>1, <2>2 DEF WalkedInv, LocalIs, At
  <2>5. QED BY <2>3, <2>4
<1>6. CASE ConsumeAnswered(p) /\ reply[p] = "ok"
  <2>1. At(p, "consuming", "emplace") /\ local' = local
    BY <1>6, GotoIs DEF ConsumeAnswered
  <2>2. UNCHANGED <<peerMap, joined, producers, consumers, shared, closed, made, videos>>
    BY <1>6 DEF ConsumeAnswered, roomVars, sharing, workerVars, clientVars, history, clientDid
  <2>3. ServeInv'
    BY <2>1, <2>2, ServeBasics DEF ServeInv, Served, Pending, ToWalk, BeforeSharing, Live,
       Leaving, LocalIs, At
  <2>4. WalkedInv'
    BY <2>1, <2>2 DEF WalkedInv, LocalIs, At
  <2>5. QED BY <2>3, <2>4
<1>7. CASE ConsumeAnswered(p) /\ reply[p] # "ok"
  <2>1. /\ At(p, "consuming", "leave")
        /\ LocalIs(p, {}, {}, None, {}, None, None, None, FALSE)
    BY <1>7, ConsumeAnsweredLocal, GotoIs
  <2>2. UNCHANGED <<peerMap, joined, producers, consumers, shared, closed, made, videos>>
    BY <1>7 DEF ConsumeAnswered, roomVars, sharing, workerVars, clientVars, history, clientDid
  <2>3. ServeInv'
    BY <2>1, <2>2, ServeBasics DEF ServeInv, Served, Pending, ToWalk, BeforeSharing, Live,
       Leaving, LocalIs, At
  <2>4. WalkedInv'
    BY <2>1, <2>2 DEF WalkedInv, LocalIs, At
  <2>5. QED BY <2>3, <2>4
<1>8. CASE Emplace(p)
  <2>1. At(p, "emplace", "tell") /\ local' = local
    BY <1>8, GotoIs DEF Emplace
  <2>2. /\ consumers' = [consumers EXCEPT ![local[p].job.peer] = @ \cup {local[p].job}]
        /\ UNCHANGED <<peerMap, joined, producers, shared, closed, made, videos>>
    BY <1>8 DEF Emplace, roomVars, sharing, workerVars, clientVars, history, clientDid
  <2>3. local[p].job # None
    BY <2>1 DEF HandInv, Creating, At
  <2>4. local[p].job \in Consumer
    BY <2>3 DEF TypeOK, Local
  <2>5. /\ local[p].job \in consumers'[local[p].job.peer]
        /\ \A x \in Peers : consumers[x] \subseteq consumers'[x]
    BY <2>2, <2>4 DEF TypeOK, Consumer
  <2>6. ServeInv'
    BY <2>1, <2>2, ServeBasics, <2>3, <2>4, <2>5 DEF ServeInv, Served, Pending, ToWalk,
       BeforeSharing, Live, Leaving, LocalIs, At
  <2>7. WalkedInv'
    BY <2>1, <2>2 DEF WalkedInv, LocalIs, At
  <2>8. QED BY <2>6, <2>7
<1>9. CASE Tell(p)
  <2>1. /\ At(p, "tell", "consume")
        /\ LocalIs(p, local[p].others, local[p].visit, local[p].reading, local[p].todo,
                   None, local[p].prod, local[p].dir, local[p].holding)
    BY <1>9, TellLocal, GotoIs
  <2>2. UNCHANGED <<peerMap, joined, producers, consumers, shared, closed, made, videos>>
    BY <1>9 DEF Tell, roomVars, sharing, workerVars, clientVars, history, clientDid
  <2>3. ServeInv'
    BY <2>1, <2>2, ServeBasics DEF ServeInv, Served, Pending, ToWalk, BeforeSharing, Live,
       Leaving, LocalIs, At
  <2>4. WalkedInv'
    BY <2>1, <2>2 DEF WalkedInv, LocalIs, At
  <2>5. QED BY <2>3, <2>4
<1>10. QED BY <1>1, <1>2, <1>3, <1>4, <1>5, <1>6, <1>7, <1>8, <1>9,
              CanConsumeLocal DEF ConsumeStep

LEMMA ProduceServe ==
  ASSUME TypeOK, HandInv, AnswerInv, LockInv, TaskInv, StageInv, OwnInv, WorkInv, StoreInv,
         SharedInv, ServeInv, WalkedInv, crashed = None, NEW p \in Peers, ProduceStep(p)
  PROVE  ServeInv' /\ WalkedInv'
<1>1. ASSUME NEW m \in Producers, Produce(p, m) PROVE ServeInv' /\ WalkedInv'
  <2>1. /\ At(p, "idle", "producing")
        /\ LocalIs(p, local[p].others, local[p].visit, local[p].reading, local[p].todo,
                   local[p].job, m, local[p].dir, local[p].holding)
    BY <1>1, ProduceLocal, GotoIs
  <2>2. /\ videos' \in {videos, videos \cup {m}}
        /\ p \in joined /\ Owner[m] = p /\ m \notin made
        /\ made' = made \cup {m}
        /\ UNCHANGED <<peerMap, joined, producers, consumers, shared, closed>>
    BY <1>1 DEF Produce, roomVars, sharing, workerVars, clientVars, history, clientDid
  <2>3. local[p].todo = {} /\ local[p].job = None
    BY <2>1 DEF TaskInv, Tasked, Consuming, Creating, At
  <2>4. ServeInv'
    BY <2>1, <2>2, ServeBasics, <2>3 DEF ServeInv, Served, Pending, ToWalk, BeforeSharing,
       Live, Leaving, LocalIs, At
  <2>5. WalkedInv'
    BY <2>1, <2>2 DEF WalkedInv, LocalIs, At
  <2>6. QED BY <2>4, <2>5
<1>2. CASE ProduceAnswered(p)
  <2>1. At(p, "producing", IF local[p].prod \in videos THEN "share" ELSE "store") /\ local' = local
    BY <1>2, GotoIs DEF ProduceAnswered
  <2>2. UNCHANGED <<peerMap, joined, producers, consumers, shared, closed, made, videos>>
    BY <1>2 DEF ProduceAnswered, roomVars, sharing, workerVars, clientVars, history, clientDid
  <2>3. ServeInv'
    BY <2>1, <2>2, ServeBasics DEF ServeInv, Served, Pending, ToWalk, BeforeSharing, Live,
       Leaving, LocalIs, At
  <2>4. WalkedInv'
    BY <2>1, <2>2 DEF WalkedInv, LocalIs, At
  <2>5. QED BY <2>3, <2>4
<1>3. CASE Store(p)
  <2>1. At(p, "store", "announce") /\ local' = local
    BY <1>3, GotoIs DEF Store
  <2>2. /\ producers' = [producers EXCEPT ![p] = @ \cup {local[p].prod}]
        /\ UNCHANGED <<peerMap, joined, consumers, shared, closed, made, videos>>
    BY <1>3 DEF Store, roomVars, sharing, workerVars, clientVars, history, clientDid
  <2>3. producers'[p] = producers[p] \cup {local[p].prod}
        /\ \A x \in Peers : x # p => producers'[x] = producers[x]
    BY <2>2 DEF TypeOK
  <2>4. /\ local[p].prod # None /\ Owner[local[p].prod] = p
        /\ local[p].prod \notin videos
    BY <2>1 DEF HandInv, OwnInv, Creates, At
  <2>5. ServeInv'
    BY <2>1, <2>2, ServeBasics, <2>3, <2>4 DEF ServeInv, Served, Pending, ToWalk,
       BeforeSharing, Live, Leaving, LocalIs, At
  <2>6. WalkedInv'
    BY <2>1, <2>2 DEF WalkedInv, LocalIs, At
  <2>7. QED BY <2>5, <2>6
<1>4. CASE Announce(p)
  <2>0. local[p].prod # None
    BY <1>4 DEF Announce, HandInv, Creates, Goto
  <2>1. /\ At(p, "announce", "consume")
        /\ LocalIs(p, local[p].others, local[p].visit, local[p].reading,
                   JoinedPeers(p) \X {local[p].prod}, local[p].job, local[p].prod,
                   local[p].dir, local[p].holding)
    BY <1>4, AnnounceLocal, GotoIs, <2>0
  <2>2. UNCHANGED <<peerMap, joined, producers, consumers, shared, closed, made, videos>>
    BY <1>4 DEF Announce, roomVars, sharing, workerVars, clientVars, history, clientDid
  <2>3. local[p].todo = {} /\ local[p].job = None
    BY <2>1 DEF TaskInv, Tasked, Consuming, Creating, At
  <2>4. \A x \in Peers : x \in peerMap \/ pc[x] = "gone"
    BY DEF StageInv, Staged
  <2>5. Owner[local[p].prod] = p
    BY <2>0, OwnMeans
  <2>6. ServeInv'
    BY <2>1, <2>2, ServeBasics, <2>0, <2>3, <2>4, <2>5 DEF ServeInv, Served, Pending, ToWalk,
       BeforeSharing, Live, Leaving, LocalIs, At, JoinedPeers
  <2>7. WalkedInv'
    BY <2>1, <2>2 DEF WalkedInv, LocalIs, At
  <2>8. QED BY <2>6, <2>7
<1>5. CASE Replace(p)
  <2>1. /\ At(p, "share", "replacing")
        /\ LocalIs(p, local[p].others, local[p].visit, local[p].reading, local[p].todo,
                   local[p].job, local[p].prod, local[p].dir, TRUE)
    BY <1>5, ReplaceLocal, GotoIs
  <2>2. /\ closed' = closed \cup {shared}
        /\ UNCHANGED <<peerMap, joined, producers, consumers, shared, made, videos>>
    BY <1>5 DEF Replace, roomVars, sharing, workerVars, clientVars, history, clientDid
  <2>3. ServeInv'
    BY <2>1, <2>2, ServeBasics DEF ServeInv, Served, Pending, ToWalk, BeforeSharing, Live,
       Leaving, LocalIs, At
  <2>4. WalkedInv'
    BY <2>1, <2>2 DEF WalkedInv, LocalIs, At
  <2>5. QED BY <2>3, <2>4
<1>6. CASE ReplaceAnswered(p) /\ reply[p] = "ok"
  <2>1. /\ At(p, "replacing", "announce")
        /\ LocalIs(p, local[p].others, local[p].visit, local[p].reading, local[p].todo,
                   local[p].job, local[p].prod, local[p].dir, FALSE)
    BY <1>6, ReplaceAnsweredLocal, GotoIs
  <2>2. /\ shared' = local[p].prod
        /\ UNCHANGED <<peerMap, joined, producers, consumers, closed, made, videos>>
    BY <1>6 DEF ReplaceAnswered, roomVars, sharing, workerVars, clientVars, history, clientDid
  <2>3. local[p].todo = {} /\ local[p].job = None
    BY <2>1 DEF TaskInv, Tasked, Consuming, Creating, At
  <2>4. local[p].prod # None /\ Owner[local[p].prod] = p
    BY <2>1 DEF HandInv, OwnInv, Creates, At
  <2>5. ServeInv'
    BY <2>1, <2>2, ServeBasics, <2>3, <2>4 DEF ServeInv, Served, Pending, ToWalk,
       BeforeSharing, Live, Leaving, LocalIs, At
  <2>6. WalkedInv'
    BY <2>1, <2>2 DEF WalkedInv, LocalIs, At
  <2>7. QED BY <2>5, <2>6
<1>7. CASE ReplaceAnswered(p) /\ reply[p] # "ok"
  <2>1. /\ At(p, "replacing", "leave")
        /\ LocalIs(p, {}, {}, None, {}, None, None, None, FALSE)
    BY <1>7, ReplaceAnsweredLocal, GotoIs
  <2>2. UNCHANGED <<peerMap, joined, producers, consumers, shared, closed, made, videos>>
    BY <1>7 DEF ReplaceAnswered, roomVars, sharing, workerVars, clientVars, history, clientDid
  <2>3. local[p].todo = {} /\ local[p].job = None
    BY <2>1 DEF TaskInv, Tasked, Consuming, Creating, At
  <2>4. ServeInv'
    BY <2>1, <2>2, ServeBasics, <2>3 DEF ServeInv, Served, Pending, ToWalk, BeforeSharing,
       Live, Leaving, LocalIs, At
  <2>5. WalkedInv'
    BY <2>1, <2>2 DEF WalkedInv, LocalIs, At
  <2>6. QED BY <2>4, <2>5
<1>8. CASE Attach(p)
  <2>1. At(p, "share", "announce") /\ local' = local
    BY <1>8, GotoIs DEF Attach
  <2>2. /\ shared' = local[p].prod
        /\ UNCHANGED <<peerMap, joined, producers, consumers, closed, made, videos>>
    BY <1>8 DEF Attach, roomVars, sharing, workerVars, clientVars, history, clientDid
  <2>3. local[p].todo = {} /\ local[p].job = None
    BY <2>1 DEF TaskInv, Tasked, Consuming, Creating, At
  <2>4. local[p].prod # None /\ Owner[local[p].prod] = p
    BY <2>1 DEF HandInv, OwnInv, Creates, At
  <2>5. ServeInv'
    BY <2>1, <2>2, ServeBasics, <2>3, <2>4 DEF ServeInv, Served, Pending, ToWalk,
       BeforeSharing, Live, Leaving, LocalIs, At
  <2>6. WalkedInv'
    BY <2>1, <2>2 DEF WalkedInv, LocalIs, At
  <2>7. QED BY <2>5, <2>6
<1>9. QED BY <1>1, <1>2, <1>3, <1>4, <1>5, <1>6, <1>7, <1>8 DEF ProduceStep

LEMMA CloseServe ==
  ASSUME TypeOK, HandInv, AnswerInv, LockInv, TaskInv, StageInv, OwnInv, WorkInv, StoreInv,
         SharedInv, ServeInv, WalkedInv, crashed = None, NEW p \in Peers, CloseStep(p)
  PROVE  ServeInv' /\ WalkedInv'
<1>1. ASSUME NEW m \in Producers, CloseProducer(p, m) PROVE ServeInv' /\ WalkedInv'
  <2>1. /\ At(p, "idle", "closing")
        /\ LocalIs(p, local[p].others, local[p].visit, local[p].reading, local[p].todo,
                   local[p].job, m, local[p].dir, local[p].holding)
    BY <1>1, CloseProducerLocal, GotoIs
  <2>2. /\ m \in producers[p]
        /\ UNCHANGED <<peerMap, joined, producers, consumers, shared, closed, made, videos>>
    BY <1>1 DEF CloseProducer, roomVars, sharing, workerVars, clientVars, history, clientDid
  <2>3. local[p].todo = {} /\ local[p].job = None
    BY <2>1 DEF TaskInv, Tasked, Consuming, Creating, At
  <2>4. ServeInv'
    BY <2>1, <2>2, ServeBasics, <2>3 DEF ServeInv, Served, Pending, ToWalk, BeforeSharing,
       Live, Leaving, LocalIs, At
  <2>5. WalkedInv'
    BY <2>1, <2>2 DEF WalkedInv, LocalIs, At
  <2>6. QED BY <2>4, <2>5
<1>2. ASSUME NEW m \in Producers, CloseVideo(p, m) PROVE ServeInv' /\ WalkedInv'
  <2>1. /\ At(p, "idle", "detaching")
        /\ LocalIs(p, local[p].others, local[p].visit, local[p].reading, local[p].todo,
                   local[p].job, local[p].prod, local[p].dir, TRUE)
    BY <1>2, CloseVideoLocal, GotoIs
  <2>2. /\ closed' = closed \cup {m}
        /\ UNCHANGED <<peerMap, joined, producers, consumers, shared, made, videos>>
    BY <1>2 DEF CloseVideo, roomVars, sharing, workerVars, clientVars, history, clientDid
  <2>3. ServeInv'
    BY <2>1, <2>2, ServeBasics DEF ServeInv, Served, Pending, ToWalk, BeforeSharing, Live,
       Leaving, LocalIs, At
  <2>4. WalkedInv'
    BY <2>1, <2>2 DEF WalkedInv, LocalIs, At
  <2>5. QED BY <2>3, <2>4
<1>3. CASE VideoClosed(p) /\ reply[p] = "ok"
  <2>1. /\ At(p, "detaching", "idle")
        /\ LocalIs(p, local[p].others, local[p].visit, local[p].reading, local[p].todo,
                   local[p].job, local[p].prod, local[p].dir, FALSE)
    BY <1>3, VideoClosedLocal, GotoIs
  <2>2. /\ shared' = None
        /\ UNCHANGED <<peerMap, joined, producers, consumers, closed, made, videos>>
    BY <1>3 DEF VideoClosed, roomVars, sharing, workerVars, clientVars, history, clientDid
  <2>3. ServeInv'
    BY <2>1, <2>2, ServeBasics DEF ServeInv, Served, Pending, ToWalk, BeforeSharing, Live,
       Leaving, LocalIs, At
  <2>4. WalkedInv'
    BY <2>1, <2>2 DEF WalkedInv, LocalIs, At
  <2>5. QED BY <2>3, <2>4
<1>4. ASSUME NEW m \in Producers, NullStep(p, m) PROVE ServeInv' /\ WalkedInv'
  <2>1. /\ pc[p] = "idle" /\ pc' = pc
        /\ LocalIs(p, local[p].others, local[p].visit, local[p].reading, local[p].todo,
                   local[p].job, m, local[p].dir, local[p].holding)
    BY <1>4, NullStepLocal, GotoIs
  <2>2. UNCHANGED <<peerMap, joined, producers, consumers, shared, closed, made, videos>>
    BY <1>4 DEF NullStep, CloseNull, ProduceNull, roomVars, sharing, workerVars, clientVars,
       history, clientDid
  <2>3. ServeInv'
    BY <2>1, <2>2, ServeBasics DEF ServeInv, Served, Pending, ToWalk, BeforeSharing, Live,
       Leaving, LocalIs, At
  <2>4. WalkedInv'
    BY <2>1, <2>2 DEF WalkedInv, LocalIs, At
  <2>5. QED BY <2>3, <2>4
<1>5. CASE CloseAnswered(p)
  <2>1. At(p, "closing", "erase") /\ local' = local
    BY <1>5, GotoIs DEF CloseAnswered
  <2>2. UNCHANGED <<peerMap, joined, producers, consumers, shared, closed, made, videos>>
    BY <1>5 DEF CloseAnswered, roomVars, sharing, workerVars, clientVars, history, clientDid
  <2>3. ServeInv'
    BY <2>1, <2>2, ServeBasics DEF ServeInv, Served, Pending, ToWalk, BeforeSharing, Live,
       Leaving, LocalIs, At
  <2>4. WalkedInv'
    BY <2>1, <2>2 DEF WalkedInv, LocalIs, At
  <2>5. QED BY <2>3, <2>4
<1>6. CASE Erase(p)
  <2>1. /\ At(p, "erase", "idle")
        /\ LocalIs(p, local[p].others, local[p].visit, local[p].reading, local[p].todo,
                   local[p].job, None, local[p].dir, local[p].holding)
    BY <1>6, EraseLocal, GotoIs
  <2>2. /\ producers' = [producers EXCEPT ![p] = @ \ {local[p].prod}]
        /\ UNCHANGED <<peerMap, joined, consumers, shared, closed, made, videos>>
    BY <1>6 DEF Erase, roomVars, sharing, workerVars, clientVars, history, clientDid
  <2>3. producers'[p] = producers[p] \ {local[p].prod}
        /\ \A x \in Peers : x # p => producers'[x] = producers[x]
    BY <2>2 DEF TypeOK
  <2>4. /\ local[p].prod # None /\ Owner[local[p].prod] = p
        /\ local[p].prod \notin videos
    BY <2>1 DEF HandInv, OwnInv, Creates, At
  <2>5. ServeInv'
    BY <2>1, <2>2, ServeBasics, <2>3, <2>4 DEF ServeInv, Served, Pending, ToWalk,
       BeforeSharing, Live, Leaving, LocalIs, At
  <2>6. WalkedInv'
    BY <2>1, <2>2 DEF WalkedInv, LocalIs, At
  <2>7. QED BY <2>5, <2>6
<1>7. CASE VideoClosed(p) /\ reply[p] # "ok"
  <2>1. /\ At(p, "detaching", "leave")
        /\ LocalIs(p, {}, {}, None, {}, None, None, None, FALSE)
    BY <1>7, VideoClosedLocal, GotoIs
  <2>2. UNCHANGED <<peerMap, joined, producers, consumers, shared, closed, made, videos>>
    BY <1>7 DEF VideoClosed, roomVars, sharing, workerVars, clientVars, history, clientDid
  <2>3. local[p].todo = {} /\ local[p].job = None
    BY <2>1 DEF TaskInv, Tasked, Consuming, Creating, At
  <2>4. ServeInv'
    BY <2>1, <2>2, ServeBasics, <2>3 DEF ServeInv, Served, Pending, ToWalk, BeforeSharing,
       Live, Leaving, LocalIs, At
  <2>5. WalkedInv'
    BY <2>1, <2>2 DEF WalkedInv, LocalIs, At
  <2>6. QED BY <2>4, <2>5
<1>8. ASSUME NEW m \in Producers, DetachClosed(p, m) PROVE ServeInv' /\ WalkedInv'
  <2>1. pc[p] = "idle" /\ pc' = pc /\ local' = local
    BY <1>8 DEF DetachClosed
  <2>2. /\ shared' = None /\ m = shared /\ m \in closed
        /\ UNCHANGED <<peerMap, joined, producers, consumers, closed, made, videos>>
    BY <1>8 DEF DetachClosed, roomVars, sharing, workerVars, clientVars, history, clientDid
  <2>3. ServeInv'
    BY <2>1, <2>2, ServeBasics DEF ServeInv, Served, Pending, ToWalk, BeforeSharing, Live,
       Leaving
  <2>4. WalkedInv'
    BY <2>1, <2>2 DEF WalkedInv
  <2>5. QED BY <2>3, <2>4
<1>9. QED BY <1>1, <1>2, <1>3, <1>4, <1>5, <1>6, <1>7, <1>8 DEF CloseStep

LEMMA LeaveServe ==
  ASSUME TypeOK, HandInv, AnswerInv, LockInv, TaskInv, StageInv, OwnInv, WorkInv, StoreInv,
         SharedInv, ServeInv, WalkedInv, crashed = None, NEW p \in Peers, LeaveStep(p)
  PROVE  ServeInv' /\ WalkedInv'
<1>1. CASE Leave(p)
  <2>1. At(p, "idle", "leave") /\ local' = local
    BY <1>1, GotoIs DEF Leave
  <2>2. UNCHANGED <<peerMap, joined, producers, consumers, shared, closed, made, videos>>
    BY <1>1 DEF Leave, roomVars, sharing, workerVars, clientVars, history, clientDid
  <2>3. local[p].todo = {} /\ local[p].job = None
    BY <2>1 DEF TaskInv, Tasked, Consuming, Creating, At
  <2>4. ServeInv'
    BY <2>1, <2>2, ServeBasics, <2>3 DEF ServeInv, Served, Pending, ToWalk, BeforeSharing,
       Live, Leaving, LocalIs, At
  <2>5. WalkedInv'
    BY <2>1, <2>2 DEF WalkedInv, LocalIs, At
  <2>6. QED BY <2>4, <2>5
<1>2. CASE LeaveSnapshot(p)
  <2>1. /\ At(p, "leave", "notify")
        /\ LocalIs(p, JoinedPeers(p), local[p].visit, local[p].reading, local[p].todo,
                   local[p].job, local[p].prod, local[p].dir, local[p].holding)
    BY <1>2, LeaveSnapshotLocal, GotoIs
  <2>2. UNCHANGED <<peerMap, joined, producers, consumers, shared, closed, made, videos>>
    BY <1>2 DEF LeaveSnapshot, roomVars, sharing, workerVars, clientVars, history, clientDid
  <2>3. ServeInv'
    BY <2>1, <2>2, ServeBasics DEF ServeInv, Served, Pending, ToWalk, BeforeSharing, Live,
       Leaving, LocalIs, At
  <2>4. WalkedInv'
    BY <2>1, <2>2 DEF WalkedInv, LocalIs, At
  <2>5. QED BY <2>3, <2>4
<1>3. CASE LeaveNotify(p)
  <2>1. /\ At(p, "notify", "transports")
        /\ LocalIs(p, {}, {}, None, {}, None, None, None, FALSE)
    BY <1>3, LeaveNotifyLocal, GotoIs
  <2>2. UNCHANGED <<peerMap, joined, producers, consumers, shared, closed, made, videos>>
    BY <1>3 DEF LeaveNotify, roomVars, sharing, workerVars, clientVars, history, clientDid
  <2>3. local[p].todo = {} /\ local[p].job = None
    BY <2>1 DEF TaskInv, Tasked, Consuming, Creating, At
  <2>4. ServeInv'
    BY <2>1, <2>2, ServeBasics, <2>3 DEF ServeInv, Served, Pending, ToWalk, BeforeSharing,
       Live, Leaving, LocalIs, At
  <2>5. WalkedInv'
    BY <2>1, <2>2 DEF WalkedInv, LocalIs, At
  <2>6. QED BY <2>4, <2>5
<1>4. ASSUME NEW d \in Directions, CloseTransport(p, d) PROVE ServeInv' /\ WalkedInv'
  <2>1. /\ At(p, "transports", "transport")
        /\ LocalIs(p, local[p].others, local[p].visit, local[p].reading, local[p].todo,
                   local[p].job, local[p].prod, d, local[p].holding)
    BY <1>4, CloseTransportLocal, GotoIs
  <2>2. UNCHANGED <<peerMap, joined, producers, consumers, shared, closed, made, videos>>
    BY <1>4 DEF CloseTransport, roomVars, sharing, workerVars, clientVars, history, clientDid
  <2>3. ServeInv'
    BY <2>1, <2>2, ServeBasics DEF ServeInv, Served, Pending, ToWalk, BeforeSharing, Live,
       Leaving, LocalIs, At
  <2>4. WalkedInv'
    BY <2>1, <2>2 DEF WalkedInv, LocalIs, At
  <2>5. QED BY <2>3, <2>4
<1>5. CASE TransportAnswered(p)
  <2>1. /\ At(p, "transport", "transports")
        /\ LocalIs(p, local[p].others, local[p].visit, local[p].reading, local[p].todo,
                   local[p].job, local[p].prod, None, local[p].holding)
    BY <1>5, TransportAnsweredLocal, GotoIs
  <2>2. /\ \A x \in Peers : x # p => consumers'[x] = consumers[x]
        /\ closed \subseteq closed'
        /\ UNCHANGED <<peerMap, joined, producers, shared, made, videos>>
    BY <1>5 DEF TransportAnswered, CloseVideosOf, TypeOK, roomVars, sharing, workerVars,
       clientVars, history, clientDid
  <2>3. ServeInv'
    BY <2>1, <2>2, ServeBasics DEF ServeInv, Served, Pending, ToWalk, BeforeSharing, Live,
       Leaving, LocalIs, At
  <2>4. WalkedInv'
    BY <2>1, <2>2 DEF WalkedInv, LocalIs, At
  <2>5. QED BY <2>3, <2>4
<1>6. CASE RemovePeer(p)
  <2>1. At(p, "transports", "gone") /\ local' = local
    BY <1>6, GotoIs DEF RemovePeer
  <2>2. /\ peerMap' = peerMap \ {p}
        /\ UNCHANGED <<joined, producers, consumers, shared, closed, made, videos>>
    BY <1>6 DEF RemovePeer, roomVars, sharing, workerVars, clientVars, history, clientDid
  <2>3. ServeInv'
    BY <2>1, <2>2, ServeBasics DEF ServeInv, Served, Pending, ToWalk, BeforeSharing, Live,
       Leaving, LocalIs, At
  <2>4. WalkedInv'
    BY <2>1, <2>2 DEF WalkedInv, LocalIs, At
  <2>5. QED BY <2>3, <2>4
<1>7. QED BY <1>1, <1>2, <1>3, <1>4, <1>5, <1>6 DEF LeaveStep

-----------------------------------------------------------------------------
(* The consumers                                                           *)

LEMMA ConsumerBasics ==
  ASSUME TypeOK
  PROVE  /\ \A c \in Consumer : c.peer \in Peers /\ c.maker \in Peers /\ c.prod \in Producers
         /\ None \notin Consumer /\ None \notin Producers /\ None \notin Peers
         /\ wConsumers \subseteq Consumer /\ missed \subseteq Consumer
         /\ \A x \in Peers : /\ consumers[x] \subseteq Consumer /\ told[x] \subseteq Consumer
                            /\ local[x].job \in Consumer \cup {None}
  BY NoneAssumption DEF TypeOK, Local, Consumer

\* What a handler is creating is its own to create, and it will not come to it again.
LEMMA JobMeans ==
  ASSUME TypeOK, LockInv, TaskInv, StageInv, OwnInv, NEW p \in Peers, local[p].job # None
  PROVE  LET c == local[p].job IN
           /\ c \in Consumer /\ c.maker = p /\ c.prod \in made /\ pc[p] \in Creating
           /\ <<c.peer, c.prod>> \notin local[p].todo
           /\ c.peer = p => /\ p \in joined
                            /\ c.prod \notin videos => Owner[c.prod] \notin local[p].visit
                            /\ c.prod \in videos => local[p].reading = None
<1> DEFINE c == local[p].job
<1>1. /\ c \in Consumer /\ c.peer \in Peers /\ c.prod \in Producers
  BY ConsumerBasics
<1>2. c.maker = p /\ pc[p] \in Creating /\ <<c.peer, c.prod>> \notin local[p].todo
  BY DEF TaskInv, Tasked
<1>3. Task(p, c.peer, c.prod)
  BY DEF Task
<1>4. Announcing(p) \/ Walking(p) \/ Sharing(p)
  BY <1>2 DEF TaskInv, Tasked, Creating, Consuming
<1> HIDE DEF c
<1>5. CASE Announcing(p)
  <2>1. c.peer # p /\ c.prod = local[p].prod /\ local[p].prod # None
    BY <1>1, <1>3, <1>5 DEF Announcing
  <2>2. c.prod \in made
    BY <1>2, <2>1 DEF OwnInv, Creating
  <2>3. QED BY <1>1, <1>2, <2>1, <2>2 DEF c
<1>6. CASE Walking(p) \/ Sharing(p)
  <2>1. p \in joined
    BY <1>2, <1>6 DEF Walking, Sharing, StageInv, Staged, Joining, Creating, Consuming
  <2>2. CASE Walking(p)
    <3>1. c.prod \in made /\ c.prod \notin videos /\ Owner[c.prod] = local[p].reading
      BY <1>1, <1>3, <2>2 DEF Walking
    <3>2. local[p].reading \notin local[p].visit
      BY <2>2 DEF Walking, LockInv, LocksAreReleased
    <3>3. QED BY <1>1, <1>2, <2>1, <3>1, <3>2 DEF c
  <2>3. CASE Sharing(p)
    <3>1. c.prod = shared /\ shared # None /\ local[p].reading = None
      BY <1>1, <1>3, <2>3 DEF Sharing
    <3>2. c.prod \in videos /\ c.prod \in made
      BY <3>1, Basics
    <3>3. QED BY <1>1, <1>2, <2>1, <3>1, <3>2 DEF c
  <2>4. QED BY <1>6, <2>2, <2>3
<1>7. QED BY <1>4, <1>5, <1>6

\* A step of p changes what other makers may still make in no way but by making it.
LEMMA ToComeOther ==
  ASSUME TypeOK, NEW p \in Peers,
         \A x \in Peers : x # p => pc'[x] = pc[x] /\ local'[x] = local[x],
         joined \subseteq joined', made \subseteq made',
         \A v \in made : v \in videos' <=> v \in videos
  PROVE  \A c \in Consumer : c.maker # p /\ ToCome(c)' => ToCome(c)
<1>1. SUFFICES ASSUME NEW c \in Consumer, c.maker # p, ToCome(c)', c.prod \in made
               PROVE  ToCome(c)
  BY DEF ToCome
<1>2. /\ pc'[c.maker] = pc[c.maker] /\ local'[c.maker] = local[c.maker]
      /\ c.prod \in videos' <=> c.prod \in videos
  BY <1>1, ConsumerBasics
<1>3. QED BY <1>1, <1>2 DEF ToCome, Pending, BeforeSharing

LEMMA JoinFresh ==
  ASSUME TypeOK, HandInv, LockInv, TaskInv, StageInv, OwnInv, FreshInv, PlaceInv, crashed = None, NEW p \in Peers, JoinStep(p)
  PROVE  FreshInv' /\ PlaceInv'
<1>1. CASE Join(p)
  <2>1. At(p, "idle", "caps") /\ local' = local
    BY <1>1, GotoIs DEF Join
  <2>2. /\ joined' = joined \cup {p}
        /\ p \in peerMap \ joined
        /\ UNCHANGED <<peerMap, producers, consumers, shared, told, made, videos>>
    BY <1>1 DEF Join, roomVars, sharing, workerVars, clientVars, history, clientDid
  <2>3. FreshInv'
    BY <2>1, <2>2, ConsumerBasics DEF FreshInv, ToCome, Pending, Used, BeforeSharing,
       Creates, LocalIs, At
  <2>4. PlaceInv'
    BY <2>1, <2>2, ConsumerBasics DEF PlaceInv, LocalIs, At
  <2>5. QED BY <2>3, <2>4
<1>2. CASE JoinSnapshot(p)
  <2>1. /\ At(p, "caps", "accept")
        /\ LocalIs(p, JoinedPeers(p), JoinedPeers(p), local[p].reading, local[p].todo,
                   local[p].job, local[p].prod, local[p].dir, local[p].holding)
    BY <1>2, JoinSnapshotLocal, GotoIs
  <2>2. UNCHANGED <<peerMap, joined, producers, consumers, shared, told, made, videos>>
    BY <1>2 DEF JoinSnapshot, roomVars, sharing, workerVars, clientVars, history, clientDid
  <2>3. FreshInv'
    <3>1. \A x \in Peers : x # p => pc'[x] = pc[x] /\ local'[x] = local[x]
      BY <2>1 DEF At, LocalIs
    <3>2. /\ joined \subseteq joined' /\ made \subseteq made'
          /\ \A v \in made : v \in videos' <=> v \in videos
      BY <2>2
    <3>3. ASSUME NEW c \in Consumer, c.maker = p, ToCome(c)' PROVE ToCome(c)
      BY <2>1, <2>2, <3>3, ConsumerBasics DEF ToCome, Pending, BeforeSharing, Creates, At,
         LocalIs
    <3>4. \A c \in Consumer : Used(c)' => Used(c)
      BY <2>2, ConsumerBasics DEF Used
    <3>5. QED BY <3>1, <3>2, <3>3, <3>4, ToComeOther DEF FreshInv
  <2>4. PlaceInv'
    BY <2>1, <2>2, ConsumerBasics DEF PlaceInv, LocalIs, At
  <2>5. QED BY <2>3, <2>4
<1>3. CASE JoinAccept(p)
  <2>1. At(p, "accept", "visit") /\ local' = local
    BY <1>3, GotoIs DEF JoinAccept
  <2>2. UNCHANGED <<peerMap, joined, producers, consumers, shared, told, made, videos>>
    BY <1>3 DEF JoinAccept, roomVars, sharing, workerVars, clientVars, history, clientDid
  <2>3. FreshInv'
    BY <2>1, <2>2, ConsumerBasics DEF FreshInv, ToCome, Pending, Used, BeforeSharing,
       Creates, LocalIs, At
  <2>4. PlaceInv'
    BY <2>1, <2>2, ConsumerBasics DEF PlaceInv, LocalIs, At
  <2>5. QED BY <2>3, <2>4
<1>4. ASSUME Visit(p), NEW q \in local[p].visit, Visits(p, q) PROVE FreshInv' /\ PlaceInv'
  <2>2. UNCHANGED <<peerMap, joined, producers, consumers, shared, told, made, videos>>
    BY <1>4 DEF Visit, roomVars, sharing, workerVars, clientVars, history, clientDid
  <2>3. q \in Peers /\ q # None
    BY <1>4, NoneAssumption DEF TypeOK, Local
  <2>4. \A m \in producers[q] : Owner[m] = q /\ m \notin videos
    BY <2>3 DEF OwnInv
  <2>5. FreshInv'
    BY <1>4, <2>2, ConsumerBasics, <2>3, <2>4 DEF FreshInv, ToCome, Pending, Used,
       BeforeSharing, Creates, LocalIs, At, Visits
  <2>6. PlaceInv'
    BY <1>4, <2>2, ConsumerBasics DEF PlaceInv, LocalIs, At, Visits
  <2>7. QED BY <2>5, <2>6
<1>5. CASE JoinSharing(p) /\ VideoShared
  <2>1. /\ At(p, "visit", "consume")
        /\ LocalIs(p, local[p].others, local[p].visit, local[p].reading, {<<p,
                   shared>>}, local[p].job, local[p].prod, local[p].dir, TRUE)
    BY <1>5, JoinSharingLocal, GotoIs
  <2>2. /\ local[p].visit = {} /\ VideoShared
        /\ UNCHANGED <<peerMap, joined, producers, consumers, shared, told, made, videos>>
    BY <1>5 DEF JoinSharing, roomVars, sharing, workerVars, clientVars, history, clientDid
  <2>3. FreshInv'
    <3>1. \A x \in Peers : x # p => pc'[x] = pc[x] /\ local'[x] = local[x]
      BY <2>1 DEF At, LocalIs
    <3>2. /\ joined \subseteq joined' /\ made \subseteq made'
          /\ \A v \in made : v \in videos' <=> v \in videos
      BY <2>2
    <3>3. shared \in videos
      BY <2>2, Basics DEF VideoShared
    <3>4. ASSUME NEW c \in Consumer, c.maker = p, ToCome(c)' PROVE ToCome(c)
      BY <2>1, <2>2, <3>4, ConsumerBasics, <3>3 DEF ToCome, Pending, BeforeSharing, Creates,
         At, LocalIs
    <3>5. \A c \in Consumer : Used(c)' => Used(c)
      BY <2>2, ConsumerBasics DEF Used
    <3>6. QED BY <3>1, <3>2, <3>4, <3>5, ToComeOther DEF FreshInv
  <2>4. PlaceInv'
    BY <2>1, <2>2, ConsumerBasics DEF PlaceInv, LocalIs, At
  <2>5. QED BY <2>3, <2>4
<1>6. CASE JoinSharing(p) /\ ~VideoShared
  <2>1. At(p, "visit", "newPeer") /\ local' = local
    BY <1>6, GotoIs DEF JoinSharing
  <2>2. UNCHANGED <<peerMap, joined, producers, consumers, shared, told, made, videos>>
    BY <1>6 DEF JoinSharing, roomVars, sharing, workerVars, clientVars, history, clientDid
  <2>3. FreshInv'
    BY <2>1, <2>2, ConsumerBasics DEF FreshInv, ToCome, Pending, Used, BeforeSharing,
       Creates, LocalIs, At
  <2>4. PlaceInv'
    BY <2>1, <2>2, ConsumerBasics DEF PlaceInv, LocalIs, At
  <2>5. QED BY <2>3, <2>4
<1>7. CASE JoinDone(p)
  <2>1. /\ At(p, "newPeer", "idle")
        /\ LocalIs(p, {}, {}, None, {}, None, None, None, FALSE)
    BY <1>7, JoinDoneLocal, GotoIs
  <2>2. UNCHANGED <<peerMap, joined, producers, consumers, shared, told, made, videos>>
    BY <1>7 DEF JoinDone, roomVars, sharing, workerVars, clientVars, history, clientDid
  <2>3. FreshInv'
    BY <2>1, <2>2, ConsumerBasics DEF FreshInv, ToCome, Pending, Used, BeforeSharing,
       Creates, LocalIs, At
  <2>4. PlaceInv'
    BY <2>1, <2>2, ConsumerBasics DEF PlaceInv, LocalIs, At
  <2>5. QED BY <2>3, <2>4
<1>8. QED BY <1>1, <1>2, <1>3, <1>4, <1>5, <1>6, <1>7, VisitLocal DEF JoinStep

LEMMA ConsumeFresh ==
  ASSUME TypeOK, HandInv, LockInv, TaskInv, StageInv, OwnInv, FreshInv, PlaceInv, crashed = None, NEW p \in Peers, ConsumeStep(p)
  PROVE  FreshInv' /\ PlaceInv'
<1>1. ASSUME CanConsume(p), NEW w \in local[p].todo, Skip(p, w) PROVE FreshInv' /\ PlaceInv'
  <2>2. UNCHANGED <<peerMap, joined, producers, consumers, shared, told, made, videos>>
    BY <1>1 DEF CanConsume, roomVars, sharing, workerVars, clientVars, history, clientDid
  <2>3. FreshInv'
    <3>1. \A x \in Peers : x # p => pc'[x] = pc[x] /\ local'[x] = local[x]
      BY <1>1 DEF At, LocalIs, Skip
    <3>2. /\ joined \subseteq joined' /\ made \subseteq made'
          /\ \A v \in made : v \in videos' <=> v \in videos
      BY <2>2
    <3>3. ASSUME NEW c \in Consumer, c.maker = p, ToCome(c)' PROVE ToCome(c)
      BY <1>1, <2>2, <3>3, ConsumerBasics DEF ToCome, Pending, BeforeSharing, Creates, At,
         LocalIs, Skip
    <3>4. \A c \in Consumer : Used(c)' => Used(c)
      BY <2>2, ConsumerBasics DEF Used
    <3>5. QED BY <3>1, <3>2, <3>3, <3>4, ToComeOther DEF FreshInv
  <2>4. PlaceInv'
    BY <1>1, <2>2, ConsumerBasics DEF PlaceInv, LocalIs, At, Skip
  <2>5. QED BY <2>3, <2>4
<1>2. ASSUME CanConsume(p), NEW w \in local[p].todo, Take(p, w) PROVE FreshInv' /\ PlaceInv'
  <2>2. UNCHANGED <<peerMap, joined, producers, consumers, shared, told, made, videos>>
    BY <1>2 DEF CanConsume, roomVars, sharing, workerVars, clientVars, history, clientDid
  <2>3. FreshInv'
    <3>1. \A x \in Peers : x # p => pc'[x] = pc[x] /\ local'[x] = local[x]
      BY <1>2 DEF At, LocalIs, Take
    <3>2. /\ joined \subseteq joined' /\ made \subseteq made'
          /\ \A v \in made : v \in videos' <=> v \in videos
      BY <2>2
    <3>3. w \in Peers \X Producers /\ w = <<w[1], w[2]>>
      BY <1>2 DEF TypeOK, Local
    <3>4. ASSUME NEW c \in Consumer, c.maker = p, ToCome(c)' PROVE ToCome(c)
      BY <1>2, <2>2, <3>4, ConsumerBasics, <3>3 DEF ToCome, Pending, BeforeSharing, Creates,
         At, LocalIs, Take
    <3>5. \A c \in Consumer : Used(c)' => Used(c)
      BY <2>2, ConsumerBasics DEF Used
    <3>6. QED BY <3>1, <3>2, <3>4, <3>5, ToComeOther DEF FreshInv
  <2>4. PlaceInv'
    BY <1>2, <2>2, ConsumerBasics DEF PlaceInv, LocalIs, At, Take
  <2>5. QED BY <2>3, <2>4
<1>3. CASE ConsumeDone(p)
  <2>1. /\ At(p, "consume", IF local[p].holding THEN "newPeer" ELSE IF local[p].reading = None THEN "idle" ELSE "visit")
        /\ LocalIs(p, local[p].others, local[p].visit, None, local[p].todo,
                   local[p].job, None, local[p].dir, FALSE)
    BY <1>3, ConsumeDoneLocal, GotoIs
  <2>2. UNCHANGED <<peerMap, joined, producers, consumers, shared, told, made, videos>>
    BY <1>3 DEF ConsumeDone, roomVars, sharing, workerVars, clientVars, history, clientDid
  <2>3. local[p].job = None
    BY <2>1 DEF TaskInv, Tasked, Consuming, Creating, At
  <2>4. FreshInv'
    BY <2>1, <2>2, ConsumerBasics, <2>3 DEF FreshInv, ToCome, Pending, Used, BeforeSharing,
       Creates, LocalIs, At
  <2>5. PlaceInv'
    BY <2>1, <2>2, ConsumerBasics DEF PlaceInv, LocalIs, At
  <2>6. QED BY <2>4, <2>5
<1>4. CASE ConsumeNull(p)
  <2>1. pc[p] = "request" /\ pc' = pc /\ local' = local
    BY <1>4 DEF ConsumeNull
  <2>2. UNCHANGED <<peerMap, joined, producers, consumers, shared, told, made, videos>>
    BY <1>4 DEF ConsumeNull, roomVars, sharing, workerVars, clientVars, history, clientDid
  <2>3. FreshInv'
    BY <2>1, <2>2, ConsumerBasics DEF FreshInv, ToCome, Pending, Used, BeforeSharing,
       Creates, LocalIs, At
  <2>4. PlaceInv'
    BY <2>1, <2>2, ConsumerBasics DEF PlaceInv, LocalIs, At
  <2>5. QED BY <2>3, <2>4
<1>5. CASE Consume(p)
  <2>1. At(p, "request", "consuming") /\ local' = local
    BY <1>5, GotoIs DEF Consume
  <2>2. UNCHANGED <<peerMap, joined, producers, consumers, shared, told, made, videos>>
    BY <1>5 DEF Consume, roomVars, sharing, workerVars, clientVars, history, clientDid
  <2>3. FreshInv'
    BY <2>1, <2>2, ConsumerBasics DEF FreshInv, ToCome, Pending, Used, BeforeSharing,
       Creates, LocalIs, At
  <2>4. PlaceInv'
    BY <2>1, <2>2, ConsumerBasics DEF PlaceInv, LocalIs, At
  <2>5. QED BY <2>3, <2>4
<1>6. CASE ConsumeAnswered(p) /\ reply[p] = "ok"
  <2>1. At(p, "consuming", "emplace") /\ local' = local
    BY <1>6, GotoIs DEF ConsumeAnswered
  <2>2. UNCHANGED <<peerMap, joined, producers, consumers, shared, told, made, videos>>
    BY <1>6 DEF ConsumeAnswered, roomVars, sharing, workerVars, clientVars, history, clientDid
  <2>3. FreshInv'
    BY <2>1, <2>2, ConsumerBasics DEF FreshInv, ToCome, Pending, Used, BeforeSharing,
       Creates, LocalIs, At
  <2>4. PlaceInv'
    BY <2>1, <2>2, ConsumerBasics DEF PlaceInv, LocalIs, At
  <2>5. QED BY <2>3, <2>4
<1>7. CASE ConsumeAnswered(p) /\ reply[p] # "ok"
  <2>1. /\ At(p, "consuming", "leave")
        /\ LocalIs(p, {}, {}, None, {}, None, None, None, FALSE)
    BY <1>7, ConsumeAnsweredLocal, GotoIs
  <2>2. UNCHANGED <<peerMap, joined, producers, consumers, shared, told, made, videos>>
    BY <1>7 DEF ConsumeAnswered, roomVars, sharing, workerVars, clientVars, history, clientDid
  <2>3. FreshInv'
    BY <2>1, <2>2, ConsumerBasics DEF FreshInv, ToCome, Pending, Used, BeforeSharing,
       Creates, LocalIs, At
  <2>4. PlaceInv'
    BY <2>1, <2>2, ConsumerBasics DEF PlaceInv, LocalIs, At
  <2>5. QED BY <2>3, <2>4
<1>8. CASE Emplace(p)
  <2>1. At(p, "emplace", "tell") /\ local' = local
    BY <1>8, GotoIs DEF Emplace
  <2>2. /\ consumers' = [consumers EXCEPT ![local[p].job.peer] = @ \cup {local[p].job}]
        /\ UNCHANGED <<peerMap, joined, producers, shared, told, made, videos>>
    BY <1>8 DEF Emplace, roomVars, sharing, workerVars, clientVars, history, clientDid
  <2>3. local[p].job # None
    BY <2>1 DEF HandInv, Creating, At
  <2>4. LET c == local[p].job IN
          /\ c \in Consumer /\ c.maker = p /\ c.prod \in made
          /\ <<c.peer, c.prod>> \notin local[p].todo
          /\ c.peer = p => /\ p \in joined
                           /\ c.prod \notin videos => Owner[c.prod] \notin local[p].visit
                           /\ c.prod \in videos => local[p].reading = None
    BY <2>3, JobMeans
  <2>5. \A x \in Peers, c \in Consumer : c \in consumers'[x] =>
          c \in consumers[x] \/ c = local[p].job
    BY <2>2, <2>4, ConsumerBasics DEF TypeOK
  <2>6. ~ToCome(local[p].job)'
    BY <2>1, <2>2, <2>4 DEF ToCome, Pending, BeforeSharing, Creates, LocalIs, At
  <2>7. \A c \in Consumer : ToCome(c)' => ToCome(c)
    BY <2>1, <2>2, ConsumerBasics DEF ToCome, Pending, BeforeSharing, Creates, LocalIs, At
  <2>8. FreshInv'
    BY <2>1, <2>2, ConsumerBasics, <2>3, <2>4, <2>5, <2>6, <2>7 DEF FreshInv, ToCome,
       Pending, Used, BeforeSharing, Creates, LocalIs, At
  <2>9. local[p].job # None
    BY <2>1 DEF HandInv, Creating, At
  <2>10. LET c == local[p].job IN
          /\ c \in Consumer /\ c.maker = p /\ c.prod \in made
          /\ <<c.peer, c.prod>> \notin local[p].todo
          /\ c.peer = p => /\ p \in joined
                           /\ c.prod \notin videos => Owner[c.prod] \notin local[p].visit
                           /\ c.prod \in videos => local[p].reading = None
    BY <2>9, JobMeans
  <2>11. \A x \in Peers, c \in Consumer : c \in consumers'[x] =>
          c \in consumers[x] \/ (c = local[p].job /\ x = c.peer)
    BY <2>2, <2>10, ConsumerBasics DEF TypeOK
  <2>12. ToCome(local[p].job)
    BY <2>1, <2>9, <2>10 DEF ToCome, Pending, At
  <2>13. local[p].job \notin told[local[p].job.peer]
    BY <2>10, <2>12 DEF FreshInv, Used
  <2>14. PlaceInv'
    BY <2>1, <2>2, ConsumerBasics, <2>9, <2>10, <2>11, <2>12, <2>13 DEF PlaceInv, LocalIs, At
  <2>15. QED BY <2>8, <2>14
<1>9. CASE Tell(p)
  <2>1. /\ At(p, "tell", "consume")
        /\ LocalIs(p, local[p].others, local[p].visit, local[p].reading, local[p].todo,
                   None, local[p].prod, local[p].dir, local[p].holding)
    BY <1>9, TellLocal, GotoIs
  <2>2. /\ told' = [told EXCEPT ![local[p].job.peer] = @ \cup {local[p].job}]
        /\ UNCHANGED <<peerMap, joined, producers, consumers, shared, made, videos>>
    BY <1>9 DEF Tell, roomVars, sharing, workerVars, clientVars, history, clientDid
  <2>3. FreshInv'
    <3>1. local[p].job # None
      BY <2>1 DEF HandInv, Creating, At
    <3>2. LET c == local[p].job IN
            /\ c \in Consumer /\ c.maker = p /\ c.prod \in made
            /\ <<c.peer, c.prod>> \notin local[p].todo
            /\ c.peer = p => /\ p \in joined
                             /\ c.prod \notin videos => Owner[c.prod] \notin local[p].visit
                             /\ c.prod \in videos => local[p].reading = None
      BY <3>1, JobMeans
    <3>3. \A c \in Consumer : Used(c)' => Used(c) \/ c = local[p].job
      BY <2>2, <3>2, ConsumerBasics DEF TypeOK, Used
    <3>4. \A x \in Peers : x # p => pc'[x] = pc[x] /\ local'[x] = local[x]
      BY <2>1 DEF At, LocalIs
    <3>5. ASSUME NEW c \in Consumer, c.maker = p, ToCome(c)' PROVE ToCome(c)
      BY <2>1, <2>2, <3>5, ConsumerBasics DEF ToCome, Pending, BeforeSharing, Creates, At,
         LocalIs
    <3>6. ASSUME NEW c \in Consumer, c = local[p].job PROVE ~ToCome(c)'
      <4>1. c.maker = p /\ c.prod \in made'
        BY <2>2, <3>2, <3>6
      <4>2. ~Pending(p, c.peer, c.prod)'
        <5>1. local'[p].job = None /\ local'[p].todo = local[p].todo
          BY <2>1 DEF LocalIs
        <5>2. QED BY <3>2, <3>6, <5>1 DEF Pending
      <4>3. pc'[p] = "consume" /\ local'[p].visit = local[p].visit
            /\ local'[p].reading = local[p].reading
        BY <2>1 DEF At, LocalIs
      <4>4. c.peer = p =>
              /\ p \in joined'
              /\ c.prod \notin videos' => Owner[c.prod] \notin local'[p].visit
              /\ c.prod \in videos' => ~BeforeSharing(p)'
        BY <2>2, <3>2, <3>6, <4>3 DEF BeforeSharing
      <4>5. QED BY <4>1, <4>2, <4>3, <4>4 DEF ToCome, Creates
    <3>7. QED BY <2>2, <3>3, <3>4, <3>5, <3>6, ToComeOther DEF FreshInv
  <2>4. local[p].job # None
    BY <2>1 DEF HandInv, Creating, At
  <2>5. LET c == local[p].job IN
          /\ c \in Consumer /\ c.maker = p /\ c.prod \in made
          /\ <<c.peer, c.prod>> \notin local[p].todo
          /\ c.peer = p => /\ p \in joined
                           /\ c.prod \notin videos => Owner[c.prod] \notin local[p].visit
                           /\ c.prod \in videos => local[p].reading = None
    BY <2>4, JobMeans
  <2>6. \A x \in Peers, c \in Consumer : c \in told'[x] =>
          c \in told[x] \/ (c = local[p].job /\ x = c.peer)
    BY <2>2, <2>5, ConsumerBasics DEF TypeOK
  <2>7. \A x \in Peers : pc[x] = "tell" => local[x].job \in Consumer /\ local[x].job.maker = x
    BY JobMeans DEF HandInv, Creating
  <2>8. PlaceInv'
    BY <2>1, <2>2, ConsumerBasics, <2>4, <2>5, <2>6, <2>7 DEF PlaceInv, LocalIs, At
  <2>9. QED BY <2>3, <2>8
<1>10. QED BY <1>1, <1>2, <1>3, <1>4, <1>5, <1>6, <1>7, <1>8, <1>9,
              CanConsumeLocal DEF ConsumeStep

LEMMA ProduceFresh ==
  ASSUME TypeOK, HandInv, LockInv, TaskInv, StageInv, OwnInv, FreshInv, PlaceInv, crashed = None, NEW p \in Peers, ProduceStep(p)
  PROVE  FreshInv' /\ PlaceInv'
<1>1. ASSUME NEW m \in Producers, Produce(p, m) PROVE FreshInv' /\ PlaceInv'
  <2>1. /\ At(p, "idle", "producing")
        /\ LocalIs(p, local[p].others, local[p].visit, local[p].reading, local[p].todo,
                   local[p].job, m, local[p].dir, local[p].holding)
    BY <1>1, ProduceLocal, GotoIs
  <2>2. /\ videos' \in {videos, videos \cup {m}}
        /\ p \in joined /\ Owner[m] = p /\ m \notin made
        /\ made' = made \cup {m}
        /\ UNCHANGED <<peerMap, joined, producers, consumers, shared, told>>
    BY <1>1 DEF Produce, roomVars, sharing, workerVars, clientVars, history, clientDid
  <2>3. FreshInv'
    <3>1. \A x \in Peers : x # p => pc'[x] = pc[x] /\ local'[x] = local[x]
      BY <2>1 DEF At, LocalIs
    <3>2. /\ joined \subseteq joined' /\ made \subseteq made'
          /\ \A v \in made : v \in videos' <=> v \in videos
      BY <2>2
    <3>3. ASSUME NEW c \in Consumer, c.maker = p, ToCome(c)' PROVE ToCome(c)
      BY <2>1, <2>2, <3>3, ConsumerBasics DEF ToCome, Pending, BeforeSharing, Creates, At,
         LocalIs
    <3>4. \A c \in Consumer : Used(c)' => Used(c)
      BY <2>2, ConsumerBasics DEF Used
    <3>5. QED BY <3>1, <3>2, <3>3, <3>4, ToComeOther DEF FreshInv
  <2>4. PlaceInv'
    BY <2>1, <2>2, ConsumerBasics DEF PlaceInv, LocalIs, At
  <2>5. QED BY <2>3, <2>4
<1>2. CASE ProduceAnswered(p)
  <2>1. At(p, "producing", IF local[p].prod \in videos THEN "share" ELSE "store") /\ local' = local
    BY <1>2, GotoIs DEF ProduceAnswered
  <2>2. UNCHANGED <<peerMap, joined, producers, consumers, shared, told, made, videos>>
    BY <1>2 DEF ProduceAnswered, roomVars, sharing, workerVars, clientVars, history, clientDid
  <2>3. FreshInv'
    BY <2>1, <2>2, ConsumerBasics DEF FreshInv, ToCome, Pending, Used, BeforeSharing,
       Creates, LocalIs, At
  <2>4. PlaceInv'
    BY <2>1, <2>2, ConsumerBasics DEF PlaceInv, LocalIs, At
  <2>5. QED BY <2>3, <2>4
<1>3. CASE Store(p)
  <2>1. At(p, "store", "announce") /\ local' = local
    BY <1>3, GotoIs DEF Store
  <2>2. /\ producers' = [producers EXCEPT ![p] = @ \cup {local[p].prod}]
        /\ UNCHANGED <<peerMap, joined, consumers, shared, told, made, videos>>
    BY <1>3 DEF Store, roomVars, sharing, workerVars, clientVars, history, clientDid
  <2>3. FreshInv'
    BY <2>1, <2>2, ConsumerBasics DEF FreshInv, ToCome, Pending, Used, BeforeSharing,
       Creates, LocalIs, At
  <2>4. PlaceInv'
    BY <2>1, <2>2, ConsumerBasics DEF PlaceInv, LocalIs, At
  <2>5. QED BY <2>3, <2>4
<1>4. CASE Announce(p)
  <2>0. local[p].prod # None
    BY <1>4 DEF Announce, HandInv, Creates, Goto
  <2>1. /\ At(p, "announce", "consume")
        /\ LocalIs(p, local[p].others, local[p].visit, local[p].reading,
                   JoinedPeers(p) \X {local[p].prod}, local[p].job, local[p].prod,
                   local[p].dir, local[p].holding)
    BY <1>4, AnnounceLocal, GotoIs, <2>0
  <2>2. UNCHANGED <<peerMap, joined, producers, consumers, shared, told, made, videos>>
    BY <1>4 DEF Announce, roomVars, sharing, workerVars, clientVars, history, clientDid
  <2>3. FreshInv'
    <3>1. \A x \in Peers : x # p => pc'[x] = pc[x] /\ local'[x] = local[x]
      BY <2>1 DEF At, LocalIs
    <3>2. /\ joined \subseteq joined' /\ made \subseteq made'
          /\ \A v \in made : v \in videos' <=> v \in videos
      BY <2>2
    <3>3. /\ \A x \in JoinedPeers(p) : x # p
          /\ Owner[local[p].prod] = p
      BY <2>0, OwnMeans DEF JoinedPeers
    <3>4. ASSUME NEW c \in Consumer, c.maker = p, ToCome(c)' PROVE ToCome(c)
      BY <2>1, <2>2, <3>4, ConsumerBasics, <3>3 DEF ToCome, Pending, BeforeSharing, Creates,
         At, LocalIs
    <3>5. \A c \in Consumer : Used(c)' => Used(c)
      BY <2>2, ConsumerBasics DEF Used
    <3>6. QED BY <3>1, <3>2, <3>4, <3>5, ToComeOther DEF FreshInv
  <2>4. PlaceInv'
    BY <2>1, <2>2, ConsumerBasics DEF PlaceInv, LocalIs, At
  <2>5. QED BY <2>3, <2>4
<1>5. CASE Replace(p)
  <2>1. /\ At(p, "share", "replacing")
        /\ LocalIs(p, local[p].others, local[p].visit, local[p].reading, local[p].todo,
                   local[p].job, local[p].prod, local[p].dir, TRUE)
    BY <1>5, ReplaceLocal, GotoIs
  <2>2. UNCHANGED <<peerMap, joined, producers, consumers, shared, told, made, videos>>
    BY <1>5 DEF Replace, roomVars, sharing, workerVars, clientVars, history, clientDid
  <2>3. FreshInv'
    <3>1. \A x \in Peers : x # p => pc'[x] = pc[x] /\ local'[x] = local[x]
      BY <2>1 DEF At, LocalIs
    <3>2. /\ joined \subseteq joined' /\ made \subseteq made'
          /\ \A v \in made : v \in videos' <=> v \in videos
      BY <2>2
    <3>3. ASSUME NEW c \in Consumer, c.maker = p, ToCome(c)' PROVE ToCome(c)
      BY <2>1, <2>2, <3>3, ConsumerBasics DEF ToCome, Pending, BeforeSharing, Creates, At,
         LocalIs
    <3>4. \A c \in Consumer : Used(c)' => Used(c)
      BY <2>2, ConsumerBasics DEF Used
    <3>5. QED BY <3>1, <3>2, <3>3, <3>4, ToComeOther DEF FreshInv
  <2>4. PlaceInv'
    BY <2>1, <2>2, ConsumerBasics DEF PlaceInv, LocalIs, At
  <2>5. QED BY <2>3, <2>4
<1>6. CASE ReplaceAnswered(p) /\ reply[p] = "ok"
  <2>1. /\ At(p, "replacing", "announce")
        /\ LocalIs(p, local[p].others, local[p].visit, local[p].reading, local[p].todo,
                   local[p].job, local[p].prod, local[p].dir, FALSE)
    BY <1>6, ReplaceAnsweredLocal, GotoIs
  <2>2. /\ shared' = local[p].prod
        /\ UNCHANGED <<peerMap, joined, producers, consumers, told, made, videos>>
    BY <1>6 DEF ReplaceAnswered, roomVars, sharing, workerVars, clientVars, history, clientDid
  <2>3. FreshInv'
    <3>1. \A x \in Peers : x # p => pc'[x] = pc[x] /\ local'[x] = local[x]
      BY <2>1 DEF At, LocalIs
    <3>2. /\ joined \subseteq joined' /\ made \subseteq made'
          /\ \A v \in made : v \in videos' <=> v \in videos
      BY <2>2
    <3>3. ASSUME NEW c \in Consumer, c.maker = p, ToCome(c)' PROVE ToCome(c)
      BY <2>1, <2>2, <3>3, ConsumerBasics DEF ToCome, Pending, BeforeSharing, Creates, At,
         LocalIs
    <3>4. \A c \in Consumer : Used(c)' => Used(c)
      BY <2>2, ConsumerBasics DEF Used
    <3>5. QED BY <3>1, <3>2, <3>3, <3>4, ToComeOther DEF FreshInv
  <2>4. PlaceInv'
    BY <2>1, <2>2, ConsumerBasics DEF PlaceInv, LocalIs, At
  <2>5. QED BY <2>3, <2>4
<1>7. CASE ReplaceAnswered(p) /\ reply[p] # "ok"
  <2>1. /\ At(p, "replacing", "leave")
        /\ LocalIs(p, {}, {}, None, {}, None, None, None, FALSE)
    BY <1>7, ReplaceAnsweredLocal, GotoIs
  <2>2. UNCHANGED <<peerMap, joined, producers, consumers, shared, told, made, videos>>
    BY <1>7 DEF ReplaceAnswered, roomVars, sharing, workerVars, clientVars, history, clientDid
  <2>3. FreshInv'
    BY <2>1, <2>2, ConsumerBasics DEF FreshInv, ToCome, Pending, Used, BeforeSharing,
       Creates, LocalIs, At
  <2>4. PlaceInv'
    BY <2>1, <2>2, ConsumerBasics DEF PlaceInv, LocalIs, At
  <2>5. QED BY <2>3, <2>4
<1>8. CASE Attach(p)
  <2>1. At(p, "share", "announce") /\ local' = local
    BY <1>8, GotoIs DEF Attach
  <2>2. /\ shared' = local[p].prod
        /\ UNCHANGED <<peerMap, joined, producers, consumers, told, made, videos>>
    BY <1>8 DEF Attach, roomVars, sharing, workerVars, clientVars, history, clientDid
  <2>3. FreshInv'
    BY <2>1, <2>2, ConsumerBasics DEF FreshInv, ToCome, Pending, Used, BeforeSharing,
       Creates, LocalIs, At
  <2>4. PlaceInv'
    BY <2>1, <2>2, ConsumerBasics DEF PlaceInv, LocalIs, At
  <2>5. QED BY <2>3, <2>4
<1>9. QED BY <1>1, <1>2, <1>3, <1>4, <1>5, <1>6, <1>7, <1>8 DEF ProduceStep

LEMMA CloseFresh ==
  ASSUME TypeOK, HandInv, LockInv, TaskInv, StageInv, OwnInv, FreshInv, PlaceInv, crashed = None, NEW p \in Peers, CloseStep(p)
  PROVE  FreshInv' /\ PlaceInv'
<1>1. ASSUME NEW m \in Producers, CloseProducer(p, m) PROVE FreshInv' /\ PlaceInv'
  <2>1. /\ At(p, "idle", "closing")
        /\ LocalIs(p, local[p].others, local[p].visit, local[p].reading, local[p].todo,
                   local[p].job, m, local[p].dir, local[p].holding)
    BY <1>1, CloseProducerLocal, GotoIs
  <2>2. UNCHANGED <<peerMap, joined, producers, consumers, shared, told, made, videos>>
    BY <1>1 DEF CloseProducer, roomVars, sharing, workerVars, clientVars, history, clientDid
  <2>3. FreshInv'
    <3>1. \A x \in Peers : x # p => pc'[x] = pc[x] /\ local'[x] = local[x]
      BY <2>1 DEF At, LocalIs
    <3>2. /\ joined \subseteq joined' /\ made \subseteq made'
          /\ \A v \in made : v \in videos' <=> v \in videos
      BY <2>2
    <3>3. ASSUME NEW c \in Consumer, c.maker = p, ToCome(c)' PROVE ToCome(c)
      BY <2>1, <2>2, <3>3, ConsumerBasics DEF ToCome, Pending, BeforeSharing, Creates, At,
         LocalIs
    <3>4. \A c \in Consumer : Used(c)' => Used(c)
      BY <2>2, ConsumerBasics DEF Used
    <3>5. QED BY <3>1, <3>2, <3>3, <3>4, ToComeOther DEF FreshInv
  <2>4. PlaceInv'
    BY <2>1, <2>2, ConsumerBasics DEF PlaceInv, LocalIs, At
  <2>5. QED BY <2>3, <2>4
<1>2. ASSUME NEW m \in Producers, CloseVideo(p, m) PROVE FreshInv' /\ PlaceInv'
  <2>1. /\ At(p, "idle", "detaching")
        /\ LocalIs(p, local[p].others, local[p].visit, local[p].reading, local[p].todo,
                   local[p].job, local[p].prod, local[p].dir, TRUE)
    BY <1>2, CloseVideoLocal, GotoIs
  <2>2. UNCHANGED <<peerMap, joined, producers, consumers, shared, told, made, videos>>
    BY <1>2 DEF CloseVideo, roomVars, sharing, workerVars, clientVars, history, clientDid
  <2>3. FreshInv'
    <3>1. \A x \in Peers : x # p => pc'[x] = pc[x] /\ local'[x] = local[x]
      BY <2>1 DEF At, LocalIs
    <3>2. /\ joined \subseteq joined' /\ made \subseteq made'
          /\ \A v \in made : v \in videos' <=> v \in videos
      BY <2>2
    <3>3. ASSUME NEW c \in Consumer, c.maker = p, ToCome(c)' PROVE ToCome(c)
      BY <2>1, <2>2, <3>3, ConsumerBasics DEF ToCome, Pending, BeforeSharing, Creates, At,
         LocalIs
    <3>4. \A c \in Consumer : Used(c)' => Used(c)
      BY <2>2, ConsumerBasics DEF Used
    <3>5. QED BY <3>1, <3>2, <3>3, <3>4, ToComeOther DEF FreshInv
  <2>4. PlaceInv'
    BY <2>1, <2>2, ConsumerBasics DEF PlaceInv, LocalIs, At
  <2>5. QED BY <2>3, <2>4
<1>3. CASE VideoClosed(p) /\ reply[p] = "ok"
  <2>1. /\ At(p, "detaching", "idle")
        /\ LocalIs(p, local[p].others, local[p].visit, local[p].reading, local[p].todo,
                   local[p].job, local[p].prod, local[p].dir, FALSE)
    BY <1>3, VideoClosedLocal, GotoIs
  <2>2. /\ shared' = None
        /\ UNCHANGED <<peerMap, joined, producers, consumers, told, made, videos>>
    BY <1>3 DEF VideoClosed, roomVars, sharing, workerVars, clientVars, history, clientDid
  <2>3. FreshInv'
    <3>1. \A x \in Peers : x # p => pc'[x] = pc[x] /\ local'[x] = local[x]
      BY <2>1 DEF At, LocalIs
    <3>2. /\ joined \subseteq joined' /\ made \subseteq made'
          /\ \A v \in made : v \in videos' <=> v \in videos
      BY <2>2
    <3>3. ASSUME NEW c \in Consumer, c.maker = p, ToCome(c)' PROVE ToCome(c)
      BY <2>1, <2>2, <3>3, ConsumerBasics DEF ToCome, Pending, BeforeSharing, Creates, At,
         LocalIs
    <3>4. \A c \in Consumer : Used(c)' => Used(c)
      BY <2>2, ConsumerBasics DEF Used
    <3>5. QED BY <3>1, <3>2, <3>3, <3>4, ToComeOther DEF FreshInv
  <2>4. PlaceInv'
    BY <2>1, <2>2, ConsumerBasics DEF PlaceInv, LocalIs, At
  <2>5. QED BY <2>3, <2>4
<1>4. ASSUME NEW m \in Producers, NullStep(p, m) PROVE FreshInv' /\ PlaceInv'
  <2>1. /\ pc[p] = "idle" /\ pc' = pc
        /\ LocalIs(p, local[p].others, local[p].visit, local[p].reading, local[p].todo,
                   local[p].job, m, local[p].dir, local[p].holding)
    BY <1>4, NullStepLocal, GotoIs
  <2>2. UNCHANGED <<peerMap, joined, producers, consumers, shared, told, made, videos>>
    BY <1>4 DEF NullStep, CloseNull, ProduceNull, roomVars, sharing, workerVars, clientVars,
       history, clientDid
  <2>3. FreshInv'
    <3>1. \A x \in Peers : x # p => pc'[x] = pc[x] /\ local'[x] = local[x]
      BY <2>1 DEF At, LocalIs
    <3>2. /\ joined \subseteq joined' /\ made \subseteq made'
          /\ \A v \in made : v \in videos' <=> v \in videos
      BY <2>2
    <3>3. pc[p] \notin Creates
      BY <2>1 DEF Creates
    <3>4. ASSUME NEW c \in Consumer, c.maker = p, ToCome(c)' PROVE ToCome(c)
      BY <2>1, <2>2, <3>4, ConsumerBasics, <3>3 DEF ToCome, Pending, BeforeSharing, Creates,
         At, LocalIs
    <3>5. \A c \in Consumer : Used(c)' => Used(c)
      BY <2>2, ConsumerBasics DEF Used
    <3>6. QED BY <3>1, <3>2, <3>4, <3>5, ToComeOther DEF FreshInv
  <2>4. PlaceInv'
    BY <2>1, <2>2, ConsumerBasics DEF PlaceInv, LocalIs, At
  <2>5. QED BY <2>3, <2>4
<1>5. CASE CloseAnswered(p)
  <2>1. At(p, "closing", "erase") /\ local' = local
    BY <1>5, GotoIs DEF CloseAnswered
  <2>2. UNCHANGED <<peerMap, joined, producers, consumers, shared, told, made, videos>>
    BY <1>5 DEF CloseAnswered, roomVars, sharing, workerVars, clientVars, history, clientDid
  <2>3. FreshInv'
    BY <2>1, <2>2, ConsumerBasics DEF FreshInv, ToCome, Pending, Used, BeforeSharing,
       Creates, LocalIs, At
  <2>4. PlaceInv'
    BY <2>1, <2>2, ConsumerBasics DEF PlaceInv, LocalIs, At
  <2>5. QED BY <2>3, <2>4
<1>6. CASE Erase(p)
  <2>1. /\ At(p, "erase", "idle")
        /\ LocalIs(p, local[p].others, local[p].visit, local[p].reading, local[p].todo,
                   local[p].job, None, local[p].dir, local[p].holding)
    BY <1>6, EraseLocal, GotoIs
  <2>2. /\ producers' = [producers EXCEPT ![p] = @ \ {local[p].prod}]
        /\ UNCHANGED <<peerMap, joined, consumers, shared, told, made, videos>>
    BY <1>6 DEF Erase, roomVars, sharing, workerVars, clientVars, history, clientDid
  <2>3. FreshInv'
    <3>1. \A x \in Peers : x # p => pc'[x] = pc[x] /\ local'[x] = local[x]
      BY <2>1 DEF At, LocalIs
    <3>2. /\ joined \subseteq joined' /\ made \subseteq made'
          /\ \A v \in made : v \in videos' <=> v \in videos
      BY <2>2
    <3>3. ASSUME NEW c \in Consumer, c.maker = p, ToCome(c)' PROVE ToCome(c)
      BY <2>1, <2>2, <3>3, ConsumerBasics DEF ToCome, Pending, BeforeSharing, Creates, At,
         LocalIs
    <3>4. \A c \in Consumer : Used(c)' => Used(c)
      BY <2>2, ConsumerBasics DEF Used
    <3>5. QED BY <3>1, <3>2, <3>3, <3>4, ToComeOther DEF FreshInv
  <2>4. PlaceInv'
    BY <2>1, <2>2, ConsumerBasics DEF PlaceInv, LocalIs, At
  <2>5. QED BY <2>3, <2>4
<1>7. CASE VideoClosed(p) /\ reply[p] # "ok"
  <2>1. /\ At(p, "detaching", "leave")
        /\ LocalIs(p, {}, {}, None, {}, None, None, None, FALSE)
    BY <1>7, VideoClosedLocal, GotoIs
  <2>2. UNCHANGED <<peerMap, joined, producers, consumers, shared, told, made, videos>>
    BY <1>7 DEF VideoClosed, roomVars, sharing, workerVars, clientVars, history, clientDid
  <2>3. FreshInv'
    BY <2>1, <2>2, ConsumerBasics DEF FreshInv, ToCome, Pending, Used, BeforeSharing,
       Creates, LocalIs, At
  <2>4. PlaceInv'
    BY <2>1, <2>2, ConsumerBasics DEF PlaceInv, LocalIs, At
  <2>5. QED BY <2>3, <2>4
<1>8. ASSUME NEW m \in Producers, DetachClosed(p, m) PROVE FreshInv' /\ PlaceInv'
  <2>1. pc[p] = "idle" /\ pc' = pc /\ local' = local
    BY <1>8 DEF DetachClosed
  <2>2. UNCHANGED <<peerMap, joined, producers, consumers, told, made, videos>>
    BY <1>8 DEF DetachClosed, roomVars, sharing, workerVars, clientVars, history, clientDid
  <2>3. FreshInv'
    <3>1. \A x \in Peers : x # p => pc'[x] = pc[x] /\ local'[x] = local[x]
      BY <2>1
    <3>2. /\ joined \subseteq joined' /\ made \subseteq made'
          /\ \A v \in made : v \in videos' <=> v \in videos
      BY <2>2
    <3>3. pc[p] \notin Creates
      BY <2>1 DEF Creates
    <3>4. ASSUME NEW c \in Consumer, c.maker = p, ToCome(c)' PROVE ToCome(c)
      BY <2>1, <2>2, <3>4, ConsumerBasics, <3>3 DEF ToCome, Pending, BeforeSharing, Creates
    <3>5. \A c \in Consumer : Used(c)' => Used(c)
      BY <2>2, ConsumerBasics DEF Used
    <3>6. QED BY <3>1, <3>2, <3>4, <3>5, ToComeOther DEF FreshInv
  <2>4. PlaceInv'
    BY <2>1, <2>2, ConsumerBasics DEF PlaceInv
  <2>5. QED BY <2>3, <2>4
<1>9. QED BY <1>1, <1>2, <1>3, <1>4, <1>5, <1>6, <1>7, <1>8 DEF CloseStep

LEMMA LeaveFresh ==
  ASSUME TypeOK, HandInv, LockInv, TaskInv, StageInv, OwnInv, FreshInv, PlaceInv, crashed = None, NEW p \in Peers, LeaveStep(p)
  PROVE  FreshInv' /\ PlaceInv'
<1>1. CASE Leave(p)
  <2>1. At(p, "idle", "leave") /\ local' = local
    BY <1>1, GotoIs DEF Leave
  <2>2. UNCHANGED <<peerMap, joined, producers, consumers, shared, told, made, videos>>
    BY <1>1 DEF Leave, roomVars, sharing, workerVars, clientVars, history, clientDid
  <2>3. FreshInv'
    BY <2>1, <2>2, ConsumerBasics DEF FreshInv, ToCome, Pending, Used, BeforeSharing,
       Creates, LocalIs, At
  <2>4. PlaceInv'
    BY <2>1, <2>2, ConsumerBasics DEF PlaceInv, LocalIs, At
  <2>5. QED BY <2>3, <2>4
<1>2. CASE LeaveSnapshot(p)
  <2>1. /\ At(p, "leave", "notify")
        /\ LocalIs(p, JoinedPeers(p), local[p].visit, local[p].reading, local[p].todo,
                   local[p].job, local[p].prod, local[p].dir, local[p].holding)
    BY <1>2, LeaveSnapshotLocal, GotoIs
  <2>2. UNCHANGED <<peerMap, joined, producers, consumers, shared, told, made, videos>>
    BY <1>2 DEF LeaveSnapshot, roomVars, sharing, workerVars, clientVars, history, clientDid
  <2>3. FreshInv'
    <3>1. \A x \in Peers : x # p => pc'[x] = pc[x] /\ local'[x] = local[x]
      BY <2>1 DEF At, LocalIs
    <3>2. /\ joined \subseteq joined' /\ made \subseteq made'
          /\ \A v \in made : v \in videos' <=> v \in videos
      BY <2>2
    <3>3. ASSUME NEW c \in Consumer, c.maker = p, ToCome(c)' PROVE ToCome(c)
      BY <2>1, <2>2, <3>3, ConsumerBasics DEF ToCome, Pending, BeforeSharing, Creates, At,
         LocalIs
    <3>4. \A c \in Consumer : Used(c)' => Used(c)
      BY <2>2, ConsumerBasics DEF Used
    <3>5. QED BY <3>1, <3>2, <3>3, <3>4, ToComeOther DEF FreshInv
  <2>4. PlaceInv'
    BY <2>1, <2>2, ConsumerBasics DEF PlaceInv, LocalIs, At
  <2>5. QED BY <2>3, <2>4
<1>3. CASE LeaveNotify(p)
  <2>1. /\ At(p, "notify", "transports")
        /\ LocalIs(p, {}, {}, None, {}, None, None, None, FALSE)
    BY <1>3, LeaveNotifyLocal, GotoIs
  <2>2. UNCHANGED <<peerMap, joined, producers, consumers, shared, told, made, videos>>
    BY <1>3 DEF LeaveNotify, roomVars, sharing, workerVars, clientVars, history, clientDid
  <2>3. FreshInv'
    BY <2>1, <2>2, ConsumerBasics DEF FreshInv, ToCome, Pending, Used, BeforeSharing,
       Creates, LocalIs, At
  <2>4. PlaceInv'
    BY <2>1, <2>2, ConsumerBasics DEF PlaceInv, LocalIs, At
  <2>5. QED BY <2>3, <2>4
<1>4. ASSUME NEW d \in Directions, CloseTransport(p, d) PROVE FreshInv' /\ PlaceInv'
  <2>1. /\ At(p, "transports", "transport")
        /\ LocalIs(p, local[p].others, local[p].visit, local[p].reading, local[p].todo,
                   local[p].job, local[p].prod, d, local[p].holding)
    BY <1>4, CloseTransportLocal, GotoIs
  <2>2. UNCHANGED <<peerMap, joined, producers, consumers, shared, told, made, videos>>
    BY <1>4 DEF CloseTransport, roomVars, sharing, workerVars, clientVars, history, clientDid
  <2>3. FreshInv'
    <3>1. \A x \in Peers : x # p => pc'[x] = pc[x] /\ local'[x] = local[x]
      BY <2>1 DEF At, LocalIs
    <3>2. /\ joined \subseteq joined' /\ made \subseteq made'
          /\ \A v \in made : v \in videos' <=> v \in videos
      BY <2>2
    <3>3. ASSUME NEW c \in Consumer, c.maker = p, ToCome(c)' PROVE ToCome(c)
      BY <2>1, <2>2, <3>3, ConsumerBasics DEF ToCome, Pending, BeforeSharing, Creates, At,
         LocalIs
    <3>4. \A c \in Consumer : Used(c)' => Used(c)
      BY <2>2, ConsumerBasics DEF Used
    <3>5. QED BY <3>1, <3>2, <3>3, <3>4, ToComeOther DEF FreshInv
  <2>4. PlaceInv'
    BY <2>1, <2>2, ConsumerBasics DEF PlaceInv, LocalIs, At
  <2>5. QED BY <2>3, <2>4
<1>5. CASE TransportAnswered(p)
  <2>1. /\ At(p, "transport", "transports")
        /\ LocalIs(p, local[p].others, local[p].visit, local[p].reading, local[p].todo,
                   local[p].job, local[p].prod, None, local[p].holding)
    BY <1>5, TransportAnsweredLocal, GotoIs
  <2>2. /\ \A x \in Peers : consumers'[x] \subseteq consumers[x]
        /\ UNCHANGED <<peerMap, joined, producers, shared, told, made, videos>>
    BY <1>5 DEF TransportAnswered, TypeOK, roomVars, sharing, workerVars, clientVars,
       history, clientDid
  <2>3. FreshInv'
    <3>1. \A x \in Peers : x # p => pc'[x] = pc[x] /\ local'[x] = local[x]
      BY <2>1 DEF At, LocalIs
    <3>2. /\ joined \subseteq joined' /\ made \subseteq made'
          /\ \A v \in made : v \in videos' <=> v \in videos
      BY <2>2
    <3>3. ASSUME NEW c \in Consumer, c.maker = p, ToCome(c)' PROVE ToCome(c)
      BY <2>1, <2>2, <3>3, ConsumerBasics DEF ToCome, Pending, BeforeSharing, Creates, At,
         LocalIs
    <3>4. \A c \in Consumer : Used(c)' => Used(c)
      BY <2>2, ConsumerBasics DEF Used
    <3>5. QED BY <3>1, <3>2, <3>3, <3>4, ToComeOther DEF FreshInv
  <2>4. PlaceInv'
    BY <2>1, <2>2, ConsumerBasics DEF PlaceInv, LocalIs, At
  <2>5. QED BY <2>3, <2>4
<1>6. CASE RemovePeer(p)
  <2>1. At(p, "transports", "gone") /\ local' = local
    BY <1>6, GotoIs DEF RemovePeer
  <2>2. /\ peerMap' = peerMap \ {p}
        /\ UNCHANGED <<joined, producers, consumers, shared, told, made, videos>>
    BY <1>6 DEF RemovePeer, roomVars, sharing, workerVars, clientVars, history, clientDid
  <2>3. FreshInv'
    BY <2>1, <2>2, ConsumerBasics DEF FreshInv, ToCome, Pending, Used, BeforeSharing,
       Creates, LocalIs, At
  <2>4. PlaceInv'
    BY <2>1, <2>2, ConsumerBasics DEF PlaceInv, LocalIs, At
  <2>5. QED BY <2>3, <2>4
<1>7. QED BY <1>1, <1>2, <1>3, <1>4, <1>5, <1>6 DEF LeaveStep

LEMMA ClosingResponds ==
  ASSUME TypeOK, NEW p \in Peers, NEW ok \in BOOLEAN, NEW S \in SUBSET Consumer,
         Respond(p, S, ok)
  PROVE  \A c \in Consumer : Closing(c)' <=> Closing(c) \/ c \in S
  BY RespondMeans DEF TypeOK

LEMMA NoneClosing ==
  ASSUME TypeOK, NEW p \in Peers, NEW ok \in BOOLEAN, Respond(p, {}, ok)
  PROVE  \A c \in Consumer : Closing(c)' <=> Closing(c)
<1> DEFINE S == {}
<1>1. S \in SUBSET Consumer /\ Respond(p, S, ok)
  OBVIOUS
<1> HIDE DEF S
<1>2. \A c \in Consumer : Closing(c)' <=> Closing(c) \/ c \in S
  BY <1>1, ClosingResponds
<1>3. QED BY <1>2 DEF S

LEMMA JoinMirror ==
  ASSUME TypeOK, HandInv, AnswerInv, LockInv, TaskInv, StageInv, OwnInv, WorkInv,
         PlaceInv, ClosedInv, WorkerInv, HeldInv, JobInv, crashed = None, NEW p \in Peers, JoinStep(p)
  PROVE  ClosedInv' /\ WorkerInv' /\ HeldInv' /\ JobInv'
<1>1. CASE Join(p)
  <2>1. At(p, "idle", "caps") /\ local' = local
    BY <1>1, GotoIs DEF Join
  <2>2. UNCHANGED <<wTransports, wProducers, wConsumers, consumers, told, missed, made>>
    BY <1>1 DEF Join, roomVars, sharing, workerVars, clientVars, history, clientDid
  <2>3. inbox' = inbox /\ reply' = reply
    BY <1>1 DEF Join
  <2>4. \A x \in Peers : Refused(x)' <=> Refused(x)
    BY <2>3, RefusedStays
  <2>5. \A c : Closing(c)' <=> Closing(c)
    BY <2>3, InboxStays
  <2>6. ClosedInv'
    BY <2>1, <2>2, <2>5, ConsumerBasics DEF ClosedInv, ConsumersOf
  <2>7. WorkerInv'
    BY <2>1, <2>2, ConsumerBasics DEF WorkerInv, Lost, ConsumersOf, LocalIs, At
  <2>8. HeldInv'
    BY <2>1, <2>2, <2>5, ConsumerBasics DEF HeldInv, Lost, ConsumersOf
  <2>9. \A x \in Peers : pc[x] \in Creating =>
          local[x].job \in Consumer /\ local[x].job.prod \in made
    BY JobMeans DEF HandInv
  <2>10. JobInv'
    BY <2>1, <2>2, <2>4, <2>5, ConsumerBasics, <2>9 DEF JobInv, Lost, ConsumersOf, LocalIs,
       At, Creating
  <2>11. QED BY <2>6, <2>7, <2>8, <2>10
<1>2. CASE JoinSnapshot(p)
  <2>1. /\ At(p, "caps", "accept")
        /\ LocalIs(p, JoinedPeers(p), JoinedPeers(p), local[p].reading, local[p].todo,
                   local[p].job, local[p].prod, local[p].dir, local[p].holding)
    BY <1>2, JoinSnapshotLocal, GotoIs
  <2>2. UNCHANGED <<wTransports, wProducers, wConsumers, consumers, told, missed, made>>
    BY <1>2 DEF JoinSnapshot, roomVars, sharing, workerVars, clientVars, history, clientDid
  <2>3. inbox' = inbox /\ reply' = reply
    BY <1>2 DEF JoinSnapshot
  <2>4. \A x \in Peers : Refused(x)' <=> Refused(x)
    BY <2>3, RefusedStays
  <2>5. \A c : Closing(c)' <=> Closing(c)
    BY <2>3, InboxStays
  <2>6. ClosedInv'
    BY <2>1, <2>2, <2>5, ConsumerBasics DEF ClosedInv, ConsumersOf
  <2>7. WorkerInv'
    <3>1. \A c \in Consumer : c.maker # p =>
            pc'[c.maker] = pc[c.maker] /\ local'[c.maker].job = local[c.maker].job
      BY <2>1, ConsumerBasics DEF At, LocalIs
    <3>2. \A c \in wConsumers : c.maker = p => c \in consumers[c.peer]
      BY <2>1 DEF WorkerInv, At, LocalIs
    <3>3. QED BY <2>2, <3>1, <3>2, ConsumerBasics DEF WorkerInv, Lost, ConsumersOf
  <2>8. HeldInv'
    BY <2>1, <2>2, <2>5, ConsumerBasics DEF HeldInv, Lost, ConsumersOf
  <2>9. \A x \in Peers : pc[x] \in Creating =>
          local[x].job \in Consumer /\ local[x].job.prod \in made
    BY JobMeans DEF HandInv
  <2>10. JobInv'
    BY <2>1, <2>2, <2>4, <2>5, ConsumerBasics, <2>9 DEF JobInv, Lost, ConsumersOf, LocalIs,
       At, Creating
  <2>11. QED BY <2>6, <2>7, <2>8, <2>10
<1>3. CASE JoinAccept(p)
  <2>1. At(p, "accept", "visit") /\ local' = local
    BY <1>3, GotoIs DEF JoinAccept
  <2>2. UNCHANGED <<wTransports, wProducers, wConsumers, consumers, told, missed, made>>
    BY <1>3 DEF JoinAccept, roomVars, sharing, workerVars, clientVars, history, clientDid
  <2>3. inbox' = inbox /\ reply' = reply
    BY <1>3 DEF JoinAccept
  <2>4. \A x \in Peers : Refused(x)' <=> Refused(x)
    BY <2>3, RefusedStays
  <2>5. \A c : Closing(c)' <=> Closing(c)
    BY <2>3, InboxStays
  <2>6. ClosedInv'
    BY <2>1, <2>2, <2>5, ConsumerBasics DEF ClosedInv, ConsumersOf
  <2>7. WorkerInv'
    BY <2>1, <2>2, ConsumerBasics DEF WorkerInv, Lost, ConsumersOf, LocalIs, At
  <2>8. HeldInv'
    BY <2>1, <2>2, <2>5, ConsumerBasics DEF HeldInv, Lost, ConsumersOf
  <2>9. \A x \in Peers : pc[x] \in Creating =>
          local[x].job \in Consumer /\ local[x].job.prod \in made
    BY JobMeans DEF HandInv
  <2>10. JobInv'
    BY <2>1, <2>2, <2>4, <2>5, ConsumerBasics, <2>9 DEF JobInv, Lost, ConsumersOf, LocalIs,
       At, Creating
  <2>11. QED BY <2>6, <2>7, <2>8, <2>10
<1>4. ASSUME Visit(p), NEW q \in local[p].visit, Visits(p, q) PROVE ClosedInv' /\ WorkerInv' /\ HeldInv' /\ JobInv'
  <2>2. UNCHANGED <<wTransports, wProducers, wConsumers, consumers, told, missed, made>>
    BY <1>4 DEF Visit, roomVars, sharing, workerVars, clientVars, history, clientDid
  <2>3. inbox' = inbox /\ reply' = reply
    BY <1>4 DEF Visit
  <2>4. \A x \in Peers : Refused(x)' <=> Refused(x)
    BY <2>3, RefusedStays
  <2>5. \A c : Closing(c)' <=> Closing(c)
    BY <2>3, InboxStays
  <2>6. ClosedInv'
    BY <1>4, <2>2, <2>5, ConsumerBasics DEF ClosedInv, ConsumersOf, Visits
  <2>7. WorkerInv'
    BY <1>4, <2>2, ConsumerBasics DEF WorkerInv, Lost, ConsumersOf, LocalIs, At, Visits
  <2>8. HeldInv'
    BY <1>4, <2>2, <2>5, ConsumerBasics DEF HeldInv, Lost, ConsumersOf, Visits
  <2>9. \A x \in Peers : pc[x] \in Creating =>
          local[x].job \in Consumer /\ local[x].job.prod \in made
    BY JobMeans DEF HandInv
  <2>10. JobInv'
    BY <1>4, <2>2, <2>4, <2>5, ConsumerBasics, <2>9 DEF JobInv, Lost, ConsumersOf, LocalIs,
       At, Creating, Visits
  <2>11. QED BY <2>6, <2>7, <2>8, <2>10
<1>5. CASE JoinSharing(p) /\ VideoShared
  <2>1. /\ At(p, "visit", "consume")
        /\ LocalIs(p, local[p].others, local[p].visit, local[p].reading, {<<p,
                   shared>>}, local[p].job, local[p].prod, local[p].dir, TRUE)
    BY <1>5, JoinSharingLocal, GotoIs
  <2>2. UNCHANGED <<wTransports, wProducers, wConsumers, consumers, told, missed, made>>
    BY <1>5 DEF JoinSharing, roomVars, sharing, workerVars, clientVars, history, clientDid
  <2>3. inbox' = inbox /\ reply' = reply
    BY <1>5 DEF JoinSharing
  <2>4. \A x \in Peers : Refused(x)' <=> Refused(x)
    BY <2>3, RefusedStays
  <2>5. \A c : Closing(c)' <=> Closing(c)
    BY <2>3, InboxStays
  <2>6. ClosedInv'
    BY <2>1, <2>2, <2>5, ConsumerBasics DEF ClosedInv, ConsumersOf
  <2>7. WorkerInv'
    <3>1. \A c \in Consumer : c.maker # p =>
            pc'[c.maker] = pc[c.maker] /\ local'[c.maker].job = local[c.maker].job
      BY <2>1, ConsumerBasics DEF At, LocalIs
    <3>2. \A c \in wConsumers : c.maker = p => c \in consumers[c.peer]
      BY <2>1 DEF WorkerInv, At, LocalIs
    <3>3. QED BY <2>2, <3>1, <3>2, ConsumerBasics DEF WorkerInv, Lost, ConsumersOf
  <2>8. HeldInv'
    BY <2>1, <2>2, <2>5, ConsumerBasics DEF HeldInv, Lost, ConsumersOf
  <2>9. \A x \in Peers : pc[x] \in Creating =>
          local[x].job \in Consumer /\ local[x].job.prod \in made
    BY JobMeans DEF HandInv
  <2>10. JobInv'
    BY <2>1, <2>2, <2>4, <2>5, ConsumerBasics, <2>9 DEF JobInv, Lost, ConsumersOf, LocalIs,
       At, Creating
  <2>11. QED BY <2>6, <2>7, <2>8, <2>10
<1>6. CASE JoinSharing(p) /\ ~VideoShared
  <2>1. At(p, "visit", "newPeer") /\ local' = local
    BY <1>6, GotoIs DEF JoinSharing
  <2>2. UNCHANGED <<wTransports, wProducers, wConsumers, consumers, told, missed, made>>
    BY <1>6 DEF JoinSharing, roomVars, sharing, workerVars, clientVars, history, clientDid
  <2>3. inbox' = inbox /\ reply' = reply
    BY <1>6 DEF JoinSharing
  <2>4. \A x \in Peers : Refused(x)' <=> Refused(x)
    BY <2>3, RefusedStays
  <2>5. \A c : Closing(c)' <=> Closing(c)
    BY <2>3, InboxStays
  <2>6. ClosedInv'
    BY <2>1, <2>2, <2>5, ConsumerBasics DEF ClosedInv, ConsumersOf
  <2>7. WorkerInv'
    BY <2>1, <2>2, ConsumerBasics DEF WorkerInv, Lost, ConsumersOf, LocalIs, At
  <2>8. HeldInv'
    BY <2>1, <2>2, <2>5, ConsumerBasics DEF HeldInv, Lost, ConsumersOf
  <2>9. \A x \in Peers : pc[x] \in Creating =>
          local[x].job \in Consumer /\ local[x].job.prod \in made
    BY JobMeans DEF HandInv
  <2>10. JobInv'
    BY <2>1, <2>2, <2>4, <2>5, ConsumerBasics, <2>9 DEF JobInv, Lost, ConsumersOf, LocalIs,
       At, Creating
  <2>11. QED BY <2>6, <2>7, <2>8, <2>10
<1>7. CASE JoinDone(p)
  <2>1. /\ At(p, "newPeer", "idle")
        /\ LocalIs(p, {}, {}, None, {}, None, None, None, FALSE)
    BY <1>7, JoinDoneLocal, GotoIs
  <2>2. UNCHANGED <<wTransports, wProducers, wConsumers, consumers, told, missed, made>>
    BY <1>7 DEF JoinDone, roomVars, sharing, workerVars, clientVars, history, clientDid
  <2>3. inbox' = inbox /\ reply' = reply
    BY <1>7 DEF JoinDone
  <2>4. \A x \in Peers : Refused(x)' <=> Refused(x)
    BY <2>3, RefusedStays
  <2>5. \A c : Closing(c)' <=> Closing(c)
    BY <2>3, InboxStays
  <2>6. ClosedInv'
    BY <2>1, <2>2, <2>5, ConsumerBasics DEF ClosedInv, ConsumersOf
  <2>7. WorkerInv'
    BY <2>1, <2>2, ConsumerBasics DEF WorkerInv, Lost, ConsumersOf, LocalIs, At
  <2>8. HeldInv'
    BY <2>1, <2>2, <2>5, ConsumerBasics DEF HeldInv, Lost, ConsumersOf
  <2>9. \A x \in Peers : pc[x] \in Creating =>
          local[x].job \in Consumer /\ local[x].job.prod \in made
    BY JobMeans DEF HandInv
  <2>10. JobInv'
    BY <2>1, <2>2, <2>4, <2>5, ConsumerBasics, <2>9 DEF JobInv, Lost, ConsumersOf, LocalIs,
       At, Creating
  <2>11. QED BY <2>6, <2>7, <2>8, <2>10
<1>8. QED BY <1>1, <1>2, <1>3, <1>4, <1>5, <1>6, <1>7, VisitLocal DEF JoinStep

LEMMA ConsumeMirror ==
  ASSUME TypeOK, HandInv, AnswerInv, LockInv, TaskInv, StageInv, OwnInv, WorkInv,
         PlaceInv, ClosedInv, WorkerInv, HeldInv, JobInv, crashed = None, NEW p \in Peers, ConsumeStep(p)
  PROVE  ClosedInv' /\ WorkerInv' /\ HeldInv' /\ JobInv'
<1>1. ASSUME CanConsume(p), NEW w \in local[p].todo, Skip(p, w) PROVE ClosedInv' /\ WorkerInv' /\ HeldInv' /\ JobInv'
  <2>2. UNCHANGED <<wTransports, wProducers, wConsumers, consumers, told, missed, made>>
    BY <1>1 DEF CanConsume, roomVars, sharing, workerVars, clientVars, history, clientDid
  <2>3. inbox' = inbox /\ reply' = reply
    BY <1>1 DEF CanConsume
  <2>4. \A x \in Peers : Refused(x)' <=> Refused(x)
    BY <2>3, RefusedStays
  <2>5. \A c : Closing(c)' <=> Closing(c)
    BY <2>3, InboxStays
  <2>6. ClosedInv'
    BY <1>1, <2>2, <2>5, ConsumerBasics DEF ClosedInv, ConsumersOf, Skip
  <2>7. WorkerInv'
    <3>1. \A c \in Consumer : c.maker # p =>
            pc'[c.maker] = pc[c.maker] /\ local'[c.maker].job = local[c.maker].job
      BY <1>1, ConsumerBasics DEF At, LocalIs, Skip
    <3>2. \A c \in wConsumers : c.maker = p => c \in consumers[c.peer]
      BY <1>1 DEF WorkerInv, At, LocalIs, Skip
    <3>3. QED BY <2>2, <3>1, <3>2, ConsumerBasics DEF WorkerInv, Lost, ConsumersOf
  <2>8. HeldInv'
    BY <1>1, <2>2, <2>5, ConsumerBasics DEF HeldInv, Lost, ConsumersOf, Skip
  <2>9. \A x \in Peers : pc[x] \in Creating =>
          local[x].job \in Consumer /\ local[x].job.prod \in made
    BY JobMeans DEF HandInv
  <2>10. JobInv'
    BY <1>1, <2>2, <2>4, <2>5, ConsumerBasics, <2>9 DEF JobInv, Lost, ConsumersOf, LocalIs,
       At, Creating, Skip
  <2>11. QED BY <2>6, <2>7, <2>8, <2>10
<1>2. ASSUME CanConsume(p), NEW w \in local[p].todo, Take(p, w) PROVE ClosedInv' /\ WorkerInv' /\ HeldInv' /\ JobInv'
  <2>2. UNCHANGED <<wTransports, wProducers, wConsumers, consumers, told, missed, made>>
    BY <1>2 DEF CanConsume, roomVars, sharing, workerVars, clientVars, history, clientDid
  <2>3. inbox' = inbox /\ reply' = reply
    BY <1>2 DEF CanConsume
  <2>4. \A x \in Peers : Refused(x)' <=> Refused(x)
    BY <2>3, RefusedStays
  <2>5. \A c : Closing(c)' <=> Closing(c)
    BY <2>3, InboxStays
  <2>6. ClosedInv'
    BY <1>2, <2>2, <2>5, ConsumerBasics DEF ClosedInv, ConsumersOf, Take
  <2>7. WorkerInv'
    BY <1>2, <2>2, ConsumerBasics DEF WorkerInv, Lost, ConsumersOf, LocalIs, At, Take
  <2>8. HeldInv'
    BY <1>2, <2>2, <2>5, ConsumerBasics DEF HeldInv, Lost, ConsumersOf, Take
  <2>9. \A x \in Peers : pc[x] \in Creating =>
          local[x].job \in Consumer /\ local[x].job.prod \in made
    BY JobMeans DEF HandInv
  <2>10. JobInv'
    BY <1>2, <2>2, <2>4, <2>5, ConsumerBasics, <2>9 DEF JobInv, Lost, ConsumersOf, LocalIs,
       At, Creating, Take
  <2>11. QED BY <2>6, <2>7, <2>8, <2>10
<1>3. CASE ConsumeDone(p)
  <2>1. /\ At(p, "consume", IF local[p].holding THEN "newPeer" ELSE IF local[p].reading = None THEN "idle" ELSE "visit")
        /\ LocalIs(p, local[p].others, local[p].visit, None, local[p].todo,
                   local[p].job, None, local[p].dir, FALSE)
    BY <1>3, ConsumeDoneLocal, GotoIs
  <2>2. UNCHANGED <<wTransports, wProducers, wConsumers, consumers, told, missed, made>>
    BY <1>3 DEF ConsumeDone, roomVars, sharing, workerVars, clientVars, history, clientDid
  <2>3. inbox' = inbox /\ reply' = reply
    BY <1>3 DEF ConsumeDone
  <2>4. \A x \in Peers : Refused(x)' <=> Refused(x)
    BY <2>3, RefusedStays
  <2>5. \A c : Closing(c)' <=> Closing(c)
    BY <2>3, InboxStays
  <2>6. ClosedInv'
    BY <2>1, <2>2, <2>5, ConsumerBasics DEF ClosedInv, ConsumersOf
  <2>7. WorkerInv'
    BY <2>1, <2>2, ConsumerBasics DEF WorkerInv, Lost, ConsumersOf, LocalIs, At
  <2>8. HeldInv'
    BY <2>1, <2>2, <2>5, ConsumerBasics DEF HeldInv, Lost, ConsumersOf
  <2>9. \A x \in Peers : pc[x] \in Creating =>
          local[x].job \in Consumer /\ local[x].job.prod \in made
    BY JobMeans DEF HandInv
  <2>10. JobInv'
    BY <2>1, <2>2, <2>4, <2>5, ConsumerBasics, <2>9 DEF JobInv, Lost, ConsumersOf, LocalIs,
       At, Creating
  <2>11. QED BY <2>6, <2>7, <2>8, <2>10
<1>4. CASE ConsumeNull(p)
  <2>1. pc[p] = "request" /\ pc' = pc /\ local' = local
    BY <1>4 DEF ConsumeNull
  <2>2. UNCHANGED <<wTransports, wProducers, wConsumers, consumers, told, missed, made>>
    BY <1>4 DEF ConsumeNull, roomVars, sharing, workerVars, clientVars, history, clientDid
  <2>3. inbox' = inbox /\ reply' = reply
    BY <1>4 DEF ConsumeNull
  <2>4. \A x \in Peers : Refused(x)' <=> Refused(x)
    BY <2>3, RefusedStays
  <2>5. \A c : Closing(c)' <=> Closing(c)
    BY <2>3, InboxStays
  <2>6. ClosedInv'
    BY <2>1, <2>2, <2>5, ConsumerBasics DEF ClosedInv, ConsumersOf
  <2>7. WorkerInv'
    BY <2>1, <2>2, ConsumerBasics DEF WorkerInv, Lost, ConsumersOf, LocalIs, At
  <2>8. HeldInv'
    BY <2>1, <2>2, <2>5, ConsumerBasics DEF HeldInv, Lost, ConsumersOf
  <2>9. \A x \in Peers : pc[x] \in Creating =>
          local[x].job \in Consumer /\ local[x].job.prod \in made
    BY JobMeans DEF HandInv
  <2>10. JobInv'
    BY <2>1, <2>2, <2>4, <2>5, ConsumerBasics, <2>9 DEF JobInv, Lost, ConsumersOf, LocalIs,
       At, Creating
  <2>11. QED BY <2>6, <2>7, <2>8, <2>10
<1>5. CASE Consume(p)
  <2>1. At(p, "request", "consuming") /\ local' = local
    BY <1>5, GotoIs DEF Consume
  <2>2. /\ wConsumers' = IF <<local[p].job.peer, "recv">> \in wTransports /\ local[p].job.prod \in wProducers
                         THEN wConsumers \cup {local[p].job} ELSE wConsumers
        /\ UNCHANGED <<wTransports, wProducers, consumers, told, missed, made>>
    BY <1>5 DEF Consume, roomVars, sharing, workerVars, clientVars, history, clientDid
  <2>3. Respond(p, {}, <<local[p].job.peer, "recv">> \in wTransports /\ local[p].job.prod \in wProducers) /\ reply' = reply
    BY <1>5 DEF Consume
  <2>4. \A x \in Peers : Refused(x)' <=> Refused(x) \/ (x = p /\ ~(<<local[p].job.peer, "recv">> \in wTransports /\ local[p].job.prod \in wProducers))
    BY <2>3, RefusedResponds
  <2>5. ~Refused(p)
    BY <2>1, NotRefused DEF At, Waiting
  <2>6. \A c \in Consumer : Closing(c)' <=> Closing(c)
    BY <2>3, NoneClosing
  <2>7. ClosedInv'
    BY <2>1, <2>2, <2>6, ConsumerBasics DEF ClosedInv, ConsumersOf
  <2>8. local[p].job # None
    BY <2>1 DEF HandInv, Creating, At
  <2>9. local[p].job \in Consumer /\ local[p].job.maker = p
    BY <2>8, JobMeans
  <2>10. WorkerInv'
    BY <2>1, <2>2, ConsumerBasics, <2>8, <2>9 DEF WorkerInv, Lost, ConsumersOf, LocalIs, At
  <2>11. HeldInv'
    BY <2>1, <2>2, <2>6, ConsumerBasics DEF HeldInv, Lost, ConsumersOf
  <2>12. \A x \in Peers : pc[x] \in Creating =>
          local[x].job \in Consumer /\ local[x].job.prod \in made
    BY JobMeans DEF HandInv
  <2>13. JobInv'
    BY <2>1, <2>2, <2>4, <2>5, <2>6, ConsumerBasics, <2>12 DEF JobInv, Lost, ConsumersOf,
       LocalIs, At, Creating
  <2>14. QED BY <2>7, <2>10, <2>11, <2>13
<1>6. CASE ConsumeAnswered(p) /\ reply[p] = "ok"
  <2>1. At(p, "consuming", "emplace") /\ local' = local
    BY <1>6, GotoIs DEF ConsumeAnswered
  <2>2. UNCHANGED <<wTransports, wProducers, wConsumers, consumers, told, missed, made>>
    BY <1>6 DEF ConsumeAnswered, roomVars, sharing, workerVars, clientVars, history, clientDid
  <2>3. Answered(p) /\ inbox' = inbox
    BY <1>6 DEF ConsumeAnswered
  <2>4. \A x \in Peers : x # p => (Refused(x)' <=> Refused(x))
    BY <2>3, RefusedAnswered
  <2>5. \A c : Closing(c)' <=> Closing(c)
    BY <2>3, InboxStays
  <2>6. ClosedInv'
    BY <2>1, <2>2, <2>5, ConsumerBasics DEF ClosedInv, ConsumersOf
  <2>7. WorkerInv'
    BY <2>1, <2>2, ConsumerBasics DEF WorkerInv, Lost, ConsumersOf, LocalIs, At
  <2>8. HeldInv'
    BY <2>1, <2>2, <2>5, ConsumerBasics DEF HeldInv, Lost, ConsumersOf
  <2>9. \A x \in Peers : pc[x] \in Creating =>
          local[x].job \in Consumer /\ local[x].job.prod \in made
    BY JobMeans DEF HandInv
  <2>10. ~Refused(p)
    BY <1>6 DEF ConsumeAnswered, Answered, AnswerInv, Refused, Refusing, Outstanding
  <2>11. JobInv'
    BY <2>1, <2>2, <2>4, <2>5, ConsumerBasics, <2>9, <2>10 DEF JobInv, Lost, ConsumersOf,
       LocalIs, At, Creating
  <2>12. QED BY <2>6, <2>7, <2>8, <2>11
<1>7. CASE ConsumeAnswered(p) /\ reply[p] # "ok"
  <2>1. /\ At(p, "consuming", "leave")
        /\ LocalIs(p, {}, {}, None, {}, None, None, None, FALSE)
    BY <1>7, ConsumeAnsweredLocal, GotoIs
  <2>2. UNCHANGED <<wTransports, wProducers, wConsumers, consumers, told, missed, made>>
    BY <1>7 DEF ConsumeAnswered, roomVars, sharing, workerVars, clientVars, history, clientDid
  <2>3. Answered(p) /\ inbox' = inbox
    BY <1>7 DEF ConsumeAnswered
  <2>4. \A x \in Peers : x # p => (Refused(x)' <=> Refused(x))
    BY <2>3, RefusedAnswered
  <2>5. \A c : Closing(c)' <=> Closing(c)
    BY <2>3, InboxStays
  <2>6. ClosedInv'
    BY <2>1, <2>2, <2>5, ConsumerBasics DEF ClosedInv, ConsumersOf
  <2>7. WorkerInv'
    <3>1. \A c \in Consumer : c.maker # p =>
            pc'[c.maker] = pc[c.maker] /\ local'[c.maker].job = local[c.maker].job
      BY <2>1, ConsumerBasics DEF At, LocalIs
    <3>2. Refused(p)
      BY <1>7 DEF ConsumeAnswered, Answered, Refused, TypeOK
    <3>3. local[p].job \notin wConsumers
      BY <2>1, <3>2 DEF JobInv, WorkerInv, At
    <3>4. \A c \in wConsumers : c.maker = p => c \in consumers[c.peer]
      BY <3>3 DEF WorkerInv
    <3>5. QED BY <2>2, <3>1, <3>2, <3>3, <3>4, ConsumerBasics DEF WorkerInv, Lost, ConsumersOf
  <2>8. HeldInv'
    BY <2>1, <2>2, <2>5, ConsumerBasics DEF HeldInv, Lost, ConsumersOf
  <2>9. \A x \in Peers : pc[x] \in Creating =>
          local[x].job \in Consumer /\ local[x].job.prod \in made
    BY JobMeans DEF HandInv
  <2>10. JobInv'
    BY <2>1, <2>2, <2>4, <2>5, ConsumerBasics, <2>9 DEF JobInv, Lost, ConsumersOf, LocalIs,
       At, Creating
  <2>11. QED BY <2>6, <2>7, <2>8, <2>10
<1>8. CASE Emplace(p)
  <2>1. At(p, "emplace", "tell") /\ local' = local
    BY <1>8, GotoIs DEF Emplace
  <2>2. /\ consumers' = [consumers EXCEPT ![local[p].job.peer] = @ \cup {local[p].job}]
        /\ UNCHANGED <<wTransports, wProducers, wConsumers, told, missed, made>>
    BY <1>8 DEF Emplace, roomVars, sharing, workerVars, clientVars, history, clientDid
  <2>3. inbox' = inbox /\ reply' = reply
    BY <1>8 DEF Emplace
  <2>4. \A x \in Peers : Refused(x)' <=> Refused(x)
    BY <2>3, RefusedStays
  <2>5. \A c : Closing(c)' <=> Closing(c)
    BY <2>3, InboxStays
  <2>6. ClosedInv'
    BY <2>1, <2>2, <2>5, ConsumerBasics DEF ClosedInv, ConsumersOf
  <2>7. WorkerInv'
    <3>1. \A c \in Consumer : c.maker # p =>
            pc'[c.maker] = pc[c.maker] /\ local'[c.maker].job = local[c.maker].job
      BY <2>1, ConsumerBasics DEF At, LocalIs
    <3>2. local[p].job # None
      BY <2>1 DEF HandInv, Creating, At
    <3>3. LET c == local[p].job IN
            /\ c \in Consumer /\ c.maker = p /\ c.prod \in made
            /\ <<c.peer, c.prod>> \notin local[p].todo
            /\ c.peer = p => /\ p \in joined
                             /\ c.prod \notin videos => Owner[c.prod] \notin local[p].visit
                             /\ c.prod \in videos => local[p].reading = None
      BY <3>2, JobMeans
    <3>4. /\ local[p].job \in consumers'[local[p].job.peer]
          /\ \A y \in Peers : consumers[y] \subseteq consumers'[y]
      BY <2>2, <3>3, ConsumerBasics DEF TypeOK
    <3>5. \A c \in wConsumers : c.maker = p => c \in consumers'[c.peer]
      BY <3>4, ConsumerBasics DEF WorkerInv
    <3>6. QED BY <2>2, <3>1, <3>2, <3>3, <3>4, <3>5, ConsumerBasics DEF WorkerInv, Lost,
                 ConsumersOf
  <2>8. local[p].job # None
    BY <2>1 DEF HandInv, Creating, At
  <2>9. LET c == local[p].job IN
          /\ c \in Consumer /\ c.maker = p /\ c.prod \in made
          /\ <<c.peer, c.prod>> \notin local[p].todo
          /\ c.peer = p => /\ p \in joined
                           /\ c.prod \notin videos => Owner[c.prod] \notin local[p].visit
                           /\ c.prod \in videos => local[p].reading = None
    BY <2>8, JobMeans
  <2>10. /\ local[p].job \in consumers'[local[p].job.peer]
        /\ \A y \in Peers : consumers[y] \subseteq consumers'[y]
        /\ \A x \in Peers, c \in Consumer : c \in consumers'[x] =>
             c \in consumers[x] \/ c = local[p].job
    BY <2>2, <2>9, ConsumerBasics DEF TypeOK
  <2>11. LET c == local[p].job IN c \in wConsumers \/ Closing(c) \/ c \in missed \/ Lost(c)
    BY <2>1 DEF JobInv, At
  <2>12. HeldInv'
    BY <2>1, <2>2, <2>5, ConsumerBasics, <2>8, <2>9, <2>10, <2>11 DEF HeldInv, Lost, ConsumersOf
  <2>13. local[p].job # None
    BY <2>1 DEF HandInv, Creating, At
  <2>14. LET c == local[p].job IN
          /\ c \in Consumer /\ c.maker = p /\ c.prod \in made
          /\ <<c.peer, c.prod>> \notin local[p].todo
          /\ c.peer = p => /\ p \in joined
                           /\ c.prod \notin videos => Owner[c.prod] \notin local[p].visit
                           /\ c.prod \in videos => local[p].reading = None
    BY <2>13, JobMeans
  <2>15. /\ local[p].job \in consumers'[local[p].job.peer]
        /\ \A y \in Peers : consumers[y] \subseteq consumers'[y]
        /\ \A x \in Peers, c \in Consumer : c \in consumers'[x] =>
             c \in consumers[x] \/ c = local[p].job
    BY <2>2, <2>14, ConsumerBasics DEF TypeOK
  <2>16. \A x \in Peers : pc[x] \in Creating =>
          local[x].job \in Consumer /\ local[x].job.prod \in made
    BY JobMeans DEF HandInv
  <2>17. JobInv'
    BY <2>1, <2>2, <2>4, <2>5, ConsumerBasics, <2>13, <2>14, <2>15, <2>16 DEF JobInv, Lost,
       ConsumersOf, LocalIs, At, Creating
  <2>18. QED BY <2>6, <2>7, <2>12, <2>17
<1>9. CASE Tell(p)
  <2>1. /\ At(p, "tell", "consume")
        /\ LocalIs(p, local[p].others, local[p].visit, local[p].reading, local[p].todo,
                   None, local[p].prod, local[p].dir, local[p].holding)
    BY <1>9, TellLocal, GotoIs
  <2>2. /\ told' = [told EXCEPT ![local[p].job.peer] = @ \cup {local[p].job}]
        /\ UNCHANGED <<wTransports, wProducers, wConsumers, consumers, missed, made>>
    BY <1>9 DEF Tell, roomVars, sharing, workerVars, clientVars, history, clientDid
  <2>3. inbox' = inbox /\ reply' = reply
    BY <1>9 DEF Tell
  <2>4. \A x \in Peers : Refused(x)' <=> Refused(x)
    BY <2>3, RefusedStays
  <2>5. \A c : Closing(c)' <=> Closing(c)
    BY <2>3, InboxStays
  <2>6. ClosedInv'
    BY <2>1, <2>2, <2>5, ConsumerBasics DEF ClosedInv, ConsumersOf
  <2>7. WorkerInv'
    <3>1. \A c \in Consumer : c.maker # p =>
            pc'[c.maker] = pc[c.maker] /\ local'[c.maker].job = local[c.maker].job
      BY <2>1, ConsumerBasics DEF At, LocalIs
    <3>2. \A c \in wConsumers : c.maker = p => c \in consumers[c.peer]
      BY <2>1 DEF WorkerInv, At, LocalIs
    <3>3. QED BY <2>2, <3>1, <3>2, ConsumerBasics DEF WorkerInv, Lost, ConsumersOf
  <2>8. local[p].job # None
    BY <2>1 DEF HandInv, Creating, At
  <2>9. LET c == local[p].job IN
          /\ c \in Consumer /\ c.maker = p /\ c.prod \in made
          /\ <<c.peer, c.prod>> \notin local[p].todo
          /\ c.peer = p => /\ p \in joined
                           /\ c.prod \notin videos => Owner[c.prod] \notin local[p].visit
                           /\ c.prod \in videos => local[p].reading = None
    BY <2>8, JobMeans
  <2>10. LET c == local[p].job IN c \in consumers[c.peer] \/ c \in missed \/ Lost(c)
    BY <2>1 DEF JobInv, At
  <2>11. \A x \in Peers, c \in Consumer : c \in told'[x] =>
          c \in told[x] \/ c = local[p].job
    BY <2>2, <2>9, ConsumerBasics DEF TypeOK
  <2>12. HeldInv'
    BY <2>1, <2>2, <2>5, ConsumerBasics, <2>8, <2>9, <2>10, <2>11 DEF HeldInv, Lost, ConsumersOf
  <2>13. \A x \in Peers : pc[x] \in Creating =>
          local[x].job \in Consumer /\ local[x].job.prod \in made
    BY JobMeans DEF HandInv
  <2>14. JobInv'
    BY <2>1, <2>2, <2>4, <2>5, ConsumerBasics, <2>13 DEF JobInv, Lost, ConsumersOf, LocalIs,
       At, Creating
  <2>15. QED BY <2>6, <2>7, <2>12, <2>14
<1>10. QED BY <1>1, <1>2, <1>3, <1>4, <1>5, <1>6, <1>7, <1>8, <1>9,
              CanConsumeLocal DEF ConsumeStep

LEMMA ProduceMirror ==
  ASSUME TypeOK, HandInv, AnswerInv, LockInv, TaskInv, StageInv, OwnInv, WorkInv,
         PlaceInv, ClosedInv, WorkerInv, HeldInv, JobInv, crashed = None, NEW p \in Peers, ProduceStep(p)
  PROVE  ClosedInv' /\ WorkerInv' /\ HeldInv' /\ JobInv'
<1>1. ASSUME NEW m \in Producers, Produce(p, m) PROVE ClosedInv' /\ WorkerInv' /\ HeldInv' /\ JobInv'
  <2>1. /\ At(p, "idle", "producing")
        /\ LocalIs(p, local[p].others, local[p].visit, local[p].reading, local[p].todo,
                   local[p].job, m, local[p].dir, local[p].holding)
    BY <1>1, ProduceLocal, GotoIs
  <2>2. /\ m \notin made
        /\ wProducers' = wProducers \cup {m}
        /\ made' = made \cup {m}
        /\ UNCHANGED <<wTransports, wConsumers, consumers, told, missed>>
    BY <1>1 DEF Produce, roomVars, sharing, workerVars, clientVars, history, clientDid
  <2>3. Respond(p, {}, TRUE) /\ reply' = reply
    BY <1>1 DEF Produce
  <2>4. \A x \in Peers : Refused(x)' <=> Refused(x)
    BY <2>3, RefusedResponds
  <2>5. ~Refused(p)
    BY <2>1, NotRefused DEF At, Waiting
  <2>6. \A c \in Consumer : Closing(c)' <=> Closing(c)
    BY <2>3, NoneClosing
  <2>7. ClosedInv'
    BY <2>1, <2>2, <2>6, ConsumerBasics DEF ClosedInv, ConsumersOf
  <2>8. WorkerInv'
    <3>1. \A c \in Consumer : c.maker # p =>
            pc'[c.maker] = pc[c.maker] /\ local'[c.maker].job = local[c.maker].job
      BY <2>1, ConsumerBasics DEF At, LocalIs
    <3>2. \A c \in wConsumers : c.maker = p => c \in consumers[c.peer]
      BY <2>1 DEF WorkerInv, At, LocalIs
    <3>3. QED BY <2>2, <3>1, <3>2, ConsumerBasics DEF WorkerInv, Lost, ConsumersOf
  <2>9. HeldInv'
    BY <2>1, <2>2, <2>6, ConsumerBasics DEF HeldInv, Lost, ConsumersOf
  <2>10. \A x \in Peers : pc[x] \in Creating =>
          local[x].job \in Consumer /\ local[x].job.prod \in made
    BY JobMeans DEF HandInv
  <2>11. JobInv'
    BY <2>1, <2>2, <2>4, <2>5, <2>6, ConsumerBasics, <2>10 DEF JobInv, Lost, ConsumersOf,
       LocalIs, At, Creating
  <2>12. QED BY <2>7, <2>8, <2>9, <2>11
<1>2. CASE ProduceAnswered(p)
  <2>1. At(p, "producing", IF local[p].prod \in videos THEN "share" ELSE "store") /\ local' = local
    BY <1>2, GotoIs DEF ProduceAnswered
  <2>2. UNCHANGED <<wTransports, wProducers, wConsumers, consumers, told, missed, made>>
    BY <1>2 DEF ProduceAnswered, roomVars, sharing, workerVars, clientVars, history, clientDid
  <2>3. Answered(p) /\ inbox' = inbox
    BY <1>2 DEF ProduceAnswered
  <2>4. \A x \in Peers : x # p => (Refused(x)' <=> Refused(x))
    BY <2>3, RefusedAnswered
  <2>5. \A c : Closing(c)' <=> Closing(c)
    BY <2>3, InboxStays
  <2>6. ClosedInv'
    BY <2>1, <2>2, <2>5, ConsumerBasics DEF ClosedInv, ConsumersOf
  <2>7. WorkerInv'
    BY <2>1, <2>2, ConsumerBasics DEF WorkerInv, Lost, ConsumersOf, LocalIs, At
  <2>8. HeldInv'
    BY <2>1, <2>2, <2>5, ConsumerBasics DEF HeldInv, Lost, ConsumersOf
  <2>9. \A x \in Peers : pc[x] \in Creating =>
          local[x].job \in Consumer /\ local[x].job.prod \in made
    BY JobMeans DEF HandInv
  <2>10. JobInv'
    BY <2>1, <2>2, <2>4, <2>5, ConsumerBasics, <2>9 DEF JobInv, Lost, ConsumersOf, LocalIs,
       At, Creating
  <2>11. QED BY <2>6, <2>7, <2>8, <2>10
<1>3. CASE Store(p)
  <2>1. At(p, "store", "announce") /\ local' = local
    BY <1>3, GotoIs DEF Store
  <2>2. UNCHANGED <<wTransports, wProducers, wConsumers, consumers, told, missed, made>>
    BY <1>3 DEF Store, roomVars, sharing, workerVars, clientVars, history, clientDid
  <2>3. inbox' = inbox /\ reply' = reply
    BY <1>3 DEF Store
  <2>4. \A x \in Peers : Refused(x)' <=> Refused(x)
    BY <2>3, RefusedStays
  <2>5. \A c : Closing(c)' <=> Closing(c)
    BY <2>3, InboxStays
  <2>6. ClosedInv'
    BY <2>1, <2>2, <2>5, ConsumerBasics DEF ClosedInv, ConsumersOf
  <2>7. WorkerInv'
    BY <2>1, <2>2, ConsumerBasics DEF WorkerInv, Lost, ConsumersOf, LocalIs, At
  <2>8. HeldInv'
    BY <2>1, <2>2, <2>5, ConsumerBasics DEF HeldInv, Lost, ConsumersOf
  <2>9. \A x \in Peers : pc[x] \in Creating =>
          local[x].job \in Consumer /\ local[x].job.prod \in made
    BY JobMeans DEF HandInv
  <2>10. JobInv'
    BY <2>1, <2>2, <2>4, <2>5, ConsumerBasics, <2>9 DEF JobInv, Lost, ConsumersOf, LocalIs,
       At, Creating
  <2>11. QED BY <2>6, <2>7, <2>8, <2>10
<1>4. CASE Announce(p)
  <2>0. local[p].prod # None
    BY <1>4 DEF Announce, HandInv, Creates, Goto
  <2>1. /\ At(p, "announce", "consume")
        /\ LocalIs(p, local[p].others, local[p].visit, local[p].reading,
                   JoinedPeers(p) \X {local[p].prod}, local[p].job, local[p].prod,
                   local[p].dir, local[p].holding)
    BY <1>4, AnnounceLocal, GotoIs, <2>0
  <2>2. UNCHANGED <<wTransports, wProducers, wConsumers, consumers, told, missed, made>>
    BY <1>4 DEF Announce, roomVars, sharing, workerVars, clientVars, history, clientDid
  <2>3. inbox' = inbox /\ reply' = reply
    BY <1>4 DEF Announce
  <2>4. \A x \in Peers : Refused(x)' <=> Refused(x)
    BY <2>3, RefusedStays
  <2>5. \A c : Closing(c)' <=> Closing(c)
    BY <2>3, InboxStays
  <2>6. ClosedInv'
    BY <2>1, <2>2, <2>5, ConsumerBasics DEF ClosedInv, ConsumersOf
  <2>7. WorkerInv'
    <3>1. \A c \in Consumer : c.maker # p =>
            pc'[c.maker] = pc[c.maker] /\ local'[c.maker].job = local[c.maker].job
      BY <2>1, ConsumerBasics DEF At, LocalIs
    <3>2. \A c \in wConsumers : c.maker = p => c \in consumers[c.peer]
      BY <2>1 DEF WorkerInv, At, LocalIs
    <3>3. QED BY <2>2, <3>1, <3>2, ConsumerBasics DEF WorkerInv, Lost, ConsumersOf
  <2>8. HeldInv'
    BY <2>1, <2>2, <2>5, ConsumerBasics DEF HeldInv, Lost, ConsumersOf
  <2>9. \A x \in Peers : pc[x] \in Creating =>
          local[x].job \in Consumer /\ local[x].job.prod \in made
    BY JobMeans DEF HandInv
  <2>10. JobInv'
    BY <2>1, <2>2, <2>4, <2>5, ConsumerBasics, <2>9 DEF JobInv, Lost, ConsumersOf, LocalIs,
       At, Creating
  <2>11. QED BY <2>6, <2>7, <2>8, <2>10
<1>5. CASE Replace(p)
  <2>1. /\ At(p, "share", "replacing")
        /\ LocalIs(p, local[p].others, local[p].visit, local[p].reading, local[p].todo,
                   local[p].job, local[p].prod, local[p].dir, TRUE)
    BY <1>5, ReplaceLocal, GotoIs
  <2>2. /\ wProducers' = wProducers \ {shared}
        /\ wConsumers' = wConsumers \ ConsumersOf({shared})
        /\ UNCHANGED <<wTransports, consumers, told, missed, made>>
    BY <1>5 DEF Replace, roomVars, sharing, workerVars, clientVars, history, clientDid
  <2>3. ConsumersOf({shared}) \in SUBSET Consumer
    BY DEF ConsumersOf, TypeOK
  <2>4. (shared \in wProducers) \in BOOLEAN
    OBVIOUS
  <2>5. Respond(p, ConsumersOf({shared}), shared \in wProducers) /\ reply' = reply
    BY <1>5 DEF Replace
  <2>6. \A x \in Peers : Refused(x)' <=> Refused(x) \/ (x = p /\ ~(shared \in wProducers))
    BY <2>3, <2>4, <2>5, RefusedResponds
  <2>7. ~Refused(p)
    BY <2>1, NotRefused DEF At, Waiting
  <2>8. \A c \in Consumer : Closing(c)' <=> Closing(c) \/ c \in ConsumersOf({shared})
    BY <2>3, <2>4, <2>5, ClosingResponds
  <2>9. wProducers \subseteq made
    BY DEF WorkInv
  <2>10. ClosedInv'
    BY <2>1, <2>2, <2>8, ConsumerBasics, <2>9 DEF ClosedInv, ConsumersOf, WorkerInv
  <2>11. WorkerInv'
    <3>1. \A c \in Consumer : c.maker # p =>
            pc'[c.maker] = pc[c.maker] /\ local'[c.maker].job = local[c.maker].job
      BY <2>1, ConsumerBasics DEF At, LocalIs
    <3>2. \A c \in wConsumers : c.maker = p => c \in consumers[c.peer]
      BY <2>1 DEF WorkerInv, At, LocalIs
    <3>3. QED BY <2>2, <3>1, <3>2, ConsumerBasics DEF WorkerInv, Lost, ConsumersOf
  <2>12. HeldInv'
    BY <2>1, <2>2, <2>8, ConsumerBasics DEF HeldInv, Lost, ConsumersOf
  <2>13. \A x \in Peers : pc[x] \in Creating =>
          local[x].job \in Consumer /\ local[x].job.prod \in made
    BY JobMeans DEF HandInv
  <2>14. JobInv'
    BY <2>1, <2>2, <2>6, <2>7, <2>8, ConsumerBasics, <2>13 DEF JobInv, Lost, ConsumersOf,
       LocalIs, At, Creating
  <2>15. QED BY <2>10, <2>11, <2>12, <2>14
<1>6. CASE ReplaceAnswered(p) /\ reply[p] = "ok"
  <2>1. /\ At(p, "replacing", "announce")
        /\ LocalIs(p, local[p].others, local[p].visit, local[p].reading, local[p].todo,
                   local[p].job, local[p].prod, local[p].dir, FALSE)
    BY <1>6, ReplaceAnsweredLocal, GotoIs
  <2>2. UNCHANGED <<wTransports, wProducers, wConsumers, consumers, told, missed, made>>
    BY <1>6 DEF ReplaceAnswered, roomVars, sharing, workerVars, clientVars, history, clientDid
  <2>3. Answered(p) /\ inbox' = inbox
    BY <1>6 DEF ReplaceAnswered
  <2>4. \A x \in Peers : x # p => (Refused(x)' <=> Refused(x))
    BY <2>3, RefusedAnswered
  <2>5. \A c : Closing(c)' <=> Closing(c)
    BY <2>3, InboxStays
  <2>6. ClosedInv'
    BY <2>1, <2>2, <2>5, ConsumerBasics DEF ClosedInv, ConsumersOf
  <2>7. WorkerInv'
    <3>1. \A c \in Consumer : c.maker # p =>
            pc'[c.maker] = pc[c.maker] /\ local'[c.maker].job = local[c.maker].job
      BY <2>1, ConsumerBasics DEF At, LocalIs
    <3>2. \A c \in wConsumers : c.maker = p => c \in consumers[c.peer]
      BY <2>1 DEF WorkerInv, At, LocalIs
    <3>3. QED BY <2>2, <3>1, <3>2, ConsumerBasics DEF WorkerInv, Lost, ConsumersOf
  <2>8. HeldInv'
    BY <2>1, <2>2, <2>5, ConsumerBasics DEF HeldInv, Lost, ConsumersOf
  <2>9. \A x \in Peers : pc[x] \in Creating =>
          local[x].job \in Consumer /\ local[x].job.prod \in made
    BY JobMeans DEF HandInv
  <2>10. JobInv'
    BY <2>1, <2>2, <2>4, <2>5, ConsumerBasics, <2>9 DEF JobInv, Lost, ConsumersOf, LocalIs,
       At, Creating
  <2>11. QED BY <2>6, <2>7, <2>8, <2>10
<1>7. CASE ReplaceAnswered(p) /\ reply[p] # "ok"
  <2>1. /\ At(p, "replacing", "leave")
        /\ LocalIs(p, {}, {}, None, {}, None, None, None, FALSE)
    BY <1>7, ReplaceAnsweredLocal, GotoIs
  <2>2. UNCHANGED <<wTransports, wProducers, wConsumers, consumers, told, missed, made>>
    BY <1>7 DEF ReplaceAnswered, roomVars, sharing, workerVars, clientVars, history, clientDid
  <2>3. Answered(p) /\ inbox' = inbox
    BY <1>7 DEF ReplaceAnswered
  <2>4. \A x \in Peers : x # p => (Refused(x)' <=> Refused(x))
    BY <2>3, RefusedAnswered
  <2>5. \A c : Closing(c)' <=> Closing(c)
    BY <2>3, InboxStays
  <2>6. ClosedInv'
    BY <2>1, <2>2, <2>5, ConsumerBasics DEF ClosedInv, ConsumersOf
  <2>7. WorkerInv'
    BY <2>1, <2>2, ConsumerBasics DEF WorkerInv, Lost, ConsumersOf, LocalIs, At
  <2>8. HeldInv'
    BY <2>1, <2>2, <2>5, ConsumerBasics DEF HeldInv, Lost, ConsumersOf
  <2>9. \A x \in Peers : pc[x] \in Creating =>
          local[x].job \in Consumer /\ local[x].job.prod \in made
    BY JobMeans DEF HandInv
  <2>10. JobInv'
    BY <2>1, <2>2, <2>4, <2>5, ConsumerBasics, <2>9 DEF JobInv, Lost, ConsumersOf, LocalIs,
       At, Creating
  <2>11. QED BY <2>6, <2>7, <2>8, <2>10
<1>8. CASE Attach(p)
  <2>1. At(p, "share", "announce") /\ local' = local
    BY <1>8, GotoIs DEF Attach
  <2>2. UNCHANGED <<wTransports, wProducers, wConsumers, consumers, told, missed, made>>
    BY <1>8 DEF Attach, roomVars, sharing, workerVars, clientVars, history, clientDid
  <2>3. inbox' = inbox /\ reply' = reply
    BY <1>8 DEF Attach
  <2>4. \A x \in Peers : Refused(x)' <=> Refused(x)
    BY <2>3, RefusedStays
  <2>5. \A c : Closing(c)' <=> Closing(c)
    BY <2>3, InboxStays
  <2>6. ClosedInv'
    BY <2>1, <2>2, <2>5, ConsumerBasics DEF ClosedInv, ConsumersOf
  <2>7. WorkerInv'
    BY <2>1, <2>2, ConsumerBasics DEF WorkerInv, Lost, ConsumersOf, LocalIs, At
  <2>8. HeldInv'
    BY <2>1, <2>2, <2>5, ConsumerBasics DEF HeldInv, Lost, ConsumersOf
  <2>9. \A x \in Peers : pc[x] \in Creating =>
          local[x].job \in Consumer /\ local[x].job.prod \in made
    BY JobMeans DEF HandInv
  <2>10. JobInv'
    BY <2>1, <2>2, <2>4, <2>5, ConsumerBasics, <2>9 DEF JobInv, Lost, ConsumersOf, LocalIs,
       At, Creating
  <2>11. QED BY <2>6, <2>7, <2>8, <2>10
<1>9. QED BY <1>1, <1>2, <1>3, <1>4, <1>5, <1>6, <1>7, <1>8 DEF ProduceStep

LEMMA CloseMirror ==
  ASSUME TypeOK, HandInv, AnswerInv, LockInv, TaskInv, StageInv, OwnInv, WorkInv,
         PlaceInv, ClosedInv, WorkerInv, HeldInv, JobInv, crashed = None, NEW p \in Peers, CloseStep(p)
  PROVE  ClosedInv' /\ WorkerInv' /\ HeldInv' /\ JobInv'
<1>1. ASSUME NEW m \in Producers, CloseProducer(p, m) PROVE ClosedInv' /\ WorkerInv' /\ HeldInv' /\ JobInv'
  <2>1. /\ At(p, "idle", "closing")
        /\ LocalIs(p, local[p].others, local[p].visit, local[p].reading, local[p].todo,
                   local[p].job, m, local[p].dir, local[p].holding)
    BY <1>1, CloseProducerLocal, GotoIs
  <2>2. /\ wProducers' = wProducers \ {m}
        /\ wConsumers' = wConsumers \ ConsumersOf({m})
        /\ m \in producers[p]
        /\ UNCHANGED <<wTransports, consumers, told, missed, made>>
    BY <1>1 DEF CloseProducer, roomVars, sharing, workerVars, clientVars, history, clientDid
  <2>3. ConsumersOf({m}) \in SUBSET Consumer
    BY DEF ConsumersOf, TypeOK
  <2>4. Respond(p, ConsumersOf({m}), TRUE) /\ reply' = reply
    BY <1>1 DEF CloseProducer
  <2>5. \A x \in Peers : Refused(x)' <=> Refused(x)
    BY <2>3, <2>4, RefusedResponds
  <2>6. ~Refused(p)
    BY <2>1, NotRefused DEF At, Waiting
  <2>7. \A c \in Consumer : Closing(c)' <=> Closing(c) \/ c \in ConsumersOf({m})
    BY <2>3, <2>4, ClosingResponds
  <2>8. wProducers \subseteq made
    BY DEF WorkInv
  <2>9. ClosedInv'
    BY <2>1, <2>2, <2>7, ConsumerBasics, <2>8 DEF ClosedInv, ConsumersOf, WorkerInv
  <2>10. WorkerInv'
    <3>1. \A c \in Consumer : c.maker # p =>
            pc'[c.maker] = pc[c.maker] /\ local'[c.maker].job = local[c.maker].job
      BY <2>1, ConsumerBasics DEF At, LocalIs
    <3>2. \A c \in wConsumers : c.maker = p => c \in consumers[c.peer]
      BY <2>1 DEF WorkerInv, At, LocalIs
    <3>3. QED BY <2>2, <3>1, <3>2, ConsumerBasics DEF WorkerInv, Lost, ConsumersOf
  <2>11. HeldInv'
    BY <2>1, <2>2, <2>7, ConsumerBasics DEF HeldInv, Lost, ConsumersOf
  <2>12. \A x \in Peers : pc[x] \in Creating =>
          local[x].job \in Consumer /\ local[x].job.prod \in made
    BY JobMeans DEF HandInv
  <2>13. JobInv'
    BY <2>1, <2>2, <2>5, <2>6, <2>7, ConsumerBasics, <2>12 DEF JobInv, Lost, ConsumersOf,
       LocalIs, At, Creating
  <2>14. QED BY <2>9, <2>10, <2>11, <2>13
<1>2. ASSUME NEW m \in Producers, CloseVideo(p, m) PROVE ClosedInv' /\ WorkerInv' /\ HeldInv' /\ JobInv'
  <2>1. /\ At(p, "idle", "detaching")
        /\ LocalIs(p, local[p].others, local[p].visit, local[p].reading, local[p].todo,
                   local[p].job, local[p].prod, local[p].dir, TRUE)
    BY <1>2, CloseVideoLocal, GotoIs
  <2>2. /\ wProducers' = wProducers \ {m}
        /\ wConsumers' = wConsumers \ ConsumersOf({m})
        /\ UNCHANGED <<wTransports, consumers, told, missed, made>>
    BY <1>2 DEF CloseVideo, roomVars, sharing, workerVars, clientVars, history, clientDid
  <2>3. ConsumersOf({m}) \in SUBSET Consumer
    BY DEF ConsumersOf, TypeOK
  <2>4. /\ Respond(p, ConsumersOf({m}), m \in wProducers) /\ reply' = reply
        /\ (m \in wProducers) \in BOOLEAN
    BY <1>2 DEF CloseVideo
  <2>5. \A x \in Peers : Refused(x)' <=> Refused(x) \/ (x = p /\ ~(m \in wProducers))
    BY <2>3, <2>4, RefusedResponds
  <2>6. ~Refused(p)
    BY <2>1, NotRefused DEF At, Waiting
  <2>7. \A c \in Consumer : Closing(c)' <=> Closing(c) \/ c \in ConsumersOf({m})
    BY <2>3, <2>4, ClosingResponds
  <2>8. wProducers \subseteq made
    BY DEF WorkInv
  <2>9. ClosedInv'
    BY <2>1, <2>2, <2>7, ConsumerBasics, <2>8 DEF ClosedInv, ConsumersOf, WorkerInv
  <2>10. WorkerInv'
    <3>1. \A c \in Consumer : c.maker # p =>
            pc'[c.maker] = pc[c.maker] /\ local'[c.maker].job = local[c.maker].job
      BY <2>1, ConsumerBasics DEF At, LocalIs
    <3>2. \A c \in wConsumers : c.maker = p => c \in consumers[c.peer]
      BY <2>1 DEF WorkerInv, At, LocalIs
    <3>3. QED BY <2>2, <3>1, <3>2, ConsumerBasics DEF WorkerInv, Lost, ConsumersOf
  <2>11. HeldInv'
    BY <2>1, <2>2, <2>7, ConsumerBasics DEF HeldInv, Lost, ConsumersOf
  <2>12. \A x \in Peers : pc[x] \in Creating =>
          local[x].job \in Consumer /\ local[x].job.prod \in made
    BY JobMeans DEF HandInv
  <2>13. JobInv'
    BY <2>1, <2>2, <2>5, <2>6, <2>7, ConsumerBasics, <2>12 DEF JobInv, Lost, ConsumersOf,
       LocalIs, At, Creating
  <2>14. QED BY <2>9, <2>10, <2>11, <2>13
<1>3. CASE VideoClosed(p) /\ reply[p] = "ok"
  <2>1. /\ At(p, "detaching", "idle")
        /\ LocalIs(p, local[p].others, local[p].visit, local[p].reading, local[p].todo,
                   local[p].job, local[p].prod, local[p].dir, FALSE)
    BY <1>3, VideoClosedLocal, GotoIs
  <2>2. UNCHANGED <<wTransports, wProducers, wConsumers, consumers, told, missed, made>>
    BY <1>3 DEF VideoClosed, roomVars, sharing, workerVars, clientVars, history, clientDid
  <2>3. Answered(p) /\ inbox' = inbox
    BY <1>3 DEF VideoClosed
  <2>4. \A x \in Peers : x # p => (Refused(x)' <=> Refused(x))
    BY <2>3, RefusedAnswered
  <2>5. \A c : Closing(c)' <=> Closing(c)
    BY <2>3, InboxStays
  <2>6. ClosedInv'
    BY <2>1, <2>2, <2>5, ConsumerBasics DEF ClosedInv, ConsumersOf
  <2>7. WorkerInv'
    <3>1. \A c \in Consumer : c.maker # p =>
            pc'[c.maker] = pc[c.maker] /\ local'[c.maker].job = local[c.maker].job
      BY <2>1, ConsumerBasics DEF At, LocalIs
    <3>2. \A c \in wConsumers : c.maker = p => c \in consumers[c.peer]
      BY <2>1 DEF WorkerInv, At, LocalIs
    <3>3. QED BY <2>2, <3>1, <3>2, ConsumerBasics DEF WorkerInv, Lost, ConsumersOf
  <2>8. HeldInv'
    BY <2>1, <2>2, <2>5, ConsumerBasics DEF HeldInv, Lost, ConsumersOf
  <2>9. \A x \in Peers : pc[x] \in Creating =>
          local[x].job \in Consumer /\ local[x].job.prod \in made
    BY JobMeans DEF HandInv
  <2>10. JobInv'
    BY <2>1, <2>2, <2>4, <2>5, ConsumerBasics, <2>9 DEF JobInv, Lost, ConsumersOf, LocalIs,
       At, Creating
  <2>11. QED BY <2>6, <2>7, <2>8, <2>10
<1>4. ASSUME NEW m \in Producers, NullStep(p, m) PROVE ClosedInv' /\ WorkerInv' /\ HeldInv' /\ JobInv'
  <2>1. /\ pc[p] = "idle" /\ pc' = pc
        /\ LocalIs(p, local[p].others, local[p].visit, local[p].reading, local[p].todo,
                   local[p].job, m, local[p].dir, local[p].holding)
    BY <1>4, NullStepLocal, GotoIs
  <2>2. UNCHANGED <<wTransports, wProducers, wConsumers, consumers, told, missed, made>>
    BY <1>4 DEF NullStep, CloseNull, ProduceNull, roomVars, sharing, workerVars, clientVars,
       history, clientDid
  <2>3. inbox' = inbox /\ reply' = reply
    BY <1>4 DEF NullStep, CloseNull, ProduceNull
  <2>4. \A x \in Peers : Refused(x)' <=> Refused(x)
    BY <2>3, RefusedStays
  <2>5. \A c : Closing(c)' <=> Closing(c)
    BY <2>3, InboxStays
  <2>6. ClosedInv'
    BY <2>1, <2>2, <2>5, ConsumerBasics DEF ClosedInv, ConsumersOf
  <2>7. WorkerInv'
    BY <2>1, <2>2, ConsumerBasics DEF WorkerInv, Lost, ConsumersOf, LocalIs, At
  <2>8. HeldInv'
    BY <2>1, <2>2, <2>5, ConsumerBasics DEF HeldInv, Lost, ConsumersOf
  <2>9. \A x \in Peers : pc[x] \in Creating =>
          local[x].job \in Consumer /\ local[x].job.prod \in made
    BY JobMeans DEF HandInv
  <2>10. JobInv'
    BY <2>1, <2>2, <2>4, <2>5, ConsumerBasics, <2>9 DEF JobInv, Lost, ConsumersOf, LocalIs,
       At, Creating
  <2>11. QED BY <2>6, <2>7, <2>8, <2>10
<1>5. CASE CloseAnswered(p)
  <2>1. At(p, "closing", "erase") /\ local' = local
    BY <1>5, GotoIs DEF CloseAnswered
  <2>2. UNCHANGED <<wTransports, wProducers, wConsumers, consumers, told, missed, made>>
    BY <1>5 DEF CloseAnswered, roomVars, sharing, workerVars, clientVars, history, clientDid
  <2>3. Answered(p) /\ inbox' = inbox
    BY <1>5 DEF CloseAnswered
  <2>4. \A x \in Peers : x # p => (Refused(x)' <=> Refused(x))
    BY <2>3, RefusedAnswered
  <2>5. \A c : Closing(c)' <=> Closing(c)
    BY <2>3, InboxStays
  <2>6. ClosedInv'
    BY <2>1, <2>2, <2>5, ConsumerBasics DEF ClosedInv, ConsumersOf
  <2>7. WorkerInv'
    BY <2>1, <2>2, ConsumerBasics DEF WorkerInv, Lost, ConsumersOf, LocalIs, At
  <2>8. HeldInv'
    BY <2>1, <2>2, <2>5, ConsumerBasics DEF HeldInv, Lost, ConsumersOf
  <2>9. \A x \in Peers : pc[x] \in Creating =>
          local[x].job \in Consumer /\ local[x].job.prod \in made
    BY JobMeans DEF HandInv
  <2>10. JobInv'
    BY <2>1, <2>2, <2>4, <2>5, ConsumerBasics, <2>9 DEF JobInv, Lost, ConsumersOf, LocalIs,
       At, Creating
  <2>11. QED BY <2>6, <2>7, <2>8, <2>10
<1>6. CASE Erase(p)
  <2>1. /\ At(p, "erase", "idle")
        /\ LocalIs(p, local[p].others, local[p].visit, local[p].reading, local[p].todo,
                   local[p].job, None, local[p].dir, local[p].holding)
    BY <1>6, EraseLocal, GotoIs
  <2>2. UNCHANGED <<wTransports, wProducers, wConsumers, consumers, told, missed, made>>
    BY <1>6 DEF Erase, roomVars, sharing, workerVars, clientVars, history, clientDid
  <2>3. inbox' = inbox /\ reply' = reply
    BY <1>6 DEF Erase
  <2>4. \A x \in Peers : Refused(x)' <=> Refused(x)
    BY <2>3, RefusedStays
  <2>5. \A c : Closing(c)' <=> Closing(c)
    BY <2>3, InboxStays
  <2>6. ClosedInv'
    BY <2>1, <2>2, <2>5, ConsumerBasics DEF ClosedInv, ConsumersOf
  <2>7. WorkerInv'
    BY <2>1, <2>2, ConsumerBasics DEF WorkerInv, Lost, ConsumersOf, LocalIs, At
  <2>8. HeldInv'
    BY <2>1, <2>2, <2>5, ConsumerBasics DEF HeldInv, Lost, ConsumersOf
  <2>9. \A x \in Peers : pc[x] \in Creating =>
          local[x].job \in Consumer /\ local[x].job.prod \in made
    BY JobMeans DEF HandInv
  <2>10. JobInv'
    BY <2>1, <2>2, <2>4, <2>5, ConsumerBasics, <2>9 DEF JobInv, Lost, ConsumersOf, LocalIs,
       At, Creating
  <2>11. QED BY <2>6, <2>7, <2>8, <2>10
<1>7. CASE VideoClosed(p) /\ reply[p] # "ok"
  <2>1. /\ At(p, "detaching", "leave")
        /\ LocalIs(p, {}, {}, None, {}, None, None, None, FALSE)
    BY <1>7, VideoClosedLocal, GotoIs
  <2>2. UNCHANGED <<wTransports, wProducers, wConsumers, consumers, told, missed, made>>
    BY <1>7 DEF VideoClosed, roomVars, sharing, workerVars, clientVars, history, clientDid
  <2>3. Answered(p) /\ inbox' = inbox
    BY <1>7 DEF VideoClosed
  <2>4. \A x \in Peers : x # p => (Refused(x)' <=> Refused(x))
    BY <2>3, RefusedAnswered
  <2>5. \A c : Closing(c)' <=> Closing(c)
    BY <2>3, InboxStays
  <2>6. ClosedInv'
    BY <2>1, <2>2, <2>5, ConsumerBasics DEF ClosedInv, ConsumersOf
  <2>7. WorkerInv'
    BY <2>1, <2>2, ConsumerBasics DEF WorkerInv, Lost, ConsumersOf, LocalIs, At
  <2>8. HeldInv'
    BY <2>1, <2>2, <2>5, ConsumerBasics DEF HeldInv, Lost, ConsumersOf
  <2>9. \A x \in Peers : pc[x] \in Creating =>
          local[x].job \in Consumer /\ local[x].job.prod \in made
    BY JobMeans DEF HandInv
  <2>10. JobInv'
    BY <2>1, <2>2, <2>4, <2>5, ConsumerBasics, <2>9 DEF JobInv, Lost, ConsumersOf, LocalIs,
       At, Creating
  <2>11. QED BY <2>6, <2>7, <2>8, <2>10
<1>8. ASSUME NEW m \in Producers, DetachClosed(p, m) PROVE ClosedInv' /\ WorkerInv' /\ HeldInv' /\ JobInv'
  <2>1. pc[p] = "idle" /\ pc' = pc /\ local' = local
    BY <1>8 DEF DetachClosed
  <2>2. UNCHANGED <<wTransports, wProducers, wConsumers, consumers, told, missed, made>>
    BY <1>8 DEF DetachClosed, roomVars, sharing, workerVars, clientVars, history, clientDid
  <2>3. inbox' = inbox /\ reply' = reply
    BY <1>8 DEF DetachClosed
  <2>4. \A x \in Peers : Refused(x)' <=> Refused(x)
    BY <2>3, RefusedStays
  <2>5. \A c : Closing(c)' <=> Closing(c)
    BY <2>3, InboxStays
  <2>6. ClosedInv'
    BY <2>1, <2>2, <2>5, ConsumerBasics DEF ClosedInv, ConsumersOf
  <2>7. WorkerInv'
    BY <2>1, <2>2, ConsumerBasics DEF WorkerInv, Lost, ConsumersOf
  <2>8. HeldInv'
    BY <2>1, <2>2, <2>5, ConsumerBasics DEF HeldInv, Lost, ConsumersOf
  <2>9. \A x \in Peers : pc[x] \in Creating =>
          local[x].job \in Consumer /\ local[x].job.prod \in made
    BY JobMeans DEF HandInv
  <2>10. JobInv'
    BY <2>1, <2>2, <2>4, <2>5, ConsumerBasics, <2>9 DEF JobInv, Lost, ConsumersOf, Creating
  <2>11. QED BY <2>6, <2>7, <2>8, <2>10
<1>9. QED BY <1>1, <1>2, <1>3, <1>4, <1>5, <1>6, <1>7, <1>8 DEF CloseStep

LEMMA LeaveMirror ==
  ASSUME TypeOK, HandInv, AnswerInv, LockInv, TaskInv, StageInv, OwnInv, WorkInv,
         PlaceInv, ClosedInv, WorkerInv, HeldInv, JobInv, crashed = None, NEW p \in Peers, LeaveStep(p)
  PROVE  ClosedInv' /\ WorkerInv' /\ HeldInv' /\ JobInv'
<1>1. CASE Leave(p)
  <2>1. At(p, "idle", "leave") /\ local' = local
    BY <1>1, GotoIs DEF Leave
  <2>2. UNCHANGED <<wTransports, wProducers, wConsumers, consumers, told, missed, made>>
    BY <1>1 DEF Leave, roomVars, sharing, workerVars, clientVars, history, clientDid
  <2>3. inbox' = inbox /\ reply' = reply
    BY <1>1 DEF Leave
  <2>4. \A x \in Peers : Refused(x)' <=> Refused(x)
    BY <2>3, RefusedStays
  <2>5. \A c : Closing(c)' <=> Closing(c)
    BY <2>3, InboxStays
  <2>6. ClosedInv'
    BY <2>1, <2>2, <2>5, ConsumerBasics DEF ClosedInv, ConsumersOf
  <2>7. WorkerInv'
    BY <2>1, <2>2, ConsumerBasics DEF WorkerInv, Lost, ConsumersOf, LocalIs, At
  <2>8. HeldInv'
    BY <2>1, <2>2, <2>5, ConsumerBasics DEF HeldInv, Lost, ConsumersOf
  <2>9. \A x \in Peers : pc[x] \in Creating =>
          local[x].job \in Consumer /\ local[x].job.prod \in made
    BY JobMeans DEF HandInv
  <2>10. JobInv'
    BY <2>1, <2>2, <2>4, <2>5, ConsumerBasics, <2>9 DEF JobInv, Lost, ConsumersOf, LocalIs,
       At, Creating
  <2>11. QED BY <2>6, <2>7, <2>8, <2>10
<1>2. CASE LeaveSnapshot(p)
  <2>1. /\ At(p, "leave", "notify")
        /\ LocalIs(p, JoinedPeers(p), local[p].visit, local[p].reading, local[p].todo,
                   local[p].job, local[p].prod, local[p].dir, local[p].holding)
    BY <1>2, LeaveSnapshotLocal, GotoIs
  <2>2. UNCHANGED <<wTransports, wProducers, wConsumers, consumers, told, missed, made>>
    BY <1>2 DEF LeaveSnapshot, roomVars, sharing, workerVars, clientVars, history, clientDid
  <2>3. inbox' = inbox /\ reply' = reply
    BY <1>2 DEF LeaveSnapshot
  <2>4. \A x \in Peers : Refused(x)' <=> Refused(x)
    BY <2>3, RefusedStays
  <2>5. \A c : Closing(c)' <=> Closing(c)
    BY <2>3, InboxStays
  <2>6. ClosedInv'
    BY <2>1, <2>2, <2>5, ConsumerBasics DEF ClosedInv, ConsumersOf
  <2>7. WorkerInv'
    <3>1. \A c \in Consumer : c.maker # p =>
            pc'[c.maker] = pc[c.maker] /\ local'[c.maker].job = local[c.maker].job
      BY <2>1, ConsumerBasics DEF At, LocalIs
    <3>2. \A c \in wConsumers : c.maker = p => c \in consumers[c.peer]
      BY <2>1 DEF WorkerInv, At, LocalIs
    <3>3. QED BY <2>2, <3>1, <3>2, ConsumerBasics DEF WorkerInv, Lost, ConsumersOf
  <2>8. HeldInv'
    BY <2>1, <2>2, <2>5, ConsumerBasics DEF HeldInv, Lost, ConsumersOf
  <2>9. \A x \in Peers : pc[x] \in Creating =>
          local[x].job \in Consumer /\ local[x].job.prod \in made
    BY JobMeans DEF HandInv
  <2>10. JobInv'
    BY <2>1, <2>2, <2>4, <2>5, ConsumerBasics, <2>9 DEF JobInv, Lost, ConsumersOf, LocalIs,
       At, Creating
  <2>11. QED BY <2>6, <2>7, <2>8, <2>10
<1>3. CASE LeaveNotify(p)
  <2>1. /\ At(p, "notify", "transports")
        /\ LocalIs(p, {}, {}, None, {}, None, None, None, FALSE)
    BY <1>3, LeaveNotifyLocal, GotoIs
  <2>2. UNCHANGED <<wTransports, wProducers, wConsumers, consumers, told, missed, made>>
    BY <1>3 DEF LeaveNotify, roomVars, sharing, workerVars, clientVars, history, clientDid
  <2>3. inbox' = inbox /\ reply' = reply
    BY <1>3 DEF LeaveNotify
  <2>4. \A x \in Peers : Refused(x)' <=> Refused(x)
    BY <2>3, RefusedStays
  <2>5. \A c : Closing(c)' <=> Closing(c)
    BY <2>3, InboxStays
  <2>6. ClosedInv'
    BY <2>1, <2>2, <2>5, ConsumerBasics DEF ClosedInv, ConsumersOf
  <2>7. WorkerInv'
    BY <2>1, <2>2, ConsumerBasics DEF WorkerInv, Lost, ConsumersOf, LocalIs, At
  <2>8. HeldInv'
    BY <2>1, <2>2, <2>5, ConsumerBasics DEF HeldInv, Lost, ConsumersOf
  <2>9. \A x \in Peers : pc[x] \in Creating =>
          local[x].job \in Consumer /\ local[x].job.prod \in made
    BY JobMeans DEF HandInv
  <2>10. JobInv'
    BY <2>1, <2>2, <2>4, <2>5, ConsumerBasics, <2>9 DEF JobInv, Lost, ConsumersOf, LocalIs,
       At, Creating
  <2>11. QED BY <2>6, <2>7, <2>8, <2>10
<1>4. ASSUME NEW d \in Directions, CloseTransport(p, d) PROVE ClosedInv' /\ WorkerInv' /\ HeldInv' /\ JobInv'
  <2>1. /\ At(p, "transports", "transport")
        /\ LocalIs(p, local[p].others, local[p].visit, local[p].reading, local[p].todo,
                   local[p].job, local[p].prod, d, local[p].holding)
    BY <1>4, CloseTransportLocal, GotoIs
  <2>2. /\ wTransports' = wTransports \ {<<p, d>>}
        /\ \A m \in Producers : m \in wProducers' <=> m \in wProducers /\ ~(d = "send" /\ Owner[m] = p)
        /\ wConsumers' = wConsumers \ (ConsumersOf(IF d = "send" THEN {m \in wProducers : Owner[m] = p} ELSE {})
           \cup {c \in wConsumers : d = "recv" /\ c.peer = p})
        /\ UNCHANGED <<consumers, told, missed, made>>
    BY <1>4 DEF CloseTransport, TypeOK, roomVars, sharing, workerVars, clientVars, history,
       clientDid
  <2>3. ConsumersOf(IF d = "send" THEN {m \in wProducers : Owner[m] = p} ELSE {}) \in SUBSET Consumer
    BY DEF ConsumersOf, TypeOK
  <2>4. Respond(p, ConsumersOf(IF d = "send" THEN {m \in wProducers : Owner[m] = p} ELSE {}), TRUE) /\ reply' = reply
    BY <1>4 DEF CloseTransport
  <2>5. \A x \in Peers : Refused(x)' <=> Refused(x)
    BY <2>3, <2>4, RefusedResponds
  <2>6. ~Refused(p)
    BY <2>1, NotRefused DEF At, Waiting
  <2>7. \A c \in Consumer : Closing(c)' <=> Closing(c) \/ c \in ConsumersOf(IF d = "send" THEN {m \in wProducers : Owner[m] = p} ELSE {})
    BY <2>3, <2>4, ClosingResponds
  <2>8. wProducers \subseteq made
    BY DEF WorkInv
  <2>9. ClosedInv'
    BY <2>1, <2>2, <2>7, ConsumerBasics, <2>8 DEF ClosedInv, ConsumersOf, WorkerInv
  <2>10. WorkerInv'
    <3>1. \A c \in Consumer : c.maker # p =>
            pc'[c.maker] = pc[c.maker] /\ local'[c.maker].job = local[c.maker].job
      BY <2>1, ConsumerBasics DEF At, LocalIs
    <3>2. \A c \in wConsumers : c.maker = p => c \in consumers[c.peer]
      BY <2>1 DEF WorkerInv, At, LocalIs
    <3>3. QED BY <2>2, <3>1, <3>2, ConsumerBasics DEF WorkerInv, Lost, ConsumersOf
  <2>11. HeldInv'
    BY <2>1, <2>2, <2>7, ConsumerBasics DEF HeldInv, Lost, ConsumersOf
  <2>12. \A x \in Peers : pc[x] \in Creating =>
          local[x].job \in Consumer /\ local[x].job.prod \in made
    BY JobMeans DEF HandInv
  <2>13. JobInv'
    BY <2>1, <2>2, <2>5, <2>6, <2>7, ConsumerBasics, <2>12 DEF JobInv, Lost, ConsumersOf,
       LocalIs, At, Creating
  <2>14. QED BY <2>9, <2>10, <2>11, <2>13
<1>5. CASE TransportAnswered(p)
  <2>1. /\ At(p, "transport", "transports")
        /\ LocalIs(p, local[p].others, local[p].visit, local[p].reading, local[p].todo,
                   local[p].job, local[p].prod, None, local[p].holding)
    BY <1>5, TransportAnsweredLocal, GotoIs
  <2>2. /\ \A x \in Peers : x # p => consumers'[x] = consumers[x]
        /\ local[p].dir = "send" => consumers' = consumers
        /\ UNCHANGED <<wTransports, wProducers, wConsumers, told, missed, made>>
    BY <1>5 DEF TransportAnswered, TypeOK, roomVars, sharing, workerVars, clientVars,
       history, clientDid
  <2>3. Answered(p) /\ inbox' = inbox
    BY <1>5 DEF TransportAnswered
  <2>4. \A x \in Peers : x # p => (Refused(x)' <=> Refused(x))
    BY <2>3, RefusedAnswered
  <2>5. \A c : Closing(c)' <=> Closing(c)
    BY <2>3, InboxStays
  <2>6. ClosedInv'
    BY <2>1, <2>2, <2>5, ConsumerBasics DEF ClosedInv, ConsumersOf
  <2>7. WorkerInv'
    <3>1. \A c \in Consumer : c.maker # p =>
            pc'[c.maker] = pc[c.maker] /\ local'[c.maker].job = local[c.maker].job
      BY <2>1, ConsumerBasics DEF At, LocalIs
    <3>2. local[p].dir # "send" => <<p, "recv">> \notin wTransports
      BY <2>1 DEF StageInv, Staged, HandInv, Directions, At
    <3>3. \A c \in wConsumers : consumers'[c.peer] = consumers[c.peer]
      BY <2>2, <3>2, ConsumerBasics DEF WorkerInv, Lost
    <3>4. \A c \in wConsumers : c.maker = p => c \in consumers[c.peer]
      BY <2>1 DEF WorkerInv, At, LocalIs
    <3>5. QED BY <2>2, <3>1, <3>2, <3>3, <3>4, ConsumerBasics DEF WorkerInv, Lost, ConsumersOf
  <2>8. local[p].dir # "send" => <<p, "recv">> \notin wTransports
    BY <2>1 DEF StageInv, Staged, HandInv, Directions, At
  <2>9. HeldInv'
    BY <2>1, <2>2, <2>5, ConsumerBasics, <2>8 DEF HeldInv, Lost, ConsumersOf
  <2>10. \A x \in Peers : pc[x] \in Creating =>
          local[x].job \in Consumer /\ local[x].job.prod \in made
    BY JobMeans DEF HandInv
  <2>11. local[p].dir # "send" => <<p, "recv">> \notin wTransports
    BY <2>1 DEF StageInv, Staged, HandInv, Directions, At
  <2>12. JobInv'
    BY <2>1, <2>2, <2>4, <2>5, ConsumerBasics, <2>10, <2>11 DEF JobInv, Lost, ConsumersOf,
       LocalIs, At, Creating
  <2>13. QED BY <2>6, <2>7, <2>9, <2>12
<1>6. CASE RemovePeer(p)
  <2>1. At(p, "transports", "gone") /\ local' = local
    BY <1>6, GotoIs DEF RemovePeer
  <2>2. UNCHANGED <<wTransports, wProducers, wConsumers, consumers, told, missed, made>>
    BY <1>6 DEF RemovePeer, roomVars, sharing, workerVars, clientVars, history, clientDid
  <2>3. inbox' = inbox /\ reply' = reply
    BY <1>6 DEF RemovePeer
  <2>4. \A x \in Peers : Refused(x)' <=> Refused(x)
    BY <2>3, RefusedStays
  <2>5. \A c : Closing(c)' <=> Closing(c)
    BY <2>3, InboxStays
  <2>6. ClosedInv'
    BY <2>1, <2>2, <2>5, ConsumerBasics DEF ClosedInv, ConsumersOf
  <2>7. WorkerInv'
    BY <2>1, <2>2, ConsumerBasics DEF WorkerInv, Lost, ConsumersOf, LocalIs, At
  <2>8. HeldInv'
    BY <2>1, <2>2, <2>5, ConsumerBasics DEF HeldInv, Lost, ConsumersOf
  <2>9. \A x \in Peers : pc[x] \in Creating =>
          local[x].job \in Consumer /\ local[x].job.prod \in made
    BY JobMeans DEF HandInv
  <2>10. JobInv'
    BY <2>1, <2>2, <2>4, <2>5, ConsumerBasics, <2>9 DEF JobInv, Lost, ConsumersOf, LocalIs,
       At, Creating
  <2>11. QED BY <2>6, <2>7, <2>8, <2>10
<1>7. QED BY <1>1, <1>2, <1>3, <1>4, <1>5, <1>6 DEF LeaveStep

-----------------------------------------------------------------------------
(* The invariant                                                           *)

LEMMA ConsumerInit == Init => ConsumerInv
<1> SUFFICES ASSUME Init PROVE ConsumerInv
  OBVIOUS
<1>1. /\ joined = {} /\ made = {} /\ missed = {} /\ wConsumers = {} /\ inbox = <<>>
      /\ \A p \in Peers : pc[p] = "idle" /\ knows[p] = {}
      /\ \A p \in Peers : consumers[p] = {} /\ told[p] = {}
  BY DEF Init
<1>2. MeetInv /\ KnowInv /\ FarewellInv /\ ServeInv /\ WalkedInv
  BY <1>1 DEF MeetInv, KnowInv, FarewellInv, ServeInv, WalkedInv
<1>3. \A c \in Consumer : c.peer \in Peers /\ ~Closing(c)
  BY <1>1 DEF Consumer, Closing
<1>4. FreshInv /\ PlaceInv /\ ClosedInv /\ WorkerInv /\ HeldInv /\ JobInv
  BY <1>1, <1>3 DEF FreshInv, Used, PlaceInv, ClosedInv, WorkerInv, HeldInv, JobInv
<1>5. QED BY <1>2, <1>4 DEF ConsumerInv

\* An answer taken from the inbox changes nothing the invariant speaks of.
LEMMA ConsumerStays ==
  ASSUME TypeOK, HandInv, ConsumerInv,
         UNCHANGED <<pc, local, joined, producers, consumers, shared, closed, wTransports,
                     wProducers, wConsumers, made, videos, told, knows, ghosts, missed>>,
         \A x \in Peers : Refused(x)' <=> Refused(x),
         \A c \in Consumer : Closing(c)' <=> Closing(c)
  PROVE  ConsumerInv'
<1>1. MeetInv' /\ KnowInv' /\ FarewellInv'
  BY DEF ConsumerInv, MeetInv, Introduces, Joining, KnowInv, FarewellInv, PastFarewell
<1>2. ServeInv' /\ WalkedInv'
  BY DEF ConsumerInv, ServeInv, Served, Pending, ToWalk, BeforeSharing, Live, WalkedInv
<1>3. FreshInv' /\ PlaceInv'
  BY DEF ConsumerInv, FreshInv, ToCome, Pending, BeforeSharing, Used, PlaceInv
<1>4. ClosedInv' /\ WorkerInv' /\ HeldInv'
  BY DEF ConsumerInv, ClosedInv, WorkerInv, HeldInv, Lost
<1>5. \A p \in Peers : pc[p] \in {"consuming", "emplace"} => local[p].job \in Consumer
  BY ConsumerBasics DEF HandInv, Creating
<1>6. JobInv'
  BY <1>5 DEF ConsumerInv, JobInv, Lost
<1>7. QED BY <1>1, <1>2, <1>3, <1>4, <1>6 DEF ConsumerInv

\* What is still someone's is the worker's, or is about to be no one's.
LEMMA LiveMeans ==
  ASSUME TypeOK, HandInv, OwnInv, StoreInv, SharedInv, NEW m \in Producers, Live(m)
  PROVE  \/ m \in wProducers
         \/ pc[Owner[m]] \in {"closing", "erase"} /\ local[Owner[m]].prod = m
         \/ pc[Owner[m]] \in Leaving
  BY ServeBasics DEF Live, StoreInv, SharedInv, VideoShared, ClosesSend, Leaving

\* The notice that a consumer's producer is closed reaches the room.
LEMMA CloseConsumer ==
  ASSUME BaseInv, ProducerInv, ConsumerInv, PoolProducerClose
  PROVE  ConsumerInv'
<1> USE DEF BaseInv, ProducerInv, ConsumerInv
<1> DEFINE c == Head(inbox).consumer
<1>1. /\ c \in Consumer /\ Closing(c)
      /\ \A e \in Consumer : (Closing(e)' => Closing(e)) /\ (Closing(e) => e = c \/ Closing(e)')
      /\ \A y \in Peers : Refusing(y)' <=> Refusing(y)
  BY PoolCloseMeans
<1>2. /\ consumers' = [consumers EXCEPT ![c.peer] = @ \ {c}]
      /\ told' = IF c \in consumers[c.peer]
                 THEN [told EXCEPT ![c.peer] = @ \ {c}] ELSE told
      /\ missed' = IF c \in consumers[c.peer] /\ c \in told[c.peer]
                   THEN missed ELSE missed \cup {c}
      /\ UNCHANGED <<pc, local, joined, producers, shared, closed, wTransports, wProducers,
                     wConsumers, made, videos, knows, ghosts, reply>>
  BY DEF PoolProducerClose, sharing, workerVars, clientDid
<1> HIDE DEF c
<1>3. /\ c.peer \in Peers /\ c.prod \in Producers /\ c.prod \in made
      /\ c.prod \notin wProducers
  BY <1>1, ConsumerBasics DEF ClosedInv
<1>4. \A x \in Peers, e \in Consumer :
        /\ e \in consumers'[x] <=> e \in consumers[x] /\ ~(e = c /\ x = c.peer)
        /\ e \in told'[x] <=>
             e \in told[x] /\ ~(e = c /\ x = c.peer /\ c \in consumers[c.peer])
  BY <1>2, <1>3 DEF TypeOK
<1>5. \A x \in Peers : consumers'[x] \subseteq consumers[x] /\ told'[x] \subseteq told[x]
  BY <1>2, <1>3 DEF TypeOK
<1>6. \A x \in Peers : Refused(x)' <=> Refused(x)
  BY <1>1, <1>2 DEF Refused
<1>7. MeetInv' /\ KnowInv' /\ FarewellInv' /\ WalkedInv'
  BY <1>2 DEF MeetInv, Introduces, Joining, KnowInv, FarewellInv, PastFarewell, WalkedInv
<1>8. ASSUME NEW p \in joined, NEW m \in Producers, p # Owner[m], Live(m)
      PROVE  Served(p, m)'
  <2>1. Served(p, m) /\ p \in Peers
    BY <1>8, ServeBasics DEF ServeInv
  <2>2. CASE m = c.prod
    <3>1. \/ pc[Owner[m]] \in {"closing", "erase"} /\ local[Owner[m]].prod = m
          \/ pc[Owner[m]] \in Leaving
      BY <1>3, <1>8, <2>2, LiveMeans
    <3>2. QED BY <1>2, <3>1 DEF Served
  <2>3. CASE m # c.prod
    <3>1. \A e \in consumers[p] : e.prod = m => e \in consumers'[p]
      BY <1>4, <2>1, <2>3, ConsumerBasics
    <3>2. QED BY <1>2, <2>1, <3>1 DEF Served, Pending, ToWalk, BeforeSharing
  <2>4. QED BY <2>2, <2>3
<1>9. ServeInv'
  BY <1>2, <1>8 DEF ServeInv, Live
<1>10. FreshInv' /\ PlaceInv'
  <2>1. \A e \in Consumer : (Used(e)' => Used(e)) /\ (ToCome(e)' <=> ToCome(e))
    BY <1>2, <1>5, ConsumerBasics DEF Used, ToCome, Pending, BeforeSharing
  <2>2. FreshInv'
    BY <2>1 DEF FreshInv
  <2>3. \A p \in Peers : pc[p] = "tell" => local[p].job \in Consumer
    BY JobMeans DEF HandInv, Creating
  <2>4. PlaceInv'
    BY <1>2, <1>5, <2>3, ConsumerBasics DEF PlaceInv
  <2>5. QED BY <2>2, <2>4
<1>11. ClosedInv'
  BY <1>1, <1>2, <1>3 DEF ClosedInv
<1>12. WorkerInv'
  BY <1>2, <1>3, <1>4, ConsumerBasics DEF WorkerInv, Lost
<1>13. HeldInv'
  BY <1>1, <1>2, <1>4, ConsumerBasics DEF HeldInv, Lost
<1>14. ASSUME NEW p \in Peers, pc[p] \in {"consuming", "emplace"}, local[p].job = c
       PROVE  c \in missed'
  <2>1. local[p].job # None /\ c.maker = p
    BY <1>14, JobMeans DEF HandInv, Creating
  <2>2. ToCome(c)
    BY <1>14, <2>1 DEF ToCome, Pending
  <2>3. QED BY <1>1, <1>2, <2>2 DEF FreshInv, Used
<1>15. ASSUME NEW p \in Peers, pc[p] = "tell", local[p].job = c
       PROVE  c \in missed'
  BY <1>2, <1>15 DEF PlaceInv
<1>16. JobInv'
  <2>1. \A p \in Peers : pc[p] \in {"consuming", "emplace", "tell"} => local[p].job \in Consumer
    BY JobMeans DEF HandInv, Creating
  <2>2. missed \subseteq missed'
    BY <1>2
  <2>3. QED BY <1>1, <1>2, <1>4, <1>6, <1>14, <1>15, <2>1, <2>2, ConsumerBasics DEF JobInv, Lost
<1>17. QED BY <1>7, <1>9, <1>10, <1>11, <1>12, <1>13, <1>16

LEMMA ConsumerStep ==
  BaseInv /\ ProducerInv /\ ConsumerInv /\ [Next]_vars => ConsumerInv'
<1> SUFFICES ASSUME BaseInv, ProducerInv, ConsumerInv, [Next]_vars PROVE ConsumerInv'
  OBVIOUS
<1>1. CASE UNCHANGED vars
  <2>1. /\ UNCHANGED <<pc, local, joined, producers, consumers, shared, closed, wTransports,
                       wProducers, wConsumers, made, videos, told, knows, ghosts, missed>>
        /\ inbox' = inbox /\ reply' = reply
    BY <1>1 DEF vars, roomVars, sharing, workerVars, clientVars, history, clientDid
  <2>2. QED BY <2>1, RefusedStays, InboxStays, ConsumerStays DEF BaseInv
<1>2. CASE PoolResponse
  <2>1. UNCHANGED <<pc, local, joined, producers, consumers, shared, closed, wTransports,
                    wProducers, wConsumers, made, videos, told, knows, ghosts, missed>>
    BY <1>2 DEF PoolResponse, roomVars, sharing, workerVars, clientVars, history, clientDid
  <2>2. \A c \in Consumer : Closing(c)' <=> Closing(c)
    BY <1>2, PoolResponseMeans DEF BaseInv
  <2>3. \A x \in Peers : Refused(x)' <=> Refused(x)
    BY <1>2, RefusedPool DEF BaseInv, Pool
  <2>4. QED BY <2>1, <2>2, <2>3, ConsumerStays DEF BaseInv
<1>3. CASE PoolProducerClose
  BY <1>3, CloseConsumer
<1>4. ASSUME NEW p \in Peers, crashed = None,
             JoinStep(p) \/ ConsumeStep(p) \/ ProduceStep(p) \/ CloseStep(p) \/ LeaveStep(p)
      PROVE  ConsumerInv'
  <2> USE <1>4 DEF BaseInv, ProducerInv, ConsumerInv
  <2>1. CASE JoinStep(p)
    BY <2>1, JoinKnow, JoinServe, JoinFresh, JoinMirror
  <2>2. CASE ConsumeStep(p)
    BY <2>2, ConsumeKnow, ConsumeServe, ConsumeFresh, ConsumeMirror
  <2>3. CASE ProduceStep(p)
    BY <2>3, ProduceKnow, ProduceServe, ProduceFresh, ProduceMirror
  <2>4. CASE CloseStep(p)
    BY <2>4, CloseKnow, CloseServe, CloseFresh, CloseMirror
  <2>5. CASE LeaveStep(p)
    BY <2>5, LeaveKnow, LeaveServe, LeaveFresh, LeaveMirror
  <2>6. QED BY <2>1, <2>2, <2>3, <2>4, <2>5
<1>5. QED BY <1>1, <1>2, <1>3, <1>4, Steps DEF Pool

\* The inductive invariant of the room: every step of a handler, the worker and the
\* pool thread keeps it.
THEOREM RoomInvariant == Spec => []RoomInv
<1>1. Init => RoomInv
  BY TypeInit, ProducerInit, ConsumerInit DEF RoomInv, BaseInv
<1>2. RoomInv /\ [Next]_vars => RoomInv'
  BY BaseStep, ProducerStep, ConsumerStep DEF RoomInv
<1>3. QED BY <1>1, <1>2, PTL DEF Spec

-----------------------------------------------------------------------------
(* What it says of a quiet room                                            *)

LEMMA QuietMeans ==
  ASSUME RoomInv, Quiet
  PROVE  /\ \A p \in Peers : /\ pc[p] = "idle" \/ pc[p] = "gone"
                             /\ p \in peerMap => pc[p] = "idle"
                             /\ p \notin peerMap => pc[p] = "gone"
                             /\ local[p].todo = {} /\ local[p].job = None
                             /\ local[p].visit = {} /\ local[p].reading = None
         /\ \A c : ~Closing(c)
<1> USE DEF RoomInv, BaseInv, ProducerInv
<1>1. \A p \in Peers : pc[p] = "idle" \/ pc[p] = "gone"
  BY DEF Quiet
<1>2. \A p \in Peers : p \in peerMap <=> pc[p] # "gone"
  BY DEF StageInv, Staged
<1>3. \A p \in Peers : local[p].todo = {} /\ local[p].job = None
  BY <1>1 DEF TaskInv, Tasked, Consuming, Creating
<1>4. \A p \in Peers : local[p].visit = {} /\ local[p].reading = None
  BY <1>1 DEF StageInv, Staged, Joining, Consuming, LockInv, LocksAreReleased
<1>5. \A c : ~Closing(c)
  BY DEF Quiet, Closing
<1>6. QED BY <1>1, <1>2, <1>3, <1>4, <1>5

\* Once the room is quiet, every joined peer has a consumer of every producer that
\* another holds and of the shared video, whatever joins, produces, closes, refusals
\* and leaves have interleaved (Room::onHandleJoin, onHandleProduce, createConsumer).
THEOREM AllConsume == Spec => []EveryoneConsumes
<1>1. ASSUME RoomInv, Quiet, NEW p \in Present, NEW q \in Present, p # q,
             NEW m \in producers[q] \cup {v \in {shared} \ closed : v # None /\ Owner[v] = q}
      PROVE  \E c \in consumers[p] : c.prod = m
  <2> USE <1>1 DEF RoomInv, BaseInv, ProducerInv, ConsumerInv
  <2>1. p \in joined /\ p \in Peers /\ q \in Peers /\ pc[p] = "idle" /\ pc[q] = "idle"
    BY QuietMeans DEF Present, TypeOK
  <2>2. m \in Producers /\ Owner[m] = q /\ Live(m)
    BY <2>1, Basics DEF OwnInv, Live, TypeOK
  <2>3. Served(p, m)
    BY <2>1, <2>2 DEF ServeInv
  <2>4. ~Pending(p, p, m) /\ ~Pending(q, p, m)
    BY <2>1, QuietMeans DEF Pending
  <2>5. ~ToWalk(p, m)
    BY <2>1, QuietMeans DEF ToWalk, BeforeSharing
  <2>6. QED BY <2>1, <2>2, <2>3, <2>4, <2>5 DEF Served, Leaving
<1>2. RoomInv => EveryoneConsumes
  BY <1>1 DEF EveryoneConsumes
<1>3. QED BY <1>2, RoomInvariant, PTL

\* Once the room is quiet, each client knows exactly the peers that are joined, but
\* for those that were told it while they were past their farewell.
THEOREM PeersKnow == Spec => []PeersKnowEachOther
<1>1. ASSUME RoomInv, Quiet, NEW p \in Present
      PROVE  /\ Present \ {p} \subseteq knows[p]
             /\ \A q \in knows[p] \ Present : <<p, q>> \in ghosts
  <2> USE <1>1 DEF RoomInv, BaseInv, ProducerInv, ConsumerInv
  <2>1. p \in joined /\ p \in Peers /\ pc[p] = "idle"
    BY QuietMeans DEF Present, TypeOK
  <2>2. ASSUME NEW q \in Present, q # p PROVE q \in knows[p]
    <3>1. q \in joined /\ q \in Peers /\ pc[q] = "idle"
      BY QuietMeans DEF Present, TypeOK
    <3>2. QED BY <2>1, <2>2, <3>1 DEF MeetInv, Introduces, Joining, Consuming, Leaving
  <2>3. ASSUME NEW q \in knows[p], q \notin Present PROVE <<p, q>> \in ghosts
    <3>1. q \in joined /\ q \in Peers
      BY <2>1 DEF KnowInv, TypeOK
    <3>2. pc[q] = "gone"
      BY <2>3, <3>1, QuietMeans DEF Present
    <3>3. QED BY <2>1, <3>2 DEF FarewellInv, PastFarewell
  <2>4. QED BY <2>2, <2>3
<1>2. RoomInv => PeersKnowEachOther
  BY <1>1 DEF PeersKnowEachOther
<1>3. QED BY <1>2, RoomInvariant, PTL

\* A set of which every member outside M is in some f[p], and holds every such member.
LEMMA UnionLessMissed ==
  ASSUME NEW W, NEW D, NEW f, NEW M,
         \A c \in W : c \notin M /\ \E p \in D : c \in f[p],
         \A p \in D : \A c \in f[p] : c \notin M => c \in W
  PROVE  W = (UNION {f[p] : p \in D}) \ M
<1>1. ASSUME NEW c PROVE c \in W <=> c \in UNION {f[p] : p \in D} /\ c \notin M
  OBVIOUS
<1>2. QED BY <1>1

\* Once the room is quiet, the router's producers are the worker's, and the consumers
\* the room holds the worker's, but for those whose closing came before the room
\* listened.
THEOREM RoomMirrorsWorker == Spec => []MirrorsWorker
<1>1. ASSUME RoomInv, Quiet
      PROVE  /\ router = wProducers
             /\ wConsumers = (UNION {consumers[p] : p \in peerMap}) \ missed
  <2> USE <1>1 DEF RoomInv, BaseInv, ProducerInv, ConsumerInv
  <2>1. ASSUME NEW m \in router PROVE m \in wProducers
    <3>1. m \in Producers /\ Owner[m] \in Peers
      BY Basics
    <3>2. QED BY <2>1, <3>1, QuietMeans DEF RouteInv, Replacing, ClosesSend
  <2>2. ASSUME NEW m \in wProducers PROVE m \in router
    <3>1. Owner[m] \in Peers
      BY Basics
    <3>2. QED BY <2>2, <3>1, QuietMeans DEF WorkInv
  <2>3. ASSUME NEW c \in wConsumers
        PROVE  c.peer \in peerMap /\ c \in consumers[c.peer] /\ c \notin missed
    <3>1. c \in Consumer /\ c.peer \in Peers /\ c.maker \in Peers
      BY ConsumerBasics
    <3>2. ~Lost(c) /\ c.prod \in wProducers /\ c \in consumers[c.peer]
      BY <3>1, QuietMeans DEF WorkerInv
    <3>3. pc[c.peer] # "gone"
      BY <3>1, <3>2 DEF Lost, StageInv, Staged, Directions
    <3>4. QED BY <3>1, <3>2, <3>3, QuietMeans DEF ClosedInv
  <2>4. ASSUME NEW p \in peerMap, NEW c \in consumers[p], c \notin missed
        PROVE  c \in wConsumers
    <3>1. p \in Peers /\ c \in Consumer /\ c.peer = p
      BY ConsumerBasics DEF PlaceInv, TypeOK
    <3>2. ~Lost(c)
      BY <3>1, QuietMeans DEF Lost, StageInv, Staged, Directions
    <3>3. QED BY <2>4, <3>1, <3>2, QuietMeans DEF HeldInv
  <2>5. \A c \in wConsumers :
          c \notin missed /\ \E p \in peerMap : c \in consumers[p]
    BY <2>3
  <2>6. \A p \in peerMap : \A c \in consumers[p] : c \notin missed => c \in wConsumers
    BY <2>4
  <2>7. wConsumers = (UNION {consumers[p] : p \in peerMap}) \ missed
    BY ONLY <2>5, <2>6, UnionLessMissed
  <2>8. QED BY <2>1, <2>2, <2>7
<1>2. RoomInv => MirrorsWorker
  BY <1>1 DEF MirrorsWorker
<1>3. QED BY <1>2, RoomInvariant, PTL

\* Once the room is quiet, no client is left with a consumer of a closed producer,
\* unless the notice came while the consumer was being created.
THEOREM NoStale == Spec => []NoStaleConsumer
<1>1. ASSUME RoomInv, Quiet, NEW p \in Present, NEW c \in told[p]
      PROVE  c.prod \in wProducers \/ c \in missed
  <2> USE <1>1 DEF RoomInv, BaseInv, ProducerInv, ConsumerInv
  <2>1. p \in Peers /\ pc[p] = "idle" /\ c \in Consumer /\ c.peer = p
    BY QuietMeans, ConsumerBasics DEF Present, PlaceInv, TypeOK
  <2>2. ~Lost(c)
    BY <2>1 DEF Lost, StageInv, Staged, Directions
  <2>3. c \in wConsumers \/ c \in missed
    BY <2>1, <2>2, QuietMeans DEF HeldInv
  <2>4. QED BY <2>3 DEF WorkerInv
<1>2. RoomInv => NoStaleConsumer
  BY <1>1 DEF NoStaleConsumer
<1>3. QED BY <1>2, RoomInvariant, PTL

=============================================================================
