----------------------------- MODULE LobbyProofs -----------------------------
(***************************************************************************)
(* Proofs about Lobby, for any sockets and any peer ids.                   *)
(*                                                                         *)
(* TypeInv holds always; while no opening has raced (CalmInv) one handler  *)
(* opens at most, nobody closes meanwhile, and every handler finds the map *)
(* and the rooms as those before it left them.                             *)
(***************************************************************************)
EXTENDS Lobby, FiniteSetTheorems, TLAPS

\* The sockets that cannot create a room any more.
Makers == {s \in Sockets : pc[s] \notin {"new", "get", "create"}}

\* Where a peer stands that is not yet taken out of its room's map.
StayingPC == {"open", "find", "leave", "data", "remove", "take", "erase"}

\* What is known of a socket from where its handler stands.
Placed ==
  /\ \A s \in Sockets :
       /\ pc[s] \in {"emplace", "enter", "add", "take", "erase", "check", "delete", "isEmpty", "deleteRoom"}
            => room[s] \in Rooms
       /\ pc[s] \in {"new", "get", "create", "emplace", "enter"} => s \notin listening
       /\ pc[s] = "add" => home[s] = room[s]
       /\ pc[s] \in {"add"} \cup ClosingPC => s \in listening
  /\ \A s \in listening : home[s] \in Rooms
  /\ \A r \in Rooms : members[r] \subseteq listening

TypeInv == TypeOK /\ created <= Cardinality(Makers) /\ Placed

\* A peer that is not in its room shares its id with another socket.
StayInv ==
  \A s \in listening : pc[s] = "open" =>
    s \in members[home[s]] \/ \E t \in Sockets \ {s} : PeerId[t] = PeerId[s]

-----------------------------------------------------------------------------
(* The lobby while no opening has raced                                    *)

\* Only the room in the map has peers, and it is open, with peers in it, unless
\* somebody is about to fill or to delete it.
RoomsCalm ==
  /\ roomMap # Null
  /\ roomMap \in Rooms => roomMap <= created
  /\ \A r \in Rooms :
       /\ r # roomMap \/ r \in closed => members[r] = {}
       /\ r > created => r \notin closed
       /\ r = roomMap /\ members[r] = {} =>
            \E s \in Sockets : /\ pc[s] \in {"enter", "add", "check", "delete", "isEmpty", "deleteRoom"}
                               /\ room[s] = r
       /\ r <= created /\ members[r] = {} /\ r \notin closed =>
            \E s \in Sockets : pc[s] \in {"emplace", "enter", "add", "check"} /\ room[s] = r

\* The peers of a room are the open ones whose home it is, no two of one id.
MembersCalm ==
  /\ \A s \in listening :
       pc[s] \in StayingPC => s \in members[home[s]]
  /\ \A r \in Rooms : \A s \in members[r] :
       /\ pc[s] \in StayingPC /\ home[s] = r
       /\ \A t \in members[r] : PeerId[t] = PeerId[s] => t = s
  /\ \A s \in Sockets \ listening : pc[s] = "open" =>
       s \in failed \/ \E t \in listening : PeerId[t] = PeerId[s]

OpeningCalm ==
  \A s \in Sockets :
    /\ pc[s] = "get" => roomMap \in Rooms /\ members[roomMap] # {}
    /\ pc[s] \in {"create", "emplace"} => roomMap = Absent
    /\ pc[s] = "emplace" => room[s] = created
    /\ pc[s] \in {"emplace", "enter", "add"} => room[s] \notin closed
    /\ pc[s] \in {"enter", "add"} => roomMap = room[s]
    /\ pc[s] = "add" => SamePeer(s, room[s]) = {}

ClosingCalm ==
  \A s \in Sockets :
    /\ pc[s] \in {"leave", "data", "remove", "take", "erase"} => room[s] = home[s]
    /\ pc[s] \in {"check", "delete", "isEmpty", "deleteRoom"} => roomMap \in {room[s], Absent}
    /\ pc[s] = "check" => room[s] <= created
    /\ pc[s] \in {"delete", "deleteRoom"} => members[room[s]] = {}
    /\ s \in listening /\ pc[s] \in {"data", "remove", "take", "erase", "check", "delete", "isEmpty",
                                     "deleteRoom", "gone"}
         => s \in left

Calm == ~Racing /\ RoomsCalm /\ MembersCalm /\ OpeningCalm /\ ClosingCalm
CalmInv == ~raced => Calm

-----------------------------------------------------------------------------
(* Type correctness                                                        *)

LEMMA StepCases ==
  ASSUME [Next]_vars
  PROVE  \/ \E s \in Sockets :
              \/ Contains(s) \/ Get(s) \/ Create(s) \/ CreateNull(s) \/ CreateThrows(s)
              \/ Emplace(s) \/ Enter(s) \/ AddPeer(s) \/ Destroy(s) \/ Find(s) \/ LeavePeer(s)
              \/ PeerData(s) \/ RemovePeer(s) \/ RemoveNull(s) \/ TakePeer(s) \/ ErasePeer(s)
              \/ CheckEmpty(s) \/ OnRoomClose(s) \/ IsEmpty(s) \/ DeleteRoom(s)
         \/ UNCHANGED vars
BY DEF Next, Open, CloseSocket

\* There are no more rooms than sockets that may have created one.
LEMMA MakersFinite == IsFiniteSet(Makers) /\ Cardinality(Makers) <= Cardinality(Sockets)
                      /\ Cardinality(Makers) \in Nat /\ Cardinality(Sockets) \in Nat
<1>1. Makers \subseteq Sockets
  BY DEF Makers
<1>2. QED BY <1>1, SocketsAssumption, FS_Subset, FS_CardinalityType

LEMMA CountKept ==
  ASSUME TypeInv, created' = created,
         \A s \in Sockets : pc[s] \notin {"new", "get", "create"}
                               => pc'[s] \notin {"new", "get", "create"}
  PROVE  created' <= Cardinality(Makers')
<1>1. Makers \subseteq Makers' /\ Makers' \subseteq Sockets
  BY DEF Makers
<1>2. IsFiniteSet(Makers') /\ Cardinality(Makers) <= Cardinality(Makers')
  BY <1>1, SocketsAssumption, FS_Subset
<1>3. Cardinality(Makers') \in Nat /\ Cardinality(Makers) \in Nat
  BY <1>2, MakersFinite, FS_CardinalityType
<1>4. created \in Nat /\ created <= Cardinality(Makers)
  BY MakersFinite DEF TypeInv, TypeOK
<1>5. QED BY <1>2, <1>3, <1>4

LEMMA TypeInit == Init => TypeInv
<1> SUFFICES ASSUME Init PROVE TypeInv
  OBVIOUS
<1>1. Cardinality(Sockets) \in Nat
  BY MakersFinite
<1>2. TypeOK
  <2>1. created \in 0 .. Cardinality(Sockets)
    BY <1>1 DEF Init
  <2>2. members \in [Rooms -> SUBSET Sockets]
    BY DEF Init
  <2>3. /\ pc \in [Sockets -> {"new", "open", "gone"} \cup OpeningPC \cup ClosingPC]
        /\ room \in [Sockets -> Rooms \cup {Null}] /\ home \in [Sockets -> Rooms \cup {Null}]
    BY DEF Init
  <2>4. QED BY <2>1, <2>2, <2>3 DEF Init, TypeOK
<1>3. created <= Cardinality(Makers)
  BY MakersFinite DEF Init
<1>4. Placed
  BY DEF Init, Placed, ClosingPC
<1>5. QED BY <1>2, <1>3, <1>4 DEF TypeInv

\* The steps of a handler that opens a socket.
LEMMA CreateType ==
  ASSUME TypeInv, NEW s \in Sockets, Create(s), raced' \in BOOLEAN
  PROVE  TypeInv'
<1> USE DEF Goto
<1>1. /\ pc[s] = "create" /\ pc' = [pc EXCEPT ![s] = "emplace"]
      /\ created' = created + 1 /\ room' = [room EXCEPT ![s] = created + 1]
      /\ UNCHANGED <<roomMap, closed, members, home, listening, heard, left, crashed, failed>>
  BY DEF Create
<1>2. /\ created \in Nat /\ created <= Cardinality(Makers)
      /\ pc \in [Sockets -> {"new", "open", "gone"} \cup OpeningPC \cup ClosingPC]
  BY MakersFinite DEF TypeInv, TypeOK
<1>3. s \notin Makers /\ Makers' = Makers \cup {s} /\ Makers' \subseteq Sockets
  BY <1>1, <1>2 DEF Makers
<1>4. Cardinality(Makers') = Cardinality(Makers) + 1 /\ Cardinality(Makers') <= Cardinality(Sockets)
  <2>1. Cardinality(Makers \cup {s}) = Cardinality(Makers) + 1
    BY <1>3, MakersFinite, FS_AddElement
  <2>2. Cardinality(Makers') <= Cardinality(Sockets)
    BY <1>3, SocketsAssumption, FS_Subset
  <2>3. QED BY <1>3, <2>1, <2>2
<1>5. created' <= Cardinality(Makers') /\ created' \in Rooms /\ created' \in 0 .. Cardinality(Sockets)
  BY <1>1, <1>2, <1>4, MakersFinite DEF Rooms
<1>6. TypeOK'
  BY <1>1, <1>5 DEF TypeInv, TypeOK, OpeningPC
<1>7. Placed'
  BY <1>1, <1>2, <1>5 DEF TypeInv, TypeOK, Placed, ClosingPC
<1>8. QED BY <1>5, <1>6, <1>7 DEF TypeInv

LEMMA OpenType ==
  ASSUME TypeInv, NEW s \in Sockets, raced' \in BOOLEAN,
         \/ Contains(s) \/ Get(s) \/ CreateNull(s) \/ CreateThrows(s)
         \/ Emplace(s) \/ Enter(s) \/ AddPeer(s)
  PROVE  TypeInv'
<1> USE DEF Goto, TypeInv
<1>1. created' = created
  BY DEF Contains, Get, CreateNull, CreateThrows, Emplace, Enter, AddPeer
<1>2. pc \in [Sockets -> {"new", "open", "gone"} \cup OpeningPC \cup ClosingPC]
  BY DEF TypeOK
<1>3. Subscript \in Rooms \cup {Null} /\ Null \notin Rooms /\ Absent \notin Rooms
  BY NullAssumption DEF Subscript, TypeOK
<1>4. created' <= Cardinality(Makers')
  <2>1. \A t \in Sockets : pc[t] \notin {"new", "get", "create"}
                              => pc'[t] \notin {"new", "get", "create"}
    BY <1>2 DEF Contains, Get, CreateNull, CreateThrows, Emplace, Enter, AddPeer
  <2>2. QED BY <1>1, <2>1, CountKept
<1>5. CASE Contains(s)
  <2>1. TypeOK'
    BY <1>1, <1>5 DEF Contains, TypeOK, OpeningPC
  <2>2. Placed'
    BY <1>2, <1>5 DEF Contains, Placed, ClosingPC
  <2>3. QED BY <1>4, <2>1, <2>2
<1>6. CASE Get(s)
  <2>1. TypeOK'
    BY <1>1, <1>3, <1>6 DEF Get, TypeOK, OpeningPC
  <2>2. Placed'
    BY <1>2, <1>3, <1>6 DEF Get, Placed, ClosingPC, TypeOK
  <2>3. QED BY <1>4, <2>1, <2>2
<1>7. CASE Emplace(s)
  <2>1. TypeOK'
    BY <1>1, <1>7 DEF Emplace, TypeOK, OpeningPC
  <2>2. Placed'
    BY <1>2, <1>7 DEF Emplace, Placed, ClosingPC
  <2>3. QED BY <1>4, <2>1, <2>2
<1>8. CASE Enter(s)
  <2>1. TypeOK'
    BY <1>1, <1>8 DEF Enter, TypeOK, OpeningPC
  <2>2. Placed'
    BY <1>2, <1>8 DEF Enter, Placed, ClosingPC, TypeOK
  <2>3. QED BY <1>4, <2>1, <2>2
<1>9. CASE AddPeer(s)
  <2>1. TypeOK'
    BY <1>1, <1>9 DEF AddPeer, TypeOK, OpeningPC
  <2>2. Placed'
    BY <1>2, <1>9 DEF AddPeer, Placed, ClosingPC, TypeOK
  <2>3. QED BY <1>4, <2>1, <2>2
<1>10. CASE CreateNull(s) \/ CreateThrows(s)
  <2>1. TypeOK'
    BY <1>1, <1>10 DEF CreateNull, CreateThrows, TypeOK, OpeningPC
  <2>2. Placed'
    BY <1>2, <1>10 DEF CreateNull, CreateThrows, Placed, ClosingPC, TypeOK
  <2>3. QED BY <1>4, <2>1, <2>2
<1>11. QED BY <1>5, <1>6, <1>7, <1>8, <1>9, <1>10

\* The steps of a handler that destroys one.
LEMMA CloseType ==
  ASSUME TypeInv, NEW s \in Sockets, raced' \in BOOLEAN,
         \/ Destroy(s) \/ Find(s) \/ LeavePeer(s) \/ PeerData(s) \/ RemovePeer(s) \/ RemoveNull(s)
         \/ TakePeer(s) \/ ErasePeer(s) \/ CheckEmpty(s) \/ OnRoomClose(s) \/ IsEmpty(s) \/ DeleteRoom(s)
  PROVE  TypeInv'
<1> USE DEF Goto, TypeInv
<1>1. created' = created
  BY DEF Destroy, Find, LeavePeer, PeerData, RemovePeer, RemoveNull, TakePeer, ErasePeer,
         CheckEmpty, OnRoomClose, IsEmpty, DeleteRoom
<1>2. pc \in [Sockets -> {"new", "open", "gone"} \cup OpeningPC \cup ClosingPC]
  BY DEF TypeOK
<1>3. Subscript \in Rooms \cup {Null} /\ Null \notin Rooms /\ Absent \notin Rooms
  BY NullAssumption DEF Subscript, TypeOK
<1>4. created' <= Cardinality(Makers')
  <2>1. \A t \in Sockets : pc[t] \notin {"new", "get", "create"}
                              => pc'[t] \notin {"new", "get", "create"}
    BY <1>2 DEF Destroy, Find, LeavePeer, PeerData, RemovePeer, RemoveNull, TakePeer, ErasePeer,
                CheckEmpty, OnRoomClose, IsEmpty, DeleteRoom
  <2>2. QED BY <1>1, <2>1, CountKept
<1>5. CASE Destroy(s)
  <2>1. TypeOK'
    BY <1>1, <1>5 DEF Destroy, TypeOK, ClosingPC
  <2>2. Placed'
    BY <1>2, <1>5 DEF Destroy, Placed, ClosingPC
  <2>3. QED BY <1>4, <2>1, <2>2
<1>6. CASE Find(s) \/ LeavePeer(s)
  <2>1. TypeOK'
    BY <1>1, <1>3, <1>6 DEF Find, LeavePeer, TypeOK, ClosingPC
  <2>2. Placed'
    BY <1>2, <1>6 DEF Find, LeavePeer, Placed, ClosingPC, TypeOK
  <2>3. QED BY <1>4, <2>1, <2>2
<1>7. CASE PeerData(s) \/ RemovePeer(s) \/ RemoveNull(s) \/ TakePeer(s)
  <2>1. pc' \in [Sockets -> {"new", "open", "gone"} \cup OpeningPC \cup ClosingPC]
    BY <1>2, <1>7 DEF PeerData, RemovePeer, RemoveNull, TakePeer, ClosingPC
  <2>2. UNCHANGED <<roomMap, created, closed, members, room, home, listening, left, failed>>
        /\ crashed' \in BOOLEAN /\ heard' \subseteq heard
    BY <1>7 DEF PeerData, RemovePeer, RemoveNull, TakePeer, TypeOK
  <2>3. TypeOK'
    BY <2>1, <2>2 DEF TypeOK
  <2>4. Placed'
    BY <1>2, <1>7, <2>2 DEF PeerData, RemovePeer, RemoveNull, TakePeer, Placed, ClosingPC, TypeOK
  <2>5. QED BY <1>4, <2>3, <2>4
<1>8. CASE CheckEmpty(s)
  <2>1. pc[s] = "check" /\ room[s] \in Rooms
    BY <1>8 DEF CheckEmpty, Placed
  <2>2. closed' \subseteq Rooms
    BY <1>8, <2>1 DEF CheckEmpty, TypeOK
  <2>3. pc' \in [Sockets -> {"new", "open", "gone"} \cup OpeningPC \cup ClosingPC]
    BY <1>2, <1>8 DEF CheckEmpty, ClosingPC
  <2>4. TypeOK'
    BY <1>1, <1>8, <2>2, <2>3 DEF CheckEmpty, TypeOK
  <2>5. Placed'
    BY <1>2, <1>8 DEF CheckEmpty, Placed, ClosingPC
  <2>6. QED BY <1>4, <2>4, <2>5
<1>9. CASE OnRoomClose(s) \/ IsEmpty(s) \/ DeleteRoom(s)
  <2>1. TypeOK'
    BY <1>1, <1>9 DEF OnRoomClose, IsEmpty, DeleteRoom, TypeOK, ClosingPC
  <2>2. Placed'
    BY <1>2, <1>9 DEF OnRoomClose, IsEmpty, DeleteRoom, Placed, ClosingPC
  <2>3. QED BY <1>4, <2>1, <2>2
<1>10. CASE ErasePeer(s)
  <2>1. members' \in [Rooms -> SUBSET Sockets]
    BY <1>10 DEF ErasePeer, TypeOK
  <2>2. pc' \in [Sockets -> {"new", "open", "gone"} \cup OpeningPC \cup ClosingPC]
    BY <1>2, <1>10 DEF ErasePeer, ClosingPC
  <2>3. TypeOK'
    BY <1>10, <2>1, <2>2 DEF ErasePeer, TypeOK
  <2>4. Placed'
    BY <1>2, <1>10 DEF ErasePeer, Placed, ClosingPC, TypeOK
  <2>5. QED BY <1>4, <2>3, <2>4
<1>11. QED BY <1>5, <1>6, <1>7, <1>8, <1>9, <1>10

LEMMA TypeStep == TypeInv /\ [Next]_vars => TypeInv'
<1> SUFFICES ASSUME TypeInv, [Next]_vars PROVE TypeInv'
  OBVIOUS
<1>1. raced' \in BOOLEAN
  BY DEF Next, vars, TypeInv, TypeOK, Racing
<1>2. CASE UNCHANGED vars
  BY <1>2 DEF vars, TypeInv, TypeOK, Placed, Makers
<1>3. QED BY <1>1, <1>2, StepCases, CreateType, OpenType, CloseType

\* Type correctness of the lobby and its rooms: in particular there are never
\* more rooms than sockets (Lobby::getOrCreateRoom).
THEOREM LobbyTypeCorrect == Spec => []TypeOK
<1>1. TypeInv => TypeOK
  BY DEF TypeInv
<1>2. QED BY <1>1, TypeInit, TypeStep, PTL DEF Spec

-----------------------------------------------------------------------------
(* The lobby without races                                                 *)

USE DEF StayingPC

LEMMA CalmInit == Init => CalmInv
<1> SUFFICES ASSUME Init PROVE Calm
  BY DEF CalmInv
<1>1. \A s \in Sockets : pc[s] = "new"
  BY DEF Init
<1>2. ~Racing
  BY <1>1 DEF Racing, Opening, OpeningPC
<1>3. \A r \in Rooms : members[r] = {} /\ r # roomMap /\ ~(r <= created)
  BY MakersFinite, NullAssumption DEF Init, Rooms
<1>4. RoomsCalm
  BY <1>3, NullAssumption DEF Init, RoomsCalm
<1>5. MembersCalm
  BY <1>1, <1>3 DEF Init, MembersCalm
<1>6. OpeningCalm /\ ClosingCalm
  BY <1>1 DEF Init, OpeningCalm, ClosingCalm
<1>7. QED BY <1>2, <1>4, <1>5, <1>6 DEF Calm

\* Who opens without a race is alone, and who closes meets nobody opening.
LEMMA Alone ==
  ASSUME ~Racing, NEW s \in Sockets
  PROVE  /\ pc[s] \in OpeningPC =>
              \A t \in Sockets \ {s} : pc[t] \notin OpeningPC /\ pc[t] \notin ClosingPC
         /\ pc[s] \in ClosingPC => \A t \in Sockets : pc[t] \notin OpeningPC
<1>1. OpeningPC \cap ClosingPC = {}
  BY DEF OpeningPC, ClosingPC
<1>2. QED BY <1>1 DEF Racing, Opening, Closing

\* Every step of an opening is taken by the only handler that runs.
LEMMA OpeningStep ==
  ASSUME TypeInv, ~Racing, ~Racing', NEW s \in Sockets,
         \/ Contains(s) \/ Get(s) \/ Create(s) \/ CreateNull(s) \/ CreateThrows(s)
         \/ Emplace(s) \/ Enter(s) \/ AddPeer(s)
  PROVE  \A t \in Sockets \ {s} : pc[t] \in {"new", "open", "gone"} /\ pc'[t] = pc[t]
<1> USE DEF Goto
<1>1. pc \in [Sockets -> {"new", "open", "gone"} \cup OpeningPC \cup ClosingPC]
  BY DEF TypeInv, TypeOK
<1>2. \A t \in Sockets \ {s} : pc'[t] = pc[t]
  BY <1>1 DEF Contains, Get, Create, CreateNull, CreateThrows, Emplace, Enter, AddPeer
<1>3. pc[s] \in OpeningPC \/ pc'[s] \in OpeningPC
  BY <1>1 DEF Contains, Get, Create, CreateNull, CreateThrows, Emplace, Enter, AddPeer, OpeningPC
<1>4. CASE pc[s] \in OpeningPC
  BY <1>1, <1>2, <1>4, Alone
<1>5. CASE pc'[s] \in OpeningPC
  <2>1. \A t \in Sockets \ {s} : ~(pc'[t] \in OpeningPC) /\ ~(pc'[t] \in ClosingPC)
    BY <1>5 DEF Racing, Opening, Closing
  <2>2. QED BY <1>1, <1>2, <2>1
<1>6. QED BY <1>3, <1>4, <1>5

LEMMA ContainsCalm ==
  ASSUME TypeInv, Calm, ~Racing', NEW s \in Sockets, Contains(s)
  PROVE  Calm'
<1> USE DEF Goto
<1>1. /\ pc[s] = "new" /\ pc' = [pc EXCEPT ![s] = IF roomMap = Absent THEN "create" ELSE "get"]
      /\ UNCHANGED <<roomMap, created, closed, members, room, home, listening, left, crashed, failed>>
      /\ pc'[s] = IF roomMap = Absent THEN "create" ELSE "get"
  BY DEF Contains, TypeInv, TypeOK
<1>2. \A t \in Sockets \ {s} : pc[t] \in {"new", "open", "gone"} /\ pc'[t] = pc[t]
  BY OpeningStep DEF Calm
<1>3. /\ roomMap \in Rooms \cup {Absent}
      /\ \A r \in Rooms : (r = roomMap \/ r <= created) /\ members[r] = {} => r \in closed
      /\ roomMap \in Rooms => members[roomMap] # {}
  BY <1>1, <1>2 DEF TypeInv, TypeOK, Calm, RoomsCalm
<1>4. RoomsCalm'
  BY <1>1, <1>3 DEF Calm, RoomsCalm
<1>5. MembersCalm'
  BY <1>1, <1>2 DEF Calm, MembersCalm, TypeInv, Placed
<1>6. OpeningCalm'
  BY <1>1, <1>2, <1>3 DEF OpeningCalm
<1>7. ClosingCalm'
  BY <1>1, <1>2 DEF Calm, ClosingCalm
<1>8. QED BY <1>4, <1>5, <1>6, <1>7 DEF Calm

LEMMA GetCalm ==
  ASSUME TypeInv, Calm, ~Racing', NEW s \in Sockets, Get(s)
  PROVE  Calm'
<1> USE DEF Goto
<1>1. pc[s] = "get" /\ roomMap \in Rooms /\ members[roomMap] # {} /\ Subscript = roomMap
  BY NullAssumption DEF Get, Calm, OpeningCalm, Subscript
<1>2. /\ pc' = [pc EXCEPT ![s] = "enter"] /\ room' = [room EXCEPT ![s] = roomMap]
      /\ UNCHANGED <<roomMap, created, closed, members, home, listening, left, crashed, failed>>
      /\ pc'[s] = "enter" /\ room'[s] = roomMap
  BY <1>1, NullAssumption DEF Get, TypeInv, TypeOK
<1>3. \A t \in Sockets \ {s} : /\ pc[t] \in {"new", "open", "gone"}
                               /\ pc'[t] = pc[t] /\ room'[t] = room[t]
  BY <1>2, OpeningStep DEF Calm, TypeInv, TypeOK
<1>4. RoomsCalm'
  BY <1>1, <1>2, <1>3 DEF Calm, RoomsCalm
<1>5. MembersCalm'
  BY <1>1, <1>2, <1>3 DEF Calm, MembersCalm, TypeInv, Placed
<1>6. OpeningCalm'
  BY <1>1, <1>2, <1>3 DEF Calm, OpeningCalm, RoomsCalm
<1>7. ClosingCalm'
  BY <1>1, <1>2, <1>3 DEF Calm, ClosingCalm
<1>8. QED BY <1>4, <1>5, <1>6, <1>7 DEF Calm

LEMMA CreateCalm ==
  ASSUME TypeInv, TypeInv', Calm, ~Racing', NEW s \in Sockets, Create(s)
  PROVE  Calm'
<1> USE DEF Goto
<1>1. /\ pc[s] = "create" /\ pc' = [pc EXCEPT ![s] = "emplace"]
      /\ created' = created + 1 /\ room' = [room EXCEPT ![s] = created + 1]
      /\ UNCHANGED <<roomMap, closed, members, home, listening, left, crashed, failed>>
      /\ pc'[s] = "emplace" /\ room'[s] = created + 1
  BY DEF Create, TypeInv, TypeOK
<1>2. \A t \in Sockets \ {s} : /\ pc[t] \in {"new", "open", "gone"}
                               /\ pc'[t] = pc[t] /\ room'[t] = room[t]
  BY <1>1, OpeningStep DEF Calm, TypeInv, TypeOK
<1>3. roomMap = Absent /\ Absent \notin Rooms /\ \A r \in Rooms : members[r] = {}
  BY <1>1, NullAssumption DEF Calm, OpeningCalm, RoomsCalm
<1>4. /\ created \in Nat /\ created + 1 \in Rooms /\ \A r \in Rooms : r \in Nat
      /\ created + 1 \notin closed
  <2>1. created \in Nat /\ \A r \in Rooms : r \in Nat
    BY MakersFinite DEF TypeInv, TypeOK, Rooms
  <2>2. created + 1 \in Rooms
    BY <1>1 DEF TypeInv, Placed
  <2>3. QED BY <2>1, <2>2 DEF Calm, RoomsCalm
<1>5. RoomsCalm'
  <2>1. ASSUME NEW r \in Rooms, r > created' PROVE r \notin closed'
    BY <1>1, <1>4, <2>1 DEF Calm, RoomsCalm
  <2>2. ASSUME NEW r \in Rooms, r <= created', r \notin closed'
        PROVE  \E t \in Sockets : pc'[t] \in {"emplace", "enter", "add", "check"} /\ room'[t] = r
    <3>1. CASE r = created + 1
      BY <1>1, <3>1
    <3>2. CASE r <= created
      <4>1. \E t \in Sockets : pc[t] \in {"emplace", "enter", "add", "check"} /\ room[t] = r
        BY <1>1, <1>3, <2>2, <3>2 DEF Calm, RoomsCalm
      <4>2. QED BY <1>1, <1>2, <4>1
    <3>3. QED BY <1>1, <1>4, <2>2, <3>1, <3>2
  <2>3. QED BY <1>1, <1>3, <2>1, <2>2, NullAssumption DEF RoomsCalm
<1>6. MembersCalm'
  BY <1>1, <1>2, <1>3 DEF Calm, MembersCalm, TypeInv, Placed
<1>7. OpeningCalm'
  BY <1>1, <1>2, <1>3, <1>4 DEF OpeningCalm
<1>8. ClosingCalm'
  BY <1>1, <1>2, <1>3 DEF Calm, ClosingCalm
<1>9. QED BY <1>5, <1>6, <1>7, <1>8 DEF Calm

\* A socket whose room could not be created leaves nothing behind.
LEMMA FailCalm ==
  ASSUME TypeInv, Calm, ~Racing', NEW s \in Sockets, CreateNull(s) \/ CreateThrows(s)
  PROVE  Calm'
<1> USE DEF Goto
<1>1. /\ pc[s] = "create" /\ pc'[s] \in {"open", "gone"} /\ s \in failed' /\ failed \subseteq failed'
      /\ UNCHANGED <<roomMap, created, closed, members, room, home, listening, left>>
      /\ s \notin listening
  BY DEF CreateNull, CreateThrows, TypeInv, TypeOK, Placed
<1>2. \A t \in Sockets \ {s} : pc[t] \in {"new", "open", "gone"} /\ pc'[t] = pc[t]
  BY OpeningStep DEF Calm
<1>3. \A r \in Rooms : members[r] = {}
  BY <1>1, NullAssumption DEF Calm, OpeningCalm, RoomsCalm
<1>4. RoomsCalm'
  BY <1>1, <1>2, <1>3 DEF Calm, RoomsCalm
<1>5. MembersCalm'
  BY <1>1, <1>2, <1>3 DEF Calm, MembersCalm, TypeInv, TypeOK, Placed
<1>6. OpeningCalm'
  BY <1>1, <1>2 DEF OpeningCalm
<1>7. ClosingCalm'
  BY <1>1, <1>2 DEF Calm, ClosingCalm
<1>8. QED BY <1>4, <1>5, <1>6, <1>7 DEF Calm

LEMMA EmplaceCalm ==
  ASSUME TypeInv, Calm, ~Racing', NEW s \in Sockets, Emplace(s)
  PROVE  Calm'
<1> USE DEF Goto
<1>1. /\ pc[s] = "emplace" /\ pc' = [pc EXCEPT ![s] = "enter"]
      /\ roomMap = Absent /\ roomMap' = created /\ room[s] = created /\ created \notin closed
      /\ UNCHANGED <<created, closed, members, room, home, listening, left, crashed, failed>>
      /\ pc'[s] = "enter"
  BY DEF Emplace, TypeInv, TypeOK, Calm, OpeningCalm
<1>2. \A t \in Sockets \ {s} : pc[t] \in {"new", "open", "gone"} /\ pc'[t] = pc[t]
  BY OpeningStep DEF Calm
<1>3. /\ created \in Rooms /\ created \in Nat /\ Absent \notin Rooms /\ Null \notin Rooms
      /\ \A r \in Rooms : members[r] = {}
  BY <1>1, NullAssumption, MakersFinite DEF Calm, RoomsCalm, TypeInv, TypeOK, Placed
<1>4. RoomsCalm'
  <2>1. ASSUME NEW r \in Rooms, r <= created, r \notin closed
        PROVE  \E t \in Sockets : pc'[t] \in {"emplace", "enter", "add", "check"} /\ room[t] = r
    <3>1. PICK t \in Sockets : pc[t] \in {"emplace", "enter", "add", "check"} /\ room[t] = r
      BY <1>3, <2>1 DEF Calm, RoomsCalm
    <3>2. CASE t = s
      BY <1>1, <3>1, <3>2
    <3>3. CASE t # s
      BY <1>2, <3>1, <3>3
    <3>4. QED BY <3>2, <3>3
  <2>2. \A r \in Rooms : r > created => r \notin closed
    BY DEF Calm, RoomsCalm
  <2>3. QED BY <1>1, <1>3, <2>1, <2>2 DEF RoomsCalm
<1>5. MembersCalm'
  BY <1>1, <1>2, <1>3 DEF Calm, MembersCalm, TypeInv, Placed
<1>6. OpeningCalm'
  BY <1>1, <1>2, <1>3 DEF OpeningCalm
<1>7. ClosingCalm'
  BY <1>1, <1>2 DEF Calm, ClosingCalm
<1>8. QED BY <1>4, <1>5, <1>6, <1>7 DEF Calm

LEMMA EnterCalm ==
  ASSUME TypeInv, Calm, ~Racing', NEW s \in Sockets, Enter(s)
  PROVE  Calm'
<1> USE DEF Goto
<1>1. /\ pc[s] = "enter" /\ s \notin listening /\ room[s] \in Rooms
      /\ roomMap = room[s] /\ room[s] \notin closed
      /\ UNCHANGED <<roomMap, created, closed, members, room, left, crashed, failed>>
  BY DEF Enter, TypeInv, Placed, Calm, OpeningCalm
<1>2. \A t \in Sockets \ {s} : pc[t] \in {"new", "open", "gone"} /\ pc'[t] = pc[t]
  BY OpeningStep DEF Calm
<1>3. \A r \in Rooms : s \notin members[r] /\ members[r] \subseteq listening
  BY <1>1 DEF TypeInv, Placed
<1>4. CASE SamePeer(s, room[s]) = {}
  <2>1. /\ pc'[s] = "add" /\ listening' = listening \cup {s}
        /\ home'[s] = room[s] /\ \A t \in Sockets \ {s} : home'[t] = home[t]
    BY <1>1, <1>4 DEF Enter, TypeInv, TypeOK
  <2>2. RoomsCalm'
    BY <1>1, <1>2, <2>1 DEF Calm, RoomsCalm
  <2>3. MembersCalm'
    <3>1. \A t \in listening' : pc'[t] \in StayingPC => t \in members'[home'[t]]
      BY <1>1, <1>2, <2>1 DEF Calm, MembersCalm, TypeInv, TypeOK
    <3>2. \A r \in Rooms : \A t \in members'[r] :
            /\ pc'[t] \in StayingPC /\ home'[t] = r
            /\ \A u \in members'[r] : PeerId[u] = PeerId[t] => u = t
      BY <1>1, <1>2, <1>3, <2>1 DEF Calm, MembersCalm, TypeInv, TypeOK
    <3>3. \A t \in Sockets \ listening' : pc'[t] = "open" =>
            t \in failed' \/ \E u \in listening' : PeerId[u] = PeerId[t]
      BY <1>1, <1>2, <2>1 DEF Calm, MembersCalm
    <3>4. QED BY <3>1, <3>2, <3>3 DEF MembersCalm
  <2>4. OpeningCalm'
    BY <1>1, <1>2, <1>4, <2>1 DEF OpeningCalm, SamePeer
  <2>5. ClosingCalm'
    BY <1>1, <1>2, <2>1 DEF Calm, ClosingCalm
  <2>6. QED BY <2>2, <2>3, <2>4, <2>5 DEF Calm
<1>5. CASE SamePeer(s, room[s]) # {}
  <2>1. pc'[s] = "open" /\ UNCHANGED <<listening, home>>
    BY <1>1, <1>5 DEF Enter, TypeInv, TypeOK
  <2>2. /\ members[room[s]] # {}
        /\ \E t \in listening : PeerId[t] = PeerId[s]
    BY <1>1, <1>3, <1>5 DEF SamePeer
  <2>3. RoomsCalm'
    BY <1>1, <1>2, <2>1, <2>2 DEF Calm, RoomsCalm
  <2>4. MembersCalm'
    <3>1. \A t \in listening' : pc'[t] \in StayingPC => t \in members'[home'[t]]
      BY <1>1, <1>2, <2>1 DEF Calm, MembersCalm, TypeInv, TypeOK
    <3>2. \A r \in Rooms : \A t \in members'[r] :
            /\ pc'[t] \in StayingPC /\ home'[t] = r
            /\ \A u \in members'[r] : PeerId[u] = PeerId[t] => u = t
      BY <1>1, <1>2, <1>3, <2>1 DEF Calm, MembersCalm, TypeInv, TypeOK
    <3>3. \A t \in Sockets \ listening' : pc'[t] = "open" =>
            t \in failed' \/ \E u \in listening' : PeerId[u] = PeerId[t]
      BY <1>1, <1>2, <2>1, <2>2 DEF Calm, MembersCalm
    <3>4. QED BY <3>1, <3>2, <3>3 DEF MembersCalm
  <2>5. OpeningCalm' /\ ClosingCalm'
    BY <1>1, <1>2, <2>1 DEF Calm, OpeningCalm, ClosingCalm
  <2>6. QED BY <2>3, <2>4, <2>5 DEF Calm
<1>6. QED BY <1>4, <1>5

LEMMA AddPeerCalm ==
  ASSUME TypeInv, Calm, ~Racing', NEW s \in Sockets, AddPeer(s)
  PROVE  Calm'
<1> USE DEF Goto
<1>1. /\ pc[s] = "add" /\ pc' = [pc EXCEPT ![s] = "open"] /\ pc'[s] = "open"
      /\ s \in listening /\ home[s] = room[s] /\ room[s] \in Rooms
      /\ roomMap = room[s] /\ room[s] \notin closed /\ SamePeer(s, room[s]) = {}
      /\ UNCHANGED <<roomMap, created, closed, room, home, listening, left, crashed, failed>>
  BY DEF AddPeer, TypeInv, TypeOK, Placed, ClosingPC, Calm, OpeningCalm
<1>2. \A t \in Sockets \ {s} : pc[t] \in {"new", "open", "gone"} /\ pc'[t] = pc[t]
  BY OpeningStep DEF Calm
<1>3. /\ members'[room[s]] = members[room[s]] \cup {s}
      /\ \A r \in Rooms \ {room[s]} : members'[r] = members[r]
      /\ members \in [Rooms -> SUBSET Sockets]
  BY <1>1 DEF AddPeer, TypeInv, TypeOK
<1>4. \A t \in members[room[s]] : PeerId[t] # PeerId[s]
  BY <1>1 DEF SamePeer
<1>5. RoomsCalm'
  BY <1>1, <1>2, <1>3 DEF Calm, RoomsCalm
<1>6. MembersCalm'
  <2>1. \A t \in listening : pc'[t] \in StayingPC => t \in members'[home[t]]
    BY <1>1, <1>2, <1>3 DEF Calm, MembersCalm, TypeInv, TypeOK, Placed
  <2>2. ASSUME NEW r \in Rooms, NEW t \in members'[r]
        PROVE  /\ pc'[t] \in StayingPC /\ home'[t] = r
               /\ \A u \in members'[r] : PeerId[u] = PeerId[t] => u = t
    <3>1. CASE r # room[s]
      <4>1. t \in members[r] /\ t # s /\ t \in Sockets
        BY <1>1, <1>3, <2>2, <3>1 DEF Calm, RoomsCalm
      <4>2. QED BY <1>1, <1>2, <1>3, <2>2, <3>1, <4>1 DEF Calm, MembersCalm
    <3>2. CASE r = room[s]
      BY <1>1, <1>2, <1>3, <1>4, <2>2, <3>2 DEF Calm, MembersCalm
    <3>3. QED BY <3>1, <3>2
  <2>3. \A t \in Sockets \ listening : pc'[t] = "open" =>
          t \in failed \/ \E u \in listening : PeerId[u] = PeerId[t]
    BY <1>1, <1>2 DEF Calm, MembersCalm
  <2>4. QED BY <1>1, <2>1, <2>2, <2>3 DEF MembersCalm
<1>7. OpeningCalm' /\ ClosingCalm'
  BY <1>1, <1>2 DEF Calm, OpeningCalm, ClosingCalm
<1>8. QED BY <1>5, <1>6, <1>7 DEF Calm

\* A listening peer that has not been removed is in the room of the map.
LEMMA PresentInMap ==
  ASSUME TypeInv, Calm, NEW s \in listening, pc[s] \in StayingPC
  PROVE  s \in Sockets /\ s \in members[home[s]] /\ home[s] = roomMap /\ roomMap \in Rooms
<1>1. s \in members[home[s]] /\ home[s] \in Rooms /\ s \in Sockets
  BY DEF TypeInv, TypeOK, Placed, Calm, MembersCalm
<1>2. QED BY <1>1 DEF Calm, RoomsCalm

\* A handler that destroys a socket meets none that opens one.
LEMMA ClosingStep ==
  ASSUME TypeInv, Calm, NEW s \in Sockets, pc[s] \in ClosingPC
  PROVE  s \in listening /\ \A t \in Sockets : pc[t] \notin OpeningPC
BY Alone DEF TypeInv, Placed, Calm

LEMMA DestroyCalm ==
  ASSUME TypeInv, Calm, ~Racing', NEW s \in Sockets, Destroy(s)
  PROVE  Calm'
<1> USE DEF Goto
<1>1. /\ pc[s] = "open"
      /\ UNCHANGED <<roomMap, created, closed, members, room, home, listening, left, failed>>
  BY DEF Destroy
<1>2. CASE s \in listening
  <2>1. home[s] = roomMap /\ roomMap \in Rooms /\ s \in members[home[s]]
    BY <1>1, <1>2, PresentInMap
  <2>2. pc' = [pc EXCEPT ![s] = "find"] /\ pc'[s] = "find"
    BY <1>2, <2>1, NullAssumption DEF Destroy, TypeInv, TypeOK
  <2>3. \A t \in Sockets \ {s} : pc'[t] = pc[t]
    BY <2>2 DEF TypeInv, TypeOK
  <2>4. RoomsCalm' /\ OpeningCalm' /\ ClosingCalm'
    BY <1>1, <2>2, <2>3 DEF Calm, RoomsCalm, OpeningCalm, ClosingCalm, SamePeer
  <2>5. MembersCalm'
    BY <1>1, <1>2, <2>2, <2>3 DEF Calm, MembersCalm, TypeInv, TypeOK
  <2>6. QED BY <2>4, <2>5 DEF Calm
<1>3. CASE s \notin listening
  <2>1. pc' = [pc EXCEPT ![s] = "gone"] /\ pc'[s] = "gone"
    BY <1>3 DEF Destroy, TypeInv, TypeOK
  <2>2. \A t \in Sockets \ {s} : pc'[t] = pc[t]
    BY <2>1 DEF TypeInv, TypeOK
  <2>3. RoomsCalm' /\ OpeningCalm' /\ ClosingCalm'
    BY <1>1, <1>3, <2>1, <2>2 DEF Calm, RoomsCalm, OpeningCalm, ClosingCalm, SamePeer
  <2>4. MembersCalm'
    <3>1. \A r \in Rooms : s \notin members[r] /\ members[r] \subseteq Sockets
      BY <1>3 DEF TypeInv, TypeOK, Placed
    <3>2. QED BY <1>1, <1>3, <2>1, <2>2, <3>1 DEF Calm, MembersCalm, TypeInv, TypeOK
  <2>5. QED BY <2>3, <2>4 DEF Calm
<1>4. QED BY <1>2, <1>3

LEMMA FindCalm ==
  ASSUME TypeInv, Calm, ~Racing', NEW s \in Sockets, Find(s)
  PROVE  Calm'
<1> USE DEF Goto
<1>1. pc[s] = "find" /\ s \in listening
  BY DEF Find, TypeInv, Placed, ClosingPC
<1>2. home[s] = roomMap /\ roomMap \in Rooms /\ s \in members[home[s]] /\ Subscript = roomMap
  BY <1>1, PresentInMap, NullAssumption DEF Subscript
<1>3. /\ pc' = [pc EXCEPT ![s] = "leave"] /\ pc'[s] = "leave" /\ room'[s] = home[s]
      /\ UNCHANGED <<roomMap, created, closed, members, home, listening, left, crashed, failed>>
      /\ \A t \in Sockets \ {s} : pc'[t] = pc[t] /\ room'[t] = room[t]
  BY <1>2 DEF Find, TypeInv, TypeOK
<1>4. RoomsCalm'
  BY <1>1, <1>3 DEF Calm, RoomsCalm
<1>5. MembersCalm'
  BY <1>1, <1>3 DEF Calm, MembersCalm, TypeInv, TypeOK
<1>6. OpeningCalm' /\ ClosingCalm'
  BY <1>1, <1>3 DEF Calm, OpeningCalm, ClosingCalm, SamePeer
<1>7. QED BY <1>4, <1>5, <1>6 DEF Calm

LEMMA LeaveCalm ==
  ASSUME TypeInv, Calm, ~Racing', NEW s \in Sockets, LeavePeer(s)
  PROVE  Calm'
<1> USE DEF Goto
<1>1. /\ pc[s] = "leave" /\ pc'[s] \in {"data", "remove"}
      /\ left' = left \cup {s}
      /\ UNCHANGED <<roomMap, created, closed, members, room, home, listening, crashed, failed>>
      /\ \A t \in Sockets \ {s} : pc'[t] = pc[t]
  BY DEF LeavePeer, TypeInv, TypeOK
<1>2. RoomsCalm'
  BY <1>1 DEF Calm, RoomsCalm
<1>3. MembersCalm'
  BY <1>1 DEF Calm, MembersCalm, TypeInv, TypeOK, StayingPC
<1>4. OpeningCalm' /\ ClosingCalm'
  BY <1>1 DEF Calm, OpeningCalm, ClosingCalm, SamePeer
<1>5. QED BY <1>2, <1>3, <1>4 DEF Calm

\* Without a race a handler that looks its peer up twice finds it twice.
LEMMA PeerFound ==
  ASSUME TypeInv, Calm, NEW s \in Sockets, pc[s] \in {"data", "remove", "take", "erase"}
  PROVE  /\ s \in listening /\ room[s] = home[s] /\ room[s] = roomMap /\ room[s] \in Rooms
         /\ s \in left /\ s \in members[room[s]] /\ SamePeer(s, room[s]) = {s}
<1>1. s \in listening /\ room[s] = home[s] /\ s \in left
  BY DEF TypeInv, Placed, ClosingPC, Calm, ClosingCalm
<1>2. s \in members[room[s]] /\ room[s] = roomMap /\ room[s] \in Rooms
  BY <1>1, PresentInMap DEF StayingPC
<1>3. \A t \in members[room[s]] : PeerId[t] = PeerId[s] => t = s
  BY <1>2 DEF Calm, MembersCalm
<1>4. QED BY <1>1, <1>2, <1>3 DEF SamePeer

LEMMA LookupCalm ==
  ASSUME TypeInv, Calm, ~Racing', NEW s \in Sockets, PeerData(s) \/ RemovePeer(s) \/ TakePeer(s)
  PROVE  Calm' /\ crashed' = crashed
<1> USE DEF Goto
<1>1. pc[s] \in {"data", "remove", "take"}
  BY DEF PeerData, RemovePeer, TakePeer
<1>2. /\ s \in listening /\ room[s] = home[s] /\ s \in left /\ s \in members[room[s]]
      /\ SamePeer(s, room[s]) # {}
  BY <1>1, PeerFound
<1>3. /\ pc'[s] \in {"remove", "take", "erase"} /\ \A t \in Sockets \ {s} : pc'[t] = pc[t]
      /\ UNCHANGED <<roomMap, created, closed, members, room, home, listening, left, crashed, failed>>
  BY <1>1, <1>2 DEF PeerData, RemovePeer, TakePeer, TypeInv, TypeOK
<1>4. RoomsCalm'
  BY <1>1, <1>3 DEF Calm, RoomsCalm
<1>5. MembersCalm'
  BY <1>1, <1>2, <1>3 DEF Calm, MembersCalm, TypeInv, TypeOK, StayingPC
<1>6. OpeningCalm' /\ ClosingCalm'
  BY <1>1, <1>2, <1>3 DEF Calm, OpeningCalm, ClosingCalm, SamePeer
<1>7. QED BY <1>3, <1>4, <1>5, <1>6 DEF Calm

LEMMA EraseCalm ==
  ASSUME TypeInv, Calm, ~Racing', NEW s \in Sockets, ErasePeer(s)
  PROVE  Calm'
<1> USE DEF Goto
<1>1. /\ pc[s] = "erase" /\ pc' = [pc EXCEPT ![s] = "check"] /\ pc'[s] = "check"
      /\ UNCHANGED <<roomMap, created, closed, room, home, listening, left, crashed, failed>>
      /\ \A t \in Sockets \ {s} : pc'[t] = pc[t]
  BY DEF ErasePeer, TypeInv, TypeOK
<1>2. /\ s \in listening /\ room[s] = home[s] /\ s \in left
      /\ s \in members[room[s]] /\ room[s] = roomMap /\ room[s] \in Rooms
  BY <1>1, PeerFound
<1>3. SamePeer(s, room[s]) = {s}
  BY <1>1, PeerFound
<1>4. /\ members'[room[s]] = members[room[s]] \ {s}
      /\ \A r \in Rooms \ {room[s]} : members'[r] = members[r]
      /\ members \in [Rooms -> SUBSET Sockets]
  BY <1>2, <1>3 DEF ErasePeer, TypeInv, TypeOK
<1>5. room[s] \notin closed
  BY <1>2 DEF Calm, RoomsCalm
<1>6. \A t \in Sockets : pc[t] \notin OpeningPC
  BY <1>1, ClosingStep DEF ClosingPC
<1>7. RoomsCalm'
  BY <1>1, <1>2, <1>4, <1>5 DEF Calm, RoomsCalm
<1>8. MembersCalm'
  <2>1. \A t \in listening : pc'[t] \in StayingPC => t \in members'[home[t]]
    BY <1>1, <1>2, <1>4 DEF Calm, MembersCalm, TypeInv, TypeOK, Placed
  <2>2. \A r \in Rooms : \A t \in members'[r] :
          /\ pc'[t] \in StayingPC /\ home[t] = r
          /\ \A u \in members'[r] : PeerId[u] = PeerId[t] => u = t
    <3>1. ASSUME NEW r \in Rooms, NEW t \in members'[r]
          PROVE  t \in members[r] /\ t # s /\ t \in Sockets /\ members'[r] \subseteq members[r]
      BY <1>1, <1>2, <1>4, <3>1 DEF Calm, RoomsCalm
    <3>2. QED BY <1>1, <3>1 DEF Calm, MembersCalm
  <2>3. \A t \in Sockets \ listening : pc'[t] = "open" =>
          t \in failed \/ \E u \in listening : PeerId[u] = PeerId[t]
    BY <1>1 DEF Calm, MembersCalm
  <2>4. QED BY <1>1, <2>1, <2>2, <2>3 DEF MembersCalm
<1>9. OpeningCalm'
  BY <1>1, <1>6 DEF OpeningCalm, OpeningPC
<1>10. ClosingCalm'
  <2>1. room[s] <= created
    BY <1>2 DEF Calm, RoomsCalm
  <2>2. ASSUME NEW t \in Sockets, pc'[t] \in {"delete", "deleteRoom"} PROVE members'[room[t]] = {}
    <3>1. pc[t] = pc'[t] /\ room[t] \in Rooms
      BY <1>1, <2>2 DEF TypeInv, Placed
    <3>2. members[room[t]] = {}
      BY <2>2, <3>1 DEF Calm, ClosingCalm
    <3>3. QED BY <1>2, <1>4, <3>1, <3>2
  <2>3. QED BY <1>1, <1>2, <2>1, <2>2 DEF Calm, ClosingCalm
<1>11. QED BY <1>7, <1>8, <1>9, <1>10 DEF Calm

\* Without a race a handler that removes a peer has found its room.
LEMMA RemoveFinds ==
  ASSUME TypeInv, Calm, NEW s \in Sockets
  PROVE  ~RemoveNull(s)
<1> SUFFICES ASSUME RemoveNull(s) PROVE FALSE
  OBVIOUS
<1>1. pc[s] = "remove" /\ room[s] = Null /\ s \in listening
  BY DEF RemoveNull, Goto, TypeInv, Placed, ClosingPC
<1>2. room[s] = home[s] /\ home[s] \in Rooms
  BY <1>1, PeerFound
<1>3. QED BY <1>1, <1>2, NullAssumption

LEMMA CheckCalm ==
  ASSUME TypeInv, Calm, ~Racing', NEW s \in Sockets, CheckEmpty(s)
  PROVE  Calm'
<1> USE DEF Goto
<1>1. /\ pc[s] = "check" /\ room[s] \in Rooms
      /\ UNCHANGED <<roomMap, created, members, room, home, listening, left, crashed, failed>>
      /\ \A t \in Sockets \ {s} : pc'[t] = pc[t]
  BY DEF CheckEmpty, TypeInv, TypeOK, Placed
<1>2. /\ pc'[s] \in {"delete", "isEmpty"}
      /\ pc'[s] = "delete" <=> members[room[s]] = {}
      /\ closed' = IF members[room[s]] = {} THEN closed \cup {room[s]} ELSE closed
  BY DEF CheckEmpty, TypeInv, TypeOK
<1>3. \A t \in Sockets : pc[t] \notin OpeningPC
  BY <1>1, ClosingStep DEF ClosingPC
<1>4. RoomsCalm'
  <2>1. ASSUME NEW r \in Rooms, r > created PROVE r \notin closed'
    <3>1. room[s] <= created /\ r \notin closed
      BY <1>1, <2>1 DEF Calm, RoomsCalm, ClosingCalm
    <3>2. r # room[s]
      BY <2>1, <3>1, MakersFinite DEF TypeInv, TypeOK, Rooms
    <3>3. QED BY <1>2, <3>1, <3>2
  <2>2. ASSUME NEW r \in Rooms PROVE r # roomMap \/ r \in closed' => members[r] = {}
    BY <1>2, <2>2 DEF Calm, RoomsCalm
  <2>3. ASSUME NEW r \in Rooms, r = roomMap, members[r] = {}
        PROVE  \E t \in Sockets :
                 /\ pc'[t] \in {"enter", "add", "check", "delete", "isEmpty", "deleteRoom"}
                 /\ room[t] = r
    BY <1>1, <1>2, <2>3 DEF Calm, RoomsCalm
  <2>4. ASSUME NEW r \in Rooms, r <= created, members[r] = {}, r \notin closed'
        PROVE  \E t \in Sockets : pc'[t] \in {"emplace", "enter", "add", "check"} /\ room[t] = r
    <3>1. r # room[s] /\ r \notin closed
      BY <1>2, <2>4
    <3>2. QED BY <1>1, <2>4, <3>1 DEF Calm, RoomsCalm
  <2>5. QED BY <1>1, <2>1, <2>2, <2>3, <2>4 DEF Calm, RoomsCalm
<1>5. MembersCalm'
  BY <1>1, <1>2 DEF Calm, MembersCalm, TypeInv, TypeOK
<1>6. OpeningCalm'
  BY <1>1, <1>2, <1>3 DEF OpeningCalm, OpeningPC
<1>7. ClosingCalm'
  BY <1>1, <1>2 DEF Calm, ClosingCalm
<1>8. QED BY <1>4, <1>5, <1>6, <1>7 DEF Calm

LEMMA DeleteCalm ==
  ASSUME TypeInv, Calm, ~Racing', NEW s \in Sockets, OnRoomClose(s) \/ DeleteRoom(s)
  PROVE  Calm'
<1> USE DEF Goto
<1>1. /\ pc[s] \in {"delete", "deleteRoom"} /\ room[s] \in Rooms
      /\ roomMap' = Absent /\ pc'[s] \in {"isEmpty", "gone"}
      /\ UNCHANGED <<created, closed, members, room, home, listening, left, crashed, failed>>
      /\ \A t \in Sockets \ {s} : pc'[t] = pc[t]
  BY DEF OnRoomClose, DeleteRoom, TypeInv, TypeOK, Placed
<1>2. members[room[s]] = {} /\ roomMap \in {room[s], Absent}
  BY <1>1 DEF Calm, ClosingCalm
<1>3. \A t \in Sockets : pc[t] \notin OpeningPC
  BY <1>1, ClosingStep DEF ClosingPC
<1>4. \A r \in Rooms : members[r] = {} /\ r # Absent
  BY <1>2, NullAssumption DEF Calm, RoomsCalm
<1>5. RoomsCalm'
  BY <1>1, <1>4, NullAssumption DEF Calm, RoomsCalm
<1>6. MembersCalm'
  BY <1>1, <1>4 DEF Calm, MembersCalm, TypeInv, TypeOK, Placed
<1>7. OpeningCalm'
  BY <1>1, <1>3 DEF OpeningCalm, OpeningPC
<1>8. ClosingCalm'
  BY <1>1 DEF Calm, ClosingCalm
<1>9. QED BY <1>5, <1>6, <1>7, <1>8 DEF Calm

LEMMA IsEmptyCalm ==
  ASSUME TypeInv, Calm, ~Racing', NEW s \in Sockets, IsEmpty(s)
  PROVE  Calm'
<1> USE DEF Goto
<1>1. /\ pc[s] = "isEmpty" /\ room[s] \in Rooms
      /\ pc'[s] = IF members[room[s]] = {} THEN "deleteRoom" ELSE "gone"
      /\ UNCHANGED <<roomMap, created, closed, members, room, home, listening, left, crashed, failed>>
      /\ \A t \in Sockets \ {s} : pc'[t] = pc[t]
  BY DEF IsEmpty, TypeInv, TypeOK, Placed
<1>2. \A t \in Sockets : pc[t] \notin OpeningPC
  BY <1>1, ClosingStep DEF ClosingPC
<1>3. RoomsCalm'
  BY <1>1 DEF Calm, RoomsCalm
<1>4. MembersCalm'
  BY <1>1 DEF Calm, MembersCalm, TypeInv, TypeOK
<1>5. OpeningCalm'
  BY <1>1, <1>2 DEF OpeningCalm, OpeningPC
<1>6. ClosingCalm'
  BY <1>1 DEF Calm, ClosingCalm
<1>7. QED BY <1>3, <1>4, <1>5, <1>6 DEF Calm

LEMMA CalmStep == TypeInv /\ CalmInv /\ [Next]_vars => CalmInv'
<1> SUFFICES ASSUME TypeInv, CalmInv, [Next]_vars, ~raced' PROVE Calm'
  BY DEF CalmInv
<1>1. CASE UNCHANGED vars
  BY <1>1 DEF vars, CalmInv, Calm, Racing, Opening, Closing, RoomsCalm, MembersCalm,
              OpeningCalm, ClosingCalm, SamePeer
<1>2. CASE Next
  <2>1. ~raced /\ ~Racing'
    BY <1>2 DEF Next
  <2>2. Calm /\ TypeInv'
    BY <2>1, TypeStep DEF CalmInv
  <2>3. QED
    BY <1>2, <2>1, <2>2, ContainsCalm, GetCalm, CreateCalm, EmplaceCalm, EnterCalm, AddPeerCalm,
       DestroyCalm, FindCalm, LeaveCalm, LookupCalm, EraseCalm, RemoveFinds, FailCalm, CheckCalm, DeleteCalm,
       IsEmptyCalm
    DEF Next, Open, CloseSocket
<1>3. QED BY <1>1, <1>2

LEMMA LobbyInvariant == Spec => [](TypeInv /\ CalmInv)
BY TypeInit, TypeStep, CalmInit, CalmStep, PTL DEF Spec

\* Without racing openings the lobby's map is exact once all is settled
\* (Lobby::onAfterCreate_NonBlocking, onBeforeDestroy_NonBlocking).
THEOREM MapIsExactCorrect == Spec => []MapIsExact
<1>1. TypeInv /\ CalmInv => MapIsExact
  <2> SUFFICES ASSUME TypeInv, CalmInv, Settled, ~raced PROVE MapIsExact
    BY DEF MapIsExact
  <2> DEFINE present == {s \in listening : pc[s] = "open"}
  <2>1. \A s \in Sockets : pc[s] \in {"new", "open", "gone"}
    BY DEF Settled
  <2>2. Calm
    BY DEF CalmInv
  <2>3. \A s \in present : home[s] = roomMap /\ s \in members[roomMap] /\ roomMap \in Rooms
    BY <2>2, PresentInMap
  <2>4. roomMap = Absent <=> present = {}
    <3>1. CASE roomMap = Absent
      BY <2>3, <3>1, NullAssumption
    <3>2. CASE roomMap # Absent
      <4>1. roomMap \in Rooms
        BY <2>2, <3>2 DEF TypeInv, TypeOK, Calm, RoomsCalm
      <4>2. members[roomMap] # {}
        BY <2>1, <2>2, <4>1 DEF Calm, RoomsCalm
      <4>3. PICK s \in members[roomMap] : TRUE
        BY <4>2
      <4>4. s \in listening /\ s \in Sockets /\ pc[s] \in StayingPC
        BY <2>2, <4>1, <4>3 DEF Calm, MembersCalm, TypeInv, TypeOK, Placed
      <4>5. QED BY <2>1, <3>2, <4>4
    <3>3. QED BY <3>1, <3>2
  <2>5. \A r \in 1 .. created : r \in closed <=> members[r] = {}
    <3>1. \A r \in 1 .. created : r \in Rooms /\ r <= created
      BY MakersFinite DEF TypeInv, TypeOK, Rooms
    <3>2. QED BY <2>1, <2>2, <3>1 DEF Calm, RoomsCalm
  <2>6. \A s \in listening : pc[s] = "gone" => s \in left
    BY <2>2 DEF Calm, ClosingCalm, TypeInv, TypeOK
  <2>7. QED BY <2>3, <2>4, <2>5, <2>6 DEF MapIsExact
<1>2. QED BY <1>1, LobbyInvariant, PTL

\* A null pointer is used only after a race, by a socket that gave another's peer
\* id, or by one whose room could not be created (Lobby::getOrCreateRoom,
\* Lobby::onBeforeDestroy_NonBlocking).
THEOREM CrashCorrect == Spec => []CrashNeedsRaceDuplicateOrFailure
<1>1. Init => CrashNeedsRaceDuplicateOrFailure
  BY DEF Init, CrashNeedsRaceDuplicateOrFailure
<1>2. TypeInv /\ CalmInv /\ CrashNeedsRaceDuplicateOrFailure /\ [Next]_vars => CrashNeedsRaceDuplicateOrFailure'
  <2> SUFFICES ASSUME TypeInv, CalmInv, CrashNeedsRaceDuplicateOrFailure, [Next]_vars
               PROVE  CrashNeedsRaceDuplicateOrFailure'
    OBVIOUS
  <2>1. CASE UNCHANGED vars
    BY <2>1 DEF vars, CrashNeedsRaceDuplicateOrFailure
  <2>2. CASE raced'
    BY <2>2 DEF CrashNeedsRaceDuplicateOrFailure
  <2>3. CASE Next /\ ~raced'
    <3>1. ~crashed /\ Calm /\ ~Racing'
      BY <2>3 DEF Next, CalmInv
    <3>2. ASSUME crashed' PROVE CrashNeedsRaceDuplicateOrFailure'
      <4>1. PICK s \in Sockets : CreateNull(s) \/ (Destroy(s) /\ s \notin listening)
        BY <2>3, <3>1, <3>2, RemoveFinds, LookupCalm
        DEF Next, Open, CloseSocket, Contains, Get, Create, CreateThrows, Emplace, Enter, AddPeer,
            Destroy, Find, LeavePeer, ErasePeer, CheckEmpty, OnRoomClose, IsEmpty, DeleteRoom
      <4>2. CASE CreateNull(s)
        BY <4>2 DEF CreateNull, Goto, TypeInv, TypeOK, CrashNeedsRaceDuplicateOrFailure
      <4>3. CASE Destroy(s) /\ s \notin listening
        <5>1. pc[s] = "open" /\ pc'[s] = "gone" /\ UNCHANGED <<listening, failed>>
          BY <4>3 DEF Destroy, Goto, TypeInv, TypeOK
        <5>2. s \in failed \/ \E t \in listening : PeerId[t] = PeerId[s]
          BY <3>1, <4>3, <5>1 DEF Calm, MembersCalm
        <5>3. QED BY <4>3, <5>1, <5>2 DEF CrashNeedsRaceDuplicateOrFailure
      <4>4. QED BY <4>1, <4>2, <4>3
    <3>3. QED BY <3>2 DEF CrashNeedsRaceDuplicateOrFailure
  <2>4. QED BY <2>1, <2>2, <2>3
<1>3. QED BY <1>1, <1>2, LobbyInvariant, PTL DEF Spec

-----------------------------------------------------------------------------
LEMMA StayStep == TypeInv /\ StayInv /\ [Next]_vars => StayInv'
<1> SUFFICES ASSUME TypeInv, StayInv, [Next]_vars,
                    NEW s \in listening', pc'[s] = "open"
             PROVE  s \in members'[home'[s]] \/ \E t \in Sockets \ {s} : PeerId[t] = PeerId[s]
  BY DEF StayInv
<1> USE DEF Goto
<1>1. CASE UNCHANGED vars
  BY <1>1 DEF vars, StayInv
<1>2. CASE \E t \in Sockets : AddPeer(t)
  <2>1. PICK t \in Sockets : AddPeer(t)
    BY <1>2
  <2>2. /\ pc[t] = "add" /\ room[t] \in Rooms /\ home[t] = room[t] /\ t \in listening
        /\ \A u \in Sockets \ {t} : pc'[u] = pc[u]
        /\ UNCHANGED <<listening, home>>
    BY <2>1 DEF AddPeer, TypeInv, TypeOK, Placed
  <2>3. /\ members' = [members EXCEPT ![room[t]] = IF SamePeer(t, room[t]) = {}
                                                  THEN members[room[t]] \cup {t}
                                                  ELSE members[room[t]]]
        /\ members \in [Rooms -> SUBSET Sockets] /\ listening \subseteq Sockets
    BY <2>1 DEF AddPeer, TypeInv, TypeOK
  <2>4. \A r \in Rooms : members[r] \subseteq members'[r]
    BY <2>3
  <2>5. CASE s # t
    BY <2>2, <2>3, <2>4, <2>5 DEF StayInv, TypeInv, Placed
  <2>6. CASE s = t /\ SamePeer(t, room[t]) = {}
    BY <2>2, <2>3, <2>6
  <2>7. CASE s = t /\ SamePeer(t, room[t]) # {}
    <3>1. PICK u \in SamePeer(t, room[t]) : TRUE
      BY <2>7
    <3>2. u \in members[room[t]] /\ PeerId[u] = PeerId[t] /\ u \in Sockets
      BY <2>2, <2>3, <3>1 DEF SamePeer
    <3>3. QED BY <2>2, <2>4, <2>7, <3>2
  <2>8. QED BY <2>5, <2>6, <2>7
<1>3. CASE \E t \in Sockets : ErasePeer(t)
  <2>1. PICK t \in Sockets : ErasePeer(t)
    BY <1>3
  <2>2. /\ pc[t] = "erase" /\ pc'[t] = "check"
        /\ \A u \in Sockets \ {t} : pc'[u] = pc[u]
        /\ UNCHANGED <<listening, home>> /\ s # t
        /\ listening \subseteq Sockets
    BY <2>1 DEF ErasePeer, TypeInv, TypeOK
  <2>3. ASSUME NEW r \in Rooms, s \in members[r], s \notin members'[r] PROVE PeerId[t] = PeerId[s]
    BY <2>1, <2>3 DEF ErasePeer, TypeInv, TypeOK, SamePeer
  <2>4. QED BY <2>1, <2>2, <2>3 DEF StayInv, TypeInv, Placed
<1>4. CASE \E t \in Sockets : Enter(t)
  <2>1. PICK t \in Sockets : Enter(t)
    BY <1>4
  <2>2. /\ pc[t] = "enter" /\ t \notin listening /\ members' = members
        /\ \A u \in Sockets \ {t} : pc'[u] = pc[u] /\ home'[u] = home[u]
        /\ listening' \subseteq listening \cup {t} /\ listening \subseteq Sockets
        /\ t \in listening' => pc'[t] = "add"
    BY <2>1 DEF Enter, TypeInv, TypeOK, Placed
  <2>3. QED BY <2>2 DEF StayInv
<1>5. CASE \E t \in Sockets :
              \/ Contains(t) \/ Get(t) \/ Create(t) \/ CreateNull(t) \/ CreateThrows(t) \/ Emplace(t)
              \/ Destroy(t) \/ Find(t) \/ LeavePeer(t) \/ PeerData(t) \/ RemovePeer(t)
              \/ RemoveNull(t) \/ TakePeer(t) \/ CheckEmpty(t) \/ OnRoomClose(t)
              \/ IsEmpty(t) \/ DeleteRoom(t)
  <2>1. PICK t \in Sockets :
          \/ Contains(t) \/ Get(t) \/ Create(t) \/ CreateNull(t) \/ CreateThrows(t) \/ Emplace(t)
          \/ Destroy(t) \/ Find(t) \/ LeavePeer(t) \/ PeerData(t) \/ RemovePeer(t)
          \/ RemoveNull(t) \/ TakePeer(t) \/ CheckEmpty(t) \/ OnRoomClose(t)
          \/ IsEmpty(t) \/ DeleteRoom(t)
    BY <1>5
  <2>2. /\ UNCHANGED <<members, home, listening>> /\ listening \subseteq Sockets
        /\ pc[s] = "open" \/ pc[s] \in {"get", "create"}
    BY <2>1 DEF Contains, Get, Create, CreateNull, CreateThrows, Emplace, Destroy, Find, LeavePeer,
                PeerData, RemovePeer, RemoveNull, TakePeer, CheckEmpty, OnRoomClose, IsEmpty,
                DeleteRoom, TypeInv, TypeOK
  <2>3. pc[s] = "open"
    BY <2>2 DEF TypeInv, Placed
  <2>4. QED BY <2>2, <2>3 DEF StayInv
<1>6. QED BY <1>1, <1>2, <1>3, <1>4, <1>5, StepCases

\* A peer leaves its room only when its socket is destroyed, unless a socket of
\* the same peer id raced with it (Room::removePeer).
THEOREM PeersStayCorrect == Spec => []PeersStayInTheirRoom
<1>1. Init => StayInv
  BY DEF Init, StayInv
<1>2. TypeInv /\ CalmInv /\ StayInv => PeersStayInTheirRoom
  BY DEF StayInv, CalmInv, Calm, MembersCalm, PeersStayInTheirRoom
<1>3. QED BY <1>1, <1>2, StayStep, LobbyInvariant, PTL DEF Spec

=============================================================================
