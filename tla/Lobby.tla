-------------------------------- MODULE Lobby --------------------------------
(***************************************************************************)
(* The life of the rooms of one room id (sfu/src/rooms/lobby.cpp, and the  *)
(* parts of room.cpp and peer.cpp it drives). The executor's threads open  *)
(* and destroy web sockets concurrently: each lookup, insertion and        *)
(* erasure in a threadsafe_unordered_map is atomic, their sequences in the *)
(* lobby and the room are not.                                             *)
(***************************************************************************)
EXTENDS Integers, FiniteSets

CONSTANTS
  Sockets, \* the web sockets a client opens to the room id, each once
  PeerId,  \* the peer id each socket gives
  Absent,  \* the room id is not in the map
  Null     \* a null pointer

\* Each socket creates one Room object at most; they are numbered as created.
Rooms == 1 .. Cardinality(Sockets)

ASSUME SocketsAssumption == IsFiniteSet(Sockets)
ASSUME PeerIdAssumption  == DOMAIN PeerId = Sockets
ASSUME NullAssumption    == Absent # Null /\ {Absent, Null} \cap (Rooms \cup Sockets) = {}

VARIABLES
  roomMap,   \* what Lobby::_roomMap holds under the room id
  created,   \* how many Room objects were created
  closed,    \* the rooms with Room::_closed
  members,   \* Room::_peerMap of each room: the sockets whose peers it holds
  pc,        \* where each socket's coroutine stands
  room,      \* the room its peer was created in, or is being removed from
  home,      \* the room whose handlers its peer's signals were connected to
  listening, \* the sockets whose listener is a peer
  heard,     \* the peers whose signals are still connected
  left,      \* the peers whose close() has run
  crashed,   \* whether a null pointer was used
  failed,    \* history: the sockets whose room could not be created
  raced      \* history: whether a socket was opened while another was being
             \* opened or destroyed

vars == <<roomMap, created, closed, members, pc, room, home, listening, heard,
          left, crashed, failed, raced>>

OpeningPC == {"get", "create", "emplace", "enter", "add"}
ClosingPC == {"find", "leave", "data", "remove", "take", "erase", "check", "delete",
              "isEmpty", "deleteRoom"}

TypeOK ==
  /\ roomMap \in Rooms \cup {Absent, Null}
  /\ created \in 0 .. Cardinality(Sockets)
  /\ closed \subseteq Rooms
  /\ members \in [Rooms -> SUBSET Sockets]
  /\ pc \in [Sockets -> {"new", "open", "gone"} \cup OpeningPC \cup ClosingPC]
  /\ room \in [Sockets -> Rooms \cup {Null}]
  /\ home \in [Sockets -> Rooms \cup {Null}]
  /\ listening \subseteq Sockets
  /\ heard \subseteq Sockets
  /\ left \subseteq Sockets
  /\ crashed \in BOOLEAN
  /\ failed \subseteq Sockets
  /\ raced \in BOOLEAN

Init ==
  /\ roomMap = Absent
  /\ created = 0
  /\ closed = {}
  /\ members = [r \in Rooms |-> {}]
  /\ pc = [s \in Sockets |-> "new"]
  /\ room = [s \in Sockets |-> Null]
  /\ home = [s \in Sockets |-> Null]
  /\ listening = {}
  /\ heard = {}
  /\ left = {}
  /\ crashed = FALSE
  /\ failed = {}
  /\ raced = FALSE

Goto(s, from, to) == pc[s] = from /\ pc' = [pc EXCEPT ![s] = to]

\* operator[] of threadsafe_unordered_map: a missing key is given a null value.
Subscript == IF roomMap = Absent THEN Null ELSE roomMap

-----------------------------------------------------------------------------
(* onAfterCreate_NonBlocking()                                             *)

Contains(s) ==
  /\ Goto(s, "new", IF roomMap = Absent THEN "create" ELSE "get")
  /\ UNCHANGED <<roomMap, created, closed, members, room, home, listening, heard, left, crashed,
                 failed>>

\* A null room ends the handler; the socket stays open without a listener.
Get(s) ==
  /\ Goto(s, "get", IF Subscript = Null THEN "open" ELSE "enter")
  /\ roomMap' = Subscript
  /\ room' = [room EXCEPT ![s] = Subscript]
  /\ UNCHANGED <<created, closed, members, home, listening, heard, left, crashed, failed>>

Create(s) ==
  /\ Goto(s, "create", "emplace")
  /\ created' = created + 1
  /\ room' = [room EXCEPT ![s] = created + 1]
  /\ UNCHANGED <<roomMap, closed, members, home, listening, heard, left, crashed, failed>>

\* Room::create() gives a null pointer, for instance before the posted task has
\* made the worker's WebRTC server, and init() is called on it all the same.
CreateNull(s) ==
  /\ Goto(s, "create", "gone")
  /\ failed' = failed \cup {s}
  /\ crashed' = TRUE
  /\ UNCHANGED <<roomMap, created, closed, members, room, home, listening, heard, left>>

\* createRouterController() or one of the observers' throws: the coroutine ends
\* with the exception, and its socket, without a listener, is then destroyed.
CreateThrows(s) ==
  /\ Goto(s, "create", "open")
  /\ failed' = failed \cup {s}
  /\ UNCHANGED <<roomMap, created, closed, members, room, home, listening, heard, left, crashed>>

\* emplace() keeps what is there; the caller goes on with its own room.
Emplace(s) ==
  /\ Goto(s, "emplace", "enter")
  /\ roomMap' = IF roomMap = Absent THEN room[s] ELSE roomMap
  /\ UNCHANGED <<created, closed, members, room, home, listening, heard, left, crashed, failed>>

SamePeer(s, r) == {t \in members[r] : PeerId[t] = PeerId[s]}

\* Mutated form of Enter: the peer is not made the socket's listener.
EnterUnheard(s) ==
  /\ pc[s] = "enter"
  /\ IF SamePeer(s, room[s]) = {}
     THEN Goto(s, "enter", "add") /\ home' = [home EXCEPT ![s] = room[s]]
     ELSE Goto(s, "enter", "open") /\ UNCHANGED home
  /\ UNCHANGED <<roomMap, created, closed, members, room, listening, heard, left, crashed, failed>>

\* createPeer() does nothing for a peer id the room has.
Enter(s) ==
  /\ pc[s] = "enter"
  /\ IF SamePeer(s, room[s]) = {}
     THEN /\ Goto(s, "enter", "add")
          /\ listening' = listening \cup {s} /\ heard' = heard \cup {s}
          /\ home' = [home EXCEPT ![s] = room[s]]
     ELSE Goto(s, "enter", "open") /\ UNCHANGED <<listening, heard, home>>
  /\ UNCHANGED <<roomMap, created, closed, members, room, left, crashed, failed>>

AddPeer(s) ==
  /\ Goto(s, "add", "open")
  /\ members' = [members EXCEPT ![room[s]] = IF SamePeer(s, room[s]) = {}
                                             THEN @ \cup {s} ELSE @]
  /\ UNCHANGED <<roomMap, created, closed, room, home, listening, heard, left, crashed, failed>>

-----------------------------------------------------------------------------
(* onBeforeDestroy_NonBlocking()                                           *)

\* A socket without a listener has no peer to ask for its room. When the room
\* id is not in the map, the peer is not closed.
Destroy(s) ==
  /\ IF s \in listening
     THEN Goto(s, "open", IF roomMap = Absent THEN "gone" ELSE "find") /\ UNCHANGED crashed
     ELSE Goto(s, "open", "gone") /\ crashed' = TRUE
  /\ UNCHANGED <<roomMap, created, closed, members, room, home, listening, heard, left, failed>>

Find(s) ==
  /\ Goto(s, "find", "leave")
  /\ roomMap' = Subscript
  /\ room' = [room EXCEPT ![s] = Subscript]
  /\ UNCHANGED <<created, closed, members, home, listening, heard, left, crashed, failed>>

\* Peer::close() emits closeSignal to the room the peer was created in.  Unless
\* that is closed, it looks the peer up by its id ...
LeavePeer(s) ==
  LET told == s \in heard /\ home[s] \notin closed /\ SamePeer(s, home[s]) # {}
  IN  /\ Goto(s, "leave", IF told THEN "data" ELSE "remove")
      /\ left' = left \cup {s}
      /\ UNCHANGED <<roomMap, created, closed, members, room, home, listening, heard, crashed,
                     failed>>

\* ... and takes it from the map, to close its transports (Room::onPeerClose).
PeerData(s) ==
  /\ pc[s] = "data"
  /\ IF SamePeer(s, home[s]) = {}
     THEN Goto(s, "data", "gone") /\ crashed' = TRUE
     ELSE Goto(s, "data", "remove") /\ UNCHANGED crashed
  /\ UNCHANGED <<roomMap, created, closed, members, room, home, listening, heard, left, failed>>

\* removePeer() looks for a peer of the id, whichever socket's it is, ...
RemovePeer(s) ==
  /\ room[s] # Null
  /\ Goto(s, "remove", IF SamePeer(s, room[s]) = {} THEN "check" ELSE "take")
  /\ UNCHANGED <<roomMap, created, closed, members, room, home, listening, heard, left, crashed,
                 failed>>

\* ... takes it from the map and disconnects its signals, ...
TakePeer(s) ==
  /\ pc[s] = "take"
  /\ IF SamePeer(s, room[s]) = {}
     THEN Goto(s, "take", "gone") /\ crashed' = TRUE /\ UNCHANGED heard
     ELSE Goto(s, "take", "erase") /\ heard' = heard \ SamePeer(s, room[s]) /\ UNCHANGED crashed
  /\ UNCHANGED <<roomMap, created, closed, members, room, home, listening, left, failed>>

\* Mutated forms of ErasePeer: the peer stays in the room's map ...
EraseNobody(s) ==
  /\ Goto(s, "erase", "check")
  /\ UNCHANGED <<roomMap, created, closed, members, room, home, listening, heard, left, crashed,
                 failed>>

\* ... or is taken to be the only one.
EraseEverybody(s) ==
  /\ Goto(s, "erase", "check")
  /\ members' = [members EXCEPT ![room[s]] = {}]
  /\ UNCHANGED <<roomMap, created, closed, room, home, listening, heard, left, crashed, failed>>

\* ... and erases whatever peer has the id by then.
ErasePeer(s) ==
  /\ Goto(s, "erase", "check")
  /\ members' = [members EXCEPT ![room[s]] = @ \ SamePeer(s, room[s])]
  /\ UNCHANGED <<roomMap, created, closed, room, home, listening, heard, left, crashed, failed>>

\* The room id was taken out of the lobby's map after it was looked up.
RemoveNull(s) ==
  /\ room[s] = Null
  /\ Goto(s, "remove", "gone")
  /\ crashed' = TRUE
  /\ UNCHANGED <<roomMap, created, closed, members, room, home, listening, heard, left, failed>>

\* The last peer to leave closes the room, with its router, ...
CheckEmpty(s) ==
  /\ pc[s] = "check"
  /\ IF members[room[s]] = {}
     THEN Goto(s, "check", "delete") /\ closed' = closed \cup {room[s]}
     ELSE Goto(s, "check", "isEmpty") /\ UNCHANGED closed
  /\ UNCHANGED <<roomMap, created, members, room, home, listening, heard, left, crashed, failed>>

\* ... and closeSignal takes the room id out of the lobby's map.
OnRoomClose(s) ==
  /\ Goto(s, "delete", "isEmpty")
  /\ roomMap' = Absent
  /\ UNCHANGED <<created, closed, members, room, home, listening, heard, left, crashed, failed>>

\* The lobby does so once more when it finds the room empty.
IsEmpty(s) ==
  /\ Goto(s, "isEmpty", IF members[room[s]] = {} THEN "deleteRoom" ELSE "gone")
  /\ UNCHANGED <<roomMap, created, closed, members, room, home, listening, heard, left, crashed,
                 failed>>

DeleteRoom(s) ==
  /\ Goto(s, "deleteRoom", "gone")
  /\ roomMap' = Absent
  /\ UNCHANGED <<created, closed, members, room, home, listening, heard, left, crashed, failed>>

-----------------------------------------------------------------------------
Open(s) ==
  \/ Contains(s) \/ Get(s) \/ Create(s) \/ CreateNull(s) \/ CreateThrows(s)
  \/ Emplace(s) \/ Enter(s) \/ AddPeer(s)

CloseSocket(s) ==
  \/ Destroy(s) \/ Find(s) \/ LeavePeer(s) \/ PeerData(s)
  \/ RemovePeer(s) \/ RemoveNull(s) \/ TakePeer(s) \/ ErasePeer(s)
  \/ CheckEmpty(s) \/ OnRoomClose(s) \/ IsEmpty(s) \/ DeleteRoom(s)

Opening(s) == pc[s] \in OpeningPC
Closing(s) == pc[s] \in ClosingPC

Racing == \E s, t \in Sockets : s # t /\ Opening(s) /\ (Opening(t) \/ Closing(t))

Next ==
  /\ ~crashed
  /\ \E s \in Sockets : Open(s) \/ CloseSocket(s)
  /\ raced' = (raced \/ Racing')

Spec == Init /\ [][Next]_vars

-----------------------------------------------------------------------------
Settled == ~crashed /\ \A s \in Sockets : pc[s] \in {"new", "open", "gone"}

\* Unless a socket was opened while another was being opened or destroyed, the
\* lobby's map has exactly the one room with peers in it, every open peer is in
\* it, and what has gone is closed; destroying sockets together does no harm
\* (Lobby::onBeforeDestroy_NonBlocking, Room::removePeer).
MapIsExact ==
  Settled /\ ~raced =>
    LET present == {s \in listening : pc[s] = "open"} IN
      /\ roomMap = Absent <=> present = {}
      /\ \A s \in present : home[s] = roomMap /\ s \in members[roomMap]
      /\ \A r \in 1 .. created : r \in closed <=> members[r] = {}
      /\ \A s \in listening : pc[s] = "gone" => s \in left

\* A null pointer is used only after such a race, or by a socket whose room could
\* not be created, or when a socket is destroyed that had no listener, for it gave
\* the peer id of another, open one.
CrashNeedsRaceDuplicateOrFailure ==
  crashed => \/ raced
             \/ \E s \in failed : pc[s] = "gone"
             \/ \E s \in Sockets \ listening, t \in listening :
                  pc[s] = "gone" /\ PeerId[s] = PeerId[t]

\* A room keeps a peer until that peer's own socket is destroyed: only a socket
\* that gave the same peer id, and raced with it, can take its place.
PeersStayInTheirRoom ==
  \A s \in listening :
    pc[s] = "open" /\ s \notin members[home[s]] =>
      raced /\ \E t \in Sockets \ {s} : PeerId[t] = PeerId[s]

\* What the comment on Lobby::getOrCreateRoom says: the room of the name is
\* returned, and a new one created only if there is none.
PeersShareRoom ==
  \A s, t \in listening :
    pc[s] = "open" /\ pc[t] = "open" => home[s] = home[t]
=============================================================================
