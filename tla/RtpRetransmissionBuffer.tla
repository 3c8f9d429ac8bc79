---------------------- MODULE RtpRetransmissionBuffer ----------------------
(***************************************************************************)
(* The packets a consumer keeps for retransmission, worker/src/RTC/        *)
(* RtpRetransmissionBuffer.cpp: a deque indexed by sequence number, oldest *)
(* first, with blank slots for the numbers not stored.  An item is         *)
(* [seq, ts, pkt]; Blank is the null pointer.  Sequence numbers compare    *)
(* modulo SeqMod, timestamps modulo TsMod: the two instantiations of the   *)
(* SeqManager template.                                                    *)
(***************************************************************************)
EXTENDS SeqManager

CONSTANTS TsMod,                    \* 2^32 in the code
          MaxItems,                 \* RetransmissionBufferMaxItems
          MaxRetransmissionDelay,   \* in units of the timestamp
          Blank

Ts == INSTANCE SeqManager WITH SeqMod <- TsMod

ASSUME BufferAssumption ==
    /\ TsMod \in Nat /\ TsMod >= 4 /\ TsMod % 2 = 0
    /\ MaxItems \in 1 .. Half
    /\ MaxRetransmissionDelay \in Nat

Items == [seq : Seqs, ts : Ts!Seqs, pkt : Nat]

ASSUME BlankAssumption == Blank \notin Items

Oldest(buf) == buf[1]
Newest(buf) == buf[Len(buf)]

IsTooOldTimestamp(ts, newestTs) ==
    ~Ts!IsSeqHigherThan(ts, newestTs) /\ Ts!Wrap(newestTs - ts) > MaxRetransmissionDelay

\* The item stored as seq, Blank when there is none.
BufferGet(buf, seq) ==
    IF buf = <<>> \/ IsSeqLowerThan(seq, Oldest(buf).seq) THEN Blank
    ELSE LET idx == Wrap(seq - Oldest(buf).seq)
         IN  IF idx > Len(buf) - 1 THEN Blank ELSE buf[idx + 1]

-----------------------------------------------------------------------------
\* Removing from the front always goes on to the next item: the buffer
\* restarts at the first index that is an item and satisfies Keep, or is
\* emptied.
From(buf, starts) ==
    IF starts = {} THEN <<>>
    ELSE SubSeq(buf, CHOOSE i \in starts : \A j \in starts : i <= j, Len(buf))

ItemsAt(buf) == {i \in 1 .. Len(buf) : buf[i] # Blank}

\* Mutated form: blank slots are left at the front.
RemoveOldestOnly(buf, numItems) == SubSeq(buf, numItems + 1, Len(buf))

RemoveOldest(buf, numItems) == From(buf, {i \in ItemsAt(buf) : i > numItems})

ClearTooOldByTimestamp(buf, newestTs) ==
    From(buf, {i \in ItemsAt(buf) : ~IsTooOldTimestamp(buf[i].ts, newestTs)})

Blanks(n) == [i \in 1 .. n |-> Blank]

-----------------------------------------------------------------------------
\* A packet newer than the newest: it goes to the back after the blank
\* slots, the oldest items leaving to make room.
InsertInOrder(buf, item) ==
    LET blank == Wrap(item.seq - Newest(buf).seq - 1)
        excess == Len(buf) + blank + 1 - MaxItems
    IN  IF Ts!IsSeqLowerThan(item.ts, Newest(buf).ts) THEN buf
        ELSE IF excess > Len(buf) - 1 THEN <<item>>
        ELSE (IF excess > 0 THEN RemoveOldest(buf, excess) ELSE buf)
                \o Blanks(blank) \o <<item>>

\* A packet older than the oldest: it goes to the front, if it fits.
InsertBefore(buf, item) ==
    LET blank == Wrap(Oldest(buf).seq - item.seq - 1)
    IN  IF \/ IsTooOldTimestamp(item.ts, Newest(buf).ts)
           \/ Ts!IsSeqHigherThan(item.ts, Oldest(buf).ts)
           \/ Len(buf) + blank + 1 > MaxItems
        THEN buf
        ELSE <<item>> \o Blanks(blank) \o buf

\* The timestamp of a packet in between is compared with its neighbours' as
\* plain integers, not in the circular order.
NotBefore(buf, idx, item) ==
    LET older == {i \in ItemsAt(buf) : i < idx}
    IN  \A i \in older : (\A j \in older : j <= i) => item.ts >= buf[i].ts

\* Mutated form: a packet must be older than its newer neighbour, not of its frame.
NotAfterStrictly(buf, idx, item) ==
    LET newer == {i \in ItemsAt(buf) : i > idx}
    IN  \A i \in newer : (\A j \in newer : i <= j) => item.ts < buf[i].ts

NotAfter(buf, idx, item) ==
    LET newer == {i \in ItemsAt(buf) : i > idx}
    IN  \A i \in newer : (\A j \in newer : i <= j) => item.ts <= buf[i].ts

\* A packet in between: its slot exists.
InsertBetween(buf, item) ==
    LET idx == Wrap(item.seq - Oldest(buf).seq) + 1
    IN  IF BufferGet(buf, item.seq) = Blank /\ NotBefore(buf, idx, item) /\ NotAfter(buf, idx, item)
        THEN [buf EXCEPT ![idx] = item] ELSE buf

BufferInsert(buf, item) ==
    IF buf = <<>> THEN <<item>>
    ELSE IF /\ IsSeqLowerThan(item.seq, Newest(buf).seq)
            /\ Ts!IsSeqHigherThan(item.ts, Newest(buf).ts)
    THEN <<item>>
    ELSE LET newestTs == IF Ts!IsSeqHigherThan(item.ts, Newest(buf).ts)
                         THEN item.ts ELSE Newest(buf).ts
             young == ClearTooOldByTimestamp(buf, newestTs)
         IN  IF young = <<>> THEN <<item>>
             ELSE IF IsSeqHigherThan(item.seq, Newest(young).seq) THEN InsertInOrder(young, item)
             ELSE IF IsSeqLowerThan(item.seq, Oldest(young).seq) THEN InsertBefore(young, item)
             ELSE InsertBetween(young, item)
=============================================================================
