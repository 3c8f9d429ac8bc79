--------------------------- MODULE NackGenerator ---------------------------
(***************************************************************************)
(* The list of missing packets of one received stream, worker/src/RTC/     *)
(* NackGenerator.cpp, as operators on a record:                            *)
(*   started, lastSeq   the newest sequence number seen on the media SSRC  *)
(*   nackList           [seq, sent, retries] of the packets being asked    *)
(*                      for; sent: a NACK for it has gone out              *)
(*   keyFrameList       recent key frames                                  *)
(*   recoveredList      packets that came by RTX before their turn         *)
(*   timer              the 40 ms timer is running                         *)
(* An operation returns the set of its possible results [ng, found, asked, *)
(* needKey]: the value returned, the numbers passed to                     *)
(* OnNackGeneratorNackRequired, and whether                                *)
(* OnNackGeneratorKeyFrameRequired was called.  Time is not counted: which *)
(* entries are old enough to be asked for (again) is a choice.             *)
(***************************************************************************)
EXTENDS SeqManager, FiniteSets

CONSTANTS MaxPacketAge,    \* 10000 in the code
          MaxNackPackets,  \* 1000
          MaxNackRetries   \* 10

ASSUME NackAssumption ==
    /\ MaxPacketAge \in 1 .. Half
    /\ MaxNackPackets \in 0 .. MaxPacketAge - 1
    /\ MaxNackRetries \in Nat \ {0}

NackInfos == [seq : Seqs, sent : BOOLEAN, retries : 0 .. MaxNackRetries - 1]

NewNackGenerator ==
    [started |-> FALSE, lastSeq |-> 0, nackList |-> {},
     keyFrameList |-> {}, recoveredList |-> <<>>, timer |-> FALSE]

\* The timer is left running: it stops itself when it finds the list empty.
NackReset(ng) == [NewNackGenerator EXCEPT !.timer = ng.timer]

Nacked(ng) == {n.seq : n \in ng.nackList}

NothingAsked(ng) == [ng |-> ng, found |-> FALSE, asked |-> {}, needKey |-> FALSE]

-----------------------------------------------------------------------------
\* Mutated forms of Ask: an entry forgotten once asked for, and retries that are not
\* counted.
AskOnce(ng, ask) == [ng EXCEPT !.nackList = @ \ ask]

AskForever(ng, ask) ==
    [ng EXCEPT !.nackList = (@ \ ask) \cup {[n EXCEPT !.sent = TRUE] : n \in ask}]

\* The entries in ask get their NACK; one that reaches the last retry leaves.
Ask(ng, ask) ==
    [ng EXCEPT !.nackList =
        (@ \ ask) \cup {[n EXCEPT !.sent = TRUE, !.retries = @ + 1] :
                           n \in {m \in ask : m.retries + 1 < MaxNackRetries}}]

\* Filter SEQ: every entry never asked for that the 10 ms delay lets out.
\* The entries just created (fresh) are too young; of the others the delay
\* releases the oldest ones first.
SeqBatches(ng, fresh) ==
    LET unsent == {n \in ng.nackList :
                      /\ ~n.sent /\ n.seq \notin fresh
                      /\ n.seq = ng.lastSeq \/ IsSeqHigherThan(ng.lastSeq, n.seq)}
    IN  {{}} \cup {{n \in unsent : ~IsSeqHigherThan(n.seq, m.seq)} : m \in unsent}

\* Filter TIME: those never asked for and those asked a round trip ago.
TimeBatches(ng) == SUBSET ng.nackList

-----------------------------------------------------------------------------
\* RemoveNackItemsUntilKeyFrame in its loop: the oldest key frame whose
\* older neighbours, once given up, leave room for `new' entries.
Survivors(ng, k) == {n \in ng.nackList : ~IsSeqLowerThan(n.seq, k)}

Frees(ng, new) == {k \in ng.keyFrameList : Cardinality(Survivors(ng, k)) + new <= MaxNackPackets}

\* The first key frame of the list: in the circular order any may be, once
\* they lie so far apart that none is the lowest.
FirstOf(keys) ==
    LET lowest == {x \in keys : \A y \in keys : ~IsSeqLowerThan(y, x)}
    IN  IF lowest = {} THEN keys ELSE lowest

\* Mutated form: only the new entries are held against the limit.
MakeRoomForNew(ng, new) ==
    IF new <= MaxNackPackets
    THEN {[ng |-> ng, needKey |-> FALSE]}
    ELSE {[ng |-> [ng EXCEPT !.nackList = {}, !.keyFrameList = {}], needKey |-> TRUE]}

MakeRoom(ng, new) ==
    IF Cardinality(ng.nackList) + new <= MaxNackPackets
    THEN {[ng |-> ng, needKey |-> FALSE]}
    ELSE IF Frees(ng, new) = {}
    THEN {[ng |-> [ng EXCEPT !.nackList = {}, !.keyFrameList = {}], needKey |-> TRUE]}
    ELSE {[ng |-> [ng EXCEPT !.nackList = Survivors(ng, k),
                             !.keyFrameList = {y \in @ : ~IsSeqLowerThan(y, k)}],
           needKey |-> FALSE] : k \in FirstOf(Frees(ng, new))}

\* The packets numbered from seqStart to before seqEnd are missing.
AddPacketsToNackList(ng, seqStart, seqEnd) ==
    LET young == [ng EXCEPT !.nackList =
                     {n \in @ : ~IsSeqLowerThan(n.seq, Wrap(seqEnd - MaxPacketAge))}]
        new == Wrap(seqEnd - seqStart)
        missing == {Wrap(seqStart + i) : i \in 0 .. new - 1}
        \* recoveredList.find: a number is skipped when the search finds it.
        skipped == {s \in missing : \E i \in LowerBounds(ng.recoveredList, s) :
                                       FoundAt(ng.recoveredList, i, s)}
        fresh == missing \ skipped
        entries == {[seq |-> s, sent |-> FALSE, retries |-> 0] : s \in fresh}
    IN  {IF room.needKey
         THEN [ng |-> room.ng, needKey |-> TRUE, fresh |-> {}]
         ELSE [ng |-> [room.ng EXCEPT !.nackList = @ \cup entries],
               needKey |-> FALSE, fresh |-> fresh] : room \in MakeRoom(young, new)}

-----------------------------------------------------------------------------
\* A packet behind lastSeq: it leaves the list.  True only when it had been
\* asked for.
ReceiveOlder(ng, seq) ==
    LET hit == {n \in ng.nackList : n.seq = seq}
    IN  {[ng |-> [ng EXCEPT !.nackList = @ \ hit],
          found |-> \E n \in hit : n.retries # 0,
          asked |-> {}, needKey |-> FALSE]}

WithKeyFrame(ng, seq, isKeyFrame) ==
    [ng EXCEPT !.keyFrameList =
        {k \in @ \cup (IF isKeyFrame THEN {seq} ELSE {}) :
            ~IsSeqLowerThan(k, Wrap(seq - MaxPacketAge))}]

\* Newer than lastSeq, and from RTX: remembered, not let through.
ReceiveRecovered(ng, seq) ==
    {NothingAsked([ng EXCEPT !.recoveredList = r]) :
        r \in UNION {EraseLower(s, Wrap(seq - MaxPacketAge)) : s \in InsertAny(ng.recoveredList, seq)}}

\* Newer than lastSeq: what lies between becomes missing.
ReceiveNewer(ng, seq) ==
    UNION {LET moved == [add.ng EXCEPT !.lastSeq = seq]
           IN  {LET after == Ask(moved, ask)
                IN  [ng |-> [after EXCEPT !.timer = @ \/ after.nackList # {}],
                     found |-> FALSE, asked |-> {n.seq : n \in ask}, needKey |-> add.needKey] :
                   ask \in SeqBatches(moved, add.fresh)} :
              add \in AddPacketsToNackList(ng, Wrap(ng.lastSeq + 1), seq)}

\* NackGenerator::ReceivePacket.
NackReceivePacket(ng, seq, isKeyFrame, isRecovered) ==
    IF ~ng.started
    THEN {NothingAsked([ng EXCEPT !.started = TRUE, !.lastSeq = seq,
                                  !.keyFrameList = IF isKeyFrame THEN @ \cup {seq} ELSE @])}
    ELSE IF seq = ng.lastSeq THEN {NothingAsked(ng)}
    ELSE IF IsSeqLowerThan(seq, ng.lastSeq) THEN ReceiveOlder(ng, seq)
    ELSE LET kept == WithKeyFrame(ng, seq, isKeyFrame)
         IN  IF isRecovered THEN ReceiveRecovered(kept, seq) ELSE ReceiveNewer(kept, seq)

\* NackGenerator::OnTimer, for the entries in ask.
NackOnTimer(ng, ask) ==
    LET after == Ask(ng, ask)
    IN  [ng |-> [after EXCEPT !.timer = after.nackList # {}],
         found |-> FALSE, asked |-> {n.seq : n \in ask}, needKey |-> FALSE]
=============================================================================
