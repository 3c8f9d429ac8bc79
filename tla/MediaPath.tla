----------------------------- MODULE MediaPath -----------------------------
(***************************************************************************)
(* One video stream through the worker: publisher, network, Producer with  *)
(* its received stream (sequence check, NACK generator, key frame          *)
(* requests), SimpleConsumer (synchronisation, renumbering) with its sent  *)
(* stream and retransmission buffer.  The worker handles one packet, timer *)
(* or request at a time, each in one action.                               *)
(*                                                                         *)
(* The publisher's packets are pkts[1], pkts[2] ...: [num, seq, ts, kind], *)
(* num being the sequence number before it is wrapped.  A packet reaches   *)
(* the worker at once, or late (as itself or as a retransmission, while it *)
(* is recent), or never; it may be duplicated.  A PLI may be lost.         *)
(***************************************************************************)
EXTENDS NackGenerator, RtpRetransmissionBuffer, RtpStream, KeyFrameRequestManager

CONSTANTS
    MaxDelay,      \* bound: how far behind the newest packet a late one arrives
    FirstSeq,      \* the publisher's first sequence number
    Jumps,         \* by how much a restarting publisher's numbers may move
    FirstTs,       \* its first timestamp; each frame has two packets
    Plans          \* bound: the courses of events looked at, each a record
                   \*   packets    how many the publisher sends
                   \*   padding    which of them are padding only
                   \*   large      which of them are larger than MtuSize
                   \*   joined     its first packet is not a key frame
                   \*   calm       it does not restart and nobody pauses
                   \*   faults     how many faults and pauses there may be

ASSUME MediaAssumption ==
    /\ MaxDelay \in 1 .. Half
    /\ FirstSeq \in Int /\ FirstTs \in Int /\ Jumps \subseteq Int
    /\ \A p \in Plans : p.packets \in Nat /\ p.faults \in Nat

VARIABLES
    newest,    \* how many packets the publisher has sent
    pkts,      \* the recent ones
    plan,      \* the course of events, chosen at the start
    shift,     \* what its restarts added to its sequence numbers
    late,      \* packets sent and not (yet) arrived
    pli,       \* a key frame request has reached the publisher
    faults,    \* faults and pauses so far
    paused,    \* Producer::paused
    recv,      \* the RtpStreamRecv: [rs, ng]
    kf,        \* the KeyFrameRequestManager
    cons,      \* the SimpleConsumer
    hist       \* what the properties remember; no action reads it

vars == <<newest, pkts, plan, shift, late, pli, faults, paused, recv, kf, cons, hist>>

NotSent == SeqMod     \* the output number of a packet not forwarded

Sent == DOMAIN pkts

\* Bound: nothing looks at packets half a cycle old.
Recent(ps) == {p \in ps : p >= newest - Half}

IsKey(p) == pkts[p].kind = "key"

\* SimpleConsumer::IsActive; the consumer is told of the producer's pauses at
\* once, so its producerPaused is the producer's.
IsActive(c, producerPaused) == c.connected /\ ~c.paused /\ ~producerPaused /\ c.stream

NoPacket == [pkt |-> 0, out |-> NotSent]

-----------------------------------------------------------------------------
(* SimpleConsumer.  An operation gives the consumer's possible next states. *)

\* RtpStreamSend::StorePacket.
StorePacket(buf, p, seq) ==
    IF p \in plan.large THEN buf ELSE BufferInsert(buf, [seq |-> seq, ts |-> pkts[p].ts, pkt |-> p])

\* RtpStreamSend::UserOnSequenceNumberReset.
ClearedOnReset(buf, check) == IF check.reset THEN <<>> ELSE buf

\* Mutated form: a packet whose number the stream refuses is stored all the same.
StoreRefused(c, p, seq) ==
    LET check == ReceiveStreamPacket(c.snd, seq)
        kept == ClearedOnReset(c.buf, check)
    IN  [c |-> [c EXCEPT !.snd = check.rs, !.buf = StorePacket(kept, p, seq)],
         output |-> IF check.ok THEN seq ELSE NotSent, synced |-> FALSE]

\* The consumer hands the renumbered packet to its RtpStreamSend, which
\* stores it if it accepts its number; a confirmed jump clears the buffer first.
SendNumbered(c, p, seq) ==
    LET check == ReceiveStreamPacket(c.snd, seq)
        kept == ClearedOnReset(c.buf, check)
    IN  [c |-> [c EXCEPT !.snd = check.rs,
                         !.buf = IF check.ok THEN StorePacket(kept, p, seq) ELSE kept],
         output |-> IF check.ok THEN seq ELSE NotSent, synced |-> FALSE]

Synced(c, p) == [c EXCEPT !.sm = Sync(@, Wrap(pkts[p].seq - 1)), !.syncRequired = FALSE]

\* SimpleConsumer::SendRtpPacket of an active consumer.
SendRtpPacket(c, p) ==
    IF pkts[p].kind = "pad"
    THEN {[c |-> [c EXCEPT !.sm = sm], output |-> NotSent, synced |-> FALSE] :
             sm \in Drop(c.sm, pkts[p].seq)}
    ELSE IF c.syncRequired /\ ~IsKey(p)
    THEN {[c |-> c, output |-> NotSent, synced |-> FALSE]}
    ELSE LET ready == IF c.syncRequired THEN Synced(c, p) ELSE c
         IN  {[SendNumbered([ready EXCEPT !.sm = in.sm], p, in.output)
                 EXCEPT !.synced = c.syncRequired] : in \in Input(ready.sm, pkts[p].seq)}

\* RtpStreamSend::Pause.
StreamPaused(c) == [c EXCEPT !.buf = <<>>]

-----------------------------------------------------------------------------
(* The publisher and the network.                                          *)

\* A fault of the network, a restart or a pause.
Fault == faults < plan.faults /\ faults' = faults + 1

\* The worker asks the publisher for a key frame (sent) or not; losing the
\* PLI is a fault.  The action itself costs `cost' faults.
Pli(sent, cost) ==
    /\ \/ pli' = (pli \/ sent) /\ faults' = faults + cost
       \/ sent /\ ~pli /\ pli' = FALSE /\ faults' = faults + cost + 1
    /\ faults' <= plan.faults

\* The encoder answers a PLI with its next packet; its first packet is a key
\* frame unless the stream was already running.
Kinds(i) ==
    IF i \in plan.padding THEN {"pad"}
    ELSE IF pli THEN {"key"}
    ELSE IF i = 1 /\ ~plan.joined THEN {"key"} ELSE {"delta"}

\* It is a fault when the previous packet has not arrived yet: it is late,
\* and after MaxDelay more packets lost.
Send ==
    LET i == newest + 1
        num == FirstSeq + shift + i
    IN  /\ i <= plan.packets
        /\ newest' = i
        /\ \E kind \in Kinds(i) :
              /\ pkts' = [p \in Recent(Sent) \cup {i} |->
                             IF p < i THEN pkts[p]
                             ELSE [num |-> num, seq |-> Wrap(num),
                                   ts |-> Ts!Wrap(FirstTs + i \div 2), kind |-> kind]]
              /\ pli' = (pli /\ kind # "key")
        /\ late' = {p \in late : p > i - MaxDelay} \cup {i}
        /\ IF i - 1 \in late THEN Fault ELSE UNCHANGED faults
        /\ UNCHANGED <<plan, shift, paused, recv, kf, cons, hist>>

\* The publisher restarts its encoder: its numbers go on from elsewhere.
\* Bound: once.
Restart ==
    /\ newest \in 1 .. plan.packets - 1
    /\ ~plan.calm /\ shift = 0 /\ Fault
    /\ \E j \in Jumps : shift' = shift + j
    /\ UNCHANGED <<newest, pkts, plan, late, pli, paused, recv, kf, cons, hist>>

-----------------------------------------------------------------------------
(* What the properties remember of a packet's way through the worker.      *)

\* r is what the NACK generator did with p.
Noted(h, p, viaRtx, r) ==
    LET passed == ~viaRtx \/ r.found
        moved == recv.ng.started /\ r.ng.lastSeq # recv.ng.lastSeq
        gap == Wrap(pkts[p].seq - recv.ng.lastSeq - 1)
        skipped == {q \in Sent : /\ moved /\ q \notin h.burnt
                                 /\ \E i \in DOMAIN recv.ng.recoveredList :
                                       recv.ng.recoveredList[i] = pkts[q].seq}
    IN  [h EXCEPT !.got = Recent(IF passed THEN @ \cup {p} ELSE @),
                  !.burnt = Recent(IF passed THEN @ ELSE @ \cup {p}),
                  !.skipped = Recent(@ \cup skipped),
                  !.newest = IF r.ng.lastSeq = pkts[p].seq THEN p ELSE @,
                  !.gaveUp = @ /\ ~(passed /\ IsKey(p)),
                  !.first = IF recv.ng.started THEN @ ELSE p,
                  !.full = IF moved /\ Cardinality(recv.ng.nackList) + gap > MaxNackPackets
                           THEN p ELSE @]

\* NACKs went out for the packets numbered by asked.
Asked(h, asked) ==
    LET ps == {p \in Sent : /\ pkts[p].seq \in asked
                            /\ \A q \in Sent : q > p => pkts[q].seq # pkts[p].seq}
        old == Recent(DOMAIN h.asks)
    IN  [h EXCEPT !.asks = [p \in old \cup ps |->
                               (IF p \in old THEN @[p] ELSE 0) + (IF p \in ps THEN 1 ELSE 0)]]

\* s is what the consumer did with p.
Forwarded(h, p, s) ==
    LET num == pkts[p].num
        start == IF s.synced THEN [h EXCEPT !.anchor = [nth |-> @.nth + 1, num |-> num], !.top = num - 1] ELSE h
        seen == [start EXCEPT !.top = IF num > @ THEN num ELSE @,
                              !.drops = {d \in @ : d.num > num - SeqMod}]
    IN  IF pkts[p].kind = "pad"
        THEN [seen EXCEPT !.drops = IF num > h.top THEN @ \cup {[num |-> num, epoch |-> h.anchor]} ELSE @]
        ELSE IF s.output = NotSent THEN seen
        ELSE [seen EXCEPT
                !.last = [pkt |-> p, out |-> s.output],
                !.outs = {o \in @ : o.pkt >= newest - Half}
                            \cup {[pkt |-> p, num |-> num, out |-> s.output,
                                   epoch |-> seen.anchor]}]

-----------------------------------------------------------------------------
(* The Producer.                                                           *)

\* Producer::ReceiveRtpPacket of a packet its stream finds valid, r being
\* the NACK generator's answer.
Accepted(p, viaRtx, rs, r, cost) ==
    LET passed == ~viaRtx \/ r.found
        isNew == ~recv.rs.started
        received == IF passed /\ IsKey(p) THEN KeyFrameReceived(kf) ELSE kf
        forced == isNew /\ ~paused /\ ~IsKey(p)
        c == IF isNew THEN [cons EXCEPT !.stream = TRUE] ELSE cons
        noted == Asked(Noted(hist, p, viaRtx, r), r.asked)
    IN  /\ recv' = [rs |-> rs, ng |-> r.ng]
        /\ kf' = IF forced THEN ForceKeyFrameNeeded(received).kf ELSE received
        /\ Pli(r.needKey \/ forced, cost)
        /\ IF passed /\ IsActive(c, paused)
           THEN \E s \in SendRtpPacket(c, p) :
                    cons' = s.c /\ hist' = Forwarded(noted, p, s)
           ELSE cons' = c /\ hist' = noted

\* Producer::ReceiveRtpPacket.
ReceiveRtpPacket(p, viaRtx, cost) ==
    LET check == IF viaRtx THEN UpdateSeq(recv.rs, pkts[p].seq)
                           ELSE ReceiveStreamPacket(recv.rs, pkts[p].seq)
    IN  /\ viaRtx => recv.rs.started
        /\ IF check.ok
           THEN \E r \in NackReceivePacket(recv.ng, pkts[p].seq, IsKey(p), viaRtx) :
                    Accepted(p, viaRtx, check.rs, r, cost)
           ELSE /\ recv' = [recv EXCEPT !.rs = check.rs]
                /\ faults' = faults + cost
                /\ UNCHANGED <<pli, kf, cons, hist>>
        /\ UNCHANGED <<newest, pkts, plan, shift, paused>>

\* A packet arrives, in time or late; when late, perhaps retransmitted.
Arrive ==
    \E p \in late : \E viaRtx \in {FALSE} \cup {p < newest} :
        /\ late' = late \ {p}
        /\ ReceiveRtpPacket(p, viaRtx, 0)

\* A packet that did arrive arrives again.
ArriveAgain ==
    \E p \in Recent(Sent) \ late : \E viaRtx \in BOOLEAN :
        /\ faults < plan.faults
        /\ p > newest - MaxDelay
        /\ UNCHANGED late
        /\ ReceiveRtpPacket(p, viaRtx, 1)

\* NackGenerator::OnTimer.
NackTimer(due) ==
    LET r == NackOnTimer(recv.ng, due)
    IN  /\ recv.ng.timer
        /\ recv' = [recv EXCEPT !.ng = r.ng]
        /\ hist' = Asked(hist, r.asked)
        /\ UNCHANGED <<newest, pkts, plan, shift, late, pli, faults, paused, kf, cons>>

\* PRODUCER_PAUSE, with what OnProducerPaused does to the consumer.
ProducerPause ==
    /\ ~paused /\ ~plan.calm /\ Fault
    /\ paused' = TRUE
    /\ recv' = [recv EXCEPT !.ng = IF recv.rs.started THEN NackReset(@) ELSE @]
    /\ cons' = IF IsActive(cons, paused) THEN StreamPaused(cons) ELSE cons
    /\ hist' = [hist EXCEPT !.last = IF IsActive(cons, paused) THEN NoPacket ELSE @]
    /\ UNCHANGED <<newest, pkts, plan, shift, late, pli, kf>>

\* PRODUCER_RESUME: the consumer asks for a key frame and waits for it, then
\* the producer forces one.
ProducerResume ==
    LET resumed == IsActive(cons, FALSE)
        asked == IF resumed THEN KeyFrameNeeded(kf) ELSE [kf |-> kf, sent |-> FALSE]
    IN  /\ paused
        /\ paused' = FALSE
        /\ cons' = [cons EXCEPT !.syncRequired = @ \/ resumed]
        /\ kf' = IF recv.rs.started THEN ForceKeyFrameNeeded(asked.kf).kf ELSE asked.kf
        /\ Pli(recv.rs.started, 0)
        /\ hist' = [hist EXCEPT !.gaveUp = FALSE]
        /\ UNCHANGED <<newest, pkts, plan, shift, late, recv>>

\* Producer::RequestKeyFrame, for a consumer in state c that has become active.
RequestKeyFrame(c) ==
    LET r == IF IsActive(c, paused) THEN KeyFrameNeeded(kf) ELSE [kf |-> kf, sent |-> FALSE]
    IN  /\ kf' = r.kf
        /\ Pli(r.sent, 0)
        /\ hist' = [hist EXCEPT !.gaveUp = @ /\ kf'.pending = "none"]

-----------------------------------------------------------------------------
(* The consumer's own requests.                                            *)

\* CONSUMER_PAUSE, or the transport disconnecting.
Stop(c) ==
    /\ ~plan.calm /\ Fault
    /\ cons' = c
    /\ hist' = [hist EXCEPT !.last = IF c.buf = cons.buf THEN @ ELSE NoPacket]
    /\ UNCHANGED <<newest, pkts, plan, shift, late, pli, paused, recv, kf>>

ConsumerPause ==
    /\ ~cons.paused
    /\ LET c == [cons EXCEPT !.paused = TRUE]
       IN  Stop(IF IsActive(cons, paused) THEN StreamPaused(c) ELSE c)

TransportDisconnected ==
    /\ cons.connected
    /\ Stop(StreamPaused([cons EXCEPT !.connected = FALSE]))

\* CONSUMER_RESUME: only a consumer that becomes active synchronises anew.
ConsumerResume ==
    LET c == [cons EXCEPT !.paused = FALSE]
        synced == [c EXCEPT !.syncRequired = @ \/ IsActive(c, paused)]
    IN  /\ cons.paused
        /\ cons' = synced
        /\ RequestKeyFrame(synced)
        /\ UNCHANGED <<newest, pkts, plan, shift, late, paused, recv>>

TransportConnected ==
    LET c == [cons EXCEPT !.connected = TRUE, !.syncRequired = TRUE]
    IN  /\ ~cons.connected
        /\ cons' = c
        /\ RequestKeyFrame(c)
        /\ UNCHANGED <<newest, pkts, plan, shift, late, paused, recv>>

\* A subscriber's PLI or FIR: SimpleConsumer::ReceiveKeyFrameRequest.  Bound:
\* it counts as a fault.
ReceiveKeyFrameRequest ==
    LET r == KeyFrameNeeded(kf)
    IN  /\ ~plan.calm /\ IsActive(cons, paused)
        /\ kf' = r.kf
        /\ Pli(r.sent, 1)
        /\ hist' = [hist EXCEPT !.gaveUp = @ /\ kf'.pending = "none"]
        /\ UNCHANGED <<newest, pkts, plan, shift, late, paused, recv, cons>>

\* The timer of the pending request, and that of the delayer.
RequestTimer ==
    LET r == OnKeyFrameRequestTimeout(kf)
    IN  /\ kf.pending # "none"
        /\ kf' = r.kf
        /\ Pli(r.sent, 0)
        /\ hist' = [hist EXCEPT !.gaveUp = @ \/ r.kf.pending = "none"]
        /\ UNCHANGED <<newest, pkts, plan, shift, late, paused, recv, cons>>

DelayTimer ==
    LET r == OnKeyFrameDelayTimeout(kf)
    IN  /\ kf.delayer # "none"
        /\ kf' = r.kf
        /\ Pli(r.sent, 0)
        /\ hist' = [hist EXCEPT !.gaveUp = @ /\ r.kf.pending = "none"]
        /\ UNCHANGED <<newest, pkts, plan, shift, late, paused, recv, cons>>

-----------------------------------------------------------------------------
Init ==
    /\ newest = 0 /\ pkts = <<>> /\ late = {} /\ shift = 0 /\ pli = FALSE /\ faults = 0
    /\ plan \in Plans
    /\ paused = FALSE
    /\ recv = [rs |-> NewRtpStream, ng |-> NewNackGenerator]
    /\ kf = NewKeyFrameRequestManager
    /\ cons = [paused |-> FALSE, connected |-> TRUE, stream |-> FALSE,
               syncRequired |-> TRUE, sm |-> NewSeqManager, snd |-> NewRtpStream, buf |-> <<>>]
    /\ hist = [got |-> {}, burnt |-> {}, skipped |-> {}, newest |-> 0, first |-> 0, full |-> 0,
               asks |-> <<>>, anchor |-> [nth |-> 0, num |-> 0], drops |-> {}, top |-> 0,
               last |-> NoPacket, outs |-> {}, gaveUp |-> FALSE]

Next ==
    \/ Send \/ Restart \/ Arrive \/ ArriveAgain
    \/ \E due \in TimeBatches(recv.ng) : NackTimer(due)
    \/ ProducerPause \/ ProducerResume
    \/ ConsumerPause \/ ConsumerResume
    \/ TransportDisconnected \/ TransportConnected
    \/ ReceiveKeyFrameRequest \/ RequestTimer \/ DelayTimer

\* Timers do fire, and every entry is due in the end.
Fairness == WF_vars(NackTimer(recv.ng.nackList))

Spec == Init /\ [][Next]_vars /\ Fairness

-----------------------------------------------------------------------------
Packets == [num : Int, seq : Seqs, ts : Ts!Seqs, kind : {"key", "delta", "pad"}]

NackGenerators ==
    [started : BOOLEAN, lastSeq : Seqs, nackList : SUBSET NackInfos,
     keyFrameList : SUBSET Seqs, recoveredList : Seq(Seqs), timer : BOOLEAN]

RtpStreams == [started : BOOLEAN, maxSeq : Seqs, badSeq : 0 .. SeqMod]

SeqManagers == [started : BOOLEAN, base : Seqs, maxInput : Seqs, maxOutput : Seqs, dropped : Seq(Seqs)]

Consumers ==
    [paused : BOOLEAN, connected : BOOLEAN, stream : BOOLEAN, syncRequired : BOOLEAN,
     sm : SeqManagers, snd : RtpStreams, buf : Seq(Items \cup {Blank})]

TypeOK ==
    /\ newest \in Nat /\ plan \in Plans /\ shift \in Int
    /\ Sent \subseteq 1 .. newest
    /\ \A p \in Sent : pkts[p] \in Packets
    /\ late \subseteq Sent
    /\ pli \in BOOLEAN /\ paused \in BOOLEAN
    /\ faults \in 0 .. plan.faults
    /\ recv \in [rs : RtpStreams, ng : NackGenerators]
    /\ kf \in KeyFrameStates
    /\ cons \in Consumers

-----------------------------------------------------------------------------
(* Properties.                                                             *)

\* Every packet missing between two that came is being asked for, unless it
\* has been asked for as often as the generator does, is too old, was given
\* up when the list was full - or, which no comment says, unless a copy came
\* by RTX that was thrown away (burnt: before the packet's turn, or before
\* the first NACK for it), or a copy of a packet one cycle earlier did, whose
\* number is still in recoveredList (skipped).
LossesAreChased ==
    recv.ng.started /\ shift = 0 =>
        \A p \in Recent(Sent) :
            hist.first < p /\ p < hist.newest /\ p \notin hist.got =>
                \/ pkts[p].seq \in Nacked(recv.ng)
                \/ p \in DOMAIN hist.asks /\ hist.asks[p] >= MaxNackRetries
                \/ p < hist.newest - MaxPacketAge
                \/ p < hist.full
                \/ p \in hist.burnt
                \/ p \in hist.skipped

Behind(o) == o.num < o.epoch.num

FarDrops(epoch) ==
    \E c, d \in hist.drops : /\ c.epoch = epoch /\ d.epoch = epoch /\ c.num < d.num
                             /\ IsSeqHigherThan(Wrap(c.num), Wrap(d.num))

\* What a subscriber sees: between two packets of one synchronisation the
\* numbers it gets lie apart by exactly the packets in between that were not
\* dropped on purpose, so that a gap means a loss and every loss is a gap.
\* Not so once two dropped packets lie so far apart that the circular order
\* takes the later one for the older: Drop then stores it in front of the
\* other, which its comment excludes ("at the end").
GapsMatchDrops ==
    shift = 0 =>
        \A a, b \in hist.outs :
            a.epoch = b.epoch /\ ~Behind(a) /\ a.num < b.num /\ ~FarDrops(a.epoch) =>
                Wrap(b.out - a.out) =
                    Wrap(b.num - a.num
                         - Cardinality({d \in hist.drops :
                                         d.epoch = a.epoch /\ a.num < d.num /\ d.num < b.num}))

\* Two packets never get one number, but for one that comes late from before
\* the key frame the consumer synchronised on (and after such far drops).
OutputsUnambiguous ==
    shift = 0 =>
        \A a, b \in hist.outs :
            a.out = b.out =>
                a.num = b.num \/ Behind(a) \/ Behind(b) \/ FarDrops(a.epoch) \/ FarDrops(b.epoch)

\* The NACK list is what its comment promises and its order needs: never
\* longer than its limit, one entry for a number, each entry behind the
\* newest packet by no more than MaxPacketAge, so that the circular order
\* never takes it for a newer one; and the timer that asks again is running.
NackListIsSound ==
    LET list == recv.ng.nackList
    IN  /\ Cardinality(list) <= MaxNackPackets
        /\ \A n, m \in list : n.seq = m.seq => n = m
        /\ \A n \in list : Wrap(recv.ng.lastSeq - n.seq) \in 1 .. MaxPacketAge
        /\ list # {} => recv.ng.timer

\* The index arithmetic is right about the buffer: it is no longer than its limit,
\* has an item at both ends, and each item is found by its number.
BufferIsIndexed ==
    LET buf == cons.buf
    IN  buf # <<>> =>
            /\ Len(buf) <= MaxItems
            /\ {1, Len(buf)} \subseteq ItemsAt(buf)
            /\ \A i \in ItemsAt(buf) : BufferGet(buf, buf[i].seq) = buf[i]

\* Each item is a packet that went out under its number (as far back as hist goes).
BufferHoldsSent ==
    LET buf == cons.buf
    IN  \A i \in ItemsAt(buf) :
            \/ buf[i].pkt < newest - Half
            \/ \E o \in hist.outs : o.pkt = buf[i].pkt /\ o.out = buf[i].seq

\* What RtpRetransmissionBuffer finds for a number is what the consumer sent under it,
\* whatever was renumbered, late, refused by the stream or thrown away meanwhile.
BufferIsExact == BufferIsIndexed /\ BufferHoldsSent

\* A packet just sent can be retransmitted, unless it is larger than the MTU, too far
\* behind the newest in numbers or in time - or, which is not intended, unless it came
\* late while the timestamps in the buffer wrap: those of its neighbours are
\* compared as plain integers.
SentIsKept ==
    LET o == hist.last
        buf == cons.buf
    IN  o.pkt # 0 /\ buf # <<>> =>
            \/ BufferGet(buf, o.out) # Blank
            \/ o.pkt \in plan.large
            \/ Wrap(Newest(buf).seq - o.out) >= MaxItems
            \/ IsTooOldTimestamp(pkts[o.pkt].ts, Newest(buf).ts)
            \/ Newest(buf).ts < Oldest(buf).ts

\* A consumer that waits for a key frame has a request on its way, or the
\* worker has asked twice and given up.
WaitingConsumerIsServed ==
    IsActive(cons, paused) /\ cons.syncRequired =>
        kf.pending # "none" \/ kf.delayer = "wanted" \/ hist.gaveUp

\* The NACK list empties again and again: the timer that asks again runs while
\* anything is missing, and nothing is asked for for ever.
NacksEnd == []<>(recv.ng.nackList = {})
=============================================================================
