------------------------- MODULE SimulcastConsumer -------------------------
(***************************************************************************)
(* One simulcast consumer of the worker (worker/src/RTC/SimulcastConsumer, *)
(* Consumer, and what Producer and Transport call in it): which of the     *)
(* publisher's streams it wants, which it forwards, and how it joins their *)
(* packets into one stream.                                                *)
(*                                                                         *)
(* The publisher captures frames, each a packet of every layer it sends.   *)
(* A layer has sequence numbers and timestamps of its own; its sender      *)
(* reports relate the latter exactly.  Temporal layers are left out.  A    *)
(* stream that has a score has a bitrate, another may have one.  The       *)
(* worker is single-threaded: each handler is one step on the record w.    *)
(***************************************************************************)
EXTENDS RtpStream, FiniteSets, FiniteSetsExt, TLC

CONSTANTS
    TsMod,        \* how many timestamps there are
    FrameTs,      \* the clock's ticks between two frames, as in MsOffset
    MaxExtra,     \* MaxExtraOffsetMs in ticks of the clock
    MaxSequenceNumberGap,
    FirstSeq, FirstTs,   \* the first number and timestamp of each layer
    Plans         \* the courses a run may take

(***************************************************************************)
(* A plan gives how many layers there are, whether the transport manages   *)
(* the bitrate, what keeps the consumer inactive at first, whether the     *)
(* publisher answers a key frame request with its next frame, which frames *)
(* are torn (their last packet is missing), and the bounds: how many       *)
(* frames, for how many a packet may be on its way, how many interruptions.*)
(***************************************************************************)
ASSUME PlansAssumption ==
    \A b \in Plans :
        /\ b.layers \in Nat \ {0}
        /\ \A l \in 0 .. b.layers - 1 : FirstSeq[l] \in Nat /\ FirstTs[l] \in Nat

Ts == INSTANCE SeqManager WITH SeqMod <- TsMod

VARIABLES
    plan,     \* the run's bounds, and whether the transport manages the bitrate
    now,      \* frames captured so far
    net,      \* packets on their way to the worker: [layer, tick, kind]
    sending,  \* layers the publisher sends
    w,        \* the worker: the producer's streams and the consumer
    faults,   \* bound: interruptions so far
    used,     \* history: the numbers the subscriber was sent
    again,    \* history: one of them was used twice
    strayed   \* history: padding of a layer that was not forwarded was dropped

vars == <<plan, now, net, sending, w, faults, used, again, strayed>>

Layers == 0 .. plan.layers - 1

SeqOf(p) == Wrap(FirstSeq[p.layer] + p.tick)
TsOf(p) == Ts!Wrap(FirstTs[p.layer] + FrameTs * p.tick)

-----------------------------------------------------------------------------
(* Target layers.                                                          *)

\* RTC::Consumer::IsActive, and SimulcastConsumer::IsActive.
Wanted(c) == c.off = {}
IsActive(c) == Wanted(c) /\ c.alive # {}

\* Mutated form: the reference need not have a Sender Report.
CanSwitchAlone(c, layer) == c.tsRef = -1 \/ layer = c.tsRef \/ layer \in c.reported

CanSwitchToSpatialLayer(c, layer) ==
    c.tsRef = -1 \/ layer = c.tsRef \/ {c.tsRef, layer} \subseteq c.reported

UpdateTargetLayers(c, layer) ==
    IF layer = -1 THEN [c EXCEPT !.target = -1, !.current = -1]
    ELSE [c EXCEPT !.tsRef = IF @ = -1 THEN layer ELSE @,
                   !.target = layer,
                   !.asked = IF layer = c.current THEN @ ELSE @ \cup {layer}]

RecalculateTargetLayers(c) ==
    LET best[l \in {-1} \cup Layers] ==
          IF l = -1 THEN -1
          ELSE LET sofar == best[l - 1]
                   skipped == \/ l \notin c.alive \/ ~CanSwitchToSpatialLayer(c, l)
                              \/ sofar # -1 /\ c.wary /\ l > c.current
                              \/ sofar # -1 /\ plan.managed /\ l \in c.young
               IN  IF sofar >= c.preferred \/ skipped THEN sofar ELSE l
    IN  best[plan.layers - 1]

\* The layer IncreaseLayer goes on to from a provisional one, if the bitrate allows:
\* the first that has a bitrate itself, which may outlive its score.
IncreaseLayer(c, from) ==
    LET tested == {l \in c.here : /\ l > from /\ CanSwitchToSpatialLayer(c, l)
                                  /\ from # -1 /\ l \in c.young => from \in c.young}
        reached == {l \in tested :
                      /\ \A b \in tested : b < l => b < c.preferred
                      /\ from # -1 /\ c.wary => l <= c.current}
    IN  IF from >= c.preferred THEN {} ELSE {l \in reached : \A b \in reached \cap c.alive : l <= b}

\* ApplyLayers; a downgrade counts if the consumer's stream has been active for long.
ApplyLayers(c, layer) ==
    IF layer = c.target THEN {c}
    ELSE LET d == UpdateTargetLayers(c, layer)
         IN  {d} \cup
             (IF d.target < d.current /\ d.current <= d.preferred THEN {[d EXCEPT !.wary = TRUE]}
              ELSE {})

\* Transport::DistributeAvailableOutgoingBitrate, for any bitrate: what the
\* consumer may end with after any number of increases.
Distribute(c) ==
    LET after[n \in 0 .. plan.layers] ==
          IF n = 0 THEN {-1}
          ELSE after[n - 1] \cup UNION {IncreaseLayer(c, l) : l \in after[n - 1]}
    IN  IF IsActive(c) THEN UNION {ApplyLayers(c, l) : l \in after[plan.layers]} ELSE {c}

MayChangeLayers(c, force) ==
    LET layer == RecalculateTargetLayers(c)
    IN  IF plan.managed
        THEN (IF layer # c.target \/ force THEN Distribute(c) ELSE {}) \cup
             (IF layer = c.target THEN {c} ELSE {})
        ELSE {IF layer = c.target THEN c ELSE UpdateTargetLayers(c, layer)}

MayChangeIfActive(c) == IF IsActive(c) THEN MayChangeLayers(c, FALSE) ELSE {c}

-----------------------------------------------------------------------------
(* SendRtpPacket.                                                          *)

Switches(c, p) == c.current # c.target /\ p.layer = c.target

\* Neither the key frame that is waited for nor of the layer that is forwarded.
Ignored(c, p) ==
    \/ c.target = -1
    \/ Switches(c, p) /\ p.kind # "key"
    \/ ~Switches(c, p) /\ p.layer # c.current
    \/ c.syncRequired /\ p.kind # "key"

Syncs(c, p) == Switches(c, p) \/ c.syncRequired

\* What is to be taken from the timestamps of a layer to get the reference's.
NtpOffset(c, p) ==
    IF p.layer = c.tsRef THEN 0 ELSE Ts!Wrap(FirstTs[p.layer] - FirstTs[c.tsRef])

\* The key frame is older than what was sent, by a plain comparison; how much
\* must be added to its timestamp to follow that by one frame.
Behind(c, p) == Switches(c, p) /\ Ts!Wrap(TsOf(p) - NtpOffset(c, p)) <= c.maxTs
ExtraOffset(c, p) == Ts!Wrap(c.maxTs - TsOf(p) + NtpOffset(c, p) + FrameTs)

\* A key frame that would have to be put off by too much is not used; once.
Refused(c, p) ==
    Syncs(c, p) /\ Behind(c, p) /\ ExtraOffset(c, p) > MaxExtra /\ ~c.offsetAsked

\* Mutated form: and no other is asked for.
RefuseSilently(c) == [c EXCEPT !.offsetAsked = TRUE, !.syncRequired = FALSE]

Refuse(c) ==
    [c EXCEPT !.asked = @ \cup {c.target}, !.offsetAsked = TRUE, !.syncRequired = FALSE]

\* Mutated form: the reference's clock as it is.
SyncedPlainly(c, p) ==
    [c EXCEPT !.tsOffset = NtpOffset(c, p),
              !.sm = Sync(@, Wrap(SeqOf(p) - (IF c.complete THEN 1 ELSE 2))),
              !.syncRequired = FALSE, !.offsetAsked = FALSE]

Synced(c, p) ==
    LET extra == IF ~Behind(c, p) THEN 0
                 ELSE IF ExtraOffset(c, p) > MaxExtra THEN 1 ELSE ExtraOffset(c, p)
    IN  [c EXCEPT !.tsOffset = Ts!Wrap(NtpOffset(c, p) - extra),
                  !.sm = Sync(@, Wrap(SeqOf(p) - (IF c.complete THEN 1 ELSE 2))),
                  !.syncRequired = FALSE, !.offsetAsked = FALSE]

\* A packet of the layer from before the key frame it was switched to with.
TooOld(c, p) == ~Switches(c, p) /\ c.checking /\ IsSeqLowerThan(SeqOf(p), c.snRef)

\* Mutated form: older packets are not looked for.
SwitchedBlindly(c, p) == [c EXCEPT !.current = c.target, !.snRef = SeqOf(p)]

Switched(c, p) == [c EXCEPT !.current = c.target, !.snRef = SeqOf(p), !.checking = TRUE]

Located(c, p) ==
    IF Switches(c, p) THEN Switched(c, p)
    ELSE [c EXCEPT !.checking =
             @ /\ ~IsSeqHigherThan(SeqOf(p), Wrap(c.snRef + MaxSequenceNumberGap))]

\* RtpStreamSend::ReceivePacket: the highest timestamp, but for an invalid packet.
Stamped(c, out) ==
    LET v == ReceiveStreamPacket(c.snd, out.seq)
    IN  [ok |-> v.ok,
         c |-> [c EXCEPT !.snd = v.rs,
                         !.maxTs = IF v.ok /\ (~c.snd.started \/ v.reset
                                               \/ Ts!IsSeqHigherThan(out.ts, @))
                                   THEN out.ts ELSE @]]

\* The results of a packet that is forwarded: the consumer, and the number sent.
Forward(c, p) ==
    {LET s == Stamped([c EXCEPT !.sm = r.sm],
                      [seq |-> r.output, ts |-> Ts!Wrap(TsOf(p) - c.tsOffset)])
     IN  [c |-> IF s.ok /\ r.sm.maxOutput = r.output
                THEN [s.c EXCEPT !.complete = p.tick \notin plan.torn] ELSE s.c,
          sent |-> IF s.ok THEN {r.output} ELSE {}] : r \in Input(c.sm, SeqOf(p))}

Unsent(c) == [c |-> c, sent |-> {}]

SendRtpPacket(c, p) ==
    IF ~IsActive(c) THEN {Unsent(c)}
    ELSE IF p.kind = "pad" THEN {Unsent([c EXCEPT !.sm = sm]) : sm \in Drop(c.sm, SeqOf(p))}
    ELSE IF Ignored(c, p) THEN {Unsent(c)}
    ELSE IF Refused(c, p) THEN {Unsent(Refuse(c))}
    ELSE LET synced == IF Syncs(c, p) THEN Synced(c, p) ELSE c
         IN  IF TooOld(synced, p) THEN {Unsent(synced)}
             ELSE Forward(Located(synced, p), p)

-----------------------------------------------------------------------------
(* The publisher and the network.                                          *)

\* Only a publisher that was asked, or has just started, sends a key frame.
Capture ==
    /\ now < plan.frames
    /\ \E kind \in [sending -> {"key", "delta", "pad"}] :
         LET pads == {l \in sending : kind[l] = "pad"}
             due == {l \in sending : l \in w.asked \/ l \notin w.alive}
         IN  /\ \A l \in sending : kind[l] = "key" => l \in due
             /\ plan.prompt => \A l \in due : kind[l] # "delta"
             /\ faults + Cardinality(pads) <= plan.faults
             /\ faults' = faults + Cardinality(pads)
             /\ net' = {p \in net : p.tick > now + 1 - plan.window} \cup
                       {[layer |-> l, tick |-> now + 1, kind |-> kind[l]] : l \in sending}
    /\ now' = now + 1
    /\ UNCHANGED <<plan, sending, w, used, again, strayed>>

\* A stream whose packets have stopped for long loses its score.
Die(l) ==
    /\ l \in w.alive /\ "producer" \notin w.off
    /\ \A p \in net : p.layer # l
    /\ faults < plan.faults /\ faults' = faults + 1
    /\ sending' = sending \ {l}
    /\ LET c == [w EXCEPT !.alive = @ \ {l}]
       IN  w' \in IF Wanted(c) /\ ~IsActive(c) THEN {UpdateTargetLayers(c, -1)}
                  ELSE MayChangeIfActive(c)
    /\ UNCHANGED <<plan, now, net, used, again, strayed>>

Start(l) ==
    /\ l \notin sending
    /\ sending' = sending \cup {l}
    /\ UNCHANGED <<plan, now, net, w, faults, used, again, strayed>>

-----------------------------------------------------------------------------
(* Packets and reports.                                                    *)

\* Producer::ReceiveRtpPacket up to the listener: a stream that is new or has no
\* score gets one, the key frame requests are told, and the consumer looks again.
Received(c, p) ==
    LET l == p.layer
        woken == [c EXCEPT !.here = @ \cup {l}, !.alive = @ \cup {l}, !.young = IF plan.managed THEN @ \cup {l} ELSE @]
        Told(d) == [d EXCEPT !.asked = IF p.kind = "key" THEN @ \ {l} ELSE @]
        Forced(d) == [d EXCEPT !.asked = IF p.kind = "key" \/ "producer" \in d.off
                                         THEN @ ELSE @ \cup {l}]
    IN  IF l \notin c.here THEN MayChangeIfActive(Forced(Told(woken)))
        ELSE IF l \notin c.alive THEN {Told(d) : d \in MayChangeIfActive(woken)}
        ELSE {Told(c)}

Arrive(p) ==
    /\ net' = net \ {p}
    /\ \E c \in Received(w, p) :
         \E r \in IF "producer" \in c.off THEN {Unsent(c)} ELSE SendRtpPacket(c, p) :
           /\ w' = r.c
           /\ used' = used \cup r.sent
           /\ again' = (again \/ r.sent \cap used # {})
           /\ strayed' = (strayed \/ (p.kind = "pad" /\ c.current \notin {-1, p.layer}))
    /\ UNCHANGED <<plan, now, sending, faults>>

\* Mutated form: a report changes no layers.
SenderReportUnheard(l) ==
    /\ l \in w.here \ w.reported
    /\ w' = [w EXCEPT !.reported = @ \cup {l}]
    /\ UNCHANGED <<plan, now, net, sending, faults, used, again, strayed>>

\* The first Sender Report of a stream.
ProducerRtcpSenderReport(l) ==
    /\ l \in w.here \ w.reported
    /\ LET c == [w EXCEPT !.reported = @ \cup {l}]
       IN  w' \in IF c.tsRef \in c.reported THEN MayChangeIfActive(c) ELSE {c}
    /\ UNCHANGED <<plan, now, net, sending, faults, used, again, strayed>>

-----------------------------------------------------------------------------
(* Requests and interruptions.                                             *)

Only(c) == w' \in c /\ UNCHANGED <<plan, now, net, sending, used, again, strayed>>

SetPreferredLayers(l) ==
    /\ l # w.preferred
    /\ faults < plan.faults /\ faults' = faults + 1
    /\ LET c == [w EXCEPT !.preferred = l]
       IN  Only(IF IsActive(c) THEN MayChangeLayers(c, TRUE) ELSE {c})

\* A PLI of the subscriber, and the request of the application.
ReceiveKeyFrameRequest ==
    /\ IsActive(w) /\ w.current # -1 /\ w.current \notin w.asked
    /\ Only({[w EXCEPT !.asked = @ \cup {w.current}]})
    /\ faults < plan.faults /\ faults' = faults + 1

RequestKeyFrames ==
    /\ IsActive(w) /\ ~({w.target, w.current} \ {-1} \subseteq w.asked)
    /\ Only({[w EXCEPT !.asked = @ \cup ({w.target, w.current} \ {-1})]})
    /\ faults < plan.faults /\ faults' = faults + 1

\* The consumer, or its producer, is paused.
Pause(by) ==
    /\ by \notin w.off
    /\ faults < plan.faults /\ faults' = faults + 1
    /\ LET c == [w EXCEPT !.off = @ \cup {by}]
       IN  Only({IF IsActive(w) THEN [UpdateTargetLayers(c, -1) EXCEPT !.wary = FALSE] ELSE c})

\* A resumed producer asks for key frames of its streams when its consumers know.
Resume(by) ==
    /\ by \in w.off
    /\ LET c == [w EXCEPT !.off = @ \ {by}]
           d == [c EXCEPT !.syncRequired = TRUE, !.offsetAsked = FALSE, !.checking = FALSE]
       IN  Only({[e EXCEPT !.asked = IF by = "producer" THEN @ \cup w.here ELSE @] :
                   e \in IF IsActive(c) THEN MayChangeLayers(d, FALSE) ELSE {c}})
    /\ UNCHANGED faults

TransportConnected ==
    /\ "transport" \in w.off
    /\ Only(MayChangeIfActive([w EXCEPT !.off = @ \ {"transport"},
                                        !.syncRequired = TRUE, !.offsetAsked = FALSE]))
    /\ UNCHANGED faults

TransportDisconnected ==
    /\ "transport" \notin w.off
    /\ faults < plan.faults /\ faults' = faults + 1
    /\ Only({[UpdateTargetLayers(w, -1) EXCEPT !.off = @ \cup {"transport"}, !.wary = FALSE]})

\* The available bitrate changes, or another consumer's needs do.
BitrateChange ==
    /\ plan.managed
    /\ Only(Distribute(w))
    /\ faults < plan.faults /\ faults' = faults + 1

\* A stream has been active for StreamMinActiveMs, a downgrade is
\* BweDowngradeConservativeMs old.
Mature(l) ==
    /\ plan.managed /\ l \in w.young
    /\ Only({[w EXCEPT !.young = @ \ {l}]})
    /\ UNCHANGED faults

Relax ==
    /\ w.wary
    /\ Only({[w EXCEPT !.wary = FALSE]})
    /\ UNCHANGED faults

-----------------------------------------------------------------------------
Init ==
    /\ plan \in Plans
    /\ now = 0 /\ net = {} /\ faults = 0
    /\ sending = Layers
    /\ w = [here |-> {}, alive |-> {}, young |-> {}, reported |-> {}, asked |-> {},
            off |-> plan.off, preferred |-> plan.layers - 1,
            target |-> -1, current |-> -1, tsRef |-> -1, tsOffset |-> 0, maxTs |-> 0,
            syncRequired |-> plan.off = {}, offsetAsked |-> FALSE, checking |-> FALSE, snRef |-> 0,
            complete |-> FALSE, wary |-> FALSE, sm |-> NewSeqManager, snd |-> NewRtpStream]
    /\ used = {} /\ again = FALSE /\ strayed = FALSE

Next ==
    \/ Capture
    \/ \E p \in net : Arrive(p)
    \/ \E l \in Layers :
         \/ Die(l) \/ Start(l) \/ ProducerRtcpSenderReport(l)
         \/ SetPreferredLayers(l) \/ Mature(l)
    \/ ReceiveKeyFrameRequest \/ RequestKeyFrames
    \/ \E by \in {"consumer", "producer"} : Pause(by) \/ Resume(by)
    \/ TransportConnected \/ TransportDisconnected
    \/ BitrateChange \/ Relax

Spec == Init /\ [][Next]_vars

-----------------------------------------------------------------------------
(* Properties.                                                             *)

\* A layer other than the reference is only ever a target when both streams have a
\* Sender Report, which SendRtpPacket asserts when its key frame comes.
SwitchNeedsReports ==
    w.target \notin {-1, w.tsRef} => {w.tsRef, w.target} \subseteq w.reported

\* While a key frame is waited for, one has been asked for and has not come.
SwitchIsAwaited ==
    IsActive(w) /\ w.target \notin {-1, w.current} => w.target \in w.asked

\* When the consumer chooses by itself, its target is the best layer there is: the
\* lowest from the preferred one up, or else the highest; none while it is not active.
TargetIsBest ==
    LET can == {l \in w.alive : CanSwitchToSpatialLayer(w, l)}
        enough == {l \in can : l >= w.preferred}
    IN  /\ ~IsActive(w) => w.target = -1 /\ w.current = -1
        /\ IsActive(w) /\ ~plan.managed =>
             w.target = IF enough # {} THEN Min(enough) ELSE Max(can \cup {-1})

\* No number is used twice for the subscriber, however often the layers change and
\* whatever comes late, but after padding of a layer that is not forwarded: its
\* number is dropped from the sequence of another.
OutputsOnce == again => strayed

\* The first packet after a switch is later than all that were sent before, unless the
\* switch was given up as too far behind.
TimeGoesForward ==
    [][w'.current \notin {-1, w.current} /\ w.snd.started =>
         Ts!IsSeqHigherThan(w'.maxTs, w.maxTs) \/ w.offsetAsked
                                          \/ w.maxTs <= MaxExtra + FrameTs * plan.window]_vars
=============================================================================
