----------------------------- MODULE RtpStream -----------------------------
(***************************************************************************)
(* The validation of the sequence numbers of one RTP stream, worker/src/   *)
(* RTC/RtpStream.cpp.  Both ends of the worker use it: the stream received *)
(* from the publisher and the stream sent to a subscriber.  A state is     *)
(* [started, maxSeq, badSeq], badSeq being the number that would confirm a *)
(* jump, or SeqMod (the code's RtpSeqMod + 1) when none is expected.       *)
(***************************************************************************)
EXTENDS SeqManager

CONSTANTS MaxDropout,   \* 3000 in the code
          MaxMisorder   \* 1500

ASSUME StreamAssumption == MaxDropout \in 1 .. Half /\ MaxMisorder \in 1 .. Half

NewRtpStream == [started |-> FALSE, maxSeq |-> 0, badSeq |-> SeqMod]

InitSeq(rs, seq) == [rs EXCEPT !.maxSeq = seq, !.badSeq = SeqMod]

\* The state after a packet numbered seq, whether it is valid, and whether it
\* confirms a jump (UserOnSequenceNumberReset).
UpdateSeq(rs, seq) ==
    LET udelta == Wrap(seq - rs.maxSeq)
    IN  IF udelta < MaxDropout THEN [rs |-> [rs EXCEPT !.maxSeq = seq], ok |-> TRUE, reset |-> FALSE]
        ELSE IF udelta > SeqMod - MaxMisorder THEN [rs |-> rs, ok |-> TRUE, reset |-> FALSE]
        ELSE IF seq = rs.badSeq THEN [rs |-> InitSeq(rs, seq), ok |-> TRUE, reset |-> TRUE]
        ELSE [rs |-> [rs EXCEPT !.badSeq = Wrap(seq + 1)], ok |-> FALSE, reset |-> FALSE]

ReceiveStreamPacket(rs, seq) ==
    IF rs.started THEN UpdateSeq(rs, seq)
    ELSE UpdateSeq([InitSeq(rs, seq) EXCEPT !.started = TRUE, !.maxSeq = Wrap(seq - 1)], seq)
=============================================================================
