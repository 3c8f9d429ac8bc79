---------------------------- MODULE SeqManager ----------------------------
(***************************************************************************)
(* Sequence number arithmetic of the worker (worker/src/RTC/SeqManager):   *)
(* the circular order in which RTP sequence numbers and timestamps are     *)
(* compared, the std::set the worker keeps in that order, and the          *)
(* renumbering a consumer applies so that the packets it does not forward  *)
(* leave no gap.  The C++ class is a template over the width of the        *)
(* number; SeqMod is 2^width.  Everything here is an operator on a record  *)
(* [started, base, maxInput, maxOutput, dropped], used by MediaPath.       *)
(***************************************************************************)
EXTENDS Integers, Sequences

CONSTANT SeqMod

ASSUME SeqModAssumption == SeqMod \in Nat /\ SeqMod >= 4 /\ SeqMod % 2 = 0

Seqs == 0 .. SeqMod - 1

\* MaxValue / 2 of the code, MaxValue being SeqMod - 1.
Half == (SeqMod - 1) \div 2

Wrap(x) == x % SeqMod

IsSeqLowerThan(lhs, rhs) ==
    \/ rhs > lhs /\ rhs - lhs <= Half
    \/ lhs > rhs /\ lhs - rhs > Half

IsSeqHigherThan(lhs, rhs) ==
    \/ lhs > rhs /\ lhs - rhs <= Half
    \/ rhs > lhs /\ rhs - lhs > Half

(***************************************************************************)
(* A std::set ordered by SeqLowerThan, as the sequence of its iteration.   *)
(* The relation is circular, so it orders a set only while its elements    *)
(* lie within half a cycle; past that the tree's answer depends on its     *)
(* shape, and any boundary between "lower" and "not lower" is possible.    *)
(***************************************************************************)
LowerBounds(s, x) ==
    {i \in 1 .. Len(s) + 1 :
        /\ i = 1 \/ IsSeqLowerThan(s[i - 1], x)
        /\ i = Len(s) + 1 \/ ~IsSeqLowerThan(s[i], x)}

FoundAt(s, i, x) == i <= Len(s) /\ s[i] = x

\* set.insert(set.end(), x): at the end when x is higher than the last
\* element, otherwise wherever the search ends.
InsertLast(s, x) ==
    IF s = <<>> \/ IsSeqLowerThan(s[Len(s)], x)
    THEN {Append(s, x)}
    ELSE {IF FoundAt(s, i, x) THEN s
          ELSE SubSeq(s, 1, i - 1) \o <<x>> \o SubSeq(s, i, Len(s)) :
             i \in LowerBounds(s, x)}

\* set.insert(x) without a hint.
InsertAny(s, x) ==
    {IF FoundAt(s, i, x) THEN s
     ELSE SubSeq(s, 1, i - 1) \o <<x>> \o SubSeq(s, i, Len(s)) :
        i \in LowerBounds(s, x)}

\* set.erase(set.begin(), set.lower_bound(x)).
EraseLower(s, x) == {SubSeq(s, i, Len(s)) : i \in LowerBounds(s, x)}

-----------------------------------------------------------------------------
NewSeqManager ==
    [started |-> FALSE, base |-> 0, maxInput |-> 0, maxOutput |-> 0, dropped |-> <<>>]

\* Mutated form: the first number after a synchronisation is the last one again.
SyncBehind(sm, input) ==
    [sm EXCEPT !.base = Wrap(sm.maxOutput - input - 1), !.maxInput = input, !.dropped = <<>>]

Sync(sm, input) ==
    [sm EXCEPT !.base = Wrap(sm.maxOutput - input), !.maxInput = input, !.dropped = <<>>]

\* Mutated form: the numbers that leave the set are not counted in base.
ClearDroppedOnly(sm) ==
    [sm EXCEPT !.dropped = SelectSeq(@, LAMBDA d : ~IsSeqHigherThan(d, sm.maxInput))]

\* The dropped inputs at the front that are higher than maxInput belong to
\* the previous cycle: they leave the set and their count moves into base.
ClearDropped(sm) ==
    LET old == CHOOSE n \in 0 .. Len(sm.dropped) :
                  /\ \A i \in 1 .. n : IsSeqHigherThan(sm.dropped[i], sm.maxInput)
                  /\ n = Len(sm.dropped) \/ ~IsSeqHigherThan(sm.dropped[n + 1], sm.maxInput)
    IN  [sm EXCEPT !.base = Wrap(sm.base - old),
                   !.dropped = SubSeq(sm.dropped, old + 1, Len(sm.dropped))]

Drop(sm, input) ==
    IF IsSeqHigherThan(input, sm.maxInput)
    THEN {ClearDropped([sm EXCEPT !.maxInput = input, !.dropped = d]) :
             d \in InsertLast(sm.dropped, input)}
    ELSE {sm}

\* The bookkeeping at the label "done".
Done(sm, input, base) ==
    LET output == Wrap(input + base)
    IN  [output |-> output,
         sm |-> [sm EXCEPT
                    !.started = TRUE,
                    !.maxInput = IF ~sm.started \/ IsSeqHigherThan(input, sm.maxInput)
                                 THEN input ELSE @,
                    !.maxOutput = IF ~sm.started \/ IsSeqHigherThan(output, sm.maxOutput)
                                  THEN output ELSE @]]

\* The results Input may have: the new state and the output number.  A
\* dropped input changes nothing but what the cleanup changed, and its
\* output is left as the caller had it (an uninitialised variable).
Input(sm, input) ==
    LET seen == IF sm.dropped # <<>> /\ sm.started /\ IsSeqHigherThan(input, sm.maxInput)
                THEN [sm EXCEPT !.maxInput = input] ELSE sm
        clean == ClearDropped(seen)
    IN  IF clean.dropped = <<>>
        THEN {Done(clean, input, clean.base)}
        ELSE UNION {IF FoundAt(clean.dropped, i, input)
                    THEN {[sm |-> clean, output |-> o] : o \in Seqs}
                    ELSE {Done(clean, input, Wrap(clean.base - (i - 1)))} :
                      i \in LowerBounds(clean.dropped, input)}
=============================================================================
