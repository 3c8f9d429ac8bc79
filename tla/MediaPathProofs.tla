-------------------------- MODULE MediaPathProofs --------------------------
(***************************************************************************)
(* Proofs about MediaPath: that its state is well typed, that a consumer   *)
(* waiting for a key frame has one coming, that the NACK list is kept to   *)
(* its limits and that the retransmission buffer is what its index         *)
(* arithmetic takes it for and holds only what was sent.                   *)
(*                                                                         *)
(* The arithmetic comes first: what wrapping does to a number at most one  *)
(* cycle out of range (WrapNear) turns every comparison of sequence        *)
(* numbers into one of integers.                                           *)
(***************************************************************************)
EXTENDS MediaPath, FiniteSetTheorems, SequenceTheorems, WellFoundedInduction, TLAPS

-----------------------------------------------------------------------------
(* Sequence numbers                                                        *)

\* The code's MaxValue / 2 is one less than half a cycle.
LEMMA HalfIs ==
  /\ SeqMod \in Nat /\ SeqMod >= 4
  /\ Half \in Nat /\ Half >= 1 /\ SeqMod = 2 * Half + 2
BY SeqModAssumption DEF Half

LEMMA WrapIsSeq ==
  ASSUME NEW x \in Int
  PROVE  Wrap(x) \in Seqs
BY SeqModAssumption DEF Wrap, Seqs

\* Wrapping a number that is out of range by at most a cycle.
LEMMA WrapNear ==
  ASSUME NEW x \in Int, -SeqMod <= x, x < 2 * SeqMod
  PROVE  Wrap(x) = IF x < 0 THEN x + SeqMod ELSE IF x < SeqMod THEN x ELSE x - SeqMod
BY SeqModAssumption DEF Wrap

\* A set of natural numbers has a smallest element.
LEMMA Smallest ==
  ASSUME NEW T \in SUBSET Nat, T # {}
  PROVE  \E x \in T : \A y \in T : x <= y
<1>1. PICK x \in T : \A y \in T : ~ (<<y, x>> \in OpToRel(<, Nat))
  BY NatLessThanWellFounded, WFMin
<1>2. ASSUME NEW y \in T, y < x  PROVE FALSE
  <2>1. <<y, x>> \in OpToRel(<, Nat)
    BY <1>2 DEF OpToRel
  <2>2. QED  BY <1>1, <2>1, Zenon
<1>3. QED  BY <1>2

-----------------------------------------------------------------------------
(* The retransmission buffer                                               *)

Slots == Items \cup {Blank}

\* A buffer that is what its index arithmetic takes it for.
Indexed(buf) ==
  buf # <<>> =>
    /\ Len(buf) <= MaxItems
    /\ buf[1] # Blank /\ buf[Len(buf)] # Blank
    /\ \A i \in 1 .. Len(buf) : buf[i] # Blank => buf[i].seq = Wrap(buf[1].seq + i - 1)

LEMMA SlotIs ==
  ASSUME NEW buf \in Seq(Slots), NEW i \in 1 .. Len(buf), buf[i] # Blank
  PROVE  /\ buf[i] \in Items
         /\ buf[i].seq \in Int /\ buf[i].seq >= 0 /\ buf[i].seq < SeqMod
<1>1. buf[i] \in Items
  BY DEF Slots
<1>2. QED  BY <1>1, SeqModAssumption DEF Items, Seqs

\* Where the numbers of an indexed buffer lie, as integers.
LEMMA SeqAt ==
  ASSUME NEW buf \in Seq(Slots), buf # <<>>, Indexed(buf), NEW i \in 1 .. Len(buf), buf[i] # Blank
  PROVE  /\ Len(buf) \in Nat /\ 1 <= Len(buf) /\ Len(buf) <= MaxItems
         /\ MaxItems \in Nat /\ MaxItems <= Half
         /\ buf[1].seq \in Int /\ 0 <= buf[1].seq /\ buf[1].seq < SeqMod
         /\ buf[i].seq = IF buf[1].seq + i - 1 < SeqMod THEN buf[1].seq + i - 1
                                                       ELSE (buf[1].seq + i - 1) - SeqMod
<1>1. Len(buf) \in Nat /\ 1 <= Len(buf)
  OBVIOUS
<1>2. buf[1].seq \in Int /\ 0 <= buf[1].seq /\ buf[1].seq < SeqMod
  BY <1>1, SlotIs DEF Indexed
<1>3. Len(buf) <= MaxItems /\ MaxItems \in Nat /\ MaxItems <= Half
  BY BufferAssumption, HalfIs DEF Indexed
<1> DEFINE x == buf[1].seq + i - 1
<1>4. buf[i].seq = Wrap(x)
  BY DEF Indexed
<1>5. x \in Int /\ 0 <= x /\ x < 2 * SeqMod
  BY <1>1, <1>2, <1>3, HalfIs
<1> HIDE DEF x
<1>6. Wrap(x) = IF x < SeqMod THEN x ELSE x - SeqMod
  BY <1>5, WrapNear, HalfIs
<1>7. buf[i].seq = IF x < SeqMod THEN x ELSE x - SeqMod
  BY <1>4, <1>6
<1>8. buf[i].seq = IF buf[1].seq + i - 1 < SeqMod THEN buf[1].seq + i - 1
                                                  ELSE (buf[1].seq + i - 1) - SeqMod
  BY <1>7, Zenon DEF x
<1>9. QED  BY <1>1, <1>2, <1>3, <1>8

\* Which is what the run checks.
LEMMA IndexedIsExact ==
  ASSUME NEW buf \in Seq(Slots), buf # <<>>, Indexed(buf)
  PROVE  /\ Len(buf) <= MaxItems
         /\ {1, Len(buf)} \subseteq ItemsAt(buf)
         /\ \A i \in ItemsAt(buf) : BufferGet(buf, buf[i].seq) = buf[i]
<1>1. Len(buf) \in Nat /\ 1 <= Len(buf)
  OBVIOUS
<1>2. Len(buf) <= MaxItems /\ {1, Len(buf)} \subseteq ItemsAt(buf)
  BY <1>1 DEF Indexed, ItemsAt
<1>3. ASSUME NEW i \in ItemsAt(buf)
      PROVE  BufferGet(buf, buf[i].seq) = buf[i]
  <2> DEFINE o == buf[1].seq
             s == buf[i].seq
  <2>1. i \in 1 .. Len(buf) /\ buf[i] # Blank
    BY DEF ItemsAt
  <2>2. /\ Len(buf) <= Half /\ Half \in Nat /\ SeqMod = 2 * Half + 2 /\ o \in 0 .. SeqMod - 1
        /\ s = IF o + i - 1 < SeqMod THEN o + i - 1 ELSE (o + i - 1) - SeqMod
    BY <2>1, SeqAt, HalfIs
  <2> HIDE DEF o, s
  <2>3. ~IsSeqLowerThan(s, o)
    BY <1>1, <2>1, <2>2 DEF IsSeqLowerThan
  <2>4. s - o \in Int /\ -SeqMod <= s - o /\ s - o < 2 * SeqMod
    BY <1>1, <2>1, <2>2
  <2>5. Wrap(s - o) = IF s - o < 0 THEN s - o + SeqMod ELSE IF s - o < SeqMod THEN s - o ELSE s - o - SeqMod
    BY <2>4, WrapNear
  <2>6. Wrap(s - o) = i - 1
    BY <1>1, <2>1, <2>2, <2>5
  <2>7. BufferGet(buf, s) = buf[Wrap(s - o) + 1]
    BY <1>1, <2>1, <2>3, <2>6 DEF BufferGet, Oldest, o
  <2>8. QED  BY <1>1, <2>1, <2>6, <2>7 DEF s
<1>4. QED  BY <1>2, <1>3

\* Removing from the front keeps a buffer indexed.
LEMMA FromIsIndexed ==
  ASSUME NEW buf \in Seq(Slots), buf # <<>>, Indexed(buf),
         NEW starts \in SUBSET ItemsAt(buf)
  PROVE  /\ From(buf, starts) \in Seq(Slots)
         /\ Indexed(From(buf, starts))
         /\ starts # {} => \E k \in starts :
              /\ \A j \in starts : k <= j
              /\ From(buf, starts) = SubSeq(buf, k, Len(buf))
<1>1. CASE starts = {}
  BY <1>1 DEF From, Indexed
<1>2. CASE starts # {}
  <2> DEFINE k == CHOOSE i \in starts : \A j \in starts : i <= j
             cut == SubSeq(buf, k, Len(buf))
  <2>1. starts \in SUBSET Nat /\ starts \in SUBSET (1 .. Len(buf))
    BY DEF ItemsAt
  <2>2. k \in starts /\ \A j \in starts : k <= j
    BY <1>2, <2>1, Smallest
  <2>3. From(buf, starts) = cut
    BY <1>2 DEF From
  <2> HIDE DEF k
  <2>4. k \in 1 .. Len(buf) /\ buf[k] # Blank /\ Len(buf) \in Nat
    BY <2>2 DEF ItemsAt
  <2>5. cut \in Seq(Slots) /\ Len(cut) = Len(buf) - k + 1 /\ cut # <<>>
        /\ \A i \in 1 .. Len(buf) - k + 1 : cut[i] = buf[i + k - 1]
    <3>1. \A i \in k .. Len(buf) : buf[i] \in Slots
      BY <2>4
    <3>2. /\ cut \in Seq(Slots) /\ Len(cut) = Len(buf) - k + 1
          /\ \A i \in 1 .. Len(buf) - k + 1 : cut[i] = buf[k + i - 1]
      BY <2>4, <3>1, SubSeqProperties
    <3> HIDE DEF cut
    <3>3. cut # <<>>
      BY <2>4, <3>2
    <3>4. QED  BY <2>4, <3>2, <3>3
  <2> HIDE DEF cut
  <2>6. cut[1] # Blank /\ cut[Len(cut)] # Blank /\ Len(cut) <= MaxItems
    BY <2>4, <2>5, BufferAssumption, HalfIs DEF Indexed
  <2>7. ASSUME NEW i \in 1 .. Len(cut), cut[i] # Blank
        PROVE  cut[i].seq = Wrap(cut[1].seq + i - 1)
    <3> DEFINE o == buf[1].seq
               x == cut[1].seq + i - 1
    <3>1. i + k - 1 \in 1 .. Len(buf) /\ buf[i + k - 1] # Blank /\ cut[i] = buf[i + k - 1]
      BY <2>4, <2>5, <2>7
    <3>2. cut[1] = buf[k]
      BY <2>4, <2>5
    <3>3. /\ o \in Int /\ 0 <= o /\ o < SeqMod /\ Len(buf) <= Half /\ Half \in Nat /\ SeqMod = 2 * Half + 2
          /\ cut[1].seq = IF o + k - 1 < SeqMod THEN o + k - 1 ELSE (o + k - 1) - SeqMod
          /\ cut[i].seq = IF o + (i + k - 1) - 1 < SeqMod THEN o + (i + k - 1) - 1
                                                          ELSE (o + (i + k - 1) - 1) - SeqMod
      <4>1. /\ o \in Int /\ 0 <= o /\ o < SeqMod /\ Len(buf) <= MaxItems /\ MaxItems \in Nat /\ MaxItems <= Half
            /\ cut[1].seq = IF o + k - 1 < SeqMod THEN o + k - 1 ELSE (o + k - 1) - SeqMod
        BY <2>4, <3>2, SeqAt
      <4> DEFINE j == i + k - 1
      <4>2. j \in 1 .. Len(buf) /\ buf[j] # Blank
        BY <3>1
      <4> HIDE DEF j
      <4>3. buf[j].seq = IF o + j - 1 < SeqMod THEN o + j - 1 ELSE (o + j - 1) - SeqMod
        BY <4>2, SeqAt
      <4>4. QED  BY <2>4, <3>1, <4>1, <4>3, HalfIs DEF j
    <3> HIDE DEF o
    <3>4. x \in Int /\ 0 <= x /\ x < 2 * SeqMod /\ i \in Nat
      BY <2>4, <3>1, <3>3, <2>5
    <3>5. Wrap(x) = IF x < SeqMod THEN x ELSE x - SeqMod
      <4> HIDE DEF x
      <4>1. QED  BY <3>4, WrapNear, HalfIs
    <3>6. QED  BY <2>4, <3>1, <3>3, <3>4, <3>5
  <2>8. QED  BY <1>2, <2>2, <2>3, <2>5, <2>6, <2>7 DEF Indexed, cut
<1>3. QED  BY <1>1, <1>2

LEMMA BlanksAre ==
  ASSUME NEW n \in Nat
  PROVE  Blanks(n) \in Seq(Slots) /\ Len(Blanks(n)) = n /\ \A i \in 1 .. n : Blanks(n)[i] = Blank
<1>1. Blanks(n) \in [1 .. n -> Slots] /\ \A i \in 1 .. n : Blanks(n)[i] = Blank
  BY DEF Blanks, Slots
<1> HIDE DEF Blanks
<1>2. QED  BY <1>1

\* Slots put together.
LEMMA ThreeParts ==
  ASSUME NEW a \in Seq(Slots), NEW b \in Seq(Slots), NEW c \in Seq(Slots)
  PROVE  LET d == a \o b \o c
         IN  /\ d \in Seq(Slots)
             /\ Len(d) = Len(a) + Len(b) + Len(c)
             /\ \A i \in 1 .. Len(d) :
                   d[i] = IF i <= Len(a) THEN a[i]
                          ELSE IF i <= Len(a) + Len(b) THEN b[i - Len(a)]
                          ELSE c[i - (Len(a) + Len(b))]
<1> DEFINE e == a \o b
           d == e \o c
<1>1. e \in Seq(Slots) /\ Len(e) = Len(a) + Len(b)
      /\ \A i \in 1 .. Len(e) : e[i] = IF i <= Len(a) THEN a[i] ELSE b[i - Len(a)]
  BY ConcatProperties
<1> HIDE DEF e
<1>2. d \in Seq(Slots) /\ Len(d) = Len(e) + Len(c)
      /\ \A i \in 1 .. Len(d) : d[i] = IF i <= Len(e) THEN e[i] ELSE c[i - Len(e)]
  <2>1. e \in Seq(Slots)
    BY <1>1
  <2>2. QED  BY <2>1, ConcatProperties, Zenon
<1>3. Len(a) \in Nat /\ Len(b) \in Nat /\ Len(c) \in Nat
  OBVIOUS
<1> HIDE DEF d
<1>4. ASSUME NEW i \in 1 .. Len(d)
      PROVE  d[i] = IF i <= Len(a) THEN a[i]
                    ELSE IF i <= Len(a) + Len(b) THEN b[i - Len(a)]
                    ELSE c[i - (Len(a) + Len(b))]
  <2>1. d[i] = IF i <= Len(e) THEN e[i] ELSE c[i - Len(e)]
    BY <1>2
  <2>2. i <= Len(e) => e[i] = IF i <= Len(a) THEN a[i] ELSE b[i - Len(a)]
    BY <1>1, <1>2, <1>3
  <2>3. QED  BY <1>1, <1>2, <1>3, <2>1, <2>2
<1>5. QED  BY <1>1, <1>2, <1>3, <1>4 DEF d, e

LEMMA OneSlot ==
  ASSUME NEW item \in Items
  PROVE  <<item>> \in Seq(Slots) /\ Len(<<item>>) = 1 /\ <<item>>[1] = item /\ Indexed(<<item>>)
<1>1. <<item>> \in Seq(Slots) /\ Len(<<item>>) = 1 /\ <<item>>[1] = item
  BY DEF Slots
<1>2. item # Blank /\ item.seq \in 0 .. SeqMod - 1
  BY BlankAssumption DEF Items, Seqs
<1>3. Wrap(item.seq + 1 - 1) = item.seq
  <2> DEFINE s == item.seq
  <2>1. s \in Int /\ 0 <= s /\ s < SeqMod /\ s + 1 - 1 = s
    BY <1>2, HalfIs
  <2> HIDE DEF s
  <2>2. Wrap(s) = s
    BY <2>1, WrapNear, HalfIs
  <2>3. QED  BY <2>1, <2>2 DEF s
<1>4. MaxItems >= 1 /\ MaxItems \in Nat
  BY BufferAssumption, HalfIs
<1>5. QED  BY <1>1, <1>2, <1>3, <1>4 DEF Indexed

\* An item at the back, the slots for the numbers in between left blank.
LEMMA AtTheBack ==
  ASSUME NEW buf \in Seq(Slots), buf # <<>>, Indexed(buf), NEW item \in Items, NEW n \in Nat,
         Len(buf) + n + 1 <= MaxItems,
         item.seq = IF buf[Len(buf)].seq + n + 1 < SeqMod THEN buf[Len(buf)].seq + n + 1
                    ELSE (buf[Len(buf)].seq + n + 1) - SeqMod
  PROVE  LET d == buf \o Blanks(n) \o <<item>> IN d \in Seq(Slots) /\ d # <<>> /\ Indexed(d)
<1> DEFINE d == buf \o Blanks(n) \o <<item>>
           last == buf[Len(buf)].seq
           o == buf[1].seq
           m == Len(buf)
<1>1. m \in Nat /\ 1 <= m
  OBVIOUS
<1>2. /\ d \in Seq(Slots) /\ Len(d) = m + n + 1
      /\ \A i \in 1 .. m + n + 1 : d[i] = IF i <= m THEN buf[i] ELSE IF i <= m + n THEN Blank ELSE item
  <2>1. /\ d \in Seq(Slots) /\ Len(d) = Len(buf) + Len(Blanks(n)) + Len(<<item>>)
        /\ \A i \in 1 .. Len(d) :
             d[i] = IF i <= Len(buf) THEN buf[i]
                    ELSE IF i <= Len(buf) + Len(Blanks(n)) THEN Blanks(n)[i - Len(buf)]
                    ELSE <<item>>[i - (Len(buf) + Len(Blanks(n)))]
    BY BlanksAre, OneSlot, ThreeParts
  <2> HIDE DEF d
  <2>2. Len(d) = m + n + 1 /\ \A i \in 1 .. m + n + 1 :
             d[i] = IF i <= m THEN buf[i] ELSE IF i <= m + n THEN Blanks(n)[i - m]
                    ELSE <<item>>[i - (m + n)]
    BY <1>1, <2>1, BlanksAre, OneSlot
  <2>3. \A i \in 1 .. m + n + 1 : i > m /\ i <= m + n => i - m \in 1 .. n
    BY <1>1
  <2>4. \A i \in 1 .. m + n + 1 : i > m + n => i - (m + n) = 1
    BY <1>1
  <2>5. ASSUME NEW i \in 1 .. m + n + 1
        PROVE  d[i] = IF i <= m THEN buf[i] ELSE IF i <= m + n THEN Blank ELSE item
    <3>1. CASE i <= m
      BY <2>2, <3>1
    <3>2. CASE ~(i <= m) /\ i <= m + n
      <4>1. i - m \in 1 .. n
        BY <1>1, <2>3, <3>2
      <4>2. QED  BY <2>2, <3>2, <4>1, BlanksAre
    <3>3. CASE ~(i <= m) /\ ~(i <= m + n)
      <4>1. i - (m + n) = 1
        BY <1>1, <2>4, <3>3
      <4>2. QED  BY <2>2, <3>3, <4>1, OneSlot
    <3>4. QED  BY <3>1, <3>2, <3>3
  <2>6. QED  BY <2>1, <2>2, <2>5
<1> HIDE DEF d
<1>3. /\ o \in Int /\ 0 <= o /\ o < SeqMod /\ m <= MaxItems /\ MaxItems \in Nat /\ MaxItems <= Half
      /\ last = IF o + m - 1 < SeqMod THEN o + m - 1 ELSE (o + m - 1) - SeqMod
  <2>1. m \in 1 .. Len(buf) /\ buf[m] # Blank
    BY <1>1 DEF Indexed
  <2>2. QED  BY <2>1, SeqAt
<1>4. d[1] = buf[1] /\ d[1] # Blank /\ d[Len(d)] = item /\ item # Blank /\ d # <<>>
  BY <1>1, <1>2, BlankAssumption DEF Indexed
<1>5. ASSUME NEW i \in 1 .. Len(d), d[i] # Blank
      PROVE  d[i].seq = Wrap(d[1].seq + i - 1)
  <2>1. CASE i <= m
    <3>1. i \in 1 .. m /\ d[i] = buf[i] /\ d[1] = buf[1]
      BY <1>1, <1>2, <1>4, <2>1
    <3>2. QED  BY <1>5, <3>1 DEF Indexed
  <2>2. CASE i > m
    <3> DEFINE x == o + i - 1
    <3>1. i = m + n + 1 /\ d[i] = item
      <4> HIDE DEF m
      <4>1. QED  BY <1>1, <1>2, <1>5, <2>2
    <3>2. /\ x \in Int /\ 0 <= x /\ x < 2 * SeqMod /\ x = (o + m - 1) + n + 1
          /\ o + m - 1 \in Int
      <4> HIDE DEF o, m
      <4>1. QED  BY <1>1, <1>3, <3>1, HalfIs
    <3>3. item.seq = IF last + n + 1 < SeqMod THEN last + n + 1 ELSE (last + n + 1) - SeqMod
      OBVIOUS
    <3> HIDE DEF last, o, m
    <3>4. item.seq = IF x < SeqMod THEN x ELSE x - SeqMod
      BY <1>1, <1>3, <3>1, <3>2, <3>3, HalfIs
    <3>5. x = d[1].seq + i - 1
      BY <1>4 DEF o
    <3> HIDE DEF x
    <3>6. Wrap(x) = IF x < SeqMod THEN x ELSE x - SeqMod
      BY <3>2, WrapNear, HalfIs
    <3>7. QED  BY <3>1, <3>4, <3>5, <3>6
  <2>3. QED  BY <1>1, <1>2, <2>1, <2>2
<1>6. QED  BY <1>2, <1>4, <1>5 DEF Indexed, d

\* The same at the front.
LEMMA AtTheFront ==
  ASSUME NEW buf \in Seq(Slots), buf # <<>>, Indexed(buf), NEW item \in Items, NEW n \in Nat,
         Len(buf) + n + 1 <= MaxItems,
         buf[1].seq = IF item.seq + n + 1 < SeqMod THEN item.seq + n + 1
                      ELSE (item.seq + n + 1) - SeqMod
  PROVE  LET d == <<item>> \o Blanks(n) \o buf IN d \in Seq(Slots) /\ d # <<>> /\ Indexed(d)
<1> DEFINE d == <<item>> \o Blanks(n) \o buf
           s == item.seq
           o == buf[1].seq
           m == Len(buf)
<1>1. m \in Nat /\ 1 <= m /\ MaxItems \in Nat /\ MaxItems <= Half
  BY BufferAssumption, HalfIs
<1>2. /\ d \in Seq(Slots) /\ Len(d) = m + n + 1 /\ d[1] = item
      /\ \A i \in 2 .. m + n + 1 : d[i] = IF i <= n + 1 THEN Blank ELSE buf[i - (n + 1)]
  <2>1. /\ d \in Seq(Slots) /\ Len(d) = Len(<<item>>) + Len(Blanks(n)) + Len(buf)
        /\ \A i \in 1 .. Len(d) :
             d[i] = IF i <= Len(<<item>>) THEN <<item>>[i]
                    ELSE IF i <= Len(<<item>>) + Len(Blanks(n)) THEN Blanks(n)[i - Len(<<item>>)]
                    ELSE buf[i - (Len(<<item>>) + Len(Blanks(n)))]
    <3>1. <<item>> \in Seq(Slots) /\ Blanks(n) \in Seq(Slots)
      BY BlanksAre, OneSlot
    <3>2. QED  BY <3>1, ThreeParts, Zenon
  <2> HIDE DEF d
  <2>2. Len(d) = m + n + 1 /\ \A i \in 1 .. m + n + 1 :
             d[i] = IF i <= 1 THEN <<item>>[i] ELSE IF i <= 1 + n THEN Blanks(n)[i - 1]
                    ELSE buf[i - (1 + n)]
    <3> HIDE DEF m
    <3>1. Len(<<item>>) = 1 /\ Len(Blanks(n)) = n
      BY BlanksAre, OneSlot
    <3>2. Len(d) = m + n + 1
      BY <1>1, <2>1, <3>1 DEF m
    <3>3. QED  BY <1>1, <2>1, <3>1, <3>2
  <2>3. d[1] = item
    BY <1>1, <2>2, OneSlot
  <2>4. ASSUME NEW i \in 2 .. m + n + 1
        PROVE  d[i] = IF i <= n + 1 THEN Blank ELSE buf[i - (n + 1)]
    <3>0. ~(i <= 1) /\ 1 + n = n + 1 /\ i \in 1 .. m + n + 1
      BY <1>1
    <3>1. CASE i <= n + 1
      <4>1. i - 1 \in 1 .. n
        BY <3>1
      <4>2. QED  BY <2>2, <3>0, <3>1, <4>1, BlanksAre
    <3>2. CASE ~(i <= n + 1)
      BY <2>2, <3>0, <3>2
    <3>3. QED  BY <3>1, <3>2
  <2>5. QED  BY <2>1, <2>2, <2>3, <2>4
<1> HIDE DEF d
<1>3. item # Blank /\ s \in Int /\ 0 <= s /\ s < SeqMod
  BY BlankAssumption, HalfIs DEF Items, Seqs
<1>4. d # <<>> /\ d[1] # Blank /\ d[Len(d)] # Blank
  <2>1. Len(d) \in 2 .. m + n + 1 /\ ~(Len(d) <= n + 1) /\ Len(d) - (n + 1) = m
    BY <1>1, <1>2
  <2>2. d[Len(d)] = buf[m]
    BY <1>2, <2>1
  <2>3. QED  BY <1>1, <1>2, <1>3, <2>2 DEF Indexed
<1>5. ASSUME NEW i \in 1 .. Len(d), d[i] # Blank
      PROVE  d[i].seq = Wrap(d[1].seq + i - 1)
  <2> DEFINE x == s + i - 1
  <2>1. /\ x \in Int /\ 0 <= x /\ x < 2 * SeqMod /\ x = d[1].seq + i - 1
    BY <1>1, <1>2, <1>3, HalfIs
  <2>2. Wrap(x) = IF x < SeqMod THEN x ELSE x - SeqMod
    <3> HIDE DEF x
    <3>1. QED  BY <2>1, WrapNear, HalfIs
  <2>3. CASE i = 1
    <3>1. d[i].seq = s /\ x = s
      BY <1>2, <1>3, <2>3
    <3>2. QED  BY <1>3, <2>1, <2>2, <3>1
  <2>4. CASE i # 1
    <3> DEFINE j == i - (n + 1)
    <3>1. j \in 1 .. m /\ d[i] = buf[j] /\ buf[j] # Blank /\ i = j + (n + 1)
      BY <1>1, <1>2, <1>5, <2>4
    <3> HIDE DEF j
    <3>2. /\ m <= MaxItems /\ o \in Int /\ 0 <= o /\ o < SeqMod
          /\ buf[j].seq = IF o + j - 1 < SeqMod THEN o + j - 1 ELSE (o + j - 1) - SeqMod
      BY <3>1, SeqAt
    <3>3. o = IF s + n + 1 < SeqMod THEN s + n + 1 ELSE (s + n + 1) - SeqMod
      OBVIOUS
    <3>4. x = s + (n + 1) + (j - 1)
      <4> HIDE DEF s
      <4>1. QED  BY <1>1, <1>3, <3>1
    <3> HIDE DEF s, o, x, m
    <3>5. buf[j].seq = IF x < SeqMod THEN x ELSE x - SeqMod
      <4>1. o + j - 1 \in Int /\ x \in Int /\ x < 2 * SeqMod /\ j \in Int /\ SeqMod \in Int
        BY <1>1, <2>1, <3>1, <3>2, HalfIs
      <4>2. CASE s + n + 1 < SeqMod
        <5>1. o + j - 1 = x
          BY <1>3, <3>2, <3>3, <3>4, <4>1, <4>2
        <5>2. QED  BY <3>2, <5>1, Zenon
      <4>3. CASE ~(s + n + 1 < SeqMod)
        <5>1. o + j - 1 = x - SeqMod /\ o >= 0 /\ j >= 1
          BY <1>1, <1>3, <3>1, <3>2, <3>3, <3>4, <4>1, <4>3
        <5>2. o + j - 1 < SeqMod /\ ~(x < SeqMod)
          BY <3>2, <4>1, <5>1
        <5>3. QED  BY <3>2, <5>1, <5>2, Zenon
      <4>4. QED  BY <4>2, <4>3
    <3>6. QED  BY <2>1, <2>2, <3>1, <3>5
  <2>5. QED  BY <2>3, <2>4
<1>6. QED  BY <1>2, <1>4, <1>5 DEF Indexed, d

\* A distance between two sequence numbers that are not out of order.
LEMMA Distance ==
  ASSUME NEW a \in Seqs, NEW b \in Seqs
  PROVE  LET d == Wrap(a - b)
         IN  /\ d \in 0 .. SeqMod - 1
             /\ a - b = IF a < b THEN d - SeqMod ELSE d
             /\ IsSeqHigherThan(a, b) => 1 <= d /\ d <= Half + 1
             /\ ~IsSeqLowerThan(a, b) => d <= Half + 1
             /\ IsSeqLowerThan(a, b) \/ IsSeqHigherThan(a, b) \/ a = b
             /\ ~(IsSeqLowerThan(a, b) /\ IsSeqHigherThan(a, b))
             /\ IsSeqHigherThan(a, b) <=> IsSeqLowerThan(b, a)
<1> DEFINE d == Wrap(a - b)
<1>1. /\ a \in Int /\ 0 <= a /\ a < SeqMod /\ b \in Int /\ 0 <= b /\ b < SeqMod
      /\ SeqMod \in Nat /\ Half \in Nat /\ SeqMod = 2 * Half + 2
  BY HalfIs DEF Seqs
<1>2. a - b \in Int /\ -SeqMod <= a - b /\ a - b < 2 * SeqMod
  BY <1>1
<1>3. d = IF a < b THEN a - b + SeqMod ELSE a - b
  <2>1. d = IF a - b < 0 THEN a - b + SeqMod ELSE IF a - b < SeqMod THEN a - b ELSE a - b - SeqMod
    BY <1>2, WrapNear
  <2> HIDE DEF d
  <2>2. QED  BY <1>1, <2>1
<1> HIDE DEF d
<1>4. QED  BY <1>1, <1>3 DEF IsSeqLowerThan, IsSeqHigherThan, d

LEMMA EndsAre ==
  ASSUME NEW buf \in Seq(Slots), buf # <<>>, Indexed(buf)
  PROVE  /\ Oldest(buf) = buf[1] /\ Newest(buf) = buf[Len(buf)]
         /\ Oldest(buf).seq \in Seqs /\ Newest(buf).seq \in Seqs
         /\ Len(buf) \in Nat /\ 1 <= Len(buf) /\ Len(buf) <= MaxItems
         /\ MaxItems \in Nat /\ MaxItems <= Half
<1>1. Len(buf) \in Nat /\ 1 <= Len(buf)
  OBVIOUS
<1>2. buf[1] \in Items /\ buf[Len(buf)] \in Items
  BY <1>1, SlotIs DEF Indexed
<1>3. QED  BY <1>1, <1>2, BufferAssumption, HalfIs DEF Oldest, Newest, Items, Indexed

LEMMA InsertInOrderKeeps ==
  ASSUME NEW buf \in Seq(Slots), buf # <<>>, Indexed(buf), NEW item \in Items,
         IsSeqHigherThan(item.seq, Newest(buf).seq)
  PROVE  InsertInOrder(buf, item) \in Seq(Slots) /\ Indexed(InsertInOrder(buf, item))
<1> DEFINE last == Newest(buf).seq
           s == item.seq
           blank == Wrap(s - last - 1)
           excess == Len(buf) + blank + 1 - MaxItems
           kept == IF excess > 0 THEN RemoveOldest(buf, excess) ELSE buf
<1>1. /\ Newest(buf) = buf[Len(buf)] /\ last \in Seqs /\ s \in Seqs
      /\ Len(buf) \in Nat /\ 1 <= Len(buf) /\ Len(buf) <= MaxItems
      /\ MaxItems \in Nat /\ MaxItems <= Half
  BY EndsAre DEF Items
<1>2. /\ blank \in Nat
      /\ s = IF last + blank + 1 < SeqMod THEN last + blank + 1 ELSE (last + blank + 1) - SeqMod
  <2>1. IsSeqHigherThan(s, last)
    OBVIOUS
  <2> HIDE DEF s, last
  <2> DEFINE d == Wrap(s - last)
  <2>2. d \in 0 .. SeqMod - 1 /\ 1 <= d /\ s - last = IF s < last THEN d - SeqMod ELSE d
    BY <1>1, <2>1, Distance
  <2> HIDE DEF d
  <2>3. s \in Int /\ 0 <= s /\ s < SeqMod /\ last \in Int /\ 0 <= last /\ last < SeqMod /\ SeqMod \in Nat
    BY <1>1, HalfIs DEF Seqs
  <2> DEFINE x == s - last - 1
  <2>4. x \in Int /\ -SeqMod <= x /\ x < 2 * SeqMod
        /\ x = IF s < last THEN d - 1 - SeqMod ELSE d - 1
    BY <2>2, <2>3
  <2>5. blank = Wrap(x)
    OBVIOUS
  <2> HIDE DEF x, blank
  <2>6. Wrap(x) = IF x < 0 THEN x + SeqMod ELSE IF x < SeqMod THEN x ELSE x - SeqMod
    BY <2>4, WrapNear
  <2>7. blank = d - 1
    BY <2>2, <2>3, <2>4, <2>5, <2>6
  <2>8. QED  BY <2>2, <2>3, <2>7
<1> HIDE DEF blank
<1>3. CASE excess > Len(buf) - 1 \/ Ts!IsSeqLowerThan(item.ts, Newest(buf).ts)
  <2>1. InsertInOrder(buf, item) \in {buf, <<item>>}
    BY <1>3 DEF InsertInOrder, blank
  <2>2. QED  BY <2>1, OneSlot
<1>4. CASE ~(excess > Len(buf) - 1) /\ ~Ts!IsSeqLowerThan(item.ts, Newest(buf).ts)
  <2>1. InsertInOrder(buf, item) = kept \o Blanks(blank) \o <<item>>
    BY <1>4 DEF InsertInOrder, blank
  <2>2. /\ kept \in Seq(Slots) /\ kept # <<>> /\ Indexed(kept)
        /\ kept[Len(kept)] = buf[Len(buf)] /\ Len(kept) + blank + 1 <= MaxItems
    <3>1. CASE excess > 0
      <4> DEFINE starts == {i \in ItemsAt(buf) : i > excess}
      <4>1. kept = From(buf, starts)
        BY <3>1 DEF RemoveOldest
      <4>2. excess \in Nat /\ Len(buf) \in starts
        BY <1>1, <1>2, <1>4, <3>1 DEF Indexed, ItemsAt
      <4>3. From(buf, starts) \in Seq(Slots) /\ Indexed(From(buf, starts))
            /\ \E k \in starts : From(buf, starts) = SubSeq(buf, k, Len(buf))
        <5>1. starts \in SUBSET ItemsAt(buf)
          OBVIOUS
        <5> HIDE DEF starts
        <5>2. QED  BY <4>2, <5>1, FromIsIndexed
      <4>4. PICK k \in starts : kept = SubSeq(buf, k, Len(buf))
        BY <4>1, <4>3
      <4>5. k \in 1 .. Len(buf) /\ k > excess
        BY DEF ItemsAt
      <4>6. \A i \in k .. Len(buf) : buf[i] \in Slots
        BY <1>1, <4>5
      <4>7. /\ Len(kept) = Len(buf) - k + 1
            /\ \A i \in 1 .. Len(buf) - k + 1 : kept[i] = buf[k + i - 1]
        <5> HIDE DEF kept
        <5>1. k \in Int /\ Len(buf) \in Int /\ k <= Len(buf)
          BY <1>1, <4>5
        <5>2. QED  BY <4>4, <4>6, <5>1, SubSeqProperties
      <4>8. kept # <<>> /\ kept[Len(kept)] = buf[Len(buf)]
        <5> HIDE DEF kept
        <5>1. Len(buf) - k + 1 \in 1 .. Len(buf) - k + 1 /\ k + (Len(buf) - k + 1) - 1 = Len(buf)
          BY <1>1, <4>5
        <5>2. QED  BY <1>1, <4>5, <4>7, <5>1
      <4> HIDE DEF kept
      <4>9. Len(kept) + blank + 1 <= MaxItems
        BY <1>1, <1>2, <4>2, <4>5, <4>7
      <4>10. QED  BY <4>1, <4>3, <4>8, <4>9
    <3>2. CASE ~(excess > 0)
      BY <1>1, <1>2, <3>2
    <3>3. QED  BY <3>1, <3>2
  <2> HIDE DEF kept
  <2>3. s = IF kept[Len(kept)].seq + blank + 1 < SeqMod THEN kept[Len(kept)].seq + blank + 1
            ELSE (kept[Len(kept)].seq + blank + 1) - SeqMod
    BY <1>1, <1>2, <2>2, Zenon
  <2>4. QED  BY <1>2, <2>1, <2>2, <2>3, AtTheBack
<1>5. QED  BY <1>3, <1>4

LEMMA InsertBeforeKeeps ==
  ASSUME NEW buf \in Seq(Slots), buf # <<>>, Indexed(buf), NEW item \in Items,
         IsSeqLowerThan(item.seq, Oldest(buf).seq)
  PROVE  InsertBefore(buf, item) \in Seq(Slots) /\ Indexed(InsertBefore(buf, item))
<1> DEFINE first == Oldest(buf).seq
           s == item.seq
           blank == Wrap(first - s - 1)
<1>1. Oldest(buf) = buf[1] /\ first \in Seqs /\ s \in Seqs
  BY EndsAre DEF Items
<1>2. /\ blank \in Nat
      /\ first = IF s + blank + 1 < SeqMod THEN s + blank + 1 ELSE (s + blank + 1) - SeqMod
  <2>1. IsSeqLowerThan(s, first)
    OBVIOUS
  <2> HIDE DEF s, first
  <2> DEFINE d == Wrap(first - s)
  <2>2. d \in 0 .. SeqMod - 1 /\ 1 <= d /\ first - s = IF first < s THEN d - SeqMod ELSE d
    BY <1>1, <2>1, Distance
  <2> HIDE DEF d
  <2>3. s \in Int /\ 0 <= s /\ s < SeqMod /\ first \in Int /\ 0 <= first /\ first < SeqMod /\ SeqMod \in Nat
    BY <1>1, HalfIs DEF Seqs
  <2> DEFINE x == first - s - 1
  <2>4. x \in Int /\ -SeqMod <= x /\ x < 2 * SeqMod
        /\ x = IF first < s THEN d - 1 - SeqMod ELSE d - 1
    BY <2>2, <2>3
  <2>5. blank = Wrap(x)
    OBVIOUS
  <2> HIDE DEF x, blank
  <2>6. Wrap(x) = IF x < 0 THEN x + SeqMod ELSE IF x < SeqMod THEN x ELSE x - SeqMod
    BY <2>4, WrapNear
  <2>7. blank = d - 1
    BY <2>2, <2>3, <2>4, <2>5, <2>6
  <2>8. QED  BY <2>2, <2>3, <2>7
<1> HIDE DEF blank
<1>3. CASE InsertBefore(buf, item) = buf
  BY <1>3
<1>4. CASE InsertBefore(buf, item) # buf
  <2>1. InsertBefore(buf, item) = <<item>> \o Blanks(blank) \o buf
        /\ ~(Len(buf) + blank + 1 > MaxItems)
    BY <1>4 DEF InsertBefore, blank
  <2>2. Len(buf) + blank + 1 <= MaxItems
    BY <1>2, <2>1, EndsAre
  <2>3. QED  BY <1>1, <1>2, <2>1, <2>2, AtTheFront
<1>5. QED  BY <1>3, <1>4

\* The slot of a packet in between exists.
LEMMA InsertBetweenKeeps ==
  ASSUME NEW buf \in Seq(Slots), buf # <<>>, Indexed(buf), NEW item \in Items,
         ~IsSeqHigherThan(item.seq, Newest(buf).seq), ~IsSeqLowerThan(item.seq, Oldest(buf).seq)
  PROVE  InsertBetween(buf, item) \in Seq(Slots) /\ Indexed(InsertBetween(buf, item))
<1> DEFINE first == Oldest(buf).seq
           last == Newest(buf).seq
           s == item.seq
           m == Len(buf)
           d == Wrap(s - first)
           new == [buf EXCEPT ![d + 1] = item]
<1>1. /\ Oldest(buf) = buf[1] /\ Newest(buf) = buf[m]
      /\ first \in Seqs /\ last \in Seqs /\ s \in Seqs
      /\ m \in Nat /\ 1 <= m /\ m <= MaxItems /\ MaxItems \in Nat /\ MaxItems <= Half
  BY EndsAre DEF Items
<1>2. SeqMod \in Nat /\ Half \in Nat /\ SeqMod = 2 * Half + 2
  BY HalfIs
<1>3. /\ s \in Int /\ 0 <= s /\ s < SeqMod /\ last \in Int /\ 0 <= last /\ last < SeqMod
      /\ first \in Int /\ 0 <= first /\ first < SeqMod
  <2> HIDE DEF s, last, first
  <2>1. QED  BY <1>1, <1>2 DEF Seqs
<1>4. last = IF first + m - 1 < SeqMod THEN first + m - 1 ELSE (first + m - 1) - SeqMod
  <2>1. m \in 1 .. Len(buf) /\ buf[m] # Blank
    BY <1>1 DEF Indexed
  <2>2. buf[m].seq = IF buf[1].seq + m - 1 < SeqMod THEN buf[1].seq + m - 1
                     ELSE (buf[1].seq + m - 1) - SeqMod
    BY <2>1, SeqAt
  <2>3. QED  BY <1>1, <2>2, Zenon
<1>5. ~IsSeqHigherThan(s, last) /\ ~IsSeqLowerThan(s, first)
  OBVIOUS
<1>6. item # Blank /\ item \in Slots
  BY BlankAssumption DEF Slots
<1> HIDE DEF s, last, first
<1>7. d \in 0 .. SeqMod - 1 /\ s - first = IF s < first THEN d - SeqMod ELSE d
  BY <1>1, Distance
<1> HIDE DEF d
<1>8. d \in 0 .. m - 1
  BY <1>1, <1>2, <1>3, <1>4, <1>5, <1>7 DEF IsSeqLowerThan, IsSeqHigherThan
<1>9. CASE InsertBetween(buf, item) = buf
  BY <1>9
<1>10. CASE InsertBetween(buf, item) # buf
  <2>1. InsertBetween(buf, item) = new
    BY <1>10 DEF InsertBetween, d, s, first
  <2>2. d + 1 \in 1 .. m
    BY <1>1, <1>8
  <2>3. new \in Seq(Slots) /\ Len(new) = m
        /\ \A i \in 1 .. m : new[i] = IF i = d + 1 THEN item ELSE buf[i]
    BY <1>6, <2>2, ExceptSeq
  <2> HIDE DEF new
  <2>4. new # <<>> /\ new[1] # Blank /\ new[Len(new)] # Blank
    BY <1>1, <1>6, <2>3 DEF Indexed
  <2>5. new[1].seq = first
    <3>1. CASE d + 1 = 1
      <4>1. new[1] = item /\ d = 0
        BY <1>1, <1>8, <2>3, <3>1
      <4>2. s = first
        BY <1>2, <1>3, <1>7, <4>1
      <4>3. QED  BY <4>1, <4>2 DEF s
    <3>2. CASE d + 1 # 1
      BY <1>1, <2>3, <3>2 DEF first
    <3>3. QED  BY <3>1, <3>2
  <2>6. ASSUME NEW i \in 1 .. Len(new), new[i] # Blank
        PROVE  new[i].seq = Wrap(first + i - 1)
    <3>1. CASE i = d + 1
      <4> DEFINE x == first + i - 1
      <4>1. /\ x \in Int /\ -SeqMod <= x /\ x < 2 * SeqMod /\ x >= 0
            /\ s = IF x < SeqMod THEN x ELSE x - SeqMod
        BY <1>1, <1>2, <1>3, <1>7, <1>8, <3>1
      <4> HIDE DEF x
      <4>2. Wrap(x) = IF x < SeqMod THEN x ELSE x - SeqMod
        BY <4>1, WrapNear
      <4>3. Wrap(x) = s
        BY <4>1, <4>2
      <4>4. new[i] = item
        BY <2>3, <3>1
      <4>5. QED  BY <4>3, <4>4 DEF x, s
    <3>2. CASE i # d + 1
      <4>1. new[i] = buf[i] /\ i \in 1 .. Len(buf) /\ buf[i] # Blank
        BY <2>3, <2>6, <3>2
      <4>2. buf[i].seq = Wrap(buf[1].seq + i - 1)
        BY <4>1 DEF Indexed
      <4>3. buf[1].seq = first
        BY <1>1 DEF first
      <4>4. QED  BY <4>1, <4>2, <4>3, Zenon
    <3>3. QED  BY <3>1, <3>2
  <2>7. \A i \in 1 .. Len(new) : new[i] # Blank => new[i].seq = Wrap(new[1].seq + i - 1)
    BY <2>5, <2>6, Zenon
  <2>8. QED  BY <1>1, <2>1, <2>3, <2>4, <2>7 DEF Indexed
<1>11. QED  BY <1>9, <1>10

\* RtpRetransmissionBuffer::Insert.
LEMMA InsertKeeps ==
  ASSUME NEW buf \in Seq(Slots), Indexed(buf), NEW item \in Items
  PROVE  BufferInsert(buf, item) \in Seq(Slots) /\ Indexed(BufferInsert(buf, item))
<1> DEFINE newestTs == IF Ts!IsSeqHigherThan(item.ts, Newest(buf).ts) THEN item.ts ELSE Newest(buf).ts
           young == ClearTooOldByTimestamp(buf, newestTs)
<1>1. CASE BufferInsert(buf, item) = <<item>>
  BY <1>1, OneSlot
<1>2. CASE BufferInsert(buf, item) # <<item>>
  <2>1. /\ buf # <<>> /\ young # <<>>
        /\ BufferInsert(buf, item) =
             IF IsSeqHigherThan(item.seq, Newest(young).seq) THEN InsertInOrder(young, item)
             ELSE IF IsSeqLowerThan(item.seq, Oldest(young).seq) THEN InsertBefore(young, item)
             ELSE InsertBetween(young, item)
    BY <1>2 DEF BufferInsert
  <2>2. young \in Seq(Slots) /\ Indexed(young)
    <3> DEFINE starts == {i \in ItemsAt(buf) : ~IsTooOldTimestamp(buf[i].ts, newestTs)}
    <3>1. young = From(buf, starts) /\ starts \in SUBSET ItemsAt(buf)
      BY DEF ClearTooOldByTimestamp
    <3> HIDE DEF young, starts
    <3>2. QED  BY <2>1, <3>1, FromIsIndexed
  <2> HIDE DEF young
  <2>3. QED  BY <2>1, <2>2, InsertInOrderKeeps, InsertBeforeKeeps, InsertBetweenKeeps
<1>3. QED  BY <1>1, <1>2

-----------------------------------------------------------------------------
(* The types of what the operations return                                 *)

\* A number put into a std::set, and numbers taken off its front.
LEMMA InsertedType ==
  ASSUME NEW s \in Seq(Seqs), NEW x \in Seqs, NEW i \in LowerBounds(s, x)
  PROVE  SubSeq(s, 1, i - 1) \o <<x>> \o SubSeq(s, i, Len(s)) \in Seq(Seqs)
<1>1. i \in 1 .. Len(s) + 1 /\ Len(s) \in Nat
  BY DEF LowerBounds
<1>2. SubSeq(s, 1, i - 1) \in Seq(Seqs) /\ SubSeq(s, i, Len(s)) \in Seq(Seqs)
  <2>1. /\ \A j \in 1 .. i - 1 : s[j] \in Seqs
        /\ \A j \in i .. Len(s) : s[j] \in Seqs
    BY <1>1
  <2>2. QED  BY <1>1, <2>1, SubSeqProperties
<1>3. <<x>> \in Seq(Seqs)
  OBVIOUS
<1>4. QED  BY <1>2, <1>3, ConcatProperties

LEMMA InsertLastType ==
  ASSUME NEW s \in Seq(Seqs), NEW x \in Seqs, NEW t \in InsertLast(s, x)
  PROVE  t \in Seq(Seqs)
<1>1. CASE t = Append(s, x)
  BY <1>1
<1>2. CASE t # Append(s, x)
  BY <1>2, InsertedType DEF InsertLast
<1>3. QED  BY <1>1, <1>2

LEMMA InsertAnyType ==
  ASSUME NEW s \in Seq(Seqs), NEW x \in Seqs, NEW t \in InsertAny(s, x)
  PROVE  t \in Seq(Seqs)
BY InsertedType DEF InsertAny

LEMMA EraseLowerType ==
  ASSUME NEW s \in Seq(Seqs), NEW x, NEW t \in EraseLower(s, x)
  PROVE  t \in Seq(Seqs)
<1>1. PICK i \in LowerBounds(s, x) : t = SubSeq(s, i, Len(s))
  BY DEF EraseLower
<1>2. i \in Int /\ Len(s) \in Int /\ \A j \in i .. Len(s) : s[j] \in Seqs
  BY DEF LowerBounds
<1>3. QED  BY <1>1, <1>2, SubSeqProperties

LEMMA ClearDroppedType ==
  ASSUME NEW sm \in SeqManagers
  PROVE  ClearDropped(sm) \in SeqManagers
<1> DEFINE d == sm.dropped
           Stops(n) == n = Len(d) \/ ~IsSeqHigherThan(d[n + 1], sm.maxInput)
           Prefix(n) == (\A i \in 1 .. n : IsSeqHigherThan(d[i], sm.maxInput)) /\ Stops(n)
           old == CHOOSE n \in 0 .. Len(d) : Prefix(n)
           T == {n \in 0 .. Len(d) : Stops(n)}
<1>1. d \in Seq(Seqs) /\ Len(d) \in Nat
  BY DEF SeqManagers
<1>2. \E n \in 0 .. Len(d) : Prefix(n)
  <2>1. T \in SUBSET Nat /\ Len(d) \in T
    BY <1>1
  <2> HIDE DEF T
  <2>2. PICK n \in T : \A k \in T : n <= k
    BY <2>1, Smallest
  <2>3. n \in 0 .. Len(d) /\ Stops(n)
    BY DEF T
  <2>4. ASSUME NEW i \in 1 .. n  PROVE IsSeqHigherThan(d[i], sm.maxInput)
    <3>1. i - 1 \in 0 .. Len(d) /\ i - 1 # Len(d) /\ ~(n <= i - 1) /\ (i - 1) + 1 = i
      BY <1>1, <2>3
    <3>2. i - 1 \notin T
      BY <2>2, <3>1
    <3>3. ~Stops(i - 1)
      BY <3>1, <3>2 DEF T
    <3>4. QED  BY <3>1, <3>3
  <2>5. QED  BY <2>3, <2>4
<1>3. old \in 0 .. Len(d)
  BY <1>2
<1>4. ClearDropped(sm) = [sm EXCEPT !.base = Wrap(sm.base - old),
                                    !.dropped = SubSeq(d, old + 1, Len(d))]
  BY DEF ClearDropped
<1> HIDE DEF old
<1>5. Wrap(sm.base - old) \in Seqs
  <2>1. sm.base - old \in Int
    BY <1>3, HalfIs DEF SeqManagers, Seqs
  <2>2. QED  BY <2>1, WrapIsSeq
<1>6. SubSeq(d, old + 1, Len(d)) \in Seq(Seqs)
  <2>1. old + 1 \in Int /\ Len(d) \in Int /\ \A j \in old + 1 .. Len(d) : d[j] \in Seqs
    BY <1>1, <1>3
  <2>2. QED  BY <2>1, SubSeqProperties
<1>7. QED  BY <1>4, <1>5, <1>6 DEF SeqManagers

LEMMA DropType ==
  ASSUME NEW sm \in SeqManagers, NEW seq \in Seqs, NEW t \in Drop(sm, seq)
  PROVE  t \in SeqManagers
<1>1. sm.dropped \in Seq(Seqs)
  BY DEF SeqManagers
<1>2. \A d \in InsertLast(sm.dropped, seq) :
         [sm EXCEPT !.maxInput = seq, !.dropped = d] \in SeqManagers
  BY <1>1, InsertLastType DEF SeqManagers
<1>3. QED  BY <1>2, ClearDroppedType DEF Drop

LEMMA DoneType ==
  ASSUME NEW sm \in SeqManagers, NEW seq \in Seqs, NEW base \in Seqs
  PROVE  Done(sm, seq, base).sm \in SeqManagers /\ Done(sm, seq, base).output \in Seqs
<1>1. Wrap(seq + base) \in Seqs
  <2>1. seq + base \in Int
    BY DEF Seqs
  <2>2. QED  BY <2>1, WrapIsSeq
<1>2. QED  BY <1>1 DEF Done, SeqManagers

LEMMA InputType ==
  ASSUME NEW sm \in SeqManagers, NEW seq \in Seqs, NEW in \in Input(sm, seq)
  PROVE  in.sm \in SeqManagers /\ in.output \in Seqs
<1> DEFINE seen == IF sm.dropped # <<>> /\ sm.started /\ IsSeqHigherThan(seq, sm.maxInput)
                   THEN [sm EXCEPT !.maxInput = seq] ELSE sm
           clean == ClearDropped(seen)
<1>1. seen \in SeqManagers
  BY DEF SeqManagers
<1>2. clean \in SeqManagers
  <2> HIDE DEF seen
  <2>1. QED  BY <1>1, ClearDroppedType
<1>3. \/ in = Done(clean, seq, clean.base)
      \/ \E o \in Seqs : in = [sm |-> clean, output |-> o]
      \/ \E i \in LowerBounds(clean.dropped, seq) : in = Done(clean, seq, Wrap(clean.base - (i - 1)))
  <2>1. in \in IF clean.dropped = <<>>
               THEN {Done(clean, seq, clean.base)}
               ELSE UNION {IF FoundAt(clean.dropped, i, seq)
                           THEN {[sm |-> clean, output |-> o] : o \in Seqs}
                           ELSE {Done(clean, seq, Wrap(clean.base - (i - 1)))} :
                             i \in LowerBounds(clean.dropped, seq)}
    BY DEF Input
  <2> HIDE DEF clean
  <2>2. QED  BY <2>1
<1> HIDE DEF clean
<1>4. CASE in = Done(clean, seq, clean.base)
  <2>1. clean.base \in Seqs
    BY <1>2 DEF SeqManagers
  <2>2. QED  BY <1>2, <1>4, <2>1, DoneType
<1>5. CASE \E o \in Seqs : in = [sm |-> clean, output |-> o]
  BY <1>2, <1>5
<1>6. CASE \E i \in LowerBounds(clean.dropped, seq) : in = Done(clean, seq, Wrap(clean.base - (i - 1)))
  <2>1. PICK i \in LowerBounds(clean.dropped, seq) : in = Done(clean, seq, Wrap(clean.base - (i - 1)))
    BY <1>6
  <2>2. clean.base - (i - 1) \in Int
    BY <1>2 DEF SeqManagers, Seqs, LowerBounds
  <2>3. QED  BY <1>2, <2>1, <2>2, WrapIsSeq, DoneType
<1>7. QED  BY <1>3, <1>4, <1>5, <1>6

LEMMA SyncType ==
  ASSUME NEW sm \in SeqManagers, NEW seq \in Seqs
  PROVE  Sync(sm, seq) \in SeqManagers
<1>1. Wrap(sm.maxOutput - seq) \in Seqs
  <2>1. sm.maxOutput - seq \in Int
    BY DEF SeqManagers, Seqs
  <2>2. QED  BY <2>1, WrapIsSeq
<1>2. <<>> \in Seq(Seqs)
  OBVIOUS
<1>3. QED  BY <1>1, <1>2 DEF Sync, SeqManagers

LEMMA StreamType ==
  ASSUME NEW rs \in RtpStreams, NEW seq \in Seqs
  PROVE  /\ UpdateSeq(rs, seq).rs \in RtpStreams
         /\ UpdateSeq(rs, seq).rs.started = rs.started
         /\ ReceiveStreamPacket(rs, seq).rs \in RtpStreams
         /\ ReceiveStreamPacket(rs, seq).rs.started
<1>1. Seqs \subseteq 0 .. SeqMod /\ SeqMod \in 0 .. SeqMod
  BY HalfIs DEF Seqs
<1>2. seq + 1 \in Int /\ seq - 1 \in Int
  BY DEF Seqs
<1>3. Wrap(seq + 1) \in Seqs /\ Wrap(seq - 1) \in Seqs
  BY <1>2, WrapIsSeq
<1>4. ASSUME NEW r \in RtpStreams
      PROVE  UpdateSeq(r, seq).rs \in RtpStreams /\ UpdateSeq(r, seq).rs.started = r.started
  BY <1>1, <1>3 DEF UpdateSeq, InitSeq, RtpStreams
<1> DEFINE fresh == [InitSeq(rs, seq) EXCEPT !.started = TRUE, !.maxSeq = Wrap(seq - 1)]
<1>5. fresh \in RtpStreams /\ fresh.started
  BY <1>1, <1>3 DEF InitSeq, RtpStreams
<1>6. ReceiveStreamPacket(rs, seq) = IF rs.started THEN UpdateSeq(rs, seq) ELSE UpdateSeq(fresh, seq)
  BY DEF ReceiveStreamPacket
<1> HIDE DEF fresh
<1>7. QED  BY <1>4, <1>5, <1>6

LEMMA KeyFrameType ==
  ASSUME NEW k \in KeyFrameStates
  PROVE  /\ KeyFrameNeeded(k).kf \in KeyFrameStates
         /\ ForceKeyFrameNeeded(k).kf \in KeyFrameStates
         /\ KeyFrameReceived(k) \in KeyFrameStates
         /\ OnKeyFrameRequestTimeout(k).kf \in KeyFrameStates
         /\ OnKeyFrameDelayTimeout(k).kf \in KeyFrameStates
<1>1. ASSUME NEW j \in KeyFrameStates  PROVE KeyFrameNeeded(j).kf \in KeyFrameStates
  BY DEF KeyFrameNeeded, KeyFrameStates
<1>2. [k EXCEPT !.delayer = "none"] \in KeyFrameStates
  BY DEF KeyFrameStates
<1>3. OnKeyFrameDelayTimeout(k).kf \in {KeyFrameNeeded([k EXCEPT !.delayer = "none"]).kf,
                                        [k EXCEPT !.delayer = "none"]}
  BY DEF OnKeyFrameDelayTimeout
<1>4. OnKeyFrameDelayTimeout(k).kf \in KeyFrameStates
  BY <1>1, <1>2, <1>3
<1>5. QED  BY <1>1, <1>4
           DEF ForceKeyFrameNeeded, KeyFrameReceived, OnKeyFrameRequestTimeout, KeyFrameStates

-----------------------------------------------------------------------------
(* The NACK list                                                           *)

Ages(list, last) == \A n \in list : Wrap(last - n.seq) \in 1 .. MaxPacketAge
OncePerNumber(list) == \A n, m \in list : n.seq = m.seq => n = m

\* A NACK list within its limits when the newest packet is numbered last.
Listed(list, last) ==
  /\ IsFiniteSet(list) /\ Cardinality(list) <= MaxNackPackets
  /\ OncePerNumber(list)
  /\ Ages(list, last)

\* A sound NACK generator.
Sound(ng) ==
  /\ Listed(ng.nackList, ng.lastSeq)
  /\ ng.nackList # {} => ng.started /\ ng.timer

LEMMA LimitsAre ==
  /\ MaxPacketAge \in Nat /\ MaxPacketAge >= 1 /\ MaxPacketAge <= Half
  /\ MaxNackPackets \in Nat /\ MaxNackPackets + 1 <= MaxPacketAge
  /\ MaxNackRetries \in Nat /\ MaxNackRetries >= 1
BY NackAssumption, HalfIs

LEMMA EmptyListed ==
  ASSUME NEW last
  PROVE  Listed({}, last)
<1>1. Cardinality({}) = 0 /\ IsFiniteSet({}) /\ 0 <= MaxNackPackets
  BY FS_EmptySet, LimitsAre
<1>2. QED  BY <1>1 DEF Listed, Ages, OncePerNumber

LEMMA SublistListed ==
  ASSUME NEW list, NEW last, Listed(list, last), NEW sub \in SUBSET list
  PROVE  Listed(sub, last) /\ Cardinality(sub) \in Nat /\ Cardinality(sub) <= Cardinality(list)
<1>1. IsFiniteSet(sub) /\ Cardinality(sub) <= Cardinality(list)
  BY FS_Subset DEF Listed
<1>2. Cardinality(sub) \in Nat /\ Cardinality(list) \in Nat /\ Cardinality(list) <= MaxNackPackets
  BY <1>1, FS_CardinalityType DEF Listed
<1>3. Cardinality(sub) <= MaxNackPackets
  BY <1>1, <1>2, LimitsAre
<1>4. QED  BY <1>1, <1>2, <1>3 DEF Listed, Ages, OncePerNumber

\* A set enumerated by f has no more elements than f has arguments.
LEMMA ImageIsNoLarger ==
  ASSUME NEW S, IsFiniteSet(S), NEW f, f = [x \in S |-> f[x]]
  PROVE  LET T == {f[x] : x \in S} IN IsFiniteSet(T) /\ Cardinality(T) <= Cardinality(S)
<1> DEFINE T == {f[x] : x \in S}
<1>1. f \in Surjection(S, T)
  BY DEF Surjection
<1>2. QED  BY <1>1, FS_Surjection

\* Asking for some of the entries keeps the list within its limits.
LEMMA AskListed ==
  ASSUME NEW ng \in NackGenerators, NEW last, Listed(ng.nackList, last), NEW ask \in SUBSET ng.nackList
  PROVE  LET after == Ask(ng, ask)
         IN  /\ after \in NackGenerators
             /\ Listed(after.nackList, last)
             /\ after.lastSeq = ng.lastSeq /\ after.started = ng.started /\ after.timer = ng.timer
             /\ ng.nackList = {} => after.nackList = {}
<1> DEFINE list == ng.nackList
           Next1(n) == [n EXCEPT !.sent = TRUE, !.retries = @ + 1]
           again == {m \in ask : m.retries + 1 < MaxNackRetries}
           f == [n \in again |-> Next1(n)]
           asked == {Next1(n) : n \in again}
           left == list \ ask
           new == left \cup asked
<1>1. list \in SUBSET NackInfos
  BY DEF NackGenerators
<1>2. \A n \in again : Next1(n) \in NackInfos /\ Next1(n).seq = n.seq
  <2>1. ASSUME NEW n \in again  PROVE Next1(n) \in NackInfos /\ Next1(n).seq = n.seq
    <3>1. n \in NackInfos
      BY <1>1
    <3>2. n.retries \in Nat /\ n.retries + 1 < MaxNackRetries /\ n.seq \in Seqs
      BY <3>1 DEF NackInfos
    <3>3. n.retries + 1 \in 0 .. MaxNackRetries - 1
      BY <3>2, LimitsAre
    <3>4. QED  BY <3>1, <3>3 DEF NackInfos
  <2>2. QED  BY <2>1
<1>3. Ask(ng, ask) = [ng EXCEPT !.nackList = new]
  BY DEF Ask
<1>4. /\ new \in SUBSET NackInfos
      /\ \A n \in new : \E m \in list : n.seq = m.seq /\ (n \notin left => m \in again /\ n = Next1(m))
                                        /\ (n \in left => m = n)
  <2> HIDE DEF Next1
  <2>1. QED  BY <1>1, <1>2
<1>5. IsFiniteSet(list) /\ Cardinality(list) \in Nat /\ Cardinality(list) <= MaxNackPackets
  BY FS_CardinalityType DEF Listed
<1>6. IsFiniteSet(new) /\ Cardinality(new) \in Nat /\ Cardinality(new) <= Cardinality(list)
  <2>1. /\ IsFiniteSet(left) /\ IsFiniteSet(ask) /\ IsFiniteSet(again)
        /\ Cardinality(left) \in Nat /\ Cardinality(ask) \in Nat /\ Cardinality(again) \in Nat
        /\ Cardinality(again) <= Cardinality(ask)
    <3>1. IsFiniteSet(left) /\ IsFiniteSet(ask)
      BY <1>5, FS_Subset, left \in SUBSET list
    <3>2. IsFiniteSet(again) /\ Cardinality(again) <= Cardinality(ask)
      BY <3>1, FS_Subset, again \in SUBSET ask
    <3>3. QED  BY <3>1, <3>2, FS_CardinalityType
  <2>2. Cardinality(list) = Cardinality(left) + Cardinality(ask)
    <3>1. list = left \cup ask /\ left \cap ask = {}
      OBVIOUS
    <3>2. Cardinality(left \cup ask) = Cardinality(left) + Cardinality(ask) - Cardinality(left \cap ask)
      BY <2>1, FS_Union
    <3> HIDE DEF list, left
    <3>3. Cardinality(left \cap ask) = 0 /\ Cardinality(left \cup ask) = Cardinality(list)
      BY <3>1, FS_EmptySet, Zenon
    <3>4. QED  BY <2>1, <3>2, <3>3
  <2>3. IsFiniteSet(asked) /\ Cardinality(asked) <= Cardinality(again)
    <3>1. f = [n \in again |-> f[n]] /\ asked = {f[n] : n \in again}
      OBVIOUS
    <3> HIDE DEF f, asked, again
    <3>2. QED  BY <2>1, <3>1, ImageIsNoLarger
  <2>4. Cardinality(asked) \in Nat
    BY <2>3, FS_CardinalityType
  <2>5. IsFiniteSet(new) /\ Cardinality(new) <= Cardinality(left) + Cardinality(asked)
    <3>1. /\ IsFiniteSet(left \cup asked)
          /\ Cardinality(left \cup asked) = Cardinality(left) + Cardinality(asked) - Cardinality(left \cap asked)
      BY <2>1, <2>3, FS_Union
    <3>2. left \cap asked \in SUBSET left
      OBVIOUS
    <3> HIDE DEF left, asked
    <3>3. Cardinality(left \cap asked) \in Nat
      BY <2>1, <3>2, FS_Subset, FS_CardinalityType
    <3>4. QED  BY <2>1, <2>4, <3>1, <3>3, FS_CardinalityType
  <2>6. Cardinality(new) \in Nat
    BY <2>5, FS_CardinalityType
  <2> HIDE DEF left, asked, again, list, new
  <2>7. QED  BY <2>1, <2>2, <2>3, <2>4, <2>5, <2>6
<1>7. Cardinality(new) <= MaxNackPackets
  <2> HIDE DEF new, list
  <2>1. QED  BY <1>5, <1>6, LimitsAre
<1>8. OncePerNumber(new)
  <2>1. ASSUME NEW n \in new, NEW m \in new, n.seq = m.seq  PROVE n = m
    <3>1. PICK a \in list : a.seq = n.seq /\ (n \notin left => a \in again /\ n = Next1(a)) /\ (n \in left => a = n)
      BY <1>4
    <3>2. PICK b \in list : b.seq = m.seq /\ (m \notin left => b \in again /\ m = Next1(b)) /\ (m \in left => b = m)
      BY <1>4
    <3>3. a = b
      BY <2>1, <3>1, <3>2 DEF Listed, OncePerNumber
    <3> HIDE DEF Next1
    <3>4. QED  BY <3>1, <3>2, <3>3
  <2>2. QED  BY <2>1 DEF OncePerNumber
<1>9. Ages(new, last)
  <2>1. ASSUME NEW n \in new  PROVE Wrap(last - n.seq) \in 1 .. MaxPacketAge
    <3>1. PICK m \in list : m.seq = n.seq
      BY <1>4
    <3>2. QED  BY <3>1 DEF Listed, Ages
  <2>2. QED  BY <2>1 DEF Ages
<1>10. list = {} => new = {}
  BY DEF list
<1> HIDE DEF new
<1>11. [ng EXCEPT !.nackList = new] \in NackGenerators /\ [ng EXCEPT !.nackList = new].nackList = new
  BY <1>4 DEF NackGenerators
<1>12. QED  BY <1>3, <1>6, <1>7, <1>8, <1>9, <1>10, <1>11 DEF Listed, NackGenerators

\* The packets between the newest one and a newer one, numbered seq, become missing.
LEMMA AddListed ==
  ASSUME NEW ng \in NackGenerators, Listed(ng.nackList, ng.lastSeq),
         NEW seq \in Seqs, IsSeqHigherThan(seq, ng.lastSeq),
         NEW add \in AddPacketsToNackList(ng, Wrap(ng.lastSeq + 1), seq)
  PROVE  /\ add.ng \in NackGenerators
         /\ add.ng.started = ng.started /\ add.ng.timer = ng.timer
         /\ Listed(add.ng.nackList, seq)
<1> DEFINE last == ng.lastSeq
           start == Wrap(last + 1)
           list == ng.nackList
           bound == Wrap(seq - MaxPacketAge)
           recent == {n \in list : ~IsSeqLowerThan(n.seq, bound)}
           young == [ng EXCEPT !.nackList = recent]
           new == Wrap(seq - start)
           missing == {Wrap(start + i) : i \in 0 .. new - 1}
           skipped == {s \in missing : \E i \in LowerBounds(ng.recoveredList, s) :
                                          FoundAt(ng.recoveredList, i, s)}
           fresh == missing \ skipped
           entries == {[seq |-> s, sent |-> FALSE, retries |-> 0] : s \in fresh}
           g == Wrap(seq - last)
<1>1. list \in SUBSET NackInfos /\ last \in Seqs
  BY DEF NackGenerators
<1>2. SeqMod \in Nat /\ Half \in Nat /\ SeqMod = 2 * Half + 2
  BY HalfIs
<1>3. last \in Int /\ 0 <= last /\ last < SeqMod /\ seq \in Int /\ 0 <= seq /\ seq < SeqMod
  <2> HIDE DEF last
  <2>1. QED  BY <1>1, <1>2 DEF Seqs
<1>4. g \in Int /\ 1 <= g /\ g <= Half + 1 /\ seq - last = IF seq < last THEN g - SeqMod ELSE g
  <2>1. IsSeqHigherThan(seq, last)
    OBVIOUS
  <2> HIDE DEF last
  <2>2. g \in 0 .. SeqMod - 1 /\ 1 <= g /\ g <= Half + 1 /\ seq - last = IF seq < last THEN g - SeqMod ELSE g
    BY <1>1, <2>1, Distance
  <2> HIDE DEF g
  <2>3. QED  BY <1>2, <2>2
<1>5. start \in Int /\ 0 <= start /\ start < SeqMod
      /\ start = IF last + 1 < SeqMod THEN last + 1 ELSE (last + 1) - SeqMod
  <2> DEFINE x == last + 1
  <2>1. x \in Int /\ -SeqMod <= x /\ x < 2 * SeqMod /\ 0 <= x /\ x <= SeqMod
    <3> HIDE DEF last
    <3>1. QED  BY <1>2, <1>3
  <2>2. start = Wrap(x)
    OBVIOUS
  <2> HIDE DEF x, start
  <2>3. Wrap(x) = IF x < SeqMod THEN x ELSE x - SeqMod
    BY <2>1, WrapNear
  <2>4. start \in Int /\ 0 <= start /\ start < SeqMod /\ start = IF x < SeqMod THEN x ELSE x - SeqMod
    BY <1>2, <2>1, <2>2, <2>3
  <2>5. QED  BY <2>4 DEF x
<1>6. new = g - 1
  <2> DEFINE x == seq - start
  <2> HIDE DEF last, start, g
  <2>1. x \in Int /\ -SeqMod <= x /\ x < 2 * SeqMod
        /\ g - 1 = IF x < 0 THEN x + SeqMod ELSE x
    BY <1>2, <1>3, <1>4, <1>5
  <2>2. new = Wrap(x)
    BY DEF start
  <2> HIDE DEF x, new
  <2>3. Wrap(x) = IF x < 0 THEN x + SeqMod ELSE IF x < SeqMod THEN x ELSE x - SeqMod
    BY <2>1, WrapNear
  <2>4. QED  BY <1>2, <1>4, <2>1, <2>2, <2>3
<1>7. PICK room \in MakeRoom(young, new) :
        add = IF room.needKey
              THEN [ng |-> room.ng, needKey |-> TRUE, fresh |-> {}]
              ELSE [ng |-> [room.ng EXCEPT !.nackList = @ \cup entries], needKey |-> FALSE, fresh |-> fresh]
  BY Zenon DEF AddPacketsToNackList
<1>8. Listed(recent, last) /\ Cardinality(recent) \in Nat
  <2>1. recent \in SUBSET list /\ Listed(list, last)
    OBVIOUS
  <2> HIDE DEF recent, list, last
  <2>2. QED  BY <2>1, SublistListed
<1>9. \/ room.needKey /\ room.ng = [young EXCEPT !.nackList = {}, !.keyFrameList = {}]
      \/ /\ ~room.needKey
         /\ \E l \in SUBSET recent, k \in SUBSET ng.keyFrameList :
               /\ room.ng = [young EXCEPT !.nackList = l, !.keyFrameList = k]
               /\ Cardinality(l) + new <= MaxNackPackets
  <2>1. young.nackList = recent /\ young.keyFrameList = ng.keyFrameList /\ young \in NackGenerators
    BY <1>1 DEF NackGenerators
  <2> HIDE DEF recent, young, new
  <2>2. CASE Cardinality(recent) + new <= MaxNackPackets
    <3>1. ~room.needKey /\ room.ng = young
      BY <2>1, <2>2 DEF MakeRoom
    <3>2. young = [young EXCEPT !.nackList = recent, !.keyFrameList = ng.keyFrameList]
      BY <2>1 DEF NackGenerators
    <3>3. QED  BY <2>2, <3>1, <3>2
  <2>3. CASE ~(Cardinality(recent) + new <= MaxNackPackets) /\ Frees(young, new) = {}
    <3>1. room = [ng |-> [young EXCEPT !.nackList = {}, !.keyFrameList = {}], needKey |-> TRUE]
      BY <2>1, <2>3 DEF MakeRoom
    <3>2. QED  BY <3>1
  <2>4. CASE ~(Cardinality(recent) + new <= MaxNackPackets) /\ Frees(young, new) # {}
    <3>1. PICK k \in FirstOf(Frees(young, new)) :
            room = [ng |-> [young EXCEPT !.nackList = Survivors(young, k),
                                         !.keyFrameList = {y \in @ : ~IsSeqLowerThan(y, k)}],
                    needKey |-> FALSE]
      BY <2>1, <2>4 DEF MakeRoom
    <3>2. k \in Frees(young, new)
      BY DEF FirstOf
    <3> DEFINE ks == {y \in young.keyFrameList : ~IsSeqLowerThan(y, k)}
    <3>3. ~room.needKey /\ room.ng = [young EXCEPT !.nackList = Survivors(young, k), !.keyFrameList = ks]
      BY <3>1
    <3>4. ks \in SUBSET ng.keyFrameList /\ Survivors(young, k) \in SUBSET recent
      BY <2>1 DEF Survivors
    <3>5. Cardinality(Survivors(young, k)) + new <= MaxNackPackets
      BY <3>2 DEF Frees
    <3> HIDE DEF ks
    <3>6. QED  BY <3>3, <3>4, <3>5
  <2>5. QED  BY <2>2, <2>3, <2>4
<1>10. CASE room.needKey
  <2>1. add.ng = [young EXCEPT !.nackList = {}, !.keyFrameList = {}]
    BY <1>7, <1>9, <1>10
  <2>2. /\ add.ng \in NackGenerators /\ add.ng.nackList = {}
        /\ add.ng.started = ng.started /\ add.ng.timer = ng.timer
    BY <2>1 DEF NackGenerators
  <2>3. QED  BY <2>2, EmptyListed
<1>11. CASE ~room.needKey
  <2>1. PICK l \in SUBSET recent, k \in SUBSET ng.keyFrameList :
               /\ room.ng = [young EXCEPT !.nackList = l, !.keyFrameList = k]
               /\ Cardinality(l) + new <= MaxNackPackets
    BY <1>9, <1>11
  <2> DEFINE all == l \cup entries
  <2>2. Listed(l, last) /\ Cardinality(l) \in Nat
    <3> HIDE DEF recent, last
    <3>1. QED  BY <1>8, SublistListed
  <2>3. new \in Nat /\ new = g - 1 /\ g <= MaxNackPackets + 1 /\ g <= MaxPacketAge
    <3> HIDE DEF new, g
    <3>1. QED  BY <1>4, <1>6, <2>1, <2>2, LimitsAre
  <2>4. ASSUME NEW n \in l
        PROVE  Wrap(seq - n.seq) \in g + 1 .. MaxPacketAge
    <3> DEFINE s == n.seq
               a == Wrap(last - s)
               b == Wrap(seq - s)
    <3>1. a \in 1 .. MaxPacketAge /\ s \in Seqs /\ ~IsSeqLowerThan(s, bound)
      BY <1>1, <2>2 DEF Listed, Ages, NackInfos
    <3>2. a \in 0 .. SeqMod - 1 /\ last - s = IF last < s THEN a - SeqMod ELSE a
      <4> HIDE DEF last, s
      <4>1. QED  BY <1>1, <3>1, Distance
    <3>3. b \in 0 .. SeqMod - 1 /\ seq - s = IF seq < s THEN b - SeqMod ELSE b
      <4> HIDE DEF s
      <4>1. QED  BY <3>1, Distance
    <3>4. bound \in Int /\ 0 <= bound /\ bound < SeqMod
          /\ bound = IF seq < MaxPacketAge THEN seq - MaxPacketAge + SeqMod ELSE seq - MaxPacketAge
      <4> DEFINE x == seq - MaxPacketAge
      <4>1. x \in Int /\ -SeqMod <= x /\ x < 2 * SeqMod /\ x < SeqMod /\ (x < 0 <=> seq < MaxPacketAge)
        BY <1>2, <1>3, LimitsAre
      <4>2. bound = Wrap(x)
        OBVIOUS
      <4> HIDE DEF x, bound
      <4>3. Wrap(x) = IF x < 0 THEN x + SeqMod ELSE IF x < SeqMod THEN x ELSE x - SeqMod
        BY <4>1, WrapNear
      <4>4. bound \in Int /\ 0 <= bound /\ bound < SeqMod
            /\ bound = IF seq < MaxPacketAge THEN x + SeqMod ELSE x
        BY <1>2, <4>1, <4>2, <4>3
      <4>5. QED  BY <4>4 DEF x
    <3>5. s \in Int /\ 0 <= s /\ s < SeqMod
      <4> HIDE DEF s
      <4>1. QED  BY <1>2, <3>1 DEF Seqs
    <3> HIDE DEF s, a, b, bound, last, g
    <3>6. b = a + g
      <4>1. a + g \in Int /\ 0 <= a + g /\ a + g < SeqMod
        BY <1>2, <1>4, <2>3, <3>1, LimitsAre
      <4>2. seq - s = (seq - last) + (last - s)
        BY <1>3, <3>5
      <4>3. b = a + g \/ b = (a + g) - SeqMod \/ b = (a + g) + SeqMod
        BY <1>2, <1>3, <1>4, <3>2, <3>3, <3>5, <4>1, <4>2
      <4>4. QED  BY <1>2, <3>3, <4>1, <4>3
    <3>7. b <= MaxPacketAge
      BY <1>2, <1>3, <1>4, <2>3, <3>1, <3>3, <3>4, <3>5, <3>6, LimitsAre DEF IsSeqLowerThan
    <3>8. b \in g + 1 .. MaxPacketAge
      BY <1>4, <2>3, <3>1, <3>3, <3>6, <3>7, LimitsAre
    <3>9. QED  BY <3>8 DEF b, s
  <2>5. ASSUME NEW i \in 0 .. new - 1
        PROVE  Wrap(start + i) \in Seqs /\ Wrap(seq - Wrap(start + i)) = new - i
    <3> DEFINE x == start + i
               s == Wrap(x)
               y == seq - s
    <3> HIDE DEF start, new, g, last
    <3>1. /\ i \in Int /\ 0 <= i /\ i < new /\ new <= Half
          /\ x \in Int /\ -SeqMod <= x /\ x < 2 * SeqMod /\ 0 <= x
      <4>1. i \in Int /\ 0 <= i /\ i < new /\ new <= Half
        BY <1>2, <1>4, <2>3, LimitsAre
      <4>2. QED  BY <1>2, <1>5, <2>3, <4>1
    <3>2. s \in Seqs
      BY <3>1, WrapIsSeq
    <3>3. s = IF x < 0 THEN x + SeqMod ELSE IF x < SeqMod THEN x ELSE x - SeqMod
      <4> HIDE DEF x
      <4>1. QED  BY <3>1, WrapNear
    <3>4. start = IF last + 1 < SeqMod THEN last + 1 ELSE (last + 1) - SeqMod
      BY <1>5
    <3>5. x = start + i
      OBVIOUS
    <3> HIDE DEF x, s
    <3>6. s \in Int /\ 0 <= s /\ s < SeqMod
      BY <1>2, <3>2 DEF Seqs
    <3>7. /\ y \in Int /\ -SeqMod <= y /\ y < 2 * SeqMod
          /\ y = IF seq < s THEN new - i - SeqMod ELSE new - i
      BY <1>2, <1>3, <1>4, <1>5, <2>3, <3>1, <3>3, <3>4, <3>5, <3>6
    <3>8. Wrap(y) = new - i
      <4>1. (seq < s <=> y < 0) /\ y < SeqMod
        BY <1>2, <1>3, <3>6
      <4> HIDE DEF y
      <4>2. Wrap(y) = IF y < 0 THEN y + SeqMod ELSE IF y < SeqMod THEN y ELSE y - SeqMod
        BY <3>7, WrapNear
      <4>3. QED  BY <1>2, <2>3, <3>1, <3>7, <4>1, <4>2
    <3>9. QED  BY <3>2, <3>8 DEF s, x, y
  <2>6. ASSUME NEW n \in entries
        PROVE  n \in NackInfos /\ Wrap(seq - n.seq) \in 1 .. new
               /\ n = [seq |-> n.seq, sent |-> FALSE, retries |-> 0]
    <3>1. PICK i \in 0 .. new - 1 : n = [seq |-> Wrap(start + i), sent |-> FALSE, retries |-> 0]
      OBVIOUS
    <3>2. Wrap(start + i) \in Seqs /\ Wrap(seq - Wrap(start + i)) = new - i
      BY <2>5
    <3>3. 0 \in 0 .. MaxNackRetries - 1
      BY LimitsAre
    <3> HIDE DEF new, start, entries
    <3>4. new - i \in 1 .. new
      BY <2>3
    <3>5. QED  BY <3>1, <3>2, <3>3, <3>4 DEF NackInfos
  <2>7. IsFiniteSet(entries) /\ Cardinality(entries) \in Nat /\ Cardinality(entries) <= new
    <3> DEFINE f == [i \in 0 .. new - 1 |-> [seq |-> Wrap(start + i), sent |-> FALSE, retries |-> 0]]
               S == 0 .. new - 1
               T == {f[i] : i \in S}
    <3>1. entries \in SUBSET T /\ f = [i \in S |-> f[i]]
      OBVIOUS
    <3>2. IsFiniteSet(S) /\ Cardinality(S) = new
      <4> HIDE DEF new, f, T, entries
      <4>1. new - 1 \in Int /\ 0 \in Int
        BY <2>3
      <4>2. IsFiniteSet(0 .. new - 1) /\ Cardinality(0 .. new - 1) = IF 0 > new - 1 THEN 0 ELSE (new - 1) - 0 + 1
        BY <4>1, FS_Interval
      <4>3. QED  BY <2>3, <4>2
    <3> HIDE DEF f, S, entries, new
    <3>3. IsFiniteSet(T) /\ Cardinality(T) <= new
      BY <3>1, <3>2, ImageIsNoLarger
    <3> HIDE DEF T
    <3>4. IsFiniteSet(entries) /\ Cardinality(entries) <= Cardinality(T)
      BY <3>1, <3>3, FS_Subset
    <3>5. Cardinality(entries) \in Nat /\ Cardinality(T) \in Nat
      BY <3>3, <3>4, FS_CardinalityType
    <3>6. QED  BY <2>3, <3>3, <3>4, <3>5
  <2> HIDE DEF entries, recent, new, start, missing, fresh
  <2>8. IsFiniteSet(all) /\ Cardinality(all) <= MaxNackPackets
    <3>1. /\ IsFiniteSet(all)
          /\ Cardinality(all) = Cardinality(l) + Cardinality(entries) - Cardinality(l \cap entries)
      BY <2>2, <2>7, FS_Union DEF Listed
    <3>2. Cardinality(l \cap entries) \in Nat
      <4>1. l \cap entries \in SUBSET entries
        OBVIOUS
      <4>2. QED  BY <2>7, <4>1, FS_Subset, FS_CardinalityType
    <3>3. QED  BY <2>1, <2>2, <2>3, <2>7, <3>1, <3>2, LimitsAre
  <2>9. Ages(all, seq)
    <3>1. ASSUME NEW n \in all  PROVE Wrap(seq - n.seq) \in 1 .. MaxPacketAge
      <4>1. CASE n \in l
        <5>1. Wrap(seq - n.seq) \in g + 1 .. MaxPacketAge
          BY <2>4, <4>1
        <5> HIDE DEF g
        <5>2. QED  BY <1>4, <5>1, LimitsAre
      <4>2. CASE n \in entries
        <5>1. Wrap(seq - n.seq) \in 1 .. new
          BY <2>6, <4>2
        <5> HIDE DEF g
        <5>2. QED  BY <1>4, <2>3, <5>1, LimitsAre
      <4>3. QED  BY <4>1, <4>2
    <3>2. QED  BY <3>1 DEF Ages
  <2>10. OncePerNumber(all)
    <3>1. \A n \in l, m \in entries : n.seq # m.seq
      <4>1. ASSUME NEW n \in l, NEW m \in entries, n.seq = m.seq  PROVE FALSE
        <5> DEFINE x == Wrap(seq - n.seq)
        <5>1. x \in g + 1 .. MaxPacketAge
          BY <2>4
        <5>2. x \in 1 .. new
          BY <2>6, <4>1
        <5> HIDE DEF x, g
        <5>3. QED  BY <1>4, <2>3, <5>1, <5>2, LimitsAre
      <4>2. QED  BY <4>1
    <3>2. \A n, m \in entries : n.seq = m.seq => n = m
      BY <2>6, Zenon
    <3>3. \A n, m \in l : n.seq = m.seq => n = m
      BY <2>2 DEF Listed, OncePerNumber
    <3>4. QED  BY <3>1, <3>2, <3>3 DEF OncePerNumber
  <2>11. Listed(all, seq) /\ all \in SUBSET NackInfos
    BY <1>1, <2>6, <2>8, <2>9, <2>10 DEF Listed, recent
  <2> HIDE DEF all
  <2>12. add.ng = [[young EXCEPT !.nackList = l, !.keyFrameList = k] EXCEPT !.nackList = all]
    <3>1. young.nackList \in SUBSET NackInfos /\ young \in NackGenerators
      BY <1>1 DEF NackGenerators, recent
    <3>2. [young EXCEPT !.nackList = l, !.keyFrameList = k].nackList = l
      BY <3>1 DEF NackGenerators
    <3>3. QED  BY <1>7, <1>11, <2>1, <3>2 DEF all
  <2>13. /\ add.ng \in NackGenerators /\ add.ng.nackList = all
         /\ add.ng.started = ng.started /\ add.ng.timer = ng.timer
    BY <2>11, <2>12 DEF NackGenerators
  <2>14. QED  BY <2>11, <2>13
<1>12. QED  BY <1>10, <1>11

LEMMA OlderSound ==
  ASSUME NEW ng \in NackGenerators, Sound(ng), NEW seq, NEW r \in ReceiveOlder(ng, seq)
  PROVE  r.ng \in NackGenerators /\ Sound(r.ng)
<1> DEFINE left == ng.nackList \ {n \in ng.nackList : n.seq = seq}
<1>1. r.ng = [ng EXCEPT !.nackList = left]
  BY DEF ReceiveOlder
<1>2. left \in SUBSET ng.nackList
  OBVIOUS
<1> HIDE DEF left
<1>3. Listed(left, ng.lastSeq)
  BY <1>2, SublistListed DEF Sound
<1>4. /\ r.ng \in NackGenerators /\ r.ng.nackList = left
      /\ r.ng.lastSeq = ng.lastSeq /\ r.ng.started = ng.started /\ r.ng.timer = ng.timer
  BY <1>1, <1>2 DEF NackGenerators
<1>5. QED  BY <1>2, <1>3, <1>4 DEF Sound

\* What leaves the list and what it depends on alone keeps it sound.
LEMMA SameListSound ==
  ASSUME NEW ng, Sound(ng), NEW new,
         new.nackList = ng.nackList, new.lastSeq = ng.lastSeq, new.started = ng.started, new.timer = ng.timer
  PROVE  Sound(new)
BY DEF Sound

LEMMA RecoveredSound ==
  ASSUME NEW ng \in NackGenerators, Sound(ng), NEW seq \in Seqs, NEW r \in ReceiveRecovered(ng, seq)
  PROVE  r.ng \in NackGenerators /\ Sound(r.ng)
<1>1. PICK s \in InsertAny(ng.recoveredList, seq) :
        \E t \in EraseLower(s, Wrap(seq - MaxPacketAge)) : r = NothingAsked([ng EXCEPT !.recoveredList = t])
  BY Zenon DEF ReceiveRecovered
<1>2. PICK t \in EraseLower(s, Wrap(seq - MaxPacketAge)) : r = NothingAsked([ng EXCEPT !.recoveredList = t])
  BY <1>1
<1>3. ng.recoveredList \in Seq(Seqs)
  BY DEF NackGenerators
<1>4. t \in Seq(Seqs)
  BY <1>3, InsertAnyType, EraseLowerType
<1>5. r.ng = [ng EXCEPT !.recoveredList = t]
  BY <1>2 DEF NothingAsked
<1>6. /\ r.ng \in NackGenerators
      /\ r.ng.nackList = ng.nackList /\ r.ng.lastSeq = ng.lastSeq
      /\ r.ng.started = ng.started /\ r.ng.timer = ng.timer
  BY <1>4, <1>5 DEF NackGenerators
<1>7. QED  BY <1>6, SameListSound

LEMMA NewerSound ==
  ASSUME NEW ng \in NackGenerators, Sound(ng), ng.started,
         NEW seq \in Seqs, IsSeqHigherThan(seq, ng.lastSeq), NEW r \in ReceiveNewer(ng, seq)
  PROVE  r.ng \in NackGenerators /\ Sound(r.ng)
<1> DEFINE Moved(a) == [a.ng EXCEPT !.lastSeq = seq]
           Result(a, ask) ==
             [ng |-> [Ask(Moved(a), ask) EXCEPT !.timer = @ \/ Ask(Moved(a), ask).nackList # {}],
              found |-> FALSE, asked |-> {n.seq : n \in ask}, needKey |-> a.needKey]
<1>1. r \in UNION {{Result(a, ask) : ask \in SeqBatches(Moved(a), a.fresh)} :
                      a \in AddPacketsToNackList(ng, Wrap(ng.lastSeq + 1), seq)}
  BY DEF ReceiveNewer
<1> HIDE DEF Result
<1>2. PICK add \in AddPacketsToNackList(ng, Wrap(ng.lastSeq + 1), seq) :
        \E ask \in SeqBatches(Moved(add), add.fresh) : r = Result(add, ask)
  BY <1>1
<1> DEFINE moved == Moved(add)
<1>3. PICK ask \in SeqBatches(moved, add.fresh) : r = Result(add, ask)
  BY <1>2
<1>4. /\ add.ng \in NackGenerators /\ add.ng.started = ng.started
      /\ Listed(add.ng.nackList, seq)
  BY AddListed DEF Sound
<1>5. /\ moved \in NackGenerators /\ moved.lastSeq = seq /\ moved.nackList = add.ng.nackList
      /\ moved.started = ng.started
  BY <1>4 DEF NackGenerators
<1> HIDE DEF moved
<1>6. ask \in SUBSET moved.nackList
  BY DEF SeqBatches
<1> DEFINE after == Ask(moved, ask)
           running == after.timer \/ after.nackList # {}
<1>7. /\ after \in NackGenerators /\ Listed(after.nackList, seq)
      /\ after.lastSeq = moved.lastSeq /\ after.started = moved.started
  BY <1>4, <1>5, <1>6, AskListed
<1>8. r.ng = [after EXCEPT !.timer = running]
  <2>1. Result(add, ask).ng = [Ask(Moved(add), ask) EXCEPT !.timer = @ \/ Ask(Moved(add), ask).nackList # {}]
    BY DEF Result
  <2> HIDE DEF Result
  <2>2. QED  BY <1>3, <2>1, Zenon DEF moved
<1>9. running \in BOOLEAN /\ (after.nackList # {} => running)
  OBVIOUS
<1> HIDE DEF after, running
<1>10. /\ r.ng \in NackGenerators /\ r.ng.nackList = after.nackList
      /\ r.ng.lastSeq = after.lastSeq /\ r.ng.started = after.started /\ r.ng.timer = running
  BY <1>7, <1>8, <1>9 DEF NackGenerators
<1>11. QED  BY <1>5, <1>7, <1>9, <1>10 DEF Sound

\* NackGenerator::ReceivePacket.
LEMMA ReceiveSound ==
  ASSUME NEW ng \in NackGenerators, Sound(ng), NEW seq \in Seqs, NEW isKey, NEW viaRtx,
         NEW r \in NackReceivePacket(ng, seq, isKey, viaRtx)
  PROVE  r.ng \in NackGenerators /\ Sound(r.ng)
<1>0. ng.lastSeq \in Seqs
  BY DEF NackGenerators
<1>1. CASE ~ng.started
  <2> DEFINE keys == IF isKey THEN ng.keyFrameList \cup {seq} ELSE ng.keyFrameList
  <2>1. r.ng = [ng EXCEPT !.started = TRUE, !.lastSeq = seq, !.keyFrameList = keys]
    BY <1>1 DEF NackReceivePacket, NothingAsked
  <2>2. keys \in SUBSET Seqs
    BY DEF NackGenerators
  <2> HIDE DEF keys
  <2>3. ng.nackList = {}
    BY <1>1 DEF Sound
  <2>4. r.ng \in NackGenerators /\ r.ng.nackList = {}
    BY <2>1, <2>2, <2>3 DEF NackGenerators
  <2>5. QED  BY <2>4, EmptyListed DEF Sound
<1>2. CASE ng.started /\ seq = ng.lastSeq
  <2>1. r.ng = ng
    BY <1>2 DEF NackReceivePacket, NothingAsked
  <2>2. QED  BY <2>1
<1>3. CASE ng.started /\ seq # ng.lastSeq /\ IsSeqLowerThan(seq, ng.lastSeq)
  <2>1. r \in ReceiveOlder(ng, seq)
    BY <1>3 DEF NackReceivePacket
  <2>2. QED  BY <2>1, OlderSound
<1>4. CASE ng.started /\ seq # ng.lastSeq /\ ~IsSeqLowerThan(seq, ng.lastSeq)
  <2> DEFINE kept == WithKeyFrame(ng, seq, isKey)
  <2>1. IsSeqHigherThan(seq, ng.lastSeq)
    BY <1>0, <1>4, Distance
  <2>2. /\ kept \in NackGenerators /\ kept.nackList = ng.nackList /\ kept.lastSeq = ng.lastSeq
        /\ kept.started = ng.started /\ kept.timer = ng.timer
    BY DEF WithKeyFrame, NackGenerators
  <2>3. r \in ReceiveRecovered(kept, seq) \/ r \in ReceiveNewer(kept, seq)
    BY <1>4 DEF NackReceivePacket
  <2> HIDE DEF kept
  <2>4. Sound(kept)
    BY <2>2, SameListSound
  <2>5. QED  BY <1>4, <2>1, <2>2, <2>3, <2>4, RecoveredSound, NewerSound
<1>5. QED  BY <1>1, <1>2, <1>3, <1>4

LEMMA TimerSound ==
  ASSUME NEW ng \in NackGenerators, Sound(ng), NEW due \in TimeBatches(ng)
  PROVE  NackOnTimer(ng, due).ng \in NackGenerators /\ Sound(NackOnTimer(ng, due).ng)
<1> DEFINE after == Ask(ng, due)
           running == after.nackList # {}
           new == NackOnTimer(ng, due).ng
<1>1. /\ after \in NackGenerators /\ Listed(after.nackList, ng.lastSeq)
      /\ after.lastSeq = ng.lastSeq /\ after.started = ng.started
      /\ ng.nackList = {} => after.nackList = {}
  BY AskListed DEF Sound, TimeBatches
<1>2. new = [after EXCEPT !.timer = running] /\ running \in BOOLEAN /\ (after.nackList # {} => running)
  BY DEF NackOnTimer
<1> HIDE DEF after, running, new
<1>3. /\ new \in NackGenerators /\ new.nackList = after.nackList
      /\ new.lastSeq = after.lastSeq /\ new.started = after.started /\ new.timer = running
  BY <1>1, <1>2 DEF NackGenerators
<1>4. Sound(new)
  BY <1>1, <1>2, <1>3 DEF Sound
<1>5. QED  BY <1>3, <1>4 DEF new

LEMMA ResetSound ==
  ASSUME NEW ng \in NackGenerators
  PROVE  NackReset(ng) \in NackGenerators /\ Sound(NackReset(ng))
<1>1. 0 \in Seqs /\ <<>> \in Seq(Seqs)
  BY HalfIs DEF Seqs
<1>2. NackReset(ng) \in NackGenerators /\ NackReset(ng).nackList = {}
  BY <1>1 DEF NackReset, NewNackGenerator, NackGenerators
<1>3. QED  BY <1>2, EmptyListed DEF Sound

LEMMA NewSound == NewNackGenerator \in NackGenerators /\ Sound(NewNackGenerator)
<1>1. 0 \in Seqs /\ <<>> \in Seq(Seqs)
  BY HalfIs DEF Seqs
<1>2. NewNackGenerator \in NackGenerators /\ NewNackGenerator.nackList = {}
  BY <1>1 DEF NewNackGenerator, NackGenerators
<1>3. QED  BY <1>2, EmptyListed DEF Sound

-----------------------------------------------------------------------------
(* The consumer                                                            *)

\* What a pause or a confirmed jump leaves of the buffer.
LEMMA EmptyIsIndexed == Indexed(<<>>)
BY DEF Indexed

\* What happens to a packet's consumer, and to no other field of it.
LEMMA SendNumberedKeeps ==
  ASSUME NEW c \in Consumers, Indexed(c.buf), NEW p \in Sent, pkts[p] \in Packets, p \in Nat,
         NEW seq \in Seqs
  PROVE  LET s == SendNumbered(c, p, seq)
         IN  /\ s.c \in Consumers /\ Indexed(s.c.buf)
             /\ s.c.paused = c.paused /\ s.c.connected = c.connected /\ s.c.stream = c.stream
             /\ s.c.syncRequired = c.syncRequired
             /\ DOMAIN s = {"c", "output", "synced"}
<1> DEFINE check == ReceiveStreamPacket(c.snd, seq)
           item == [seq |-> seq, ts |-> pkts[p].ts, pkt |-> p]
           kept == ClearedOnReset(c.buf, check)
           stored == IF p \in plan.large THEN kept ELSE BufferInsert(kept, item)
           buf == IF check.ok THEN stored ELSE kept
           s == SendNumbered(c, p, seq)
<1>1. item \in Items
  BY DEF Items, Packets
<1>2. c.snd \in RtpStreams /\ c.buf \in Seq(Slots)
  BY DEF Consumers, Slots
<1>3. check.rs \in RtpStreams
  BY <1>2, StreamType
<1>4. buf \in Seq(Slots) /\ Indexed(buf)
  <2>1. kept \in Seq(Slots) /\ Indexed(kept)
    BY <1>2, EmptyIsIndexed DEF ClearedOnReset
  <2> HIDE DEF kept, item
  <2>2. BufferInsert(kept, item) \in Seq(Slots) /\ Indexed(BufferInsert(kept, item))
    BY <1>1, <2>1, InsertKeeps
  <2>3. QED  BY <2>1, <2>2
<1>5. s.c = [c EXCEPT !.snd = check.rs, !.buf = buf] /\ DOMAIN s = {"c", "output", "synced"}
  BY DEF SendNumbered, StorePacket
<1> HIDE DEF check, buf, s
<1>6. /\ s.c \in Consumers /\ s.c.buf = buf
      /\ s.c.paused = c.paused /\ s.c.connected = c.connected /\ s.c.stream = c.stream
      /\ s.c.syncRequired = c.syncRequired
  BY <1>3, <1>4, <1>5 DEF Consumers, Slots
<1>7. QED  BY <1>4, <1>5, <1>6 DEF s

LEMMA SyncedKeeps ==
  ASSUME NEW c \in Consumers, Indexed(c.buf), NEW p \in Sent, pkts[p] \in Packets
  PROVE  LET d == Synced(c, p)
         IN  /\ d \in Consumers /\ Indexed(d.buf) /\ ~d.syncRequired
             /\ d.paused = c.paused /\ d.connected = c.connected /\ d.stream = c.stream
<1>1. pkts[p].seq - 1 \in Int
  BY DEF Packets, Seqs
<1>2. c.sm \in SeqManagers
  BY DEF Consumers
<1>3. Sync(c.sm, Wrap(pkts[p].seq - 1)) \in SeqManagers
  BY <1>1, <1>2, WrapIsSeq, SyncType
<1>4. QED  BY <1>3 DEF Synced, Consumers

\* SimpleConsumer::SendRtpPacket: a key frame that passes ends the wait for one.
LEMMA SendKeeps ==
  ASSUME NEW c \in Consumers, Indexed(c.buf), NEW p \in Sent, pkts[p] \in Packets, p \in Nat,
         NEW s \in SendRtpPacket(c, p)
  PROVE  /\ s.c \in Consumers /\ Indexed(s.c.buf)
         /\ s.c.paused = c.paused /\ s.c.connected = c.connected /\ s.c.stream = c.stream
         /\ s.c.syncRequired => c.syncRequired /\ ~IsKey(p)
<1>1. pkts[p].seq \in Seqs
  BY DEF Packets
<1>2. CASE pkts[p].kind = "pad"
  <2>1. PICK sm \in Drop(c.sm, pkts[p].seq) : s.c = [c EXCEPT !.sm = sm]
    BY <1>2 DEF SendRtpPacket
  <2>2. c.sm \in SeqManagers
    BY DEF Consumers
  <2>3. sm \in SeqManagers
    BY <1>1, <2>2, DropType
  <2>4. ~IsKey(p)
    BY <1>2 DEF IsKey
  <2>5. QED  BY <2>1, <2>3, <2>4 DEF Consumers
<1>3. CASE pkts[p].kind # "pad" /\ c.syncRequired /\ ~IsKey(p)
  <2>1. s.c = c
    BY <1>3 DEF SendRtpPacket
  <2>2. QED  BY <1>3, <2>1
<1>4. CASE pkts[p].kind # "pad" /\ ~(c.syncRequired /\ ~IsKey(p))
  <2> DEFINE ready == IF c.syncRequired THEN Synced(c, p) ELSE c
  <2>1. PICK in \in Input(ready.sm, pkts[p].seq) :
          s = [SendNumbered([ready EXCEPT !.sm = in.sm], p, in.output) EXCEPT !.synced = c.syncRequired]
    BY <1>4, Zenon DEF SendRtpPacket
  <2>2. /\ ready \in Consumers /\ Indexed(ready.buf) /\ ~ready.syncRequired
        /\ ready.paused = c.paused /\ ready.connected = c.connected /\ ready.stream = c.stream
    BY SyncedKeeps DEF Consumers
  <2> HIDE DEF ready
  <2>3. ready.sm \in SeqManagers
    BY <2>2 DEF Consumers
  <2>4. in.sm \in SeqManagers /\ in.output \in Seqs
    BY <1>1, <2>3, InputType
  <2> DEFINE d == [ready EXCEPT !.sm = in.sm]
  <2>5. /\ d \in Consumers /\ Indexed(d.buf) /\ ~d.syncRequired
        /\ d.paused = c.paused /\ d.connected = c.connected /\ d.stream = c.stream
    BY <2>2, <2>4 DEF Consumers
  <2> HIDE DEF d
  <2> DEFINE t == SendNumbered(d, p, in.output)
  <2>6. /\ t.c \in Consumers /\ Indexed(t.c.buf)
        /\ t.c.paused = d.paused /\ t.c.connected = d.connected /\ t.c.stream = d.stream
        /\ t.c.syncRequired = d.syncRequired
        /\ DOMAIN t = {"c", "output", "synced"}
    BY <2>4, <2>5, SendNumberedKeeps
  <2>7. s = [t EXCEPT !.synced = c.syncRequired]
    BY <2>1 DEF d
  <2> HIDE DEF t
  <2>8. s.c = t.c
    BY <2>7
  <2>9. QED  BY <2>5, <2>6, <2>8
<1>5. QED  BY <1>2, <1>3, <1>4

-----------------------------------------------------------------------------
(* What the properties remember                                            *)

\* The history has the fields gaveUp and outs, the only ones the proofs look at.
Remembers(h) == {"gaveUp", "outs"} \subseteq DOMAIN h /\ h.gaveUp \in BOOLEAN

LEMMA NotedKeeps ==
  ASSUME NEW h, Remembers(h), NEW p, NEW viaRtx, NEW r
  PROVE  /\ Remembers(Noted(h, p, viaRtx, r))
         /\ Noted(h, p, viaRtx, r).gaveUp = (h.gaveUp /\ ~((~viaRtx \/ r.found) /\ IsKey(p)))
         /\ Noted(h, p, viaRtx, r).outs = h.outs
<1> DEFINE passed == ~viaRtx \/ r.found
           moved == recv.ng.started /\ r.ng.lastSeq # recv.ng.lastSeq
           gap == Wrap(pkts[p].seq - recv.ng.lastSeq - 1)
           skipped == {q \in Sent : /\ moved /\ q \notin h.burnt
                                    /\ \E i \in DOMAIN recv.ng.recoveredList :
                                          recv.ng.recoveredList[i] = pkts[q].seq}
           got == Recent(IF passed THEN h.got \cup {p} ELSE h.got)
           burnt == Recent(IF passed THEN h.burnt ELSE h.burnt \cup {p})
           over == Recent(h.skipped \cup skipped)
           top == IF r.ng.lastSeq = pkts[p].seq THEN p ELSE h.newest
           gave == h.gaveUp /\ ~(passed /\ IsKey(p))
           first == IF recv.ng.started THEN h.first ELSE p
           full == IF moved /\ Cardinality(recv.ng.nackList) + gap > MaxNackPackets THEN p ELSE h.full
<1>1. Noted(h, p, viaRtx, r) =
        [h EXCEPT !.got = got, !.burnt = burnt, !.skipped = over, !.newest = top, !.gaveUp = gave,
                  !.first = first, !.full = full]
  BY Zenon DEF Noted
<1>2. gave \in BOOLEAN /\ gave = (h.gaveUp /\ ~((~viaRtx \/ r.found) /\ IsKey(p)))
  OBVIOUS
<1> HIDE DEF got, burnt, over, top, gave, first, full
<1>3. /\ Remembers(Noted(h, p, viaRtx, r)) /\ Noted(h, p, viaRtx, r).gaveUp = gave
      /\ Noted(h, p, viaRtx, r).outs = h.outs
  BY <1>1, <1>2 DEF Remembers
<1>4. QED  BY <1>2, <1>3, Zenon

LEMMA AskedKeeps ==
  ASSUME NEW h, Remembers(h), NEW asked
  PROVE  /\ Remembers(Asked(h, asked))
         /\ Asked(h, asked).gaveUp = h.gaveUp /\ Asked(h, asked).outs = h.outs
<1> DEFINE ps == {p \in Sent : /\ pkts[p].seq \in asked
                               /\ \A q \in Sent : q > p => pkts[q].seq # pkts[p].seq}
           old == Recent(DOMAIN h.asks)
           asks == [p \in old \cup ps |->
                      (IF p \in old THEN h.asks[p] ELSE 0) + (IF p \in ps THEN 1 ELSE 0)]
<1>1. Asked(h, asked) = [h EXCEPT !.asks = asks]
  BY Zenon DEF Asked
<1> HIDE DEF asks
<1>2. QED  BY <1>1 DEF Remembers

LEMMA ForwardedKeeps ==
  ASSUME NEW h, Remembers(h), NEW p, NEW s
  PROVE  /\ Remembers(Forwarded(h, p, s)) /\ Forwarded(h, p, s).gaveUp = h.gaveUp
         /\ \A o \in h.outs : o.pkt >= newest - Half => o \in Forwarded(h, p, s).outs
         /\ pkts[p].kind # "pad" /\ s.output # NotSent =>
               \E o \in Forwarded(h, p, s).outs : o.pkt = p /\ o.out = s.output
<1> DEFINE num == pkts[p].num
           anchor == [nth |-> h.anchor.nth + 1, num |-> num]
           start == IF s.synced THEN [h EXCEPT !.anchor = anchor, !.top = num - 1] ELSE h
           top == IF num > start.top THEN num ELSE start.top
           drops == {d \in start.drops : d.num > num - SeqMod}
           seen == [start EXCEPT !.top = top, !.drops = drops]
           more == IF num > h.top THEN seen.drops \cup {[num |-> num, epoch |-> h.anchor]} ELSE seen.drops
           last == [pkt |-> p, out |-> s.output]
           own == [pkt |-> p, num |-> num, out |-> s.output, epoch |-> seen.anchor]
           outs == {o \in seen.outs : o.pkt >= newest - Half} \cup {own}
<1>1. Remembers(start) /\ start.gaveUp = h.gaveUp /\ start.outs = h.outs
  <2>1. start = h \/ start = [h EXCEPT !.anchor = anchor, !.top = num - 1]
    OBVIOUS
  <2> HIDE DEF anchor, num, start
  <2>2. QED  BY <2>1 DEF Remembers
<1>2. Remembers(seen) /\ seen.gaveUp = h.gaveUp /\ seen.outs = h.outs
  <2> HIDE DEF start, top, drops
  <2>1. QED  BY <1>1 DEF Remembers
<1>3. Forwarded(h, p, s) = IF pkts[p].kind = "pad" THEN [seen EXCEPT !.drops = more]
                           ELSE IF s.output = NotSent THEN seen
                           ELSE [seen EXCEPT !.last = last, !.outs = outs]
  BY Zenon DEF Forwarded
<1> HIDE DEF seen, more, last
<1>4. own.pkt = p /\ own.out = s.output
  OBVIOUS
<1> HIDE DEF own
<1>5. own \in outs /\ \A o \in seen.outs : o.pkt >= newest - Half => o \in outs
  OBVIOUS
<1> HIDE DEF outs
<1>6. \/ Forwarded(h, p, s) = [seen EXCEPT !.drops = more]
      \/ Forwarded(h, p, s) = seen
      \/ Forwarded(h, p, s) = [seen EXCEPT !.last = last, !.outs = outs]
  BY <1>3
<1>7. pkts[p].kind # "pad" /\ s.output # NotSent => Forwarded(h, p, s) = [seen EXCEPT !.last = last, !.outs = outs]
  BY <1>3
<1>8. QED  BY <1>2, <1>4, <1>5, <1>6, <1>7 DEF Remembers

-----------------------------------------------------------------------------
(* The invariant                                                           *)

NetOK ==
  /\ newest \in Nat /\ plan \in Plans /\ shift \in Int
  /\ Sent \subseteq 1 .. newest
  /\ \A p \in Sent : pkts[p] \in Packets
  /\ late \subseteq Sent

\* The producer's side.
RecvOK == recv.rs \in RtpStreams /\ recv.ng \in NackGenerators /\ Sound(recv.ng)
          /\ recv = [rs |-> recv.rs, ng |-> recv.ng]

ConsOK == cons \in Consumers /\ Indexed(cons.buf)

\* A consumer that waits for a key frame is served; one that has its stream
\* was told of it by a packet that started the producer's.
Served(c, pausedNow, k, gaveUp) ==
  IsActive(c, pausedNow) /\ c.syncRequired => k.pending # "none" \/ k.delayer = "wanted" \/ gaveUp

WaitOK ==
  /\ kf \in KeyFrameStates
  /\ Remembers(hist)
  /\ cons.stream => recv.rs.started
  /\ Served(cons, paused, kf, hist.gaveUp)

LineOK == pli \in BOOLEAN /\ paused \in BOOLEAN /\ faults \in 0 .. plan.faults

Inv == NetOK /\ RecvOK /\ ConsOK /\ WaitOK /\ LineOK

LEMMA InvIsTyped == Inv => TypeOK
BY DEF Inv, NetOK, RecvOK, ConsOK, WaitOK, LineOK, TypeOK

LEMMA PlanIs == plan \in Plans => plan.packets \in Nat /\ plan.faults \in Nat
BY MediaAssumption

LEMMA PliKeeps ==
  ASSUME LineOK, plan \in Plans, NEW sent, NEW cost \in {0, 1}, Pli(sent, cost)
  PROVE  pli' \in BOOLEAN /\ faults' \in 0 .. plan.faults
<1>1. plan.faults \in Nat
  BY PlanIs
<1>2. pli' \in BOOLEAN
  BY DEF Pli
<1>3. faults \in Nat
  BY <1>1 DEF LineOK
<1>4. faults' \in Nat /\ faults' <= plan.faults
  BY <1>3 DEF Pli
<1>5. QED  BY <1>1, <1>2, <1>4

LEMMA FaultKeeps ==
  ASSUME LineOK, plan \in Plans, Fault
  PROVE  faults' \in 0 .. plan.faults
BY PlanIs DEF LineOK, Fault

-----------------------------------------------------------------------------
(* The steps: the publisher and the network                                *)

LEMMA SendKeepsInv ==
  ASSUME Inv, Send
  PROVE  Inv'
<1> DEFINE i == newest + 1
           num == FirstSeq + shift + i
           ts == Ts!Wrap(FirstTs + i \div 2)
<1>1. /\ newest' = i /\ plan' = plan /\ shift' = shift
      /\ UNCHANGED <<paused, recv, kf, cons, hist>>
      /\ late' = {p \in late : p > i - MaxDelay} \cup {i}
      /\ IF i - 1 \in late THEN Fault ELSE UNCHANGED faults
  BY DEF Send
<1>2. PICK kind \in Kinds(i) :
        /\ pkts' = [p \in Recent(Sent) \cup {i} |->
                      IF p < i THEN pkts[p]
                      ELSE [num |-> num, seq |-> Wrap(num), ts |-> ts, kind |-> kind]]
        /\ pli' = (pli /\ kind # "key")
  BY DEF Send
<1>3. newest \in Nat /\ i \in Nat /\ num \in Int /\ MaxDelay \in Int /\ MaxDelay <= Half /\ Half \in Nat
  BY MediaAssumption, HalfIs DEF Inv, NetOK
<1>4. Wrap(num) \in Seqs /\ ts \in Ts!Seqs
  <2>1. Wrap(num) \in Seqs
    BY <1>3, WrapIsSeq
  <2>2. FirstTs + i \div 2 \in Int
    BY <1>3, MediaAssumption
  <2>3. ts \in Ts!Seqs
    BY <2>2, BufferAssumption DEF Ts!Wrap, Ts!Seqs
  <2>4. QED  BY <2>1, <2>3
<1>5. kind \in {"key", "delta", "pad"}
  BY DEF Kinds
<1> DEFINE new == [num |-> num, seq |-> Wrap(num), ts |-> ts, kind |-> kind]
<1>6. new \in Packets
  BY <1>3, <1>4, <1>5 DEF Packets
<1> HIDE DEF num, ts, new
<1>7. Sent' = Recent(Sent) \cup {i}
  BY <1>2 DEF Sent
<1>8. Recent(Sent) \subseteq Sent /\ Sent \subseteq 1 .. newest
  BY DEF Recent, Inv, NetOK
<1>9. \A p \in Sent' : pkts'[p] \in Packets
  <2>1. ASSUME NEW p \in Sent'  PROVE pkts'[p] \in Packets
    <3>1. pkts'[p] = IF p < i THEN pkts[p] ELSE new
      BY <1>2, <1>7, <2>1 DEF new
    <3>2. p \in Sent \/ p = i
      BY <1>7, <1>8
    <3>3. p \in Sent => pkts[p] \in Packets
      BY DEF Inv, NetOK
    <3>4. p = i => ~(p < i)
      BY <1>3
    <3>5. QED  BY <1>6, <3>1, <3>2, <3>3, <3>4
  <2>2. QED  BY <2>1
<1>10. late' \subseteq Sent'
  <2>1. ASSUME NEW p \in late, p > i - MaxDelay  PROVE p \in Recent(Sent)
    <3>1. p \in Sent /\ p \in Nat
      BY <1>8 DEF Inv, NetOK
    <3>2. p >= newest - Half
      BY <1>3, <2>1, <3>1
    <3>3. QED  BY <3>1, <3>2 DEF Recent
  <2>2. QED  BY <1>1, <1>7, <2>1
<1>11. Sent' \subseteq 1 .. newest'
  <2>1. ASSUME NEW p \in Sent'  PROVE p \in 1 .. i
    <3>1. p \in 1 .. newest \/ p = i
      BY <1>7, <1>8
    <3>2. QED  BY <1>3, <3>1
  <2>2. QED  BY <1>1, <2>1
<1>12. NetOK'
  BY <1>1, <1>3, <1>9, <1>10, <1>11 DEF Inv, NetOK
<1>13. LineOK'
  <2>1. faults' \in 0 .. plan.faults
    BY <1>1, FaultKeeps DEF Inv, NetOK, LineOK
  <2>2. pli' \in BOOLEAN
    BY <1>2
  <2>3. QED  BY <1>1, <2>1, <2>2 DEF Inv, LineOK
<1>14. RecvOK' /\ ConsOK' /\ WaitOK'
  BY <1>1 DEF Inv, RecvOK, ConsOK, WaitOK, Served, IsActive
<1>15. QED  BY <1>12, <1>13, <1>14 DEF Inv

LEMMA RestartKeepsInv ==
  ASSUME Inv, Restart
  PROVE  Inv'
<1>1. UNCHANGED <<newest, pkts, plan, late, pli, paused, recv, kf, cons, hist>> /\ Fault
  BY DEF Restart
<1>2. shift' \in Int
  BY MediaAssumption DEF Restart, Inv, NetOK
<1>3. faults' \in 0 .. plan.faults
  BY <1>1, FaultKeeps DEF Inv, NetOK
<1>4. NetOK'
  BY <1>1, <1>2 DEF Inv, NetOK, Sent
<1>5. RecvOK' /\ ConsOK' /\ WaitOK' /\ LineOK'
  BY <1>1, <1>3 DEF Inv, RecvOK, ConsOK, WaitOK, Served, IsActive, LineOK
<1>6. QED  BY <1>4, <1>5 DEF Inv

-----------------------------------------------------------------------------
(* The steps: the producer                                                 *)

\* A packet the stream finds valid.
LEMMA AcceptedKeeps ==
  ASSUME Inv, NEW p \in Sent, NEW viaRtx, viaRtx => recv.rs.started,
         NEW rs \in RtpStreams, rs.started,
         NEW r \in NackReceivePacket(recv.ng, pkts[p].seq, IsKey(p), viaRtx),
         NEW cost \in {0, 1}, Accepted(p, viaRtx, rs, r, cost),
         paused' = paused, plan' = plan
  PROVE  RecvOK' /\ ConsOK' /\ WaitOK' /\ LineOK'
<1> DEFINE passed == ~viaRtx \/ r.found
           isNew == ~recv.rs.started
           received == IF passed /\ IsKey(p) THEN KeyFrameReceived(kf) ELSE kf
           forced == isNew /\ ~paused /\ ~IsKey(p)
           c == IF isNew THEN [cons EXCEPT !.stream = TRUE] ELSE cons
           noted == Asked(Noted(hist, p, viaRtx, r), r.asked)
<1>1. /\ recv' = [rs |-> rs, ng |-> r.ng]
      /\ kf' = IF forced THEN ForceKeyFrameNeeded(received).kf ELSE received
      /\ Pli(r.needKey \/ forced, cost)
      /\ IF passed /\ IsActive(c, paused)
         THEN \E s \in SendRtpPacket(c, p) : cons' = s.c /\ hist' = Forwarded(noted, p, s)
         ELSE cons' = c /\ hist' = noted
  BY Zenon DEF Accepted
<1>2. pkts[p] \in Packets /\ pkts[p].seq \in Seqs /\ p \in Nat
  <2>1. pkts[p] \in Packets /\ p \in 1 .. newest /\ newest \in Nat
    BY DEF Inv, NetOK
  <2>2. QED  BY <2>1 DEF Packets
<1>3. r.ng \in NackGenerators /\ Sound(r.ng)
  BY <1>2, ReceiveSound DEF Inv, RecvOK
<1>4. RecvOK'
  BY <1>1, <1>3 DEF RecvOK
<1>5. LineOK'
  <2>1. pli' \in BOOLEAN /\ faults' \in 0 .. plan.faults
    BY <1>1, PliKeeps DEF Inv, NetOK
  <2>2. QED  BY <2>1 DEF LineOK, Inv
<1>6. Remembers(noted) /\ noted.gaveUp = (hist.gaveUp /\ ~(passed /\ IsKey(p)))
  <2> DEFINE h == Noted(hist, p, viaRtx, r)
  <2>1. Remembers(h) /\ h.gaveUp = (hist.gaveUp /\ ~(passed /\ IsKey(p)))
    BY NotedKeeps DEF Inv, WaitOK
  <2> HIDE DEF h
  <2>2. Remembers(Asked(h, r.asked)) /\ Asked(h, r.asked).gaveUp = h.gaveUp
    BY <2>1, AskedKeeps
  <2>3. noted = Asked(h, r.asked)
    BY DEF h
  <2> HIDE DEF noted
  <2>4. QED  BY <2>1, <2>2, <2>3, Zenon
<1> HIDE DEF noted
<1>7. /\ c \in Consumers /\ Indexed(c.buf)
      /\ c.paused = cons.paused /\ c.connected = cons.connected /\ c.syncRequired = cons.syncRequired
      /\ c.stream = (isNew \/ cons.stream)
  BY DEF Inv, ConsOK, Consumers
<1> HIDE DEF c
<1>8. /\ ConsOK' /\ Remembers(hist') /\ hist'.gaveUp = noted.gaveUp
      /\ cons'.paused = c.paused /\ cons'.connected = c.connected /\ cons'.stream = c.stream
      /\ cons'.syncRequired => c.syncRequired
      /\ passed /\ IsActive(c, paused) /\ cons'.syncRequired => ~IsKey(p)
  <2>1. CASE passed /\ IsActive(c, paused)
    <3>1. PICK s \in SendRtpPacket(c, p) : cons' = s.c /\ hist' = Forwarded(noted, p, s)
      BY <1>1, <2>1
    <3>2. Remembers(hist') /\ hist'.gaveUp = noted.gaveUp
      BY <1>6, <3>1, ForwardedKeeps
    <3>3. /\ s.c \in Consumers /\ Indexed(s.c.buf)
          /\ s.c.paused = c.paused /\ s.c.connected = c.connected /\ s.c.stream = c.stream
          /\ s.c.syncRequired => c.syncRequired /\ ~IsKey(p)
      BY <1>2, <1>7, SendKeeps
    <3>4. QED  BY <3>1, <3>2, <3>3 DEF ConsOK
  <2>2. CASE ~(passed /\ IsActive(c, paused))
    <3>1. cons' = c /\ hist' = noted
      BY <1>1, <2>2
    <3>2. QED  BY <1>6, <1>7, <2>2, <3>1 DEF ConsOK
  <2>3. QED  BY <2>1, <2>2
<1>9. received \in KeyFrameStates /\ kf' \in KeyFrameStates
      /\ (forced => kf'.pending = "retry") /\ (~forced => kf' = received)
  <2>1. received \in KeyFrameStates
    BY KeyFrameType DEF Inv, WaitOK
  <2> HIDE DEF received
  <2>2. ForceKeyFrameNeeded(received).kf \in KeyFrameStates
        /\ ForceKeyFrameNeeded(received).kf.pending = "retry"
    BY <2>1, KeyFrameType DEF ForceKeyFrameNeeded
  <2>3. QED  BY <1>1, <2>1, <2>2
<1>10. Served(cons', paused, kf', hist'.gaveUp)
  <2>1. SUFFICES ASSUME IsActive(cons', paused), cons'.syncRequired
                 PROVE  kf'.pending # "none" \/ kf'.delayer = "wanted" \/ hist'.gaveUp
    BY DEF Served
  <2>2. IsActive(c, paused) /\ c.syncRequired /\ ~paused
    BY <1>8, <2>1 DEF IsActive
  <2>3. ~(passed /\ IsKey(p))
    BY <1>8, <2>1, <2>2
  <2>4. received = kf /\ hist'.gaveUp = hist.gaveUp
    BY <1>6, <1>8, <2>3 DEF Inv, WaitOK, Remembers
  <2>5. CASE isNew
    <3>1. passed
      BY <2>5
    <3>2. forced
      BY <2>2, <2>3, <2>5, <3>1
    <3>3. QED  BY <1>9, <3>2
  <2>6. CASE ~isNew
    <3>1. IsActive(cons, paused) /\ cons.syncRequired
      BY <1>7, <2>2, <2>6 DEF IsActive
    <3>2. kf.pending # "none" \/ kf.delayer = "wanted" \/ hist.gaveUp
      BY <3>1 DEF Inv, WaitOK, Served
    <3>3. kf' = kf
      BY <1>9, <2>4, <2>6
    <3>4. QED  BY <2>4, <3>2, <3>3
  <2>7. QED  BY <2>5, <2>6
<1>11. cons'.stream => recv'.rs.started
  BY <1>1
<1>12. WaitOK'
  BY <1>8, <1>9, <1>10, <1>11 DEF WaitOK
<1>13. QED  BY <1>4, <1>5, <1>8, <1>12

\* Producer::ReceiveRtpPacket.
LEMMA ReceiveKeeps ==
  ASSUME Inv, NEW p \in Sent, NEW viaRtx \in BOOLEAN, NEW cost \in {0, 1},
         faults + cost <= plan.faults, ReceiveRtpPacket(p, viaRtx, cost),
         late' \subseteq Sent
  PROVE  Inv'
<1> DEFINE check == IF viaRtx THEN UpdateSeq(recv.rs, pkts[p].seq)
                              ELSE ReceiveStreamPacket(recv.rs, pkts[p].seq)
<1>1. /\ viaRtx => recv.rs.started
      /\ IF check.ok
         THEN \E r \in NackReceivePacket(recv.ng, pkts[p].seq, IsKey(p), viaRtx) :
                  Accepted(p, viaRtx, check.rs, r, cost)
         ELSE /\ recv' = [recv EXCEPT !.rs = check.rs]
              /\ faults' = faults + cost
              /\ UNCHANGED <<pli, kf, cons, hist>>
      /\ UNCHANGED <<newest, pkts, plan, shift, paused>>
  BY Zenon DEF ReceiveRtpPacket
<1>2. pkts[p].seq \in Seqs
  BY DEF Inv, NetOK, Packets
<1>3. check.rs \in RtpStreams /\ check.rs.started
  BY <1>1, <1>2, StreamType DEF Inv, RecvOK
<1> HIDE DEF check
<1>4. NetOK'
  BY <1>1 DEF Inv, NetOK, Sent
<1>5. CASE check.ok
  <2>1. PICK r \in NackReceivePacket(recv.ng, pkts[p].seq, IsKey(p), viaRtx) :
          Accepted(p, viaRtx, check.rs, r, cost)
    BY <1>1, <1>5
  <2>2. RecvOK' /\ ConsOK' /\ WaitOK' /\ LineOK'
    BY <1>1, <1>3, <2>1, AcceptedKeeps
  <2>3. QED  BY <1>4, <2>2 DEF Inv
<1>6. CASE ~check.ok
  <2>1. /\ recv' = [recv EXCEPT !.rs = check.rs] /\ faults' = faults + cost
        /\ UNCHANGED <<pli, kf, cons, hist, plan, paused>>
    BY <1>1, <1>6
  <2>2. recv' = [rs |-> check.rs, ng |-> recv.ng]
    <3>1. recv = [rs |-> recv.rs, ng |-> recv.ng]
      BY DEF Inv, RecvOK
    <3>2. QED  BY <2>1, <3>1
  <2>3. RecvOK' /\ recv'.rs.started
    BY <1>3, <2>2 DEF Inv, RecvOK
  <2>4. ConsOK' /\ WaitOK'
    BY <2>1, <2>3 DEF Inv, ConsOK, WaitOK, Served, IsActive
  <2>5. LineOK'
    BY <2>1, PlanIs DEF Inv, NetOK, LineOK
  <2>6. QED  BY <1>4, <2>3, <2>4, <2>5 DEF Inv
<1>7. QED  BY <1>5, <1>6

LEMMA ArriveKeepsInv ==
  ASSUME Inv, Arrive
  PROVE  Inv'
<1>1. PICK p \in late, viaRtx \in BOOLEAN :
        late' = late \ {p} /\ ReceiveRtpPacket(p, viaRtx, 0)
  <2>1. PICK p \in late : \E viaRtx \in {FALSE} \cup {p < newest} :
          late' = late \ {p} /\ ReceiveRtpPacket(p, viaRtx, 0)
    BY Zenon DEF Arrive
  <2>2. PICK viaRtx \in {FALSE} \cup {p < newest} :
          late' = late \ {p} /\ ReceiveRtpPacket(p, viaRtx, 0)
    BY <2>1
  <2>3. viaRtx \in BOOLEAN
    <3>1. (p < newest) \in BOOLEAN
      OBVIOUS
    <3> DEFINE x == p < newest
    <3> HIDE DEF x
    <3>2. QED  BY <2>2, <3>1
  <2>4. QED  BY <2>2, <2>3
<1>2. p \in Sent /\ viaRtx \in BOOLEAN /\ late' \subseteq Sent
  BY <1>1 DEF Inv, NetOK
<1>3. faults + 0 <= plan.faults
  BY PlanIs DEF Inv, NetOK, LineOK
<1>4. QED  BY <1>1, <1>2, <1>3, ReceiveKeeps

LEMMA ArriveAgainKeepsInv ==
  ASSUME Inv, ArriveAgain
  PROVE  Inv'
<1>1. PICK p \in Recent(Sent) \ late, viaRtx \in BOOLEAN :
        faults < plan.faults /\ late' = late /\ ReceiveRtpPacket(p, viaRtx, 1)
  BY DEF ArriveAgain
<1>2. p \in Sent /\ late' \subseteq Sent
  BY <1>1 DEF Inv, NetOK, Recent
<1>3. faults + 1 <= plan.faults
  BY <1>1, PlanIs DEF Inv, NetOK, LineOK
<1>4. QED  BY <1>1, <1>2, <1>3, ReceiveKeeps


-----------------------------------------------------------------------------
(* The steps: timers, pauses and requests                                  *)

LEMMA NackTimerKeepsInv ==
  ASSUME Inv, NEW due \in TimeBatches(recv.ng), NackTimer(due)
  PROVE  Inv'
<1> DEFINE r == NackOnTimer(recv.ng, due)
<1>1. /\ recv' = [recv EXCEPT !.ng = r.ng] /\ hist' = Asked(hist, r.asked)
      /\ UNCHANGED <<newest, pkts, plan, shift, late, pli, faults, paused, kf, cons>>
  BY Zenon DEF NackTimer
<1>2. r.ng \in NackGenerators /\ Sound(r.ng)
  BY TimerSound DEF Inv, RecvOK
<1> HIDE DEF r
<1>3. recv' = [rs |-> recv.rs, ng |-> r.ng]
  <2>1. recv = [rs |-> recv.rs, ng |-> recv.ng]
    BY DEF Inv, RecvOK
  <2>2. QED  BY <1>1, <2>1
<1>4. RecvOK'
  BY <1>2, <1>3 DEF Inv, RecvOK
<1>5. Remembers(hist') /\ hist'.gaveUp = hist.gaveUp
  BY <1>1, AskedKeeps DEF Inv, WaitOK
<1>6. WaitOK'
  BY <1>1, <1>3, <1>5 DEF Inv, WaitOK, Served, IsActive
<1>7. NetOK' /\ ConsOK' /\ LineOK'
  BY <1>1 DEF Inv, NetOK, Sent, ConsOK, LineOK
<1>8. QED  BY <1>4, <1>6, <1>7 DEF Inv

LEMMA ProducerPauseKeepsInv ==
  ASSUME Inv, ProducerPause
  PROVE  Inv'
<1> DEFINE ng == IF recv.rs.started THEN NackReset(recv.ng) ELSE recv.ng
<1>1. /\ paused' = TRUE /\ Fault
      /\ recv' = [recv EXCEPT !.ng = ng]
      /\ cons' = cons \/ cons' = [cons EXCEPT !.buf = <<>>]
      /\ \E l : hist' = [hist EXCEPT !.last = l]
      /\ UNCHANGED <<newest, pkts, plan, shift, late, pli, kf>>
  BY DEF ProducerPause, StreamPaused
<1>2. ng \in NackGenerators /\ Sound(ng)
  BY ResetSound DEF Inv, RecvOK
<1> HIDE DEF ng
<1>3. recv' = [rs |-> recv.rs, ng |-> ng]
  <2>1. recv = [rs |-> recv.rs, ng |-> recv.ng]
    BY DEF Inv, RecvOK
  <2>2. QED  BY <1>1, <2>1
<1>4. RecvOK'
  BY <1>2, <1>3 DEF Inv, RecvOK
<1>5. ConsOK' /\ cons'.stream = cons.stream
  <2>1. <<>> \in Seq(Items \cup {Blank}) /\ Indexed(<<>>)
    BY EmptyIsIndexed
  <2>2. CASE cons' = cons
    BY <2>2 DEF Inv, ConsOK
  <2>3. CASE cons' = [cons EXCEPT !.buf = <<>>]
    <3>1. cons' \in Consumers /\ cons'.buf = <<>> /\ cons'.stream = cons.stream
      BY <2>1, <2>3 DEF Inv, ConsOK, Consumers
    <3>2. QED  BY <2>1, <3>1 DEF ConsOK
  <2>4. QED  BY <1>1, <2>2, <2>3
<1>6. Remembers(hist')
  BY <1>1 DEF Inv, WaitOK, Remembers
<1>7. WaitOK'
  BY <1>1, <1>3, <1>5, <1>6 DEF Inv, WaitOK, Served, IsActive
<1>8. LineOK'
  BY <1>1, FaultKeeps DEF Inv, NetOK, LineOK
<1>9. NetOK'
  BY <1>1 DEF Inv, NetOK, Sent
<1>10. QED  BY <1>4, <1>5, <1>7, <1>8, <1>9 DEF Inv

\* What a request leaves behind: it waits for its key frame, or the delay does.
LEMMA NeededServes ==
  ASSUME NEW k \in KeyFrameStates
  PROVE  /\ KeyFrameNeeded(k).kf.pending # "none" \/ KeyFrameNeeded(k).kf.delayer = "wanted"
         /\ KeyFrameNeeded(k).kf.pending = "none" =>
               k.pending = "none" /\ KeyFrameNeeded(k).kf.delayer = "wanted"
BY DEF KeyFrameNeeded, KeyFrameStates

LEMMA ProducerResumeKeepsInv ==
  ASSUME Inv, ProducerResume
  PROVE  Inv'
<1> DEFINE resumed == IsActive(cons, FALSE)
           asked == IF resumed THEN KeyFrameNeeded(kf) ELSE [kf |-> kf, sent |-> FALSE]
<1>1. /\ paused' = FALSE
      /\ cons' = [cons EXCEPT !.syncRequired = @ \/ resumed]
      /\ kf' = IF recv.rs.started THEN ForceKeyFrameNeeded(asked.kf).kf ELSE asked.kf
      /\ Pli(recv.rs.started, 0)
      /\ hist' = [hist EXCEPT !.gaveUp = FALSE]
      /\ UNCHANGED <<newest, pkts, plan, shift, late, recv>>
  BY Zenon DEF ProducerResume
<1>2. NetOK' /\ RecvOK'
  BY <1>1 DEF Inv, NetOK, Sent, RecvOK
<1>3. recv.rs.started \in BOOLEAN /\ resumed \in BOOLEAN
  BY DEF Inv, RecvOK, ConsOK, RtpStreams, Consumers, IsActive
<1>4. LineOK'
  <2>1. pli' \in BOOLEAN /\ faults' \in 0 .. plan.faults
    BY <1>1, PliKeeps DEF Inv, NetOK
  <2>2. QED  BY <1>1, <2>1 DEF LineOK
<1>5. asked.kf \in KeyFrameStates
  BY KeyFrameType DEF Inv, WaitOK
<1> HIDE DEF resumed, asked
<1>6. kf' \in KeyFrameStates /\ (recv.rs.started => kf'.pending = "retry")
  <2>1. ForceKeyFrameNeeded(asked.kf).kf \in KeyFrameStates
    BY <1>5, KeyFrameType
  <2>2. ForceKeyFrameNeeded(asked.kf).kf.pending = "retry"
    BY DEF ForceKeyFrameNeeded
  <2>3. QED  BY <1>1, <1>5, <2>1, <2>2
<1>7. ConsOK' /\ cons'.stream = cons.stream
  BY <1>1, <1>3 DEF Inv, ConsOK, Consumers
<1>8. Remembers(hist')
  BY <1>1 DEF Inv, WaitOK, Remembers
<1>9. Served(cons', paused', kf', hist'.gaveUp)
  BY <1>6, <1>7 DEF Inv, WaitOK, Served, IsActive
<1>10. WaitOK'
  BY <1>1, <1>6, <1>7, <1>8, <1>9 DEF Inv, WaitOK
<1>11. QED  BY <1>2, <1>4, <1>7, <1>10 DEF Inv

\* A consumer asks for a key frame when it becomes active.
LEMMA RequestKeeps ==
  ASSUME Inv, NEW c, RequestKeyFrame(c), cons' = c,
         c \in Consumers, Indexed(c.buf), c.stream = cons.stream,
         UNCHANGED <<newest, pkts, plan, shift, late, paused, recv>>
  PROVE  Inv'
<1> DEFINE active == IsActive(c, paused)
           r == IF active THEN KeyFrameNeeded(kf) ELSE [kf |-> kf, sent |-> FALSE]
<1>1. /\ kf' = r.kf /\ Pli(r.sent, 0)
      /\ hist' = [hist EXCEPT !.gaveUp = @ /\ kf'.pending = "none"]
  BY Zenon DEF RequestKeyFrame
<1>2. NetOK' /\ RecvOK' /\ ConsOK'
  BY DEF Inv, NetOK, Sent, RecvOK, ConsOK
<1>3. LineOK'
  <2>1. pli' \in BOOLEAN /\ faults' \in 0 .. plan.faults
    BY <1>1, PliKeeps DEF Inv, NetOK
  <2>2. QED  BY <2>1 DEF Inv, LineOK
<1>4. kf' \in KeyFrameStates
  BY <1>1, KeyFrameType DEF Inv, WaitOK
<1>5. Remembers(hist')
  BY <1>1 DEF Inv, WaitOK, Remembers
<1>6. Served(c, paused, kf', hist'.gaveUp)
  <2>1. active => kf'.pending # "none" \/ kf'.delayer = "wanted"
    BY <1>1, NeededServes DEF Inv, WaitOK
  <2>2. QED  BY <2>1 DEF Served
<1>7. WaitOK'
  BY <1>4, <1>5, <1>6 DEF Inv, WaitOK
<1>8. QED  BY <1>2, <1>3, <1>7 DEF Inv

LEMMA ConsumerResumeKeepsInv ==
  ASSUME Inv, ConsumerResume
  PROVE  Inv'
<1> DEFINE c == [cons EXCEPT !.paused = FALSE]
           active == IsActive(c, paused)
           synced == [c EXCEPT !.syncRequired = @ \/ active]
<1>1. cons' = synced /\ RequestKeyFrame(synced) /\ UNCHANGED <<newest, pkts, plan, shift, late, paused, recv>>
  BY Zenon DEF ConsumerResume
<1>2. active \in BOOLEAN
  BY DEF IsActive, Inv, LineOK, ConsOK, Consumers
<1> HIDE DEF active
<1>3. synced \in Consumers /\ Indexed(synced.buf) /\ synced.stream = cons.stream
  BY <1>2 DEF Inv, ConsOK, Consumers
<1> HIDE DEF synced
<1>4. QED  BY <1>1, <1>3, RequestKeeps

LEMMA TransportConnectedKeepsInv ==
  ASSUME Inv, TransportConnected
  PROVE  Inv'
<1> DEFINE c == [cons EXCEPT !.connected = TRUE, !.syncRequired = TRUE]
<1>1. cons' = c /\ RequestKeyFrame(c) /\ UNCHANGED <<newest, pkts, plan, shift, late, paused, recv>>
  BY Zenon DEF TransportConnected
<1>2. c \in Consumers /\ Indexed(c.buf) /\ c.stream = cons.stream
  BY DEF Inv, ConsOK, Consumers
<1> HIDE DEF c
<1>3. QED  BY <1>1, <1>2, RequestKeeps

\* A consumer that stops waits for nothing.
LEMMA StopKeeps ==
  ASSUME Inv, NEW c \in Consumers, Stop(c), c.stream = cons.stream,
         c.buf = cons.buf \/ c.buf = <<>>, c.paused \/ ~c.connected
  PROVE  Inv'
<1>1. /\ Fault /\ cons' = c
      /\ \E l : hist' = [hist EXCEPT !.last = l]
      /\ UNCHANGED <<newest, pkts, plan, shift, late, pli, paused, recv, kf>>
  BY DEF Stop
<1>2. NetOK' /\ RecvOK'
  BY <1>1 DEF Inv, NetOK, Sent, RecvOK
<1>3. ConsOK'
  BY <1>1, EmptyIsIndexed DEF Inv, ConsOK
<1>4. LineOK'
  BY <1>1, FaultKeeps DEF Inv, NetOK, LineOK
<1>5. Remembers(hist')
  BY <1>1 DEF Inv, WaitOK, Remembers
<1>6. WaitOK'
  BY <1>1, <1>5 DEF Inv, WaitOK, Served, IsActive
<1>7. QED  BY <1>2, <1>3, <1>4, <1>6 DEF Inv

LEMMA ConsumerPauseKeepsInv ==
  ASSUME Inv, ConsumerPause
  PROVE  Inv'
<1> DEFINE c == [cons EXCEPT !.paused = TRUE]
           d == IF IsActive(cons, paused) THEN StreamPaused(c) ELSE c
<1>1. Stop(d)
  BY Zenon DEF ConsumerPause
<1>2. <<>> \in Seq(Items \cup {Blank})
  OBVIOUS
<1>3. d \in Consumers /\ d.stream = cons.stream /\ (d.buf = cons.buf \/ d.buf = <<>>) /\ d.paused
  BY <1>2 DEF Inv, ConsOK, Consumers, StreamPaused
<1> HIDE DEF d
<1>4. QED  BY <1>1, <1>3, StopKeeps

LEMMA TransportDisconnectedKeepsInv ==
  ASSUME Inv, TransportDisconnected
  PROVE  Inv'
<1> DEFINE d == StreamPaused([cons EXCEPT !.connected = FALSE])
<1>1. Stop(d)
  BY Zenon DEF TransportDisconnected
<1>2. <<>> \in Seq(Items \cup {Blank})
  OBVIOUS
<1>3. d \in Consumers /\ d.stream = cons.stream /\ d.buf = <<>> /\ ~d.connected
  BY <1>2 DEF Inv, ConsOK, Consumers, StreamPaused
<1> HIDE DEF d
<1>4. QED  BY <1>1, <1>3, StopKeeps

\* The steps that touch only the key frame requests: a waiting consumer is
\* still served after them.
LEMMA RequestStepKeeps ==
  ASSUME Inv, NEW sent, NEW cost \in {0, 1}, Pli(sent, cost),
         kf' \in KeyFrameStates, Remembers(hist'),
         kf.pending # "none" \/ kf.delayer = "wanted" \/ hist.gaveUp =>
            kf'.pending # "none" \/ kf'.delayer = "wanted" \/ hist'.gaveUp,
         UNCHANGED <<newest, pkts, plan, shift, late, paused, recv, cons>>
  PROVE  Inv'
<1>1. NetOK' /\ RecvOK' /\ ConsOK'
  BY DEF Inv, NetOK, Sent, RecvOK, ConsOK
<1>2. LineOK'
  <2>1. pli' \in BOOLEAN /\ faults' \in 0 .. plan.faults
    BY PliKeeps DEF Inv, NetOK
  <2>2. QED  BY <2>1 DEF Inv, LineOK
<1>3. WaitOK'
  BY DEF Inv, WaitOK, Served, IsActive
<1>4. QED  BY <1>1, <1>2, <1>3 DEF Inv

LEMMA ReceiveKeyFrameRequestKeepsInv ==
  ASSUME Inv, ReceiveKeyFrameRequest
  PROVE  Inv'
<1> DEFINE r == KeyFrameNeeded(kf)
<1>1. /\ kf' = r.kf /\ Pli(r.sent, 1)
      /\ hist' = [hist EXCEPT !.gaveUp = @ /\ kf'.pending = "none"]
      /\ UNCHANGED <<newest, pkts, plan, shift, late, paused, recv, cons>>
  BY Zenon DEF ReceiveKeyFrameRequest
<1>2. kf' \in KeyFrameStates /\ (kf'.pending # "none" \/ kf'.delayer = "wanted")
  BY <1>1, KeyFrameType, NeededServes DEF Inv, WaitOK
<1>3. Remembers(hist')
  BY <1>1 DEF Inv, WaitOK, Remembers
<1> HIDE DEF r
<1>4. QED  BY <1>1, <1>2, <1>3, RequestStepKeeps

LEMMA RequestTimerKeepsInv ==
  ASSUME Inv, RequestTimer
  PROVE  Inv'
<1> DEFINE r == OnKeyFrameRequestTimeout(kf)
<1>1. /\ kf' = r.kf /\ Pli(r.sent, 0)
      /\ hist' = [hist EXCEPT !.gaveUp = @ \/ r.kf.pending = "none"]
      /\ UNCHANGED <<newest, pkts, plan, shift, late, paused, recv, cons>>
  BY Zenon DEF RequestTimer
<1>2. kf' \in KeyFrameStates
  BY <1>1, KeyFrameType DEF Inv, WaitOK
<1> HIDE DEF r
<1>3. Remembers(hist') /\ (kf'.pending # "none" \/ hist'.gaveUp)
  BY <1>1 DEF Inv, WaitOK, Remembers
<1>4. QED  BY <1>1, <1>2, <1>3, RequestStepKeeps

LEMMA DelayTimerKeepsInv ==
  ASSUME Inv, DelayTimer
  PROVE  Inv'
<1> DEFINE r == OnKeyFrameDelayTimeout(kf)
<1>1. /\ kf' = r.kf /\ Pli(r.sent, 0)
      /\ hist' = [hist EXCEPT !.gaveUp = @ /\ r.kf.pending = "none"]
      /\ UNCHANGED <<newest, pkts, plan, shift, late, paused, recv, cons>>
  BY Zenon DEF DelayTimer
<1>2. kf' \in KeyFrameStates
  BY <1>1, KeyFrameType DEF Inv, WaitOK
<1>3. IF kf.delayer = "wanted" THEN kf'.pending # "none" ELSE kf'.pending = kf.pending
  BY <1>1 DEF OnKeyFrameDelayTimeout, KeyFrameNeeded, Inv, WaitOK, KeyFrameStates
<1> HIDE DEF r
<1>4. /\ Remembers(hist')
      /\ kf.pending # "none" \/ kf.delayer = "wanted" \/ hist.gaveUp =>
            kf'.pending # "none" \/ kf'.delayer = "wanted" \/ hist'.gaveUp
  BY <1>1, <1>3 DEF Inv, WaitOK, Remembers
<1>5. QED  BY <1>1, <1>2, <1>4, RequestStepKeeps

-----------------------------------------------------------------------------
(* What the buffer holds                                                   *)

\* Slots taken off the front, and slots put in, are slots still: T may be any
\* set of them.
LEMMA FromHolds ==
  ASSUME NEW T, NEW buf \in Seq(T), NEW starts \in SUBSET ItemsAt(buf)
  PROVE  From(buf, starts) \in Seq(T)
<1>1. CASE starts = {}
  <2>1. <<>> \in Seq(T)
    OBVIOUS
  <2>2. QED  BY <1>1, <2>1 DEF From
<1>2. CASE starts # {}
  <2> DEFINE k == CHOOSE i \in starts : \A j \in starts : i <= j
  <2>1. starts \in SUBSET Nat /\ starts \in SUBSET (1 .. Len(buf))
    BY DEF ItemsAt
  <2>2. k \in starts
    BY <1>2, <2>1, Smallest
  <2>3. From(buf, starts) = SubSeq(buf, k, Len(buf))
    BY <1>2 DEF From
  <2> HIDE DEF k
  <2>4. k \in Int /\ Len(buf) \in Int /\ \A i \in k .. Len(buf) : buf[i] \in T
    BY <2>1, <2>2
  <2>5. QED  BY <2>3, <2>4, SubSeqProperties
<1>3. QED  BY <1>1, <1>2

LEMMA PartsHold ==
  ASSUME NEW T, Blank \in T, NEW a \in Seq(T), NEW c \in Seq(T), NEW n \in Nat
  PROVE  a \o Blanks(n) \o c \in Seq(T)
<1>1. Blanks(n) \in Seq(T)
  <2>1. Blanks(n) \in [1 .. n -> T]
    BY DEF Blanks
  <2> HIDE DEF Blanks
  <2>2. QED  BY <2>1
<1>2. a \o Blanks(n) \in Seq(T)
  BY <1>1, ConcatProperties
<1> DEFINE e == a \o Blanks(n)
<1> HIDE DEF e
<1>3. e \in Seq(T)
  BY <1>2 DEF e
<1>4. e \o c \in Seq(T)
  BY <1>3, ConcatProperties
<1>5. QED  BY <1>4 DEF e

LEMMA ReplaceHolds ==
  ASSUME NEW T, NEW a \in Seq(T), NEW i, NEW x \in T
  PROVE  [a EXCEPT ![i] = x] \in Seq(T)
<1> DEFINE n == Len(a)
<1>1. n \in Nat /\ a \in [1 .. n -> T]
  OBVIOUS
<1> HIDE DEF n
<1>2. [a EXCEPT ![i] = x] \in [1 .. n -> T]
  BY <1>1
<1>3. QED  BY <1>1, <1>2

LEMMA InsertHolds ==
  ASSUME NEW T \in SUBSET Slots, Blank \in T, NEW buf \in Seq(T), Indexed(buf),
         NEW item \in Items, item \in T
  PROVE  BufferInsert(buf, item) \in Seq(T)
<1> DEFINE newestTs == IF Ts!IsSeqHigherThan(item.ts, Newest(buf).ts) THEN item.ts ELSE Newest(buf).ts
           young == ClearTooOldByTimestamp(buf, newestTs)
<1>1. <<item>> \in Seq(T)
  OBVIOUS
<1>2. CASE BufferInsert(buf, item) # <<item>>
  <2>1. /\ buf # <<>> /\ young # <<>>
        /\ BufferInsert(buf, item) \in
             {InsertInOrder(young, item), InsertBefore(young, item), InsertBetween(young, item)}
    BY <1>2 DEF BufferInsert
  <2>2. young \in Seq(T) /\ Indexed(young) /\ young \in Seq(Slots)
    <3> DEFINE starts == {i \in ItemsAt(buf) : ~IsTooOldTimestamp(buf[i].ts, newestTs)}
    <3>1. young = From(buf, starts) /\ starts \in SUBSET ItemsAt(buf)
      BY DEF ClearTooOldByTimestamp
    <3>2. buf \in Seq(Slots)
      OBVIOUS
    <3> HIDE DEF young, starts
    <3>3. QED  BY <2>1, <3>1, <3>2, FromIsIndexed, FromHolds
  <2> HIDE DEF young
  <2>3. Newest(young).seq \in Int /\ Oldest(young).seq \in Int /\ item.seq \in Int
    <3>1. Newest(young).seq \in Seqs /\ Oldest(young).seq \in Seqs /\ item.seq \in Seqs
      BY <2>1, <2>2, EndsAre DEF Items
    <3>2. QED  BY <3>1 DEF Seqs
  <2>4. InsertInOrder(young, item) \in Seq(T)
    <3> DEFINE blank == Wrap(item.seq - Newest(young).seq - 1)
               excess == Len(young) + blank + 1 - MaxItems
               kept == IF excess > 0 THEN RemoveOldest(young, excess) ELSE young
    <3>1. blank \in Nat
      <4>1. item.seq - Newest(young).seq - 1 \in Int
        BY <2>3
      <4>2. blank \in Seqs
        BY <4>1, WrapIsSeq
      <4>3. QED  BY <4>2 DEF Seqs
    <3>2. RemoveOldest(young, excess) \in Seq(T)
      <4> DEFINE starts == {i \in ItemsAt(young) : i > excess}
      <4>1. starts \in SUBSET ItemsAt(young) /\ RemoveOldest(young, excess) = From(young, starts)
        BY DEF RemoveOldest
      <4> HIDE DEF starts, excess
      <4>2. QED  BY <2>2, <4>1, FromHolds
    <3>3. kept \in Seq(T)
      BY <2>2, <3>2
    <3>4. InsertInOrder(young, item) \in {young, <<item>>, kept \o Blanks(blank) \o <<item>>}
      BY DEF InsertInOrder
    <3> HIDE DEF kept, blank
    <3>5. kept \o Blanks(blank) \o <<item>> \in Seq(T)
      BY <1>1, <3>1, <3>3, PartsHold
    <3>6. QED  BY <1>1, <2>2, <3>4, <3>5
  <2>5. InsertBefore(young, item) \in Seq(T)
    <3> DEFINE blank == Wrap(Oldest(young).seq - item.seq - 1)
    <3>1. blank \in Nat
      <4>1. Oldest(young).seq - item.seq - 1 \in Int
        BY <2>3
      <4>2. blank \in Seqs
        BY <4>1, WrapIsSeq
      <4>3. QED  BY <4>2 DEF Seqs
    <3>2. InsertBefore(young, item) \in {young, <<item>> \o Blanks(blank) \o young}
      BY DEF InsertBefore
    <3> HIDE DEF blank
    <3>3. <<item>> \o Blanks(blank) \o young \in Seq(T)
      BY <1>1, <2>2, <3>1, PartsHold
    <3>4. QED  BY <2>2, <3>2, <3>3
  <2>6. InsertBetween(young, item) \in Seq(T)
    <3> DEFINE idx == Wrap(item.seq - Oldest(young).seq) + 1
    <3>1. InsertBetween(young, item) \in {young, [young EXCEPT ![idx] = item]}
      BY DEF InsertBetween
    <3> HIDE DEF idx
    <3>2. [young EXCEPT ![idx] = item] \in Seq(T)
      BY <2>2, ReplaceHolds
    <3>3. QED  BY <2>2, <3>1, <3>2
  <2>7. QED  BY <2>1, <2>4, <2>5, <2>6
<1>3. QED  BY <1>1, <1>2

\* The packets that were sent under the number they are stored with.
WasSent(x, outs, n) == x.pkt < n - Half \/ \E o \in outs : o.pkt = x.pkt /\ o.out = x.seq

SentItems(outs, n) == {x \in Items : WasSent(x, outs, n)}

HoldOK == cons.buf \in Seq(SentItems(hist.outs, newest) \cup {Blank})

\* The history forgets nothing that the bound does not let it forget.
LEMMA SentItemsGrow ==
  ASSUME NEW outs, NEW more, NEW n \in Nat, NEW m \in Nat, n <= m,
         \A o \in outs : o.pkt >= m - Half => o \in more
  PROVE  SentItems(outs, n) \subseteq SentItems(more, m)
<1>1. Half \in Nat
  BY HalfIs
<1>2. ASSUME NEW x \in Items, WasSent(x, outs, n)  PROVE WasSent(x, more, m)
  <2>1. x.pkt \in Nat
    BY DEF Items
  <2>2. CASE x.pkt < m - Half
    BY <2>2 DEF WasSent
  <2>3. CASE x.pkt >= m - Half
    <3>1. PICK o \in outs : o.pkt = x.pkt /\ o.out = x.seq
      BY <1>1, <1>2, <2>1, <2>3 DEF WasSent
    <3>2. QED  BY <2>3, <3>1 DEF WasSent
  <2>4. QED  BY <1>1, <2>1, <2>2, <2>3
<1>3. QED  BY <1>2 DEF SentItems

LEMMA HeldGrows ==
  ASSUME NEW outs, NEW more, NEW n \in Nat, NEW m \in Nat, n <= m,
         \A o \in outs : o.pkt >= m - Half => o \in more,
         NEW buf \in Seq(SentItems(outs, n) \cup {Blank})
  PROVE  buf \in Seq(SentItems(more, m) \cup {Blank})
<1>1. SentItems(outs, n) \subseteq SentItems(more, m)
  BY SentItemsGrow
<1> DEFINE A == SentItems(outs, n) \cup {Blank}
           B == SentItems(more, m) \cup {Blank}
<1>2. A \subseteq B /\ buf \in Seq(A)
  BY <1>1
<1> HIDE DEF A, B
<1>3. buf \in Seq(B)
  BY <1>2
<1>4. QED  BY <1>3 DEF B

\* A packet given to the sending stream is stored only as it was sent.
LEMMA SendNumberedHolds ==
  ASSUME NEW T \in SUBSET Slots, Blank \in T, NEW c \in Consumers, Indexed(c.buf), c.buf \in Seq(T),
         NEW p \in Sent, pkts[p] \in Packets, p \in Nat, NEW seq \in Seqs,
         NEW s, s = SendNumbered(c, p, seq),
         \A x \in Items : x.pkt = p /\ x.seq = s.output => x \in T
  PROVE  s.c.buf \in Seq(T) /\ (s.output = NotSent => s.c.buf = c.buf)
<1> DEFINE check == ReceiveStreamPacket(c.snd, seq)
           item == [seq |-> seq, ts |-> pkts[p].ts, pkt |-> p]
           kept == ClearedOnReset(c.buf, check)
           stored == IF p \in plan.large THEN kept ELSE BufferInsert(kept, item)
           buf == IF check.ok THEN stored ELSE kept
<1>1. item \in Items /\ item.pkt = p /\ item.seq = seq
  BY DEF Items, Packets
<1>2. s.c = [c EXCEPT !.snd = check.rs, !.buf = buf] /\ s.output = IF check.ok THEN seq ELSE NotSent
  BY DEF SendNumbered, StorePacket
<1>3. check.reset => check.ok
  BY DEF ReceiveStreamPacket, UpdateSeq
<1>4. kept \in Seq(T) /\ Indexed(kept) /\ (~check.reset => kept = c.buf)
  BY EmptyIsIndexed DEF ClearedOnReset
<1> HIDE DEF item, check, kept
<1>5. seq # NotSent
  BY HalfIs DEF Seqs, NotSent
<1>6. CASE check.ok
  <2>1. item \in T
    BY <1>1, <1>2, <1>6
  <2>2. buf \in Seq(T)
    <3>1. BufferInsert(kept, item) \in Seq(T)
      BY <1>1, <1>4, <2>1, InsertHolds
    <3>2. QED  BY <1>6, <1>4, <3>1
  <2>3. s.c.buf = buf
    BY <1>2 DEF Consumers
  <2>4. QED  BY <1>2, <1>5, <1>6, <2>2, <2>3
<1>7. CASE ~check.ok
  <2>1. s.c.buf = c.buf
    BY <1>2, <1>7, <1>3, <1>4 DEF Consumers
  <2>2. QED  BY <2>1
<1>8. QED  BY <1>6, <1>7

LEMMA SendHolds ==
  ASSUME NEW T \in SUBSET Slots, Blank \in T, NEW c \in Consumers, Indexed(c.buf), c.buf \in Seq(T),
         NEW p \in Sent, pkts[p] \in Packets, p \in Nat, NEW s \in SendRtpPacket(c, p),
         pkts[p].kind # "pad" /\ s.output # NotSent => \A x \in Items : x.pkt = p /\ x.seq = s.output => x \in T
  PROVE  s.c.buf \in Seq(T)
<1>1. pkts[p].seq \in Seqs
  BY DEF Packets
<1>2. CASE pkts[p].kind = "pad"
  <2>1. PICK sm \in Drop(c.sm, pkts[p].seq) : s.c = [c EXCEPT !.sm = sm]
    BY <1>2 DEF SendRtpPacket
  <2>2. QED  BY <2>1 DEF Consumers
<1>3. CASE pkts[p].kind # "pad" /\ c.syncRequired /\ ~IsKey(p)
  <2>1. s.c = c
    BY <1>3 DEF SendRtpPacket
  <2>2. QED  BY <2>1
<1>4. CASE pkts[p].kind # "pad" /\ ~(c.syncRequired /\ ~IsKey(p))
  <2> DEFINE ready == IF c.syncRequired THEN Synced(c, p) ELSE c
  <2>1. PICK in \in Input(ready.sm, pkts[p].seq) :
          s = [SendNumbered([ready EXCEPT !.sm = in.sm], p, in.output) EXCEPT !.synced = c.syncRequired]
    BY <1>4, Zenon DEF SendRtpPacket
  <2>2. ready \in Consumers /\ Indexed(ready.buf) /\ ready.buf = c.buf
    <3>1. Synced(c, p).buf = c.buf
      BY DEF Synced, Consumers
    <3>2. Synced(c, p) \in Consumers /\ Indexed(Synced(c, p).buf)
      BY SyncedKeeps
    <3>3. QED  BY <3>1, <3>2
  <2> HIDE DEF ready
  <2>3. in.sm \in SeqManagers /\ in.output \in Seqs
    BY <1>1, <2>2, InputType DEF Consumers
  <2> DEFINE d == [ready EXCEPT !.sm = in.sm]
  <2>4. d \in Consumers /\ Indexed(d.buf) /\ d.buf = c.buf
    BY <2>2, <2>3 DEF Consumers
  <2> HIDE DEF d
  <2> DEFINE t == SendNumbered(d, p, in.output)
  <2>5. s = [t EXCEPT !.synced = c.syncRequired]
    BY <2>1 DEF d
  <2>6. DOMAIN t = {"c", "output", "synced"}
    BY DEF SendNumbered
  <2> HIDE DEF t
  <2>7. s.c = t.c /\ s.output = t.output
    BY <2>5, <2>6
  <2>8. CASE t.output # NotSent
    <3>1. \A x \in Items : x.pkt = p /\ x.seq = t.output => x \in T
      BY <1>4, <2>7, <2>8
    <3>2. t.c.buf \in Seq(T)
      BY <2>3, <2>4, <3>1, SendNumberedHolds DEF t
    <3>3. QED  BY <2>7, <3>2
  <2>9. CASE t.output = NotSent
    <3>1. \A x \in Items : x.seq # t.output
      BY <2>9, HalfIs DEF Items, Seqs, NotSent
    <3>2. t.c.buf \in Seq(T)
      BY <2>3, <2>4, <3>1, SendNumberedHolds DEF t
    <3>3. QED  BY <2>7, <3>2
  <2>10. QED  BY <2>8, <2>9
<1>5. QED  BY <1>2, <1>3, <1>4

\* A step that sends nothing: the buffer is kept or emptied.
LEMMA QuietHolds ==
  ASSUME Inv, HoldOK, newest' \in Nat, newest <= newest',
         cons'.buf = cons.buf \/ cons'.buf = <<>>, hist'.outs = hist.outs
  PROVE  HoldOK'
<1>1. newest \in Nat
  BY DEF Inv, NetOK
<1>2. \A o \in hist.outs : o.pkt >= newest' - Half => o \in hist'.outs
  OBVIOUS
<1>3. CASE cons'.buf = <<>>
  BY <1>3 DEF HoldOK
<1>4. CASE cons'.buf = cons.buf
  BY <1>1, <1>2, <1>4, HeldGrows DEF HoldOK
<1>5. QED  BY <1>3, <1>4

LEMMA AcceptedHolds ==
  ASSUME Inv, HoldOK, NEW p \in Sent, NEW viaRtx, NEW rs, NEW r, NEW cost,
         Accepted(p, viaRtx, rs, r, cost), newest' = newest
  PROVE  HoldOK'
<1> DEFINE passed == ~viaRtx \/ r.found
           isNew == ~recv.rs.started
           c == IF isNew THEN [cons EXCEPT !.stream = TRUE] ELSE cons
           noted == Asked(Noted(hist, p, viaRtx, r), r.asked)
<1>1. IF passed /\ IsActive(c, paused)
      THEN \E s \in SendRtpPacket(c, p) : cons' = s.c /\ hist' = Forwarded(noted, p, s)
      ELSE cons' = c /\ hist' = noted
  BY Zenon DEF Accepted
<1>2. pkts[p] \in Packets /\ p \in Nat /\ newest \in Nat
  <2>1. pkts[p] \in Packets /\ p \in 1 .. newest /\ newest \in Nat
    BY DEF Inv, NetOK
  <2>2. QED  BY <2>1
<1>3. Remembers(noted) /\ noted.outs = hist.outs
  <2> DEFINE h == Noted(hist, p, viaRtx, r)
  <2>1. Remembers(h) /\ h.outs = hist.outs
    BY NotedKeeps DEF Inv, WaitOK
  <2> HIDE DEF h
  <2>2. Remembers(Asked(h, r.asked)) /\ Asked(h, r.asked).outs = h.outs
    BY <2>1, AskedKeeps
  <2>3. noted = Asked(h, r.asked)
    BY DEF h
  <2> HIDE DEF noted
  <2>4. QED  BY <2>1, <2>2, <2>3, Zenon
<1> HIDE DEF noted
<1>4. c \in Consumers /\ Indexed(c.buf) /\ c.buf = cons.buf
  BY DEF Inv, ConsOK, Consumers
<1> HIDE DEF c
<1>5. CASE passed /\ IsActive(c, paused)
  <2>1. PICK s \in SendRtpPacket(c, p) : cons' = s.c /\ hist' = Forwarded(noted, p, s)
    BY <1>1, <1>5
  <2>2. /\ \A o \in noted.outs : o.pkt >= newest - Half => o \in hist'.outs
        /\ pkts[p].kind # "pad" /\ s.output # NotSent =>
              \E o \in hist'.outs : o.pkt = p /\ o.out = s.output
    BY <1>3, <2>1, ForwardedKeeps
  <2> DEFINE T == SentItems(hist'.outs, newest) \cup {Blank}
  <2>3. T \in SUBSET Slots /\ Blank \in T
    BY DEF SentItems, Slots
  <2>4. c.buf \in Seq(T)
    BY <1>2, <1>3, <1>4, <2>2, HeldGrows DEF HoldOK
  <2>5. pkts[p].kind # "pad" /\ s.output # NotSent => \A x \in Items : x.pkt = p /\ x.seq = s.output => x \in T
    BY <2>2 DEF SentItems, WasSent
  <2> HIDE DEF T
  <2>6. s.c.buf \in Seq(T)
    BY <1>2, <1>4, <2>3, <2>4, <2>5, SendHolds
  <2>7. QED  BY <2>1, <2>6 DEF HoldOK, T
<1>6. CASE ~(passed /\ IsActive(c, paused))
  <2>1. cons'.buf = cons.buf /\ hist'.outs = hist.outs
    BY <1>1, <1>3, <1>4, <1>6
  <2>2. QED  BY <1>2, <2>1, QuietHolds
<1>7. QED  BY <1>5, <1>6

LEMMA ReceiveHolds ==
  ASSUME Inv, HoldOK, NEW p \in Sent, NEW viaRtx, NEW cost, ReceiveRtpPacket(p, viaRtx, cost)
  PROVE  HoldOK'
<1> DEFINE check == IF viaRtx THEN UpdateSeq(recv.rs, pkts[p].seq)
                              ELSE ReceiveStreamPacket(recv.rs, pkts[p].seq)
<1>1. /\ IF check.ok
         THEN \E r \in NackReceivePacket(recv.ng, pkts[p].seq, IsKey(p), viaRtx) :
                  Accepted(p, viaRtx, check.rs, r, cost)
         ELSE UNCHANGED <<cons, hist>>
      /\ newest' = newest
  BY Zenon DEF ReceiveRtpPacket
<1> HIDE DEF check
<1>2. newest' \in Nat /\ newest <= newest'
  BY <1>1 DEF Inv, NetOK
<1>3. QED  BY <1>1, <1>2, AcceptedHolds, QuietHolds

\* Every step.
LEMMA NextHolds ==
  ASSUME Inv, HoldOK, [Next]_vars
  PROVE  HoldOK'
<1>0. newest \in Nat /\ Remembers(hist) /\ cons \in Consumers
  BY DEF Inv, NetOK, WaitOK, ConsOK
<1>1. CASE Send
  <2>1. newest' = newest + 1 /\ UNCHANGED <<cons, hist>>
    BY <1>1 DEF Send
  <2>2. newest' \in Nat /\ newest <= newest'
    BY <1>0, <2>1
  <2>3. QED  BY <2>1, <2>2, QuietHolds
<1>2. CASE Arrive
  <2>1. PICK p \in late : \E viaRtx \in {FALSE} \cup {p < newest} : ReceiveRtpPacket(p, viaRtx, 0)
    BY <1>2 DEF Arrive
  <2>2. p \in Sent
    BY DEF Inv, NetOK
  <2>3. QED  BY <2>1, <2>2, ReceiveHolds
<1>3. CASE ArriveAgain
  <2>1. PICK p \in Recent(Sent) \ late : \E viaRtx \in BOOLEAN : ReceiveRtpPacket(p, viaRtx, 1)
    BY <1>3 DEF ArriveAgain
  <2>2. p \in Sent
    BY DEF Recent
  <2>3. QED  BY <2>1, <2>2, ReceiveHolds
<1>4. CASE \E due \in TimeBatches(recv.ng) : NackTimer(due)
  <2>1. PICK due \in TimeBatches(recv.ng) : NackTimer(due)
    BY <1>4
  <2>2. /\ hist' = Asked(hist, NackOnTimer(recv.ng, due).asked)
        /\ UNCHANGED <<newest, cons>>
    BY <2>1, Zenon DEF NackTimer
  <2>3. hist'.outs = hist.outs
    BY <1>0, <2>2, AskedKeeps
  <2>4. QED  BY <1>0, <2>2, <2>3, QuietHolds
<1>5. CASE /\ UNCHANGED newest
           /\ cons'.buf = cons.buf \/ cons'.buf = <<>>
           /\ \/ UNCHANGED hist
              \/ \E l : hist' = [hist EXCEPT !.last = l]
              \/ \E g : hist' = [hist EXCEPT !.gaveUp = g]
  <2>1. hist'.outs = hist.outs
    BY <1>0, <1>5 DEF Remembers
  <2>2. QED  BY <1>0, <1>5, <2>1, QuietHolds
<1>6. CASE Restart \/ UNCHANGED vars
  BY <1>5, <1>6 DEF Restart, vars
<1>7. CASE ProducerPause
  <2>1. \/ cons' = cons
        \/ cons' = [cons EXCEPT !.buf = <<>>]
    BY <1>7 DEF ProducerPause, StreamPaused
  <2>2. cons'.buf = cons.buf \/ cons'.buf = <<>>
    BY <1>0, <2>1 DEF Consumers
  <2>3. UNCHANGED newest /\ \E l : hist' = [hist EXCEPT !.last = l]
    BY <1>7 DEF ProducerPause
  <2>4. QED  BY <1>5, <2>2, <2>3
<1>8. CASE ConsumerPause \/ TransportDisconnected
  <2>1. PICK c : /\ Stop(c)
                 /\ \/ c = StreamPaused([cons EXCEPT !.paused = TRUE])
                    \/ c = [cons EXCEPT !.paused = TRUE]
                    \/ c = StreamPaused([cons EXCEPT !.connected = FALSE])
    BY <1>8 DEF ConsumerPause, TransportDisconnected
  <2>2. c.buf = cons.buf \/ c.buf = <<>>
    BY <1>0, <2>1 DEF Consumers, StreamPaused
  <2>3. cons' = c /\ UNCHANGED newest /\ \E l : hist' = [hist EXCEPT !.last = l]
    BY <2>1 DEF Stop
  <2>4. QED  BY <1>5, <2>2, <2>3
<1>9. CASE ProducerResume \/ ConsumerResume \/ TransportConnected
  <2>1. /\ UNCHANGED newest
        /\ \E a, b : cons' = [cons EXCEPT !.paused = a, !.syncRequired = b]
                       \/ cons' = [cons EXCEPT !.connected = a, !.syncRequired = b]
                       \/ cons' = [cons EXCEPT !.syncRequired = b]
        /\ \E g : hist' = [hist EXCEPT !.gaveUp = g]
    <3>1. CASE ProducerResume
      BY <3>1 DEF ProducerResume
    <3>2. CASE ConsumerResume
      BY <1>0, <3>2 DEF ConsumerResume, RequestKeyFrame, Consumers
    <3>3. CASE TransportConnected
      BY <3>3 DEF TransportConnected, RequestKeyFrame
    <3>4. QED  BY <1>9, <3>1, <3>2, <3>3
  <2>2. cons'.buf = cons.buf
    BY <1>0, <2>1 DEF Consumers
  <2>3. QED  BY <1>5, <2>1, <2>2
<1>10. CASE ReceiveKeyFrameRequest \/ RequestTimer \/ DelayTimer
  <2>1. UNCHANGED <<newest, cons>> /\ \E g : hist' = [hist EXCEPT !.gaveUp = g]
    BY <1>10 DEF ReceiveKeyFrameRequest, RequestTimer, DelayTimer
  <2>2. QED  BY <1>5, <2>1
<1>11. QED
  BY <1>1, <1>2, <1>3, <1>4, <1>6, <1>7, <1>8, <1>9, <1>10, Zenon DEF Next

-----------------------------------------------------------------------------
(* The theorems                                                            *)

LEMMA InitGivesInv == Init => Inv
<1> SUFFICES ASSUME Init  PROVE Inv
  OBVIOUS
<1>1. 0 \in Seqs /\ <<>> \in Seq(Seqs) /\ <<>> \in Seq(Items \cup {Blank}) /\ SeqMod \in Nat
  BY HalfIs DEF Seqs
<1>2. NewRtpStream \in RtpStreams
  BY <1>1 DEF NewRtpStream, RtpStreams
<1>3. NewSeqManager \in SeqManagers
  BY <1>1 DEF NewSeqManager, SeqManagers
<1>4. NewNackGenerator \in NackGenerators /\ Sound(NewNackGenerator)
  BY <1>1, NewSound
<1>5. NetOK
  <2>1. DOMAIN pkts = {}
    BY DEF Init
  <2>2. QED  BY <2>1 DEF Init, NetOK, Sent
<1>6. RecvOK
  BY <1>2, <1>4 DEF Init, RecvOK
<1>7. ConsOK
  BY <1>1, <1>2, <1>3, EmptyIsIndexed DEF Init, ConsOK, Consumers
<1>8. WaitOK
  BY DEF Init, WaitOK, KeyFrameStates, NewKeyFrameRequestManager, Remembers, Served, IsActive
<1>9. LineOK
  <2>1. plan.faults \in Nat
    BY PlanIs DEF Init
  <2>2. 0 \in 0 .. plan.faults
    BY <2>1
  <2>3. faults = 0 /\ pli = FALSE /\ paused = FALSE
    BY DEF Init
  <2>4. QED  BY <2>2, <2>3 DEF LineOK
<1>10. QED  BY <1>5, <1>6, <1>7, <1>8, <1>9 DEF Inv

LEMMA NextKeepsInv == Inv /\ [Next]_vars => Inv'
<1> SUFFICES ASSUME Inv, [Next]_vars  PROVE Inv'
  OBVIOUS
<1>1. CASE Send
  BY <1>1, SendKeepsInv
<1>2. CASE Restart
  BY <1>2, RestartKeepsInv
<1>3. CASE Arrive
  BY <1>3, ArriveKeepsInv
<1>4. CASE ArriveAgain
  BY <1>4, ArriveAgainKeepsInv
<1>5. CASE \E due \in TimeBatches(recv.ng) : NackTimer(due)
  BY <1>5, NackTimerKeepsInv
<1>6. CASE ProducerPause
  BY <1>6, ProducerPauseKeepsInv
<1>7. CASE ProducerResume
  BY <1>7, ProducerResumeKeepsInv
<1>8. CASE ConsumerPause
  BY <1>8, ConsumerPauseKeepsInv
<1>9. CASE ConsumerResume
  BY <1>9, ConsumerResumeKeepsInv
<1>10. CASE TransportDisconnected
  BY <1>10, TransportDisconnectedKeepsInv
<1>11. CASE TransportConnected
  BY <1>11, TransportConnectedKeepsInv
<1>12. CASE ReceiveKeyFrameRequest
  BY <1>12, ReceiveKeyFrameRequestKeepsInv
<1>13. CASE RequestTimer
  BY <1>13, RequestTimerKeepsInv
<1>14. CASE DelayTimer
  BY <1>14, DelayTimerKeepsInv
<1>15. CASE UNCHANGED vars
  BY <1>15 DEF vars, Inv, NetOK, Sent, RecvOK, ConsOK, WaitOK, Served, IsActive, LineOK
<1>16. QED
  BY <1>1, <1>2, <1>3, <1>4, <1>5, <1>6, <1>7, <1>8, <1>9, <1>10, <1>11, <1>12, <1>13, <1>14, <1>15, Zenon
     DEF Next

\* The inductive invariant holds of every state the worker can be in.
THEOREM InvHolds == Spec => []Inv
BY InitGivesInv, NextKeepsInv, PTL DEF Spec

\* Whatever packets come and in whatever order, every part of the path stays
\* within its types: sequence numbers are wrapped, the buffer holds stored
\* packets and blanks, the timers are in one of their states.
THEOREM TypeCorrect == Spec => []TypeOK
BY InvHolds, InvIsTyped, PTL

\* The list of missing packets (NackGenerator.cpp) never outgrows its limit,
\* names no packet twice and none that is newer than the newest or older than
\* MaxPacketAge, and never waits without its timer: for every limit, every
\* loss, every reordering and every restart of the publisher.
THEOREM NackListStaysSound == Spec => []NackListIsSound
<1>1. Inv => NackListIsSound
  BY DEF Inv, RecvOK, Sound, Listed, Ages, OncePerNumber, NackListIsSound
<1>2. QED  BY <1>1, InvHolds, PTL

\* A consumer that drops what comes until a key frame does has one asked for,
\* or the worker has asked twice in vain: no pause, resume, reconnection or
\* timer leaves it waiting with no request.
THEOREM WaitingConsumerStaysServed == Spec => []WaitingConsumerIsServed
<1>1. Inv => WaitingConsumerIsServed
  BY DEF Inv, WaitOK, Served, WaitingConsumerIsServed
<1>2. QED  BY <1>1, InvHolds, PTL

\* Whatever the retransmission buffer (RtpRetransmissionBuffer.cpp) finds for a number
\* was sent under that very number, for every order of arrival, renumbering and
\* restart: the buffer never outgrows its limit, begins and ends with a packet, and
\* finds each by its distance from the first; and the consumer stores a packet only
\* after its stream has accepted the number.
THEOREM BufferStaysExact == Spec => []BufferIsExact
<1>1. Init => HoldOK
  BY DEF Init, HoldOK
<1>2. Inv /\ HoldOK /\ [Next]_vars => HoldOK'
  BY NextHolds
<1>3. ASSUME Inv  PROVE BufferIsIndexed
  <2>1. cons.buf \in Seq(Slots) /\ Indexed(cons.buf)
    BY <1>3 DEF Inv, ConsOK, Consumers, Slots
  <2>2. QED  BY <2>1, IndexedIsExact DEF BufferIsIndexed
<1>4. HoldOK => BufferHoldsSent
  <2>1. ASSUME HoldOK, NEW i \in ItemsAt(cons.buf)
        PROVE  cons.buf[i] \in SentItems(hist.outs, newest)
    BY <2>1 DEF HoldOK, ItemsAt
  <2>2. QED  BY <2>1 DEF SentItems, WasSent, BufferHoldsSent
<1>5. Inv /\ HoldOK => BufferIsExact
  BY <1>3, <1>4 DEF BufferIsExact
<1>6. QED  BY <1>1, <1>2, <1>5, InvHolds, PTL DEF Spec
=============================================================================
