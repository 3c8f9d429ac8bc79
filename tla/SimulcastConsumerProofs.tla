---------------------- MODULE SimulcastConsumerProofs ----------------------
(***************************************************************************)
(* Proofs about SimulcastConsumer: what the loops over layers find, and    *)
(* that the consumer's target layer is the one it should be, may be        *)
(* switched to, and is asked a key frame of, whatever happens.             *)
(*                                                                         *)
(* The invariant is Sound(w, {}).  Its conjuncts are predicates of any     *)
(* consumer c, because a handler looks at its layers in the middle: what   *)
(* it hands to MayChangeLayers is Loose, what comes of that Sound again.   *)
(***************************************************************************)
EXTENDS SimulcastConsumer, WellFoundedInduction, TLAPS

-----------------------------------------------------------------------------
(* Induction and loops                                                     *)

\* A set of natural numbers has a smallest element.
LEMMA Smallest ==
  ASSUME NEW T \in SUBSET Nat, T # {}
  PROVE  \E x \in T : \A y \in T : x <= y
<1>1. PICK x \in T : \A y \in T : ~ (<<y, x>> \in OpToRel(<, Nat))
  BY NatLessThanWellFounded, WFMin
<1>2. ASSUME NEW y \in T, y < x  PROVE FALSE
  <2>1. <<y, x>> \in OpToRel(<, Nat)
    BY <1>2 DEF OpToRel
  <2>2. QED  BY <1>1, <2>1, Zenon
<1>3. QED  BY <1>2

\* Induction, on a set rather than on a predicate.
LEMMA SetInduction ==
  ASSUME NEW T \in SUBSET Nat, 0 \in T, \A n \in T : n + 1 \in T
  PROVE  T = Nat
<1>1. SUFFICES ASSUME Nat \ T # {}  PROVE FALSE
  OBVIOUS
<1>2. PICK x \in Nat \ T : \A y \in Nat \ T : x <= y
  BY <1>1, Smallest, Nat \ T \in SUBSET Nat, Zenon
<1>3. x # 0 /\ x - 1 \in Nat
  BY <1>2
<1>4. x - 1 \in T
  BY <1>2, <1>3
<1>5. QED  BY <1>2, <1>4

\* A loop over l = low + 1 .. high from init, whose step takes what has come of it and l.
\* f[l] is what a loop from init has come to at l, its step taking what it had and l.
LoopsThrough(f, init, low, high, step) ==
  \A l \in low .. high : f[l] = IF l = low THEN init ELSE step[<<f[l - 1], l>>]

\* Every loop comes to something: the recursive function exists.
LEMMA LoopHasResult ==
  ASSUME NEW S, NEW init \in S, NEW low \in Int, NEW high \in Int, low <= high,
         NEW step \in [S \X (low + 1 .. high) -> S]
  PROVE  \E f \in [low .. high -> S] : LoopsThrough(f, init, low, high, step)
<1> DEFINE Partial(k, f) ==
             \A l \in low .. k : f[l] = IF l = low THEN init ELSE step[<<f[l - 1], l>>]
           T == {n \in Nat : low + n <= high => \E f \in [low .. low + n -> S] : Partial(low + n, f)}
<1>1. 0 \in T
  <2> DEFINE g == [l \in low .. low + 0 |-> init]
  <2>1. g \in [low .. low + 0 -> S]
    OBVIOUS
  <2>2. Partial(low + 0, g)
    OBVIOUS
  <2> HIDE DEF g
  <2>3. QED  BY <2>1, <2>2, Zenon DEF T
<1>2. ASSUME NEW n \in T  PROVE n + 1 \in T
  <2> DEFINE k == low + (n + 1)
  <2>0. n \in Nat /\ k \in Int /\ k - 1 = low + n /\ low < k
    BY <1>2
  <2>1. SUFFICES ASSUME k <= high
                 PROVE  \E g \in [low .. k -> S] : Partial(k, g)
    BY <2>0
  <2>2. \E f \in [low .. low + n -> S] : Partial(low + n, f)
    BY <1>2, <2>0, <2>1
  <2> HIDE DEF k
  <2>3. PICK f \in [low .. k - 1 -> S] : Partial(k - 1, f)
    BY <2>0, <2>2
  <2> DEFINE g == [l \in low .. k |-> IF l = k THEN step[<<f[k - 1], k>>] ELSE f[l]]
  <2>4. step[<<f[k - 1], k>>] \in S
    BY <2>0, <2>1, <2>3
  <2>5. g \in [low .. k -> S]
    BY <2>0, <2>3, <2>4
  <2>6. Partial(k, g)
    <3>1. ASSUME NEW l \in low .. k
          PROVE  g[l] = IF l = low THEN init ELSE step[<<g[l - 1], l>>]
      <4>1. CASE l = k
        <5>1. l # low /\ g[l] = step[<<f[k - 1], k>>]
          BY <4>1, <2>0
        <5>2. k - 1 \in low .. k - 1 /\ g[k - 1] = f[k - 1]
          BY <2>0
        <5>3. QED  BY <4>1, <5>1, <5>2
      <4>2. CASE l # k
        <5>1. l \in low .. k - 1 /\ g[l] = f[l]
          BY <4>2, <2>0
        <5>2. l # low => l - 1 \in low .. k - 1 /\ g[l - 1] = f[l - 1]
          BY <5>1, <2>0
        <5>3. QED  BY <5>1, <5>2, <2>3
      <4>3. QED  BY <4>1, <4>2
    <3>2. QED  BY <3>1
  <2>7. QED  BY <2>5, <2>6
<1>3. T = Nat
  <2> HIDE DEF T
  <2>1. T \in SUBSET Nat
    BY DEF T
  <2>2. QED  BY <1>1, <1>2, <2>1, SetInduction
<1>4. \E f \in [low .. high -> S] : Partial(high, f)
  <2>1. high - low \in T
    <3> HIDE DEF T
    <3>1. QED  BY <1>3
  <2>2. low + (high - low) = high /\ high <= high
    OBVIOUS
  <2>3. QED  BY <2>1, <2>2, Zenon
<1>5. QED  BY <1>4 DEF LoopsThrough

\* Induction along an interval.
LEMMA IntervalInduction ==
  ASSUME NEW low \in Int, NEW high \in Int, NEW T, low \in T,
         \A l \in low + 1 .. high : l - 1 \in T => l \in T
  PROVE  low .. high \subseteq T
<1> DEFINE R == {n \in Nat : low + n <= high => low + n \in T}
<1>1. 0 \in R
  OBVIOUS
<1>2. ASSUME NEW n \in R  PROVE n + 1 \in R
  <2>1. (low + (n + 1)) - 1 = low + n
    OBVIOUS
  <2>2. low + (n + 1) <= high => low + (n + 1) \in low + 1 .. high /\ low + n <= high
    OBVIOUS
  <2>3. QED  BY <2>1, <2>2
<1>3. R = Nat
  <2>1. R \in SUBSET Nat
    OBVIOUS
  <2> HIDE DEF R
  <2>2. QED  BY <1>1, <1>2, <2>1, SetInduction
<1>4. ASSUME NEW l \in low .. high  PROVE l \in T
  <2>1. l - low \in Nat /\ low + (l - low) = l
    OBVIOUS
  <2>2. l - low \in R
    <3> HIDE DEF R
    <3>1. QED  BY <1>3, <2>1
  <2>3. QED  BY <2>1, <2>2
<1>5. QED  BY <1>4

-----------------------------------------------------------------------------
(* The choice of a target layer                                            *)

\* The fields the choice of layers depends on.
Control == {"here", "alive", "young", "reported", "asked", "off", "preferred",
            "target", "current", "tsRef", "wary"}

Typed(c) ==
  /\ Control \subseteq DOMAIN c
  /\ c.here \subseteq Layers /\ c.alive \subseteq Layers
  /\ c.preferred \in Layers
  /\ c.target \in Layers \cup {-1}
  /\ c.current \in Layers \cup {-1}
  /\ c.tsRef \in Layers \cup {-1}

\* The layers that may be switched to, if any may.
Open(c) == {l \in Layers : CanSwitchToSpatialLayer(c, l)} \cup {-1}

\* One step of RecalculateTargetLayers, and of DistributeAvailableOutgoingBitrate.
Better(c, sofar, l) ==
  LET skipped == \/ l \notin c.alive \/ ~CanSwitchToSpatialLayer(c, l)
                 \/ sofar # -1 /\ c.wary /\ l > c.current
                 \/ sofar # -1 /\ plan.managed /\ l \in c.young
  IN  IF sofar >= c.preferred \/ skipped THEN sofar ELSE l

LEMMA LayersAre ==
  ASSUME plan \in Plans
  PROVE  /\ plan.layers \in Nat \ {0}
         /\ {-1} \cup Layers = -1 .. plan.layers - 1
         /\ Layers \subseteq Nat
<1>1. plan.layers \in Nat \ {0}
  BY PlansAssumption
<1>2. QED  BY <1>1 DEF Layers

\* RecalculateTargetLayers is such a loop.
LEMMA RecalculateLoops ==
  ASSUME plan \in Plans, NEW c
  PROVE  \E f :
           /\ \A l \in -1 .. plan.layers - 1 :
                f[l] = IF l = -1 THEN -1 ELSE Better(c, f[l - 1], l)
           /\ RecalculateTargetLayers(c) = f[plan.layers - 1]
<1> DEFINE n == plan.layers
           step == [x \in Open(c) \X (-1 + 1 .. n - 1) |-> Better(c, x[1], x[2])]
<1>0. n \in Nat \ {0} /\ {-1} \cup Layers = -1 .. n - 1
  BY LayersAre
<1> HIDE DEF n
<1>1. ASSUME NEW a \in Open(c), NEW l \in -1 + 1 .. n - 1
      PROVE  Better(c, a, l) \in Open(c)
  <2>1. l \in Layers
    BY <1>0
  <2>2. QED  BY <2>1 DEF Better, Open
<1>2. step \in [Open(c) \X (-1 + 1 .. n - 1) -> Open(c)]
  BY <1>1
<1>3. -1 \in Open(c)
  BY DEF Open
<1>4. PICK f \in [-1 .. n - 1 -> Open(c)] :
        \A l \in -1 .. n - 1 : f[l] = IF l = -1 THEN -1 ELSE step[<<f[l - 1], l>>]
  <2> HIDE DEF step
  <2>1. -1 <= n - 1 /\ -1 \in Int /\ n - 1 \in Int
    BY <1>0
  <2> DEFINE S == Open(c)
             low == -1
             high == n - 1
             init == -1
  <2>2. step \in [S \X (low + 1 .. high) -> S] /\ init \in S
    BY <1>2, <1>3
  <2>3. low \in Int /\ high \in Int /\ low <= high
    BY <2>1
  <2> HIDE DEF S, low, high, init
  <2>4. \E f \in [low .. high -> S] : LoopsThrough(f, init, low, high, step)
    BY <2>2, <2>3, LoopHasResult
  <2>5. QED  BY <2>4 DEF S, low, high, init, LoopsThrough
<1>5. \A l \in -1 .. n - 1 : f[l] = IF l = -1 THEN -1 ELSE Better(c, f[l - 1], l)
  <2>1. ASSUME NEW l \in -1 .. n - 1, l # -1  PROVE step[<<f[l - 1], l>>] = Better(c, f[l - 1], l)
    <3>1. f[l - 1] \in Open(c) /\ l \in -1 + 1 .. n - 1
      BY <2>1, <1>4, <1>0
    <3>2. QED  BY <3>1
  <2> HIDE DEF step
  <2>2. QED  BY <1>4, <2>1, <1>0
<1>6. f = [l \in {-1} \cup Layers |-> IF l = -1 THEN -1 ELSE Better(c, f[l - 1], l)]
  BY <1>4, <1>5, <1>0
<1> DEFINE g == CHOOSE h : h = [l \in {-1} \cup Layers |-> IF l = -1 THEN -1 ELSE Better(c, h[l - 1], l)]
<1>7. g = [l \in {-1} \cup Layers |-> IF l = -1 THEN -1 ELSE Better(c, g[l - 1], l)]
  BY <1>6
<1>8. RecalculateTargetLayers(c) = g[n - 1]
  BY DEF RecalculateTargetLayers, Better, n
<1> HIDE DEF g
<1>9. QED  BY <1>0, <1>7, <1>8 DEF n

\* x is the lowest of C from the preferred layer up, or else the highest.
Chosen(c, C, x) ==
  /\ x \in C \cup {-1}
  /\ \A y \in C : y >= c.preferred => x >= c.preferred /\ x <= y
  /\ x < c.preferred => \A y \in C : y <= x

\* The layers that can be chosen.
Can(c) == {l \in c.alive : CanSwitchToSpatialLayer(c, l)}

\* It finds none or a layer that may be switched to.
LEMMA RecalculatedIsOpen ==
  ASSUME plan \in Plans, NEW c
  PROVE  RecalculateTargetLayers(c) \in Open(c)
<1> DEFINE n == plan.layers
<1>0. n \in Nat \ {0} /\ {-1} \cup Layers = -1 .. n - 1
  BY LayersAre
<1>1. PICK f : /\ \A l \in -1 .. n - 1 : f[l] = IF l = -1 THEN -1 ELSE Better(c, f[l - 1], l)
               /\ RecalculateTargetLayers(c) = f[n - 1]
  BY RecalculateLoops
<1> HIDE DEF n
<1> DEFINE T == {l \in -1 .. n - 1 : f[l] \in Open(c)}
<1>2. -1 \in T
  BY <1>0, <1>1 DEF Open
<1>3. ASSUME NEW l \in -1 + 1 .. n - 1, l - 1 \in T  PROVE l \in T
  <2>1. l \in Layers /\ l \in -1 .. n - 1 /\ l # -1
    BY <1>0
  <2>2. f[l] = Better(c, f[l - 1], l) /\ f[l - 1] \in Open(c)
    BY <1>1, <1>3, <2>1
  <2>3. QED  BY <2>1, <2>2 DEF Better, Open
<1>4. -1 .. n - 1 \subseteq T
  <2> HIDE DEF T
  <2>1. -1 \in Int /\ n - 1 \in Int
    BY <1>0
  <2>2. QED  BY <1>2, <1>3, <2>1, IntervalInduction
<1>5. n - 1 \in -1 .. n - 1
  BY <1>0
<1>6. QED  BY <1>1, <1>4, <1>5

\* When the bitrate is not managed, it finds the best one.
LEMMA RecalculatedIsChosen ==
  ASSUME plan \in Plans, ~plan.managed, NEW c, Typed(c), ~c.wary
  PROVE  Chosen(c, Can(c), RecalculateTargetLayers(c))
<1> DEFINE n == plan.layers
           Below(l) == {k \in Can(c) : k <= l}
<1>0. n \in Nat \ {0} /\ {-1} \cup Layers = -1 .. n - 1 /\ Layers \subseteq Nat
  BY LayersAre
<1>1. PICK f : /\ \A l \in -1 .. n - 1 : f[l] = IF l = -1 THEN -1 ELSE Better(c, f[l - 1], l)
               /\ RecalculateTargetLayers(c) = f[n - 1]
  BY RecalculateLoops
<1> HIDE DEF n
<1>2. Can(c) \subseteq 0 .. n - 1 /\ c.preferred \in 0 .. n - 1
  BY <1>0 DEF Can, Typed
<1> DEFINE T == {l \in -1 .. n - 1 : Chosen(c, Below(l), f[l])}
<1>3. -1 \in T
  <2>1. Below(-1) = {} /\ f[-1] = -1 /\ -1 \in -1 .. n - 1
    BY <1>0, <1>1, <1>2
  <2>2. QED  BY <2>1 DEF Chosen
<1>4. ASSUME NEW l \in -1 + 1 .. n - 1, l - 1 \in T  PROVE l \in T
  <2> DEFINE a == f[l - 1]
  <2>1. l \in 0 .. n - 1 /\ l \in -1 .. n - 1 /\ l # -1
    BY <1>0
  <2>2. f[l] = Better(c, a, l) /\ Chosen(c, Below(l - 1), a)
    BY <1>1, <1>4, <2>1
  <2>3. f[l] = IF a >= c.preferred \/ l \notin Can(c) THEN a ELSE l
    BY <2>2 DEF Better, Can
  <2>4. Below(l) = Below(l - 1) \cup (Can(c) \cap {l})
    BY <1>2, <2>1
  <2>5. \A k \in Below(l - 1) : k \in 0 .. n - 1 /\ k < l
    BY <1>2, <2>1
  <2>6. a \in -1 .. n - 1 /\ a < l
    BY <2>1, <2>2, <2>5, <1>0 DEF Chosen
  <2> HIDE DEF a, Below
  <2>7. CASE l \notin Can(c)
    <3>1. Below(l) = Below(l - 1) /\ f[l] = a
      BY <2>3, <2>4, <2>7
    <3>2. QED  BY <3>1, <2>1, <2>2
  <2>8. CASE l \in Can(c)
    <3>1. Below(l) = Below(l - 1) \cup {l}
      BY <2>4, <2>8
    <3>2. CASE a >= c.preferred
      BY <3>1, <3>2, <2>1, <2>2, <2>3, <2>5, <2>6, <1>2 DEF Chosen
    <3>3. CASE ~(a >= c.preferred)
      <4>1. f[l] = l
        BY <3>3, <2>3, <2>8
      <4>2. \A k \in Below(l - 1) : k < c.preferred
        BY <3>3, <2>2, <2>5, <1>2 DEF Chosen
      <4>3. QED  BY <4>1, <4>2, <3>1, <2>1, <2>5, <1>2 DEF Chosen
    <3>4. QED  BY <3>2, <3>3
  <2>9. QED  BY <2>7, <2>8
<1>5. -1 .. n - 1 \subseteq T
  <2> HIDE DEF T
  <2>1. -1 \in Int /\ n - 1 \in Int
    BY <1>0
  <2>2. QED  BY <1>3, <1>4, <2>1, IntervalInduction
<1>6. n - 1 \in T
  <2>1. n - 1 \in -1 .. n - 1
    BY <1>0
  <2> HIDE DEF T
  <2>2. QED  BY <1>5, <2>1
<1>7. Below(n - 1) = Can(c)
  BY <1>2, <1>0
<1>8. QED  BY <1>1, <1>6, <1>7

\* The least element is Min.
LEMMA SmallestIsMin ==
  ASSUME NEW S \in SUBSET Nat, S # {}
  PROVE  Min(S) \in S /\ \A x \in S : Min(S) <= x
BY Smallest DEF Min

\* The transport too gives only layers that may be switched to.
LEMMA IncreasedIsOpen ==
  ASSUME plan \in Plans, NEW c, Typed(c), NEW from, NEW l \in IncreaseLayer(c, from)
  PROVE  l \in Open(c)
<1> DEFINE tested == {k \in c.here : /\ k > from /\ CanSwitchToSpatialLayer(c, k)
                                     /\ from # -1 /\ k \in c.young => from \in c.young}
<1>1. l \in tested
  BY DEF IncreaseLayer
<1>2. QED  BY <1>1 DEF Open, Typed

\* So whatever the bitrate is, that is what comes of its distribution.
LEMMA DistributesOpen ==
  ASSUME plan \in Plans, NEW c, Typed(c), IsActive(c), NEW d \in Distribute(c)
  PROVE  \E l \in Open(c) : d \in ApplyLayers(c, l)
<1> DEFINE n == plan.layers
           S == SUBSET Open(c)
           init == {-1}
           low == 0
           Grown(a) == a \cup UNION {IncreaseLayer(c, l) : l \in a}
           step == [x \in S \X (low + 1 .. n) |-> Grown(x[1])]
<1>0. n \in Nat \ {0}
  BY LayersAre
<1> HIDE DEF n
<1>1. ASSUME NEW a \in S  PROVE Grown(a) \in S
  BY IncreasedIsOpen
<1>2. init \in S /\ low \in Int /\ n \in Int /\ low <= n
  BY <1>0 DEF Open
<1> HIDE DEF S, Grown
<1>3. step \in [S \X (low + 1 .. n) -> S]
  BY <1>1
<1>4. PICK f \in [low .. n -> S] : LoopsThrough(f, init, low, n, step)
  <2> HIDE DEF step, low, init
  <2>1. QED  BY <1>2, <1>3, LoopHasResult
<1>5. \A k \in 0 .. n : f[k] = IF k = 0 THEN {-1} ELSE Grown(f[k - 1])
  <2>1. ASSUME NEW k \in 0 .. n, k # 0  PROVE step[<<f[k - 1], k>>] = Grown(f[k - 1])
    <3>1. f[k - 1] \in S /\ k \in low + 1 .. n
      BY <2>1, <1>0, <1>4
    <3>2. QED  BY <3>1
  <2> HIDE DEF step
  <2>2. QED  BY <1>4, <2>1 DEF LoopsThrough
<1>6. f = [k \in 0 .. n |-> IF k = 0 THEN {-1} ELSE Grown(f[k - 1])]
  BY <1>4, <1>5
<1> DEFINE g == CHOOSE h : h = [k \in 0 .. n |-> IF k = 0 THEN {-1} ELSE Grown(h[k - 1])]
<1>7. g = [k \in 0 .. n |-> IF k = 0 THEN {-1} ELSE Grown(g[k - 1])]
  BY <1>6
<1>8. d \in UNION {ApplyLayers(c, l) : l \in g[n]}
  BY DEF Distribute, n, Grown
<1> HIDE DEF g
<1> DEFINE T == {k \in 0 .. n : g[k] \in S}
<1>9. 0 \in T
  BY <1>0, <1>2, <1>7
<1>10. ASSUME NEW k \in 0 + 1 .. n, k - 1 \in T  PROVE k \in T
  <2>1. k \in 0 .. n /\ k # 0 /\ g[k - 1] \in S
    BY <1>0, <1>10
  <2> HIDE DEF T
  <2>2. g[k] = Grown(g[k - 1])
    BY <1>7, <2>1
  <2>3. QED  BY <2>1, <2>2, <1>1 DEF T
<1>11. 0 .. n \subseteq T
  <2> HIDE DEF T
  <2>1. QED  BY <1>0, <1>9, <1>10, IntervalInduction
<1>12. g[n] \in S
  BY <1>0, <1>11
<1>13. QED  BY <1>8, <1>12 DEF S

-----------------------------------------------------------------------------
(* The invariant                                                           *)

Wariness(c) == ~plan.managed => ~c.wary

\* No target means no layer, no activity means no target.
Rests(c) == c.target = -1 => c.current = -1
Idle(c) == ~IsActive(c) => c.target = -1

\* A target has a reference, and may be switched to.
Known(c) == c.target # -1 => c.tsRef # -1 /\ CanSwitchToSpatialLayer(c, c.target)

\* The key frame of the target has been asked for, or is one of those that came.
Awaits(c, come) == c.target \notin {-1, c.current} => c.target \in c.asked \cup come

Best(c) == ~plan.managed /\ IsActive(c) => Chosen(c, Can(c), c.target)

\* What holds of the consumer as its layers are looked at again, and after.
Loose(c, come) == Typed(c) /\ Wariness(c) /\ Rests(c) /\ Known(c) /\ Awaits(c, come)
Sound(c, come) == Loose(c, come) /\ Idle(c) /\ Best(c)

SameStreams(c, d) ==
  /\ d.here = c.here /\ d.alive = c.alive /\ d.reported = c.reported
  /\ d.off = c.off /\ d.preferred = c.preferred

\* UpdateTargetLayers, field by field.
LEMMA UpdatedLayers ==
  ASSUME plan \in Plans, NEW c, Typed(c), NEW l \in Layers \cup {-1},
         NEW d, d = UpdateTargetLayers(c, l)
  PROVE  /\ Typed(d) /\ SameStreams(c, d) /\ d.wary = c.wary /\ d.young = c.young
         /\ d.target = l
         /\ d.current = IF l = -1 THEN -1 ELSE c.current
         /\ d.tsRef = IF l # -1 /\ c.tsRef = -1 THEN l ELSE c.tsRef
         /\ c.asked \subseteq d.asked
         /\ l \notin {-1, c.current} => l \in d.asked
<1>1. CASE l = -1
  BY <1>1 DEF UpdateTargetLayers, Typed, Control, SameStreams
<1>2. CASE l # -1
  BY <1>2 DEF UpdateTargetLayers, Typed, Control, SameStreams
<1>3. QED  BY <1>1, <1>2

\* It leaves the layers in order, the best one the best: with the first target, which
\* becomes the reference, fewer layers may be switched to than before.
LEMMA UpdatedIsLoose ==
  ASSUME plan \in Plans, NEW c, NEW come, Loose(c, come), NEW l \in Open(c),
         NEW d, d = UpdateTargetLayers(c, l)
  PROVE  /\ Loose(d, come)
         /\ l = -1 \/ IsActive(c) => Idle(d)
         /\ ~plan.managed /\ Chosen(c, Can(c), l) => Best(d)
<1>1. Typed(c) /\ l \in Layers \cup {-1} /\ Layers \subseteq Nat
  BY LayersAre DEF Loose, Open
<1>2. /\ Typed(d) /\ SameStreams(c, d) /\ d.wary = c.wary
      /\ d.target = l
      /\ d.current = IF l = -1 THEN -1 ELSE c.current
      /\ d.tsRef = IF l # -1 /\ c.tsRef = -1 THEN l ELSE c.tsRef
      /\ c.asked \subseteq d.asked
      /\ l \notin {-1, c.current} => l \in d.asked
  BY <1>1, UpdatedLayers
<1>3. IsActive(d) <=> IsActive(c)
  BY <1>2 DEF IsActive, Wanted, SameStreams
<1>4. Known(d)
  <2>1. CASE l = -1
    BY <1>2, <2>1 DEF Known
  <2>2. CASE l # -1
    <3>1. CanSwitchToSpatialLayer(c, l)
      BY <2>2 DEF Open
    <3>2. QED  BY <2>2, <3>1, <1>1, <1>2 DEF Known, CanSwitchToSpatialLayer, SameStreams
  <2>3. QED  BY <2>1, <2>2
<1>5. Rests(d) /\ Wariness(d) /\ Awaits(d, come)
  BY <1>1, <1>2 DEF Rests, Wariness, Awaits, Loose
<1>6. ASSUME ~plan.managed, Chosen(c, Can(c), l)  PROVE Best(d)
  <2>1. Can(d) \subseteq Can(c)
    BY <1>1, <1>2 DEF Can, CanSwitchToSpatialLayer, SameStreams, Typed
  <2>2. l # -1 => l \in Can(d)
    BY <1>4, <1>6, <1>2 DEF Known, Can, SameStreams, Chosen
  <2>3. Chosen(d, Can(d), l)
    BY <2>1, <2>2, <1>6, <1>2 DEF Chosen, SameStreams
  <2>4. QED  BY <2>3, <1>2 DEF Best
<1>7. QED  BY <1>2, <1>3, <1>4, <1>5, <1>6 DEF Loose, Idle

\* ApplyLayers, with the bitrate managed.
LEMMA AppliedIsSound ==
  ASSUME plan \in Plans, NEW c, NEW come, Loose(c, come), IsActive(c), NEW l \in Open(c),
         NEW d \in ApplyLayers(c, l), plan.managed
  PROVE  Sound(d, come) /\ SameStreams(c, d) /\ c.asked \subseteq d.asked
<1>1. Typed(c)
  BY DEF Loose
<1>2. CASE l = c.target
  <2>1. d = c
    BY <1>2 DEF ApplyLayers
  <2>2. QED  BY <2>1 DEF Sound, Best, Idle, SameStreams
<1>3. CASE l # c.target
  <2> DEFINE u == UpdateTargetLayers(c, l)
  <2>1. Loose(u, come) /\ SameStreams(c, u) /\ c.asked \subseteq u.asked
    BY <1>1, UpdatedLayers, UpdatedIsLoose DEF Open
  <2>2. d = u \/ d = [u EXCEPT !.wary = TRUE]
    BY <1>3 DEF ApplyLayers
  <2> HIDE DEF u
  <2>3. Loose(d, come) /\ SameStreams(u, d) /\ d.asked = u.asked
    <3>1. CASE d = u
      BY <3>1, <2>1 DEF SameStreams
    <3>2. CASE d = [u EXCEPT !.wary = TRUE]
      <4>1. /\ Control \subseteq DOMAIN d /\ SameStreams(u, d) /\ d.asked = u.asked
            /\ d.target = u.target /\ d.current = u.current /\ d.tsRef = u.tsRef
        BY <3>2, <2>1 DEF SameStreams, Loose, Typed
      <4>2. Typed(d) /\ Wariness(d) /\ Rests(d) /\ Awaits(d, come)
        BY <4>1, <2>1 DEF Loose, Typed, Wariness, Rests, Awaits, SameStreams
      <4>3. Known(d)
        BY <4>1, <2>1 DEF Loose, Known, CanSwitchToSpatialLayer, SameStreams
      <4>4. QED  BY <4>1, <4>2, <4>3 DEF Loose
    <3>3. QED  BY <2>2, <3>1, <3>2
  <2>4. SameStreams(c, d) /\ c.asked \subseteq d.asked
    BY <2>1, <2>3 DEF SameStreams
  <2>5. IsActive(d)
    BY <2>4 DEF IsActive, Wanted, SameStreams
  <2>6. QED  BY <2>3, <2>4, <2>5 DEF Sound, Idle, Best
<1>4. QED  BY <1>2, <1>3

\* RTC::SimulcastConsumer::MayChangeLayers leaves the layers sound.
LEMMA MayChangeLayersIsSound ==
  ASSUME plan \in Plans, NEW c, NEW come, Loose(c, come), IsActive(c), NEW force,
         NEW d \in MayChangeLayers(c, force)
  PROVE  Sound(d, come) /\ SameStreams(c, d) /\ c.asked \subseteq d.asked
<1> DEFINE layer == RecalculateTargetLayers(c)
<1>1. Typed(c) /\ Wariness(c) /\ layer \in Open(c) /\ c.target \in Layers \cup {-1}
  BY RecalculatedIsOpen DEF Loose, Typed
<1> HIDE DEF layer
<1>2. CASE plan.managed
  <2>1. c.target \in Open(c)
    BY <1>1 DEF Open, Known, Loose
  <2>2. \E l \in Open(c) : d \in ApplyLayers(c, l)
    <3>1. CASE d \in Distribute(c)
      BY <1>1, <3>1, DistributesOpen
    <3>2. CASE d = c
      BY <2>1, <3>2 DEF ApplyLayers
    <3>3. QED  BY <1>2, <3>1, <3>2 DEF MayChangeLayers
  <2>3. QED  BY <2>2, <1>2, AppliedIsSound
<1>3. CASE ~plan.managed
  <2>1. Chosen(c, Can(c), layer)
    BY <1>1, <1>3, RecalculatedIsChosen DEF Wariness, layer
  <2>2. d = IF layer = c.target THEN c ELSE UpdateTargetLayers(c, layer)
    BY <1>3 DEF MayChangeLayers, layer
  <2>3. CASE layer = c.target
    BY <2>1, <2>2, <2>3 DEF Sound, Idle, Best, SameStreams
  <2>4. CASE layer # c.target
    <3>1. d = UpdateTargetLayers(c, layer)
      BY <2>2, <2>4
    <3>2. SameStreams(c, d) /\ c.asked \subseteq d.asked
      BY <3>1, <1>1, UpdatedLayers DEF Open
    <3>3. QED  BY <3>1, <3>2, <2>1, <1>1, <1>3, UpdatedIsLoose DEF Sound
  <2>5. QED  BY <2>3, <2>4
<1>4. QED  BY <1>2, <1>3

\* And so does looking at them only if the consumer is active.
LEMMA MayChangeIfActiveIsSound ==
  ASSUME plan \in Plans, NEW c, NEW come, Loose(c, come), Idle(c),
         NEW d \in MayChangeIfActive(c)
  PROVE  Sound(d, come) /\ SameStreams(c, d) /\ c.asked \subseteq d.asked
<1>1. CASE IsActive(c)
  BY <1>1, MayChangeLayersIsSound DEF MayChangeIfActive
<1>2. CASE ~IsActive(c)
  BY <1>2 DEF MayChangeIfActive, Sound, Best, SameStreams
<1>3. QED  BY <1>1, <1>2

\* Transport::DistributeAvailableOutgoingBitrate too.
LEMMA DistributeIsSound ==
  ASSUME plan \in Plans, plan.managed, NEW c, NEW come, Loose(c, come), Idle(c),
         NEW d \in Distribute(c)
  PROVE  Sound(d, come) /\ SameStreams(c, d)
<1>1. CASE IsActive(c)
  <2>1. \E l \in Open(c) : d \in ApplyLayers(c, l)
    BY <1>1, DistributesOpen DEF Loose
  <2>2. QED  BY <2>1, <1>1, AppliedIsSound
<1>2. CASE ~IsActive(c)
  BY <1>2 DEF Distribute, Sound, Best, SameStreams
<1>3. QED  BY <1>1, <1>2

-----------------------------------------------------------------------------
(* A packet                                                                *)

\* Nothing that the choice of layers looks at differs.
SameControl(c, d) ==
  /\ DOMAIN d = DOMAIN c
  /\ d.here = c.here /\ d.alive = c.alive /\ d.young = c.young /\ d.reported = c.reported
  /\ d.off = c.off /\ d.preferred = c.preferred /\ d.wary = c.wary
  /\ d.target = c.target /\ d.current = c.current /\ d.tsRef = c.tsRef
  /\ d.asked = c.asked

\* Such a change keeps the layers sound.
LEMMA SameControlIsSound ==
  ASSUME NEW c, NEW d, NEW come, Sound(c, come), SameControl(c, d)
  PROVE  Sound(d, come)
<1>1. IsActive(d) <=> IsActive(c)
  BY DEF SameControl, IsActive, Wanted
<1>2. Typed(d) /\ Wariness(d) /\ Rests(d) /\ Awaits(d, come) /\ Idle(d)
  BY <1>1 DEF SameControl, Sound, Loose, Typed, Wariness, Rests, Awaits, Idle
<1>3. Known(d)
  BY DEF SameControl, Sound, Loose, Known, CanSwitchToSpatialLayer
<1>4. Best(d)
  <2>1. Can(d) = Can(c)
    BY DEF SameControl, Can, CanSwitchToSpatialLayer
  <2>2. QED  BY <1>1, <2>1 DEF SameControl, Sound, Best, Chosen
<1>5. QED  BY <1>2, <1>3, <1>4 DEF Sound, Loose

LEMMA StampedKeepsControl ==
  ASSUME NEW c, NEW out
  PROVE  SameControl(c, Stamped(c, out).c)
<1> DEFINE v == ReceiveStreamPacket(c.snd, out.seq)
           stamp == IF v.ok /\ (~c.snd.started \/ v.reset \/ Ts!IsSeqHigherThan(out.ts, c.maxTs))
                    THEN out.ts ELSE c.maxTs
           d == [c EXCEPT !.snd = v.rs, !.maxTs = stamp]
<1>1. Stamped(c, out).c = d
  BY DEF Stamped
<1> HIDE DEF v, stamp
<1>2. SameControl(c, d)
  BY DEF SameControl
<1>3. QED  BY <1>1, <1>2

LEMMA ForwardKeepsControl ==
  ASSUME NEW c, NEW p, NEW r \in Forward(c, p)
  PROVE  SameControl(c, r.c)
<1> DEFINE out(x) == [seq |-> x.output, ts |-> Ts!Wrap(TsOf(p) - c.tsOffset)]
           s(x) == Stamped([c EXCEPT !.sm = x.sm], out(x))
           result(x) == IF s(x).ok /\ x.sm.maxOutput = x.output
                        THEN [s(x).c EXCEPT !.complete = p.tick \notin plan.torn] ELSE s(x).c
<1>1. \E x \in Input(c.sm, SeqOf(p)) :
        r = [c |-> result(x), sent |-> IF s(x).ok THEN {x.output} ELSE {}]
  BY Zenon DEF Forward
<1>2. PICK x : r.c = result(x)
  <2> HIDE DEF result, s
  <2>1. QED  BY <1>1
<1> DEFINE c1 == [c EXCEPT !.sm = x.sm]
           c2 == s(x).c
<1>3. SameControl(c, c1)
  BY DEF SameControl
<1>4. SameControl(c1, c2)
  <2>1. c2 = Stamped(c1, out(x)).c
    OBVIOUS
  <2> HIDE DEF c1, c2
  <2>2. QED  BY <2>1, StampedKeepsControl
<1>5. r.c = c2 \/ r.c = [c2 EXCEPT !.complete = p.tick \notin plan.torn]
  <2> HIDE DEF s
  <2>1. QED  BY <1>2
<1> HIDE DEF s, c1, c2
<1>6. SameControl(c2, r.c)
  <2> DEFINE whole == p.tick \notin plan.torn
  <2>1. r.c = c2 \/ r.c = [c2 EXCEPT !.complete = whole]
    BY <1>5
  <2> HIDE DEF whole
  <2>2. CASE r.c = c2
    BY <2>2 DEF SameControl
  <2>3. CASE r.c = [c2 EXCEPT !.complete = whole]
    BY <2>3 DEF SameControl
  <2>4. QED  BY <2>1, <2>2, <2>3
<1>7. QED  BY <1>3, <1>4, <1>6 DEF SameControl

LEMMA SyncedKeepsControl ==
  ASSUME NEW c, NEW p
  PROVE  SameControl(c, Synced(c, p))
BY DEF SameControl, Synced

\* A key frame that comes need not be asked for until it is dealt with.
Come(p) == IF p.kind = "key" THEN {p.layer} ELSE {}

\* A key frame that is of no use to the consumer was not what it waits for.
LEMMA NotSwitchedIsSound ==
  ASSUME NEW c, NEW p, Sound(c, Come(p)), ~Switches(c, p) \/ p.kind # "key" \/ ~IsActive(c)
  PROVE  Sound(c, {})
<1>1. Awaits(c, {})
  BY DEF Awaits, Sound, Loose, Come, Switches, Idle
<1>2. QED  BY <1>1 DEF Sound, Loose

LEMMA RefuseIsSound ==
  ASSUME NEW c, NEW come, Sound(c, come)
  PROVE  Sound(Refuse(c), {})
<1> DEFINE d == Refuse(c)
<1>1. /\ DOMAIN d = DOMAIN c
      /\ d.here = c.here /\ d.alive = c.alive /\ d.reported = c.reported
      /\ d.off = c.off /\ d.preferred = c.preferred /\ d.wary = c.wary
      /\ d.target = c.target /\ d.current = c.current /\ d.tsRef = c.tsRef
      /\ d.asked = c.asked \cup {c.target}
  BY DEF Refuse, Sound, Loose, Typed, Control
<1> HIDE DEF d
<1>2. IsActive(d) <=> IsActive(c)
  BY <1>1 DEF IsActive, Wanted
<1>3. Typed(d) /\ Wariness(d) /\ Rests(d) /\ Awaits(d, {}) /\ Idle(d)
  BY <1>1, <1>2 DEF Sound, Loose, Typed, Wariness, Rests, Awaits, Idle
<1>4. Known(d)
  BY <1>1 DEF Sound, Loose, Known, CanSwitchToSpatialLayer
<1>5. Can(d) = Can(c)
  BY <1>1 DEF Can, CanSwitchToSpatialLayer
<1>6. Best(d)
  BY <1>1, <1>2, <1>5 DEF Sound, Best, Chosen
<1>7. QED  BY <1>3, <1>4, <1>6 DEF Sound, Loose, d

LEMMA SwitchedIsSound ==
  ASSUME NEW c, NEW p, NEW come, Sound(c, come)
  PROVE  Sound(Switched(c, p), {})
<1> DEFINE d == Switched(c, p)
<1>1. /\ DOMAIN d = DOMAIN c
      /\ d.here = c.here /\ d.alive = c.alive /\ d.reported = c.reported
      /\ d.off = c.off /\ d.preferred = c.preferred /\ d.wary = c.wary
      /\ d.target = c.target /\ d.current = c.target /\ d.tsRef = c.tsRef
      /\ d.asked = c.asked
  BY DEF Switched, Sound, Loose, Typed, Control
<1> HIDE DEF d
<1>2. IsActive(d) <=> IsActive(c)
  BY <1>1 DEF IsActive, Wanted
<1>3. Typed(d) /\ Wariness(d) /\ Rests(d) /\ Awaits(d, {}) /\ Idle(d)
  BY <1>1, <1>2 DEF Sound, Loose, Typed, Wariness, Rests, Awaits, Idle
<1>4. Known(d)
  BY <1>1 DEF Sound, Loose, Known, CanSwitchToSpatialLayer
<1>5. Can(d) = Can(c)
  BY <1>1 DEF Can, CanSwitchToSpatialLayer
<1>6. Best(d)
  BY <1>1, <1>2, <1>5 DEF Sound, Best, Chosen
<1>7. QED  BY <1>3, <1>4, <1>6 DEF Sound, Loose, d

\* The packet the key frame of which is waited for switches to its layer, or is
\* refused and another is asked for.
LEMMA SendRtpPacketIsSound ==
  ASSUME NEW c, NEW p, Sound(c, Come(p)), NEW r \in SendRtpPacket(c, p)
  PROVE  Sound(r.c, {})
<1> DEFINE synced == IF Syncs(c, p) THEN Synced(c, p) ELSE c
<1>1. CASE ~IsActive(c)
  <2>1. r.c = c
    BY <1>1 DEF SendRtpPacket, Unsent
  <2>2. QED  BY <1>1, <2>1, NotSwitchedIsSound
<1>2. CASE IsActive(c) /\ p.kind = "pad"
  <2>0. PICK sm \in Drop(c.sm, SeqOf(p)) : r = Unsent([c EXCEPT !.sm = sm])
    BY <1>2, Zenon DEF SendRtpPacket
  <2>1. r.c = [c EXCEPT !.sm = sm]
    BY <2>0 DEF Unsent
  <2>2. SameControl(c, r.c)
    BY <2>1 DEF SameControl
  <2>3. Sound(c, {})
    BY <1>2, NotSwitchedIsSound
  <2>4. QED  BY <2>2, <2>3, SameControlIsSound
<1>3. CASE IsActive(c) /\ p.kind # "pad" /\ Ignored(c, p)
  <2>1. r.c = c
    BY <1>3 DEF SendRtpPacket, Unsent
  <2>2. ~Switches(c, p) \/ p.kind # "key" \/ c.target = -1
    BY <1>3 DEF Ignored
  <2>3. CASE c.target = -1
    BY <2>1, <2>3 DEF Sound, Loose, Awaits
  <2>4. CASE ~Switches(c, p) \/ p.kind # "key"
    BY <2>1, <2>4, NotSwitchedIsSound
  <2>5. QED  BY <2>2, <2>3, <2>4
<1>4. CASE IsActive(c) /\ p.kind # "pad" /\ ~Ignored(c, p) /\ Refused(c, p)
  <2>1. r.c = Refuse(c)
    BY <1>4 DEF SendRtpPacket, Unsent
  <2>2. QED  BY <2>1, RefuseIsSound
<1>5. CASE IsActive(c) /\ p.kind # "pad" /\ ~Ignored(c, p) /\ ~Refused(c, p)
  <2>1. r \in IF TooOld(synced, p) THEN {Unsent(synced)} ELSE Forward(Located(synced, p), p)
    BY <1>5, Zenon DEF SendRtpPacket
  <2>2. SameControl(c, synced)
    <3>1. SameControl(c, c)
      BY DEF SameControl
    <3>2. QED  BY <3>1, SyncedKeepsControl
  <2> HIDE DEF synced
  <2>3. Sound(synced, Come(p))
    BY <2>2, SameControlIsSound
  <2>4. CASE TooOld(synced, p)
    <3>1. r.c = synced
      BY <2>1, <2>4 DEF Unsent
    <3>2. ~Switches(synced, p)
      BY <2>4 DEF TooOld
    <3>3. QED  BY <2>3, <3>1, <3>2, NotSwitchedIsSound
  <2>5. CASE ~TooOld(synced, p)
    <3>1. SameControl(Located(synced, p), r.c)
      BY <2>1, <2>5, ForwardKeepsControl
    <3>2. Sound(Located(synced, p), {})
      <4>1. CASE Switches(synced, p)
        BY <4>1, <2>3, SwitchedIsSound DEF Located
      <4>2. CASE ~Switches(synced, p)
        <5> DEFINE check == synced.checking /\ ~IsSeqHigherThan(SeqOf(p),
                                                   Wrap(synced.snRef + MaxSequenceNumberGap))
        <5>1. Located(synced, p) = [synced EXCEPT !.checking = check]
          BY <4>2 DEF Located
        <5> HIDE DEF check
        <5>2. SameControl(synced, Located(synced, p))
          BY <5>1 DEF SameControl
        <5>3. Sound(synced, {})
          BY <4>2, <2>3, NotSwitchedIsSound
        <5>4. QED  BY <5>2, <5>3, SameControlIsSound
      <4>3. QED  BY <4>1, <4>2
    <3>3. QED  BY <3>1, <3>2, SameControlIsSound
  <2>6. QED  BY <2>4, <2>5
<1>6. QED  BY <1>1, <1>2, <1>3, <1>4, <1>5

-----------------------------------------------------------------------------
(* Producer::ReceiveRtpPacket                                              *)

\* A change of what the streams are asked for, by Told and its like.
LEMMA AskedIsSound ==
  ASSUME NEW c, NEW asked, NEW p, Sound(c, {}), c.asked \subseteq asked \cup Come(p)
  PROVE  Sound([c EXCEPT !.asked = asked], Come(p))
<1> DEFINE d == [c EXCEPT !.asked = asked]
<1>1. /\ DOMAIN d = DOMAIN c
      /\ d.here = c.here /\ d.alive = c.alive /\ d.reported = c.reported
      /\ d.off = c.off /\ d.preferred = c.preferred /\ d.wary = c.wary
      /\ d.target = c.target /\ d.current = c.current /\ d.tsRef = c.tsRef
      /\ d.asked = asked
  BY DEF Sound, Loose, Typed, Control
<1> HIDE DEF d
<1>2. IsActive(d) <=> IsActive(c)
  BY <1>1 DEF IsActive, Wanted
<1>3. Typed(d) /\ Wariness(d) /\ Rests(d) /\ Awaits(d, Come(p)) /\ Idle(d)
  BY <1>1, <1>2 DEF Sound, Loose, Typed, Wariness, Rests, Awaits, Idle
<1>4. Known(d)
  BY <1>1 DEF Sound, Loose, Known, CanSwitchToSpatialLayer
<1>5. Can(d) = Can(c)
  BY <1>1 DEF Can, CanSwitchToSpatialLayer
<1>6. Best(d)
  BY <1>1, <1>2, <1>5 DEF Sound, Best, Chosen
<1>7. QED  BY <1>3, <1>4, <1>6 DEF Sound, Loose, d

\* A packet that arrives brings back its stream, if need be, and answers its key frame
\* request; the consumer looks at its layers again.
LEMMA ReceivedIsSound ==
  ASSUME plan \in Plans, NEW c, NEW p, Sound(c, {}), p.layer \in Layers,
         NEW d \in Received(c, p)
  PROVE  Sound(d, Come(p))
<1> DEFINE l == p.layer
           young == IF plan.managed THEN c.young \cup {l} ELSE c.young
           woken == [c EXCEPT !.here = @ \cup {l}, !.alive = @ \cup {l}, !.young = young]
           told(e) == IF p.kind = "key" THEN e.asked \ {l} ELSE e.asked
           Told(e) == [e EXCEPT !.asked = told(e)]
           Forced(e) == [e EXCEPT !.asked = IF p.kind = "key" \/ "producer" \in e.off
                                            THEN @ ELSE @ \cup {l}]
<1>1. \A e : e.asked \subseteq told(e) \cup Come(p)
  BY DEF Come
<1>2. \A e : Sound(e, {}) => Sound(Told(e), Come(p))
  <2> HIDE DEF told
  <2>1. QED  BY <1>1, AskedIsSound
<1>3. d \in IF l \notin c.here THEN MayChangeIfActive(Forced(Told(woken)))
            ELSE IF l \notin c.alive THEN {Told(e) : e \in MayChangeIfActive(woken)}
            ELSE {Told(c)}
  BY DEF Received
<1>4. /\ DOMAIN woken = DOMAIN c
      /\ woken.here = c.here \cup {l} /\ woken.alive = c.alive \cup {l}
      /\ woken.reported = c.reported /\ woken.asked = c.asked
      /\ woken.off = c.off /\ woken.preferred = c.preferred /\ woken.wary = c.wary
      /\ woken.target = c.target /\ woken.current = c.current /\ woken.tsRef = c.tsRef
  <2> HIDE DEF young
  <2>1. QED  BY DEF Sound, Loose, Typed, Control
<1> HIDE DEF woken
<1>5. Loose(woken, {}) /\ Idle(woken)
  <2>1. Typed(woken) /\ Wariness(woken) /\ Rests(woken) /\ Awaits(woken, {})
    BY <1>4 DEF Sound, Loose, Typed, Wariness, Rests, Awaits
  <2>2. Known(woken)
    BY <1>4 DEF Sound, Loose, Known, CanSwitchToSpatialLayer
  <2>3. Idle(woken)
    BY <1>4 DEF Sound, Idle, IsActive, Wanted
  <2>4. QED  BY <2>1, <2>2, <2>3 DEF Loose
<1>6. CASE l \notin c.here
  <2> DEFINE e == Forced(Told(woken))
             asked == IF p.kind = "key" \/ "producer" \in woken.off
                      THEN told(woken) ELSE told(woken) \cup {l}
  <2>1. woken.asked \subseteq asked \cup Come(p)
    BY <1>1
  <2>2. e = [woken EXCEPT !.asked = asked]
    <3> HIDE DEF told
    <3>1. Told(woken).asked = told(woken) /\ Told(woken).off = woken.off
      BY <1>5 DEF Loose, Typed, Control
    <3>2. Forced(Told(woken)) = [Told(woken) EXCEPT !.asked = asked]
      BY <3>1
    <3>3. QED  BY <3>2
  <2> HIDE DEF e, asked, told
  <2>3. /\ DOMAIN e = DOMAIN woken
        /\ e.here = woken.here /\ e.alive = woken.alive /\ e.reported = woken.reported
        /\ e.off = woken.off /\ e.preferred = woken.preferred /\ e.wary = woken.wary
        /\ e.target = woken.target /\ e.current = woken.current /\ e.tsRef = woken.tsRef
        /\ e.asked = asked
    BY <2>2, <1>5 DEF Loose, Typed, Control
  <2>4. Typed(e) /\ Wariness(e) /\ Rests(e) /\ Awaits(e, Come(p))
    BY <2>1, <2>3, <1>5 DEF Loose, Typed, Wariness, Rests, Awaits
  <2>5. Known(e)
    BY <2>3, <1>5 DEF Loose, Known, CanSwitchToSpatialLayer
  <2>6. Idle(e)
    BY <2>3, <1>5 DEF Idle, IsActive, Wanted
  <2>7. Loose(e, Come(p)) /\ d \in MayChangeIfActive(e)
    BY <2>4, <2>5, <1>3, <1>6 DEF Loose, e
  <2>8. QED  BY <2>6, <2>7, MayChangeIfActiveIsSound
<1>7. CASE l \in c.here /\ l \notin c.alive
  <2> HIDE DEF Told
  <2>1. PICK e \in MayChangeIfActive(woken) : d = Told(e)
    BY <1>3, <1>7
  <2>2. Sound(e, {})
    BY <2>1, <1>5, MayChangeIfActiveIsSound
  <2>3. QED  BY <2>1, <2>2, <1>2
<1>8. CASE l \in c.here /\ l \in c.alive
  <2> HIDE DEF Told
  <2>1. d = Told(c)
    BY <1>3, <1>8
  <2>2. QED  BY <2>1, <1>2
<1>9. QED  BY <1>6, <1>7, <1>8

-----------------------------------------------------------------------------
(* The steps                                                               *)

Inv ==
  /\ plan \in Plans
  /\ sending \subseteq Layers
  /\ \A p \in net : p.layer \in Layers
  /\ Sound(w, {})

\* With the plan as it is, what was shown of the consumer is shown of w'.
LEMMA SoundNext ==
  ASSUME plan' = plan, Sound(w', {})
  PROVE  Sound(w, {})'
<1>1. Layers' = Layers
  BY DEF Layers
<1>2. Loose(w, {})'
  BY <1>1 DEF Sound, Loose, Typed, Wariness, Rests, Known, Awaits, CanSwitchToSpatialLayer
<1>3. Idle(w)' /\ Best(w)'
  BY <1>1 DEF Sound, Idle, Best, Chosen, Can, CanSwitchToSpatialLayer, IsActive, Wanted
<1>4. QED  BY <1>2, <1>3 DEF Sound

\* A consumer that may have become active, or has no target.
LEMMA LooseAgain ==
  ASSUME NEW c, NEW d, Sound(c, {}), Control \subseteq DOMAIN d,
         d.here = c.here, d.alive \subseteq Layers, d.reported = c.reported,
         d.preferred \in Layers, d.wary = c.wary, d.asked = c.asked,
         d.target = c.target, d.current = c.current, d.tsRef = c.tsRef
  PROVE  Loose(d, {})
<1>1. Typed(d) /\ Wariness(d) /\ Rests(d) /\ Awaits(d, {})
  BY DEF Sound, Loose, Typed, Wariness, Rests, Awaits
<1>2. Known(d)
  BY DEF Sound, Loose, Known, CanSwitchToSpatialLayer
<1>3. QED  BY <1>1, <1>2 DEF Loose

\* A consumer that is not active has no target, and needs nothing more.
LEMMA StoppedIsSound ==
  ASSUME NEW c, ~IsActive(c), c.target = -1, c.current = -1, Control \subseteq DOMAIN c,
         c.here \subseteq Layers, c.alive \subseteq Layers, c.preferred \in Layers,
         c.tsRef \in Layers \cup {-1}, Wariness(c)
  PROVE  Sound(c, {})
BY DEF Sound, Loose, Typed, Rests, Known, Awaits, Idle, Best

LEMMA InitInv ==
  ASSUME Init
  PROVE  Inv
<1>1. plan \in Plans /\ plan.layers \in Nat \ {0} /\ sending = Layers /\ net = {}
  BY LayersAre DEF Init
<1>2. /\ Control \subseteq DOMAIN w /\ w.here = {} /\ w.alive = {}
      /\ w.preferred = plan.layers - 1 /\ w.target = -1 /\ w.current = -1
      /\ w.tsRef = -1 /\ ~w.wary
  BY DEF Init, Control
<1>3. ~IsActive(w) /\ w.preferred \in Layers /\ Wariness(w)
  BY <1>1, <1>2 DEF IsActive, Layers, Wariness
<1>4. Sound(w, {})
  BY <1>2, <1>3, StoppedIsSound
<1>5. QED  BY <1>1, <1>4 DEF Inv

LEMMA CaptureInv ==
  ASSUME Inv, Capture
  PROVE  Inv'
<1>1. plan' = plan /\ sending' = sending /\ w' = w
  BY DEF Capture
<1>2. ASSUME NEW p \in net'  PROVE p.layer \in Layers'
  <2>1. PICK kind \in [sending -> {"key", "delta", "pad"}] :
          net' = {q \in net : q.tick > now + 1 - plan.window} \cup
                 {[layer |-> l, tick |-> now + 1, kind |-> kind[l]] : l \in sending}
    BY DEF Capture
  <2>2. p \in net \/ \E l \in sending : p = [layer |-> l, tick |-> now + 1, kind |-> kind[l]]
    BY <1>2, <2>1
  <2>3. p.layer \in Layers
    BY <2>2 DEF Inv
  <2>4. QED  BY <1>1, <2>3 DEF Layers
<1>3. QED  BY <1>1, <1>2, SoundNext DEF Inv, Layers

LEMMA ArriveInv ==
  ASSUME Inv, NEW p \in net, Arrive(p)
  PROVE  Inv'
<1>1. plan' = plan /\ sending' = sending /\ net' \subseteq net
  BY DEF Arrive
<1>2. PICK c \in Received(w, p) :
        \E r \in IF "producer" \in c.off THEN {Unsent(c)} ELSE SendRtpPacket(c, p) : w' = r.c
  BY DEF Arrive
<1>3. Sound(c, Come(p))
  BY ReceivedIsSound DEF Inv
<1>4. Sound(w', {})
  <2>1. CASE "producer" \in c.off
    <3>1. w' = c /\ ~IsActive(c)
      BY <1>2, <2>1 DEF Unsent, IsActive, Wanted
    <3>2. QED  BY <3>1, <1>3, NotSwitchedIsSound
  <2>2. CASE "producer" \notin c.off
    BY <1>2, <1>3, <2>2, SendRtpPacketIsSound
  <2>3. QED  BY <2>1, <2>2
<1>5. QED  BY <1>1, <1>4, SoundNext DEF Inv, Layers

LEMMA DieInv ==
  ASSUME Inv, NEW l \in Layers, Die(l)
  PROVE  Inv'
<1> DEFINE c == [w EXCEPT !.alive = @ \ {l}]
<1>1. plan' = plan /\ sending' \subseteq sending /\ net' = net
  BY DEF Die
<1>2. w' \in IF Wanted(c) /\ ~IsActive(c) THEN {UpdateTargetLayers(c, -1)}
             ELSE MayChangeIfActive(c)
  BY DEF Die
<1>3. /\ Control \subseteq DOMAIN c /\ c.here = w.here /\ c.alive = w.alive \ {l}
      /\ c.reported = w.reported /\ c.off = w.off /\ c.preferred = w.preferred
      /\ c.wary = w.wary /\ c.asked = w.asked
      /\ c.target = w.target /\ c.current = w.current /\ c.tsRef = w.tsRef
  BY DEF Inv, Sound, Loose, Typed, Control
<1> HIDE DEF c
<1>4. Loose(c, {})
  BY <1>3, LooseAgain DEF Inv, Sound, Loose, Typed
<1>5. CASE Wanted(c) /\ ~IsActive(c)
  <2>1. w' = UpdateTargetLayers(c, -1)
    BY <1>2, <1>5
  <2>2. /\ Typed(w') /\ SameStreams(c, w') /\ w'.wary = c.wary
        /\ w'.target = -1 /\ w'.current = -1
    BY <2>1, <1>4, UpdatedLayers DEF Inv, Loose
  <2>3. ~IsActive(w') /\ Wariness(w')
    BY <2>2, <1>4, <1>5 DEF IsActive, Wanted, SameStreams, Loose, Wariness
  <2>4. Sound(w', {})
    BY <2>2, <2>3, StoppedIsSound DEF Typed
  <2>5. QED  BY <1>1, <2>4, SoundNext DEF Inv, Layers
<1>6. CASE ~(Wanted(c) /\ ~IsActive(c))
  <2>1. Idle(c)
    BY <1>3, <1>6 DEF Idle, Inv, Sound, IsActive, Wanted
  <2>2. Sound(w', {})
    BY <1>2, <1>4, <1>6, <2>1, MayChangeIfActiveIsSound DEF Inv
  <2>3. QED  BY <1>1, <2>2, SoundNext DEF Inv, Layers
<1>7. QED  BY <1>5, <1>6

LEMMA ProducerRtcpSenderReportInv ==
  ASSUME Inv, NEW l \in Layers, ProducerRtcpSenderReport(l)
  PROVE  Inv'
<1> DEFINE c == [w EXCEPT !.reported = @ \cup {l}]
<1>1. plan' = plan /\ sending' = sending /\ net' = net
  BY DEF ProducerRtcpSenderReport
<1>2. w' \in IF c.tsRef \in c.reported THEN MayChangeIfActive(c) ELSE {c}
  BY DEF ProducerRtcpSenderReport
<1>3. /\ Control \subseteq DOMAIN c /\ c.here = w.here /\ c.alive = w.alive
      /\ c.reported = w.reported \cup {l} /\ c.off = w.off /\ c.preferred = w.preferred
      /\ c.wary = w.wary /\ c.asked = w.asked
      /\ c.target = w.target /\ c.current = w.current /\ c.tsRef = w.tsRef
  BY DEF Inv, Sound, Loose, Typed, Control
<1> HIDE DEF c
<1>4. IsActive(c) <=> IsActive(w)
  BY <1>3 DEF IsActive, Wanted
<1>5. Typed(c) /\ Wariness(c) /\ Rests(c) /\ Awaits(c, {}) /\ Idle(c)
  BY <1>3, <1>4 DEF Inv, Sound, Loose, Typed, Wariness, Rests, Awaits, Idle
<1>6. Known(c)
  BY <1>3 DEF Inv, Sound, Loose, Known, CanSwitchToSpatialLayer
<1>7. CASE c.tsRef \in c.reported
  <2>1. Sound(w', {})
    BY <1>2, <1>5, <1>6, <1>7, MayChangeIfActiveIsSound DEF Inv, Loose
  <2>2. QED  BY <1>1, <2>1, SoundNext DEF Inv, Layers
<1>8. CASE c.tsRef \notin c.reported
  <2>1. Can(c) = Can(w)
    BY <1>3, <1>8 DEF Can, CanSwitchToSpatialLayer
  <2>2. Best(c)
    BY <2>1, <1>3, <1>4 DEF Inv, Sound, Best, Chosen
  <2>3. Sound(w', {})
    BY <1>2, <1>5, <1>6, <1>8, <2>2 DEF Sound, Loose
  <2>4. QED  BY <1>1, <2>3, SoundNext DEF Inv, Layers
<1>9. QED  BY <1>7, <1>8

LEMMA StartInv ==
  ASSUME Inv, NEW l \in Layers, Start(l)
  PROVE  Inv'
<1>1. plan' = plan /\ sending' = sending \cup {l} /\ net' = net /\ w' = w
  BY DEF Start
<1>2. QED  BY <1>1, SoundNext DEF Inv, Layers

\* Most steps change the consumer only.
LEMMA OnlySound ==
  ASSUME Inv, NEW C, Only(C), \A d \in C : Sound(d, {})
  PROVE  Inv'
<1>1. plan' = plan /\ sending' = sending /\ net' = net /\ w' \in C
  BY DEF Only
<1>2. QED  BY <1>1, SoundNext DEF Inv, Layers

LEMMA SetPreferredLayersInv ==
  ASSUME Inv, NEW l \in Layers, SetPreferredLayers(l)
  PROVE  Inv'
<1> DEFINE c == [w EXCEPT !.preferred = l]
           C == IF IsActive(c) THEN MayChangeLayers(c, TRUE) ELSE {c}
<1>1. Only(C)
  BY DEF SetPreferredLayers
<1>2. /\ Control \subseteq DOMAIN c /\ c.here = w.here /\ c.alive = w.alive
      /\ c.reported = w.reported /\ c.off = w.off /\ c.preferred = l
      /\ c.wary = w.wary /\ c.asked = w.asked
      /\ c.target = w.target /\ c.current = w.current /\ c.tsRef = w.tsRef
  BY DEF Inv, Sound, Loose, Typed, Control
<1> HIDE DEF c
<1>3. Loose(c, {})
  BY <1>2, LooseAgain DEF Inv, Sound, Loose, Typed
<1>4. Idle(c)
  BY <1>2 DEF Idle, Inv, Sound, IsActive, Wanted
<1>5. \A d \in C : Sound(d, {})
  <2>1. CASE IsActive(c)
    BY <1>3, <2>1, MayChangeLayersIsSound DEF Inv
  <2>2. CASE ~IsActive(c)
    BY <1>3, <1>4, <2>2 DEF Sound, Best
  <2>3. QED  BY <2>1, <2>2
<1> HIDE DEF C
<1>6. QED  BY <1>1, <1>5, OnlySound

\* Key frames that are asked for besides are no harm.
LEMMA AskedMoreIsSound ==
  ASSUME NEW c, NEW more, Sound(c, {})
  PROVE  Sound([c EXCEPT !.asked = @ \cup more], {})
<1> DEFINE p == [kind |-> "delta", layer |-> -1]
           asked == c.asked \cup more
<1>1. Come(p) = {}
  BY DEF Come
<1>2. c.asked \subseteq asked \cup Come(p)
  OBVIOUS
<1> HIDE DEF p, asked
<1>3. Sound([c EXCEPT !.asked = asked], Come(p))
  BY <1>2, AskedIsSound
<1>4. QED  BY <1>1, <1>3 DEF asked

LEMMA ReceiveKeyFrameRequestInv ==
  ASSUME Inv, ReceiveKeyFrameRequest
  PROVE  Inv'
<1>1. Only({[w EXCEPT !.asked = @ \cup {w.current}]})
  BY DEF ReceiveKeyFrameRequest
<1>2. Sound([w EXCEPT !.asked = @ \cup {w.current}], {})
  BY AskedMoreIsSound DEF Inv
<1>3. QED  BY <1>1, <1>2, OnlySound

LEMMA RequestKeyFramesInv ==
  ASSUME Inv, RequestKeyFrames
  PROVE  Inv'
<1>1. Only({[w EXCEPT !.asked = @ \cup ({w.target, w.current} \ {-1})]})
  BY DEF RequestKeyFrames
<1>2. Sound([w EXCEPT !.asked = @ \cup ({w.target, w.current} \ {-1})], {})
  BY AskedMoreIsSound DEF Inv
<1>3. QED  BY <1>1, <1>2, OnlySound

LEMMA PauseInv ==
  ASSUME Inv, NEW by, Pause(by)
  PROVE  Inv'
<1> DEFINE c == [w EXCEPT !.off = @ \cup {by}]
           u == UpdateTargetLayers(c, -1)
           d == IF IsActive(w) THEN [u EXCEPT !.wary = FALSE] ELSE c
<1>1. Only({d})
  BY DEF Pause
<1>2. /\ Control \subseteq DOMAIN c /\ c.here = w.here /\ c.alive = w.alive
      /\ c.reported = w.reported /\ c.off = w.off \cup {by} /\ c.preferred = w.preferred
      /\ c.wary = w.wary /\ c.asked = w.asked
      /\ c.target = w.target /\ c.current = w.current /\ c.tsRef = w.tsRef
  BY DEF Inv, Sound, Loose, Typed, Control
<1> HIDE DEF c
<1>3. Loose(c, {})
  BY <1>2, LooseAgain DEF Inv, Sound, Loose, Typed
<1>4. /\ Typed(u) /\ SameStreams(c, u) /\ u.target = -1 /\ u.current = -1
  BY <1>3, UpdatedLayers DEF Inv, Loose
<1> HIDE DEF u
<1>5. ~IsActive(c) /\ ~IsActive(u)
  BY <1>2, <1>4 DEF IsActive, Wanted, SameStreams
<1>6. CASE IsActive(w)
  <2>1. d = [u EXCEPT !.wary = FALSE]
    BY <1>6
  <2> HIDE DEF d
  <2>2. /\ Control \subseteq DOMAIN d /\ d.here = u.here /\ d.alive = u.alive
        /\ d.off = u.off /\ d.preferred = u.preferred /\ ~d.wary
        /\ d.target = u.target /\ d.current = u.current /\ d.tsRef = u.tsRef
    BY <2>1, <1>4 DEF Typed, Control
  <2>3. ~IsActive(d) /\ Wariness(d)
    BY <2>2, <1>5 DEF IsActive, Wanted, Wariness
  <2>4. Sound(d, {})
    BY <2>2, <2>3, <1>4, StoppedIsSound DEF Typed
  <2>5. QED  BY <1>1, <2>4, OnlySound
<1>7. CASE ~IsActive(w)
  <2>1. c.target = -1 /\ c.current = -1
    BY <1>2, <1>7 DEF Inv, Sound, Loose, Idle, Rests
  <2>2. Sound(c, {})
    BY <2>1, <1>3, <1>5, StoppedIsSound DEF Loose, Typed
  <2>3. d = c
    BY <1>7
  <2> HIDE DEF d
  <2>4. QED  BY <1>1, <2>2, <2>3, OnlySound
<1>8. QED  BY <1>6, <1>7

LEMMA ResumeInv ==
  ASSUME Inv, NEW by, Resume(by)
  PROVE  Inv'
<1> DEFINE c == [w EXCEPT !.off = @ \ {by}]
           d == [c EXCEPT !.syncRequired = TRUE, !.offsetAsked = FALSE, !.checking = FALSE]
           E == IF IsActive(c) THEN MayChangeLayers(d, FALSE) ELSE {c}
           C == {[e EXCEPT !.asked = IF by = "producer" THEN @ \cup w.here ELSE @] : e \in E}
<1>1. Only(C) /\ by \in w.off
  BY DEF Resume
<1>2. /\ Control \subseteq DOMAIN c /\ c.here = w.here /\ c.alive = w.alive
      /\ c.reported = w.reported /\ c.off = w.off \ {by} /\ c.preferred = w.preferred
      /\ c.wary = w.wary /\ c.asked = w.asked
      /\ c.target = w.target /\ c.current = w.current /\ c.tsRef = w.tsRef
  BY DEF Inv, Sound, Loose, Typed, Control
<1>3. SameControl(c, d)
  <2> HIDE DEF c
  <2>1. QED  BY DEF SameControl
<1> HIDE DEF c, d
<1>4. Loose(c, {}) /\ Loose(d, {})
  <2>1. Loose(c, {})
    BY <1>2, LooseAgain DEF Inv, Sound, Loose, Typed
  <2>2. Typed(d) /\ Wariness(d) /\ Rests(d) /\ Awaits(d, {})
    BY <2>1, <1>3 DEF SameControl, Loose, Typed, Wariness, Rests, Awaits
  <2>3. Known(d)
    BY <2>1, <1>3 DEF SameControl, Loose, Known, CanSwitchToSpatialLayer
  <2>4. QED  BY <2>1, <2>2, <2>3 DEF Loose
<1>5. ~IsActive(w) /\ c.target = -1 /\ Idle(c)
  BY <1>1, <1>2 DEF IsActive, Wanted, Inv, Sound, Idle
<1>6. ASSUME NEW e \in E  PROVE Sound(e, {})
  <2>1. CASE IsActive(c)
    <3>1. IsActive(d)
      BY <2>1, <1>3 DEF SameControl, IsActive, Wanted
    <3>2. QED  BY <2>1, <3>1, <1>4, <1>6, MayChangeLayersIsSound DEF Inv
  <2>2. CASE ~IsActive(c)
    BY <2>2, <1>4, <1>5, <1>6 DEF Sound, Best
  <2>3. QED  BY <2>1, <2>2
<1> HIDE DEF E
<1>7. ASSUME NEW x \in C  PROVE Sound(x, {})
  <2> DEFINE more == IF by = "producer" THEN w.here ELSE {}
  <2>1. PICK e \in E : x = [e EXCEPT !.asked = IF by = "producer" THEN @ \cup w.here ELSE @]
    BY <1>7
  <2>2. x = [e EXCEPT !.asked = @ \cup more]
    BY <2>1
  <2> HIDE DEF more
  <2>3. QED  BY <2>1, <2>2, <1>6, AskedMoreIsSound
<1> HIDE DEF C
<1>8. QED  BY <1>1, <1>7, OnlySound

LEMMA TransportConnectedInv ==
  ASSUME Inv, TransportConnected
  PROVE  Inv'
<1> DEFINE c == [w EXCEPT !.off = @ \ {"transport"}, !.syncRequired = TRUE, !.offsetAsked = FALSE]
<1>1. Only(MayChangeIfActive(c)) /\ "transport" \in w.off
  BY DEF TransportConnected
<1>2. /\ Control \subseteq DOMAIN c /\ c.here = w.here /\ c.alive = w.alive
      /\ c.reported = w.reported /\ c.preferred = w.preferred
      /\ c.wary = w.wary /\ c.asked = w.asked
      /\ c.target = w.target /\ c.current = w.current /\ c.tsRef = w.tsRef
  BY DEF Inv, Sound, Loose, Typed, Control
<1> HIDE DEF c
<1>3. Loose(c, {})
  BY <1>2, LooseAgain DEF Inv, Sound, Loose, Typed
<1>4. Idle(c)
  BY <1>1, <1>2 DEF IsActive, Wanted, Inv, Sound, Idle
<1>5. \A d \in MayChangeIfActive(c) : Sound(d, {})
  BY <1>3, <1>4, MayChangeIfActiveIsSound DEF Inv
<1>6. QED  BY <1>1, <1>5, OnlySound

LEMMA TransportDisconnectedInv ==
  ASSUME Inv, TransportDisconnected
  PROVE  Inv'
<1> DEFINE u == UpdateTargetLayers(w, -1)
           d == [u EXCEPT !.off = @ \cup {"transport"}, !.wary = FALSE]
<1>1. Only({d})
  BY DEF TransportDisconnected
<1>2. Typed(u) /\ u.target = -1 /\ u.current = -1
  BY UpdatedLayers DEF Inv, Sound, Loose
<1> HIDE DEF u
<1>3. /\ Control \subseteq DOMAIN d /\ d.here = u.here /\ d.alive = u.alive
      /\ d.off = u.off \cup {"transport"} /\ d.preferred = u.preferred /\ ~d.wary
      /\ d.target = u.target /\ d.current = u.current /\ d.tsRef = u.tsRef
  BY <1>2 DEF Typed, Control
<1> HIDE DEF d
<1>4. ~IsActive(d) /\ Wariness(d)
  BY <1>3 DEF IsActive, Wanted, Wariness
<1>5. Sound(d, {})
  BY <1>2, <1>3, <1>4, StoppedIsSound DEF Typed
<1>6. QED  BY <1>1, <1>5, OnlySound

LEMMA BitrateChangeInv ==
  ASSUME Inv, BitrateChange
  PROVE  Inv'
<1>1. plan.managed /\ Only(Distribute(w))
  BY DEF BitrateChange
<1>2. \A d \in Distribute(w) : Sound(d, {})
  BY <1>1, DistributeIsSound DEF Inv, Sound
<1>3. QED  BY <1>1, <1>2, OnlySound

\* What the layers are chosen by changes, when the bitrate is managed only.
LEMMA ManagedIsSound ==
  ASSUME Sound(w, {}), NEW d, plan.managed, DOMAIN d = DOMAIN w,
         d.here = w.here, d.alive = w.alive, d.reported = w.reported, d.off = w.off,
         d.preferred = w.preferred, d.target = w.target, d.current = w.current,
         d.tsRef = w.tsRef, d.asked = w.asked
  PROVE  Sound(d, {})
<1>1. IsActive(d) <=> IsActive(w)
  BY DEF IsActive, Wanted
<1>2. Typed(d) /\ Wariness(d) /\ Rests(d) /\ Awaits(d, {}) /\ Idle(d) /\ Best(d)
  BY <1>1 DEF Sound, Loose, Typed, Wariness, Rests, Awaits, Idle, Best
<1>3. Known(d)
  BY DEF Sound, Loose, Known, CanSwitchToSpatialLayer
<1>4. QED  BY <1>2, <1>3 DEF Sound, Loose

LEMMA MatureInv ==
  ASSUME Inv, NEW l, Mature(l)
  PROVE  Inv'
<1> DEFINE d == [w EXCEPT !.young = @ \ {l}]
<1>1. plan.managed /\ Only({d})
  BY DEF Mature
<1>2. /\ DOMAIN d = DOMAIN w /\ d.here = w.here /\ d.alive = w.alive
      /\ d.reported = w.reported /\ d.off = w.off /\ d.preferred = w.preferred
      /\ d.target = w.target /\ d.current = w.current /\ d.tsRef = w.tsRef
      /\ d.asked = w.asked
  BY DEF Inv, Sound, Loose, Typed, Control
<1> HIDE DEF d
<1>3. Sound(d, {})
  BY <1>1, <1>2, ManagedIsSound DEF Inv
<1>4. QED  BY <1>1, <1>3, OnlySound

LEMMA RelaxInv ==
  ASSUME Inv, Relax
  PROVE  Inv'
<1> DEFINE d == [w EXCEPT !.wary = FALSE]
<1>1. plan.managed /\ Only({d})
  BY DEF Relax, Inv, Sound, Loose, Wariness
<1>2. /\ DOMAIN d = DOMAIN w /\ d.here = w.here /\ d.alive = w.alive
      /\ d.reported = w.reported /\ d.off = w.off /\ d.preferred = w.preferred
      /\ d.target = w.target /\ d.current = w.current /\ d.tsRef = w.tsRef
      /\ d.asked = w.asked
  BY DEF Inv, Sound, Loose, Typed, Control
<1> HIDE DEF d
<1>3. Sound(d, {})
  BY <1>1, <1>2, ManagedIsSound DEF Inv
<1>4. QED  BY <1>1, <1>3, OnlySound

\* The inductive invariant: in every state the choice of layers is sound, for any number of
\* layers and frames, in whatever order packets, reports, scores and requests come.
THEOREM LayersCorrect == Spec => []Inv
<1>1. Init => Inv
  BY InitInv
<1>2. Inv /\ [Next]_vars => Inv'
  <2> SUFFICES ASSUME Inv, [Next]_vars  PROVE Inv'
    OBVIOUS
  <2>1. CASE Capture
    BY <2>1, CaptureInv
  <2>2. CASE \E p \in net : Arrive(p)
    BY <2>2, ArriveInv
  <2>3. CASE \E l \in Layers : \/ Die(l) \/ Start(l) \/ ProducerRtcpSenderReport(l)
                               \/ SetPreferredLayers(l) \/ Mature(l)
    BY <2>3, DieInv, StartInv, ProducerRtcpSenderReportInv, SetPreferredLayersInv, MatureInv
  <2>4. CASE ReceiveKeyFrameRequest \/ RequestKeyFrames
    BY <2>4, ReceiveKeyFrameRequestInv, RequestKeyFramesInv
  <2>5. CASE \E by \in {"consumer", "producer"} : Pause(by) \/ Resume(by)
    BY <2>5, PauseInv, ResumeInv
  <2>6. CASE TransportConnected \/ TransportDisconnected
    BY <2>6, TransportConnectedInv, TransportDisconnectedInv
  <2>7. CASE BitrateChange \/ Relax
    BY <2>7, BitrateChangeInv, RelaxInv
  <2>8. CASE UNCHANGED vars
    BY <2>8, SoundNext DEF vars, Inv, Layers
  <2>9. QED  BY <2>1, <2>2, <2>3, <2>4, <2>5, <2>6, <2>7, <2>8 DEF Next
<1>3. QED  BY <1>1, <1>2, PTL DEF Spec

\* A target other than the reference layer always has the sender reports that SendRtpPacket
\* asserts when its key frame comes.
THEOREM SwitchNeedsReportsCorrect == Spec => []SwitchNeedsReports
<1>1. Inv => SwitchNeedsReports
  BY DEF Inv, Sound, Loose, Known, CanSwitchToSpatialLayer, SwitchNeedsReports
<1>2. QED  BY <1>1, LayersCorrect, PTL

\* While the consumer waits to switch, a key frame of the target has been asked for and has
\* not come: none is used up without a switch, or refused without asking again.
THEOREM SwitchIsAwaitedCorrect == Spec => []SwitchIsAwaited
<1>1. Inv => SwitchIsAwaited
  BY DEF Inv, Sound, Loose, Awaits, SwitchIsAwaited
<1>2. QED  BY <1>1, LayersCorrect, PTL

\* The two ways to say which layer is the best.
LEMMA ChosenIsBest ==
  ASSUME NEW c, NEW C \in SUBSET Nat, c.preferred \in Nat, NEW x, Chosen(c, C, x)
  PROVE  LET enough == {l \in C : l >= c.preferred}
         IN  x = IF enough # {} THEN Min(enough) ELSE Max(C \cup {-1})
<1> DEFINE enough == {l \in C : l >= c.preferred}
<1>1. CASE enough # {}
  <2>0. PICK k \in C : k >= c.preferred
    BY <1>1
  <2>1. x \in enough /\ \A y \in enough : x <= y
    <3>1. x >= c.preferred /\ \A y \in enough : x <= y
      BY <2>0 DEF Chosen
    <3>2. x \in C
      BY <3>1 DEF Chosen
    <3>3. QED  BY <3>1, <3>2
  <2>2. enough \in SUBSET Nat
    OBVIOUS
  <2> HIDE DEF enough
  <2>3. Min(enough) \in enough /\ \A y \in enough : Min(enough) <= y
    BY <1>1, <2>2, SmallestIsMin
  <2>4. x = Min(enough)
    <3> DEFINE m == Min(enough)
    <3>1. m \in Nat /\ x \in Nat /\ m <= x /\ x <= m
      BY <2>1, <2>2, <2>3
    <3> HIDE DEF m
    <3>2. x = m
      BY <3>1
    <3>3. QED  BY <3>2 DEF m
  <2>5. QED  BY <1>1, <2>4 DEF enough
<1>2. CASE enough = {}
  <2>1. x \in C \cup {-1} /\ \A y \in C \cup {-1} : x >= y
    BY <1>2 DEF Chosen
  <2>2. Max(C \cup {-1}) \in C \cup {-1} /\ \A y \in C \cup {-1} : Max(C \cup {-1}) >= y
    BY <2>1 DEF Max
  <2>3. x = Max(C \cup {-1})
    <3> DEFINE m == Max(C \cup {-1})
    <3>1. m \in C \cup {-1} /\ m >= x
      BY <2>1, <2>2
    <3> HIDE DEF m
    <3>2. m \in Int /\ x \in Int /\ x >= m
      BY <2>1, <3>1
    <3>3. x = m
      BY <3>1, <3>2
    <3>4. QED  BY <3>3 DEF m
  <2>4. QED  BY <1>2, <2>3
<1>3. QED  BY <1>1, <1>2

\* The loop of RecalculateTargetLayers finds the best layer, and no event after which the
\* best is another leaves the consumer with the one it had.
THEOREM TargetIsBestCorrect == Spec => []TargetIsBest
<1>1. Inv => TargetIsBest
  <2> SUFFICES ASSUME Inv  PROVE TargetIsBest
    OBVIOUS
  <2> DEFINE can == {l \in w.alive : CanSwitchToSpatialLayer(w, l)}
  <2>1. ~IsActive(w) => w.target = -1 /\ w.current = -1
    BY DEF Inv, Sound, Loose, Idle, Rests
  <2>2. can \in SUBSET Nat /\ w.preferred \in Nat
    BY LayersAre DEF Inv, Sound, Loose, Typed
  <2>3. IsActive(w) /\ ~plan.managed => Chosen(w, can, w.target)
    BY DEF Inv, Sound, Best, Can
  <2> HIDE DEF can
  <2>4. IsActive(w) /\ ~plan.managed =>
          w.target = IF {l \in can : l >= w.preferred} # {} THEN Min({l \in can : l >= w.preferred})
                     ELSE Max(can \cup {-1})
    BY <2>2, <2>3, ChosenIsBest
  <2>5. QED  BY <2>1, <2>4 DEF TargetIsBest, can
<1>2. QED  BY <1>1, LayersCorrect, PTL
=============================================================================
