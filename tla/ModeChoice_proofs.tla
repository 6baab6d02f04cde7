------------------------- MODULE ModeChoice_proofs -------------------------
(***************************************************************************)
(* What is chosen, for any offers and any configured geometry.             *)
(***************************************************************************)
EXTENDS ModeChoice, FiniteSetTheorems, TLAPS

\* A set of natural numbers that is not empty has a least element.
LEMMA LeastExists ==
  ASSUME NEW T \in SUBSET Nat, T # {}
  PROVE  \E x \in T : \A y \in T : x <= y
<1> DEFINE D == {0..n : n \in T}
<1>1. D \subseteq FiniteSubsetsOf(Nat) /\ D # {}
  <2>1. \A n \in T : IsFiniteSet(0..n)
    BY FS_Interval
  <2>2. \A n \in T : 0..n \in SUBSET Nat
    OBVIOUS
  <2> QED BY <2>1, <2>2 DEF FiniteSubsetsOf
<1>2. PICK s \in D : \A r \in D : ~(<<r, s>> \in StrictSubsetOrdering(Nat))
  BY <1>1, FS_StrictSubsetOrderingWellFounded, WFMin
<1>3. PICK x \in T : s = 0..x
  BY <1>2
<1>4. ASSUME NEW y \in T, y < x PROVE FALSE
  <2>1. 0..y \subseteq 0..x /\ 0..y # 0..x
    BY <1>4
  <2>2. 0..y \subseteq Nat /\ 0..x \subseteq Nat /\ 0..y \in D
    OBVIOUS
  <2> QED BY <1>1, <1>2, <1>3, <2>1, <2>2 DEF StrictSubsetOrdering, FiniteSubsetsOf
<1> QED BY <1>4

---------------------------------------------------------------------------
\* The tables

Widest  == 1920
Tallest == 1080
Bounded(mode) ==
  /\ mode.width \in Nat /\ mode.width <= Widest /\ mode.height \in Nat /\ mode.height <= Tallest
  /\ mode.framerate \in 1..60

\* No mode is larger than 1920x1080 or faster than 60.
LEMMA ModesBounded == \A bit \in ModeBits : Bounded(CeaModes[bit])
<1>1. /\ Bounded(CeaTable[1]) /\ Bounded(CeaTable[2]) /\ Bounded(CeaTable[3])
      /\ Bounded(CeaTable[4]) /\ Bounded(CeaTable[5]) /\ Bounded(CeaTable[6])
  BY SMT DEF CeaTable, Mode, Bounded, Widest, Tallest
<1>2. /\ Bounded(CeaTable[7]) /\ Bounded(CeaTable[8]) /\ Bounded(CeaTable[9])
      /\ Bounded(CeaTable[10]) /\ Bounded(CeaTable[11]) /\ Bounded(CeaTable[12])
  BY SMT DEF CeaTable, Mode, Bounded, Widest, Tallest
<1>3. /\ Bounded(CeaTable[13]) /\ Bounded(CeaTable[14]) /\ Bounded(CeaTable[15])
      /\ Bounded(CeaTable[16]) /\ Bounded(CeaTable[17])
  BY SMT DEF CeaTable, Mode, Bounded, Widest, Tallest
<1> QED BY <1>1, <1>2, <1>3, SMT DEF CeaModes, ModeBits

LEMMA ModesTyped ==
  ASSUME NEW bit \in ModeBits
  PROVE  /\ CeaModes[bit].width \in Nat /\ CeaModes[bit].height \in Nat
         /\ CeaModes[bit].framerate \in Nat
<1>1. Bounded(CeaModes[bit])
  BY ModesBounded
<1>2. \A rate \in 1..60 : rate \in Nat
  BY SMT
<1>3. CeaModes[bit].framerate \in Nat
  <2> DEFINE rate == CeaModes[bit].framerate
  <2>1. rate \in 1..60
    BY <1>1, Zenon DEF Bounded
  <2> HIDE DEF rate
  <2>2. rate \in Nat
    BY <1>2, <2>1, Zenon
  <2> QED BY <2>2 DEF rate
<1>4. CeaModes[bit].width \in Nat /\ CeaModes[bit].height \in Nat
  BY <1>1, Zenon DEF Bounded
<1> QED BY <1>3, <1>4, Zenon

\* Every level carries a number of macroblocks.
LEMMA LevelsTyped == \A bit \in LevelBits : Levels[bit].frame \in Nat /\ Levels[bit].second \in Nat
<1>1. ASSUME NEW bit \in LevelBits, bit = 0 \/ bit = 1 \/ bit = 2
      PROVE  Levels[bit].frame \in Nat /\ Levels[bit].second \in Nat
  BY <1>1, SMT DEF Levels, LevelBits, Level
<1>2. ASSUME NEW bit \in LevelBits, bit = 3 \/ bit = 4
      PROVE  Levels[bit].frame \in Nat /\ Levels[bit].second \in Nat
  BY <1>2, SMT DEF Levels, LevelBits, Level
<1> QED BY <1>1, <1>2 DEF LevelBits

---------------------------------------------------------------------------
\* What is chosen exists

\* One of the levels that suffice is the lowest.
LEMMA LowestExists ==
  ASSUME NEW advertised, NEW mode, Sufficient(advertised, mode) # {}
  PROVE  LowestSufficientLevel(advertised, mode) \in Sufficient(advertised, mode)
<1>1. Sufficient(advertised, mode) \in SUBSET Nat
  BY DEF Sufficient, LevelBits
<1>2. \E bit \in Sufficient(advertised, mode) : \A b \in Sufficient(advertised, mode) : bit <= b
  BY <1>1, LeastExists
<1> QED BY <1>2 DEF LowestSufficientLevel

\* The least of a set by a measure.
LEMMA LeastBy ==
  ASSUME NEW C, C # {}, NEW f, \A c \in C : f[c] \in Nat
  PROVE  \E c \in C : \A d \in C : f[c] <= f[d]
<1> DEFINE T == {f[c] : c \in C}
<1>1. T \in SUBSET Nat /\ T # {}
  OBVIOUS
<1>2. PICK x \in T : \A y \in T : x <= y
  BY <1>1, LeastExists
<1> QED BY <1>2

\* The least by one measure, and among those by a second and a third.
LEMMA LeastByThree ==
  ASSUME NEW C, C # {}, NEW f \in [C -> Nat], NEW g \in [C -> Nat], NEW h \in [C -> Nat]
  PROVE  \E c \in C : \A d \in C :
           /\ f[c] <= f[d]
           /\ f[d] = f[c] => g[c] <= g[d]
           /\ f[d] = f[c] /\ g[d] = g[c] => h[c] <= h[d]
<1> DEFINE F == {c \in C : \A d \in C : f[c] <= f[d]}
           G == {c \in F : \A d \in F : g[c] <= g[d]}
<1>1. F # {}
  BY LeastBy
<1>2. G # {}
  <2>1. \A c \in F : g[c] \in Nat
    OBVIOUS
  <2> HIDE DEF F
  <2> QED BY <1>1, <2>1, LeastBy
<1>3. PICK c \in G : \A d \in G : h[c] <= h[d]
  <2>1. \A d \in G : h[d] \in Nat
    OBVIOUS
  <2> HIDE DEF G
  <2> QED BY <1>2, <2>1, LeastBy
<1>4. c \in C
  OBVIOUS
<1>5. ASSUME NEW d \in C, f[d] = f[c] PROVE d \in F /\ g[c] <= g[d]
  BY <1>5
<1>6. ASSUME NEW d \in C, f[d] = f[c], g[d] = g[c] PROVE h[c] <= h[d]
  <2>1. d \in G
    BY <1>5, <1>6
  <2> QED BY <1>3, <2>1
<1>7. \A d \in C : f[c] <= f[d]
  OBVIOUS
<1> QED BY <1>4, <1>5, <1>6, <1>7

LEMMA ProductsGrow ==
  ASSUME NEW a \in Nat, NEW b \in Nat, NEW w \in Nat, NEW h \in Nat, w <= a, h <= b
  PROVE  w * h \in Nat /\ w * h <= a * b
<1>1. \A i, j, k \in Nat : i <= j => i * k <= j * k /\ k * i <= k * j
  BY SMT
<1>2. w * h <= a * h /\ a * h <= a * b
  BY <1>1
<1>3. w * h \in Nat /\ a * h \in Nat /\ a * b \in Nat
  BY SMT
<1> QED BY <1>2, <1>3, SMT

LEMMA PixelsBounded ==
  \E most \in Nat : \A c \in Nat \X ModeBits :
    Pixels(c) \in 0..most /\ CeaModes[c[2]].framerate \in 1..60
<1>1. Widest \in Nat /\ Tallest \in Nat
  BY DEF Widest, Tallest
<1>2. Widest * Tallest \in Nat
  BY <1>1, ProductsGrow
<1>3. ASSUME NEW c \in Nat \X ModeBits
      PROVE  Pixels(c) \in 0..(Widest * Tallest) /\ CeaModes[c[2]].framerate \in 1..60
  <2>1. c[2] \in ModeBits
    OBVIOUS
  <2>2. Bounded(CeaModes[c[2]])
    BY <2>1, ModesBounded
  <2>3. Pixels(c) \in Nat /\ Pixels(c) <= Widest * Tallest
    BY <1>1, <2>2, ProductsGrow DEF Bounded, Pixels
  <2> QED BY <1>2, <2>2, <2>3 DEF Bounded
<1> QED BY <1>2, <1>3

\* Going through entries and modes in order, and replacing what has been found only by
\* what beats it, finds the first that nothing beats: there is one.
LEMMA BestExists ==
  ASSUME NEW cs \in SUBSET (Nat \X ModeBits), cs # {}
  PROVE  /\ Best(cs) \in cs
         /\ \A d \in cs : ~Beats(d, Best(cs)) /\ (~Beats(Best(cs), d) /\ d # Best(cs) => Before(Best(cs), d))
<1>0. PICK most \in Nat : \A c \in Nat \X ModeBits :
        Pixels(c) \in 0..most /\ CeaModes[c[2]].framerate \in 1..60
  BY PixelsBounded
<1> DEFINE rate(c) == CeaModes[c[2]].framerate
           worse(c) == 61 * (most - Pixels(c)) + (60 - rate(c))
           loss  == [c \in cs |-> worse(c)]
           place == [c \in cs |-> c[1]]
           bit   == [c \in cs |-> c[2]]
<1>1. ASSUME NEW c \in cs
      PROVE  /\ Pixels(c) \in 0..most /\ rate(c) \in 1..60 /\ worse(c) \in Nat
             /\ c[1] \in Nat /\ c[2] \in Nat /\ c = <<c[1], c[2]>>
  <2>1. c \in Nat \X ModeBits
    OBVIOUS
  <2>2. c[1] \in Nat /\ c[2] \in Nat /\ c = <<c[1], c[2]>>
    BY <2>1 DEF ModeBits
  <2>3. Pixels(c) \in 0..most /\ rate(c) \in 1..60
    BY <1>0, <2>1
  <2>4. worse(c) \in Nat
    <3> HIDE DEF rate
    <3> QED BY <2>3, SMT
  <2> QED BY <2>2, <2>3, <2>4
<1>2. loss \in [cs -> Nat] /\ place \in [cs -> Nat] /\ bit \in [cs -> Nat]
  <2> HIDE DEF worse, rate
  <2> QED BY <1>1
<1>3. PICK c \in cs : \A d \in cs :
        /\ loss[c] <= loss[d]
        /\ loss[d] = loss[c] => place[c] <= place[d]
        /\ loss[d] = loss[c] /\ place[d] = place[c] => bit[c] <= bit[d]
  <2> HIDE DEF loss, place, bit
  <2>1. \A f, g, h \in [cs -> Nat] : \E c \in cs : \A d \in cs :
          /\ f[c] <= f[d]
          /\ f[d] = f[c] => g[c] <= g[d]
          /\ f[d] = f[c] /\ g[d] = g[c] => h[c] <= h[d]
    BY LeastByThree
  <2> QED BY <1>2, <2>1
<1>4. \A d \in cs : worse(c) <= worse(d)
  <2> HIDE DEF worse
  <2> QED BY <1>3
<1>6. ASSUME NEW d \in cs PROVE ~Beats(d, c)
  <2>1. worse(c) <= worse(d)
    BY <1>4
  <2>2. Pixels(d) \in Nat /\ Pixels(c) \in Nat /\ rate(c) \in 1..60 /\ rate(d) \in 1..60
    <3> HIDE DEF rate, worse
    <3> QED BY <1>1, SMT
  <2>3. ~(Pixels(d) > Pixels(c)) /\ ~(Pixels(d) = Pixels(c) /\ rate(d) > rate(c))
    <3> HIDE DEF rate
    <3> QED BY <2>1, <2>2, SMT
  <2> QED BY <2>3 DEF Beats
<1>7. ASSUME NEW d \in cs, ~Beats(c, d), d # c PROVE Before(c, d)
  <2>1. Pixels(d) = Pixels(c) /\ rate(d) = rate(c)
    <3>1. Pixels(d) \in Nat /\ Pixels(c) \in Nat /\ rate(c) \in 1..60 /\ rate(d) \in 1..60
      <4> HIDE DEF rate, worse
      <4> QED BY <1>1, SMT
    <3>2. /\ ~(Pixels(d) > Pixels(c)) /\ ~(Pixels(d) = Pixels(c) /\ rate(d) > rate(c))
          /\ ~(Pixels(c) > Pixels(d)) /\ ~(Pixels(c) = Pixels(d) /\ rate(c) > rate(d))
      BY <1>6, <1>7 DEF Beats
    <3> HIDE DEF rate
    <3> QED BY <3>1, <3>2, SMT
  <2>2. loss[d] = loss[c]
    BY <2>1
  <2>3. c[1] <= d[1] /\ (d[1] = c[1] => c[2] <= d[2])
    <3> HIDE DEF loss
    <3> QED BY <1>3, <2>2
  <2>4. d[1] # c[1] \/ d[2] # c[2]
    <3> HIDE DEF worse, rate
    <3> QED BY <1>1, <1>7
  <2>5. c[1] \in Nat /\ c[2] \in Nat /\ d[1] \in Nat /\ d[2] \in Nat
    BY <1>1
  <2> QED BY <2>3, <2>4, <2>5, SMT DEF Before
<1> QED
  <2> DEFINE P(e) == \A d \in cs : ~Beats(d, e) /\ (~Beats(e, d) /\ d # e => Before(e, d))
  <2>1. P(c)
    BY <1>6, <1>7
  <2>2. Best(cs) = CHOOSE e \in cs : P(e)
    BY DEF Best
  <2> HIDE DEF P
  <2>3. Best(cs) \in cs /\ P(Best(cs))
    BY <2>1, <2>2
  <2> QED BY <2>3 DEF P

---------------------------------------------------------------------------
\* What select_video_mode returns

USE ConstantsAssumption

LEMMA OffersTyped ==
  ASSUME NEW formats \in Offers \cup LaterOffers, formats # None
  PROVE  /\ formats \in Seq(Entry \cup {Malformed}) /\ DOMAIN formats \subseteq Nat
         /\ \A i \in DOMAIN formats : formats[i] # Malformed => formats[i] \in Entry
<1>1. formats \in Seq(Entry \cup {Malformed})
  OBVIOUS
<1> HIDE ConstantsAssumption
<1> QED BY <1>1

\* What M4 may name is something.
LEMMA NamesTyped ==
  ASSUME NEW bit \in ModeBits, NEW level \in LevelBits
  PROVE  /\ GeometryOf(CeaModes[bit]) \in Geometry
         /\ [profile |-> {Baseline}, level |-> {level}, cea |-> {bit}] \in Entry
<1>2. GeometryOf(CeaModes[bit]) \in Geometry
  BY ModesTyped DEF GeometryOf, Geometry
<1>3. [profile |-> {Baseline}, level |-> {level}, cea |-> {bit}] \in Entry
  BY DEF Entry, Bitmap, Baseline, ModeBits, LevelBits
<1> QED BY <1>2, <1>3

ChoiceOf(bit, level) ==
  [geometry |-> GeometryOf(CeaModes[bit]),
   entry |-> [profile |-> {Baseline}, level |-> {level}, cea |-> {bit}]]

\* Either there is nothing that could be named, or a candidate that no other beats is.
LEMMA ChoiceMade ==
  ASSUME NEW formats \in Offers \cup LaterOffers, NEW limit
  PROVE  \/ /\ ~Readable(formats) \/ Candidates(formats, limit) = {}
            /\ SelectVideoMode(formats, limit) = None
         \/ /\ Readable(formats)
            /\ \E i \in DOMAIN formats, bit \in ModeBits, level \in LevelBits :
                 /\ <<i, bit>> \in Candidates(formats, limit)
                 /\ level \in Sufficient(formats[i].level, CeaModes[bit])
                 /\ SelectVideoMode(formats, limit) = ChoiceOf(bit, level)
                 /\ ChoiceOf(bit, level) # None
                 /\ \A d \in Candidates(formats, limit) : ~Beats(d, <<i, bit>>)
<1> DEFINE cs == Candidates(formats, limit)
<1>1. CASE ~Readable(formats) \/ cs = {}
  BY <1>1 DEF SelectVideoMode
<1>2. CASE Readable(formats) /\ cs # {}
  <2> DEFINE best  == Best(cs)
             level == LowestSufficientLevel(formats[best[1]].level, CeaModes[best[2]])
  <2>1. DOMAIN formats \subseteq Nat
    BY <1>2, OffersTyped DEF Readable
  <2>2. cs \in SUBSET (Nat \X ModeBits) /\ cs \subseteq (DOMAIN formats) \X ModeBits
    BY <2>1 DEF Candidates
  <2>3. best \in cs /\ \A d \in cs : ~Beats(d, best)
    <3> HIDE DEF cs
    <3> QED BY <1>2, <2>2, BestExists
  <2>4. best[1] \in DOMAIN formats /\ best[2] \in ModeBits /\ best = <<best[1], best[2]>>
    <3> HIDE DEF cs, best
    <3> QED BY <2>2, <2>3
  <2>5. Sufficient(formats[best[1]].level, CeaModes[best[2]]) # {}
    <3> HIDE DEF best
    <3> QED BY <2>3 DEF Candidates
  <2>6. level \in Sufficient(formats[best[1]].level, CeaModes[best[2]])
    BY <2>5, LowestExists
  <2>7. level \in LevelBits
    BY <2>6 DEF Sufficient
  <2>8. SelectVideoMode(formats, limit) = ChoiceOf(best[2], level)
    BY <1>2 DEF SelectVideoMode, ChoiceOf
  <2>9. ChoiceOf(best[2], level) # None
    <3> HIDE DEF best, level
    <3>1. ChoiceOf(best[2], level) \in Choice
      BY <2>4, <2>7, NamesTyped DEF ChoiceOf, Choice
    <3> QED BY <3>1
  <2> HIDE DEF best, level, cs
  <2> QED BY <1>2, <2>3, <2>4, <2>6, <2>7, <2>8, <2>9 DEF cs
<1> QED BY <1>1, <1>2

---------------------------------------------------------------------------
LEMMA OwnFormatsTyped == OwnFormats \in Entry
BY DEF OwnFormats, Entry, Bitmap, Baseline

\* The mode that the source's own string names is what a virtual output is made for.
LEMMA OwnGeometryIs == OwnGeometry = [width |-> Widest, height |-> Tallest, framerate |-> 30]
<1>1. CeaTable[8] = Mode(Widest, Tallest, 30, FALSE)
  BY SMT DEF CeaTable, Widest, Tallest
<1>2. CeaModes[7] = CeaTable[8]
  BY SMT DEF CeaModes, ModeBits
<1> QED BY <1>1, <1>2 DEF OwnGeometry, GeometryOf, Mode
=============================================================================
