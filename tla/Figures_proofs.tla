-------------------------- MODULE Figures_proofs --------------------------
(***************************************************************************)
(* Proofs about module Figures: what is computed of the traffic and the    *)
(* machine, for any workers, interfaces, curves, budgets and times.        *)
(***************************************************************************)
EXTENDS Figures, FiniteSetTheorems, SequenceTheorems, TLAPS

-----------------------------------------------------------------------------
(* Division, as the code and the models use it: it rounds down.            *)

\* The quotient and the rest.
LEMMA DivIs == \A a \in Nat, b \in Nat \ {0} : a \div b \in Nat /\ b * (a \div b) <= a /\ a < b * (a \div b) + b
  BY SMT

\* A larger factor makes the product larger by the other at least.
LEMMA TimesMore == \A b, p, q \in Nat : b > 0 /\ p > q => b * p >= b * q + b
<1> SUFFICES ASSUME NEW b \in Nat, NEW p \in Nat, NEW q \in Nat, b > 0, p > q PROVE b * p >= b * q + b
  OBVIOUS
<1>1. PICK d \in Nat : p = q + 1 + d
  <2>1. p - q - 1 \in Nat /\ p = q + 1 + (p - q - 1)
    OBVIOUS
  <2> QED BY <2>1
<1>2. b * p = b * q + b + b * d /\ b * d >= 0
  BY <1>1
<1> QED BY <1>2

\* Division keeps the order.
LEMMA DivKeepsOrder == \A a, c \in Nat, b \in Nat \ {0} : a <= c => a \div b <= c \div b
<1> SUFFICES ASSUME NEW a \in Nat, NEW c \in Nat, NEW b \in Nat \ {0}, a <= c PROVE a \div b <= c \div b
  OBVIOUS
<1>1. PICK p \in Nat, q \in Nat : p = a \div b /\ q = c \div b /\ b * p <= a /\ c < b * q + b
  BY DivIs
<1>2. ~(p > q)
  BY <1>1, TimesMore
<1> QED BY <1>1, <1>2

\* It takes back a multiplication.
LEMMA DivTakesBack == \A a \in Nat, b \in Nat \ {0} : (a * b) \div b = a
<1> SUFFICES ASSUME NEW a \in Nat, NEW b \in Nat \ {0} PROVE (a * b) \div b = a
  OBVIOUS
<1>1. a * b \in Nat /\ a * b = b * a
  OBVIOUS
<1>2. PICK p \in Nat : p = (a * b) \div b /\ b * p <= a * b /\ a * b < b * p + b
  BY <1>1, DivIs
<1>3. ~(p > a) /\ ~(a > p)
  BY <1>1, <1>2, TimesMore
<1> QED BY <1>2, <1>3

-----------------------------------------------------------------------------
(* The traffic curve (Curve).                                              *)

Curves == [0..Hours - 1 -> Int]

VolumeInv ==
    /\ anchors \in Curves
    /\ windowStart \in Nat /\ now \in windowStart..windowStart + Window
    /\ windowSent \in 0..Bytes + Volume!Excess

\* Of the four anchors around an hour.
LEMMA SplineIsHermite ==
    \A a, b, c, d, j, k \in Int :
        LET s == j + k IN
          2 * b * (s * s * s)
        + (c - a) * (j * s * s)
        + (2 * a - 5 * b + 4 * c - d) * (j * j * s)
        + (3 * b - a - 3 * c + d) * (j * j * j)
      =   2 * b * ((s + 2 * j) * k * k) + (c - a) * (j * k * k)
        + 2 * c * ((s + 2 * k) * j * j) - (d - b) * (j * j * k)
  BY SMT

\* The hour before the first is the last, the hour after the last the first.
LEMMA AnchorsAround ==
    ASSUME NEW a \in Curves, NEW h \in Nat, NEW k \in -1..2
    PROVE  a[(((h \div Steps) % Hours) + Hours + k) % Hours] \in Int
<1>1. Hours \in Nat \ {0} /\ Steps \in Nat \ {0}
  BY FiguresAssumption DEF Volume!CurveAssumption
<1>2. h \div Steps \in Int
  BY <1>1
<1>3. (h \div Steps) % Hours \in 0..Hours - 1
  BY <1>1, <1>2
<1>4. (((h \div Steps) % Hours) + Hours + k) % Hours \in 0..Hours - 1
  BY <1>1, <1>3
<1> QED BY <1>4 DEF Curves

\* The spline is a number, and the Hermite cubic.
LEMMA CurveIsHermite ==
    ASSUME NEW a \in Curves, NEW h \in Nat
    PROVE  Volume!curveBase(a, h) \in Int /\ Volume!curveBase(a, h) = Volume!Hermite(a, h)
<1> DEFINE i == (h \div Steps) % Hours
           j == h % Steps
<1>1. Steps \in Nat \ {0} /\ j \in Int /\ Steps - j \in Int /\ j + (Steps - j) = Steps
  BY FiguresAssumption DEF Volume!CurveAssumption
<1>2. PICK p \in Int, q \in Int, r \in Int, s \in Int :
         /\ p = a[(i + Hours + -1) % Hours] /\ q = a[(i + Hours + 0) % Hours]
         /\ r = a[(i + Hours + 1) % Hours]  /\ s = a[(i + Hours + 2) % Hours]
  <2>1. -1 \in -1..2 /\ 0 \in -1..2 /\ 1 \in -1..2 /\ 2 \in -1..2
    OBVIOUS
  <2> QED BY <2>1, AnchorsAround
<1>3. Volume!curveBase(a, h) = Volume!catmullRom(p, q, r, s, j)
  BY <1>2 DEF Volume!curveBase
<1>4. Volume!Hermite(a, h) =
          2 * q * ((Steps + 2 * j) * (Steps - j) * (Steps - j)) + (r - p) * (j * (Steps - j) * (Steps - j))
        + 2 * r * ((Steps + 2 * (Steps - j)) * j * j) - (s - q) * (j * j * (Steps - j))
  BY <1>2 DEF Volume!Hermite
<1>5. Volume!catmullRom(p, q, r, s, j) \in Int
  BY <1>1 DEF Volume!catmullRom
<1>6. PICK k \in Int : k = Steps - j
  BY <1>1
<1> HIDE DEF i, j
<1> QED BY <1>1, <1>3, <1>4, <1>5, <1>6, SplineIsHermite DEF Volume!catmullRom

\* The larger and the smaller of two numbers.
LEMMA MaxIs == \A v \in Int : Volume!Max({0, v}) = IF v > 0 THEN v ELSE 0
  BY DEF Volume!Max

\* The least of two, as the code's min.
LEMMA MinIs == \A v, w \in Int : Volume!Min({v, w}) = IF v < w THEN v ELSE w
  BY DEF Volume!Min

N == INSTANCE FoldTheorems WITH Values <- Nat, Base <- 0, Op <- +

\* Addition does not care about the order, and the sums of Curve are folds.
LEMMA SumsAreFolds ==
    /\ N!Orderless /\ \A S : N!IsFiniteSet(S) <=> IsFiniteSet(S)
    /\ \A f, S : Volume!SumFunctionOnSet(f, S) = N!Fold(f, S)
<1>1. N!Orderless /\ \A S : N!IsFiniteSet(S) <=> IsFiniteSet(S)
  BY DEF N!Orderless, N!IsFiniteSet, IsFiniteSet
<1>2. \A f, S : Volume!SumFunctionOnSet(f, S) = N!Fold(f, S)
  BY DEF Volume!SumFunctionOnSet, Volume!FoldFunctionOnSet, N!Fold,
    Volume!MapThenFoldSet, N!MapThenFoldSet
<1> QED BY <1>1, <1>2

\* A sum over more is not less.
LEMMA SumGrows ==
    ASSUME NEW T, IsFiniteSet(T), NEW S \in SUBSET T, NEW f, \A x \in T : f[x] \in Nat
    PROVE  N!Fold(f, S) \in Nat /\ N!Fold(f, T) \in Nat /\ N!Fold(f, S) <= N!Fold(f, T)
<1> DEFINE Bad == {V \in SUBSET T : ~(N!Fold(f, S) <= N!Fold(f, S \cup V))}
<1>1. N!Orderless /\ \A V \in SUBSET T : IsFiniteSet(V) /\ N!IsFiniteSet(V)
  BY SumsAreFolds, FS_Subset
<1>2. \A V \in SUBSET T : N!Fold(f, V) \in Nat
  BY <1>1, N!FoldType
<1>3. Bad = {}
  <2> SUFFICES ASSUME Bad # {} PROVE FALSE
    OBVIOUS
  <2>1. PICK V \in Bad : \A W \in SUBSET V : W # V => W \notin Bad
    <3>1. Bad \subseteq SUBSET T /\ N!IsFiniteSet(T)
      BY <1>1
    <3> HIDE DEF Bad
    <3> QED BY <3>1, N!LeastSubset
  <2>2. S \cup {} = S /\ N!Fold(f, S) <= N!Fold(f, S)
    BY <1>2
  <2>3. PICK x \in V : TRUE
    BY <2>1, <2>2
  <2>4. N!Fold(f, S) <= N!Fold(f, S \cup (V \ {x}))
    BY <2>1, <2>3
  <2>5. CASE x \in S
    <3>1. S \cup V = S \cup (V \ {x})
      BY <2>3, <2>5
    <3> QED BY <2>1, <2>4, <3>1
  <2>6. CASE x \notin S
    <3>1. /\ S \cup V = (S \cup (V \ {x})) \cup {x} /\ x \notin S \cup (V \ {x})
          /\ S \cup (V \ {x}) \in SUBSET T /\ S \cup V \in SUBSET T /\ x \in T
      BY <2>1, <2>3, <2>6
    <3>2. N!Fold(f, S \cup V) = f[x] + N!Fold(f, S \cup (V \ {x}))
      BY <1>1, <3>1, N!FoldAdd
    <3>3. f[x] \in Nat /\ N!Fold(f, S \cup (V \ {x})) \in Nat /\ N!Fold(f, S) \in Nat
      BY <1>2, <3>1
    <3> QED BY <2>1, <2>4, <3>2, <3>3
  <2> QED BY <2>5, <2>6
<1>4. S \cup T = T /\ T \in SUBSET T
  OBVIOUS
<1> QED BY <1>2, <1>3, <1>4

\* What flows in each step: a number, as the spline is clamped.
Flow(a) == [t \in Nat |-> Volume!Clamped(Volume!curveBase(a, t)) + Volume!Clamped(Volume!curveBase(a, t + 1))]

\* What flows in a step is not negative: the spline is clamped.
LEMMA FlowIsNat == ASSUME NEW a \in Curves, NEW t \in Nat PROVE Flow(a)[t] \in Nat
<1>1. \A v \in Int : Volume!Clamped(v) \in Nat
  BY MaxIs DEF Volume!Clamped
<1>2. Volume!curveBase(a, t) \in Int /\ Volume!curveBase(a, t + 1) \in Int
  BY CurveIsHermite
<1> QED BY <1>1, <1>2 DEF Flow

\* The integral is its sum, and grows with its interval.
LEMMA IntegralIsSum ==
    ASSUME NEW a \in Curves, NEW s \in Nat, NEW n \in Nat
    PROVE  Volume!curveIntegral(a, s, n) = N!Fold(Flow(a), s..n - 1)
<1> DEFINE g == [t \in s..n - 1 |-> Volume!Clamped(Volume!curveBase(a, t))
                                     + Volume!Clamped(Volume!curveBase(a, t + 1))]
<1>1. Volume!curveIntegral(a, s, n) = N!Fold(g, s..n - 1)
  BY SumsAreFolds DEF Volume!curveIntegral, Volume!SumFunction
<1>2. IsFiniteSet(s..n - 1) /\ \A t \in s..n - 1 : g[t] = Flow(a)[t]
  BY FS_Interval DEF Flow
<1> HIDE DEF g
<1> QED BY <1>1, <1>2, SumsAreFolds, N!FoldSame

\* The integral is a number and grows with its end.
LEMMA IntegralGrows ==
    ASSUME NEW a \in Curves, NEW s \in Nat, NEW n \in Nat, NEW m \in Nat, n <= m
    PROVE  /\ Volume!curveIntegral(a, s, n) \in Nat /\ Volume!curveIntegral(a, s, m) \in Nat
           /\ Volume!curveIntegral(a, s, n) <= Volume!curveIntegral(a, s, m)
<1>1. IsFiniteSet(s..m - 1) /\ s..n - 1 \in SUBSET (s..m - 1)
  BY FS_Interval
<1>2. \A t \in s..m - 1 : Flow(a)[t] \in Nat
  BY FlowIsNat
<1> QED BY <1>1, <1>2, SumGrows, IntegralIsSum, SMTT(60)

\* What is owed at one time and at a later one in the window: it grows, to the whole budget.
LEMMA DueGrows ==
    ASSUME NEW a \in Curves, NEW s \in Nat, NEW n \in s..s + Window, NEW m \in n..s + Window
    PROVE  /\ Volume!Due(a, s, n) \in Nat /\ Volume!Due(a, s, m) \in Nat
           /\ Volume!Due(a, s, n) <= Volume!Due(a, s, m)
           /\ Volume!Due(a, s, s + Window) = Bytes
<1>1. /\ Window \in Nat \ {0} /\ Bytes \in Nat /\ n \in Nat /\ m \in Nat /\ s + Window \in Nat
      /\ n <= m /\ m <= s + Window /\ n >= s
  BY FiguresAssumption DEF Volume!CurveAssumption
<1>2. PICK total \in Nat, x \in Nat, y \in Nat :
         /\ total = Volume!curveIntegral(a, s, s + Window)
         /\ x = Volume!curveIntegral(a, s, n) /\ y = Volume!curveIntegral(a, s, m)
         /\ x <= y
  BY <1>1, IntegralGrows
<1>3. CASE total > 0
  <2>1. /\ Volume!Due(a, s, n) = (Bytes * x) \div total
        /\ Volume!Due(a, s, m) = (Bytes * y) \div total
        /\ Volume!Due(a, s, s + Window) = (Bytes * total) \div total
    BY <1>2, <1>3 DEF Volume!Due
  <2>2. Bytes * x \in Nat /\ Bytes * y \in Nat /\ Bytes * x <= Bytes * y
    <3>1. PICK d \in Nat : y = x + d
      <4>1. y - x \in Nat /\ y = x + (y - x)
        BY <1>2
      <4> QED BY <4>1
    <3>2. Bytes * y = Bytes * x + Bytes * d /\ Bytes * d \in Nat
      BY <1>1, <3>1
    <3> QED BY <1>1, <3>2
  <2>3. total \in Nat \ {0}
    BY <1>3
  <2> QED BY <1>1, <2>1, <2>2, <2>3, DivIs, DivKeepsOrder, DivTakesBack
<1>4. CASE ~(total > 0)
  <2>1. PICK u \in Nat, d \in Nat : n - s = u /\ m - s = u + d /\ u + d <= Window
    <3>1. n - s \in Nat /\ m - n \in Nat /\ m - s = (n - s) + (m - n) /\ m - s <= Window
      BY <1>1
    <3> QED BY <1>1, <3>1
  <2>2. /\ Volume!Min({n - s, Window}) = u
        /\ Volume!Min({m - s, Window}) = u + d
    BY <1>1, <2>1, MinIs
  <2>3. /\ Volume!Due(a, s, n) = (Bytes * u) \div Window
        /\ Volume!Due(a, s, m) = (Bytes * (u + d)) \div Window
        /\ Volume!Due(a, s, s + Window) = (Bytes * Window) \div Window
    <3>1. ~(Volume!curveIntegral(a, s, s + Window) > 0)
      BY <1>2, <1>4
    <3>2. Volume!Due(a, s, n) = (Bytes * Volume!Min({n - s, Window})) \div Window
      BY <3>1 DEF Volume!Due
    <3>3. Volume!Due(a, s, m) = (Bytes * Volume!Min({m - s, Window})) \div Window
      BY <3>1 DEF Volume!Due
    <3>4. PICK e \in Nat : e = s + Window
      BY <1>1
    <3>5. Volume!Due(a, s, e) = (Bytes * Volume!Min({e - s, Window})) \div Window
      BY <3>1 DEF Volume!Due
    <3>6. Volume!Min({e - s, Window}) = Window
      <4>1. e - s = Window
        BY <1>1, <3>4
      <4> QED BY <1>1, <4>1, MinIs
    <3> QED BY <2>2, <3>2, <3>3, <3>4, <3>5, <3>6
  <2>4. Bytes * u \in Nat /\ Bytes * (u + d) \in Nat /\ Bytes * u <= Bytes * (u + d)
    <3>1. Bytes * (u + d) = Bytes * u + Bytes * d /\ Bytes * d \in Nat /\ Bytes * u \in Nat
      BY <1>1
    <3> QED BY <3>1
  <2>5. (Bytes * Window) \div Window = Bytes
    BY <1>1, DivTakesBack
  <2> QED BY <1>1, <2>3, <2>4, <2>5, DivIs, DivKeepsOrder
<1> QED BY <1>3, <1>4

\* The products of smaller numbers are smaller.
LEMMA TimesKeepsOrder == \A a, b, p, q \in Nat : a <= b /\ p <= q => a * p <= b * q
<1> SUFFICES ASSUME NEW a \in Nat, NEW b \in Nat, NEW p \in Nat, NEW q \in Nat, a <= b, p <= q
             PROVE  a * p <= b * q
  OBVIOUS
<1>1. PICK c \in Nat, d \in Nat : b = a + c /\ q = p + d
  <2>1. b - a \in Nat /\ q - p \in Nat /\ b = a + (b - a) /\ q = p + (q - p)
    OBVIOUS
  <2> QED BY <2>1
<1>2. b * q = a * p + a * d + c * p + c * d /\ a * d >= 0 /\ c * p >= 0 /\ c * d >= 0
  BY <1>1
<1> QED BY <1>2

\* The shares of the workers and their jitter: a fifth more than the deficit at most.
LEMMA QuotasAreBounded ==
    ASSUME NEW d \in Nat, NEW fraction \in Nat, fraction <= 100, NEW w \in Nat \ {0},
           NEW q, q = ((d * fraction) \div 100) \div w
    PROVE  q \in Nat /\ w * ((q * 6) \div 5) \in Nat /\ w * ((q * 6) \div 5) <= d + d \div 5
<1>1. PICK m \in Nat : m = (d * fraction) \div 100 /\ m <= d
  <2>1. d * fraction \in Nat /\ d * fraction <= d * 100
    BY TimesKeepsOrder
  <2>2. PICK m \in Nat : m = (d * fraction) \div 100 /\ 100 * m <= d * fraction
    BY <2>1, DivIs
  <2>3. d * 100 = 100 * d
    OBVIOUS
  <2> QED BY <2>1, <2>2, <2>3
<1>2. q \in Nat /\ w * q <= m
  BY <1>1, DivIs
<1>3. PICK s \in Nat : s = (q * 6) \div 5 /\ 5 * s <= q * 6
  <2>1. \A a \in Nat : a \div 5 \in Nat /\ 5 * (a \div 5) <= a
    BY DivIs
  <2>2. q * 6 \in Nat
    BY <1>2
  <2>3. (q * 6) \div 5 \in Nat /\ 5 * ((q * 6) \div 5) <= q * 6
    BY <2>1, <2>2
  <2> QED BY <2>3
<1>4. PICK x \in Nat, y \in Nat : x = w * s /\ y = w * q /\ y <= d
  BY <1>1, <1>2, <1>3
<1>5. 5 * x <= 6 * y
  <2>1. w * (5 * s) <= w * (q * 6)
    BY <1>2, <1>3, TimesKeepsOrder
  <2>2. w * (5 * s) = 5 * (w * s) /\ w * (q * 6) = 6 * (w * q)
    BY <1>2, <1>3
  <2> QED BY <1>4, <2>1, <2>2
<1>6. PICK e \in Nat : e = d \div 5 /\ 5 * e <= d /\ d < 5 * e + 5
  BY DivIs
<1>7. x <= d + e
  BY <1>4, <1>5, <1>6
<1> QED BY <1>2, <1>3, <1>4, <1>6, <1>7

\* A cycle sends no more than a fifth and the last datagrams above its deficit, and
\* nothing where there is none.
LEMMA MaxSentIs ==
    ASSUME NEW d \in Nat, d <= Bytes, NEW fraction \in Fractions, NEW w \in 1..MaxWorkers
    PROVE  /\ Volume!MaxSent(d, fraction, w) \in Nat
           /\ Volume!MaxSent(d, fraction, w) <= d + Volume!Excess
           /\ d = 0 => Volume!MaxSent(d, fraction, w) = 0
<1>0. /\ {MaxWorkers, MaxDatagram, Bytes} \subseteq Nat \ {0}
      /\ fraction \in Nat /\ fraction <= 100 /\ w \in Nat \ {0} /\ w <= MaxWorkers
  BY FiguresAssumption DEF Volume!CurveAssumption
<1>1. PICK q : q = ((d * fraction) \div 100) \div w
  OBVIOUS
<1>2. PICK x \in Nat : x = w * ((q * 6) \div 5) /\ x <= d + d \div 5 /\ q \in Nat
  BY <1>0, <1>1, QuotasAreBounded
<1>3. d \div 5 \in Nat /\ Bytes \div 5 \in Nat /\ d \div 5 <= Bytes \div 5
  BY <1>0, DivIs, DivKeepsOrder
<1>4. PICK u \in Nat, v \in Nat : u = w * (MaxDatagram - 1) /\ v = MaxWorkers * (MaxDatagram - 1) /\ u <= v
  <2>1. MaxDatagram - 1 \in Nat
    BY <1>0
  <2> QED BY <1>0, <2>1, TimesKeepsOrder
<1>5. w * ((q * 6) \div 5 + MaxDatagram - 1) = x + u
  <2>1. PICK s \in Nat : s = (q * 6) \div 5
    <3>1. q * 6 \in Nat
      BY <1>2
    <3> QED BY <3>1, DivIs
  <2> QED BY <1>0, <1>2, <1>4, <2>1
<1>6. Volume!MaxSent(d, fraction, w) = IF q = 0 THEN 0 ELSE x + u
  BY <1>1, <1>5 DEF Volume!MaxSent
<1>7. Volume!Excess = Bytes \div 5 + v
  BY <1>4 DEF Volume!Excess
<1>8. d = 0 => q = 0
  <2> SUFFICES ASSUME d = 0 PROVE q = 0
    OBVIOUS
  <2>1. d * fraction = 0 /\ 0 \div 100 = 0 /\ 0 \div w = 0
    BY <1>0
  <2> QED BY <1>1, <2>1
<1>9. Volume!MaxSent(d, fraction, w) \in Nat /\ Volume!MaxSent(d, fraction, w) <= d + Volume!Excess
  BY <1>2, <1>3, <1>4, <1>6, <1>7
<1> QED BY <1>6, <1>8, <1>9

\* The excess is a number.
LEMMA ExcessIsNat == Volume!Excess \in Nat
<1>0. {MaxWorkers, MaxDatagram, Bytes} \subseteq Nat \ {0}
  BY FiguresAssumption DEF Volume!CurveAssumption
<1>1. Bytes \div 5 \in Nat /\ MaxDatagram - 1 \in Nat
  BY <1>0, DivIs
<1>2. MaxWorkers * (MaxDatagram - 1) \in Nat
  BY <1>0, <1>1
<1> QED BY <1>1, <1>2 DEF Volume!Excess

\* The invariant of the volume is inductive: what is owed and not sent is at most the
\* budget less what was sent, and a cycle adds its excess once.
LEMMA VolumeNext == VolumeInv /\ [Volume!Next]_(Volume!vars) => VolumeInv'
<1> SUFFICES ASSUME VolumeInv, [Volume!Next]_(Volume!vars) PROVE VolumeInv'
  OBVIOUS
<1>0. Window \in Nat \ {0} /\ Bytes \in Nat \ {0} /\ Intensities \subseteq Nat /\ Volume!Excess \in Nat
  BY FiguresAssumption, ExcessIsNat DEF Volume!CurveAssumption
<1>1. CASE Volume!Advance
  BY <1>0, <1>1 DEF VolumeInv, Volume!Advance
<1>2. CASE Volume!Cycle
  <2>1. PICK due \in Nat : due = Volume!Due(anchors, windowStart, now) /\ due <= Bytes
    <3>1. /\ anchors \in Curves /\ windowStart \in Nat /\ now \in windowStart..windowStart + Window
          /\ windowStart + Window \in now..windowStart + Window
      BY <1>0 DEF VolumeInv
    <3> QED BY <3>1, DueGrows
  <2>2. windowSent \in Nat /\ windowSent <= Bytes + Volume!Excess /\ due - windowSent \in Int
    BY <1>0 DEF VolumeInv
  <2>3. PICK d \in Nat : d = Volume!VolumeDeficit(now) /\ d <= Bytes /\ (d = 0 \/ windowSent + d <= Bytes)
    BY <1>0, <2>1, <2>2, MaxIs DEF Volume!VolumeDeficit
  <2>4. PICK fraction \in Fractions, w \in 1..MaxWorkers :
          windowSent' \in windowSent..windowSent + Volume!MaxSent(d, fraction, w)
    BY <1>2, <2>3 DEF Volume!Cycle
  <2>5. PICK m \in Nat : m = Volume!MaxSent(d, fraction, w) /\ m <= d + Volume!Excess /\ (d = 0 => m = 0)
    BY <2>3, MaxSentIs
  <2>6. windowSent' \in 0..Bytes + Volume!Excess
    BY <1>0, <2>2, <2>3, <2>4, <2>5
  <2> QED BY <1>2, <2>6 DEF VolumeInv, Volume!Cycle
<1>3. CASE Volume!SetConfig
  BY <1>0, <1>3 DEF VolumeInv, Volume!SetConfig, Curves
<1>4. CASE UNCHANGED Volume!vars
  BY <1>4 DEF VolumeInv, Volume!vars
<1> QED BY <1>1, <1>2, <1>3, <1>4 DEF Volume!Next

\* It holds when the window starts.
LEMMA VolumeInit == Volume!Init => VolumeInv
<1>1. /\ Window \in Nat \ {0} /\ Bytes \in Nat \ {0} /\ Intensities \subseteq Nat
      /\ Hours \in Nat \ {0} /\ Steps \in Nat \ {0} /\ Volume!Excess \in Nat
  BY FiguresAssumption, ExcessIsNat DEF Volume!CurveAssumption
<1>2. Volume!Day \in Int
  BY <1>1 DEF Volume!Day
<1> SUFFICES ASSUME Volume!Init PROVE VolumeInv
  OBVIOUS
<1>3. anchors \in Curves
  <2>1. anchors \in [0..Hours - 1 -> Intensities] /\ Intensities \subseteq Int
    BY <1>1 DEF Volume!Init
  <2> QED BY <2>1 DEF Curves
<1>4. windowStart \in Nat /\ now = windowStart /\ windowSent = 0
  BY <1>2 DEF Volume!Init
<1> QED BY <1>1, <1>3, <1>4 DEF VolumeInv

\* The spline is what NeverSteps asks for, and the volume what WholeBudget does.
LEMMA NeverStepsFollows == VolumeInv => Volume!NeverSteps
<1>1. Volume!Day \in Int
  BY FiguresAssumption DEF Volume!CurveAssumption, Volume!Day
<1>2. \A h \in 0..Volume!Day - 1 : h \in Nat
  BY <1>1
<1> QED BY <1>2, CurveIsHermite DEF VolumeInv, Volume!NeverSteps

\* What is owed grows to the whole budget, and what was sent stays near it.
LEMMA WholeBudgetFollows == VolumeInv => Volume!WholeBudget
<1> SUFFICES ASSUME VolumeInv PROVE Volume!WholeBudget
  OBVIOUS
<1>0. /\ Window \in Nat \ {0} /\ Bytes \in Nat \ {0} /\ Volume!Excess \in Nat
      /\ anchors \in Curves /\ windowStart \in Nat /\ now \in windowStart..windowStart + Window
      /\ windowSent \in 0..Bytes + Volume!Excess
  BY FiguresAssumption, ExcessIsNat DEF Volume!CurveAssumption, VolumeInv
<1>1. ASSUME now < windowStart + Window
      PROVE  Volume!Due(anchors, windowStart, now) <= Volume!Due(anchors, windowStart, now + 1)
  <2>1. now + 1 \in now..windowStart + Window
    BY <1>0, <1>1
  <2> QED BY <1>0, <2>1, DueGrows
<1>2. windowSent <= Bytes + Volume!Excess
  BY <1>0
<1>3. ASSUME now = windowStart + Window
      PROVE  Volume!VolumeDeficit(now) = Volume!Max({0, Bytes - windowSent})
  <2>1. Volume!Due(anchors, windowStart, now) = Bytes
    <3>1. now \in now..windowStart + Window
      BY <1>0, <1>3
    <3> QED BY <1>0, <1>3, <3>1, DueGrows
  <2> QED BY <2>1 DEF Volume!VolumeDeficit
<1> QED BY <1>1, <1>2, <1>3 DEF Volume!WholeBudget

\* The curve never steps, and the volume follows it to the whole budget.
LEMMA VolumeHolds == Volume!Spec => [](Volume!NeverSteps /\ Volume!WholeBudget)
  BY VolumeNext, VolumeInit, NeverStepsFollows, WholeBudgetFollows, PTL DEF Volume!Spec

-----------------------------------------------------------------------------
(* The percentile (Percentile).                                            *)

\* The percentiles whose float64 is so near that no product with a number of samples is
\* rounded past a whole one.  95 and the others the runs charge are among them, 55 is not.
WellRepresented == \A q \in Percentiles : 2 * Rule!RoundingOf(q) <= q

RuleInv == percentile \in Percentiles /\ recorded \in 0..MaxRecorded

\* The power of two below a number.
LEMMA PowerBelow ==
    ASSUME NEW w \in Nat, 1 <= w, w <= 65535
    PROVE  /\ Rule!FloorPower(w) \in Nat
           /\ Rule!FloorPower(w) <= w /\ w < 2 * Rule!FloorPower(w)
<1>1. \E v \in Rule!Powers : v <= w /\ w < 2 * v
  BY DEF Rule!Powers
<1>2. /\ Rule!FloorPower(w) \in Rule!Powers
      /\ Rule!FloorPower(w) <= w /\ w < 2 * Rule!FloorPower(w)
  BY <1>1 DEF Rule!FloorPower
<1> QED BY <1>2 DEF Rule!Powers

\* The product in floating point is never above the whole number it should be.
LEMMA NeverAbove ==
    ASSUME NEW q \in Nat, 50 <= q, q <= 99, NEW k \in Nat, 1 <= k, k <= 65535, 2 * Rule!RoundingOf(q) <= q, (q * k) % 100 = 0
    PROVE  ~(Rule!RoundingOf(q) * k > 100 * Rule!FloorPower((q * k) \div 100))
<1>1. PICK m \in Nat, w \in Nat : 1 <= w /\ w <= 65535 /\ m = q * k /\ w = m \div 100 /\ m = 100 * w
  <2>1. q * k \in Nat /\ q * k >= 50 * k /\ q * k <= 99 * k
    OBVIOUS
  <2> QED BY <2>1
<1>2. PICK r \in Int : r = Rule!RoundingOf(q) /\ 2 * r <= q
  <2>1. (92 * q) % 100 \in Int
    OBVIOUS
  <2>2. Rule!RoundingOf(q) \in Int
    BY <2>1 DEF Rule!RoundingOf
  <2> QED BY <2>2
<1>3. PICK v \in Nat : v = Rule!FloorPower(w) /\ w < 2 * v
  BY <1>1, PowerBelow
<1>4. 2 * (r * k) <= q * k
  <2>1. PICK d \in Nat : q = 2 * r + d
    <3>1. q - 2 * r \in Nat /\ q = 2 * r + (q - 2 * r)
      BY <1>2
    <3> QED BY <3>1
  <2>2. q * k = 2 * (r * k) + d * k /\ d * k >= 0
    BY <2>1
  <2> QED BY <2>2
<1>5. r * k \in Int /\ 2 * (r * k) <= 100 * w
  BY <1>1, <1>4
<1>6. ~(r * k > 100 * v)
  BY <1>3, <1>5
<1> QED BY <1>1, <1>2, <1>3, <1>6

\* The samples dropped and the one that is charged are as many as they should.
LEMMA IndexIs ==
    ASSUME NEW q \in Nat, 50 <= q, q <= 99, NEW k \in Nat, 1 <= k, k <= 65535, 2 * Rule!RoundingOf(q) <= q
    PROVE  Rule!Index(q, k) = k - (k * (100 - q)) \div 100 - 1
<1>1. PICK m \in Nat : m = q * k /\ k * (100 - q) = 100 * k - m /\ m >= 50 * k /\ m <= 99 * k
  <2>1. q * k \in Nat /\ q * k >= 50 * k /\ q * k <= 99 * k /\ k * (100 - q) = 100 * k - q * k
    OBVIOUS
  <2> QED BY <2>1
<1>2. Rule!CeilOfProduct(q, k) = IF m % 100 = 0 THEN m \div 100 ELSE m \div 100 + 1
  BY <1>1, NeverAbove DEF Rule!CeilOfProduct
<1>3. /\ Rule!CeilOfProduct(q, k) = k - (100 * k - m) \div 100
      /\ Rule!CeilOfProduct(q, k) \in 1..k
  BY <1>1, <1>2
<1> QED BY <1>1, <1>3 DEF Rule!Index

\* Of any number of samples the highest that is left is charged.
LEMMA RuleHolds == WellRepresented => (Rule!Spec => []Rule!DropsTheTop)
<1> SUFFICES ASSUME WellRepresented PROVE Rule!Spec => []Rule!DropsTheTop
  OBVIOUS
<1>1. Rule!Init => RuleInv
  BY FiguresAssumption DEF Rule!Init, RuleInv, Rule!PercentileAssumption
<1>2. RuleInv /\ [Rule!Next]_(Rule!vars) => RuleInv'
  BY FiguresAssumption
     DEF RuleInv, Rule!Next, Rule!Record, Rule!vars, Rule!PercentileAssumption
<1>3. RuleInv => Rule!DropsTheTop
  <2>1. RuleInv /\ recorded > 0 =>
          /\ percentile \in Nat /\ 50 <= percentile /\ percentile <= 99
          /\ recorded \in Nat /\ 1 <= recorded /\ recorded <= 65535
          /\ 2 * Rule!RoundingOf(percentile) <= percentile
    BY FiguresAssumption DEF RuleInv, WellRepresented, Rule!PercentileAssumption
  <2> QED BY <2>1, IndexIs DEF Rule!DropsTheTop
<1> QED BY <1>1, <1>2, <1>3, PTL DEF Rule!Spec

-----------------------------------------------------------------------------
(* The CPU gauge (Resources).                                              *)

\* A machine without virtual CPUs, whose time guest counts twice, on which iowait does
\* not fall.
PlainTime == Events \subseteq {"user", "idle", "iowait"}

Jiffies == [busy : Nat, all : Nat]

\* The previous sample and the jiffies since add up to what the kernel says now.
SampleInv ==
    \A c \in prevSys :
       /\ prevSys = {c} /\ c \in [total : Nat, idle : Nat]
       /\ stat["user"] + stat["idle"] + stat["iowait"] = c.total + passed.since.all
       /\ stat["idle"] + stat["iowait"] + passed.since.busy = c.idle + passed.since.all

GaugesInv ==
    /\ stat \in [Gauges!Fields -> Nat] /\ stat["guest"] = 0
    /\ passed \in [since : Jiffies, shown : Jiffies]
    /\ SampleInv
    /\ passed.shown.all > 0 => resources.cpu = <<passed.shown.busy, passed.shown.all>>

\* The sums of Resources are folds.
LEMMA GaugeSums == \A f, S : Gauges!SumFunctionOnSet(f, S) = N!Fold(f, S)
  BY DEF Gauges!SumFunctionOnSet, Gauges!FoldFunctionOnSet, N!Fold,
    Gauges!MapThenFoldSet, N!MapThenFoldSet

\* The line of the CPU adds up to its four fields.
LEMMA LineIsSum ==
    ASSUME NEW s \in [Gauges!Fields -> Nat]
    PROVE  Gauges!SumFunction(s) = s["user"] + s["guest"] + s["idle"] + s["iowait"]
<1>1. DOMAIN s = ((({} \cup {"user"}) \cup {"guest"}) \cup {"idle"}) \cup {"iowait"}
  BY DEF Gauges!Fields
<1>2. /\ s["user"] \in Nat /\ s["guest"] \in Nat /\ s["idle"] \in Nat /\ s["iowait"] \in Nat
  BY DEF Gauges!Fields
<1>3. N!Fold(s, {}) = 0
  BY N!FoldEmpty
<1>4. N!Fold(s, {} \cup {"user"}) = s["user"] + N!Fold(s, {})
  BY <1>2, FS_EmptySet, SumsAreFolds, N!FoldAdd
<1>5. N!Fold(s, ({} \cup {"user"}) \cup {"guest"}) = s["guest"] + N!Fold(s, {} \cup {"user"})
  <2>1. IsFiniteSet({} \cup {"user"}) /\ "guest" \notin {} \cup {"user"}
    BY FS_EmptySet, FS_AddElement
  <2>2. \A y \in ({} \cup {"user"}) \cup {"guest"} : s[y] \in Nat
    BY <1>2
  <2> QED BY <2>1, <2>2, SumsAreFolds, N!FoldAdd
<1>6. N!Fold(s, (({} \cup {"user"}) \cup {"guest"}) \cup {"idle"})
        = s["idle"] + N!Fold(s, ({} \cup {"user"}) \cup {"guest"})
  <2>1. IsFiniteSet(({} \cup {"user"}) \cup {"guest"}) /\ "idle" \notin ({} \cup {"user"}) \cup {"guest"}
    BY FS_EmptySet, FS_AddElement
  <2>2. \A y \in (({} \cup {"user"}) \cup {"guest"}) \cup {"idle"} : s[y] \in Nat
    BY <1>2
  <2> QED BY <2>1, <2>2, SumsAreFolds, N!FoldAdd
<1>7. N!Fold(s, ((({} \cup {"user"}) \cup {"guest"}) \cup {"idle"}) \cup {"iowait"})
        = s["iowait"] + N!Fold(s, (({} \cup {"user"}) \cup {"guest"}) \cup {"idle"})
  <2>1. /\ IsFiniteSet((({} \cup {"user"}) \cup {"guest"}) \cup {"idle"})
        /\ "iowait" \notin (({} \cup {"user"}) \cup {"guest"}) \cup {"idle"}
    BY FS_EmptySet, FS_AddElement
  <2>2. \A y \in ((({} \cup {"user"}) \cup {"guest"}) \cup {"idle"}) \cup {"iowait"} : s[y] \in Nat
    BY <1>2
  <2> QED BY <2>1, <2>2, SumsAreFolds, N!FoldAdd
<1>8. Gauges!SumFunction(s) = N!Fold(s, DOMAIN s)
  BY GaugeSums DEF Gauges!SumFunction
<1> QED BY <1>1, <1>2, <1>3, <1>4, <1>5, <1>6, <1>7, <1>8

\* A jiffy passes.
LEMMA JiffyNext ==
    ASSUME GaugesInv, NEW e \in {"user", "idle", "iowait"}, Gauges!Jiffy(e)
    PROVE  GaugesInv'
<1>1. /\ stat' = [stat EXCEPT ![e] = @ + 1]
      /\ passed' = [passed EXCEPT !.since =
                      [busy |-> @.busy + (IF e \in {"idle", "iowait"} THEN 0 ELSE 1), all |-> @.all + 1]]
      /\ UNCHANGED <<prevSys, resources>>
  BY DEF Gauges!Jiffy
<1>2. /\ stat \in [Gauges!Fields -> Nat] /\ stat["guest"] = 0 /\ e \in Gauges!Fields /\ e # "guest"
      /\ passed \in [since : Jiffies, shown : Jiffies]
  BY DEF GaugesInv, Gauges!Fields
<1>3. stat' \in [Gauges!Fields -> Nat] /\ stat'["guest"] = 0
  BY <1>1, <1>2 DEF Gauges!Fields
<1>4. /\ passed' \in [since : Jiffies, shown : Jiffies] /\ passed'.shown = passed.shown
      /\ passed'.since.all = passed.since.all + 1
      /\ passed'.since.busy = IF e = "user" THEN passed.since.busy + 1 ELSE passed.since.busy
  BY <1>1, <1>2 DEF Jiffies
<1>5. /\ stat["user"] \in Nat /\ stat["idle"] \in Nat /\ stat["iowait"] \in Nat
      /\ passed.since.all \in Nat /\ passed.since.busy \in Nat
  BY <1>2 DEF Gauges!Fields, Jiffies
<1>6. SampleInv'
  <2> SUFFICES ASSUME NEW c \in prevSys
               PROVE  /\ stat'["user"] + stat'["idle"] + stat'["iowait"] = c.total + passed'.since.all
                      /\ stat'["idle"] + stat'["iowait"] + passed'.since.busy = c.idle + passed'.since.all
    BY <1>1 DEF GaugesInv, SampleInv
  <2>1. /\ c.total \in Nat /\ c.idle \in Nat
        /\ stat["user"] + stat["idle"] + stat["iowait"] = c.total + passed.since.all
        /\ stat["idle"] + stat["iowait"] + passed.since.busy = c.idle + passed.since.all
    BY DEF GaugesInv, SampleInv
  <2>2. CASE e = "user"
    <3>1. stat'["user"] = stat["user"] + 1 /\ stat'["idle"] = stat["idle"] /\ stat'["iowait"] = stat["iowait"]
      BY <1>1, <1>2, <2>2 DEF Gauges!Fields
    <3> QED BY <1>4, <1>5, <2>1, <2>2, <3>1
  <2>3. CASE e = "idle"
    <3>1. stat'["user"] = stat["user"] /\ stat'["idle"] = stat["idle"] + 1 /\ stat'["iowait"] = stat["iowait"]
      BY <1>1, <1>2, <2>3 DEF Gauges!Fields
    <3> QED BY <1>4, <1>5, <2>1, <2>3, <3>1
  <2>4. CASE e = "iowait"
    <3>1. stat'["user"] = stat["user"] /\ stat'["idle"] = stat["idle"] /\ stat'["iowait"] = stat["iowait"] + 1
      BY <1>1, <1>2, <2>4 DEF Gauges!Fields
    <3> QED BY <1>4, <1>5, <2>1, <2>4, <3>1
  <2> QED BY <2>2, <2>3, <2>4
<1> QED BY <1>1, <1>3, <1>4, <1>6 DEF GaugesInv

\* A reading: the gauge is set to what passed since the sample before.
LEMMA ReadNext ==
    ASSUME GaugesInv, Gauges!Read(Gauges!parseCPULine(stat)), UNCHANGED stat
    PROVE  GaugesInv'
<1> DEFINE cur == Gauges!parseCPULine(stat)
<1>1. /\ stat \in [Gauges!Fields -> Nat] /\ stat["guest"] = 0
      /\ passed.since \in Jiffies /\ passed.shown \in Jiffies
      /\ stat["user"] \in Nat /\ stat["idle"] \in Nat /\ stat["iowait"] \in Nat
      /\ passed.since.all \in Nat /\ passed.since.busy \in Nat
  BY DEF GaugesInv, Gauges!Fields, Jiffies
<1>2. /\ cur.total = stat["user"] + stat["idle"] + stat["iowait"]
      /\ cur.idle = stat["idle"] + stat["iowait"]
      /\ cur \in [total : Nat, idle : Nat]
  <2>1. Gauges!SumFunction(stat) = stat["user"] + stat["idle"] + stat["iowait"]
    BY <1>1, LineIsSum
  <2> QED BY <1>1, <2>1 DEF Gauges!parseCPULine
<1>3. /\ prevSys' = {cur}
      /\ resources'.cpu = IF prevSys = {} THEN <<0, 1>> ELSE Gauges!CPUPercent(CHOOSE c \in prevSys : TRUE, cur)
      /\ passed' = [since |-> Gauges!Zero, shown |-> IF prevSys = {} THEN Gauges!Zero ELSE passed.since]
  BY DEF Gauges!Read
<1>4. Gauges!Zero \in Jiffies /\ Gauges!Zero.all = 0 /\ Gauges!Zero.busy = 0
  BY DEF Gauges!Zero, Jiffies
<1>5. passed' \in [since : Jiffies, shown : Jiffies] /\ passed'.since = Gauges!Zero
  BY <1>1, <1>3, <1>4
<1> HIDE DEF cur
<1>6. SampleInv'
  BY <1>1, <1>2, <1>3, <1>4, <1>5 DEF SampleInv
<1>7. ASSUME passed'.shown.all > 0
      PROVE  resources'.cpu = <<passed'.shown.busy, passed'.shown.all>>
  <2>1. prevSys # {} /\ passed'.shown = passed.since /\ passed.since.all > 0
    BY <1>3, <1>4, <1>7
  <2>2. PICK c \in prevSys : c = CHOOSE d \in prevSys : TRUE
    BY <2>1
  <2>3. /\ c.total \in Nat /\ c.idle \in Nat
        /\ stat["user"] + stat["idle"] + stat["iowait"] = c.total + passed.since.all
        /\ stat["idle"] + stat["iowait"] + passed.since.busy = c.idle + passed.since.all
    BY DEF GaugesInv, SampleInv
  <2>4. /\ cur.total - c.total = passed.since.all
        /\ passed.since.all - (cur.idle - c.idle) = passed.since.busy
    BY <1>1, <1>2, <2>3
  <2>5. Gauges!CPUPercent(c, cur) = <<passed.since.busy, passed.since.all>>
    BY <1>1, <2>1, <2>4 DEF Gauges!CPUPercent
  <2> QED BY <1>3, <2>1, <2>2, <2>5
<1> QED BY <1>1, <1>5, <1>6, <1>7 DEF GaugesInv

\* The invariant of the gauges is inductive on such a machine.
LEMMA GaugesNext == PlainTime => (GaugesInv /\ [Gauges!Next]_(Gauges!vars) => GaugesInv')
<1> SUFFICES ASSUME PlainTime, GaugesInv, [Gauges!Next]_(Gauges!vars) PROVE GaugesInv'
  OBVIOUS
<1>1. ASSUME NEW e \in Events, Gauges!Jiffy(e) PROVE GaugesInv'
  BY <1>1, JiffyNext DEF PlainTime
<1>2. CASE UNCHANGED <<stat, prevSys, resources, passed>>
  BY <1>2 DEF GaugesInv, SampleInv
<1>3. CASE Gauges!sampleResources
  BY <1>2, <1>3, ReadNext DEF Gauges!sampleResources, Gauges!ReadFails, Gauges!world
<1> QED BY <1>1, <1>2, <1>3 DEF Gauges!Next, Gauges!Change, Gauges!vars, Gauges!world

\* It holds before the first sample.
LEMMA GaugesInit == Gauges!Init => GaugesInv
  BY DEF Gauges!Init, Gauges!Zero, GaugesInv, SampleInv, Jiffies, Gauges!Fields

\* The gauge shows the busy share.
LEMMA ShareFollows == GaugesInv => Gauges!CPUIsBusyShare
<1> SUFFICES ASSUME GaugesInv, passed.shown.all > 0
             PROVE  resources.cpu[1] * passed.shown.all = passed.shown.busy * resources.cpu[2]
  BY DEF Gauges!CPUIsBusyShare
<1>1. resources.cpu[1] = passed.shown.busy /\ resources.cpu[2] = passed.shown.all
  BY DEF GaugesInv
<1> QED BY <1>1

\* The gauge shows the busy share in every reachable state of such a machine.
LEMMA GaugesHold == PlainTime => (Gauges!Spec => []Gauges!CPUIsBusyShare)
<1> SUFFICES ASSUME PlainTime PROVE Gauges!Spec => []Gauges!CPUIsBusyShare
  OBVIOUS
<1>1. GaugesInv /\ [Gauges!Next]_(Gauges!vars) => GaugesInv'
  BY GaugesNext
<1> QED BY <1>1, GaugesInit, ShareFollows, PTL DEF Gauges!Spec

-----------------------------------------------------------------------------
(* The metrics registry (Metrics).                                         *)

\* As long as the sampler always reads what the same network cards carry: only "All" can
\* be selected, or there is one card.
SameCounter == Selectable = {All} \/ \E i : Nics = {i}

Rates == [up : Nat, fake : Nat]

Carriage == [since : Nat, reset : BOOLEAN, before : Nat, resetIn : BOOLEAN, dt : Nat \ {0}]

RegistryTypeOK ==
    /\ clock \in Nat \ {0} /\ nic \in [Nics -> Nat] /\ iface \in Selectable
    /\ fakeBytesTotal \in Nat /\ fakeBytesCycle \in Nat /\ adding \in [Workers -> Nat]
    /\ last \in [tx : Nat, fake : Nat, obs : Nat]
    /\ speed \in Rates /\ ring \in Seq(Rates)
    /\ carried \in Carriage
    /\ shown \in [samples : Seq(Rates), obs : Nat, area : Nat, first : Nat, slack : Nat]

\* One reading at a time, which has entered with the time and the counter of then.
ReadingOK ==
    \A r \in reading :
       /\ reading = {r} /\ r.tx \in Nat /\ r.carried \in Nat /\ r.reset \in BOOLEAN /\ r.entered \in BOOLEAN
       /\ r.entered => /\ r.obs \in Nat /\ r.fake \in Nat
                       /\ 1 <= r.obs /\ last.obs <= r.obs /\ r.obs <= clock
                       /\ last.fake <= r.fake /\ r.fake <= fakeBytesTotal

LastOK == last.obs = shown.obs /\ last.obs <= clock /\ last.fake <= fakeBytesTotal

CountInv ==
    /\ fakeBytesTotal = fakeBytesCycle + N!Fold(adding, Workers)
    /\ \A cycle \in snap : snap = {cycle} /\ cycle \in Nat /\ cycle <= fakeBytesTotal

RegistryInv == RegistryTypeOK /\ ReadingOK /\ LastOK /\ CountInv

\* The sums of Metrics are folds.
LEMMA RegistrySums == \A f : Registry!SumFunction(f) = N!Fold(f, DOMAIN f)
  BY DEF Registry!SumFunction, Registry!SumFunctionOnSet, Registry!FoldFunctionOnSet, N!Fold,
    Registry!MapThenFoldSet, N!MapThenFoldSet

\* One value of a function is set.
OneSet(S, f, i, v, g) ==
    IsFiniteSet(S) /\ f \in [S -> Nat] /\ i \in S /\ v \in Nat /\ g = [f EXCEPT ![i] = v]

\* The sum changes by what the one summand changes.
LEMMA SumSet ==
    \A S, f, i, v, g : OneSet(S, f, i, v, g) =>
       /\ g \in [S -> Nat] /\ N!Fold(f, S) \in Nat /\ N!Fold(g, S) \in Nat /\ f[i] \in Nat
       /\ N!Fold(g, S) + f[i] = N!Fold(f, S) + v
<1> SUFFICES ASSUME NEW S, NEW f, NEW i, NEW v, NEW g, OneSet(S, f, i, v, g)
             PROVE  /\ g \in [S -> Nat] /\ N!Fold(f, S) \in Nat /\ N!Fold(g, S) \in Nat /\ f[i] \in Nat
                    /\ N!Fold(g, S) + f[i] = N!Fold(f, S) + v
  OBVIOUS
<1>1. /\ g \in [S -> Nat] /\ g[i] = v /\ f[i] \in Nat /\ v \in Nat
      /\ \A y \in S : f[y] \in Nat /\ g[y] \in Nat
      /\ \A y \in S \ {i} : f[y] = g[y]
      /\ IsFiniteSet(S) /\ i \in S
  BY DEF OneSet
<1>2. /\ N!Fold(f, S) = f[i] + N!Fold(f, S \ {i})
      /\ N!Fold(g, S) = g[i] + N!Fold(f, S \ {i})
      /\ N!Fold(f, S \ {i}) \in Nat
  BY <1>1, SumsAreFolds, N!FoldChange
<1>3. /\ N!Fold(f, S) \in Nat /\ N!Fold(g, S) \in Nat
      /\ N!Fold(g, S) + f[i] = N!Fold(f, S) + v
  BY <1>1, <1>2
<1> QED BY <1>1, <1>3

\* The sampler reads a number.
LEMMA CounterIsNat == RegistryTypeOK => Registry!Counter \in Nat
<1> SUFFICES ASSUME RegistryTypeOK PROVE Registry!Counter \in Nat
  OBVIOUS
<1>0. /\ IsFiniteSet(Nics) /\ Selectable \subseteq Nics \cup {All} /\ iface \in Selectable
      /\ nic \in [Nics -> Nat] /\ DOMAIN nic = Nics
  BY FiguresAssumption DEF Registry!MetricsAssumption, Registry!IsFiniteSet, IsFiniteSet, RegistryTypeOK
<1>1. N!Fold(nic, Nics) \in Nat
  BY <1>0, SumsAreFolds, N!FoldType
<1> QED BY <1>0, <1>1, RegistrySums DEF Registry!Counter

\* What the sampler reads is what all the cards carried.
LEMMA CounterIsSum ==
    ASSUME SameCounter, RegistryTypeOK
    PROVE  Registry!Counter = N!Fold(nic, Nics) /\ Registry!Counter \in Nat
<1>0. /\ IsFiniteSet(Nics) /\ Selectable \subseteq Nics \cup {All}
      /\ nic \in [Nics -> Nat] /\ DOMAIN nic = Nics
  BY FiguresAssumption, SumsAreFolds DEF Registry!MetricsAssumption, Registry!IsFiniteSet, IsFiniteSet, RegistryTypeOK
<1>1. N!Fold(nic, Nics) \in Nat
  BY <1>0, SumsAreFolds, N!FoldType
<1>2. CASE iface = All
  BY <1>0, <1>1, <1>2, RegistrySums DEF Registry!Counter
<1>3. CASE iface # All
  <2>1. PICK i : Nics = {i} /\ iface = i
    BY <1>0, <1>3 DEF SameCounter, RegistryTypeOK
  <2>2. i \in Nics /\ Nics \ {i} = {} /\ \A y \in Nics : nic[y] \in Nat
    BY <1>0, <2>1
  <2>3. N!Fold(nic, Nics) = nic[i] + N!Fold(nic, {})
    BY <1>0, <2>2, SumsAreFolds, N!FoldRemove
  <2>4. N!Fold(nic, {}) = 0
    BY N!FoldEmpty, SMTT(60)
  <2> QED BY <1>3, <2>1, <2>2, <2>3, <2>4 DEF Registry!Counter
<1> QED BY <1>2, <1>3, <1>1

\* What ObserveSpeed does with the reading that has entered.
LEMMA Observed ==
    ASSUME RegistryInv, Registry!ObserveSpeed
    PROVE  \E r \in reading : \E t \in Nat, f \in Nat :
              /\ reading = {r} /\ r.entered /\ r.obs = last.obs + t /\ r.fake = last.fake + f
              /\ r.obs \in Nat \ {0} /\ r.obs <= clock /\ r.fake \in Nat /\ r.fake <= fakeBytesTotal
              /\ r.tx \in Nat /\ r.carried \in Nat /\ r.reset \in BOOLEAN
              /\ speed' = IF last.obs # 0 /\ t > 0
                          THEN [up |-> IF r.tx < last.tx THEN 0 ELSE (r.tx - last.tx) \div t, fake |-> f \div t]
                          ELSE speed
              /\ last' = [tx |-> r.tx, fake |-> r.fake, obs |-> r.obs]
              /\ carried' = IF last.obs # 0 /\ t > 0
                            THEN [carried EXCEPT !.before = r.carried, !.resetIn = r.reset, !.dt = t] ELSE carried
              /\ shown' = [samples |-> Append(shown.samples, speed'), obs |-> r.obs,
                           area |-> shown.area + (IF shown.samples # <<>> /\ t > 0 THEN speed'.fake * t ELSE 0),
                           first |-> IF shown.samples = <<>> THEN r.fake ELSE shown.first,
                           slack |-> shown.slack + (IF t > 0 THEN t - 1 ELSE f)]
<1>1. PICK r \in reading :
        /\ r.entered
        /\ speed' = IF last.obs # 0 /\ r.obs - last.obs > 0
                    THEN [up |-> Registry!deltaRate(r.tx, last.tx, r.obs - last.obs),
                          fake |-> Registry!deltaRate(r.fake, last.fake, r.obs - last.obs)]
                    ELSE speed
        /\ last' = [tx |-> r.tx, fake |-> r.fake, obs |-> r.obs]
        /\ carried' = IF shown.obs # 0 /\ r.obs - shown.obs > 0
                      THEN [carried EXCEPT !.before = r.carried, !.resetIn = r.reset, !.dt = r.obs - shown.obs]
                      ELSE carried
        /\ shown' = [samples |-> Append(shown.samples, speed'), obs |-> r.obs,
                     area |-> shown.area + (IF shown.samples # <<>> /\ r.obs - shown.obs > 0
                                            THEN speed'.fake * (r.obs - shown.obs) ELSE 0),
                     first |-> IF shown.samples = <<>> THEN r.fake ELSE shown.first,
                     slack |-> shown.slack + (IF r.obs - shown.obs > 0 THEN r.obs - shown.obs - 1
                                              ELSE r.fake - last.fake)]
  BY DEF Registry!ObserveSpeed, Registry!None
<1>2. /\ reading = {r} /\ r.obs \in Nat \ {0} /\ last.obs <= r.obs /\ r.obs <= clock
      /\ last.fake <= r.fake /\ r.fake <= fakeBytesTotal /\ r.fake \in Nat
      /\ last.obs \in Nat /\ last.fake \in Nat /\ last.obs = shown.obs
      /\ r.tx \in Nat /\ r.carried \in Nat /\ r.reset \in BOOLEAN
  <2>1. /\ reading = {r} /\ r.tx \in Nat /\ r.carried \in Nat /\ r.reset \in BOOLEAN
        /\ r.obs \in Nat /\ r.fake \in Nat
        /\ 1 <= r.obs /\ last.obs <= r.obs /\ r.obs <= clock
        /\ last.fake <= r.fake /\ r.fake <= fakeBytesTotal
    BY <1>1 DEF RegistryInv, ReadingOK
  <2>2. last.obs \in Nat /\ last.fake \in Nat
    BY DEF RegistryInv, RegistryTypeOK
  <2>3. last.obs = shown.obs
    BY DEF RegistryInv, LastOK
  <2>4. r.obs # 0
    BY <2>1
  <2> QED BY <2>1, <2>2, <2>3, <2>4
<1>3. PICK t \in Nat, f \in Nat : t = r.obs - last.obs /\ f = r.fake - last.fake
  <2>1. r.obs - last.obs \in Nat /\ r.fake - last.fake \in Nat
    BY <1>2
  <2> QED BY <2>1
<1>4. r.obs = last.obs + t /\ r.fake = last.fake + f /\ ~(r.fake < last.fake)
  BY <1>2, <1>3
<1>5. speed' = IF last.obs # 0 /\ t > 0
               THEN [up |-> IF r.tx < last.tx THEN 0 ELSE (r.tx - last.tx) \div t, fake |-> f \div t]
               ELSE speed
  BY <1>1, <1>3, <1>4 DEF Registry!deltaRate
<1>6. carried' = IF last.obs # 0 /\ t > 0
                 THEN [carried EXCEPT !.before = r.carried, !.resetIn = r.reset, !.dt = t] ELSE carried
  BY <1>1, <1>2, <1>3
<1>7. shown' = [samples |-> Append(shown.samples, speed'), obs |-> r.obs,
                area |-> shown.area + (IF shown.samples # <<>> /\ t > 0 THEN speed'.fake * t ELSE 0),
                first |-> IF shown.samples = <<>> THEN r.fake ELSE shown.first,
                slack |-> shown.slack + (IF t > 0 THEN t - 1 ELSE f)]
  BY <1>1, <1>2, <1>3
<1> QED BY <1>1, <1>2, <1>4, <1>5, <1>6, <1>7

\* Its types and counts after it.
LEMMA ObserveNext ==
    ASSUME RegistryInv, Registry!ObserveSpeed
    PROVE  RegistryInv'
<1>1. PICK r \in reading, t \in Nat, f \in Nat :
              /\ r.obs = last.obs + t /\ r.fake = last.fake + f
              /\ r.obs \in Nat \ {0} /\ r.obs <= clock /\ r.fake \in Nat /\ r.fake <= fakeBytesTotal
              /\ r.tx \in Nat /\ r.carried \in Nat /\ r.reset \in BOOLEAN
              /\ speed' = IF last.obs # 0 /\ t > 0
                          THEN [up |-> IF r.tx < last.tx THEN 0 ELSE (r.tx - last.tx) \div t, fake |-> f \div t]
                          ELSE speed
              /\ last' = [tx |-> r.tx, fake |-> r.fake, obs |-> r.obs]
              /\ carried' = IF last.obs # 0 /\ t > 0
                            THEN [carried EXCEPT !.before = r.carried, !.resetIn = r.reset, !.dt = t] ELSE carried
              /\ shown' = [samples |-> Append(shown.samples, speed'), obs |-> r.obs,
                           area |-> shown.area + (IF shown.samples # <<>> /\ t > 0 THEN speed'.fake * t ELSE 0),
                           first |-> IF shown.samples = <<>> THEN r.fake ELSE shown.first,
                           slack |-> shown.slack + (IF t > 0 THEN t - 1 ELSE f)]
  BY Observed, ZenonT(60)
<1>2. ring' = Registry!appendRing(ring, speed') /\ reading' = {}
      /\ UNCHANGED <<clock, nic, iface, fakeBytesTotal, fakeBytesCycle, adding, snap>>
  BY DEF Registry!ObserveSpeed, Registry!world, Registry!atomics
<1>3. RegistryTypeOK /\ CountInv
  BY DEF RegistryInv
<1>4. speed' \in Rates
  <2>1. CASE last.obs # 0 /\ t > 0
    <3>1. last.tx \in Nat
      BY <1>3 DEF RegistryTypeOK
    <3>2. t \in Nat \ {0} /\ f \div t \in Nat
      BY <2>1, DivIs
    <3>3. ~(r.tx < last.tx) => (r.tx - last.tx) \div t \in Nat
      <4>0. r.tx \in Nat
        BY <1>1
      <4>1. ~(r.tx < last.tx) => r.tx - last.tx \in Nat
        BY <3>1, <4>0
      <4> QED BY <3>2, <4>1, DivIs
    <3> QED BY <1>1, <2>1, <3>2, <3>3 DEF Rates
  <2>2. CASE ~(last.obs # 0 /\ t > 0)
    BY <1>1, <1>3, <2>2 DEF RegistryTypeOK
  <2> QED BY <2>1, <2>2
<1>5. shown' \in [samples : Seq(Rates), obs : Nat, area : Nat, first : Nat, slack : Nat]
  <2>1. speed'.fake \in Nat /\ speed'.fake * t \in Nat
    BY <1>4 DEF Rates
  <2>2. /\ shown.samples \in Seq(Rates) /\ shown.area \in Nat /\ shown.first \in Nat /\ shown.slack \in Nat
        /\ t > 0 => t - 1 \in Nat
    BY <1>3 DEF RegistryTypeOK
  <2>3. Append(shown.samples, speed') \in Seq(Rates)
    BY <1>4, <2>2
  <2>4. /\ shown.area + (IF shown.samples # <<>> /\ t > 0 THEN speed'.fake * t ELSE 0) \in Nat
        /\ shown.slack + (IF t > 0 THEN t - 1 ELSE f) \in Nat
        /\ (IF shown.samples = <<>> THEN r.fake ELSE shown.first) \in Nat
    <3> DEFINE d == speed'.fake * t
    <3>1. d \in Nat /\ r.fake \in Nat /\ f \in Nat /\ t \in Nat
      BY <1>1, <2>1
    <3> HIDE DEF d
    <3>2. shown.area + (IF shown.samples # <<>> /\ t > 0 THEN d ELSE 0) \in Nat
      BY <2>2, <3>1
    <3>3. shown.slack + (IF t > 0 THEN t - 1 ELSE f) \in Nat
      BY <2>2, <3>1
    <3> QED BY <2>2, <3>1, <3>2, <3>3 DEF d
  <2>5. r.obs \in Nat
    BY <1>1
  <2> QED BY <1>1, <2>3, <2>4, <2>5
<1>6. ring' \in Seq(Rates)
  <2>1. ring \in Seq(Rates) /\ maxSamples \in Nat /\ maxSamples > 0
    BY <1>3, FiguresAssumption DEF RegistryTypeOK, Registry!MetricsAssumption
  <2>2. CASE Len(ring) = maxSamples
    <3>1. ring # <<>>
      BY <2>1, <2>2
    <3>2. Tail(ring) \in Seq(Rates)
      BY <2>1, <3>1
    <3> QED BY <1>2, <1>4, <2>2, <3>2 DEF Registry!appendRing
  <2>3. CASE Len(ring) # maxSamples
    BY <1>2, <1>4, <2>1, <2>3 DEF Registry!appendRing
  <2> QED BY <2>2, <2>3
<1>7. carried' \in Carriage /\ last' \in [tx : Nat, fake : Nat, obs : Nat]
  <2>1. carried \in Carriage
    BY <1>3 DEF RegistryTypeOK
  <2>2. last.obs # 0 /\ t > 0 => t \in Nat \ {0}
    OBVIOUS
  <2>3. carried' \in Carriage
    BY <1>1, <2>1, <2>2 DEF Carriage
  <2> QED BY <1>1, <2>3
<1>8. RegistryTypeOK'
  BY <1>2, <1>3, <1>4, <1>5, <1>6, <1>7 DEF RegistryTypeOK
<1>9. ReadingOK'
  BY <1>2 DEF ReadingOK
<1>10. LastOK'
  BY <1>1, <1>2 DEF LastOK
<1>11. CountInv'
  BY <1>2, <1>3 DEF CountInv
<1> QED BY <1>8, <1>9, <1>10, <1>11 DEF RegistryInv

\* Registry's actions one after the other: each is a step of the invariant.
LEMMA AddNext == ASSUME RegistryInv, NEW w \in Workers, Registry!AddFakeBytes(w) PROVE RegistryInv'
<1>1. RegistryTypeOK /\ ReadingOK /\ LastOK /\ CountInv /\ IsFiniteSet(Workers)
  BY FiguresAssumption DEF RegistryInv, Registry!MetricsAssumption, Registry!IsFiniteSet, IsFiniteSet
<1>2. /\ UNCHANGED <<clock, nic, iface, reading, last, speed, ring, carried, shown, snap>>
      /\ adding \in [Workers -> Nat] /\ fakeBytesTotal \in Nat /\ fakeBytesCycle \in Nat
  BY <1>1 DEF Registry!AddFakeBytes, Registry!world, Registry!observed, RegistryTypeOK
<1>3. PICK v \in Nat : /\ adding' = [adding EXCEPT ![w] = v] /\ fakeBytesTotal' \in Nat /\ fakeBytesCycle' \in Nat
                       /\ fakeBytesTotal <= fakeBytesTotal'
                       /\ fakeBytesTotal' + adding[w] + fakeBytesCycle = fakeBytesTotal + v + fakeBytesCycle'
  <2>1. CASE adding[w] = 0
    <3>1. PICK k \in 1..(MaxFake - fakeBytesTotal) :
            Registry!Add(w, k) /\ adding' = [adding EXCEPT ![w] = k]
      BY <2>1 DEF Registry!AddFakeBytes
    <3>2. k \in Nat
      BY <1>2, <3>1, FiguresAssumption DEF Registry!MetricsAssumption
    <3>3. fakeBytesTotal' = fakeBytesTotal + k /\ fakeBytesCycle' = fakeBytesCycle
      BY <2>1, <3>1 DEF Registry!Add
    <3>4. /\ adding' = [adding EXCEPT ![w] = k] /\ fakeBytesTotal' \in Nat /\ fakeBytesCycle' \in Nat
          /\ fakeBytesTotal <= fakeBytesTotal'
          /\ fakeBytesTotal' + adding[w] + fakeBytesCycle = fakeBytesTotal + k + fakeBytesCycle'
      BY <1>2, <2>1, <3>1, <3>2, <3>3
    <3> QED BY <3>2, <3>4
  <2>2. CASE adding[w] # 0
    <3>1. /\ adding' = [adding EXCEPT ![w] = 0]
          /\ fakeBytesTotal' = fakeBytesTotal /\ fakeBytesCycle' = fakeBytesCycle + adding[w]
      BY <2>2 DEF Registry!AddFakeBytes, Registry!Add
    <3>2. adding[w] \in Nat
      BY <1>2
    <3>3. /\ adding' = [adding EXCEPT ![w] = 0] /\ fakeBytesTotal' \in Nat /\ fakeBytesCycle' \in Nat
          /\ fakeBytesTotal <= fakeBytesTotal'
          /\ fakeBytesTotal' + adding[w] + fakeBytesCycle = fakeBytesTotal + 0 + fakeBytesCycle'
      BY <1>2, <3>1, <3>2
    <3>4. 0 \in Nat
      OBVIOUS
    <3> QED BY <3>3, <3>4
  <2> QED BY <2>1, <2>2
<1>4. /\ adding' \in [Workers -> Nat] /\ N!Fold(adding, Workers) \in Nat /\ N!Fold(adding', Workers) \in Nat
      /\ N!Fold(adding', Workers) + adding[w] = N!Fold(adding, Workers) + v
      /\ adding[w] \in Nat
  <2>1. OneSet(Workers, adding, w, v, adding')
    BY <1>1, <1>2, <1>3 DEF OneSet
  <2> QED BY <2>1, SumSet
<1>5. fakeBytesTotal = fakeBytesCycle + N!Fold(adding, Workers)
  BY <1>1 DEF CountInv
<1>6. fakeBytesTotal' = fakeBytesCycle' + N!Fold(adding', Workers)
  BY <1>2, <1>3, <1>4, <1>5
<1>7. RegistryTypeOK'
  BY <1>1, <1>2, <1>3, <1>4 DEF RegistryTypeOK
<1>8. ReadingOK'
  BY <1>1, <1>2, <1>3 DEF ReadingOK
<1>9. LastOK'
  <2>1. last.fake <= fakeBytesTotal /\ last.fake \in Nat
    BY <1>1 DEF LastOK, RegistryTypeOK
  <2> QED BY <1>1, <1>2, <1>3, <2>1 DEF LastOK
<1>10. CountInv'
  BY <1>1, <1>2, <1>3, <1>6 DEF CountInv
<1> QED BY <1>7, <1>8, <1>9, <1>10 DEF RegistryInv

\* The invariant of the registry is inductive.
LEMMA RegistryNext == RegistryInv /\ [Registry!Next]_(Registry!vars) => RegistryInv'
<1> SUFFICES ASSUME RegistryInv, [Registry!Next]_(Registry!vars) PROVE RegistryInv'
  OBVIOUS
<1>1. RegistryTypeOK /\ ReadingOK /\ LastOK /\ CountInv
  BY DEF RegistryInv
<1>2. CASE UNCHANGED Registry!vars
  BY <1>1, <1>2 DEF RegistryInv, RegistryTypeOK, ReadingOK, LastOK, CountInv,
    Registry!vars, Registry!world, Registry!atomics, Registry!observed
<1>3. CASE Registry!Tick
  <2>1. clock' = clock + 1 /\ UNCHANGED <<nic, iface, fakeBytesTotal, fakeBytesCycle, adding,
                                         reading, last, speed, ring, carried, shown, snap>>
    BY <1>3 DEF Registry!Tick, Registry!atomics, Registry!observed
  <2>2. clock \in Nat
    BY <1>1 DEF RegistryTypeOK
  <2>3. RegistryTypeOK'
    BY <1>1, <2>1 DEF RegistryTypeOK
  <2>4. ReadingOK'
    BY <1>1, <2>1, <2>2 DEF ReadingOK
  <2>5. LastOK'
    <3>1. last.obs \in Nat
      BY <1>1 DEF RegistryTypeOK
    <3> QED BY <1>1, <2>1, <2>2, <3>1 DEF LastOK
  <2> QED BY <1>1, <2>1, <2>3, <2>4, <2>5 DEF RegistryInv, CountInv
<1>4. CASE Registry!Select
  BY <1>1, <1>4 DEF RegistryInv, RegistryTypeOK, ReadingOK, LastOK, CountInv,
    Registry!Select, Registry!atomics, Registry!observed
<1>5. ASSUME NEW i \in Nics, Registry!Carry(i) PROVE RegistryInv'
  <2>1. /\ nic' = [nic EXCEPT ![i] = nic[i] + 1] /\ carried' = [carried EXCEPT !.since = carried.since + 1]
        /\ UNCHANGED <<clock, iface, fakeBytesTotal, fakeBytesCycle, adding,
                       reading, last, speed, ring, shown, snap>>
    BY <1>5 DEF Registry!Carry, Registry!atomics
  <2>2. nic' \in [Nics -> Nat] /\ carried' \in Carriage
    <3>1. nic \in [Nics -> Nat] /\ carried \in Carriage
      BY <1>1 DEF RegistryTypeOK
    <3>2. nic[i] + 1 \in Nat /\ carried.since + 1 \in Nat
      BY <3>1 DEF Carriage
    <3> QED BY <2>1, <3>1, <3>2 DEF Carriage
  <2>3. RegistryTypeOK'
    BY <1>1, <2>1, <2>2 DEF RegistryTypeOK
  <2> QED BY <1>1, <2>1, <2>3 DEF RegistryInv, ReadingOK, LastOK, CountInv
<1>6. ASSUME NEW i \in Nics, Registry!InterfaceReset(i) PROVE RegistryInv'
  <2>1. /\ nic' = [nic EXCEPT ![i] = 0] /\ carried' = [carried EXCEPT !.reset = TRUE]
        /\ UNCHANGED <<clock, iface, fakeBytesTotal, fakeBytesCycle, adding,
                       reading, last, speed, ring, shown, snap>>
    BY <1>6 DEF Registry!InterfaceReset, Registry!atomics
  <2>2. nic' \in [Nics -> Nat] /\ carried' \in Carriage
    BY <1>1, <2>1 DEF RegistryTypeOK, Carriage
  <2>3. RegistryTypeOK'
    BY <1>1, <2>1, <2>2 DEF RegistryTypeOK
  <2> QED BY <1>1, <2>1, <2>3 DEF RegistryInv, ReadingOK, LastOK, CountInv
<1>7. CASE Registry!Enter
  <2>1. PICK r \in reading :
          /\ ~r.entered
          /\ reading' = {[tx |-> r.tx, carried |-> r.carried, reset |-> r.reset, entered |-> TRUE,
                          obs |-> clock, fake |-> fakeBytesTotal]}
    BY <1>7 DEF Registry!Enter
  <2>2. UNCHANGED <<clock, nic, iface, fakeBytesTotal, fakeBytesCycle, adding,
                    last, speed, ring, carried, shown, snap>>
    BY <1>7 DEF Registry!Enter, Registry!world, Registry!atomics
  <2>3. r.tx \in Nat /\ r.carried \in Nat /\ r.reset \in BOOLEAN /\ last.obs <= clock /\ last.fake <= fakeBytesTotal
        /\ clock \in Nat \ {0} /\ fakeBytesTotal \in Nat
    BY <1>1, <2>1 DEF ReadingOK, LastOK, RegistryTypeOK
  <2>4. ReadingOK'
    <3> DEFINE q == [tx |-> r.tx, carried |-> r.carried, reset |-> r.reset, entered |-> TRUE,
                     obs |-> clock, fake |-> fakeBytesTotal]
    <3>1. /\ reading' = {q} /\ q.tx \in Nat /\ q.carried \in Nat /\ q.reset \in BOOLEAN /\ q.entered \in BOOLEAN
          /\ q.obs = clock /\ q.fake = fakeBytesTotal
      BY <2>1, <2>3
    <3> HIDE DEF q
    <3>2. /\ q.obs \in Nat /\ q.fake \in Nat /\ 1 <= q.obs
          /\ last'.obs <= q.obs /\ q.obs <= clock'
          /\ last'.fake <= q.fake /\ q.fake <= fakeBytesTotal'
      BY <2>2, <2>3, <3>1
    <3> QED BY <3>1, <3>2 DEF ReadingOK
  <2> QED BY <1>1, <2>2, <2>4 DEF RegistryInv, RegistryTypeOK, LastOK, CountInv
<1>8. CASE Registry!Snapshot
  <2>1. UNCHANGED <<clock, nic, iface, fakeBytesTotal, fakeBytesCycle, adding,
                    reading, last, speed, ring, carried, shown>>
    BY <1>8 DEF Registry!Snapshot, Registry!world, Registry!atomics, Registry!observed
  <2>2. fakeBytesTotal = fakeBytesCycle + N!Fold(adding, Workers) /\ fakeBytesCycle \in Nat
    BY <1>1 DEF CountInv, RegistryTypeOK
  <2>3. N!Fold(adding, Workers) \in Nat
    BY <1>1, FiguresAssumption, SumsAreFolds, N!FoldType DEF RegistryTypeOK,
      Registry!MetricsAssumption, Registry!IsFiniteSet, IsFiniteSet
  <2>4. fakeBytesCycle <= fakeBytesTotal
    BY <2>2, <2>3
  <2>5. \A cycle \in snap' : snap' = {cycle} /\ cycle \in Nat /\ cycle <= fakeBytesTotal
    BY <1>8, <2>2, <2>4 DEF Registry!Snapshot
  <2> QED BY <1>1, <2>1, <2>5 DEF RegistryInv, RegistryTypeOK, ReadingOK, LastOK, CountInv
<1>9. CASE Registry!Read
  <2>1. UNCHANGED <<clock, nic, iface, fakeBytesTotal, fakeBytesCycle, adding,
                    last, speed, ring, shown, snap>>
    BY <1>9 DEF Registry!Read, Registry!Fails, Registry!world, Registry!atomics
  <2>2. CASE UNCHANGED <<reading, carried>>
    BY <1>1, <2>1, <2>2 DEF RegistryInv, RegistryTypeOK, ReadingOK, LastOK, CountInv
  <2>3. CASE /\ reading' = {[tx |-> Registry!Counter, carried |-> carried.since, reset |-> carried.reset,
                           entered |-> FALSE]}
             /\ carried' = [carried EXCEPT !.since = 0, !.reset = FALSE]
    <3>1. Registry!Counter \in Nat /\ carried \in Carriage
      BY <1>1, CounterIsNat DEF RegistryTypeOK
    <3>2. ReadingOK'
      <4> DEFINE q == [tx |-> Registry!Counter, carried |-> carried.since, reset |-> carried.reset,
                       entered |-> FALSE]
      <4>1. reading' = {q} /\ q.tx \in Nat /\ q.carried \in Nat /\ q.reset \in BOOLEAN /\ q.entered = FALSE
        BY <2>3, <3>1 DEF Carriage
      <4> HIDE DEF q
      <4> QED BY <4>1 DEF ReadingOK
    <3>3. carried' \in Carriage
      BY <2>3, <3>1 DEF Carriage
    <3> QED BY <1>1, <2>1, <3>2, <3>3 DEF RegistryInv, RegistryTypeOK, LastOK, CountInv
  <2> QED BY <1>9, <2>2, <2>3 DEF Registry!Read
<1> QED BY <1>2, <1>3, <1>4, <1>5, <1>6, <1>7, <1>8, <1>9, AddNext, ObserveNext DEF Registry!Next

\* It holds when the program starts.
LEMMA RegistryInit == Registry!Init => RegistryInv
<1> SUFFICES ASSUME Registry!Init PROVE RegistryInv
  OBVIOUS
<1>0. IsFiniteSet(Workers) /\ Selectable \subseteq Nics \cup {All} /\ All \in Selectable
  BY FiguresAssumption DEF Registry!MetricsAssumption, Registry!IsFiniteSet, IsFiniteSet
<1>1. N!Fold(adding, Workers) = 0
  <2>1. \A w \in Workers : adding[w] = 0
    BY DEF Registry!Init
  <2> QED BY <1>0, <2>1, SumsAreFolds, N!FoldBase
<1>2. RegistryTypeOK
  <2>1. <<>> \in Seq(Rates)
    OBVIOUS
  <2> QED BY <1>0, <2>1 DEF Registry!Init, Registry!None, RegistryTypeOK, Rates, Carriage
<1> QED BY <1>1, <1>2 DEF Registry!Init, Registry!None, RegistryInv, ReadingOK, LastOK, CountInv

\* No worker is between its two additions: the two counters agree.
LEMMA CountersFollow == RegistryInv => Registry!CountersAddUp
<1> SUFFICES ASSUME RegistryInv PROVE Registry!CountersAddUp
  OBVIOUS
<1>1. IsFiniteSet(Workers) /\ fakeBytesCycle \in Nat /\ fakeBytesTotal = fakeBytesCycle + N!Fold(adding, Workers)
  BY FiguresAssumption DEF Registry!MetricsAssumption, Registry!IsFiniteSet, IsFiniteSet,
    RegistryInv, RegistryTypeOK, CountInv
<1>2. ASSUME \A w \in Workers : adding[w] = 0 PROVE fakeBytesCycle = fakeBytesTotal
  <2>1. N!Fold(adding, Workers) = 0
    BY <1>1, <1>2, SumsAreFolds, N!FoldBase
  <2> QED BY <1>1, <2>1
<1> QED BY <1>2 DEF Registry!CountersAddUp, RegistryInv, CountInv

\* The counters stand at h: at what the reading had and what was carried since, or at
\* less if one was reset.
Reads(had, since, reset, h) == h <= had + since /\ (~reset => h = had + since)

\* A speed u is that of b bytes in a period d, or less if a counter was reset in it.
Pace(u, b, d, reset) == u * d <= b /\ (~reset => u = b \div d)

\* What the cards have carried up to now, up to the reading that is on its way, and up
\* to the last one: they differ by what was carried between, unless one was reset.
CarriedInv ==
    /\ last.obs # 0 /\ reading = {} => Reads(last.tx, carried.since, carried.reset, N!Fold(nic, Nics))
    /\ \A r \in reading :
          /\ Reads(r.tx, carried.since, carried.reset, N!Fold(nic, Nics))
          /\ last.obs # 0 => Reads(last.tx, r.carried, r.reset, r.tx)
    /\ Pace(speed.up, carried.before, carried.dt, carried.resetIn)

\* It holds before the first reading.
LEMMA CarriedInit == Registry!Init => CarriedInv
<1> SUFFICES ASSUME Registry!Init PROVE CarriedInv
  OBVIOUS
<1>1. reading = {} /\ last.obs = 0
  BY DEF Registry!Init, Registry!None
<1>2. speed.up = 0 /\ carried.before = 0 /\ carried.dt = 1
  BY DEF Registry!Init
<1>3. Pace(speed.up, carried.before, carried.dt, carried.resetIn)
  BY <1>2 DEF Pace
<1> QED BY <1>1, <1>3 DEF CarriedInv

\* The rate of two readings is the pace of what was carried between them.
LEMMA RateIsPace ==
    ASSUME NEW x \in Nat, NEW y \in Nat, NEW b \in Nat, NEW t \in Nat \ {0}, NEW reset \in BOOLEAN,
           Reads(x, b, reset, y)
    PROVE  Pace(IF y < x THEN 0 ELSE (y - x) \div t, b, t, reset)
<1>1. y <= x + b /\ (~reset => y = x + b)
  BY DEF Reads
<1>2. CASE y < x
  BY <1>1, <1>2 DEF Pace
<1>3. CASE ~(y < x)
  <2>1. PICK a \in Nat : a = y - x /\ a <= b /\ (~reset => a = b)
    <3>1. y - x \in Nat /\ y - x <= b /\ (~reset => y - x = b)
      BY <1>1, <1>3
    <3> QED BY <3>1
  <2>2. PICK q \in Nat : q = a \div t /\ t * q <= a
    BY DivIs
  <2>3. q * t <= b
    BY <2>1, <2>2
  <2> QED BY <1>3, <2>1, <2>2, <2>3 DEF Pace
<1> QED BY <1>2, <1>3

\* ObserveSpeed keeps it: the rate is that of the reading before, or none.
LEMMA CarriedObserve ==
    ASSUME RegistryInv, CarriedInv, Registry!ObserveSpeed
    PROVE  CarriedInv'
<1>1. PICK r \in reading, t \in Nat :
        /\ reading = {r} /\ r.tx \in Nat /\ r.carried \in Nat /\ r.reset \in BOOLEAN /\ r.obs \in Nat \ {0}
        /\ speed' = IF last.obs # 0 /\ t > 0
                    THEN [up |-> IF r.tx < last.tx THEN 0 ELSE (r.tx - last.tx) \div t, fake |-> speed'.fake]
                    ELSE speed
        /\ last'.tx = r.tx /\ last'.obs = r.obs
        /\ carried' = IF last.obs # 0 /\ t > 0
                      THEN [carried EXCEPT !.before = r.carried, !.resetIn = r.reset, !.dt = t] ELSE carried
  <2>1. PICK r \in reading, t \in Nat, f \in Nat :
              /\ reading = {r} /\ r.obs \in Nat \ {0} /\ r.tx \in Nat /\ r.carried \in Nat /\ r.reset \in BOOLEAN
              /\ speed' = IF last.obs # 0 /\ t > 0
                          THEN [up |-> IF r.tx < last.tx THEN 0 ELSE (r.tx - last.tx) \div t, fake |-> f \div t]
                          ELSE speed
              /\ last' = [tx |-> r.tx, fake |-> r.fake, obs |-> r.obs]
              /\ carried' = IF last.obs # 0 /\ t > 0
                            THEN [carried EXCEPT !.before = r.carried, !.resetIn = r.reset, !.dt = t] ELSE carried
    BY Observed, ZenonT(60)
  <2>2. last'.tx = r.tx /\ last'.obs = r.obs
    BY <2>1
  <2>3. last.obs # 0 /\ t > 0 => speed'.fake = f \div t
    BY <2>1
  <2> QED BY <2>1, <2>2, <2>3
<1>2. /\ last.tx \in Nat /\ speed \in Rates /\ carried \in Carriage
      /\ Reads(r.tx, carried.since, carried.reset, N!Fold(nic, Nics))
      /\ last.obs # 0 => Reads(last.tx, r.carried, r.reset, r.tx)
      /\ Pace(speed.up, carried.before, carried.dt, carried.resetIn)
  BY <1>1 DEF RegistryInv, RegistryTypeOK, CarriedInv
<1>3. reading' = {} /\ nic' = nic
  BY DEF Registry!ObserveSpeed, Registry!world
<1>4. CASE last.obs # 0 /\ t > 0
  <2>1. /\ speed'.up = IF r.tx < last.tx THEN 0 ELSE (r.tx - last.tx) \div t
        /\ carried'.dt = t /\ carried'.before = r.carried /\ carried'.resetIn = r.reset
        /\ carried'.since = carried.since /\ carried'.reset = carried.reset
    BY <1>1, <1>2, <1>4 DEF Carriage
  <2>2. t \in Nat \ {0}
    BY <1>4
  <2>3. Pace(IF r.tx < last.tx THEN 0 ELSE (r.tx - last.tx) \div t, r.carried, t, r.reset)
    BY <1>1, <1>2, <1>4, <2>2, RateIsPace
  <2> QED BY <1>1, <1>2, <1>3, <2>1, <2>3, Zenon DEF CarriedInv
<1>5. CASE ~(last.obs # 0 /\ t > 0)
  <2>1. speed' = speed /\ carried' = carried
    BY <1>1, <1>5
  <2> QED BY <1>1, <1>2, <1>3, <2>1, Zenon DEF CarriedInv
<1> QED BY <1>4, <1>5

\* It is inductive on a machine with one counter to read.
LEMMA CarriedNext ==
    SameCounter => (RegistryInv /\ CarriedInv /\ [Registry!Next]_(Registry!vars) => CarriedInv')
<1> SUFFICES ASSUME SameCounter, RegistryInv, CarriedInv, [Registry!Next]_(Registry!vars) PROVE CarriedInv'
  OBVIOUS
<1>1. RegistryTypeOK /\ ReadingOK /\ IsFiniteSet(Nics)
  BY FiguresAssumption DEF RegistryInv, Registry!MetricsAssumption, Registry!IsFiniteSet, IsFiniteSet
<1>2. CASE UNCHANGED <<nic, reading, last, speed, carried>>
  BY <1>2 DEF CarriedInv
<1>3. ASSUME NEW i \in Nics, Registry!Carry(i) PROVE CarriedInv'
  <2>1. /\ nic' = [nic EXCEPT ![i] = nic[i] + 1] /\ carried' = [carried EXCEPT !.since = carried.since + 1]
        /\ UNCHANGED <<reading, last, speed>>
    BY <1>3 DEF Registry!Carry
  <2>2. nic \in [Nics -> Nat] /\ nic[i] + 1 \in Nat /\ carried \in Carriage
    BY <1>1 DEF RegistryTypeOK
  <2>3. OneSet(Nics, nic, i, nic[i] + 1, nic')
    BY <1>1, <2>1, <2>2 DEF OneSet
  <2>4. N!Fold(nic', Nics) = N!Fold(nic, Nics) + 1 /\ N!Fold(nic, Nics) \in Nat
    <3>1. /\ N!Fold(nic, Nics) \in Nat /\ N!Fold(nic', Nics) \in Nat /\ nic[i] \in Nat
          /\ N!Fold(nic', Nics) + nic[i] = N!Fold(nic, Nics) + (nic[i] + 1)
      BY <2>3, SumSet
    <3> QED BY <3>1
  <2>5. /\ carried'.since = carried.since + 1 /\ carried.since \in Nat
        /\ carried'.dt = carried.dt /\ carried'.before = carried.before
        /\ carried'.reset = carried.reset /\ carried'.resetIn = carried.resetIn
    BY <2>1, <2>2 DEF Carriage
  <2>6. last.tx \in Nat /\ \A r \in reading : r.tx \in Nat
    BY <1>1 DEF RegistryTypeOK, ReadingOK
  <2>7. ASSUME NEW had \in Nat, Reads(had, carried.since, carried.reset, N!Fold(nic, Nics))
        PROVE  Reads(had, carried'.since, carried'.reset, N!Fold(nic', Nics))
    BY <2>4, <2>5, <2>7 DEF Reads
  <2> QED BY <2>1, <2>5, <2>6, <2>7 DEF CarriedInv
<1>4. ASSUME NEW i \in Nics, Registry!InterfaceReset(i) PROVE CarriedInv'
  <2>1. /\ nic' = [nic EXCEPT ![i] = 0] /\ carried' = [carried EXCEPT !.reset = TRUE]
        /\ UNCHANGED <<reading, last, speed>>
    BY <1>4 DEF Registry!InterfaceReset
  <2>2. OneSet(Nics, nic, i, 0, nic')
    BY <1>1, <2>1 DEF OneSet, RegistryTypeOK
  <2>3. N!Fold(nic', Nics) <= N!Fold(nic, Nics) /\ N!Fold(nic', Nics) \in Nat /\ N!Fold(nic, Nics) \in Nat
    <3>1. /\ N!Fold(nic, Nics) \in Nat /\ N!Fold(nic', Nics) \in Nat /\ nic[i] \in Nat
          /\ N!Fold(nic', Nics) + nic[i] = N!Fold(nic, Nics) + 0
      BY <2>2, SumSet
    <3> QED BY <3>1
  <2>4. last.tx \in Nat /\ carried \in Carriage /\ \A r \in reading : r.tx \in Nat
    BY <1>1 DEF RegistryTypeOK, ReadingOK
  <2>5. /\ carried'.since = carried.since /\ carried.since \in Nat /\ carried'.reset = TRUE
        /\ carried'.dt = carried.dt /\ carried'.before = carried.before /\ carried'.resetIn = carried.resetIn
    BY <2>1, <2>4 DEF Carriage
  <2>6. ASSUME NEW had \in Nat, Reads(had, carried.since, carried.reset, N!Fold(nic, Nics))
        PROVE  Reads(had, carried'.since, carried'.reset, N!Fold(nic', Nics))
    BY <2>3, <2>5, <2>6 DEF Reads
  <2> QED BY <2>1, <2>4, <2>5, <2>6 DEF CarriedInv
<1>5. CASE Registry!Enter
  <2>1. PICK r \in reading :
          reading' = {[tx |-> r.tx, carried |-> r.carried, reset |-> r.reset, entered |-> TRUE,
                       obs |-> clock, fake |-> fakeBytesTotal]}
    BY <1>5 DEF Registry!Enter
  <2>2. UNCHANGED <<nic, last, speed, carried>>
    BY <1>5 DEF Registry!Enter, Registry!world
  <2>3. \A q \in reading' : q.tx = r.tx /\ q.carried = r.carried /\ q.reset = r.reset
    BY <2>1
  <2> QED BY <2>1, <2>2, <2>3 DEF CarriedInv
<1>6. CASE Registry!Read /\ ~UNCHANGED <<reading, carried>>
  <2>1. /\ reading = {} /\ UNCHANGED <<nic, last, speed>>
        /\ reading' = {[tx |-> Registry!Counter, carried |-> carried.since, reset |-> carried.reset,
                        entered |-> FALSE]}
        /\ carried' = [carried EXCEPT !.since = 0, !.reset = FALSE]
    BY <1>6 DEF Registry!Read, Registry!world
  <2>2. Registry!Counter = N!Fold(nic, Nics) /\ Registry!Counter \in Nat
    BY <1>1, CounterIsSum
  <2>3. /\ carried'.since = 0 /\ carried'.reset = FALSE
        /\ carried'.dt = carried.dt /\ carried'.before = carried.before /\ carried'.resetIn = carried.resetIn
    BY <1>1, <2>1 DEF RegistryTypeOK, Carriage
  <2>4. \A q \in reading' : q.tx = N!Fold(nic, Nics) /\ q.carried = carried.since /\ q.reset = carried.reset
    BY <2>1, <2>2
  <2>5. Reads(N!Fold(nic, Nics), carried'.since, carried'.reset, N!Fold(nic, Nics))
    BY <2>2, <2>3 DEF Reads
  <2>6. last.obs # 0 => Reads(last.tx, carried.since, carried.reset, N!Fold(nic, Nics))
    BY <2>1 DEF CarriedInv
  <2>7. reading' # {} /\ nic' = nic
    BY <2>1
  <2> QED BY <2>1, <2>3, <2>4, <2>5, <2>6, <2>7 DEF CarriedInv
<1>7. CASE Registry!Read /\ UNCHANGED <<reading, carried>>
  BY <1>2, <1>7 DEF Registry!Read, Registry!Fails, Registry!world
<1>8. CASE Registry!Snapshot \/ Registry!Tick \/ Registry!Select \/ \E w \in Workers : Registry!AddFakeBytes(w)
  BY <1>2, <1>8 DEF Registry!Snapshot, Registry!Tick, Registry!Select, Registry!AddFakeBytes,
    Registry!observed, Registry!world
<1> QED BY <1>2, <1>3, <1>4, <1>5, <1>6, <1>7, <1>8, CarriedObserve
     DEF Registry!Next, Registry!vars, Registry!observed, Registry!world

\* The speed is the one of the last period on such a machine.
LEMMA SpeedHolds == SameCounter => (Registry!Spec => []Registry!SpeedIsCarried)
<1> SUFFICES ASSUME SameCounter PROVE Registry!Spec => []Registry!SpeedIsCarried
  OBVIOUS
<1>1. CarriedInv => Registry!SpeedIsCarried
  BY DEF CarriedInv, Pace, Registry!SpeedIsCarried
<1>2. RegistryInv /\ CarriedInv /\ [Registry!Next]_(Registry!vars) => CarriedInv'
  BY CarriedNext
<1> QED BY <1>1, <1>2, RegistryInit, RegistryNext, CarriedInit, PTL DEF Registry!Spec

\* The ring holds the newest samples, one by one.
RingInv ==
    /\ Len(ring) = IF Len(shown.samples) < maxSamples THEN Len(shown.samples) ELSE maxSamples
    /\ \A i \in 1..Len(ring) : ring[i] = shown.samples[Len(shown.samples) - Len(ring) + i]

\* What is under the line and the bytes it stands for.
AreaInv ==
    /\ last.obs # 0 <=> shown.samples # <<>>
    /\ last.obs = 0 => shown.area = 0
    /\ last.obs # 0 => /\ shown.first + shown.area <= last.fake
                       /\ last.fake <= shown.first + shown.area + shown.slack

LineInv == RingInv /\ AreaInv

\* It holds with an empty line.
LEMMA LineInit == Registry!Init => LineInv
<1> SUFFICES ASSUME Registry!Init PROVE LineInv
  OBVIOUS
<1>1. ring = <<>> /\ shown.samples = <<>> /\ shown.area = 0 /\ last.obs = 0 /\ maxSamples > 0
  BY FiguresAssumption DEF Registry!Init, Registry!None, Registry!MetricsAssumption
<1> QED BY <1>1 DEF LineInv, RingInv, AreaInv

\* Two bounds of a period are added to those of the line.
LEMMA BoundsAdd ==
    \A x, a, k, l, q, u, f \in Nat :
       x + a <= l /\ l <= x + a + k /\ q <= f /\ f <= q + u
         => x + (a + q) <= l + f /\ l + f <= x + (a + q) + (k + u)
  OBVIOUS

\* A sample more: the oldest leaves a full ring.
LEMMA RingKeepsNewest ==
    ASSUME NEW s \in Seq(Rates), NEW k \in Seq(Rates), NEW v \in Rates,
           Len(k) = IF Len(s) < maxSamples THEN Len(s) ELSE maxSamples,
           \A i \in 1..Len(k) : k[i] = s[Len(s) - Len(k) + i]
    PROVE  LET l == Registry!appendRing(k, v)
               t == Append(s, v) IN
           /\ Len(l) = IF Len(t) < maxSamples THEN Len(t) ELSE maxSamples
           /\ \A i \in 1..Len(l) : l[i] = t[Len(t) - Len(l) + i]
<1>1. maxSamples \in Nat /\ maxSamples > 0
  BY FiguresAssumption DEF Registry!MetricsAssumption
<1> DEFINE l == Registry!appendRing(k, v)
           t == Append(s, v)
<1>2. /\ Len(s) \in Nat /\ Len(k) \in Nat /\ Len(k) <= Len(s) /\ Len(t) = Len(s) + 1
      /\ \A i \in 1..Len(s) : t[i] = s[i]
      /\ t[Len(s) + 1] = v
  BY <1>1
<1>3. CASE Len(k) = maxSamples
  <2>1. k # <<>> /\ l = Append(Tail(k), v)
    BY <1>1, <1>3 DEF Registry!appendRing
  <2>2. /\ Tail(k) \in Seq(Rates) /\ Len(Tail(k)) = Len(k) - 1
        /\ \A i \in 1..Len(k) - 1 : Tail(k)[i] = k[i + 1]
    BY <2>1
  <2>3. /\ Len(l) = Len(k) /\ l[Len(k)] = v
        /\ \A i \in 1..Len(k) - 1 : l[i] = k[i + 1]
    BY <2>1, <2>2
  <2> HIDE DEF l, t
  <2>4. ASSUME NEW i \in 1..Len(l) PROVE l[i] = t[Len(t) - Len(l) + i]
    <3>1. CASE i = Len(k)
      <4>1. Len(t) - Len(l) + i = Len(s) + 1
        BY <1>2, <2>3, <3>1
      <4> QED BY <1>2, <2>3, <3>1, <4>1
    <3>2. CASE i # Len(k)
      <4>1. i \in 1..Len(k) - 1 /\ i + 1 \in 1..Len(k)
        BY <1>2, <2>3, <3>2
      <4>2. /\ Len(t) - Len(l) + i = Len(s) - Len(k) + (i + 1)
            /\ Len(s) - Len(k) + (i + 1) \in 1..Len(s)
        <5>1. PICK a \in Nat, b \in Nat, c \in Nat : a = Len(s) /\ b = Len(k) /\ c = i + 1
          BY <1>2, <4>1
        <5>2. /\ b <= a /\ 1 <= c /\ c <= b
              /\ Len(t) = a + 1 /\ Len(l) = b /\ i = c - 1
          BY <1>2, <2>3, <4>1, <5>1
        <5>3. a - b + c \in 1..a /\ a + 1 - b + (c - 1) = a - b + c
          BY <5>2
        <5> QED BY <5>1, <5>2, <5>3
      <4>3. PICK j \in 1..Len(s) : j = Len(s) - Len(k) + (i + 1) /\ j = Len(t) - Len(l) + i
        BY <4>2
      <4>4. l[i] = k[i + 1] /\ k[i + 1] = s[j] /\ t[j] = s[j]
        BY <1>2, <2>3, <4>1, <4>3
      <4> QED BY <4>3, <4>4
    <3> QED BY <3>1, <3>2
  <2>5. Len(l) = IF Len(t) < maxSamples THEN Len(t) ELSE maxSamples
    BY <1>1, <1>2, <1>3, <2>3
  <2> QED BY <2>4, <2>5 DEF l, t
<1>4. CASE Len(k) # maxSamples
  <2>1. l = Append(k, v) /\ Len(s) < maxSamples /\ Len(k) = Len(s)
    BY <1>1, <1>2, <1>4 DEF Registry!appendRing
  <2>2. Len(l) = Len(k) + 1 /\ l[Len(k) + 1] = v /\ \A i \in 1..Len(k) : l[i] = k[i]
    BY <2>1
  <2> HIDE DEF l, t
  <2>3. ASSUME NEW i \in 1..Len(l) PROVE l[i] = t[Len(t) - Len(l) + i]
    <3>1. Len(t) - Len(l) + i = i
      BY <1>2, <2>1, <2>2
    <3>2. i = Len(k) + 1 \/ i \in 1..Len(k)
      BY <1>2, <2>2
    <3>3. ASSUME i \in 1..Len(k) PROVE l[i] = t[i]
      <4>1. Len(s) - Len(k) + i = i
        BY <1>2, <2>1, <3>3
      <4> QED BY <1>2, <2>1, <2>2, <3>3, <4>1
    <3> QED BY <1>2, <2>1, <2>2, <3>1, <3>2, <3>3
  <2>4. Len(l) = IF Len(t) < maxSamples THEN Len(t) ELSE maxSamples
    BY <1>1, <1>2, <2>1, <2>2
  <2> QED BY <2>3, <2>4 DEF l, t
<1> QED BY <1>3, <1>4

\* ObserveSpeed keeps it: a rate rounded down loses less than a byte per unit of time.
LEMMA LineObserve ==
    ASSUME RegistryInv, LineInv, Registry!ObserveSpeed
    PROVE  LineInv'
<1>1. PICK r \in reading, t \in Nat, f \in Nat :
              /\ r.obs = last.obs + t /\ r.fake = last.fake + f
              /\ r.obs \in Nat \ {0} /\ r.fake \in Nat
              /\ speed' = IF last.obs # 0 /\ t > 0
                          THEN [up |-> IF r.tx < last.tx THEN 0 ELSE (r.tx - last.tx) \div t, fake |-> f \div t]
                          ELSE speed
              /\ last' = [tx |-> r.tx, fake |-> r.fake, obs |-> r.obs]
              /\ shown' = [samples |-> Append(shown.samples, speed'), obs |-> r.obs,
                           area |-> shown.area + (IF shown.samples # <<>> /\ t > 0 THEN speed'.fake * t ELSE 0),
                           first |-> IF shown.samples = <<>> THEN r.fake ELSE shown.first,
                           slack |-> shown.slack + (IF t > 0 THEN t - 1 ELSE f)]
  BY Observed, ZenonT(60)
<1>2. /\ shown.samples \in Seq(Rates) /\ ring \in Seq(Rates) /\ speed' \in Rates
      /\ shown.area \in Nat /\ shown.first \in Nat /\ shown.slack \in Nat /\ last.fake \in Nat
  <2>1. RegistryTypeOK /\ RegistryTypeOK'
    BY ObserveNext DEF RegistryInv
  <2>2. speed' \in Rates
    BY <2>1 DEF RegistryTypeOK
  <2> QED BY <2>1, <2>2 DEF RegistryTypeOK
<1>3. RingInv'
  <2>1. ring' = Registry!appendRing(ring, speed') /\ shown'.samples = Append(shown.samples, speed')
    BY <1>1 DEF Registry!ObserveSpeed
  <2>2. PICK v \in Rates : v = speed'
    BY <1>2
  <2>3. LET l == Registry!appendRing(ring, v)
            s == Append(shown.samples, v) IN
        /\ Len(l) = IF Len(s) < maxSamples THEN Len(s) ELSE maxSamples
        /\ \A i \in 1..Len(l) : l[i] = s[Len(s) - Len(l) + i]
    BY <1>2, RingKeepsNewest DEF LineInv, RingInv
  <2>4. ring' = Registry!appendRing(ring, v) /\ shown'.samples = Append(shown.samples, v)
    BY <2>1, <2>2
  <2> QED BY <2>3, <2>4 DEF RingInv
<1>4. AreaInv'
  <2>1. /\ last'.fake = last.fake + f /\ last'.obs # 0
        /\ shown'.slack = shown.slack + (IF t > 0 THEN t - 1 ELSE f)
    BY <1>1
  <2>2. shown'.samples # <<>>
    <3>1. shown'.samples = Append(shown.samples, speed')
      BY <1>1
    <3> QED BY <1>2, <3>1
  <2>3. CASE shown.samples = <<>>
    <3>1. shown'.first = last.fake + f /\ shown'.area = 0
      <4>1. shown.area = 0
        BY <2>3 DEF LineInv, AreaInv
      <4>2. shown'.first = r.fake /\ shown'.area = shown.area + 0
        BY <1>1, <2>3
      <4> QED BY <1>1, <4>1, <4>2
    <3>2. shown'.slack \in Nat
      BY <1>2, <2>1
    <3> QED BY <1>2, <2>1, <2>2, <3>1, <3>2 DEF AreaInv
  <2>4. CASE shown.samples # <<>> /\ t > 0
    <3>1. last.obs # 0 /\ speed'.fake = f \div t
      BY <1>1, <2>4 DEF LineInv, AreaInv
    <3>2. PICK q \in Nat : q = f \div t /\ t * q <= f /\ f < t * q + t
      BY <2>4, DivIs
    <3>3. shown'.first = shown.first /\ shown'.area = shown.area + q * t /\ shown'.slack = shown.slack + (t - 1)
      BY <1>1, <2>1, <2>4, <3>1, <3>2
    <3>4. PICK a \in Nat : a = q * t /\ a <= f /\ f <= a + (t - 1)
      <4>1. q * t = t * q /\ q * t \in Nat
        OBVIOUS
      <4> QED BY <3>2, <4>1
    <3>5. /\ shown.first + shown.area <= last.fake
          /\ last.fake <= shown.first + shown.area + shown.slack
      BY <3>1 DEF LineInv, AreaInv
    <3>6. /\ shown'.first + shown'.area <= last'.fake
          /\ last'.fake <= shown'.first + shown'.area + shown'.slack
      <4>1. t - 1 \in Nat
        BY <2>4
      <4>2. /\ shown.first + (shown.area + a) <= last.fake + f
            /\ last.fake + f <= shown.first + (shown.area + a) + (shown.slack + (t - 1))
        BY <1>2, <3>4, <3>5, <4>1, BoundsAdd
      <4> QED BY <2>1, <3>3, <3>4, <4>2
    <3> QED BY <2>1, <2>2, <3>6 DEF AreaInv
  <2>5. CASE shown.samples # <<>> /\ t = 0
    <3>1. shown'.first = shown.first /\ shown'.area = shown.area + 0 /\ shown'.slack = shown.slack + f
      BY <1>1, <2>1, <2>5
    <3>2. /\ shown.first + shown.area <= last.fake
          /\ last.fake <= shown.first + shown.area + shown.slack
      BY <2>5 DEF LineInv, AreaInv
    <3>3. /\ shown'.first + shown'.area <= last'.fake
          /\ last'.fake <= shown'.first + shown'.area + shown'.slack
      <4>1. 0 \in Nat /\ 0 <= f /\ f <= 0 + f
        OBVIOUS
      <4>2. /\ shown.first + (shown.area + 0) <= last.fake + f
            /\ last.fake + f <= shown.first + (shown.area + 0) + (shown.slack + f)
        BY <1>2, <3>2, <4>1, BoundsAdd
      <4> QED BY <2>1, <3>1, <4>2
    <3> QED BY <2>1, <2>2, <3>3 DEF AreaInv
  <2> QED BY <2>3, <2>4, <2>5
<1> QED BY <1>3, <1>4 DEF LineInv

\* It is inductive: nothing but ObserveSpeed touches the line.
LEMMA LineNext == RegistryInv /\ LineInv /\ [Registry!Next]_(Registry!vars) => LineInv'
<1> SUFFICES ASSUME RegistryInv, LineInv, [Registry!Next]_(Registry!vars) PROVE LineInv'
  OBVIOUS
<1>1. CASE UNCHANGED <<last, ring, shown>>
  BY <1>1 DEF LineInv, RingInv, AreaInv
<1> QED BY <1>1, LineObserve DEF Registry!Next, Registry!vars, Registry!observed, Registry!Tick, Registry!Select,
      Registry!Carry, Registry!InterfaceReset, Registry!AddFakeBytes, Registry!Read, Registry!Fails,
      Registry!Enter, Registry!Snapshot

\* The invariant says of the line what the property says.
LEMMA LineFollows == RegistryInv /\ LineInv => Registry!LineAddsUp
<1> SUFFICES ASSUME RegistryInv, LineInv PROVE Registry!LineAddsUp
  OBVIOUS
<1>1. /\ shown.samples \in Seq(Rates) /\ ring \in Seq(Rates) /\ maxSamples \in Nat /\ maxSamples > 0
      /\ shown.area \in Nat /\ shown.first \in Nat /\ shown.slack \in Nat /\ last.fake \in Nat
  BY FiguresAssumption DEF RegistryInv, RegistryTypeOK, Registry!MetricsAssumption
<1>2. last.obs # 0 => shown.area <= last.fake - shown.first /\ last.fake - shown.first <= shown.area + shown.slack
  BY <1>1 DEF LineInv, AreaInv
<1> DEFINE n == Len(shown.samples)
<1>3. n \in Nat /\ Registry!Min({maxSamples, n}) = Len(ring) /\ Len(ring) <= n
  <2>1. n \in Nat /\ Len(ring) \in {maxSamples, n} /\ \A y \in {maxSamples, n} : Len(ring) <= y
    BY <1>1 DEF LineInv, RingInv
  <2>2. \A m \in {maxSamples, n} : (\A y \in {maxSamples, n} : m <= y) => m = Len(ring)
    BY <1>1, <2>1
  <2> QED BY <1>1, <2>1, <2>2 DEF Registry!Min
<1>4. ring = SubSeq(shown.samples, n - Len(ring) + 1, n)
  <2>1. /\ SubSeq(shown.samples, n - Len(ring) + 1, n) \in Seq(Rates)
        /\ Len(SubSeq(shown.samples, n - Len(ring) + 1, n)) = Len(ring)
        /\ \A i \in 1..Len(ring) : SubSeq(shown.samples, n - Len(ring) + 1, n)[i] = shown.samples[n - Len(ring) + i]
    BY <1>1, <1>3
  <2>2. \A i \in 1..Len(ring) : ring[i] = SubSeq(shown.samples, n - Len(ring) + 1, n)[i]
    BY <2>1 DEF LineInv, RingInv
  <2> HIDE DEF n
  <2> QED BY <1>1, <2>1, <2>2, SeqEqual
<1> QED BY <1>2, <1>3, <1>4 DEF Registry!LineAddsUp, Registry!None

\* The fake traffic adds up, on every machine.
LEMMA FakeHolds == Registry!Spec => []Registry!FakeAddsUp
<1>1. RegistryInv /\ LineInv => Registry!FakeAddsUp
  BY LineFollows, CountersFollow DEF Registry!FakeAddsUp
<1> QED BY <1>1, RegistryInit, RegistryNext, LineInit, LineNext, PTL DEF Registry!Spec

-----------------------------------------------------------------------------
(* The figures together (Figures).                                         *)

\* A step of the composition is a step of one part and leaves the others alone.
LEMMA FiguresStep ==
    [FNext]_<<moving, registry, gauges, volume, draw, rule>> =>
        /\ [Registry!Next]_(Registry!vars)
        /\ [Gauges!Next]_(Gauges!vars)
        /\ [Volume!Next]_(Volume!vars)
        /\ [Rule!Next]_(Rule!vars)
<1>1. UNCHANGED registry => UNCHANGED Registry!vars
  BY DEF registry, Registry!vars, Registry!world, Registry!atomics, Registry!observed
<1>2. UNCHANGED gauges => UNCHANGED Gauges!vars
  BY DEF gauges, Gauges!vars, Gauges!world
<1>3. UNCHANGED volume => UNCHANGED Volume!vars
  BY DEF volume, Volume!vars
<1>4. UNCHANGED rule => UNCHANGED Rule!vars
  BY DEF rule, Rule!vars
<1> QED BY <1>1, <1>2, <1>3, <1>4 DEF FNext

\* The figures implement their parts.
LEMMA FiguresParts == FSpec => Registry!Spec /\ Gauges!Spec /\ Volume!Spec /\ Rule!Spec
  BY FiguresStep, PTL DEF FSpec, FInit, Registry!Spec, Gauges!Spec, Volume!Spec, Rule!Spec

\* On a machine with one counter to read and one CPU field per state, the speed and the
\* CPU gauge are those of the period between the last two successful readings, over any
\* failed ones; a counter reset in the period makes the speed less (ObserveSpeed,
\* sampleResources).
THEOREM GaugesAreTrue == SameCounter /\ PlainTime => (FSpec => []PeriodIsTrue)
<1> SUFFICES ASSUME SameCounter, PlainTime PROVE FSpec => []PeriodIsTrue
  OBVIOUS
<1>1. Registry!Spec => []Registry!SpeedIsCarried
  BY SpeedHolds
<1>2. Gauges!Spec => []Gauges!CPUIsBusyShare
  BY GaugesHold
<1> QED BY <1>1, <1>2, FiguresParts, PTL DEF PeriodIsTrue

\* The area under the line of fake traffic is what the workers added, the ring holds the
\* newest samples, and the two counters of AddFakeBytes agree when no worker is between
\* them, for any workers and cards (internal/metrics).
THEOREM FakeTrafficAddsUp == FSpec => []FakeAddsUp
  BY FakeHolds, FiguresParts, PTL DEF FakeAddsUp

\* The curve has neither step nor kink, at midnight neither, for any intensities, any
\* number of hours and any steps to the hour (internal/schedule/curve.go).
THEOREM CurveNeverSteps == FSpec => []NeverSteps
  BY VolumeHolds, FiguresParts, PTL DEF NeverSteps

\* What is owed grows over the window to the whole budget, and no more is sent than that
\* and what the jitter and the last datagrams of one cycle add (internal/schedule/volume.go,
\* internal/uploader/uploader.go).
THEOREM VolumeSendsTheBudget == FSpec => []WholeBudget
  BY VolumeHolds, FiguresParts, PTL DEF WholeBudget

\* The sample charged is the highest one left when the top of n are dropped, for every
\* percentile that a float64 represents well enough and up to MaxRecorded samples
\* (internal/metering).
THEOREM PercentileDropsTheTop == WellRepresented => (FSpec => []DropsTheTop)
<1> SUFFICES ASSUME WellRepresented PROVE FSpec => []DropsTheTop
  OBVIOUS
<1>1. Rule!Spec => []Rule!DropsTheTop
  BY RuleHolds
<1> QED BY <1>1, FiguresParts, PTL DEF DropsTheTop
=============================================================================
