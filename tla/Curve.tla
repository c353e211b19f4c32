------------------------------- MODULE Curve -------------------------------
(***************************************************************************)
(* The traffic curve and the volume target: a periodic Catmull-Rom spline  *)
(* through hourly anchors, its trapezoid integral, and the share of the    *)
(* budget owed by now.  The curve may be edited at any time in a window.   *)
(* Time is counted in integration steps, Steps to the hour, and values are *)
(* scaled to integers: base by twice the cube of Steps, the integral       *)
(* further by 2 * Steps.  The random wander changes the workers only, not  *)
(* the volume.                                                             *)
(***************************************************************************)
EXTENDS Integers, Functions, FiniteSetsExt

CONSTANTS Hours,        \* anchors of the curve (24)
          Steps,        \* integration steps in an hour (60)
          Intensities,  \* values of an anchor
          Window,       \* length of the budget window, in steps
          Bytes,        \* budget of the window
          Fractions,    \* values of cycle_budget_fraction, in hundredths
          MaxWorkers,   \* workers of a cycle
          MaxDatagram   \* length of a datagram

CurveAssumption ==
    /\ {Hours, Steps, Window, Bytes, MaxWorkers, MaxDatagram} \subseteq Nat \ {0}
    /\ Fractions \subseteq 0..100
    /\ Intensities \subseteq Nat /\ Intensities # {}

VARIABLES anchors,      \* Curve.anchors
          windowStart, now,
          windowSent

vars == <<anchors, windowStart, now, windowSent>>

Day == Hours * Steps

\* catmullRom at t = j / Steps.
catmullRom(p0, p1, p2, p3, j) ==
    2 * p1 * (Steps * Steps * Steps)
  + (p2 - p0) * (j * Steps * Steps)
  + (2 * p0 - 5 * p1 + 4 * p2 - p3) * (j * j * Steps)
  + (3 * p1 - p0 - 3 * p2 + p3) * (j * j * j)

\* Mutant: the neighbours do not wrap at midnight.
curveEnds(a, h) ==
    LET i == (h \div Steps) % Hours
        p(k) == a[IF i + k < 0 THEN 0 ELSE IF i + k >= Hours THEN Hours - 1 ELSE i + k]
    IN  catmullRom(p(-1), p(0), p(1), p(2), h % Steps)

curveBase(a, h) ==
    LET i == (h \div Steps) % Hours
        p(k) == a[(i + Hours + k) % Hours]
    IN  catmullRom(p(-1), p(0), p(1), p(2), h % Steps)

\* Mutant: a spline that dips under zero is taken as it is.
Unclamped(v) == v

Clamped(v) == Max({0, v})

curveIntegral(a, from, to) ==
    SumFunction([t \in from..to - 1 |-> Clamped(curveBase(a, t)) + Clamped(curveBase(a, t + 1))])

\* Bytes times the share of the curve that has passed; of the time, if the curve
\* is zero throughout.
Due(a, s, n) ==
    LET total == curveIntegral(a, s, s + Window) IN
    IF total > 0 THEN (Bytes * curveIntegral(a, s, n)) \div total
                 ELSE (Bytes * Min({n - s, Window})) \div Window

VolumeDeficit(n) == Max({0, Due(anchors, windowStart, n) - windowSent})

-----------------------------------------------------------------------------

Init ==
    /\ anchors \in [0..Hours - 1 -> Intensities]
    /\ windowStart \in 0..Day - 1 /\ now = windowStart
    /\ windowSent = 0

Advance == now < windowStart + Window /\ now' = now + 1 /\ UNCHANGED <<anchors, windowStart, windowSent>>

\* What a cycle may send of a deficit: each worker has an even share of a fraction of
\* it, a fifth more by jitter, and stops after the datagram that reaches it.
MaxSent(deficit, fraction, workers) ==
    LET quota == ((deficit * fraction) \div 100) \div workers IN
    IF quota = 0 THEN 0 ELSE workers * ((quota * 6) \div 5 + MaxDatagram - 1)

\* That, or what its deadline lets it; the bytes are counted where the cycle begins.
Cycle ==
    /\ \E fraction \in Fractions, workers \in 1..MaxWorkers :
          windowSent' \in windowSent..windowSent + MaxSent(VolumeDeficit(now), fraction, workers)
    /\ UNCHANGED <<anchors, windowStart, now>>

SetConfig == \E h \in 0..Hours - 1, v \in Intensities : anchors' = [anchors EXCEPT ![h] = v] /\ UNCHANGED <<windowStart, now, windowSent>>

Next == Advance \/ Cycle \/ SetConfig

Spec == Init /\ [][Next]_vars

-----------------------------------------------------------------------------
(* Properties.                                                             *)

\* The cubic that meets value and slope of the curve at both ends of the hour: the
\* slope at an anchor is half the difference of its neighbours, past midnight too.
Hermite(a, h) ==
    LET i    == (h \div Steps) % Hours
        j    == h % Steps
        k    == Steps - j
        p(n) == a[(i + Hours + n) % Hours]
        m(n) == p(n + 1) - p(n - 1)
    IN    2 * p(0) * ((Steps + 2 * j) * k * k) + m(0) * (j * k * k)
        + 2 * p(1) * ((Steps + 2 * k) * j * j) - m(1) * (j * j * k)

\* "C1-continuous and seamless across the 23->0 wrap, so it never steps": the
\* spline is the Hermite cubic of every hour, whatever the anchors.
NeverSteps == \A h \in 0..Day - 1 : curveBase(anchors, h) = Hermite(anchors, h)

\* What a window may be exceeded by: the jitter and the last datagrams of one cycle.
\* They do not add up from cycle to cycle (Engine.WindowCeiling has it over crashes).
Excess == Bytes \div 5 + MaxWorkers * (MaxDatagram - 1)

\* What is owed only grows with time, however deep the spline dips, and at the end of
\* the window it is the whole budget, a flat zero of a curve included: what was not sent
\* by then is owed, and nothing else.  However the curve was edited on the way, a
\* window never sends more than its budget and the excess of one cycle.
WholeBudget ==
    /\ now < windowStart + Window => Due(anchors, windowStart, now) <= Due(anchors, windowStart, now + 1)
    /\ now = windowStart + Window => VolumeDeficit(now) = Max({0, Bytes - windowSent})
    /\ windowSent <= Bytes + Excess
=============================================================================
