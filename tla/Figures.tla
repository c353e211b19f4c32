------------------------------ MODULE Figures ------------------------------
(***************************************************************************)
(* What the program computes: the metrics, the gauges, the traffic curve   *)
(* and its volume, the draw of a destination, and the percentile.  They    *)
(* share no variable, so that no interleaving of one with another matters  *)
(* to a property of either, and one at a time moves.                       *)
(***************************************************************************)
EXTENDS Integers, Sequences

CONSTANTS Workers, Nics, All, Selectable, maxSamples,
          MaxTime, MaxCarry, MaxFake, MaxSamples,               \* Metrics
          Events, MemTotal, Capacities, Speeds, MaxJiffies,     \* Resources
          Hours, Steps, Intensities, Window, Bytes,
          Fractions, MaxWorkers, MaxDatagram,                   \* Curve
          Networks, CountryOf(_), Asns, MaxSelected,            \* TargetDraw
          Percentiles, MaxRecorded                              \* Percentile

VARIABLES moving,
          clock, nic, iface, fakeBytesTotal, fakeBytesCycle, adding,
          reading, last, speed, ring, snap, carried, shown,
          stat, available, capacity, upBPS, prevSys, resources, passed,
          anchors, windowStart, now, windowSent,
          owner, byASN, opened, selection, selected, pools, totalWeight, drawn,
          percentile, recorded

registry == <<clock, nic, iface, fakeBytesTotal, fakeBytesCycle, adding,
              reading, last, speed, ring, snap, carried, shown>>
gauges   == <<stat, available, capacity, upBPS, prevSys, resources, passed>>
volume   == <<anchors, windowStart, now, windowSent>>
draw     == <<owner, byASN, opened, selection, selected, pools, totalWeight, drawn>>
rule     == <<percentile, recorded>>

Registry == INSTANCE Metrics

Gauges == INSTANCE Resources

Volume == INSTANCE Curve

Draw == INSTANCE TargetDraw

Rule == INSTANCE Percentile WITH p <- percentile, n <- recorded

ASSUME FiguresAssumption ==
    /\ Registry!MetricsAssumption /\ Gauges!ResourcesAssumption /\ Volume!CurveAssumption
    /\ Draw!TargetDrawAssumption /\ Rule!PercentileAssumption

\* What does not move stays in its initial state.
FInit ==
    /\ moving \in {"registry", "gauges", "volume", "draw", "rule"}
    /\ Registry!Init /\ Gauges!Init /\ Volume!Init /\ Draw!Init /\ Rule!Init

FNext ==
    \/ moving = "registry" /\ Registry!Next /\ UNCHANGED <<moving, gauges, volume, draw, rule>>
    \/ moving = "gauges" /\ Gauges!Next /\ UNCHANGED <<moving, registry, volume, draw, rule>>
    \/ moving = "volume" /\ Volume!Next /\ UNCHANGED <<moving, registry, gauges, draw, rule>>
    \/ moving = "draw" /\ Draw!Next /\ UNCHANGED <<moving, registry, gauges, volume, rule>>
    \/ moving = "rule" /\ Rule!Next /\ UNCHANGED <<moving, registry, gauges, volume, draw>>

FSpec == FInit /\ [][FNext]_<<moving, registry, gauges, volume, draw, rule>>

-----------------------------------------------------------------------------
(* Properties.                                                             *)

\* The dashboard's speed and CPU gauge are those of the period between the last two
\* successful readings, whatever failed or was reset between.
PeriodIsTrue == Registry!SpeedIsCarried /\ Gauges!CPUIsBusyShare

\* The bytes and the line of fake traffic add up to what was made.
FakeAddsUp == Registry!FakeAddsUp

\* The spline has neither step nor kink, at midnight neither.  (Costly: it is looked at
\* where the curve moves, whose initial states are those it keeps elsewhere.)
NeverSteps == moving = "volume" => Volume!NeverSteps

\* The schedule only grows, to the whole budget, and at most one cycle exceeds it.
WholeBudget == moving = "volume" => Volume!WholeBudget

\* Every address of the selection is equally likely.
EveryHostAlike == Draw!EveryHostAlike

\* The index and the draws from it say what the databases say.
IndexIsTheDatabase == Draw!IndexIsTheDatabase

\* The charged sample is the highest left when the top is dropped.
DropsTheTop == Rule!DropsTheTop
=============================================================================
