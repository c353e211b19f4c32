----------------------------- MODULE Resources -----------------------------
(***************************************************************************)
(* The gauges of the dashboard: /proc/stat and /proc/meminfo as the kernel *)
(* writes them, sysstat.Read, CPUPercent, and sampleResources, which keeps *)
(* the sample of the last successful reading.  Percentages are fractions.  *)
(***************************************************************************)
EXTENDS Integers, FiniteSets, Functions

CONSTANTS Events,       \* what the CPU may do, a subset of Kinds
          MemTotal,     \* bytes, as blocks
          Capacities,   \* network.link_capacity_mbit, in the unit of Speeds
          Speeds,       \* upload speeds the registry may hold
          MaxJiffies    \* bound: jiffies since boot

\* user counts the time of virtual CPUs too, which guest counts again; iowait may
\* fall, as proc(5) says of it.
Kinds == {"user", "guest", "idle", "iowait", "iowait falls"}

ResourcesAssumption ==
    /\ Events \subseteq Kinds
    /\ MemTotal \in Nat \ {0} /\ MaxJiffies \in Nat
    /\ Capacities \cup Speeds \subseteq Nat

VARIABLES stat,         \* the fields of the aggregate cpu line
          available,    \* MemAvailable
          capacity, upBPS,
          prevSys,      \* the sample before, or {}
          resources,    \* what SetResources stored
          passed        \* history: busy and all jiffies since prevSys; in the period shown

world == <<stat, available, capacity, upBPS>>
vars  == <<world, prevSys, resources, passed>>

Zero == [busy |-> 0, all |-> 0]
Fields == {"user", "guest", "idle", "iowait"}

Init ==
    /\ stat = [f \in Fields |-> 0]
    /\ available = MemTotal
    /\ capacity \in Capacities /\ upBPS = 0
    /\ prevSys = {}
    /\ resources = [cpu |-> <<0, 1>>, ram |-> <<0, 1>>, bandwidth |-> <<0, 1>>]
    /\ passed = [since |-> Zero, shown |-> Zero]

\* One jiffy passes, spent in one of the ways the kernel counts.
Jiffy(e) ==
    /\ stat["user"] + stat["idle"] + stat["iowait"] < MaxJiffies
    /\ stat' = CASE e = "guest"        -> [stat EXCEPT !["user"] = @ + 1, !["guest"] = @ + 1]
                 [] e = "iowait falls" -> [stat EXCEPT !["user"] = @ + 1, !["iowait"] = @ - 1]
                 [] OTHER              -> [stat EXCEPT ![e] = @ + 1]
    /\ stat'["iowait"] >= 0
    /\ passed' = [passed EXCEPT !.since =
                    [busy |-> @.busy + (IF e \in {"idle", "iowait"} THEN 0 ELSE 1), all |-> @.all + 1]]
    /\ UNCHANGED <<available, capacity, upBPS, prevSys, resources>>

Change ==
    /\ available' \in 0..MemTotal /\ capacity' \in Capacities /\ upBPS' \in Speeds
    /\ UNCHANGED <<stat, prevSys, resources, passed>>

\* parseCPULine: the sum of every field; idle and iowait.
parseCPULine(s) == [total |-> SumFunction(s), idle |-> s["idle"] + s["iowait"]]

CPUPercent(prev, cur) ==
    LET total == cur.total - prev.total
        busy  == total - (cur.idle - prev.idle)
    IN  IF total <= 0 THEN <<0, 1>> ELSE <<IF busy < 0 THEN 0 ELSE busy, total>>

\* A file that cannot be read: the gauges and prevSys stay.
ReadFails == UNCHANGED <<prevSys, resources, passed>>

Read(cur) ==
    /\ prevSys' = {cur}
    /\ resources' =
         [cpu |-> IF prevSys = {} THEN <<0, 1>> ELSE CPUPercent(CHOOSE p \in prevSys : TRUE, cur),
          ram |-> <<IF available > MemTotal THEN 0 ELSE MemTotal - available, MemTotal>>,
          bandwidth |-> IF capacity > 0 THEN <<upBPS, capacity>> ELSE <<0, 1>>]
    /\ passed' = [since |-> Zero, shown |-> IF prevSys = {} THEN Zero ELSE passed.since]

sampleResources ==
    /\ ReadFails \/ Read(parseCPULine(stat))
    /\ UNCHANGED world

Next ==
    \/ \E e \in Events : Jiffy(e)
    \/ Change
    \/ sampleResources

Spec == Init /\ [][Next]_vars

-----------------------------------------------------------------------------
(* Properties.                                                             *)

\* The CPU gauge is the share of the time since the last successful reading in
\* which the machine was busy, however many readings failed in between.
CPUIsBusyShare ==
    passed.shown.all > 0 => resources.cpu[1] * passed.shown.all = passed.shown.busy * resources.cpu[2]
=============================================================================
