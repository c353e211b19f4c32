------------------------------ MODULE Metrics ------------------------------
(***************************************************************************)
(* The metrics registry: atomic counters the upload workers and the engine *)
(* add to, the speeds and their ring that the sampler derives under the    *)
(* lock from the interface counters, and the snapshot the dashboard takes. *)
(* Download is treated in the code exactly as upload and left out.         *)
(***************************************************************************)
EXTENDS Integers, Sequences, FiniteSets, FiniteSetsExt, Functions, SequencesExt

CONSTANTS Workers,
          Nics,         \* the interfaces summed for "All"
          All,          \* network.interface = ""
          Selectable,   \* what the dashboard may select: members of Nics, or All
          maxSamples,
          MaxTime, MaxCarry, MaxFake, MaxSamples \* bounds

MetricsAssumption ==
    /\ {maxSamples, MaxTime, MaxCarry, MaxFake, MaxSamples} \subseteq Nat
    /\ maxSamples > 0
    /\ IsFiniteSet(Workers) /\ IsFiniteSet(Nics)
    /\ Selectable \subseteq Nics \cup {All} /\ All \in Selectable \ Nics

VARIABLES clock,
          nic,              \* transmitted bytes as the kernel counts them
          iface,            \* network.interface of the live config
          fakeBytesTotal, fakeBytesCycle,
          adding,           \* bytes a worker has added to the first counter only
          reading,          \* the sampler's reading of netstat, or {}
          last,             \* lastTx, lastFake, lastObs
          speed,            \* upBPS, fakeBPS
          ring,             \* samplesUp, samplesFake
          snap,             \* the Snapshot being taken: what it has loaded, or {}
          carried,          \* history: bytes all interfaces carried since the last reading,
                            \* and whether a counter was reset; both of the period
                            \* between the last two readings, and its length
          shown             \* history: every sample; the bytes they amount to

observed == <<reading, last, speed, ring, carried, shown>>
atomics  == <<fakeBytesTotal, fakeBytesCycle, adding>>
world    == <<clock, nic, iface>>
vars     == <<world, atomics, observed, snap>>

None == 0   \* lastObs.IsZero()

Init ==
    /\ clock = 1 /\ nic = [i \in Nics |-> 0] /\ iface = All
    /\ fakeBytesTotal = 0 /\ fakeBytesCycle = 0
    /\ adding = [w \in Workers |-> 0]
    /\ reading = {} /\ last = [tx |-> 0, fake |-> 0, obs |-> None]
    /\ speed = [up |-> 0, fake |-> 0] /\ ring = <<>>
    /\ carried = [since |-> 0, reset |-> FALSE, before |-> 0, resetIn |-> FALSE, dt |-> 1]
    /\ shown = [samples |-> <<>>, obs |-> None, area |-> 0, first |-> 0, slack |-> 0]
    /\ snap = {}

-----------------------------------------------------------------------------
(* The machine and the dashboard's choice.                                 *)

Tick == clock < MaxTime /\ clock' = clock + 1 /\ UNCHANGED <<nic, iface, atomics, observed, snap>>

Carry(i) ==
    /\ carried.since < MaxCarry /\ SumFunction(nic) < MaxCarry
    /\ nic' = [nic EXCEPT ![i] = @ + 1]
    /\ carried' = [carried EXCEPT !.since = @ + 1]
    /\ UNCHANGED <<clock, iface, atomics, reading, last, speed, ring, shown, snap>>

InterfaceReset(i) ==
    /\ nic[i] > 0
    /\ nic' = [nic EXCEPT ![i] = 0]
    /\ carried' = [carried EXCEPT !.reset = TRUE]
    /\ UNCHANGED <<clock, iface, atomics, reading, last, speed, ring, shown, snap>>

Select == \E c \in Selectable \ {iface} : iface' = c /\ UNCHANGED <<clock, nic, atomics, observed, snap>>

-----------------------------------------------------------------------------
(* The writers of the atomic counters.                                     *)

\* AddFakeBytes: two atomic additions, one after the other.
Add(w, n) ==
    IF adding[w] = 0 THEN fakeBytesTotal' = fakeBytesTotal + n /\ UNCHANGED fakeBytesCycle
                     ELSE fakeBytesCycle' = fakeBytesCycle + adding[w] /\ UNCHANGED fakeBytesTotal

\* Nothing takes from these counters: the program never calls StartCycle.
AddFakeBytes(w) ==
    /\ \/ /\ adding[w] = 0
          /\ \E n \in 1..(MaxFake - fakeBytesTotal) : Add(w, n) /\ adding' = [adding EXCEPT ![w] = n]
       \/ adding[w] > 0 /\ Add(w, 0) /\ adding' = [adding EXCEPT ![w] = 0]
    /\ UNCHANGED <<world, observed, snap>>

-----------------------------------------------------------------------------
(* The sampler.                                                            *)

Counter == IF iface = All THEN SumFunction(nic) ELSE nic[iface]

\* Mutant: a failed read counts as an observation.
FailsWithTime == last' = [last EXCEPT !.obs = IF @ = None THEN None ELSE clock]

\* netstat may fail: nothing is observed, the next delta spans two periods.
Fails == UNCHANGED last

Read ==
    /\ reading = {} /\ Len(shown.samples) < MaxSamples
    /\ \/ /\ reading' = {[tx |-> Counter, carried |-> carried.since, reset |-> carried.reset,
                          entered |-> FALSE]}
          /\ carried' = [carried EXCEPT !.since = 0, !.reset = FALSE]
          /\ UNCHANGED last
       \/ Fails /\ UNCHANGED <<reading, carried>>
    /\ UNCHANGED <<world, atomics, speed, ring, shown, snap>>

\* ObserveSpeed(time.Now(), ...) takes the time and loads the counter before it has
\* the lock.
Enter ==
    /\ \E r \in reading :
         /\ ~r.entered
         /\ reading' = {[tx |-> r.tx, carried |-> r.carried, reset |-> r.reset, entered |-> TRUE,
                        obs |-> clock, fake |-> fakeBytesTotal]}
    /\ UNCHANGED <<world, atomics, last, speed, ring, carried, shown, snap>>

\* Mutant: the unsigned difference of a counter that fell.
WrappedRate(cur, prev, dt) == (IF cur < prev THEN cur - prev + 1000 ELSE cur - prev) \div dt

deltaRate(cur, prev, dt) == IF cur < prev THEN 0 ELSE (cur - prev) \div dt

appendRing(s, v) == IF Len(s) = maxSamples THEN Append(Tail(s), v) ELSE Append(s, v)

\* The write lock waits for a Snapshot.
ObserveSpeed ==
    /\ snap = {}
    /\ \E r \in reading :
         LET dt   == r.obs - last.obs
             t    == r.obs - shown.obs
             fake == r.fake IN
         /\ r.entered
         /\ speed' = IF last.obs # None /\ dt > 0
                     THEN [up |-> deltaRate(r.tx, last.tx, dt), fake |-> deltaRate(fake, last.fake, dt)]
                     ELSE speed
         /\ last' = [tx |-> r.tx, fake |-> fake, obs |-> r.obs]
         /\ carried' = IF shown.obs # None /\ t > 0
                       THEN [carried EXCEPT !.before = r.carried, !.resetIn = r.reset, !.dt = t]
                       ELSE carried
         /\ shown' = [samples |-> Append(shown.samples, speed'),
                      obs     |-> r.obs,
                      area    |-> shown.area + (IF shown.samples # <<>> /\ t > 0 THEN speed'.fake * t ELSE 0),
                      first   |-> IF shown.samples = <<>> THEN fake ELSE shown.first,
                      slack   |-> shown.slack + (IF t > 0 THEN t - 1 ELSE fake - last.fake)]
    /\ ring' = appendRing(ring, speed')
    /\ reading' = {}
    /\ UNCHANGED <<world, atomics, snap>>

-----------------------------------------------------------------------------
(* The dashboard: the read lock is held, the counter of the cycle is loaded   *)
(* before the total, and both are answered.                               *)

Snapshot ==
    /\ \/ snap = {} /\ snap' = {fakeBytesCycle}
       \/ snap # {} /\ snap' = {}
    /\ UNCHANGED <<world, atomics, observed>>

Next ==
    \/ Tick \/ Select
    \/ \E i \in Nics : Carry(i) \/ InterfaceReset(i)
    \/ \E w \in Workers : AddFakeBytes(w)
    \/ Read \/ Enter \/ ObserveSpeed
    \/ Snapshot

Spec == Init /\ [][Next]_vars

-----------------------------------------------------------------------------
(* Properties.                                                             *)

\* The upload speed shown is what the interfaces carried between the last two readings
\* that succeeded, over the time between these, however many failed in between; when a
\* counter was reset on the way it is less, and never a spike.
SpeedIsCarried ==
    /\ ~carried.resetIn => speed.up = carried.before \div carried.dt
    /\ speed.up * carried.dt <= carried.before

\* The fake-traffic line accounts for the manufactured bytes: what is under it is
\* what was added since the first sample, but for the fractions division drops;
\* and the ring holds its newest samples, as many as there is room for.
LineAddsUp ==
    /\ last.obs # None =>
         /\ shown.area <= last.fake - shown.first
         /\ last.fake - shown.first <= shown.area + shown.slack
    /\ LET n == Len(shown.samples) IN
         ring = SubSeq(shown.samples, n - Min({maxSamples, n}) + 1, n)

\* No worker's bytes are in one counter and not, in the end, in the other; a snapshot
\* whose second load comes now does not show more bytes in the cycle than in total.
CountersAddUp ==
    /\ (\A w \in Workers : adding[w] = 0) => fakeBytesCycle = fakeBytesTotal
    /\ \A cycle \in snap : cycle <= fakeBytesTotal

FakeAddsUp == LineAddsUp /\ CountersAddUp
=============================================================================
