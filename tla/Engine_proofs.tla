---------------------------- MODULE Engine_proofs ----------------------------
(***************************************************************************)
(* Proofs about module Engine, for every window, curve, worker count and   *)
(* number of edits and faults: the volume budget is a ceiling per window,  *)
(* the window in memory and in the file forgets nothing while nothing      *)
(* fails, stop takes effect within one cycle, and the ramp is limited.     *)
(***************************************************************************)
EXTENDS Engine, TLAPS

\* The window a planned or running cycle charges has not ended a cycle ago, and
\* a cycle ends by its deadline.
TimeInv ==
    /\ pc = "plan" /\ snap.mode = "volume" => now - WindowLen < window.start
    /\ pc = "upload" => now <= wake /\ wake <= now + MaxCycle
    /\ pc = "upload" /\ snap.mode = "volume" => wake - MaxCycle - WindowLen < window.start

\* A service stopped under a cycle was stopped after the cycle passed its gate.
StopInv ==
    /\ pc \in {"reconcile", "plan"} /\ ~cfg.running => stopped = now
    /\ pc = "upload" /\ ~cfg.running => wake <= stopped + MaxCycle

\* e.prevWorkers is what the last cycle that uploaded ran with.
RampInv ==
    /\ pc \notin {"upload", "account", "save"} => workers = 0
    /\ pc \notin {"account", "save"} /\ last > 0 => last = prevWorkers
    /\ pc \in {"account", "save"} /\ workers > 0 => workers = prevWorkers
    /\ RampIsLimited

\* What volume mode has sent and not yet added to its window.
Pending == IF pc = "account" /\ snap.mode = "volume" THEN sent ELSE 0

\* Without faults memory knows what was sent, and outside a cycle the file does.
MemoryInv ==
    faults = 0 =>
        /\ spent.start <= window.start
        /\ spent.start = window.start => spent.sent = window.sent + Pending
        /\ spent.start # window.start => window.sent = 0 /\ Pending = 0
        /\ pc \notin {"plan", "upload", "account", "save"} => disk = window

\* What one window may reach in memory: the budget, or one cycle on a fresh window.
Ceiling == Larger(Budget + LastDatagrams, CycleMax)

\* What the file does not know of yet: the cycle that is to be saved.
Unwritten == IF pc \in {"account", "save"} THEN CycleMax ELSE 0

\* A cycle is planned within what its window has left.
DebtInv ==
    /\ window.sent + Pending <= Ceiling /\ disk.sent <= Ceiling
    /\ pc \in {"plan", "upload"} /\ snap.mode = "volume" /\ deficit > 0 =>
          window.sent + deficit <= Budget
    /\ Pending <= CycleMax

\* What the faults so far may have made it forget.
Forgotten == faults * CycleMax

\* Memory, and the file, fall short of what was sent by one cycle for each fault; a
\* window older than the one last charged may become it again, with nothing sent.
GapInv ==
    /\ window.start = spent.start => spent.sent <= window.sent + Pending + Forgotten
    /\ window.start < spent.start => Pending = 0 /\ spent.sent <= Forgotten
    /\ disk.start = spent.start => spent.sent <= disk.sent + Unwritten + Forgotten
    /\ disk.start < spent.start => spent.sent <= Unwritten + Forgotten
    /\ spent.sent <= Ceiling + Forgotten

-----------------------------------------------------------------------------
(* Arithmetic.                                                             *)

\* Integer division rounds down.
LEMMA Division ==
    ASSUME NEW a \in Nat, NEW b \in Nat \ {0}
    PROVE  /\ a \div b \in Nat
           /\ b * (a \div b) <= a
           /\ a < b * (a \div b) + b
  OBVIOUS

\* Products of natural numbers are natural and grow with each factor.
LEMMA Products ==
    ASSUME NEW a \in Nat, NEW b \in Nat, NEW c \in Nat, a <= b
    PROVE  a * c \in Nat /\ a * c <= b * c /\ c * a <= c * b /\ c * a \in Nat
  OBVIOUS

\* The constants are numbers.
LEMMA Numbers ==
    /\ WindowLen \in Nat \ {0} /\ MaxCycle \in Nat
    /\ Percent \in Nat /\ MaxWorkers \in Nat \ {0} /\ MaxRamp \in Nat
    /\ MaxTime \in Nat /\ MaxEdits \in Nat /\ MaxFaults \in Nat
    /\ MaxDatagram - 1 \in Nat /\ LastDatagrams \in Nat
    /\ Budget \in Nat /\ CycleMax \in Nat /\ Ceiling \in Nat
    /\ CycleMax <= Ceiling /\ Budget <= Ceiling
<1>1. /\ WindowLen \in Nat \ {0} /\ MaxCycle \in Nat
      /\ MaxTime \in Nat /\ MaxEdits \in Nat /\ MaxFaults \in Nat
      /\ Percent \in Nat /\ MaxWorkers \in Nat \ {0} /\ MaxRamp \in Nat
      /\ MaxDatagram - 1 \in Nat /\ Budget \in Nat
  BY EngineAssumption DEF Budget
<1>2. LastDatagrams \in Nat
  BY <1>1, Products DEF LastDatagrams
<1>3. PICK p \in Nat : p = Budget * Percent
  BY <1>1, Products
<1>4. CycleMax = (p * 6) \div 500 + LastDatagrams
  BY <1>3 DEF CycleMax
<1>5. CycleMax \in Nat
  BY <1>2, <1>4
<1> QED BY <1>1, <1>2, <1>5 DEF Ceiling, Larger

\* An even share of a part of d, a fifth more of it and the last datagram of each of
\* w workers is at most six fifths of that part and the last datagrams.
LEMMA SharesAddUp ==
    ASSUME NEW d \in Nat, NEW w \in 1..MaxWorkers
    PROVE  LET q == ((d * Percent) \div 100) \div w
               most == w * ((q * 6) \div 5 + MaxDatagram - 1)
           IN  /\ q \in Nat /\ most \in Nat
               /\ most <= (d * Percent * 6) \div 500 + LastDatagrams
<1> DEFINE part == (d * Percent) \div 100
           q == part \div w
           x == (q * 6) \div 5
<1>0. Percent \in Nat /\ w \in Nat \ {0} /\ w <= MaxWorkers
  BY Numbers
<1>1. PICK p \in Nat : p = d * Percent
  BY <1>0, Products
<1>2. part \in Nat /\ 100 * part <= p
  BY <1>1, Division
<1>3. q \in Nat /\ w * q <= part
  <2> HIDE DEF part
  <2> QED BY <1>0, <1>2, Division
<1>4. x \in Nat /\ 5 * x <= q * 6
  <2> HIDE DEF q
  <2> QED BY <1>3, Division
<1>5. PICK y \in Nat : y = w * x /\ 500 * y <= 6 * p
  <2> HIDE DEF part, q, x
  <2>1. PICK y \in Nat : y = w * x
    BY <1>0, <1>4, Products
  <2>2. PICK z \in Nat : z = w * q
    BY <1>0, <1>3, Products
  <2>3. 5 * y <= 6 * z
    <3>1. w * (5 * x) <= w * (q * 6)
      BY <1>0, <1>3, <1>4, Products
    <3>2. w * (5 * x) = 5 * (w * x) /\ w * (q * 6) = 6 * (w * q)
      BY <1>0, <1>3, <1>4
    <3> QED BY <2>1, <2>2, <3>1, <3>2
  <2> QED BY <1>2, <1>3, <2>1, <2>2, <2>3
<1>6. PICK g \in Nat : g = MaxDatagram - 1
  BY Numbers
<1>7. PICK k \in Nat : k = w * g /\ k <= LastDatagrams
  BY <1>0, <1>6, Numbers, Products DEF LastDatagrams
<1>8. w * (x + MaxDatagram - 1) = y + k
  <2>1. x + MaxDatagram - 1 = x + g
    <3> HIDE DEF x
    <3> QED BY <1>4, <1>6, EngineAssumption
  <2>2. w * (x + g) = w * x + w * g
    <3> HIDE DEF x
    <3> QED BY <1>0, <1>4, <1>6
  <2> QED BY <2>1, <2>2, <1>5, <1>7
<1>9. y + k \in Nat /\ y + k <= (p * 6) \div 500 + LastDatagrams
  BY <1>5, <1>7, <1>1, Numbers
<1> QED BY <1>1, <1>3, <1>8, <1>9

\* What a part of d, k hundredths and a fifth more, is over d, it is at most over a
\* larger debt b, or it is not over d at all.
LEMMA Overshoot ==
    ASSUME NEW b \in Nat, NEW d \in Nat, d <= b, NEW k \in Nat,
           NEW p \in Nat, p = d * k, NEW r \in Nat, r = b * k
    PROVE  /\ (p * 6) \div 500 <= (r * 6) \div 500
           /\ \/ (b - d) + (p * 6) \div 500 <= b
              \/ (b - d) + (p * 6) \div 500 <= (r * 6) \div 500
<1>1. p <= r
  BY Products
<1>2. CASE 6 * k <= 500
  <2>1. d * (6 * k) <= d * 500
    BY <1>2, Products
  <2>2. 6 * p <= 500 * d
    BY <2>1
  <2> QED BY <1>1, <2>2
<1>3. CASE 6 * k > 500
  <2>1. (b - d) * 500 <= (b - d) * (6 * k)
    BY <1>3, Products
  <2>2. (b - d) * (6 * k) = 6 * r - 6 * p
    OBVIOUS
  <2>3. 500 * b - 500 * d <= 6 * r - 6 * p
    BY <2>1, <2>2
  <2> QED BY <1>1, <2>3
<1> QED BY <1>2, <1>3

\* One RunCycle on a debt within the budget sends at most CycleMax, and no more over
\* its debt than the ceiling is over the budget.
LEMMA OneCycle ==
    ASSUME NEW d \in Nat, d <= Budget, NEW n \in Nat,
           n <= (d * Percent * 6) \div 500 + LastDatagrams
    PROVE  n <= CycleMax /\ (Budget - d) + n <= Ceiling
<1>1. PICK b \in Nat : b = Budget /\ d <= b
  BY Numbers
<1>2. PICK m \in Nat : m = LastDatagrams
  BY Numbers
<1>3. PICK p \in Nat : p = d * Percent
  BY Numbers, Products
<1>4. PICK r \in Nat : r = b * Percent
  BY <1>1, Numbers, Products
<1>5. PICK s \in Nat, t \in Nat :
        /\ s = (p * 6) \div 500 /\ t = (r * 6) \div 500
        /\ s <= t /\ ((b - d) + s <= b \/ (b - d) + s <= t)
  BY <1>1, <1>3, <1>4, Numbers, Overshoot
<1>6. CycleMax = t + m /\ n <= s + m
  BY <1>1, <1>2, <1>3, <1>4, <1>5 DEF CycleMax
<1>7. Ceiling = Larger(b + m, t + m)
  BY <1>1, <1>2, <1>6 DEF Ceiling
<1> QED BY <1>1, <1>2, <1>5, <1>6, <1>7 DEF Larger

-----------------------------------------------------------------------------
(* Types.                                                                  *)

Windows == [start : (0..now) \cup {Unset}, sent : Nat]

\* What an upload may send is a number the budget and its windows bound.
LEMMA Sends ==
    ASSUME TypeOK, pc = "upload"
    PROVE  MaxSent \in Nat /\ MaxSent <= (deficit * Percent * 6) \div 500 + LastDatagrams
<1>1. deficit \in Nat /\ workers \in 1..MaxWorkers
  BY Numbers DEF TypeOK
<1>2. PICK d \in Nat : d = deficit
  BY <1>1
<1>3. PICK p \in Nat : p = d * Percent
  BY Numbers, Products
<1>4. (p * 6) \div 500 + LastDatagrams \in Nat
  BY <1>3, Numbers
<1>5. CASE Quota = 0
  BY <1>5, <1>2, <1>3, <1>4 DEF MaxSent
<1>6. CASE Quota # 0
  BY <1>6, <1>1, SharesAddUp DEF MaxSent, Quota
<1> QED BY <1>5, <1>6

\* rollWindow keeps the window or moves to a later one with nothing sent, and the
\* result contains now.
LEMMA RollsForward ==
    ASSUME now \in Nat, NEW w \in Windows
    PROVE  /\ Rolled(w) \in [start : 0..now, sent : Nat]
           /\ now - WindowLen < Rolled(w).start
           /\ \/ Rolled(w) = w
              \/ Rolled(w).sent = 0 /\ w.start < Rolled(w).start
<1> USE Numbers DEF Windows, Unset
<1>1. PICK t \in Nat, l \in Nat \ {0}, s \in Int : now = t /\ WindowLen = l /\ w.start = s
  OBVIOUS
<1>2. CASE s = Unset
  BY <1>1, <1>2 DEF Rolled
<1>3. CASE s # Unset /\ t - s < l
  BY <1>1, <1>3 DEF Rolled
<1>4. CASE s # Unset /\ ~(t - s < l)
  <2>1. PICK a \in Nat : a = t - s /\ l <= a
    BY <1>1, <1>4
  <2>2. PICK k \in Nat : k = l * (a \div l) /\ k <= a /\ a < k + l
    <3>1. PICK q \in Nat : q = a \div l /\ l * q <= a /\ a < l * q + l
      BY <1>1, <2>1, Division
    <3>2. l * q \in Nat
      BY <1>1, Products
    <3> QED BY <3>1, <3>2
  <2>3. Rolled(w) = [start |-> s + k, sent |-> 0]
    BY <1>1, <1>4, <2>1, <2>2 DEF Rolled
  <2> QED BY <1>1, <1>4, <2>1, <2>2, <2>3
<1> QED BY <1>2, <1>3, <1>4

\* The curve never grants more than the budget.
LEMMA DebtFits ==
    ASSUME now \in Nat, NEW w, w.sent \in Nat, w.start \in 0..now
    PROVE  /\ VolumeDeficit(w) \in Nat
           /\ VolumeDeficit(w) > 0 => w.sent + VolumeDeficit(w) <= Budget
<1>1. PICK t \in 0..WindowLen : t = Smaller(now - w.start, WindowLen)
  BY Numbers DEF Smaller
<1>2. Share[t] \in Nat /\ Share[t] <= Budget
  <2>1. WindowLen \in 0..WindowLen /\ t <= WindowLen
    BY Numbers
  <2> QED BY <2>1, EngineAssumption DEF Budget
<1>3. VolumeDeficit(w) = Larger(0, Share[t] - w.sent)
  BY <1>1 DEF VolumeDeficit
<1> QED BY <1>2, <1>3, Numbers DEF Larger

\* The ramp: within max_ramp of the workers before, and within the limits.
LEMMA RampType ==
    ASSUME prevWorkers \in 0..MaxWorkers, NEW target \in Nat
    PROVE  /\ workerCount(target) \in 0..MaxWorkers
           /\ ~snap.dev =>
                 workerCount(target) \in prevWorkers - MaxRamp .. prevWorkers + MaxRamp
<1>1. DevWorkers \in Nat
  BY EngineAssumption
<1> QED BY <1>1, Numbers DEF workerCount, Clamped, slew, Larger, Smaller

\* Every step keeps the types and the deadlines.
LEMMA TypeNext == TypeOK /\ TimeInv /\ [Next]_vars => TypeOK' /\ TimeInv'
<1> SUFFICES ASSUME TypeOK, TimeInv, [Next]_vars PROVE TypeOK' /\ TimeInv'
  OBVIOUS
<1> USE Numbers DEF TypeOK, TimeInv, config, control, locals
<1>1. CASE Tick
  <2>1. now' \in 0..MaxTime /\ now' = now + 1
    BY <1>1, EngineAssumption DEF Tick
  <2>2. 0..now \subseteq 0..now'
    BY <2>1
  <2>3. Windows \subseteq [start : (0..now') \cup {Unset}, sent : Nat]
    BY <2>2 DEF Windows
  <2>4. TypeOK'
    BY <1>1, <2>1, <2>2, <2>3 DEF Tick, Windows
  <2>5. TimeInv'
    BY <1>1, <2>1 DEF Tick
  <2> QED BY <2>4, <2>5
<1>2. CASE Edit
  <2>1. cfg' \in Configs
    BY <1>2 DEF Edit, Configs
  <2>2. edits' \in 0..MaxEdits
    <3>1. PICK e \in Nat, m \in Nat : e = edits /\ m = MaxEdits
      OBVIOUS
    <3>2. e < m /\ edits' = e + 1
      BY <1>2, <3>1 DEF Edit
    <3> QED BY <3>1, <3>2
  <2> QED BY <1>2, <2>1, <2>2 DEF Edit
<1> DEFINE Faulty == UNCHANGED faults \/ Fault
<1>f. Faulty => faults' \in 0..MaxFaults
  <2>1. PICK f \in 0..MaxFaults, m \in Nat : f = faults /\ m = MaxFaults
    OBVIOUS
  <2>2. ASSUME Faulty PROVE faults' = f \/ (f < m /\ faults' = f + 1)
    BY <2>1, <2>2 DEF Fault
  <2> QED BY <2>1, <2>2
<1> HIDE DEF Faulty
<1>3. CASE Gate \/ Wake
  BY <1>3 DEF Gate, Wake, SleepFor
<1>4. ASSUME CycleEnds, UNCHANGED <<cfg, edits, stopped, now, signalled, prevWorkers, window, web, spent>>,
             disk' \in {disk, window}, Faulty
      PROVE  TypeOK' /\ TimeInv'
  <2>1. wake' \in Nat /\ pc' = "sleep"
    BY <1>4, EngineAssumption DEF CycleEnds, SleepFor
  <2> QED BY <1>4, <1>f, <2>1 DEF CycleEnds
<1>5. CASE NetstatFails \/ Save \/ Panic
  BY <1>4, <1>5 DEF Faulty, NetstatFails, Save, Panic, Written, NotWritten
<1>6. CASE Deficit
  <2>1. CASE snap'.mode = "volume"
    <3>1. /\ window' \in [start : 0..now, sent : Nat] /\ now - WindowLen < window'.start
          /\ deficit' \in Nat
      BY <1>6, <2>1, RollsForward, DebtFits DEF Deficit, Windows
    <3>2. window'.start # Unset
      BY <3>1 DEF Unset
    <3> QED BY <1>6, <2>1, <3>1, <3>2 DEF Deficit
  <2>2. CASE snap'.mode # "volume"
    <3>1. deficit' \in Nat
      BY <1>6, <2>2, EngineAssumption DEF Deficit
    <3> QED BY <1>6, <2>2, <3>1 DEF Deficit
  <2> QED BY <2>1, <2>2
<1>7. CASE Upload
  <2>1. workers' \in 0..MaxWorkers
    BY <1>7, RampType, EngineAssumption DEF Upload
  <2> QED BY <1>7, <2>1 DEF Upload
<1>8. CASE Skip
  BY <1>8 DEF Skip
<1>9. ASSUME pc = "upload", NEW n \in 0..MaxSent, Spend(n) PROVE spent' \in Windows
  <2>1. n \in Nat
    BY <1>9, Sends
  <2> QED BY <1>9, <2>1 DEF Spend, Windows
<1>10. CASE UploadReturns
  <2>1. sent' \in Nat
    BY <1>10, Sends DEF UploadReturns
  <2>2. spent' \in Windows
    BY <1>9, <1>10 DEF UploadReturns
  <2> QED BY <1>10, <2>1, <2>2 DEF UploadReturns, Windows
<1>11. CASE Account
  BY <1>11 DEF Account
<1>12. CASE Join \/ FinalSave \/ Exit
  <2>1. Faulty
    BY <1>12 DEF Faulty, Join, FinalSave, Exit, Written, NotWritten
  <2> QED BY <1>12, <1>f, <2>1 DEF Join, FinalSave, AfterFinal, Written, NotWritten, Exit
<1>13. CASE Signal \/ WebStops \/ WebFails
  <2>1. Faulty
    BY <1>13 DEF Faulty, Signal, WebStops, WebFails
  <2> QED BY <1>13, <1>f, <2>1 DEF Signal, WebStops, WebFails
<1>14. CASE CrashRestart
  <2>1. spent' \in Windows
    BY <1>9, <1>14 DEF CrashRestart, Windows
  <2>2. TypeOK'
    <3>1. /\ UNCHANGED <<cfg, edits, stopped, now, disk>> /\ window' = disk /\ pc' = "gate"
          /\ snap' = cfg /\ web' = "on" /\ signalled' = FALSE
          /\ wake' = 0 /\ deficit' = 0 /\ workers' = 0 /\ sent' = 0
          /\ prevWorkers' = 0 /\ last' = 0
          /\ Faulty
      BY <1>14 DEF CrashRestart, Faulty
    <3>2. {window, disk, spent}' \subseteq Windows
      BY <2>1, <3>1 DEF Windows
    <3>3. {workers, prevWorkers, last}' \subseteq 0..MaxWorkers
      BY <3>1
    <3> QED BY <1>f, <3>1, <3>2, <3>3 DEF Windows
  <2>3. TimeInv'
    BY <1>14 DEF CrashRestart
  <2> QED BY <2>2, <2>3
<1>15. CASE UNCHANGED vars
  BY <1>15 DEF vars
<1> QED BY <1>1, <1>2, <1>3, <1>5, <1>6, <1>7, <1>8, <1>10, <1>11, <1>12, <1>13, <1>14,
           <1>15 DEF Next, EngineStep

-----------------------------------------------------------------------------
(* Stop and the ramp.                                                      *)

\* Time passes only in an upload, which keeps its deadline, and in the sleep, which
\* leads to the gate.
LEMMA StopNext == TypeOK /\ TimeInv /\ StopInv /\ [Next]_vars => StopInv'
<1> SUFFICES ASSUME TypeOK, TimeInv, StopInv, [Next]_vars PROVE StopInv'
  OBVIOUS
<1> USE DEF StopInv, config, control, locals
<1>1. CASE Tick
  BY <1>1 DEF Tick
<1>2. CASE Edit
  <2>1. UNCHANGED <<now, pc, wake>>
    BY <1>2 DEF Edit
  <2>2. \/ cfg'.running
        \/ cfg.running /\ stopped' = now
        \/ ~cfg.running /\ stopped' = stopped
    <3>1. stopped' = CASE cfg'.running -> Unset
                       [] cfg.running /\ ~cfg'.running -> now
                       [] OTHER -> stopped
      BY <1>2 DEF Edit
    <3> QED BY <3>1, Zenon
  <2>3. pc = "upload" => wake <= now + MaxCycle
    BY DEF TimeInv
  <2> QED BY <2>1, <2>2, <2>3, Zenon
<1>3. CASE Gate
  BY <1>3 DEF Gate, SleepFor
<1>4. CASE Upload
  <2>1. cfg' = cfg /\ stopped' = stopped /\ wake' = now + MaxCycle /\ pc = "plan" /\ pc' = "upload"
    BY <1>4 DEF Upload
  <2>2. ~cfg.running => wake' <= stopped + MaxCycle
    BY <2>1, Numbers DEF TypeOK
  <2> QED BY <2>1, <2>2
<1>5. CASE Deficit
  BY <1>5 DEF Deficit
<1>6. CASE /\ UNCHANGED <<cfg, stopped, now, wake, pc>>
  BY <1>6
<1>7. CASE pc' \notin {"reconcile", "plan", "upload"}
  BY <1>7
<1> QED BY <1>1, <1>2, <1>3, <1>4, <1>5, <1>6, <1>7
        DEF Next, EngineStep, Wake, NetstatFails, CycleEnds, SleepFor, Skip, UploadReturns,
            Account, Save, Panic, Join, FinalSave, AfterFinal, Exit, Signal, WebStops, WebFails,
            CrashRestart, vars

\* A cycle takes its workers from e.prevWorkers and leaves its own there; what ends
\* without an upload, or with the process, has no workers to ramp from.
LEMMA RampNext == TypeOK /\ RampInv /\ [Next]_vars => RampInv'
<1> SUFFICES ASSUME TypeOK, RampInv, [Next]_vars PROVE RampInv'
  OBVIOUS
<1> USE DEF RampInv, RampIsLimited, control, locals
<1>1. CASE Upload
  <2>1. PICK target \in Nat : workers' = workerCount(target)
    BY <1>1, EngineAssumption DEF Upload
  <2>2. ~snap.dev => workers' \in prevWorkers - MaxRamp .. prevWorkers + MaxRamp
    BY <2>1, RampType DEF TypeOK
  <2>3. UNCHANGED <<snap, last, prevWorkers>> /\ pc = "plan" /\ pc' = "upload"
    BY <1>1 DEF Upload
  <2>4. last > 0 => last = prevWorkers
    BY <2>3
  <2>5. ~snap'.dev /\ last' > 0 => workers' \in last' - MaxRamp .. last' + MaxRamp
    BY <2>2, <2>3, <2>4
  <2> QED BY <2>3, <2>4, <2>5
<1>2. ASSUME CycleEnds, prevWorkers' = prevWorkers, pc \notin {"upload"} PROVE RampInv'
  <2>1. pc' = "sleep" /\ last' = workers /\ workers' = 0
    BY <1>2 DEF CycleEnds, SleepFor
  <2>2. workers \in Nat /\ workers > 0 => workers = prevWorkers
    BY <1>2 DEF TypeOK
  <2> QED BY <1>2, <2>1, <2>2, Numbers DEF TypeOK
<1>3. CASE NetstatFails \/ Save \/ Panic
  BY <1>2, <1>3 DEF NetstatFails, Save, Panic
<1>4. CASE UploadReturns \/ Skip
  BY <1>4 DEF UploadReturns, Skip
<1>5. CASE CrashRestart
  BY <1>5 DEF CrashRestart
<1>6. CASE Account
  BY <1>6 DEF Account
<1>7. CASE UNCHANGED <<snap, workers, last, prevWorkers, pc>>
  BY <1>7
<1>8. CASE Gate \/ Wake \/ Deficit \/ Join \/ FinalSave \/ Exit
  BY <1>8 DEF Gate, Wake, SleepFor, Deficit, Join, FinalSave, AfterFinal, Exit
<1> QED BY <1>1, <1>3, <1>4, <1>5, <1>6, <1>7, <1>8
        DEF Next, EngineStep, Tick, Edit, Signal, WebStops, WebFails, vars

-----------------------------------------------------------------------------
(* The window.                                                             *)

\* What a step writes for the windows, of what the types allow.
LEMMA WindowsType ==
    ASSUME TypeOK, TypeOK'
    PROVE  /\ {window.start, window.sent, disk.start, disk.sent, spent.start, spent.sent,
               sent, deficit} \subseteq Int
           /\ {window.start, window.sent, disk.start, disk.sent, spent.start, spent.sent,
               sent, deficit}' \subseteq Int
           /\ window.sent >= 0 /\ disk.sent >= 0 /\ spent.sent >= 0 /\ sent >= 0
           /\ window'.sent >= 0 /\ disk'.sent >= 0 /\ spent'.sent >= 0 /\ sent' >= 0
  BY DEF TypeOK, Unset

\* A cycle in volume mode charges what it sends to its window, another one nothing.
LEMMA Spending ==
    ASSUME TypeOK, NEW n \in Nat, Spend(n)
    PROVE  /\ snap.mode # "volume" => spent' = spent
           /\ snap.mode = "volume" =>
                 /\ spent'.start = window.start
                 /\ spent.start = window.start => spent'.sent = spent.sent + n
                 /\ spent.start # window.start => spent'.sent = n
  BY DEF TypeOK, Spend

\* What one upload in volume mode sends, at its end or when it is killed.
LEMMA OneUpload ==
    ASSUME TypeOK, DebtInv, pc = "upload", snap.mode = "volume", NEW n \in 0..MaxSent
    PROVE  n \in Nat /\ n <= CycleMax /\ window.sent + n <= Ceiling
<1>1. n \in Nat /\ n <= (deficit * Percent * 6) \div 500 + LastDatagrams
  <2>1. PICK m \in Int : m = (deficit * Percent * 6) \div 500 + LastDatagrams
    <3>1. PICK p \in Nat : p = deficit * Percent
      BY Numbers, Products DEF TypeOK
    <3> QED BY <3>1, Numbers
  <2>2. MaxSent \in Nat /\ MaxSent <= m
    BY Sends, <2>1
  <2> QED BY <2>1, <2>2
<1>2. deficit \in Nat /\ window.sent \in Nat /\ window.sent + deficit <= Budget
  BY DEF TypeOK, DebtInv
<1>3. n <= CycleMax /\ (Budget - deficit) + n <= Ceiling
  <2>1. deficit <= Budget
    BY <1>2, Numbers
  <2> QED BY <1>1, <1>2, <2>1, OneCycle
<1> QED BY <1>1, <1>2, <1>3, Numbers

\* No cycle is planned for more than its window has left.
LEMMA DebtNext == TypeOK /\ TypeOK' /\ DebtInv /\ [Next]_vars => DebtInv'
<1> SUFFICES ASSUME TypeOK, TypeOK', DebtInv, [Next]_vars PROVE DebtInv'
  OBVIOUS
<1> USE Numbers, WindowsType DEF DebtInv, Pending, config, control, locals
<1>1. CASE Deficit
  <2>1. CASE snap'.mode = "volume"
    <3>1. /\ window'.sent \in Nat /\ (window'.sent = window.sent \/ window'.sent = 0)
          /\ deficit' > 0 => window'.sent + deficit' <= Budget
      BY <1>1, <2>1, RollsForward, DebtFits DEF Deficit, TypeOK, Windows
    <3> QED BY <1>1, <3>1 DEF Deficit
  <2>2. CASE snap'.mode # "volume"
    BY <1>1, <2>2 DEF Deficit
  <2> QED BY <2>1, <2>2
<1>2. CASE Upload \/ Skip
  BY <1>2 DEF Upload, Skip
<1>3. CASE UploadReturns
  <2>1. sent' \in 0..MaxSent /\ pc = "upload" /\ UNCHANGED <<snap, window, disk>> /\ pc' = "account"
    BY <1>3 DEF UploadReturns
  <2>2. snap.mode = "volume" => sent' <= CycleMax /\ window.sent + sent' <= Ceiling
    BY <2>1, OneUpload
  <2> QED BY <2>1, <2>2
<1>4. CASE Account
  <2>1. /\ pc = "account" /\ pc' = "save" /\ disk' = disk
        /\ window' = IF snap.mode = "volume" THEN [window EXCEPT !.sent = @ + sent] ELSE window
    BY <1>4 DEF Account
  <2>2. window'.sent = window.sent + Pending
    BY <2>1 DEF TypeOK
  <2> QED BY <2>1, <2>2
<1>5. ASSUME UNCHANGED window, disk' \in {disk, window}, pc # "account", pc' \notin {"plan", "upload", "account"}
      PROVE  DebtInv'
  BY <1>5
<1>6. CASE Gate \/ Wake \/ NetstatFails \/ Save \/ Join \/ FinalSave \/ Exit
  BY <1>5, <1>6 DEF Gate, Wake, SleepFor, NetstatFails, Save, CycleEnds, Join, FinalSave, AfterFinal,
                    Exit, Written, NotWritten
<1>7. CASE Panic \/ CrashRestart
  BY <1>7 DEF Panic, CycleEnds, SleepFor, CrashRestart
<1>8. CASE UNCHANGED <<window, disk, pc, snap, sent, deficit>>
  BY <1>8
<1> QED BY <1>1, <1>2, <1>3, <1>4, <1>6, <1>7, <1>8
        DEF Next, EngineStep, Tick, Edit, Signal, WebStops, WebFails, vars

\* A fault is never taken back.
LEMMA FaultsGrow ==
    ASSUME TypeOK
    PROVE  /\ Fault => faults' # 0 /\ faults' = faults + 1
           /\ Forgotten \in Nat
           /\ faults' = faults => Forgotten' = Forgotten
           /\ faults' = faults + 1 => Forgotten' = Forgotten + CycleMax
<1>1. PICK f \in Nat, c \in Nat : f = faults /\ c = CycleMax
  BY Numbers DEF TypeOK
<1>2. f * c \in Nat /\ (f + 1) * c = f * c + c
  BY Products
<1>3. Fault => faults' = f + 1
  BY <1>1 DEF Fault
<1>4. CycleMax' = CycleMax
  OBVIOUS
<1>5. (faults' = f => Forgotten' = f * c) /\ (faults' = f + 1 => Forgotten' = f * c + c)
  BY <1>1, <1>2, <1>4 DEF Forgotten
<1> QED BY <1>1, <1>2, <1>3, <1>5 DEF Forgotten

\* Without faults what a cycle sends is added to its window in memory, and the file
\* follows before the loop sleeps.
LEMMA MemoryNext == TypeOK /\ TypeOK' /\ MemoryInv /\ [Next]_vars => MemoryInv'
<1> SUFFICES ASSUME TypeOK, TypeOK', MemoryInv, [Next]_vars, faults' = 0 PROVE MemoryInv'
  BY DEF MemoryInv
<1> USE WindowsType DEF MemoryInv, Pending, config, control, locals
<1>0. ~Fault
  BY FaultsGrow
<1>1. CASE Deficit
  <2>1. PICK w \in Windows : w = window
    BY DEF TypeOK, Windows
  <2>2. window' = window \/ (window'.sent = 0 /\ window.start < window'.start)
    BY <1>1, <2>1, RollsForward DEF Deficit, TypeOK
  <2>3. UNCHANGED <<spent, faults>> /\ pc = "reconcile" /\ pc' = "plan"
    BY <1>1 DEF Deficit
  <2> QED BY <2>2, <2>3
<1>2. CASE Upload \/ Skip
  BY <1>2 DEF Upload, Skip
<1>3. CASE UploadReturns
  <2>1. sent' \in Nat /\ Spend(sent') /\ pc = "upload" /\ UNCHANGED <<snap, window, faults>>
        /\ pc' = "account"
    BY <1>3, Sends DEF UploadReturns
  <2>2. CASE snap.mode = "volume"
    BY <2>1, <2>2, Spending
  <2>3. CASE snap.mode # "volume"
    BY <2>1, <2>3, Spending
  <2> QED BY <2>2, <2>3
<1>4. CASE Account
  <2>1. /\ pc = "account" /\ pc' = "save" /\ UNCHANGED <<spent, faults>>
        /\ window' = IF snap.mode = "volume" THEN [window EXCEPT !.sent = @ + sent] ELSE window
    BY <1>4 DEF Account
  <2>2. window'.sent = window.sent + Pending /\ window'.start = window.start
    BY <2>1 DEF TypeOK
  <2> QED BY <2>1, <2>2
<1>5. CASE Save \/ FinalSave
  BY <1>0, <1>5 DEF Save, CycleEnds, SleepFor, FinalSave, AfterFinal, Written, NotWritten
<1>6. CASE Gate \/ Wake \/ NetstatFails \/ Join \/ Exit
  BY <1>6 DEF Gate, Wake, SleepFor, NetstatFails, CycleEnds, Join, Exit
<1>7. CASE Panic \/ CrashRestart \/ WebFails
  BY <1>0, <1>7 DEF Panic, CrashRestart, WebFails
<1>8. CASE UNCHANGED <<window, disk, spent, pc, snap, sent, faults>>
  BY <1>8
<1> QED BY <1>1, <1>2, <1>3, <1>4, <1>5, <1>6, <1>7, <1>8
        DEF Next, EngineStep, Tick, Edit, Signal, WebStops, vars

\* Each crash, panic or failed save makes memory or the file forget at most the one
\* cycle that was running or waiting to be saved.
LEMMA GapNext == TypeOK /\ TypeOK' /\ DebtInv /\ GapInv /\ [Next]_vars => GapInv'
<1> SUFFICES ASSUME TypeOK, TypeOK', DebtInv, GapInv, [Next]_vars PROVE GapInv'
  OBVIOUS
<1>1. PICK C \in Nat, L \in Nat, f \in Nat :
        C = CycleMax /\ L = Ceiling /\ f = Forgotten /\ C <= L
  BY Numbers, FaultsGrow
<1>2. /\ CycleMax' = C /\ Ceiling' = L
      /\ faults' = faults => Forgotten' = f
      /\ Fault => Forgotten' = f + C
  BY <1>1, FaultsGrow
<1>3. Unwritten \in {0, C} /\ (pc \notin {"account", "save"} => Unwritten = 0)
      /\ (pc \in {"account", "save"} => Unwritten = C)
  BY <1>1 DEF Unwritten
<1>4. Unwritten' \in {0, C} /\ (pc' \notin {"account", "save"} => Unwritten' = 0)
      /\ (pc' \in {"account", "save"} => Unwritten' = C)
  BY <1>2 DEF Unwritten
<1> USE <1>1, <1>2, <1>3, <1>4, WindowsType DEF GapInv, Pending, config, control, locals
<1>5. CASE Deficit
  <2>1. PICK w \in Windows : w = window
    BY DEF TypeOK, Windows
  <2>2. window' = window \/ (window'.sent = 0 /\ window.start < window'.start)
    BY <1>5, <2>1, RollsForward DEF Deficit, TypeOK
  <2>3. UNCHANGED <<spent, disk, faults>> /\ pc = "reconcile" /\ pc' = "plan"
    BY <1>5 DEF Deficit
  <2> QED BY <2>2, <2>3
<1>6. CASE Upload \/ Skip
  BY <1>6 DEF Upload, Skip
<1>7. ASSUME pc = "upload", NEW n \in 0..MaxSent, Spend(n)
      PROVE  /\ n \in Nat
             /\ window.start = spent'.start => spent'.sent <= window.sent + n + f
             /\ window.start < spent'.start => snap.mode # "volume" /\ spent'.sent <= f
             /\ disk.start = spent'.start => spent'.sent <= disk.sent + C + f
             /\ disk.start < spent'.start => spent'.sent <= C + f
             /\ spent'.sent <= L + f
             /\ snap.mode # "volume" => spent' = spent
  <2>1. n \in Nat
    BY <1>7, Sends
  <2>2. CASE snap.mode = "volume"
    <3>1. n <= C /\ window.sent + n <= L
      BY <1>7, <2>2, OneUpload
    <3>2. spent'.start = window.start
          /\ (spent.start = window.start => spent'.sent = spent.sent + n)
          /\ (spent.start # window.start => spent'.sent = n)
      BY <1>7, <2>1, <2>2, Spending
    <3> QED BY <1>7, <2>1, <2>2, <3>1, <3>2
  <2>3. CASE snap.mode # "volume"
    <3>1. spent' = spent
      BY <1>7, <2>1, <2>3, Spending
    <3> QED BY <1>7, <2>1, <2>3, <3>1
  <2> QED BY <2>2, <2>3
<1>8. CASE UploadReturns
  <2>1. /\ pc = "upload" /\ pc' = "account" /\ sent' \in 0..MaxSent /\ Spend(sent')
        /\ UNCHANGED <<window, disk, snap, faults>>
    BY <1>8 DEF UploadReturns
  <2> QED BY <1>7, <2>1
<1>9. CASE Account
  <2>1. /\ pc = "account" /\ pc' = "save" /\ UNCHANGED <<spent, disk, faults>>
        /\ window' = IF snap.mode = "volume" THEN [window EXCEPT !.sent = @ + sent] ELSE window
    BY <1>9 DEF Account
  <2>2. window'.sent = window.sent + Pending /\ window'.start = window.start
    BY <2>1 DEF TypeOK
  <2> QED BY <2>1, <2>2
<1>10. CASE Save \/ FinalSave
  <2>1. /\ (disk' = window /\ faults' = faults) \/ (disk' = disk /\ Fault)
        /\ UNCHANGED <<window, spent>>
        /\ pc \notin {"account"} /\ pc' \notin {"account", "save"}
    BY <1>10 DEF Save, CycleEnds, SleepFor, FinalSave, AfterFinal, Written, NotWritten
  <2> QED BY <2>1
<1>11. CASE Panic
  <2>1. Fault /\ UNCHANGED <<window, disk, spent>> /\ pc' = "sleep"
    BY <1>11 DEF Panic, CycleEnds, SleepFor
  <2>2. Pending <= C
    BY DEF DebtInv
  <2> QED BY <2>1, <2>2
<1>12. CASE CrashRestart
  <2>1. Fault /\ window' = disk /\ disk' = disk /\ pc' = "gate"
    BY <1>12 DEF CrashRestart
  <2>2. CASE pc = "upload"
    <3>1. PICK n \in 0..MaxSent : Spend(n)
      BY <1>12, <2>2 DEF CrashRestart
    <3> QED BY <1>7, <2>1, <2>2, <3>1
  <2>3. CASE pc # "upload"
    <3>1. spent' = spent
      BY <1>12, <2>3 DEF CrashRestart
    <3> QED BY <2>1, <3>1
  <2> QED BY <2>2, <2>3
<1>13. CASE WebFails
  BY <1>13 DEF WebFails
<1>14. CASE Gate \/ Wake \/ NetstatFails \/ Join \/ Exit
  BY <1>14 DEF Gate, Wake, SleepFor, NetstatFails, CycleEnds, Join, Exit
<1>15. CASE UNCHANGED <<window, disk, spent, pc, snap, sent, faults>>
  BY <1>15
<1> QED BY <1>5, <1>6, <1>8, <1>9, <1>10, <1>11, <1>12, <1>13, <1>14, <1>15
        DEF Next, EngineStep, Tick, Edit, Signal, WebStops, vars

-----------------------------------------------------------------------------
(* Theorems.                                                               *)

\* The first process finds a window of nothing, in memory and in the file.
LEMMA InvInit ==
    Init => TypeOK /\ TimeInv /\ StopInv /\ RampInv /\ MemoryInv /\ DebtInv /\ GapInv
<1> SUFFICES ASSUME Init
             PROVE  TypeOK /\ TimeInv /\ StopInv /\ RampInv /\ MemoryInv /\ DebtInv /\ GapInv
  OBVIOUS
<1>1. TypeOK
  <2>1. cfg \in Configs /\ snap = cfg
    BY EngineAssumption DEF Init
  <2>2. {window, disk, spent} \subseteq [start : (0..now) \cup {Unset}, sent : Nat]
    BY DEF Init, Unset
  <2>3. {0} \subseteq 0..MaxWorkers /\ now \in 0..MaxTime /\ edits \in 0..MaxEdits /\ faults \in 0..MaxFaults
    BY Numbers DEF Init
  <2>4. stopped \in (0..now) \cup {Unset}
    BY DEF Init
  <2> QED BY <2>1, <2>2, <2>3, <2>4 DEF Init, TypeOK
<1>2. TimeInv /\ StopInv /\ RampInv
  BY DEF Init, TimeInv, StopInv, RampInv, RampIsLimited
<1>3. MemoryInv
  <2>1. window.sent = 0 /\ spent = window /\ disk = window /\ window.start = -1 /\ Pending = 0
    BY DEF Init, Pending, Unset
  <2> QED BY <2>1 DEF MemoryInv
<1>4. Forgotten = 0
  BY Numbers DEF Init, Forgotten
<1>5. DebtInv /\ GapInv
  BY <1>4, Numbers DEF Init, DebtInv, GapInv, Pending, Unwritten, Unset
<1> QED BY <1>1, <1>2, <1>3, <1>5

\* Types and deadlines: every variable stays in its type.
THEOREM TypeCorrect == Spec => [](TypeOK /\ TimeInv)
<1>1. Init => TypeOK /\ TimeInv
  BY InvInit
<1> QED BY <1>1, TypeNext, PTL DEF Spec

\* The volume budget is a ceiling per window, up to the last datagrams and the jitter
\* of the one cycle that reaches it and one cycle for each crash, panic or failed save.
THEOREM BudgetIsACeiling == Spec => []WindowCeiling
<1>1. Init => DebtInv /\ GapInv
  BY InvInit
<1>2. Spec => [](DebtInv /\ GapInv)
  BY <1>1, TypeCorrect, DebtNext, GapNext, PTL DEF Spec
<1>3. GapInv => WindowCeiling
  BY DEF GapInv, WindowCeiling, Ceiling, Forgotten
<1> QED BY <1>2, <1>3, PTL

\* Without a crash, panic or failed save WindowSentBytes is what the window's cycles
\* have sent, through every edit of mode and target, and the file holds it whenever the
\* loop sleeps or the process has ended.
THEOREM NothingIsForgotten == Spec => []NothingForgotten
<1>1. Init => MemoryInv
  BY InvInit
<1>2. Spec => []MemoryInv
  BY <1>1, TypeCorrect, MemoryNext, PTL DEF Spec
<1>3. TypeOK /\ MemoryInv => NothingForgotten
  BY DEF TypeOK, MemoryInv, NothingForgotten, Pending, Unset
<1> QED BY <1>2, <1>3, TypeCorrect, PTL

\* No upload runs later than maxCycleDuration after the dashboard's stop.
THEOREM StopIsPrompt == Spec => []StopTakesEffect
<1>1. Init => StopInv
  BY InvInit
<1>2. Spec => []StopInv
  BY <1>1, TypeCorrect, StopNext, PTL DEF Spec
<1>3. TypeOK /\ TimeInv /\ StopInv => StopTakesEffect
  BY Numbers DEF TypeOK, TimeInv, StopInv, StopTakesEffect, Unset
<1> QED BY <1>2, <1>3, TypeCorrect, PTL

\* Between two cycles that both upload the worker count moves by at most max_ramp.
THEOREM RampIsKept == Spec => []RampIsLimited
<1>1. Init => RampInv
  BY InvInit
<1>2. Spec => []RampInv
  BY <1>1, TypeCorrect, RampNext, PTL DEF Spec
<1>3. RampInv => RampIsLimited
  BY DEF RampInv
<1> QED BY <1>2, <1>3, PTL

=============================================================================
