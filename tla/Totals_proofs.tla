--------------------------- MODULE Totals_proofs ---------------------------
(***************************************************************************)
(* Theorems about the lifetime totals, for every amount of traffic and any *)
(* number of resets, requests and restarts: first Synchronizer, where the  *)
(* engine alone writes the record, then Tracking, where the dashboard      *)
(* writes it too, one field at a time and in any order.                    *)
(***************************************************************************)
EXTENDS Tracking, TLAPS

(* Synchronizer: one writer.                                               *)

\* The counters a cycle has read and not yet reconciled may be older than the
\* kernel's: using them counts no byte twice either.
Pending ==
    pc \in {"reconcile", "recheck"} =>
        \A d \in Dir : /\ snap[d] + mem.sync[d] <= Counted[d]
                       /\ mem.total[d] + raw[d] - snap[d] <= Counted[d]

\* With no process, memory stands for what the next one loads.
Rested == pc = "off" => mem = disk

SoundInv == TypeOK /\ NeverOvercounts /\ Pending /\ Rested

\* What a record of the totals consists of, as the other proofs use it.
LEMMA RecordType ==
    ASSUME NEW s \in Record
    PROVE  /\ s = [total |-> s.total, sync |-> s.sync]
           /\ s.total \in Bytes
           /\ s.sync \in [Dir -> Int]
           /\ \A d \in Dir : s.total[d] \in Nat /\ s.sync[d] \in Int
  BY DEF Record, Bytes

\* reconcile yields a record: a total it advances to is not negative, because it
\* is at least the total it replaces.
LEMMA ReconcileType ==
    ASSUME NEW s \in Record, NEW c \in Bytes
    PROVE  /\ reconcile(s, c) \in Record
           /\ Rebooted(s, c) =>
                 /\ reconcile(s, c).total = s.total
                 /\ \A d \in Dir : reconcile(s, c).sync[d] = s.total[d] - c[d]
           /\ ~Rebooted(s, c) =>
                 /\ reconcile(s, c).sync = s.sync
                 /\ \A d \in Dir : /\ reconcile(s, c).total[d] = c[d] + s.sync[d]
                                   /\ s.total[d] <= c[d] + s.sync[d]
<1>1. /\ s = [total |-> s.total, sync |-> s.sync]
      /\ \A d \in Dir : s.total[d] \in Nat /\ s.sync[d] \in Int /\ c[d] \in Nat
      /\ s.total \in Bytes /\ s.sync \in [Dir -> Int]
  BY RecordType DEF Bytes
<1>2. CASE Rebooted(s, c)
  <2>1. reconcile(s, c) = [total |-> s.total, sync |-> [d \in Dir |-> s.total[d] - c[d]]]
    BY <1>1, <1>2 DEF reconcile, Reanchored
  <2> QED BY <1>1, <1>2, <2>1 DEF Record
<1>3. CASE ~Rebooted(s, c)
  <2>1. \A d \in Dir : Live(s, c)[d] = c[d] + s.sync[d]
    BY DEF Live
  <2>2. \A d \in Dir : s.total[d] <= c[d] + s.sync[d]
    BY <1>1, <1>3, <2>1 DEF Rebooted
  <2>3. Live(s, c) \in Bytes
    BY <1>1, <2>2 DEF Live, Bytes
  <2>4. reconcile(s, c) = [total |-> Live(s, c), sync |-> s.sync]
    BY <1>1, <1>3 DEF reconcile, Advanced
  <2> QED BY <1>1, <1>3, <2>1, <2>2, <2>3, <2>4 DEF Record
<1> QED BY <1>2, <1>3

-----------------------------------------------------------------------------
\* A first run starts from zero totals and offsets, whatever the counters show.
LEMMA SoundInit == Init => SoundInv
<1> SUFFICES ASSUME Init PROVE SoundInv
  OBVIOUS
<1>1. FirstRun \in Record /\ Zero \in Bytes
  BY DEF FirstRun, Record, Bytes, Zero
<1>2. raw \in Bytes
  BY BoundsAssumption DEF Init, Bytes
<1>3. TypeOK
  BY <1>1, <1>2 DEF Init, TypeOK, PC
<1>4. Sound(FirstRun)
  BY <1>2 DEF Init, Sound, Counted, FirstRun, Zero, Bytes
<1> QED BY <1>3, <1>4 DEF Init, SoundInv, NeverOvercounts, Pending, Rested

\* No step breaks a type: reconcile is the only one that computes a total.
LEMMA TypeNext == TypeOK /\ [Next]_vars => TypeOK'
<1> SUFFICES ASSUME TypeOK, [Next]_vars PROVE TypeOK'
  OBVIOUS
<1>0. Zero \in Bytes
  BY DEF Zero, Bytes
<1> USE DEF TypeOK, kernel, files
<1>1. ASSUME NEW d \in Dir, Carry(d) PROVE TypeOK'
  BY <1>1 DEF Carry, Bytes
<1>2. CASE InterfaceReset
  <2>1. raw' \in Bytes
    BY <1>2, BoundsAssumption DEF InterfaceReset, Bytes
  <2> QED BY <1>2, <2>1 DEF InterfaceReset
<1>11. CASE SelectInterface
  <2>1. raw' \in Bytes
    BY <1>11, BoundsAssumption DEF SelectInterface, Bytes
  <2>2. gained' \in Bytes
    <3>1. \A d \in Dir : gained[d] + Rise(raw[d], raw'[d]) \in Nat
      BY <2>1 DEF Bytes, Rise
    <3>2. gained' = [d \in Dir |-> gained[d] + Rise(raw[d], raw'[d])]
      BY <1>11 DEF SelectInterface
    <3> QED BY <3>1, <3>2 DEF Bytes
  <2>3. resets' \in Nat
    BY <1>11 DEF SelectInterface
  <2> QED BY <1>11, <2>1, <2>2, <2>3 DEF SelectInterface
<1>3. CASE Start
  BY <1>3 DEF Start, PC
<1>4. CASE ReadCounters
  BY <1>4 DEF ReadCounters, PC
<1>5. CASE Reconcile
  <2>1. mem' \in Record
    BY <1>5, ReconcileType DEF Reconcile
  <2> QED BY <1>5, <2>1, <1>0 DEF Reconcile, PC
<1>6. CASE SkipRecheck \/ ReadAgain \/ Panic
  BY <1>6 DEF SkipRecheck, ReadAgain, Panic, PC
<1>7. CASE Exit
  BY <1>7 DEF Exit, Terminate, Save, SaveFails, AfterSave, PC
<1>8. CASE Kill \/ Journal
  BY <1>8, <1>0 DEF Kill, Journal, PC
<1>9. CASE Reboot
  BY <1>9, <1>0 DEF Reboot, PC
<1>10. CASE UNCHANGED vars
  BY <1>10 DEF vars
<1> QED BY <1>1, <1>2, <1>3, <1>4, <1>5, <1>6, <1>7, <1>8, <1>9, <1>10, <1>11 DEF Next, Cycle, Crash

\* A selection raises what may be shown by as much as it raises the counters.
LEMMA Selected ==
    ASSUME TypeOK, SelectInterface
    PROVE  \A d \in Dir : /\ raw'[d] - raw[d] <= Counted'[d] - Counted[d]
                          /\ Counted[d] <= Counted'[d]
<1> SUFFICES ASSUME NEW d \in Dir
             PROVE  raw'[d] - raw[d] <= Counted'[d] - Counted[d] /\ Counted[d] <= Counted'[d]
  OBVIOUS
<1>1. /\ gained' = [e \in Dir |-> gained[e] + Rise(raw[e], raw'[e])] /\ carried' = carried
      /\ raw' \in [Dir -> Nat]
  BY BoundsAssumption DEF SelectInterface
<1>2. {raw[d], raw'[d], carried[d], gained[d]} \subseteq Nat
  BY <1>1 DEF TypeOK, Bytes
<1>3. Counted'[d] = carried[d] + gained[d] + Rise(raw[d], raw'[d])
  BY <1>1, <1>2 DEF Counted, Rise
<1>4. Counted[d] = carried[d] + gained[d]
  BY DEF Counted
<1> QED BY <1>2, <1>3, <1>4 DEF Rise

\* Every step that ends the process sets memory to the file's record.
LEMMA RestedNext == Rested /\ [Next]_vars => Rested'
<1> USE DEF Rested, kernel, files
<1>1. ASSUME Rested, NEW d \in Dir, Carry(d) PROVE Rested'
  BY <1>1 DEF Carry
<1>2. Rested /\ (InterfaceReset \/ SelectInterface \/ Start) => Rested'
  BY DEF InterfaceReset, SelectInterface, Start
<1>3. Rested /\ Cycle => Rested'
  BY DEF Cycle, ReadCounters, Reconcile, SkipRecheck, ReadAgain, Panic
<1>4. Rested /\ Exit => Rested'
  BY DEF Exit, Terminate, Save, SaveFails, AfterSave
<1>5. Rested /\ (Crash \/ Journal \/ UNCHANGED vars) => Rested'
  BY DEF Crash, Kill, Reboot, Journal, vars
<1> QED BY <1>1, <1>2, <1>3, <1>4, <1>5 DEF Next

\* Every record stays sound, and so do counters read and not yet reconciled.
LEMMA SoundNext == SoundInv /\ [Next]_vars => SoundInv'
<1> SUFFICES ASSUME SoundInv, [Next]_vars PROVE SoundInv'
  OBVIOUS
<1>0. TypeOK /\ TypeOK'
  BY TypeNext DEF SoundInv
<1>1. \A s \in Record : \A d \in Dir : s.total[d] \in Nat /\ s.sync[d] \in Int
  BY RecordType
<1>2. \A d \in Dir : /\ raw[d] \in Nat /\ Counted[d] \in Nat /\ snap[d] \in Nat
                     /\ raw'[d] \in Nat /\ Counted'[d] \in Nat /\ snap'[d] \in Nat
  BY <1>0 DEF TypeOK, Bytes, Counted
<1>15. UNCHANGED <<carried, gained>> => Counted' = Counted
  BY DEF Counted
<1>3. mem \in Record /\ disk \in Record /\ durable \in Record
  BY <1>0 DEF TypeOK
<1> SUFFICES NeverOvercounts' /\ Pending'
  BY <1>0, RestedNext DEF SoundInv
<1> USE DEF SoundInv, NeverOvercounts, Sound, Pending, kernel, files
<1>4. ASSUME NEW d \in Dir, Carry(d) PROVE NeverOvercounts' /\ Pending'
  <2>1. \A e \in Dir : raw'[e] - raw[e] = Counted'[e] - Counted[e] /\ Counted[e] <= Counted'[e]
    BY <1>4, <1>2, <1>0 DEF Carry, TypeOK, Bytes, Counted
  <2> QED BY <1>4, <2>1, <1>1, <1>2, <1>3 DEF Carry
<1>5. CASE InterfaceReset
  <2>1. \A e \in Dir : raw'[e] <= raw[e] /\ Counted'[e] = Counted[e]
    BY <1>5, <1>15 DEF InterfaceReset
  <2> QED BY <1>5, <2>1, <1>1, <1>2, <1>3 DEF InterfaceReset
<1>16. CASE SelectInterface
  <2>1. \A e \in Dir : raw'[e] - raw[e] <= Counted'[e] - Counted[e] /\ Counted[e] <= Counted'[e]
    BY <1>0, <1>16, Selected
  <2> QED BY <1>16, <2>1, <1>1, <1>2, <1>3 DEF SelectInterface
<1>6. CASE Start
  BY <1>6, <1>15 DEF Start
<1>7. CASE ReadCounters
  BY <1>7, <1>1, <1>2, <1>3, <1>15 DEF ReadCounters
<1>8. CASE Reconcile
  <2>1. snap \in Bytes /\ mem' = reconcile(mem, snap)
    BY <1>8, <1>0 DEF Reconcile, TypeOK
  <2>2. \A d \in Dir : /\ snap[d] + mem.sync[d] <= Counted[d]
                       /\ mem.total[d] + raw[d] - snap[d] <= Counted[d]
    BY <1>8 DEF Reconcile
  <2>3. \A d \in Dir : mem'.total[d] <= Counted[d] /\ raw[d] + mem'.sync[d] <= Counted[d]
    <3>1. CASE Rebooted(mem, snap)
      BY <3>1, <2>1, <2>2, <1>8, <1>1, <1>2, <1>3, ReconcileType DEF Reconcile
    <3>2. CASE ~Rebooted(mem, snap)
      BY <3>2, <2>1, <2>2, <1>8, <1>1, <1>2, <1>3, ReconcileType DEF Reconcile
    <3> QED BY <3>1, <3>2
  <2> QED BY <1>8, <2>3, <1>15 DEF Reconcile
<1>9. CASE ReadAgain
  BY <1>9, <1>1, <1>2, <1>3, <1>15 DEF ReadAgain
<1>10. CASE SkipRecheck \/ Panic
  BY <1>10, <1>15 DEF SkipRecheck, Panic
<1>11. CASE Exit
  BY <1>11, <1>15 DEF Exit, Terminate, Save, SaveFails, AfterSave
<1>12. CASE Kill \/ Journal
  BY <1>12, <1>15 DEF Kill, Journal
<1>13. CASE Reboot
  <2>1. \A e \in Dir : raw'[e] <= raw[e] /\ Counted'[e] = Counted[e]
    BY <1>13, <1>2, <1>15 DEF Reboot, Zero
  <2> QED BY <1>13, <2>1, <1>1, <1>2, <1>3 DEF Reboot
<1>14. CASE UNCHANGED vars
  BY <1>14, <1>15 DEF vars
<1> QED BY <1>4, <1>5, <1>6, <1>7, <1>8, <1>9, <1>10, <1>11, <1>12, <1>13, <1>14,
           <1>16
        DEF Next, Cycle, Crash

\* The invariant that NeverOvercounts needs holds in every behaviour.
LEMMA Soundness == Spec => []SoundInv
<1> QED BY SoundInit, SoundNext, PTL DEF Spec

\* Every variable has its type whatever the bounds are: a total is never
\* negative, although it is the sum of a counter and a signed offset.
THEOREM TypeCorrect == Spec => []TypeOK
<1> QED BY Soundness, PTL DEF SoundInv

\* No record of the totals ever counts a byte twice, but for the bytes by which the
\* selection of another interface raised the counters (Engine.reconcile, state.Save and
\* state.Load together).
THEOREM NoOvercount == Spec => []NeverOvercounts
<1> QED BY Soundness, PTL DEF SoundInv

-----------------------------------------------------------------------------
\* While no counter fell, totals never pass the counters they were read from.
Exact(s) == s.sync = Zero /\ \A d \in Dir : s.total[d] <= raw[d]

ExactInv ==
    resets = 0 =>
        /\ Exact(mem) /\ Exact(disk) /\ Exact(durable)
        /\ pc \in {"reconcile", "recheck"} =>
              \A d \in Dir : mem.total[d] <= snap[d] /\ snap[d] <= raw[d]

\* As long as no counter fell, a reconcile takes the branch that advances the totals.
LEMMA ExactNext == TypeOK /\ ExactInv /\ [Next]_vars => ExactInv'
<1> SUFFICES ASSUME TypeOK, ExactInv, [Next]_vars, resets' = 0 PROVE ExactInv'
  BY DEF ExactInv
<1>1. \A s \in Record : \A d \in Dir : s.total[d] \in Nat /\ s.sync[d] \in Int
  BY RecordType
<1>2. \A d \in Dir : raw[d] \in Nat /\ snap[d] \in Nat
  BY DEF TypeOK, Bytes
<1>3. mem \in Record /\ disk \in Record /\ durable \in Record /\ snap \in Bytes
  BY DEF TypeOK
<1> USE DEF ExactInv, Exact, kernel, files
<1>4. ASSUME NEW d \in Dir, Carry(d) PROVE ExactInv'
  <2>1. resets = 0 /\ \A e \in Dir : raw[e] <= raw'[e] /\ raw'[e] \in Nat
    BY <1>4, <1>2 DEF Carry, TypeOK, Bytes
  <2> QED BY <1>4, <2>1, <1>1, <1>2, <1>3 DEF Carry
<1>5. CASE InterfaceReset \/ Reboot
  BY <1>5 DEF InterfaceReset, Reboot, TypeOK
<1>13. CASE SelectInterface
  <2>1. \A d \in Dir : raw'[d] \in Nat /\ raw[d] <= raw'[d]
    BY <1>13, <1>2, BoundsAssumption DEF SelectInterface, TypeOK
  <2>2. resets = 0
    BY <1>13 DEF SelectInterface, TypeOK
  <2> QED BY <1>13, <2>1, <2>2, <1>1, <1>2, <1>3 DEF SelectInterface
<1>6. CASE Start
  BY <1>6 DEF Start
<1>7. CASE ReadCounters \/ ReadAgain
  BY <1>7, <1>2 DEF ReadCounters, ReadAgain
<1>8. CASE Reconcile
  <2>1. /\ resets = 0 /\ mem.sync = Zero /\ mem' = reconcile(mem, snap)
        /\ \A d \in Dir : mem.total[d] <= snap[d] /\ snap[d] <= raw[d]
    BY <1>8 DEF Reconcile
  <2>2. ~Rebooted(mem, snap)
    BY <2>1, <1>1, <1>2, <1>3 DEF Rebooted, Live, Zero
  <2>3. mem'.sync = Zero /\ \A d \in Dir : mem'.total[d] = snap[d]
    BY <2>1, <2>2, <1>2, <1>3, ReconcileType DEF Zero
  <2> QED BY <1>8, <2>1, <2>3 DEF Reconcile
<1>9. CASE SkipRecheck \/ Panic
  BY <1>9 DEF SkipRecheck, Panic
<1>10. CASE Exit
  BY <1>10 DEF Exit, Terminate, Save, SaveFails, AfterSave
<1>11. CASE Kill \/ Journal
  BY <1>11 DEF Kill, Journal
<1>12. CASE UNCHANGED vars
  BY <1>12 DEF vars
<1> QED BY <1>4, <1>5, <1>6, <1>7, <1>8, <1>9, <1>10, <1>11, <1>12, <1>13
        DEF Next, Cycle, Crash

\* A restart of the process is never taken for a reboot: until a kernel counter
\* falls, every record in memory and on disk has offset zero.
THEOREM RestartIsNoReboot == Spec => []NoFalseReboot
<1>1. Init => ExactInv
  <2> SUFFICES ASSUME Init PROVE ExactInv
    OBVIOUS
  <2>1. \A d \in Dir : raw[d] \in Nat
    BY BoundsAssumption DEF Init
  <2> QED BY <2>1 DEF Init, ExactInv, Exact, FirstRun, Zero
<1>2. ExactInv => NoFalseReboot
  BY DEF ExactInv, Exact, NoFalseReboot
<1> QED BY <1>1, <1>2, ExactNext, TypeCorrect, PTL DEF Spec

-----------------------------------------------------------------------------
\* The refinement starts where the abstract totals start.
LEMMA LifetimeInit == Init => Lifetime!Init
<1> SUFFICES ASSUME Init PROVE Lifetime!Init
  OBVIOUS
<1>1. raw \in Bytes
  BY BoundsAssumption DEF Init, Bytes
<1>2. Counted \in Bytes
  BY <1>1 DEF Init, Counted, Zero, Bytes
<1> QED BY <1>2
        DEF Init, Lifetime!Init, Lifetime!Totals, Lifetime!Nothing, FirstRun, Zero, Bytes

\* Traffic and a selection are a Count, a reconcile an Observe, the journal a Keep, and
\* only a step that leaves no process lowers what is shown; every other step leaves the
\* mapped values alone.
LEMMA LifetimeStep ==
    SoundInv /\ SoundInv' /\ [Next]_vars => [Lifetime!Next]_(Lifetime!vars)
<1> SUFFICES ASSUME SoundInv, SoundInv', [Next]_vars
             PROVE  Lifetime!Next \/ UNCHANGED Lifetime!vars
  OBVIOUS
<1>1. \A s \in Record : s.total \in Bytes /\ \A d \in Dir : s.total[d] \in Nat
  BY RecordType
<1>2. /\ mem \in Record /\ disk \in Record /\ durable \in Record /\ snap \in Bytes
      /\ mem' \in Record /\ carried' \in Bytes /\ gained' \in Bytes
      /\ carried \in Bytes /\ gained \in Bytes
  BY DEF SoundInv, TypeOK
<1>3. /\ \A d \in Dir : Counted[d] \in Nat
      /\ Counted' \in Bytes
      /\ UNCHANGED <<carried, gained>> => Counted' = Counted
  BY <1>2 DEF Counted, Bytes
<1> USE DEF kernel, files, Lifetime!Next
<1>4. ASSUME NEW d \in Dir, Carry(d) PROVE Lifetime!Count
  <2>1. \A e \in Dir : Counted[e] <= Counted'[e]
    <3>1. \A e \in Dir : carried[e] <= carried'[e]
      BY <1>4, <1>2 DEF Carry, Bytes
    <3> QED BY <1>2, <1>4, <3>1 DEF Carry, Counted, Bytes
  <2>2. UNCHANGED <<pc, mem, disk, durable>>
    BY <1>4 DEF Carry
  <2> QED BY <1>3, <2>1, <2>2 DEF Lifetime!Count, Lifetime!Totals, Lifetime!\preceq, Bytes
<1>5. CASE SelectInterface
  <2>1. \A e \in Dir : Counted[e] <= Counted'[e]
    BY <1>5, Selected DEF SoundInv
  <2>2. UNCHANGED <<pc, mem, disk, durable>>
    BY <1>5 DEF SelectInterface
  <2> QED BY <1>3, <2>1, <2>2 DEF Lifetime!Count, Lifetime!Totals, Lifetime!\preceq, Bytes
<1>6. CASE InterfaceReset
  BY <1>3, <1>6 DEF InterfaceReset, Lifetime!vars
<1>7. CASE Start
  <2>1. pc = "off" /\ pc' = "idle" /\ UNCHANGED <<carried, gained, disk, durable>> /\ mem' = disk
    BY <1>7 DEF Start
  <2>2. mem = disk
    BY <2>1 DEF SoundInv, Rested
  <2> QED BY <1>3, <2>1, <2>2 DEF Lifetime!Begin
<1>8. CASE ReadCounters \/ ReadAgain \/ SkipRecheck \/ Panic
  <2>1. /\ UNCHANGED <<carried, gained, mem, disk, durable>>
        /\ pc # "off" /\ pc' # "off"
    BY <1>8 DEF ReadCounters, ReadAgain, SkipRecheck, Panic
  <2> QED BY <1>3, <2>1 DEF Lifetime!vars
<1>9. CASE Reconcile
  <2>1. /\ pc # "off" /\ pc' # "off" /\ mem' = reconcile(mem, snap)
        /\ UNCHANGED <<carried, gained, disk, durable>>
    BY <1>9 DEF Reconcile
  <2>2. \A d \in Dir : snap[d] + mem.sync[d] <= Counted[d] /\ mem.total[d] <= Counted[d]
    BY <1>9 DEF Reconcile, SoundInv, Pending, NeverOvercounts, Sound
  <2>3. \A d \in Dir : mem.total[d] <= mem'.total[d] /\ mem'.total[d] <= Counted[d]
    <3>1. CASE Rebooted(mem, snap)
      <4>1. mem'.total = mem.total
        BY <3>1, <2>1, <1>2, ReconcileType
      <4> QED BY <4>1, <2>2, <1>1, <1>2
    <3>2. CASE ~Rebooted(mem, snap)
      <4>1. \A d \in Dir : /\ mem'.total[d] = snap[d] + mem.sync[d]
                           /\ mem.total[d] <= snap[d] + mem.sync[d]
        BY <3>2, <2>1, <1>2, ReconcileType
      <4> QED BY <4>1, <2>2
    <3> QED BY <3>1, <3>2
  <2> QED BY <2>1, <2>3, <1>1, <1>2, <1>3
          DEF Lifetime!Observe, Lifetime!Totals, Lifetime!\preceq, Bytes
<1>10. CASE Terminate
  BY <1>3, <1>10 DEF Terminate, Lifetime!vars
<1>11. CASE Save
  <2>1. /\ pc # "off" /\ disk' = mem /\ UNCHANGED <<carried, gained, mem, durable>>
    BY <1>11 DEF Save, AfterSave
  <2> QED BY <1>3, <2>1 DEF Lifetime!Save
<1>12. CASE SaveFails
  <2>1. /\ pc # "off" /\ UNCHANGED <<carried, gained, disk, durable>>
        /\ mem' = IF pc' = "off" THEN disk ELSE mem
    BY <1>12 DEF SaveFails, AfterSave
  <2> QED BY <1>3, <2>1 DEF Lifetime!End, Lifetime!vars
<1>13. CASE Kill
  BY <1>3, <1>13 DEF Kill, Lifetime!End
<1>14. CASE Journal
  BY <1>3, <1>14 DEF Journal, Lifetime!Keep
<1>15. CASE Reboot
  BY <1>3, <1>15 DEF Reboot, Lifetime!PowerLoss
<1>16. CASE UNCHANGED vars
  BY <1>3, <1>16 DEF vars, Lifetime!vars
<1>17. CASE \E d \in Dir : Carry(d)
  BY <1>4, <1>17
<1> QED BY <1>5, <1>6, <1>7, <1>8, <1>9, <1>10, <1>11, <1>12, <1>13, <1>14, <1>15, <1>16, <1>17
        DEF Next, Cycle, Exit, Crash

\* The synchronizer, its state file and its restarts implement a lifetime total that
\* grows as long as the service is up, is bounded by what the counters showed, and falls
\* back to the saved record at the end of a life, to the journalled one with the power.
THEOREM Implementation == Spec => ImplementsLifetime
<1>1. Lifetime!Init /\ [][Lifetime!Next]_(Lifetime!vars) => Lifetime!Spec
  BY DEF Lifetime!Spec
<1> QED BY <1>1, LifetimeInit, LifetimeStep, Soundness, PTL
        DEF Spec, ImplementsLifetime
-----------------------------------------------------------------------------
Count(b) == IF b THEN 1 ELSE 0

\* Re-anchorings that will come although no counter falls again: one for counters
\* read that show a reset, and one for a reset since they were read.
Owed ==
    IF pc = "off" THEN 0
    ELSE IF pc \in {"reconcile", "recheck"}
         THEN Count(Rebooted(mem, snap)) + Count(\E d \in Dir : raw[d] < snap[d])
         ELSE Count(Rebooted(mem, raw))

\* The first start finds no file, so it owes nothing; a later one may load a record
\* from before a re-anchoring and owe it again.
AnchorInv ==
    /\ anchors + Owed <= resets + Restarts
    /\ starts = 0 => pc = "off" /\ mem = FirstRun /\ disk = FirstRun /\ durable = FirstRun

\* At most one anchor is owed to each direction.
LEMMA OwedType == Owed \in 0..2
  BY DEF Owed, Count

\* An anchor is made only where one is owed, and one becomes owed only by a reset or by a
\* start from an older record.
LEMMA AnchorNext == TypeOK /\ TypeOK' /\ AnchorInv /\ [Next]_vars => AnchorInv'
<1> SUFFICES ASSUME TypeOK, TypeOK', AnchorInv, [Next]_vars PROVE AnchorInv'
  OBVIOUS
<1>0. \A d \in Dir : /\ raw[d] \in Nat /\ snap[d] \in Nat /\ raw'[d] \in Nat
                     /\ mem.total[d] \in Nat /\ mem.sync[d] \in Int
  BY RecordType DEF TypeOK, Bytes
<1>1. /\ {anchors, anchors', resets, resets', Restarts, Restarts'} \subseteq Int
      /\ {starts, starts', Owed, Owed'} \subseteq Nat
  <2>1. {Owed, Owed'} \subseteq Nat
    BY DEF Owed, Count
  <2>2. {anchors, anchors', resets, resets', starts, starts'} \subseteq Nat
    BY DEF TypeOK
  <2>3. {Restarts, Restarts'} \subseteq Int
    BY <2>2 DEF Restarts
  <2> QED BY <2>1, <2>2, <2>3
<1> USE DEF kernel, files
<1>2. ASSUME NEW d \in Dir, Carry(d) PROVE AnchorInv'
  <2>1. \A e \in Dir : raw[e] <= raw'[e]
    BY <1>2, <1>0 DEF Carry, TypeOK, Bytes
  <2>2. Rebooted(mem, raw') => Rebooted(mem, raw)
    BY <2>1, <1>0 DEF Rebooted, Live
  <2>3. Owed' <= Owed
    BY <1>2, <2>1, <2>2, <1>0 DEF Owed, Count, Carry, Rebooted, Live
  <2> QED BY <1>2, <2>3, <1>1 DEF Carry, AnchorInv, Restarts
<1>3. CASE InterfaceReset
  <2>1. Owed' <= Owed + 1
    BY <1>3 DEF InterfaceReset, Owed, Count, Rebooted, Live
  <2> QED BY <1>3, <2>1, <1>1 DEF InterfaceReset, AnchorInv, Restarts
<1>12. CASE SelectInterface
  <2>1. \A d \in Dir : raw'[d] \in Nat
    BY <1>12, BoundsAssumption DEF SelectInterface
  <2>2. (\A d \in Dir : raw[d] <= raw'[d]) => (Rebooted(mem, raw') => Rebooted(mem, raw))
    BY <1>0, <2>1 DEF Rebooted, Live
  <2>3. pc' = pc /\ mem' = mem /\ snap' = snap
    BY <1>12 DEF SelectInterface
  <2>4. (\A d \in Dir : raw[d] <= raw'[d]) => Owed' <= Owed
    <3> SUFFICES ASSUME \A d \in Dir : raw[d] <= raw'[d] PROVE Owed' <= Owed
      OBVIOUS
    <3>1. (\E d \in Dir : raw'[d] < snap[d]) => \E d \in Dir : raw[d] < snap[d]
      BY <1>0, <2>1
    <3>2. Rebooted(mem', raw') => Rebooted(mem, raw)
      BY <2>2, <2>3 DEF Rebooted, Live
    <3>3. Rebooted(mem', snap') => Rebooted(mem, snap)
      BY <2>3 DEF Rebooted, Live
    <3> QED BY <2>3, <3>1, <3>2, <3>3 DEF Owed, Count
  <2>5. Owed' <= Owed + 1
    BY <1>12 DEF SelectInterface, Owed, Count, Rebooted, Live
  <2>6. /\ (\A d \in Dir : raw[d] <= raw'[d]) => resets' = resets
        /\ ~(\A d \in Dir : raw[d] <= raw'[d]) => resets' = resets + 1
    BY <1>0, <1>12, <2>1 DEF SelectInterface
  <2>7. anchors + Owed' <= resets' + Restarts
    BY <2>4, <2>5, <2>6, <1>1 DEF AnchorInv
  <2> QED BY <1>12, <2>7 DEF SelectInterface, AnchorInv, Restarts
<1>4. CASE Start
  <2>1. starts = 0 => Owed' = 0
    BY <1>4, <1>0 DEF Start, AnchorInv, Owed, Count, Rebooted, Live, FirstRun, Zero
  <2>2. Owed' <= 1 /\ Owed = 0
    BY <1>4 DEF Start, Owed, Count
  <2>3. Restarts' = IF starts = 0 THEN 0 ELSE Restarts + 1
    BY <1>4, <1>1 DEF Start, Restarts
  <2> QED BY <1>4, <2>1, <2>2, <2>3, <1>1 DEF Start, AnchorInv, Restarts
<1>5. CASE ReadCounters \/ ReadAgain
  <2>1. Owed' <= Owed
    BY <1>5, <1>0 DEF ReadCounters, ReadAgain, Owed, Count, Rebooted, Live
  <2> QED BY <1>5, <2>1, <1>1 DEF ReadCounters, ReadAgain, AnchorInv, Restarts
<1>6. CASE Reconcile
  <2>1. snap \in Bytes /\ mem \in Record /\ mem' = reconcile(mem, snap) /\ raw' = raw
    BY <1>6 DEF Reconcile, TypeOK
  <2>2. \A d \in Dir : mem'.total[d] = snap[d] + mem'.sync[d]
    BY <2>1, <1>0, ReconcileType
  <2>3. \A d \in Dir : mem'.sync[d] \in Int
    BY RecordType DEF TypeOK
  <2>4. Rebooted(mem', raw') => \E d \in Dir : raw[d] < snap[d]
    BY <2>1, <2>2, <2>3, <1>0 DEF Rebooted, Live
  <2>5. pc' \in {"upload", "save"}
    BY <1>6 DEF Reconcile
  <2>6. Owed' = Count(Rebooted(mem', raw'))
    BY <2>5 DEF Owed, Rebooted, Live
  <2>7. Owed = Count(Rebooted(mem, snap)) + Count(\E d \in Dir : raw[d] < snap[d])
    BY <1>6 DEF Reconcile, Owed
  <2>8. anchors' = anchors + Count(Rebooted(mem, snap))
    BY <1>6, <1>1 DEF Reconcile, Count
  <2>9. anchors' + Owed' <= anchors + Owed
    BY <2>4, <2>6, <2>7, <2>8, <1>1 DEF Count
  <2> QED BY <1>6, <2>9, <1>1 DEF Reconcile, AnchorInv, Restarts
<1>7. CASE SkipRecheck \/ Panic
  BY <1>7, <1>1 DEF SkipRecheck, Panic, AnchorInv, Restarts, Owed, Count, Rebooted, Live
<1>8. CASE Exit
  <2>1. Owed' <= Owed
    BY <1>8 DEF Exit, Terminate, Save, SaveFails, AfterSave, Owed, Count, Rebooted, Live
  <2> QED BY <1>8, <2>1, <1>1 DEF Exit, Terminate, Save, SaveFails, AfterSave, AnchorInv, Restarts
<1>9. CASE Kill \/ Reboot
  <2>1. pc' = "off" /\ resets' \in {resets, resets + 1} /\ UNCHANGED <<starts, anchors>>
    BY <1>9 DEF Kill, Reboot
  <2>2. Owed' = 0 /\ Restarts' = Restarts
    BY <2>1 DEF Owed, Restarts
  <2>3. anchors' + Owed' <= resets' + Restarts'
    BY <2>1, <2>2, <1>1 DEF AnchorInv
  <2>4. starts = 0 => mem' = FirstRun /\ disk' = FirstRun /\ durable' = FirstRun
    BY <1>9 DEF Kill, Reboot, AnchorInv
  <2> QED BY <2>1, <2>3, <2>4 DEF AnchorInv
<1>10. CASE Journal
  BY <1>10, <1>1 DEF Journal, AnchorInv, Restarts, Owed, Count, Rebooted, Live
<1>11. CASE UNCHANGED vars
  BY <1>11 DEF vars, AnchorInv, Restarts, Owed, Count, Rebooted, Live
<1> QED BY <1>2, <1>3, <1>4, <1>5, <1>6, <1>7, <1>8, <1>9, <1>10, <1>11, <1>12
        DEF Next, Cycle, Crash

\* No reset of the counters is detected twice within one life of the process; only a
\* restart may detect one again (Engine.reconcile, state.Load).
THEOREM AnchorsAreDue == Spec => []OneAnchorPerReset
<1>1. Init => AnchorInv
  <2> SUFFICES ASSUME Init PROVE AnchorInv
    OBVIOUS
  <2> QED BY DEF Init, AnchorInv, Owed, Count, Restarts
<1>2. TypeOK /\ AnchorInv => OneAnchorPerReset
  BY OwedType DEF TypeOK, AnchorInv, OneAnchorPerReset, Restarts
<1> QED BY <1>1, <1>2, AnchorNext, TypeCorrect, PTL DEF Spec

-----------------------------------------------------------------------------
(* Tracking: two writers.                                                  *)

\* What the control of the engine says of its locals: outside a reconcile they are
\* fresh, a total is advanced only to a value that was compared with one, a record is
\* renamed when it is whole, and no reading is ahead of the traffic.
StageInv ==
    /\ ~Reconciling => stage = <<"live", "up">>
    /\ stage = <<"compare", "down">> => live["up"] >= 0
    /\ stage[1] = "advance" => \A d \in Dir : live[d] >= 0
    /\ marshalled.n > 0 => pc \in DOMAIN AfterSave
    /\ web.at \notin {"save", "rename"} => web.buf.n = 0
    /\ web.at = "save" => web.buf.n < Whole
    /\ web.at = "rename" => web.buf.n = Whole
    /\ pc = "off" => web.at = "none" /\ mem = disk
    /\ \A d \in Dir : /\ raw[d] <= carried[d]
                      /\ snap[d] <= carried[d]
                      /\ web.since[d] <= carried[d]

TypeInv == TTypeOK /\ StageInv

\* A buffer is a count and a record, and starts out blank.
LEMMA BufferParts ==
    /\ \A b \in Buffers : b.n \in 0..4 /\ b.rec \in Record
    /\ Blank \in Buffers /\ Blank.n = 0 /\ Whole = 4
<1>1. FirstRun \in Record
  BY DEF FirstRun, Record, Bytes, Zero
<1> QED BY <1>1 DEF Buffers, Blank, Whole

\* Copying one more field leaves a buffer.
LEMMA CopiedType ==
    ASSUME NEW b \in Buffers, b.n < Whole, mem \in Record
    PROVE  /\ Copied(b) \in Buffers /\ Copied(b).n = b.n + 1
           /\ \A d \in Dir : /\ Copied(b).rec.total[d]
                                 = IF TotalAt[d] = b.n THEN mem.total[d] ELSE b.rec.total[d]
                             /\ Copied(b).rec.sync[d]
                                 = IF SyncAt[d] = b.n THEN mem.sync[d] ELSE b.rec.sync[d]
<1> DEFINE t == [d \in Dir |-> IF TotalAt[d] = b.n THEN mem.total[d] ELSE b.rec.total[d]]
           y == [d \in Dir |-> IF SyncAt[d] = b.n THEN mem.sync[d] ELSE b.rec.sync[d]]
<1>1. b.n \in 0..4 /\ b.rec \in Record /\ Whole = 4
  BY BufferParts
<1>2. t \in Bytes /\ y \in [Dir -> Int]
  BY <1>1, RecordType DEF Bytes
<1>3. Copied(b) = [n |-> b.n + 1, rec |-> [total |-> t, sync |-> y]]
  BY DEF Copied
<1>4. \A d \in Dir : /\ t[d] = (IF TotalAt[d] = b.n THEN mem.total[d] ELSE b.rec.total[d])
                     /\ y[d] = (IF SyncAt[d] = b.n THEN mem.sync[d] ELSE b.rec.sync[d])
  OBVIOUS
<1> HIDE DEF t, y
<1>5. [total |-> t, sync |-> y] \in Record /\ b.n + 1 \in 0..Whole
  BY <1>1, <1>2 DEF Record
<1> QED BY <1>3, <1>4, <1>5 DEF Buffers

\* The assignment of one offset leaves the other three fields alone.
LEMMA OffsetWritten ==
    ASSUME NEW s \in Record, NEW d \in Dir, NEW v \in Int, NEW t,
           t = [s EXCEPT !.sync[d] = v]
    PROVE  /\ t \in Record
           /\ t.total = s.total
           /\ \A e \in Dir : t.sync[e] = IF e = d THEN v ELSE s.sync[e]
<1>1. s = [total |-> s.total, sync |-> s.sync] /\ s.total \in Bytes /\ s.sync \in [Dir -> Int]
  BY RecordType
<1>2. t = [total |-> s.total, sync |-> [s.sync EXCEPT ![d] = v]]
  BY <1>1
<1>3. [s.sync EXCEPT ![d] = v] \in [Dir -> Int]
  BY <1>1
<1> QED BY <1>1, <1>2, <1>3 DEF Record

\* So does the assignment of one total.
LEMMA TotalAssigned ==
    ASSUME NEW s \in Record, NEW d \in Dir, NEW v \in Nat, NEW t,
           t = [s EXCEPT !.total[d] = v]
    PROVE  /\ t \in Record
           /\ t.sync = s.sync
           /\ \A e \in Dir : t.total[e] = IF e = d THEN v ELSE s.total[e]
<1>1. s = [total |-> s.total, sync |-> s.sync] /\ s.total \in Bytes /\ s.sync \in [Dir -> Int]
  BY RecordType
<1>2. t = [total |-> [s.total EXCEPT ![d] = v], sync |-> s.sync]
  BY <1>1
<1>3. [s.total EXCEPT ![d] = v] \in Bytes
  BY <1>1 DEF Bytes
<1> QED BY <1>1, <1>2, <1>3 DEF Record, Bytes

\* The variables with a type of more than one part, taken apart.
LEMMA Parts ==
    ASSUME TTypeOK
    PROVE  /\ web = [at |-> web.at, want |-> web.want, raw |-> web.raw, read |-> web.read,
                     since |-> web.since, buf |-> web.buf]
           /\ web.at \in Steps /\ web.buf \in Buffers /\ web.read \in Nat
           /\ web.want \in Bytes /\ web.raw \in Bytes /\ web.since \in Bytes
           /\ mem \in Record /\ disk \in Record /\ durable \in Record
           /\ \A d \in Dir : /\ web.want[d] \in Nat /\ web.raw[d] \in Nat
                             /\ web.since[d] \in Nat /\ live[d] \in Int
                             /\ raw[d] \in Nat /\ snap[d] \in Nat /\ carried[d] \in Nat
                             /\ mem.total[d] \in Nat /\ mem.sync[d] \in Int
           /\ marshalled \in Buffers
           /\ claim # None => claim.want \in Bytes /\ claim.since \in Bytes
<1>1. web \in [at : Steps, want : Bytes, raw : Bytes, read : Nat, since : Bytes,
              buf : Buffers]
  BY DEF TTypeOK
<1>2. mem \in Record /\ disk \in Record /\ durable \in Record
  BY DEF TTypeOK, TypeOK
<1>3. \A d \in Dir : live[d] \in Int /\ raw[d] \in Nat /\ snap[d] \in Nat /\ carried[d] \in Nat
  BY DEF TTypeOK, TypeOK, Bytes
<1>4. \A d \in Dir : mem.total[d] \in Nat /\ mem.sync[d] \in Int
  BY <1>2, RecordType
<1>5. \A d \in Dir : /\ web.want[d] \in Nat /\ web.raw[d] \in Nat
                     /\ web.since[d] \in Nat
  BY <1>1 DEF Bytes
<1>6. marshalled \in Buffers
  BY DEF TTypeOK
<1>7. claim # None => claim.want \in Bytes /\ claim.since \in Bytes
  BY DEF TTypeOK
<1> QED BY <1>1, <1>2, <1>3, <1>4, <1>5, <1>6, <1>7

-----------------------------------------------------------------------------
\* Nothing is in flight in the initial state.
LEMMA TrackingTypeInit == TInit => TypeInv
<1> SUFFICES ASSUME TInit PROVE TypeInv
  OBVIOUS
<1>1. FirstRun \in Record /\ Zero \in Bytes /\ Idle.at = "none" /\ Idle.since = Zero
  BY DEF FirstRun, Record, Bytes, Zero, Idle
<1>2. raw \in Bytes
  BY BoundsAssumption DEF TInit, Init, Bytes
<1>3. TypeOK
  BY <1>1, <1>2 DEF TInit, Init, TypeOK, PC
<1>4. Idle \in [at : Steps, want : Bytes, raw : Bytes, read : Nat, since : Bytes,
              buf : Buffers]
  BY <1>1, BufferParts DEF Idle, Steps
<1>5. TTypeOK
  BY <1>1, <1>3, <1>4, BufferParts DEF TInit, TTypeOK, Dir, Zero
<1>6. StageInv
  BY <1>1, <1>2, BufferParts DEF TInit, Init, StageInv, Reconciling, Zero, Bytes, Idle
<1> QED BY <1>5, <1>6 DEF TypeInv

\* Traffic, a reset of the counters and a cycle without an upload.
LEMMA TypeUnshared == TypeInv /\ (Unshared \/ TStart) => TypeInv'
<1> SUFFICES ASSUME TypeInv, Unshared \/ TStart PROVE TypeInv'
  OBVIOUS
<1> USE Parts DEF TypeInv, kernel, files, dashboard, engine
<1>1. UNCHANGED <<stage, live, marshalled, web, requests, claim, clean>>
  BY DEF Unshared, TStart
<1>2. ASSUME NEW d \in Dir, Carry(d) PROVE TypeInv'
  <2>1. raw' \in Bytes /\ carried' \in Bytes
    BY <1>2 DEF Carry, Bytes, TTypeOK, TypeOK
  <2>2. TTypeOK'
    BY <1>1, <1>2, <2>1 DEF Carry, TTypeOK, TypeOK
  <2>3. \A e \in Dir : /\ raw'[e] <= carried'[e] /\ carried[e] <= carried'[e]
                       /\ carried'[e] \in Nat
    BY <1>2 DEF Carry, StageInv, TTypeOK, TypeOK, Bytes
  <2>4. StageInv'
    BY <1>1, <1>2, <2>3 DEF Carry, StageInv, Reconciling
  <2> QED BY <2>2, <2>4
<1>3. CASE InterfaceReset
  <2>1. raw' \in Bytes /\ \A e \in Dir : raw'[e] <= raw[e] /\ raw'[e] \in Nat
    BY <1>3, BoundsAssumption DEF InterfaceReset, Bytes
  <2>2. TTypeOK'
    BY <1>1, <1>3, <2>1 DEF InterfaceReset, TTypeOK, TypeOK
  <2>3. StageInv'
    BY <1>1, <1>3, <2>1 DEF InterfaceReset, StageInv, Reconciling
  <2> QED BY <2>2, <2>3
<1>4. CASE SkipRecheck
  <2>1. TTypeOK'
    BY <1>1, <1>4 DEF SkipRecheck, TTypeOK, TypeOK, PC
  <2>2. StageInv'
    BY <1>1, <1>4 DEF SkipRecheck, StageInv, Reconciling, AfterSave
  <2> QED BY <2>1, <2>2
<1>5. CASE Start
  <2>1. TTypeOK'
    BY <1>1, <1>5 DEF Start, TTypeOK, TypeOK, PC
  <2>2. StageInv'
    BY <1>1, <1>5 DEF Start, StageInv, Reconciling, AfterSave
  <2> QED BY <2>1, <2>2
<1> QED BY <1>2, <1>3, <1>4, <1>5 DEF Unshared, TStart

\* The engine's reads, comparisons and writes, one field at a time.
LEMMA TypeReconcile ==
    ASSUME TypeInv, NEW d \in Dir,
           TReadCounters \/ ComputeLive(d) \/ Compare(d) \/ Anchor(d) \/ Store(d) \/ Advance(d)
    PROVE  TypeInv'
<1> USE Parts DEF TypeInv, kernel, files, dashboard, engine
<1>0. Zero \in Bytes
  BY DEF Zero, Bytes
<1>1. CASE TReadCounters
  <2>1. TTypeOK'
    BY <1>1 DEF TReadCounters, ReadCounters, ReadAgain, TTypeOK, TypeOK, PC
  <2>2. stage = <<"live", "up">>
    BY <1>1 DEF TReadCounters, ReadCounters, ReadAgain, StageInv, Reconciling
  <2>3. marshalled.n = 0
    BY <1>1, BufferParts DEF TReadCounters, ReadCounters, ReadAgain, StageInv, AfterSave
  <2>4. StageInv'
    BY <1>1, <2>2, <2>3 DEF TReadCounters, ReadCounters, ReadAgain, StageInv
  <2> QED BY <2>1, <2>4
<1>2. CASE ComputeLive(d)
  <2>1. live' \in [Dir -> Int] /\ stage' \in {<<"live", "down">>, <<"compare", "up">>}
    BY <1>2 DEF ComputeLive, TTypeOK
  <2>2. TTypeOK'
    BY <1>2, <2>1 DEF ComputeLive, TTypeOK, TypeOK, vars, Dir
  <2>3. StageInv'
    BY <1>2, <2>1 DEF ComputeLive, At, StageInv, Reconciling, vars
  <2> QED BY <2>2, <2>3
<1>3. CASE Compare(d)
  <2>1. stage' \in {<<"anchor", "up">>, <<"compare", "down">>, <<"advance", "up">>}
    BY <1>3 DEF Compare
  <2>2. TTypeOK'
    BY <1>3, <2>1 DEF Compare, TTypeOK, TypeOK, vars, Dir
  <2>3. stage' = <<"compare", "down">> => live["up"] >= 0
    BY <1>3 DEF Compare, At, Dir
  <2>4. stage' = <<"advance", "up">> => live["up"] >= 0 /\ live["down"] >= 0
    BY <1>3 DEF Compare, At, Dir, StageInv
  <2>5. StageInv'
    BY <1>3, <2>1, <2>3, <2>4 DEF Compare, At, StageInv, Reconciling, vars, Dir
  <2> QED BY <2>2, <2>5
<1>4. ASSUME NEW op \in {"anchor", "advance"}, Reconciling, stage[1] \in {op, "store"},
             stage[1] = "store" => op = "anchor", Return(op, d), mem' \in Record,
             UNCHANGED <<kernel, files, starts, anchors, dashboard, marshalled>>
      PROVE  TypeInv'
  <2>1. stage' \in {<<op, "down">>, <<"live", "up">>} /\ pc \in {"reconcile", "recheck"}
    BY <1>4 DEF Return, Reconciling
  <2>2. /\ live' \in [Dir -> Int] /\ snap' \in Bytes /\ pc' \in PC /\ pc' # "off"
        /\ live' \in {live, Zero} /\ snap' \in {snap, Zero}
    BY <1>0, <1>4, <2>1 DEF Return, TTypeOK, TypeOK, PC, Bytes
  <2>3. TTypeOK'
    BY <1>4, <2>1, <2>2 DEF TTypeOK, TypeOK, Dir
  <2>4. marshalled.n = 0
    BY <2>1, BufferParts DEF StageInv, AfterSave
  <2>5. \A e \in Dir : snap'[e] <= carried[e]
    BY <2>2 DEF StageInv, Zero
  <2>6. ~Reconciling' => stage' = <<"live", "up">>
    BY <1>4, <2>1 DEF Return, Reconciling
  <2>7. stage'[1] = "advance" => \A e \in Dir : live'[e] >= 0
    BY <1>4, <2>1, <2>2 DEF Return, StageInv, Zero
  <2>8. stage' # <<"compare", "down">>
    BY <2>1
  <2> QED BY <1>4, <2>2, <2>3, <2>4, <2>5, <2>6, <2>7, <2>8 DEF StageInv
<1>5. CASE Store(d)
  <2>0. live[d] - snap[d] \in Int
    OBVIOUS
  <2>1. mem' \in Record
    BY <1>5, <2>0, OffsetWritten DEF Store
  <2> QED BY <1>4, <1>5, <2>1 DEF Store, At
<1>7. CASE Anchor(d)
  <2>1. live' \in [Dir -> Int] /\ stage' = <<"store", d>> /\ Reconciling
    BY <1>7 DEF Anchor, At, TTypeOK
  <2>2. TTypeOK'
    BY <1>7, <2>1 DEF Anchor, TTypeOK, TypeOK, vars, Dir
  <2>3. StageInv'
    BY <1>7, <2>1 DEF Anchor, StageInv, Reconciling, vars
  <2> QED BY <2>2, <2>3
<1>6. CASE Advance(d)
  <2>1. live[d] \in Nat
    BY <1>6 DEF Advance, At, StageInv
  <2>2. mem' \in Record
    BY <1>6, <2>1, TotalAssigned DEF Advance
  <2> QED BY <1>4, <1>6, <2>2 DEF Advance, At
<1> QED BY <1>1, <1>2, <1>3, <1>5, <1>6, <1>7

\* The engine's saves, its end and its crashes.
LEMMA TypeEngine ==
    ASSUME TypeInv, Marshal \/ Rename \/ TPanic \/ TTerminate \/ TSaveFails \/ TKill
    PROVE  TypeInv'
<1> USE Parts DEF TypeInv, kernel, files, dashboard, engine
<1>0. /\ Zero \in Bytes /\ Idle.at = "none" /\ Idle.since = Zero
      /\ Idle \in [at : Steps, want : Bytes, raw : Bytes, read : Nat, since : Bytes,
              buf : Buffers]
  BY BufferParts DEF Zero, Bytes, Idle, Steps
<1>1. /\ \A q \in DOMAIN AfterSave : AfterSave[q] \in {"idle", "exiting", "off"}
      /\ DOMAIN AfterSave = {"save", "stopping", "exiting"}
      /\ AfterSave["exiting"] = "off" /\ AfterSave["save"] = "idle"
      /\ AfterSave["stopping"] = "exiting"
  BY DEF AfterSave
<1>2. CASE Marshal
  <2>1. marshalled' \in Buffers
    BY <1>2, CopiedType DEF Marshal
  <2>2. TTypeOK'
    BY <1>2, <2>1 DEF Marshal, vars, TTypeOK, TypeOK
  <2>3. StageInv'
    BY <1>2 DEF Marshal, vars, StageInv, Reconciling
  <2> QED BY <2>2, <2>3
<1>3. CASE Rename
  <2>1. /\ pc \in {"save", "stopping", "exiting"} /\ pc' = AfterSave[pc]
        /\ disk' = marshalled.rec /\ disk' \in Record /\ marshalled' = Blank
        /\ stage = <<"live", "up">> /\ web' \in {web, Idle}
    BY <1>1, <1>3, BufferParts DEF Rename, StageInv, Reconciling
  <2>2. mem' \in Record /\ pc' \in {"idle", "exiting", "off"}
    BY <1>1, <1>3, <2>1 DEF Rename
  <2>3. TTypeOK'
    BY <1>0, <1>3, <2>1, <2>2, BufferParts DEF Rename, TTypeOK, TypeOK, PC
  <2>4. pc' = "off" => web'.at = "none" /\ mem' = disk'
    BY <1>0, <1>3 DEF Rename
  <2>5. \A e \in Dir : web'.since[e] <= carried[e]
    BY <1>0, <2>1 DEF StageInv, Zero
  <2>6. StageInv'
    BY <1>3, <2>1, <2>2, <2>4, <2>5, BufferParts DEF Rename, StageInv, Reconciling, Idle
  <2> QED BY <2>3, <2>6
<1>4. CASE TPanic \/ TTerminate
  <2>1. pc' \in {"idle", "stopping"} /\ pc \in {"upload", "save", "idle"}
        /\ marshalled' = marshalled /\ (pc # "idle" => marshalled = Blank)
    BY <1>4 DEF TPanic, TTerminate, Panic, Terminate
  <2>2. marshalled'.n = 0
    BY <1>1, <2>1, BufferParts DEF StageInv
  <2>3. UNCHANGED <<raw, carried, gained, resets, snap, mem, disk, durable, starts, anchors, web,
                    requests, claim, clean, stage, live>>
    BY <1>4 DEF TPanic, TTerminate, Panic, Terminate
  <2>4. TTypeOK'
    BY <2>1, <2>2, <2>3 DEF TTypeOK, TypeOK, PC
  <2>5. StageInv'
    BY <2>1, <2>2, <2>3, BufferParts DEF StageInv, Reconciling
  <2> QED BY <2>4, <2>5
<1>5. CASE TSaveFails
  <2>1. /\ pc \in {"save", "stopping", "exiting"} /\ pc' = AfterSave[pc]
        /\ pc' \in {"idle", "exiting", "off"}
        /\ stage = <<"live", "up">> /\ web' \in {web, Idle} /\ mem' \in {mem, disk}
    BY <1>1, <1>5 DEF TSaveFails, SaveFails, StageInv, Reconciling
  <2>2. TTypeOK'
    BY <1>0, <1>5, <2>1, BufferParts DEF TSaveFails, SaveFails, TTypeOK, TypeOK, PC
  <2>3. pc' = "off" => web'.at = "none" /\ mem' = disk'
    BY <1>0, <1>5 DEF TSaveFails, SaveFails
  <2>4. \A e \in Dir : web'.since[e] <= carried[e]
    BY <1>0, <2>1 DEF StageInv, Zero
  <2>5. StageInv'
    BY <1>5, <2>1, <2>3, <2>4, BufferParts DEF TSaveFails, SaveFails, StageInv, Reconciling, Idle
  <2> QED BY <2>2, <2>5
<1>6. CASE TKill
  <2>0. web' = Idle /\ marshalled' = Blank /\ stage' = <<"live", "up">> /\ live' = Zero
    BY <1>6 DEF TKill
  <2>1. TTypeOK'
    BY <1>0, <1>6, <2>0, BufferParts DEF TKill, Kill, TTypeOK, TypeOK, PC, Dir, Bytes
  <2>2. \A e \in Dir : web'.since[e] <= carried[e] /\ snap'[e] <= carried[e] /\ raw[e] <= carried[e]
    BY <1>0, <1>6 DEF TKill, Kill, StageInv, Zero
  <2>3. StageInv'
    BY <1>0, <1>6, <2>2, BufferParts DEF TKill, Kill, StageInv, Reconciling, Idle
  <2> QED BY <2>1, <2>3
<1> QED BY <1>2, <1>3, <1>4, <1>5, <1>6

\* A handler asks for natural amounts, so that its sums are totals.
LEMMA TypeDashboard == TypeInv /\ Dashboard => TypeInv'
<1> SUFFICES ASSUME TypeInv, Dashboard PROVE TypeInv'
  OBVIOUS
<1> USE Parts DEF TypeInv, kernel, files, dashboard, engine
<1>0. /\ Zero \in Bytes /\ Idle.at = "none" /\ Idle.since = Zero
      /\ Idle \in [at : Steps, want : Bytes, raw : Bytes, read : Nat, since : Bytes,
              buf : Buffers]
  BY BufferParts DEF Zero, Bytes, Idle, Steps
<1>1. ASSUME NEW kind \in Kinds, Request(kind) PROVE TypeInv'
  <2>1. PICK w \in Bytes :
           web' = [Idle EXCEPT !.at = kind, !.want = w, !.raw = raw,
                               !.since = IF Reconciling THEN snap ELSE carried]
    BY <1>0, <1>1, AmountsAssumption DEF Request, Bytes
  <2>2. PICK t \in Bytes : t \in {snap, carried} /\ t = IF Reconciling THEN snap ELSE carried
    BY DEF TTypeOK, TypeOK
  <2>3. web' = [at |-> kind, want |-> w, raw |-> raw, read |-> 0, since |-> t, buf |-> Blank]
    BY <2>1, <2>2 DEF Idle
  <2>4. web' \in [at : Steps, want : Bytes, raw : Bytes, read : Nat, since : Bytes,
              buf : Buffers]
    BY <2>3, BufferParts DEF Steps, Kinds, TTypeOK, TypeOK
  <2>5. /\ requests' \in [Kinds -> Nat] /\ claim' = None /\ clean' \in BOOLEAN
        /\ UNCHANGED <<vars, stage, live, marshalled>> /\ pc # "off"
    BY <1>1 DEF Request, TTypeOK
  <2>6. TTypeOK'
    BY <2>4, <2>5 DEF vars, TTypeOK, TypeOK
  <2>7. \A e \in Dir : web'.since[e] <= carried[e]
    BY <2>2, <2>3 DEF StageInv
  <2>8. StageInv'
    BY <2>3, <2>5, <2>7, BufferParts DEF vars, StageInv, Reconciling, Kinds
  <2> QED BY <2>6, <2>8
<1>2. ASSUME NEW from \in Steps \ {"none", "save", "rename"}, NEW to \in Steps \ {"rename"},
             NEW x \in Nat, NEW r \in Bytes, web.at = from,
             web' = [web EXCEPT !.at = to, !.raw = r, !.read = x], Quiet, mem' \in Record,
             UNCHANGED <<kernel, pc, snap, files, starts, anchors, requests, claim, stage,
                         live, marshalled>>
      PROVE  TypeInv'
  <2>2. web' = [at |-> to, want |-> web.want, raw |-> r, read |-> x, since |-> web.since,
                buf |-> web.buf]
    BY <1>2
  <2>3. TTypeOK'
    BY <1>2, <2>2 DEF Quiet, TTypeOK, TypeOK
  <2>4. pc # "off" /\ web'.since = web.since /\ web'.buf.n = 0
    BY <1>2, <2>2 DEF StageInv
  <2>5. StageInv'
    BY <1>2, <2>2, <2>4, BufferParts DEF StageInv, Reconciling
  <2> QED BY <2>3, <2>5
<1>3. ASSUME NEW d \in Dir, NEW from \in Steps \ {"none", "save", "rename"},
             NEW to \in Steps \ {"rename"},
             \/ WriteTotal(d, from, to)
             \/ WriteSync(d, from, to)
             \/ WriteSyncFromTotal(d, from, to)
      PROVE  TypeInv'
  <2>1. /\ web.want[d] \in Nat /\ -web.raw[d] \in Int /\ web.read - web.raw[d] \in Int
        /\ mem \in Record
    OBVIOUS
  <2>2. ASSUME WriteTotal(d, from, to) PROVE mem' \in Record
    BY <2>1, <2>2, TotalAssigned DEF WriteTotal
  <2>3. ASSUME WriteSync(d, from, to) PROVE mem' \in Record
    BY <2>1, <2>3, OffsetWritten DEF WriteSync
  <2>4. ASSUME WriteSyncFromTotal(d, from, to) PROVE mem' \in Record
    BY <2>1, <2>4, OffsetWritten DEF WriteSyncFromTotal
  <2>5. mem' \in Record
    BY <1>3, <2>2, <2>3, <2>4
  <2>6. web.at = from /\ \E r \in Bytes : web' = [web EXCEPT !.at = to, !.raw = r, !.read = 0]
    BY <1>0, <1>3 DEF WriteTotal, WriteSync, WriteSyncFromTotal, Handle
  <2> QED BY <1>2, <1>3, <2>5, <2>6 DEF WriteTotal, WriteSync, WriteSyncFromTotal
<1>8. ASSUME NEW d \in Dir, NEW from \in Steps \ {"none", "save", "rename"},
             NEW to \in Steps \ {"rename"}, ReadTotal(d, from, to)
      PROVE  TypeInv'
  <2>1. PICK x \in Nat, r \in Bytes : x = mem.total[d] /\ r = web.raw
    OBVIOUS
  <2>2. /\ web' = [web EXCEPT !.at = to, !.raw = r, !.read = x] /\ Quiet /\ mem' = mem
        /\ web.at = from
        /\ UNCHANGED <<kernel, pc, snap, files, starts, anchors, requests, claim, stage,
                       live, marshalled>>
    BY <1>8, <2>1 DEF ReadTotal, vars
  <2> QED BY <1>2, <2>2
<1>4. CASE WebMarshal
  <2>1. PICK to \in {"save", "rename"} :
           /\ to = IF web.buf.n + 1 = Whole THEN "rename" ELSE "save"
           /\ web' = [at |-> to, want |-> web.want, raw |-> web.raw, read |-> web.read,
                      since |-> web.since, buf |-> Copied(web.buf)]
    BY <1>4 DEF WebMarshal
  <2>2. UNCHANGED <<vars, requests, claim, stage, live, marshalled>> /\ pc # "off"
    BY <1>4 DEF WebMarshal, StageInv
  <2>3. web.buf.n < Whole
    BY <1>4 DEF WebMarshal, StageInv
  <2>4. Copied(web.buf) \in Buffers /\ Copied(web.buf).n = web.buf.n + 1
    BY <2>3, CopiedType
  <2>5. TTypeOK'
    BY <1>4, <2>1, <2>2, <2>4 DEF WebMarshal, Quiet, vars, TTypeOK, TypeOK, Steps
  <2>6. StageInv'
    BY <2>1, <2>2, <2>3, <2>4, BufferParts DEF vars, StageInv, Reconciling
  <2> QED BY <2>5, <2>6
<1>5. CASE WebAnswer \/ WebSaveFails
  <2>1. /\ web' = Idle /\ disk' \in Record /\ web.at \in {"save", "rename"}
        /\ UNCHANGED <<kernel, pc, snap, mem, durable, starts, anchors, requests, stage,
                       live, marshalled>>
    BY <1>5, BufferParts DEF WebAnswer, WebSaveFails, vars
  <2>2. clean' \in BOOLEAN
    BY <1>5 DEF WebAnswer, WebSaveFails, Quiet, TTypeOK
  <2>3. claim' \in {None} \cup [kind : {"claim"}, want : Bytes, since : Bytes]
    BY <1>5 DEF WebAnswer, WebSaveFails, TTypeOK
  <2>4. TTypeOK'
    BY <1>0, <2>1, <2>2, <2>3 DEF TTypeOK, TypeOK
  <2>5. pc # "off" /\ \A e \in Dir : web'.since[e] <= carried[e]
    BY <1>0, <2>1 DEF StageInv, Zero
  <2>6. StageInv'
    BY <2>1, <2>5, BufferParts DEF StageInv, Reconciling, Idle
  <2> QED BY <2>4, <2>6
<1>6. CASE Reset
  BY <1>1, <1>3, <1>6 DEF Reset, Steps, Dir, Kinds
<1>7. CASE SetSync
  BY <1>1, <1>3, <1>7, <1>8 DEF SetSync, Steps, Dir, Kinds
<1> QED BY <1>4, <1>5, <1>6, <1>7 DEF Dashboard

\* No step of the engine, the dashboard or the machine breaks a type or the stage of a
\* reconcile.
LEMMA TrackingTypeNext == TypeInv /\ [TNext]_trackingVars => TypeInv'
<1>1. TypeInv /\ UNCHANGED trackingVars => TypeInv'
  BY DEF trackingVars, vars, dashboard, engine, TypeInv, TTypeOK, TypeOK, StageInv, Reconciling
<1> QED BY <1>1, TypeUnshared, TypeReconcile, TypeEngine, TypeDashboard
        DEF TNext, EngineCycle, Dir

\* Every variable has its type whatever the engine and the dashboard write over each
\* other: a total is never negative, although an offset may be.
THEOREM TrackingTypeCorrect == TSpec => []TTypeOK
<1> QED BY TrackingTypeInit, TrackingTypeNext, PTL DEF TSpec, TypeInv
-----------------------------------------------------------------------------
\* Neither the totals of a record nor what the counters would make of them exceed B.
Within(s, B) == \A d \in Dir : s.total[d] <= B[d] /\ raw[d] + s.sync[d] <= B[d]

\* Nor does what a Save has copied of a record.
WithinSoFar(b, B) ==
    \A d \in Dir : /\ b.n > TotalAt[d] => b.rec.total[d] <= B[d]
                   /\ b.n > SyncAt[d] => raw[d] + b.rec.sync[d] <= B[d]

\* The reconcile in progress has computed its live value of direction d.
Computed(d) == stage[1] # "live" \/ (d = "up" /\ stage = <<"live", "down">>)

\* Nor does anything the engine has in memory, on disk or in flight: a reading older
\* than the counters, a live value not yet written, a record not yet renamed.
EngineWithin(B) ==
    /\ Within(mem, B) /\ Within(disk, B)
    /\ WithinSoFar(marshalled, B)
    /\ Reconciling => \A d \in Dir :
          /\ snap[d] + mem.sync[d] <= B[d]
          /\ mem.total[d] + raw[d] - snap[d] <= B[d]
          /\ Computed(d) => live[d] <= B[d] /\ live[d] + raw[d] - snap[d] <= B[d]

\* A blank buffer holds nothing, and a whole one a record.
LEMMA BlankAndWhole ==
    ASSUME NEW B \in [Dir -> Int], NEW b \in Buffers
    PROVE  /\ b.n = 0 => WithinSoFar(b, B)
           /\ b.n = Whole /\ WithinSoFar(b, B) => Within(b.rec, B)
<1>1. \A d \in Dir : TotalAt[d] \in 0..3 /\ SyncAt[d] \in 0..3
  BY DEF TotalAt, SyncAt, Dir
<1> QED BY <1>1, BufferParts DEF WithinSoFar, Within

\* The field a Save copies next is within the bounds of the record in memory.
LEMMA CopiedWithin ==
    ASSUME NEW B \in [Dir -> Int], NEW b \in Buffers, b.n < Whole, mem \in Record,
           WithinSoFar(b, B), Within(mem, B)
    PROVE  WithinSoFar(Copied(b), B)
<1>1. \A d \in Dir : TotalAt[d] \in 0..3 /\ SyncAt[d] \in 0..3
  BY DEF TotalAt, SyncAt, Dir
<1>2. PICK c \in Buffers : c = Copied(b)
  BY CopiedType
<1>3. /\ c.n = b.n + 1 /\ b.n \in 0..4
      /\ \A d \in Dir : /\ c.rec.total[d] = IF TotalAt[d] = b.n THEN mem.total[d] ELSE b.rec.total[d]
                        /\ c.rec.sync[d] = IF SyncAt[d] = b.n THEN mem.sync[d] ELSE b.rec.sync[d]
  BY <1>2, CopiedType, BufferParts
<1>4. ASSUME NEW d \in Dir, c.n > TotalAt[d] PROVE c.rec.total[d] <= B[d]
  <2>1. CASE TotalAt[d] = b.n
    BY <1>3, <2>1 DEF Within
  <2>2. CASE TotalAt[d] # b.n
    BY <1>1, <1>3, <1>4, <2>2 DEF WithinSoFar
  <2> QED BY <2>1, <2>2
<1>5. ASSUME NEW d \in Dir, c.n > SyncAt[d] PROVE raw[d] + c.rec.sync[d] <= B[d]
  <2>1. CASE SyncAt[d] = b.n
    BY <1>3, <2>1 DEF Within
  <2>2. CASE SyncAt[d] # b.n
    BY <1>1, <1>3, <1>5, <2>2 DEF WithinSoFar
  <2> QED BY <2>1, <2>2
<1> QED BY <1>2, <1>4, <1>5 DEF WithinSoFar

\* The counters never gain more than the traffic does.
LEMMA Traffic ==
    ASSUME TypeInv, TypeInv', Unshared
    PROVE  \A d \in Dir : /\ raw'[d] - raw[d] <= carried'[d] - carried[d]
                          /\ carried[d] <= carried'[d]
<1>0. \A d \in Dir : {raw[d], raw'[d], carried[d], carried'[d]} \subseteq Int
  BY Parts DEF TypeInv, TTypeOK, TypeOK, Bytes
<1>1. ASSUME NEW e \in Dir, Carry(e), NEW d \in Dir
      PROVE  raw'[d] - raw[d] <= carried'[d] - carried[d] /\ carried[d] <= carried'[d]
  BY <1>0, <1>1 DEF TypeInv, Carry, TTypeOK, TypeOK, Bytes
<1>2. ASSUME InterfaceReset, NEW d \in Dir
      PROVE  raw'[d] - raw[d] <= carried'[d] - carried[d] /\ carried[d] <= carried'[d]
  <2>1. raw'[d] <= raw[d] /\ carried'[d] = carried[d]
    BY <1>2 DEF InterfaceReset
  <2> QED BY <1>0, <2>1
<1>3. ASSUME SkipRecheck, NEW d \in Dir
      PROVE  raw'[d] - raw[d] <= carried'[d] - carried[d] /\ carried[d] <= carried'[d]
  BY <1>0, <1>3 DEF SkipRecheck, kernel
<1> QED BY <1>1, <1>2, <1>3 DEF Unshared

\* Traffic and resets of the counters: C is the bound after the step, higher by what
\* the step carried.
LEMMA WithinTraffic ==
    ASSUME TypeInv, TypeInv', NEW B \in [Dir -> Int], NEW C \in [Dir -> Int],
           NEW s \in Record,
           \A d \in Dir : C[d] - B[d] = carried'[d] - carried[d],
           Unshared, Within(s, B)
    PROVE  /\ Within(s, C)'
           /\ \A d \in Dir : B[d] <= C[d] /\ raw'[d] - raw[d] <= C[d] - B[d]
<1> USE Parts DEF TypeInv
<1>1. \A d \in Dir : s.total[d] \in Int /\ s.sync[d] \in Int
  BY RecordType
<1>2. \A d \in Dir : {raw[d], raw'[d], carried[d], carried'[d], B[d], C[d]} \subseteq Int
  BY DEF TTypeOK, TypeOK, Bytes
<1>3. \A d \in Dir : raw'[d] - raw[d] <= carried'[d] - carried[d] /\ carried[d] <= carried'[d]
  BY Traffic
<1>4. \A d \in Dir : B[d] <= C[d] /\ raw'[d] - raw[d] <= C[d] - B[d]
  BY <1>2, <1>3
<1>5. ASSUME NEW d \in Dir PROVE s.total[d] <= C[d] /\ raw'[d] + s.sync[d] <= C[d]
  <2>1. s.total[d] <= B[d] /\ raw[d] + s.sync[d] <= B[d]
    BY DEF Within
  <2> QED BY <1>1, <1>2, <1>4, <2>1
<1> QED BY <1>4, <1>5 DEF Within

\* The same of a record half copied.
LEMMA SoFarTraffic ==
    ASSUME TypeInv, TypeInv', NEW B \in [Dir -> Int], NEW C \in [Dir -> Int],
           NEW b \in Buffers,
           \A d \in Dir : C[d] - B[d] = carried'[d] - carried[d],
           Unshared, WithinSoFar(b, B)
    PROVE  WithinSoFar(b, C)'
<1>1. \A d \in Dir : b.rec.total[d] \in Int /\ b.rec.sync[d] \in Int
  BY BufferParts, RecordType
<1>2. \A d \in Dir : {raw[d], raw'[d], carried[d], carried'[d], B[d], C[d]} \subseteq Int
  BY DEF TypeInv, TTypeOK, TypeOK, Bytes
<1>3. \A d \in Dir : raw'[d] - raw[d] <= carried'[d] - carried[d] /\ carried[d] <= carried'[d]
  BY Traffic
<1>4. \A d \in Dir : B[d] <= C[d] /\ raw'[d] - raw[d] <= C[d] - B[d]
  BY <1>2, <1>3
<1>5. ASSUME NEW d \in Dir, b.n > TotalAt[d] PROVE b.rec.total[d] <= C[d]
  <2>1. b.rec.total[d] <= B[d]
    BY <1>5 DEF WithinSoFar
  <2> QED BY <1>1, <1>2, <1>4, <2>1
<1>6. ASSUME NEW d \in Dir, b.n > SyncAt[d] PROVE raw'[d] + b.rec.sync[d] <= C[d]
  <2>1. raw[d] + b.rec.sync[d] <= B[d]
    BY <1>6 DEF WithinSoFar
  <2> QED BY <1>1, <1>2, <1>4, <2>1
<1> QED BY <1>5, <1>6 DEF WithinSoFar

\* Traffic moves the counters and the bounds alike, so the engine stays within bounds that
\* move by what was carried.
LEMMA EngineTraffic ==
    ASSUME TypeInv, TypeInv', NEW B \in [Dir -> Int], NEW C \in [Dir -> Int],
           \A d \in Dir : C[d] - B[d] = carried'[d] - carried[d],
           Unshared, EngineWithin(B)
    PROVE  EngineWithin(C)'
<1> USE DEF TypeInv
<1>1. /\ \A d \in Dir : /\ {raw[d], raw'[d], snap[d], live[d], B[d], C[d]} \subseteq Int
                        /\ {mem.total[d], mem.sync[d]} \subseteq Int
      /\ mem \in Record /\ disk \in Record /\ marshalled \in Buffers
  <2>1. \A d \in Dir : raw[d] \in Nat /\ raw'[d] \in Nat
    BY DEF TTypeOK, TypeOK, Bytes
  <2> QED BY <2>1, Parts
<1>2. \A d \in Dir : B[d] <= C[d] /\ raw'[d] - raw[d] <= C[d] - B[d]
  BY <1>1, WithinTraffic DEF EngineWithin
<1>3. UNCHANGED <<snap, mem, disk, marshalled, stage, live>>
  BY DEF Unshared, Carry, InterfaceReset, SkipRecheck, files, engine
<1>4. Within(mem, C)' /\ Within(disk, C)'
  <2>1. \A s \in Record : Within(s, B) => Within(s, C)'
    BY WithinTraffic
  <2>2. PICK m \in Record, k \in Record : m = mem /\ k = disk
    BY <1>1
  <2>3. Within(m, C)' /\ Within(k, C)'
    BY <2>1, <2>2 DEF EngineWithin
  <2> QED BY <1>3, <2>2, <2>3 DEF Within
<1>5. WithinSoFar(marshalled, C)'
  <2>1. PICK b \in Buffers : b = marshalled
    BY <1>1
  <2>2. WithinSoFar(b, C)'
    BY <2>1, SoFarTraffic DEF EngineWithin
  <2> QED BY <1>3, <2>1, <2>2 DEF WithinSoFar
<1>6. Reconciling' => Reconciling
  BY DEF Unshared, Carry, InterfaceReset, SkipRecheck, Reconciling
<1>7. ASSUME Reconciling', NEW d \in Dir
      PROVE  /\ snap[d] + mem.sync[d] <= C[d]
             /\ mem.total[d] + raw'[d] - snap[d] <= C[d]
             /\ Computed(d) => live[d] <= C[d] /\ live[d] + raw'[d] - snap[d] <= C[d]
  <2>1. /\ snap[d] + mem.sync[d] <= B[d]
        /\ mem.total[d] + raw[d] - snap[d] <= B[d]
        /\ Computed(d) => live[d] <= B[d] /\ live[d] + raw[d] - snap[d] <= B[d]
    BY <1>6, <1>7 DEF EngineWithin
  <2> QED BY <1>1, <1>2, <2>1
<1> QED BY <1>3, <1>4, <1>5, <1>7 DEF EngineWithin, Computed

\* One access of the engine to the shared fields keeps every bound: what it reads was
\* bounded when it read it, and the counters only fall behind the bound.
LEMMA EngineReconcile ==
    ASSUME TypeInv, TypeInv', NEW B \in [Dir -> Int], EngineWithin(B), NEW d \in Dir,
           TReadCounters \/ ComputeLive(d) \/ Compare(d) \/ Anchor(d) \/ Store(d) \/ Advance(d)
    PROVE  EngineWithin(B)'
<1> USE DEF TypeInv, kernel, files, dashboard, engine
<1>1. /\ \A e \in Dir : /\ {raw[e], snap[e], live[e], B[e]} \subseteq Int
                        /\ {mem.total[e], mem.sync[e]} \subseteq Int
      /\ mem \in Record /\ snap \in [Dir -> Int] /\ live \in [Dir -> Int]
  BY Parts DEF TTypeOK, TypeOK, Bytes
<1>2. \A e \in Dir : mem.total[e] <= B[e] /\ raw[e] + mem.sync[e] <= B[e]
  BY DEF EngineWithin, Within
<1>3. CASE TReadCounters
  <2>1. /\ snap' = raw /\ ~Reconciling
        /\ UNCHANGED <<raw, mem, disk, marshalled, stage, live>>
    BY <1>3 DEF TReadCounters, ReadCounters, ReadAgain, Reconciling
  <2>2. \A e \in Dir : raw[e] + mem.sync[e] <= B[e] /\ mem.total[e] + raw[e] - raw[e] <= B[e]
    BY <1>1, <1>2
  <2>3. \A e \in Dir : ~Computed(e)
    BY <2>1 DEF StageInv, Computed
  <2> QED BY <2>1, <2>2, <2>3 DEF EngineWithin, Within, WithinSoFar, Computed
<1>4. ASSUME Reconciling
      PROVE  \A e \in Dir : /\ snap[e] + mem.sync[e] <= B[e]
                            /\ mem.total[e] + raw[e] - snap[e] <= B[e]
                            /\ Computed(e) => /\ live[e] <= B[e]
                                              /\ live[e] + raw[e] - snap[e] <= B[e]
  BY <1>4 DEF EngineWithin
<1>5. CASE ComputeLive(d)
  <2>1. /\ Reconciling /\ stage = <<"live", d>>
        /\ live' = [live EXCEPT ![d] = snap[d] + mem.sync[d]]
        /\ UNCHANGED <<raw, snap, mem, disk, marshalled, pc>>
    BY <1>5 DEF ComputeLive, At, vars
  <2>2. stage' = IF d = "up" THEN <<"live", "down">> ELSE <<"compare", "up">>
    BY <1>5 DEF ComputeLive
  <2>3. \A e \in Dir : Computed(e)' => e = d \/ Computed(e)
    BY <2>1, <2>2 DEF Computed, Dir
  <2>4. \A e \in Dir : Computed(e)' => live'[e] <= B[e] /\ live'[e] + raw[e] - snap[e] <= B[e]
    <3> SUFFICES ASSUME NEW e \in Dir, Computed(e)'
                 PROVE  live'[e] <= B[e] /\ live'[e] + raw[e] - snap[e] <= B[e]
      OBVIOUS
    <3>1. CASE e = d
      BY <1>1, <1>2, <1>4, <2>1, <3>1
    <3>2. CASE e # d
      BY <1>1, <1>4, <2>1, <2>3, <3>2
    <3> QED BY <3>1, <3>2
  <2> QED BY <1>4, <2>1, <2>4 DEF EngineWithin, Within, WithinSoFar, Reconciling
<1>6. CASE Compare(d)
  <2>1. Reconciling /\ stage[1] = "compare" /\ stage'[1] # "live"
    BY <1>6 DEF Compare, At
  <2> QED BY <1>6, <2>1 DEF Compare, vars, EngineWithin, Within, WithinSoFar, Reconciling, Computed
<1>7. ASSUME NEW op \in {"anchor", "advance"}, stage[1] \in {op, "store"}, Reconciling,
             Return(op, d), mem' \in Record,
             UNCHANGED <<kernel, files, starts, anchors, dashboard, marshalled>>,
             \A e \in Dir : /\ mem'.total[e] <= B[e] /\ raw[e] + mem'.sync[e] <= B[e]
                            /\ snap[e] + mem'.sync[e] <= B[e]
                            /\ mem'.total[e] + raw[e] - snap[e] <= B[e]
      PROVE  EngineWithin(B)'
  <2>1. CASE d = "up"
    <3>1. stage[1] # "live" /\ stage'[1] = op /\ Reconciling /\ UNCHANGED <<pc, snap, live>>
      BY <1>7, <2>1 DEF Return
    <3>2. \A e \in Dir : Computed(e)
      BY <3>1 DEF Computed
    <3> QED BY <1>4, <1>7, <3>1, <3>2 DEF EngineWithin, Within, WithinSoFar, Reconciling
  <2>2. CASE d # "up"
    <3>1. ~Reconciling'
      BY <1>7, <2>2 DEF Return, Reconciling
    <3> QED BY <1>7, <3>1 DEF EngineWithin, Within, WithinSoFar
  <2> QED BY <2>1, <2>2
<1>8. CASE Store(d)
  <2>0. live[d] - snap[d] \in Int
    BY <1>1
  <2>1. PICK v \in Int : v = live[d] - snap[d] /\ mem' = [mem EXCEPT !.sync[d] = v]
    BY <1>8, <2>0 DEF Store
  <2>2. /\ mem' \in Record /\ mem'.total = mem.total
        /\ \A e \in Dir : mem'.sync[e] = IF e = d THEN v ELSE mem.sync[e]
    <3>1. PICK t : t = mem'
      OBVIOUS
    <3>2. mem \in Record /\ d \in Dir /\ v \in Int /\ t = [mem EXCEPT !.sync[d] = v]
      BY <1>1, <2>1, <3>1
    <3>3. /\ t \in Record /\ t.total = mem.total
          /\ \A e \in Dir : t.sync[e] = IF e = d THEN v ELSE mem.sync[e]
      BY ONLY <3>2, OffsetWritten, SMTT(40)
    <3> QED BY <3>1, <3>3
  <2>3. Reconciling /\ Computed(d)
    BY <1>8 DEF Store, At, Computed
  <2>4. \A e \in Dir : /\ mem'.total[e] <= B[e] /\ raw[e] + mem'.sync[e] <= B[e]
                       /\ snap[e] + mem'.sync[e] <= B[e]
                       /\ mem'.total[e] + raw[e] - snap[e] <= B[e]
    <3> SUFFICES ASSUME NEW e \in Dir
                 PROVE  /\ mem'.total[e] <= B[e] /\ raw[e] + mem'.sync[e] <= B[e]
                        /\ snap[e] + mem'.sync[e] <= B[e]
                        /\ mem'.total[e] + raw[e] - snap[e] <= B[e]
      OBVIOUS
    <3>1. CASE e = d
      BY <1>1, <1>2, <1>4, <2>1, <2>2, <2>3, <3>1
    <3>2. CASE e # d
      BY <1>1, <1>2, <1>4, <2>2, <2>3, <3>2
    <3> QED BY <3>1, <3>2
  <2> QED BY <1>7, <1>8, <2>2, <2>4 DEF Store, At
<1>9. CASE Advance(d)
  <2>1. live[d] >= 0 /\ Computed(d) /\ Reconciling
    BY <1>9 DEF Advance, At, StageInv, Computed
  <2>2. PICK v \in Int : v >= 0 /\ v = live[d] /\ mem' = [mem EXCEPT !.total[d] = v]
    BY <1>1, <1>9, <2>1 DEF Advance
  <2>3. /\ mem' \in Record /\ mem'.sync = mem.sync
        /\ \A e \in Dir : mem'.total[e] = IF e = d THEN v ELSE mem.total[e]
    <3>1. /\ mem \in Record /\ d \in Dir /\ v \in Nat
          /\ mem' = [mem EXCEPT !.total[d] = v]
      BY <1>1, <2>2
    <3> QED BY ONLY <3>1, TotalAssigned
  <2>4. \A e \in Dir : /\ mem'.total[e] <= B[e] /\ raw[e] + mem'.sync[e] <= B[e]
                       /\ snap[e] + mem'.sync[e] <= B[e]
                       /\ mem'.total[e] + raw[e] - snap[e] <= B[e]
    <3> SUFFICES ASSUME NEW e \in Dir
                 PROVE  /\ mem'.total[e] <= B[e] /\ raw[e] + mem'.sync[e] <= B[e]
                        /\ snap[e] + mem'.sync[e] <= B[e]
                        /\ mem'.total[e] + raw[e] - snap[e] <= B[e]
      OBVIOUS
    <3>1. CASE e = d
      BY <1>1, <1>2, <1>4, <2>1, <2>2, <2>3, <3>1
    <3>2. CASE e # d
      BY <1>1, <1>2, <1>4, <2>1, <2>3, <3>2
    <3> QED BY <3>1, <3>2
  <2> QED BY <1>7, <1>9, <2>3, <2>4 DEF Advance, At
<1>10. CASE Anchor(d)
  <2>1. /\ Reconciling /\ live' = [live EXCEPT ![d] = mem.total[d]] /\ stage = <<"anchor", d>>
        /\ UNCHANGED <<raw, snap, mem, disk, marshalled, pc>>
    BY <1>10 DEF Anchor, At, vars
  <2>2. \A e \in Dir : live'[e] <= B[e] /\ live'[e] + raw[e] - snap[e] <= B[e]
    <3> SUFFICES ASSUME NEW e \in Dir
                 PROVE  live'[e] <= B[e] /\ live'[e] + raw[e] - snap[e] <= B[e]
      OBVIOUS
    <3>1. CASE e = d
      BY <1>1, <1>2, <1>4, <2>1, <3>1
    <3>2. Computed(e)
      BY <2>1 DEF Computed
    <3>3. CASE e # d
      BY <1>1, <1>4, <2>1, <3>2, <3>3
    <3> QED BY <3>1, <3>3
  <2> QED BY <1>4, <2>1, <2>2 DEF EngineWithin, Within, WithinSoFar, Reconciling
<1> QED BY <1>3, <1>5, <1>6, <1>8, <1>9, <1>10

\* So does the rest of the process: saves, failed saves, a start and a kill.
LEMMA EngineRest ==
    ASSUME TypeInv, TypeInv', NEW B \in [Dir -> Int], EngineWithin(B),
           TStart \/ Marshal \/ Rename \/ TPanic \/ TTerminate \/ TSaveFails \/ TKill
    PROVE  EngineWithin(B)'
<1> USE DEF TypeInv, kernel, files, dashboard, engine
<1>0. \A q \in DOMAIN AfterSave : AfterSave[q] \notin {"reconcile", "recheck"}
  BY DEF AfterSave
<1>1. ~Reconciling' /\ raw' = raw
  <2>1. CASE Marshal
    BY <2>1 DEF Marshal, AfterSave, Reconciling, vars
  <2>2. CASE Rename
    <3>1. pc \in DOMAIN AfterSave
      BY <2>2, BufferParts DEF Rename, StageInv
    <3> QED BY <1>0, <2>2, <3>1 DEF Rename, Reconciling
  <2>3. CASE TSaveFails
    BY <1>0, <2>3 DEF TSaveFails, SaveFails, Reconciling
  <2>4. CASE TStart \/ TPanic \/ TTerminate \/ TKill
    BY <2>4 DEF TStart, Start, TPanic, Panic, TTerminate, Terminate, TKill, Kill, Reconciling
  <2> QED BY <2>1, <2>2, <2>3, <2>4
<1>2. Within(mem, B) /\ Within(disk, B) /\ WithinSoFar(marshalled, B)
  BY DEF EngineWithin
<1>3. marshalled \in Buffers /\ mem \in Record
  BY Parts
<1>4. marshalled.n = Whole => Within(marshalled.rec, B)
  BY <1>2, <1>3, BlankAndWhole
<1>5. WithinSoFar(Blank, B)
  BY BufferParts, BlankAndWhole
<1>6. marshalled.n < Whole => WithinSoFar(Copied(marshalled), B)
  BY <1>2, <1>3, CopiedWithin
<1>7. /\ mem' \in {mem, disk} \/ (marshalled.n = Whole /\ mem' = marshalled.rec)
      /\ disk' = disk \/ (marshalled.n = Whole /\ disk' = marshalled.rec)
      /\ \/ marshalled' \in {Blank, marshalled}
         \/ marshalled.n < Whole /\ marshalled' = Copied(marshalled)
  BY DEF TStart, Start, Marshal, Rename, TPanic, Panic, TTerminate, Terminate, TSaveFails,
         SaveFails, TKill, Kill, vars
<1>8. Within(mem, B)' /\ Within(disk, B)'
  BY <1>1, <1>2, <1>4, <1>7 DEF Within
<1>9. WithinSoFar(marshalled, B)'
  BY <1>1, <1>2, <1>5, <1>6, <1>7 DEF WithinSoFar
<1> QED BY <1>1, <1>8, <1>9 DEF EngineWithin
-----------------------------------------------------------------------------
SetSteps == {"set", "set2", "set3", "set4", "set5", "set6"}

\* While only resets were asked for, everything anywhere is within the traffic: what
\* the engine holds, the journalled record and the record a handler is about to write.
Unmixed ==
    /\ EngineWithin(carried)
    /\ Within(durable, carried)
    /\ WithinSoFar(web.buf, carried)
    /\ web.at \notin SetSteps
    /\ \A d \in Dir : web.want[d] = 0

RaceInv == requests["set"] = 0 => Unmixed

\* A first run has counted nothing, and the counters never exceed the traffic.
LEMMA FirstRunWithin ==
    ASSUME TypeInv
    PROVE  Within(FirstRun, carried)
  BY Parts DEF TypeInv, StageInv, Within, FirstRun, Zero

\* What every step but a handler's leaves alone: the request may be cut short, and a
\* reconcile that begins disturbs it.
LEMMA EngineFrame ==
    ASSUME Unshared \/ TStart \/ EngineCycle \/ TKill
    PROVE  /\ durable' = durable /\ requests' = requests /\ claim' = claim
           /\ web' \in {web, Idle} /\ (Unshared => web' = web)
           /\ clean' => clean
           /\ ~Unshared => carried' = carried /\ raw' = raw
<1> USE DEF kernel, files, dashboard, engine
<1>1. clean' => clean
  <2>1. CASE TReadCounters
    BY <2>1, Zenon DEF TReadCounters
  <2>2. CASE clean' = clean
    BY <2>2
  <2>3. \/ TReadCounters
        \/ clean' = clean
    BY DEF Unshared, TStart, TKill, EngineCycle, ComputeLive, Compare, Anchor, Store, Advance,
           Marshal, Rename, TPanic, TTerminate, TSaveFails
  <2> QED BY <2>1, <2>2, <2>3
<1>2. CASE Unshared \/ TStart \/ TKill
  <2>1. /\ durable' = durable /\ requests' = requests /\ claim' = claim
        /\ web' \in {web, Idle} /\ (Unshared => web' = web)
    BY <1>2 DEF Unshared, Carry, InterfaceReset, SkipRecheck, TStart, Start, TKill, Kill
  <2>2. ~Unshared => carried' = carried /\ raw' = raw
    BY <1>2 DEF TStart, Start, TKill, Kill
  <2> QED BY <1>1, <2>1, <2>2
<1>3. CASE \E d \in Dir : TReadCounters \/ ComputeLive(d) \/ Compare(d) \/ Anchor(d) \/ Store(d) \/ Advance(d)
  <2>1. UNCHANGED <<durable, requests, claim, web, carried, raw>>
    BY <1>3 DEF TReadCounters, ReadCounters, ReadAgain, ComputeLive, Compare, Anchor, Store,
                    Advance, vars
  <2> QED BY <1>1, <2>1
<1>4. CASE Marshal \/ Rename \/ TPanic \/ TTerminate \/ TSaveFails
  <2>1. UNCHANGED <<durable, requests, claim, carried, raw>> /\ web' \in {web, Idle}
    BY <1>4 DEF Marshal, Rename, TPanic, Panic, TTerminate, Terminate, TSaveFails, SaveFails, vars
  <2>2. Unshared => web' = web
    BY DEF Unshared
  <2> QED BY <1>1, <2>1, <2>2
<1> QED BY <1>2, <1>3, <1>4 DEF EngineCycle, Dir

\* Before the first reset or request the totals are within what was carried.
LEMMA RaceInit == TInit => RaceInv
<1> SUFFICES ASSUME TInit PROVE Unmixed
  BY DEF RaceInv
<1>1. TypeInv
  BY TrackingTypeInit
<1>2. Within(FirstRun, carried)
  BY <1>1, FirstRunWithin
<1>3. /\ mem = FirstRun /\ disk = FirstRun /\ durable = FirstRun /\ marshalled = Blank
      /\ web = Idle /\ pc = "off"
  BY DEF TInit, Init
<1>4. carried \in [Dir -> Int]
  BY <1>1 DEF TypeInv, TTypeOK, TypeOK, Bytes
<1>5. WithinSoFar(Blank, carried)
  BY <1>4, BufferParts, BlankAndWhole
<1>6. EngineWithin(carried)
  BY <1>2, <1>3, <1>5 DEF EngineWithin, Within, Reconciling
<1> QED BY <1>2, <1>3, <1>5, <1>6 DEF Unmixed, Within, Idle, SetSteps, Zero

\* The engine and the kernel keep it: a handler cut short leaves nothing.
LEMMA RaceEngine ==
    ASSUME TypeInv, TypeInv', Unmixed, Unshared \/ TStart \/ EngineCycle \/ TKill
    PROVE  Unmixed'
<1> USE DEF kernel, files, dashboard, engine
<1>1. carried \in [Dir -> Int] /\ carried' \in [Dir -> Int]
  BY DEF TypeInv, TTypeOK, TypeOK, Bytes
<1>2. PICK B \in [Dir -> Int], C \in [Dir -> Int] : B = carried /\ C = carried'
  BY <1>1
<1>3. EngineWithin(B) /\ durable \in Record /\ web.buf \in Buffers
  BY <1>2, Parts DEF Unmixed, EngineWithin, Within, WithinSoFar, TypeInv
<1>4. durable' = durable /\ web' \in {web, Idle}
  BY EngineFrame
<1>5. CASE Unshared
  <2>1. \A d \in Dir : C[d] - B[d] = carried'[d] - carried[d]
    BY <1>2
  <2>2. EngineWithin(C)'
    BY <1>2, <1>3, <1>5, <2>1, EngineTraffic
  <2>3. web' = web
    BY <1>5 DEF Unshared
  <2>4. PICK k \in Record, b \in Buffers : k = durable /\ b = web.buf
    BY <1>3
  <2>5. Within(k, B) /\ WithinSoFar(b, B)
    BY <1>2, <2>4 DEF Unmixed, Within, WithinSoFar
  <2>6. Within(k, C)' /\ WithinSoFar(b, C)'
    BY <1>2, <1>5, <2>1, <2>5, WithinTraffic, SoFarTraffic
  <2> QED BY <1>2, <1>4, <2>2, <2>3, <2>4, <2>6 DEF Unmixed, EngineWithin, Within, WithinSoFar
<1>6. CASE ~Unshared
  <2>1. carried' = carried /\ raw' = raw
    BY <1>6, EngineFrame
  <2>2. EngineWithin(B)'
    BY <1>3, <1>6, EngineReconcile, EngineRest DEF EngineCycle, Dir
  <2>3. WithinSoFar(Blank, carried)
    BY <1>1, BufferParts, BlankAndWhole
  <2>4. WithinSoFar(web.buf, carried)' /\ (web.at \notin SetSteps /\ \A d \in Dir : web.want[d] = 0)'
    BY <1>4, <2>1, <2>3 DEF Unmixed, WithinSoFar, Idle, SetSteps, Zero
  <2> QED BY <1>2, <1>4, <2>1, <2>2, <2>4 DEF Unmixed, EngineWithin, Within, WithinSoFar
<1> QED BY <1>5, <1>6

\* A reset writes zeros and the negated counters, which no traffic exceeds whatever the
\* engine has read or computed before.
LEMMA RaceDashboard ==
    ASSUME TypeInv, TypeInv', Unmixed, Dashboard, requests'["set"] = 0
    PROVE  Unmixed'
<1> USE DEF kernel, files, dashboard, engine
<1>1. /\ \A e \in Dir : /\ {raw[e], snap[e], carried[e], web.raw[e]} \subseteq Nat
                        /\ {mem.total[e], mem.sync[e]} \subseteq Int
                        /\ raw[e] <= carried[e] /\ snap[e] <= carried[e]
      /\ mem \in Record /\ web.buf \in Buffers /\ carried \in [Dir -> Int]
  BY Parts DEF TypeInv, StageInv, TTypeOK, TypeOK, Bytes
<1>2. WithinSoFar(Blank, carried)
  BY <1>1, BufferParts, BlankAndWhole
<1>3. CASE Request("reset")
  <2>1. web'.at = "reset" /\ web'.want = Zero /\ web'.buf = Blank /\ UNCHANGED <<vars, engine>>
    BY <1>3 DEF Request, Idle
  <2> QED BY <1>2, <2>1
          DEF vars, Unmixed, EngineWithin, Within, WithinSoFar, Reconciling, Computed, SetSteps, Zero
<1>4. CASE Request("set")
  BY <1>4 DEF Request, TypeInv, TTypeOK, Kinds
<1>5. ASSUME NEW from, NEW to \in {"reset2", "reset3", "reset4", "save"}, Handle(from, to),
             UNCHANGED <<kernel, pc, snap, files, stage, live, marshalled>>,
             \A e \in Dir : /\ mem'.total[e] \in {0, mem.total[e]}
                            /\ mem'.sync[e] \in {-web.raw[e], mem.sync[e]}
      PROVE  Unmixed'
  <2>1. web'.at = to /\ web'.want = web.want /\ web'.buf = web.buf
    BY <1>5, Parts DEF Handle, TypeInv
  <2>2. \A e \in Dir : /\ mem'.total[e] <= carried[e] /\ raw[e] + mem'.sync[e] <= carried[e]
    BY <1>1, <1>5 DEF Unmixed, EngineWithin, Within
  <2>3. Reconciling => \A e \in Dir : /\ snap[e] + mem'.sync[e] <= carried[e]
                                      /\ mem'.total[e] + raw[e] - snap[e] <= carried[e]
    BY <1>1, <1>5 DEF Unmixed, EngineWithin
  <2> QED BY <1>5, <2>1, <2>2, <2>3
          DEF Unmixed, EngineWithin, Within, WithinSoFar, Reconciling, Computed, SetSteps
<1>6. CASE WriteTotal("up", "reset", "reset2") \/ WriteTotal("down", "reset2", "reset3")
  <2>1. PICK d \in Dir, from \in Steps, to \in {"reset2", "reset3", "reset4", "save"} :
             WriteTotal(d, from, to)
    BY <1>6 DEF Dir, Steps
  <2>2. web.want[d] = 0 /\ 0 \in Nat
    BY DEF Unmixed
  <2>3. mem' = [mem EXCEPT !.total[d] = 0]
    BY <2>1, <2>2 DEF WriteTotal
  <2>4. \A e \in Dir : mem'.total[e] \in {0, mem.total[e]} /\ mem'.sync[e] = mem.sync[e]
    BY <1>1, <2>2, <2>3, TotalAssigned
  <2> QED BY <1>5, <2>1, <2>4 DEF WriteTotal
<1>7. CASE WriteSync("up", "reset3", "reset4") \/ WriteSync("down", "reset4", "save")
  <2>1. PICK d \in Dir, from \in Steps, to \in {"reset2", "reset3", "reset4", "save"} :
             WriteSync(d, from, to)
    BY <1>7 DEF Dir, Steps
  <2>2. PICK v \in Int : v = -web.raw[d]
    BY <1>1
  <2>3. mem' = [mem EXCEPT !.sync[d] = v]
    BY <2>1, <2>2 DEF WriteSync
  <2>4. \A e \in Dir : mem'.sync[e] \in {-web.raw[e], mem.sync[e]} /\ mem'.total[e] = mem.total[e]
    BY <1>1, <2>2, <2>3, OffsetWritten
  <2> QED BY <1>5, <2>1, <2>4 DEF WriteSync
<1>8. CASE WebMarshal
  <2>1. /\ web'.at \in {"save", "rename"} /\ web'.want = web.want /\ web'.buf = Copied(web.buf)
        /\ UNCHANGED <<vars, engine>>
    BY <1>8, Parts DEF WebMarshal, TypeInv
  <2>2. web.buf.n < Whole
    BY <1>8 DEF WebMarshal, TypeInv, StageInv
  <2>3. WithinSoFar(Copied(web.buf), carried)
    BY <1>1, <2>2, CopiedWithin DEF Unmixed, EngineWithin
  <2> QED BY <2>1, <2>3
          DEF vars, Unmixed, EngineWithin, Within, WithinSoFar, Reconciling, Computed, SetSteps
<1>9. CASE WebAnswer \/ WebSaveFails
  <2>1. /\ web' = Idle /\ disk' \in {disk, web.buf.rec} /\ web.buf.n = Whole
        /\ UNCHANGED <<kernel, pc, snap, mem, durable, engine>>
    BY <1>9 DEF WebAnswer, WebSaveFails, vars, TypeInv, StageInv
  <2>3. Within(web.buf.rec, carried)
    BY <1>1, <2>1, BlankAndWhole DEF Unmixed
  <2>2. web'.at = "none" /\ web'.want = Zero /\ web'.buf = Blank
    BY <2>1 DEF Idle
  <2> QED BY <1>2, <2>1, <2>2, <2>3
          DEF Unmixed, EngineWithin, Within, WithinSoFar, Reconciling, Computed, SetSteps, Zero
<1>10. ~SetSync \/ Request("set")
  BY DEF SetSync, WriteTotal, ReadTotal, WriteSyncFromTotal, Handle, Unmixed, SetSteps
<1> QED BY <1>3, <1>4, <1>6, <1>7, <1>8, <1>9, <1>10 DEF Dashboard, Reset

\* Every step of either writer keeps the totals within what was carried, as long as nobody
\* set an offset by hand.
LEMMA RaceNext == TypeInv /\ TypeInv' /\ RaceInv /\ [TNext]_trackingVars => RaceInv'
<1> SUFFICES ASSUME TypeInv, TypeInv', RaceInv, [TNext]_trackingVars, requests'["set"] = 0
             PROVE  Unmixed'
  BY DEF RaceInv
<1>1. requests["set"] = 0
  <2>1. requests["set"] \in Nat
    BY DEF TypeInv, TTypeOK, Kinds
  <2>2. CASE Dashboard
    <3>1. \/ requests' = requests
          \/ \E kind \in Kinds : requests' = [requests EXCEPT ![kind] = @ + 1]
      BY <2>2 DEF Dashboard, Reset, SetSync, Request, Kinds, WriteTotal, WriteSync, ReadTotal,
                  WriteSyncFromTotal, WebMarshal, WebAnswer, WebSaveFails
    <3> QED BY <2>1, <3>1 DEF TypeInv, TTypeOK, Kinds
  <2>3. CASE ~Dashboard
    BY <2>3, EngineFrame DEF TNext, trackingVars, dashboard
  <2> QED BY <2>2, <2>3
<1>2. Unmixed
  BY <1>1 DEF RaceInv
<1>3. CASE UNCHANGED trackingVars
  BY <1>2, <1>3 DEF trackingVars, vars, dashboard, engine, Unmixed, EngineWithin, Within,
                    WithinSoFar, Reconciling, Computed
<1>4. CASE TNext
  BY <1>2, <1>4, RaceEngine, RaceDashboard DEF TNext
<1> QED BY <1>3, <1>4

\* However the resets of the dashboard and the cycles of the engine race, field by field,
\* and whichever of the two Saves copies which fields before and after a write, no record
\* counts a byte twice (handleResetCounters against Engine.reconcile and state.Save).
THEOREM RacesLoseOnly == TSpec => []RacesNeverOvercount
<1>1. TypeInv /\ RaceInv => RacesNeverOvercount
  <2> SUFFICES ASSUME TypeInv, Unmixed PROVE NeverOvercounts
    BY DEF RaceInv, RacesNeverOvercount
  <2>1. \A d \in Dir : {carried[d], Counted[d], raw[d]} \subseteq Int /\ carried[d] <= Counted[d]
    BY DEF TypeInv, TTypeOK, TypeOK, Bytes, Counted
  <2>2. ASSUME NEW s \in Record, Within(s, carried) PROVE Sound(s)
    BY <2>1, <2>2, RecordType DEF Within, Sound
  <2> QED BY <2>2, Parts DEF TypeInv, Unmixed, EngineWithin, NeverOvercounts
<1> QED BY <1>1, TrackingTypeInit, TrackingTypeNext, RaceInit, RaceNext, PTL DEF TSpec
-----------------------------------------------------------------------------
\* The totals a request for want allows, when its handler saw since bytes carried.
After(want, since) == [d \in Dir |-> want[d] + carried[d] - since[d]]

\* The handler is past the assignment of this field.
TotalWritten(d) ==
    web.at \in {"save", "rename"} \cup
        IF d = "up" THEN {"reset2", "reset3", "reset4", "set2", "set3", "set4", "set5", "set6"}
        ELSE {"reset3", "reset4", "set3", "set4", "set5", "set6"}

SyncWritten(d) ==
    web.at \in {"save", "rename"} \cup IF d = "up" THEN {"reset4", "set5", "set6"} ELSE {}

\* A handler nobody disturbed has its totals and offsets in the record as it wrote them,
\* and the counters have not outrun the traffic since it read them.
Asking ==
    web.at # "none" /\ clean =>
        /\ ~Reconciling
        /\ web.at \in {"reset", "reset2", "reset3", "reset4"} => \A d \in Dir : web.want[d] = 0
        /\ web.at \notin {"save", "rename"} =>
              \A d \in Dir : raw[d] - web.raw[d] <= carried[d] - web.since[d]
        /\ \A d \in Dir : TotalWritten(d) => mem.total[d] = web.want[d]
        /\ \A d \in Dir : SyncWritten(d) => raw[d] + mem.sync[d] <= After(web.want, web.since)[d]
        /\ web.at \in {"save", "rename"} => WithinSoFar(web.buf, After(web.want, web.since))
        /\ web.at = "set4" => web.read = web.want["up"]
        /\ web.at = "set6" => web.read = web.want["down"]

\* What was answered bounds all the engine holds from then on.
Promised ==
    claim # None =>
        /\ web.at = "none"
        /\ clean => EngineWithin(After(claim.want, claim.since))

PromiseInv == Asking /\ Promised

\* The allowance follows the traffic.
LEMMA AfterType ==
    ASSUME TypeInv, TypeInv', NEW want \in Bytes, NEW since \in Bytes
    PROVE  /\ After(want, since) \in [Dir -> Int]
           /\ After(want, since)' \in [Dir -> Int]
           /\ \A d \in Dir : /\ After(want, since)[d] = want[d] + carried[d] - since[d]
                             /\ After(want, since)'[d] = want[d] + carried'[d] - since[d]
                             /\ After(want, since)'[d] - After(want, since)[d]
                                   = carried'[d] - carried[d]
<1>1. \A d \in Dir : {want[d], since[d], carried[d], carried'[d]} \subseteq Int
  BY DEF TypeInv, TTypeOK, TypeOK, Bytes
<1> QED BY <1>1 DEF After

\* Nothing was promised before the first answer.
LEMMA PromiseInit == TInit => PromiseInv
  BY DEF TInit, PromiseInv, Asking, Promised, Idle, None

\* The engine keeps what was answered, although it goes on reconciling, saving, stopping
\* and starting again.
LEMMA PromiseEngine ==
    ASSUME TypeInv, TypeInv', Promised, Unshared \/ TStart \/ EngineCycle \/ TKill
    PROVE  Promised'
<1> SUFFICES ASSUME claim' # None
             PROVE  /\ web'.at = "none"
                    /\ clean' => EngineWithin(After(claim.want, claim.since))'
  BY DEF Promised
<1>1. /\ claim' = claim /\ web.at = "none" /\ web'.at = "none" /\ (clean' => clean)
      /\ ~Unshared => carried' = carried
  BY EngineFrame DEF Promised, Idle
<1> SUFFICES ASSUME clean' PROVE EngineWithin(After(claim.want, claim.since))'
  BY <1>1
<1>2. claim.want \in Bytes /\ claim.since \in Bytes
  BY <1>1, Parts DEF TypeInv
<1>3. PICK w \in Bytes, t \in Bytes : w = claim.want /\ t = claim.since
  BY <1>2
<1>4. PICK B \in [Dir -> Int], C \in [Dir -> Int] :
         /\ B = After(w, t) /\ C = After(w, t)'
         /\ \A d \in Dir : C[d] - B[d] = carried'[d] - carried[d]
  BY AfterType
<1>5. EngineWithin(B)
  BY <1>1, <1>3, <1>4 DEF Promised
<1>6. EngineWithin(C)'
  <2>1. CASE Unshared
    BY <1>4, <1>5, <2>1, EngineTraffic
  <2>2. CASE ~Unshared
    <3>1. B = C
      BY <1>1, <1>4, <2>2 DEF After
    <3>2. EngineWithin(B)'
      BY <1>5, <2>2, EngineReconcile, EngineRest DEF EngineCycle, Dir
    <3> QED BY <3>1, <3>2
  <2> QED BY <2>1, <2>2
<1>7. C = After(claim.want, claim.since)'
  BY <1>1, <1>3, <1>4 DEF After
<1> QED BY <1>6, <1>7 DEF EngineWithin, Within, WithinSoFar

\* While a handler is undisturbed the engine writes nothing it has written.
LEMMA AskingEngine ==
    ASSUME TypeInv, TypeInv', Asking, Unshared \/ TStart \/ EngineCycle \/ TKill
    PROVE  Asking'
<1> USE DEF kernel, files, dashboard, engine
<1> SUFFICES ASSUME web'.at # "none", clean' PROVE Asking'
  BY DEF Asking
<1>1. /\ web' = web /\ web.at # "none" /\ clean /\ ~Reconciling /\ pc # "off" /\ pc' # "off"
      /\ ~Unshared => carried' = carried /\ raw' = raw
  BY EngineFrame DEF Idle, Asking, TypeInv, StageInv
<1>2. ~TReadCounters /\ \A d \in Dir : ~(ComputeLive(d) \/ Compare(d) \/ Anchor(d) \/ Store(d) \/ Advance(d))
  BY <1>1 DEF TReadCounters, ComputeLive, Compare, Anchor, Store, Advance, At
<1>3. mem' = mem /\ ~Reconciling'
  <2>1. CASE Unshared
    BY <1>1, <2>1 DEF Unshared, Carry, InterfaceReset, SkipRecheck, Reconciling
  <2>2. CASE Marshal \/ TPanic \/ TTerminate
    BY <1>1, <2>2 DEF Marshal, TPanic, Panic, TTerminate, Terminate, Reconciling, vars
  <2>3. CASE Rename \/ TSaveFails
    <3>1. pc \in DOMAIN AfterSave /\ pc' = AfterSave[pc]
      <4>1. Rename => marshalled.n > 0
        BY BufferParts DEF Rename
      <4> QED BY <2>3, <4>1 DEF Rename, TSaveFails, SaveFails, TypeInv, StageInv
    <3>2. pc' \notin {"reconcile", "recheck"}
      BY <3>1 DEF AfterSave
    <3> QED BY <1>1, <2>3, <3>2 DEF Rename, TSaveFails, SaveFails, Reconciling
  <2> QED BY <1>1, <1>2, <2>1, <2>2, <2>3 DEF EngineCycle, TStart, Start, TKill, Kill
<1>4. \A d \in Dir : /\ {raw[d], raw'[d], carried[d], carried'[d], mem.sync[d], web.raw[d],
                         web.want[d], web.since[d]} \subseteq Int
                     /\ raw'[d] - raw[d] <= carried'[d] - carried[d]
                     /\ carried[d] <= carried'[d]
  <2>1. \A d \in Dir : {raw[d], raw'[d], carried[d], carried'[d], mem.sync[d], web.raw[d],
                        web.want[d], web.since[d]} \subseteq Int
    <3>1. \A d \in Dir : raw'[d] \in Nat /\ carried'[d] \in Nat
      BY DEF TypeInv, TTypeOK, TypeOK, Bytes
    <3> QED BY <3>1, Parts DEF TypeInv
  <2>2. CASE ~Unshared
    BY <1>1, <2>1, <2>2
  <2>3. CASE Unshared
    BY <2>1, <2>3, Traffic
  <2> QED BY <2>2, <2>3
<1>5. /\ web.at \in {"reset", "reset2", "reset3", "reset4"} => \A d \in Dir : web.want[d] = 0
      /\ web.at \notin {"save", "rename"} =>
            \A d \in Dir : raw[d] - web.raw[d] <= carried[d] - web.since[d]
      /\ \A d \in Dir : TotalWritten(d) => mem.total[d] = web.want[d]
      /\ \A d \in Dir : SyncWritten(d) =>
            raw[d] + mem.sync[d] <= web.want[d] + carried[d] - web.since[d]
      /\ web.at \in {"save", "rename"} => WithinSoFar(web.buf, After(web.want, web.since))
      /\ web.at = "set4" => web.read = web.want["up"]
      /\ web.at = "set6" => web.read = web.want["down"]
  BY <1>1 DEF Asking, After
<1>6. web.at \notin {"save", "rename"} =>
         \A d \in Dir : raw'[d] - web.raw[d] <= carried'[d] - web.since[d]
  BY <1>4, <1>5
<1>7. \A d \in Dir : SyncWritten(d) =>
         raw'[d] + mem.sync[d] <= web.want[d] + carried'[d] - web.since[d]
  BY <1>4, <1>5
<1>8. web.at \in {"save", "rename"} => WithinSoFar(web.buf, After(web.want, web.since))'
  <2> SUFFICES ASSUME web.at \in {"save", "rename"}
               PROVE  WithinSoFar(web.buf, After(web.want, web.since))'
    OBVIOUS
  <2>1. PICK b \in Buffers, w \in Bytes, t \in Bytes :
           b = web.buf /\ w = web.want /\ t = web.since
    BY Parts DEF TypeInv
  <2>2. /\ After(w, t) \in [Dir -> Int] /\ After(w, t)' \in [Dir -> Int]
        /\ \A d \in Dir : After(w, t)'[d] - After(w, t)[d] = carried'[d] - carried[d]
    BY AfterType
  <2>3. PICK B \in [Dir -> Int], C \in [Dir -> Int] : B = After(w, t) /\ C = After(w, t)'
    BY <2>2
  <2>4. WithinSoFar(b, B)
    BY <1>5, <2>1, <2>3
  <2>5. WithinSoFar(b, C)'
    <3>1. CASE Unshared
      BY <2>2, <2>3, <2>4, <3>1, SoFarTraffic
    <3>2. CASE ~Unshared
      <4>1. B = C
        BY <1>1, <2>3, <3>2 DEF After
      <4> QED BY <1>1, <2>4, <3>2, <4>1 DEF WithinSoFar
    <3> QED BY <3>1, <3>2
  <2> QED BY <1>1, <2>1, <2>3, <2>5 DEF WithinSoFar, After
<1> QED BY <1>1, <1>3, <1>5, <1>6, <1>7, <1>8 DEF Asking, TotalWritten, SyncWritten, After

\* The assignments of an undisturbed handler build the answer's bound, its save puts it
\* on disk, and the engine, idle meanwhile, holds nothing older.
LEMMA PromiseDashboard ==
    ASSUME TypeInv, TypeInv', PromiseInv, Dashboard
    PROVE  PromiseInv'
<1> USE DEF kernel, files, dashboard, engine
<1>0. /\ \A e \in Dir : /\ {raw[e], snap[e], carried[e], web.raw[e], web.want[e],
                            web.since[e]} \subseteq Nat
                        /\ {mem.total[e], mem.sync[e]} \subseteq Int
                        /\ web.since[e] <= carried[e]
      /\ mem \in Record /\ web.want \in Bytes /\ web.since \in Bytes /\ web.read \in Nat
      /\ \A e \in Dir : After(web.want, web.since)[e] = web.want[e] + carried[e] - web.since[e]
  BY Parts DEF TypeInv, StageInv, After
<1>1. ASSUME NEW kind \in Kinds, Request(kind) PROVE PromiseInv'
  <2>1. /\ claim' = None /\ web'.at = kind /\ web'.raw = raw /\ UNCHANGED <<vars, engine>>
        /\ web'.since = (IF Reconciling THEN snap ELSE carried)
        /\ kind = "reset" => web'.want = Zero
    BY <1>1 DEF Request, Idle
  <2>2. clean' => ~Reconciling
    BY <1>1 DEF Request, EngineBusy
  <2>3. Promised'
    BY <2>1 DEF Promised
  <2>4. clean' => web'.since = carried
    BY <2>1, <2>2
  <2>5. \A e \in Dir : ~TotalWritten(e)' /\ ~SyncWritten(e)'
    BY <2>1 DEF TotalWritten, SyncWritten, Kinds
  <2>6. Asking'
    BY <1>0, <2>1, <2>2, <2>4, <2>5 DEF Asking, Kinds, vars, Reconciling, Zero
  <2> QED BY <2>3, <2>6 DEF PromiseInv
<1>2. ASSUME ~(\E kind \in Kinds : Request(kind))
      PROVE  web.at # "none" /\ claim = None
  BY <1>2 DEF Dashboard, Reset, SetSync, WriteTotal, WriteSync, ReadTotal, WriteSyncFromTotal,
              Handle, WebMarshal, WebAnswer, WebSaveFails, PromiseInv, Promised, Kinds
<1>3. ASSUME Quiet, clean'
      PROVE  clean /\ ~Reconciling /\ marshalled.n = 0
  <2>1. clean /\ ~EngineBusy
    BY <1>3, Zenon DEF Quiet
  <2> QED BY <2>1, Parts, BufferParts DEF EngineBusy, TypeInv, StageInv
<1>4. ASSUME clean, web.at # "none"
      PROVE  /\ web.at \in {"reset", "reset2", "reset3", "reset4"} => \A d \in Dir : web.want[d] = 0
             /\ web.at \notin {"save", "rename"} =>
                   \A d \in Dir : raw[d] - web.raw[d] <= carried[d] - web.since[d]
             /\ \A d \in Dir : TotalWritten(d) => mem.total[d] = web.want[d]
             /\ \A d \in Dir : SyncWritten(d) =>
                   raw[d] + mem.sync[d] <= After(web.want, web.since)[d]
             /\ web.at \in {"save", "rename"} =>
                   WithinSoFar(web.buf, After(web.want, web.since))
             /\ web.at = "set4" => web.read = web.want["up"]
             /\ web.at = "set6" => web.read = web.want["down"]
  BY <1>4 DEF PromiseInv, Asking
<1>5. ASSUME NEW from \in Steps, NEW to \in Steps, Handle(from, to), Quiet,
             claim = None, claim' = claim,
             UNCHANGED <<kernel, pc, snap, files, stage, live, marshalled>>,
             from \notin {"none", "save", "rename"},
             to \notin {"none", "rename", "set4", "set6"},
             to \in {"reset", "reset2", "reset3", "reset4"} =>
                 from \in {"reset", "reset2", "reset3", "reset4"},
             clean /\ ~Reconciling =>
                 \A d \in Dir : /\ TotalWritten(d)' => mem'.total[d] = web.want[d]
                                /\ SyncWritten(d)' =>
                                     raw[d] + mem'.sync[d] <= After(web.want, web.since)[d]
      PROVE  PromiseInv'
  <2>1. /\ web'.at = to /\ web'.want = web.want /\ web'.since = web.since
        /\ to # "save" => web'.raw = web.raw
        /\ web'.buf = web.buf /\ web'.buf.n = 0
    BY <1>5, Parts DEF Handle, TypeInv, StageInv
  <2>2. web.at = from
    BY <1>5 DEF Handle
  <2>3. Promised'
    BY <1>5 DEF Promised
  <2>4. Asking'
    <3> SUFFICES ASSUME clean' PROVE Asking'
      BY DEF Asking
    <3>1. clean /\ ~Reconciling /\ web.at # "none"
      BY <1>3, <1>5, <2>2
    <3>2. \A d \in Dir : /\ TotalWritten(d)' => mem'.total[d] = web.want[d]
                         /\ SyncWritten(d)' =>
                              raw[d] + mem'.sync[d] <= After(web.want, web.since)[d]
      BY <1>5, <3>1
    <3>3. /\ to \in {"reset", "reset2", "reset3", "reset4"} => \A d \in Dir : web.want[d] = 0
          /\ \A d \in Dir : raw[d] - web.raw[d] <= carried[d] - web.since[d]
      BY <1>4, <1>5, <2>2, <3>1
    <3>4. WithinSoFar(web.buf, After(web.want, web.since))'
      <4>1. \A d \in Dir : ~(web'.buf.n > TotalAt[d]) /\ ~(web'.buf.n > SyncAt[d])
        BY <2>1 DEF TotalAt, SyncAt, Dir
      <4> QED BY <4>1 DEF WithinSoFar
    <3> QED BY <1>5, <2>1, <3>1, <3>2, <3>3, <3>4 DEF Asking, Reconciling, After
  <2> QED BY <2>3, <2>4 DEF PromiseInv
<1>6. ASSUME NEW d \in Dir, NEW from \in Steps, NEW to \in Steps, WriteTotal(d, from, to),
             <<d, from, to>> \in {<<"up", "reset", "reset2">>, <<"down", "reset2", "reset3">>,
                                  <<"up", "set", "set2">>, <<"down", "set2", "set3">>}
      PROVE  PromiseInv'
  <2>1. PICK v \in Nat : v = web.want[d] /\ mem' = [mem EXCEPT !.total[d] = v]
    BY <1>0, <1>6 DEF WriteTotal
  <2>2. \A e \in Dir : mem'.total[e] = IF e = d THEN v ELSE mem.total[e]
    <3>1. mem \in Record /\ d \in Dir /\ v \in Nat /\ mem' = [mem EXCEPT !.total[d] = v]
      BY <1>0, <2>1
    <3> QED BY ONLY <3>1, TotalAssigned
  <2>3. web.at = from /\ web'.at = to
    BY <1>6, Parts DEF WriteTotal, Handle, TypeInv
  <2>4. \A e \in Dir : ~SyncWritten(e)' /\ (TotalWritten(e)' => e = d \/ TotalWritten(e))
    BY <1>6, <2>3 DEF SyncWritten, TotalWritten, Dir
  <2>5. clean => \A e \in Dir : TotalWritten(e)' => mem'.total[e] = web.want[e]
    BY <1>4, <1>6, <2>1, <2>2, <2>3, <2>4
  <2>6. from \notin {"none", "save", "rename"} /\ to \notin {"none", "rename", "set4", "set6"}
        /\ (to \in {"reset", "reset2", "reset3", "reset4"} =>
                 from \in {"reset", "reset2", "reset3", "reset4"})
    BY <1>6
  <2>7. claim = None
    BY <2>3, <2>6 DEF PromiseInv, Promised
  <2> QED BY <1>5, <1>6, <2>4, <2>5, <2>6, <2>7 DEF WriteTotal
<1>7. ASSUME NEW d \in Dir, NEW from \in Steps, NEW to \in Steps,
             \/ /\ WriteSync(d, from, to)
                /\ <<d, from, to>> \in {<<"up", "reset3", "reset4">>, <<"down", "reset4", "save">>}
             \/ /\ WriteSyncFromTotal(d, from, to)
                /\ <<d, from, to>> \in {<<"up", "set4", "set5">>, <<"down", "set6", "save">>}
      PROVE  PromiseInv'
  <2>1. /\ web.at = from /\ web'.at = to /\ Quiet /\ Handle(from, to) /\ claim' = claim
        /\ UNCHANGED <<kernel, pc, snap, files, stage, live, marshalled>>
    BY <1>7, Parts DEF WriteSync, WriteSyncFromTotal, Handle, TypeInv
  <2>2. /\ from \in {"reset3", "reset4", "set4", "set6"} /\ to \in {"reset4", "set5", "save"}
        /\ (to = "reset4" => from = "reset3")
        /\ (from = "set4" => d = "up") /\ (from = "set6" => d = "down")
    BY <1>7
  <2>3. PICK v \in Int : /\ mem' = [mem EXCEPT !.sync[d] = v]
                         /\ \/ from \in {"reset3", "reset4"} /\ v = -web.raw[d]
                            \/ from \in {"set4", "set6"} /\ v = web.read - web.raw[d]
    <3>1. -web.raw[d] \in Int /\ web.read - web.raw[d] \in Int
      BY <1>0
    <3>2. \/ mem' = [mem EXCEPT !.sync[d] = -web.raw[d]] /\ from \in {"reset3", "reset4"}
          \/ /\ mem' = [mem EXCEPT !.sync[d] = web.read - web.raw[d]]
             /\ from \in {"set4", "set6"}
      BY <1>7 DEF WriteSync, WriteSyncFromTotal
    <3> QED BY <3>1, <3>2
  <2>4. /\ \A e \in Dir : mem'.sync[e] = IF e = d THEN v ELSE mem.sync[e]
        /\ mem'.total = mem.total
    BY <1>0, <2>3, OffsetWritten
  <2>5. \A e \in Dir : TotalWritten(e) /\ (SyncWritten(e)' => e = d \/ SyncWritten(e))
    BY <1>7, <2>1, <2>2 DEF SyncWritten, TotalWritten, Dir
  <2>6. clean => \A e \in Dir :
           /\ mem'.total[e] = web.want[e]
           /\ SyncWritten(e)' => raw[e] + mem'.sync[e] <= After(web.want, web.since)[e]
    <3> SUFFICES ASSUME clean, NEW e \in Dir
                 PROVE  /\ mem'.total[e] = web.want[e]
                        /\ SyncWritten(e)' =>
                             raw[e] + mem'.sync[e] <= After(web.want, web.since)[e]
      OBVIOUS
    <3>1. /\ mem.total[e] = web.want[e] /\ raw[e] - web.raw[e] <= carried[e] - web.since[e]
          /\ from \in {"reset3", "reset4"} => web.want[e] = 0
          /\ from \in {"set4", "set6"} /\ e = d => web.read = web.want[e]
          /\ SyncWritten(e) => raw[e] + mem.sync[e] <= After(web.want, web.since)[e]
      BY <1>4, <2>1, <2>2, <2>5
    <3>2. CASE e = d
      <4>1. v = web.want[e] - web.raw[e]
        BY <1>0, <2>3, <3>1, <3>2
      <4>2. raw[e] + v <= web.want[e] + carried[e] - web.since[e]
        BY <1>0, <3>1, <4>1
      <4> QED BY <1>0, <2>4, <3>1, <3>2, <4>2
    <3>3. CASE e # d
      BY <2>4, <2>5, <3>1, <3>3
    <3> QED BY <3>2, <3>3
  <2>7. claim = None
    BY <2>1, <2>2 DEF PromiseInv, Promised
  <2>8. /\ from \notin {"none", "save", "rename"} /\ to \notin {"none", "rename", "set4", "set6"}
        /\ (to \in {"reset", "reset2", "reset3", "reset4"} =>
                 from \in {"reset", "reset2", "reset3", "reset4"})
    BY <2>2
  <2> QED BY <1>5, <2>1, <2>6, <2>7, <2>8
<1>8. ASSUME clean, web.at \in {"save", "rename"}
      PROVE  Within(mem, After(web.want, web.since))
  <2>1. \A e \in Dir : TotalWritten(e) /\ SyncWritten(e)
    BY <1>8 DEF TotalWritten, SyncWritten
  <2>2. \A e \in Dir : /\ mem.total[e] = web.want[e]
                       /\ raw[e] + mem.sync[e] <= After(web.want, web.since)[e]
    BY <1>4, <1>8, <2>1
  <2>3. \A e \in Dir : web.want[e] <= After(web.want, web.since)[e]
    BY <1>0
  <2> QED BY <2>2, <2>3 DEF Within
<1>14. ASSUME NEW d \in Dir, NEW from \in Steps, NEW to \in Steps, ReadTotal(d, from, to),
              <<d, from, to>> \in {<<"up", "set3", "set4">>, <<"down", "set5", "set6">>}
       PROVE  PromiseInv'
  <2>1. /\ web.at = from /\ web'.at = to /\ web'.read = mem.total[d] /\ web'.want = web.want
        /\ web'.since = web.since /\ web'.raw = web.raw /\ web'.buf = web.buf
        /\ UNCHANGED <<vars, engine>> /\ claim' = claim /\ Quiet
    BY <1>14, Parts DEF ReadTotal, TypeInv
  <2>2. Promised'
    BY <1>14, <2>1 DEF PromiseInv, Promised
  <2>3. Asking'
    <3> SUFFICES ASSUME clean' PROVE Asking'
      BY DEF Asking
    <3>1. clean /\ ~Reconciling /\ web.at # "none"
      BY <1>3, <1>14, <2>1
    <3>2. \A e \in Dir : TotalWritten(e) /\ mem.total[e] = web.want[e]
      BY <1>4, <1>14, <2>1, <3>1 DEF TotalWritten, Dir
    <3>3. \A e \in Dir : SyncWritten(e)' => SyncWritten(e)
      BY <1>14, <2>1 DEF SyncWritten, Dir
    <3>4. /\ \A e \in Dir : raw[e] - web.raw[e] <= carried[e] - web.since[e]
          /\ \A e \in Dir : SyncWritten(e) => raw[e] + mem.sync[e] <= After(web.want, web.since)[e]
      BY <1>4, <1>14, <2>1, <3>1
    <3>5. to \in {"set4", "set6"} /\ (to = "set4" => d = "up") /\ (to = "set6" => d = "down")
      BY <1>14
    <3> QED BY <2>1, <3>1, <3>2, <3>3, <3>4, <3>5 DEF Asking, vars, Reconciling, After
  <2> QED BY <2>2, <2>3 DEF PromiseInv
<1>9. CASE WebMarshal
  <2>1. /\ web'.at \in {"save", "rename"} /\ web'.want = web.want /\ web'.since = web.since
        /\ web'.buf = Copied(web.buf)
        /\ UNCHANGED <<vars, engine>> /\ claim' = claim /\ Quiet /\ web.at = "save"
    BY <1>9, Parts DEF WebMarshal, TypeInv
  <2>2. Promised'
    BY <2>1 DEF PromiseInv, Promised
  <2>3. Asking'
    <3> SUFFICES ASSUME clean' PROVE Asking'
      BY DEF Asking
    <3>1. clean /\ ~Reconciling
      BY <1>3, <2>1
    <3>2. Within(mem, After(web.want, web.since))
      BY <1>8, <2>1, <3>1
    <3>3. \A e \in Dir : /\ mem.total[e] = web.want[e]
                         /\ raw[e] + mem.sync[e] <= After(web.want, web.since)[e]
      BY <1>4, <2>1, <3>1 DEF TotalWritten, SyncWritten
    <3>4. WithinSoFar(Copied(web.buf), After(web.want, web.since))
      <4>1. /\ After(web.want, web.since) \in [Dir -> Int] /\ web.buf \in Buffers
            /\ web.buf.n < Whole
        BY <1>0, <2>1, Parts, AfterType DEF TypeInv, StageInv
      <4>2. WithinSoFar(web.buf, After(web.want, web.since))
        BY <1>4, <2>1, <3>1
      <4> QED BY <1>0, <3>2, <4>1, <4>2, CopiedWithin
    <3> QED BY <2>1, <3>1, <3>3, <3>4 DEF Asking, vars, Reconciling, WithinSoFar, After
  <2> QED BY <2>2, <2>3 DEF PromiseInv
<1>10. CASE WebAnswer
  <2>1. /\ web' = Idle /\ disk' = web.buf.rec /\ Quiet /\ web.at = "rename"
        /\ claim' = [kind |-> "claim", want |-> web.want, since |-> web.since]
        /\ UNCHANGED <<raw, carried, pc, snap, mem, stage, live, marshalled>>
    BY <1>10 DEF WebAnswer
  <2>2. web'.at = "none" /\ claim'.want = web.want /\ claim'.since = web.since
    BY <2>1 DEF Idle
  <2>3. Asking'
    BY <2>2 DEF Asking
  <2>4. clean' => EngineWithin(After(claim.want, claim.since))'
    <3> SUFFICES ASSUME clean' PROVE EngineWithin(After(claim.want, claim.since))'
      OBVIOUS
    <3>1. clean /\ ~Reconciling /\ marshalled.n = 0
      BY <1>3, <2>1
    <3>2. /\ After(web.want, web.since) \in [Dir -> Int] /\ web.buf \in Buffers
          /\ marshalled \in Buffers /\ web.buf.n = Whole
      BY <1>0, <2>1, Parts, AfterType DEF TypeInv, StageInv
    <3>3. Within(mem, After(web.want, web.since)) /\ WithinSoFar(web.buf, After(web.want, web.since))
      BY <1>4, <1>8, <2>1, <3>1
    <3>4. /\ Within(web.buf.rec, After(web.want, web.since))
          /\ WithinSoFar(marshalled, After(web.want, web.since))
      BY <3>1, <3>2, <3>3, BlankAndWhole
    <3> QED BY <2>1, <2>2, <3>1, <3>3, <3>4
            DEF EngineWithin, Within, WithinSoFar, After, Reconciling
  <2> QED BY <2>2, <2>3, <2>4 DEF PromiseInv, Promised
<1>11. CASE WebSaveFails
  BY <1>11 DEF WebSaveFails, Idle, PromiseInv, Promised, Asking
<1>12. CASE Reset
  BY <1>1, <1>6, <1>7, <1>12 DEF Reset, Steps, Dir, Kinds
<1>13. CASE SetSync
  BY <1>1, <1>6, <1>7, <1>13, <1>14 DEF SetSync, Steps, Dir, Kinds
<1> QED BY <1>9, <1>10, <1>11, <1>12, <1>13 DEF Dashboard

\* A promise survives every step of the engine, and every step of the dashboard makes a
\* promise that holds or withdraws it.
LEMMA PromiseNext == TypeInv /\ TypeInv' /\ PromiseInv /\ [TNext]_trackingVars => PromiseInv'
<1> SUFFICES ASSUME TypeInv, TypeInv', PromiseInv, [TNext]_trackingVars PROVE PromiseInv'
  OBVIOUS
<1>1. CASE Dashboard
  BY <1>1, PromiseDashboard
<1>2. CASE Unshared \/ TStart \/ EngineCycle \/ TKill
  BY <1>2, PromiseEngine, AskingEngine DEF PromiseInv
<1>3. CASE UNCHANGED trackingVars
  BY <1>3 DEF trackingVars, vars, dashboard, engine, PromiseInv, Asking, Promised, EngineWithin,
              Within, WithinSoFar, Reconciling, Computed, After, TotalWritten, SyncWritten
<1> QED BY <1>1, <1>2, <1>3 DEF TNext

\* An answered reset or set whose handler no reconcile and no save overlapped bounds the
\* totals from then on, across saves, kills, restarts and resets of the counters.
THEOREM UndisturbedHolds == TSpec => []UndisturbedResetHolds
<1>1. TypeInv /\ PromiseInv => UndisturbedResetHolds
  <2> SUFFICES ASSUME TypeInv, PromiseInv, claim # None, clean, NEW d \in Dir
               PROVE  mem.total[d] <= claim.want[d] + carried[d] - claim.since[d]
    BY DEF UndisturbedResetHolds
  <2>1. mem.total[d] <= After(claim.want, claim.since)[d]
    BY DEF PromiseInv, Promised, EngineWithin, Within
  <2> QED BY <2>1 DEF After
<1> QED BY <1>1, TrackingTypeInit, TrackingTypeNext, PromiseInit, PromiseNext, PTL DEF TSpec
=============================================================================
