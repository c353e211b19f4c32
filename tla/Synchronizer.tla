---------------------------- MODULE Synchronizer ----------------------------
(***************************************************************************)
(* The reboot-aware synchronizer: the kernel's interface counters, the     *)
(* engine cycle that turns them into lifetime totals (netstat.Read,        *)
(* Engine.reconcile), the state file the totals are kept in, and the       *)
(* restarts between them.  The dashboard is not here: the engine is the    *)
(* only writer of the totals (module Tracking adds the other writer).      *)
(*                                                                         *)
(* A cycle reads the counters, reconciles, perhaps uploads and reads and   *)
(* reconciles again, then saves.  Traffic, a counter reset, the selection  *)
(* of another interface, a panic, a failed read or save, SIGKILL and a     *)
(* reboot may fall between any two of these steps.                         *)
(***************************************************************************)
EXTENDS Integers

CONSTANTS MaxCarried,   \* bound: bytes carried in both directions
          MaxGained,    \* bound: bytes selections raise the counters by
          MaxResets,    \* bound: times the kernel counters go backwards
          MaxStarts     \* bound: times the service is started

ASSUME BoundsAssumption ==
    /\ MaxCarried \in Nat
    /\ MaxGained \in Nat
    /\ MaxResets \in Nat
    /\ MaxStarts \in Nat

Dir == {"up", "down"}   \* TxBytes and RxBytes

Bytes == [Dir -> Nat]

\* The part of state.State the synchronizer owns: the lifetime totals and the
\* offsets that turn a raw counter into a total.
Record == [total : Bytes, sync : [Dir -> Int]]

Zero == [d \in Dir |-> 0]

Both(f) == f["up"] + f["down"]

FirstRun == [total |-> Zero, sync |-> Zero]

VARIABLES raw,        \* kernel: byte counters of the interface selected
          carried,    \* history: bytes carried by the interface selected
          gained,     \* history: bytes a selection raised the counters by, not carried
          resets,     \* history: times the counters went backwards
          pc,         \* where the engine goroutine is, "off" with no process
          snap,       \* the counters a cycle read and has not reconciled, else Zero
          mem,        \* *state.State in memory; with no process, what the next one loads
          disk,       \* the record in the live state file
          durable,    \* the record a loss of power falls back to
          starts,     \* history: times the service was started
          anchors     \* history: times a reboot was detected

kernel  == <<raw, carried, gained, resets>>
files   == <<disk, durable>>
vars    == <<raw, carried, gained, resets, pc, snap, mem, disk, durable, starts, anchors>>

Init ==
    /\ raw \in [Dir -> 0..MaxCarried] /\ Both(raw) <= MaxCarried
    /\ carried = raw
    /\ gained = Zero
    /\ resets = 0
    /\ pc = "off"
    /\ snap = Zero
    /\ mem = FirstRun
    /\ disk = FirstRun
    /\ durable = FirstRun
    /\ starts = 0
    /\ anchors = 0

-----------------------------------------------------------------------------
(* The kernel.                                                             *)

Carry(d) ==
    /\ Both(carried) < MaxCarried
    /\ raw' = [raw EXCEPT ![d] = @ + 1]
    /\ carried' = [carried EXCEPT ![d] = @ + 1]
    /\ UNCHANGED <<gained, resets, pc, snap, mem, files, starts, anchors>>

\* An interface of the sum is removed or created anew: the sum loses any part.
InterfaceReset ==
    /\ resets < MaxResets
    /\ \E r \in [Dir -> 0..MaxCarried] :
          /\ \A d \in Dir : r[d] <= raw[d]
          /\ r # raw
          /\ raw' = r
    /\ resets' = resets + 1
    /\ UNCHANGED <<carried, gained, pc, snap, mem, files, starts, anchors>>

Rise(from, to) == IF to > from THEN to - from ELSE 0

\* network.interface is edited: from then on the counters are those of another
\* interface, or of all, which have nothing to do with the ones before.  A cycle
\* reads the name once, so both its readings are of one interface.
SelectInterface ==
    /\ pc \notin {"reconcile", "upload"}
    /\ \E r \in [Dir -> 0..MaxCarried] :
          /\ raw' = r
          /\ \E d \in Dir : r[d] > raw[d]
          /\ gained' = [d \in Dir |-> gained[d] + Rise(raw[d], r[d])]
          /\ Both(gained') <= MaxGained
          /\ IF \E d \in Dir : r[d] < raw[d]
             THEN resets < MaxResets /\ resets' = resets + 1
             ELSE resets' = resets
    /\ UNCHANGED <<carried, pc, snap, mem, files, starts, anchors>>

-----------------------------------------------------------------------------
(* The process: main starts it, the engine cycles, a signal ends it.       *)

Start ==
    /\ pc = "off"
    /\ starts < MaxStarts
    /\ starts' = starts + 1
    /\ mem' = disk
    /\ pc' = "idle"
    /\ UNCHANGED <<kernel, snap, files, anchors>>

\* netstat.Read succeeds; a failed read ends the cycle with nothing changed.
ReadCounters ==
    /\ pc = "idle"
    /\ snap' = raw
    /\ pc' = "reconcile"
    /\ UNCHANGED <<kernel, mem, files, starts, anchors>>

\* Mutants of the definitions below, each a slip the code could have had.
RebootedOnBoth(s, c) == \A d \in Dir : c[d] + s.sync[d] < s.total[d]

RebootedOnRise(s, c) == \E d \in Dir : c[d] + s.sync[d] # s.total[d]

ReanchoredTotal(s, c) == [s EXCEPT !.total = [d \in Dir |-> s.total[d] - c[d]]]

AnchoredAtOldSync(s, c) ==
    [s EXCEPT !.sync = [d \in Dir |-> s.total[d] + s.sync[d] - c[d]]]

AnchoredOneSide(s, c) == [s EXCEPT !.sync["up"] = s.total["up"] - c["up"]]

Live(s, c) == [d \in Dir |-> c[d] + s.sync[d]]

Rebooted(s, c) == \E d \in Dir : Live(s, c)[d] < s.total[d]

Reanchored(s, c) == [s EXCEPT !.sync = [d \in Dir |-> s.total[d] - c[d]]]

\* Mutant: only the upload total advances.
AdvancedOneSide(s, c) == [s EXCEPT !.total["up"] = c["up"] + s.sync["up"]]

Advanced(s, c) == [s EXCEPT !.total = Live(s, c)]

reconcile(s, c) == IF Rebooted(s, c) THEN Reanchored(s, c) ELSE Advanced(s, c)

\* Both reconciles of a cycle: the one at its start leads to the upload, the
\* one after the upload to the save.
Reconcile ==
    /\ \/ pc = "reconcile" /\ pc' = "upload"
       \/ pc = "recheck" /\ pc' = "save"
    /\ mem' = reconcile(mem, snap)
    /\ anchors' = IF Rebooted(mem, snap) THEN anchors + 1 ELSE anchors
    /\ snap' = Zero
    /\ UNCHANGED <<kernel, files, starts>>

\* No deficit, no worker, or a failed re-read: straight to the save.
SkipRecheck ==
    /\ pc = "upload"
    /\ pc' = "save"
    /\ UNCHANGED <<kernel, snap, mem, files, starts, anchors>>

\* The uploader returned and the counters were read again.
ReadAgain ==
    /\ pc = "upload"
    /\ snap' = raw
    /\ pc' = "recheck"
    /\ UNCHANGED <<kernel, mem, files, starts, anchors>>

\* recover() in Engine.cycle: the rest of the cycle, the save too, is skipped.
Panic ==
    /\ pc \in {"upload", "save"}
    /\ pc' = "idle"
    /\ UNCHANGED <<kernel, snap, mem, files, starts, anchors>>

\* SIGTERM: the loop ends between two cycles.
Terminate ==
    /\ pc = "idle"
    /\ pc' = "stopping"
    /\ UNCHANGED <<kernel, snap, mem, files, starts, anchors>>

AfterSave == [save |-> "idle", stopping |-> "exiting", exiting |-> "off"]

\* The save of a cycle, of Engine.Run on its way out and of main after it.
Save ==
    /\ pc \in DOMAIN AfterSave
    /\ pc' = AfterSave[pc]
    /\ disk' = mem
    /\ UNCHANGED <<kernel, snap, mem, durable, starts, anchors>>

SaveFails ==
    /\ pc \in DOMAIN AfterSave
    /\ pc' = AfterSave[pc]
    /\ mem' = IF pc' = "off" THEN disk ELSE mem
    /\ UNCHANGED <<kernel, snap, files, starts, anchors>>

-----------------------------------------------------------------------------
(* Crashes.                                                                *)

\* SIGKILL, OOM or a fatal runtime error: the file system survives.
Kill ==
    /\ pc # "off"
    /\ pc' = "off"
    /\ snap' = Zero
    /\ mem' = disk
    /\ UNCHANGED <<kernel, files, starts, anchors>>

\* Save fsyncs the file but not the directory: the rename reaches the journal
\* some time later.
Journal ==
    /\ durable # disk
    /\ durable' = disk
    /\ UNCHANGED <<kernel, pc, snap, mem, disk, starts, anchors>>

\* A reboot or a loss of power: the counters start again from zero.
Reboot ==
    /\ resets < MaxResets
    /\ raw' = Zero
    /\ resets' = resets + 1
    /\ pc' = "off"
    /\ snap' = Zero
    /\ disk' = durable
    /\ mem' = durable
    /\ UNCHANGED <<carried, gained, durable, starts, anchors>>

Cycle == ReadCounters \/ Reconcile \/ SkipRecheck \/ ReadAgain \/ Panic

Exit == Terminate \/ Save \/ SaveFails

Crash == Kill \/ Reboot

Next ==
    \/ \E d \in Dir : Carry(d)
    \/ InterfaceReset
    \/ SelectInterface
    \/ Start
    \/ Cycle
    \/ Exit
    \/ Crash
    \/ Journal

Spec == Init /\ [][Next]_vars

\* The loop never stays in a cycle and sleeps for a bounded time between two of
\* them while general.running holds; that the service is started again is no
\* promise of the code.
Fairness ==
    /\ WF_vars(ReadCounters)
    /\ WF_vars(Reconcile)
    /\ WF_vars(SkipRecheck \/ ReadAgain \/ Panic)
    /\ WF_vars(Save \/ SaveFails)

FairSpec == Spec /\ Fairness

-----------------------------------------------------------------------------
(* Properties.                                                             *)

PC == {"off", "idle", "reconcile", "upload", "recheck", "save", "stopping",
       "exiting"}

\* Every variable has its type; a total is never negative.
TypeOK ==
    /\ raw \in Bytes
    /\ carried \in Bytes
    /\ gained \in Bytes
    /\ resets \in Nat
    /\ pc \in PC
    /\ snap \in Bytes
    /\ mem \in Record
    /\ disk \in Record
    /\ durable \in Record
    /\ starts \in Nat
    /\ anchors \in Nat

\* What the totals may show at most: what was carried, and what a selection made
\* the counters show over again.
Counted == [d \in Dir |-> carried[d] + gained[d]]

\* A record is sound when neither its totals nor what the counters would make
\* of them exceed that.
Sound(s) == \A d \in Dir : s.total[d] <= Counted[d] /\ raw[d] + s.sync[d] <= Counted[d]

\* However counters are reset, saves fail and records of different age are
\* loaded, no record in memory or on disk ever counts a byte twice but for the
\* bytes by which a selection of another interface raised the counters: these the
\* code takes for traffic (Engine.reconcile keeps the total when a counter falls
\* and follows one that rises).
NeverOvercounts == Sound(mem) /\ Sound(disk) /\ Sound(durable)

\* While no counter went backwards the offsets stay zero whatever crashes and
\* restarts happen: a process restart is never taken for a reboot, and every
\* record is exact (Engine.reconcile, state.Load).
NoFalseReboot ==
    resets = 0 => \A s \in {mem, disk, durable} : s.sync = Zero

\* A reset loses the bytes around one re-anchoring, not more: within one life
\* of the process the same reset is not detected twice, although it may hit one
\* counter or both and may fall between the read and the reconcile.  Only a
\* restart that loads an older record may detect it again.
Restarts == IF starts > 0 THEN starts - 1 ELSE 0

OneAnchorPerReset == anchors <= resets + Restarts

\* What this module promises of the totals: they are bounded by what the counters
\* showed, fall in no step of a running process, and a restart falls back to the
\* newest saved record, a loss of power to the journalled one.
Lifetime == INSTANCE LifetimeTotal
            WITH counted <- Counted, up <- pc # "off", shown <- mem.total,
                 saved <- disk.total, kept <- durable.total

ImplementsLifetime == Lifetime!Spec

\* Once traffic, resets and kills cease, the running service shows exactly
\* the counters plus the offsets: no byte stays uncounted (Engine.Run).
CatchesUp ==
    <>[](pc # "off" => \A d \in Dir : mem.total[d] = raw[d] + mem.sync[d])
=============================================================================
