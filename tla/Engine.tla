------------------------------- MODULE Engine -------------------------------
(***************************************************************************)
(* The traffic loop of the daemon: Engine.Run and runCycle with the gate   *)
(* on general.running, the config snapshot of a cycle, the volume window,  *)
(* the worker ramp, the recover around a cycle, and the shutdown that main *)
(* drives (engine, metering, state, web server).                           *)
(*                                                                         *)
(* The lifetime totals are in Synchronizer, the workers inside a RunCycle  *)
(* in Uploader: here a RunCycle is one interval at whose end any number of *)
(* bytes the uploader may have sent has been sent.  Computation takes no   *)
(* time; uploads and sleeps do.                                            *)
(***************************************************************************)
EXTENDS Integers, FiniteSets

CONSTANTS WindowLen,    \* target.volume.window, in ticks
          Share,        \* Share[t]: bytes the curve grants t ticks into a window
          MaxCycle,     \* maxCycleDuration, in ticks
          Interval,     \* general.interval_min .. interval_max, in ticks
          Percent,      \* 100 * uploader.cycle_budget_fraction
          MaxDatagram,  \* uploader.max_datagram
          MaxWorkers,   \* uploader.max_workers
          MaxRamp,      \* uploader.max_ramp
          DevWorkers,   \* dev.workers
          Curve,        \* worker targets the curve can ask for
          RatioDeficits, \* what RatioDeficit can return
          Loaded,       \* configs the daemon may find at its start
          MaxTime,      \* bound on the clock
          MaxEdits,     \* bound on config changes
          MaxFaults     \* bound on crashes, panics and failed saves

Configs == [running : BOOLEAN, dev : BOOLEAN, asns : BOOLEAN, mode : {"volume", "ratio"}]

ASSUME EngineAssumption ==
    /\ WindowLen \in Nat \ {0}
    /\ Share \in [0..WindowLen -> Nat]
    /\ \A s, t \in 0..WindowLen : s <= t => Share[s] <= Share[t]
    /\ Percent \in 5..100
    /\ {MaxDatagram, MaxWorkers, MaxRamp, DevWorkers} \subseteq Nat \ {0}
    /\ MaxCycle \in Nat /\ Interval \subseteq Nat /\ Curve \subseteq Nat
    /\ RatioDeficits \subseteq Nat /\ Loaded \subseteq Configs
    /\ {MaxTime, MaxEdits, MaxFaults} \subseteq Nat

Budget == Share[WindowLen]          \* target.volume.bytes

Unset == -1                         \* WindowStart.IsZero()

VARIABLES cfg,      \* the live config (ConfigHolder)
          now,      \* clock
          signalled, \* SIGTERM was delivered: ctx is done
          pc,       \* the engine goroutine, then main after it
          snap,     \* config of this cycle
          wake,     \* when the upload's deadline or the sleep's timer fires
          deficit, workers,         \* locals of runCycle
          sent,     \* bytes of this cycle's RunCycle
          prevWorkers,              \* e.prevWorkers
          window,   \* WindowStart and WindowSentBytes in memory
          disk,     \* the same in the state file
          web,      \* the dashboard's goroutine: "on" or "off"
          spent,    \* history: what volume mode has sent in the latest window
          stopped,  \* history: when a stopped service was stopped
          last,     \* history: workers of the cycle before, 0 when it sent nothing
          edits, faults

config  == <<cfg, edits, stopped>>
control == <<pc, snap, wake>>
locals  == <<deficit, workers, sent>>
vars    == <<cfg, now, signalled, pc, snap, wake, deficit, workers, sent, prevWorkers,
             window, disk, web, spent, stopped, last, edits, faults>>

Smaller(a, b) == IF a < b THEN a ELSE b

Larger(a, b) == IF a > b THEN a ELSE b

Init ==
    /\ cfg \in Loaded
    /\ now = 0
    /\ signalled = FALSE
    /\ pc = "gate"
    /\ snap = cfg
    /\ wake = 0
    /\ deficit = 0 /\ workers = 0 /\ sent = 0
    /\ prevWorkers = 0
    /\ window = [start |-> Unset, sent |-> 0]
    /\ disk = window
    /\ web = "on"
    /\ spent = window
    /\ stopped = IF cfg.running THEN Unset ELSE 0
    /\ last = 0
    /\ edits = 0
    /\ faults = 0

-----------------------------------------------------------------------------
(* Time and the dashboard.                                                 *)

\* Nothing overruns its deadline: the upload's context, the sleep's timer.
Tick ==
    /\ now < MaxTime
    /\ pc \in {"upload", "sleep"} /\ now < wake
    /\ now' = now + 1
    /\ UNCHANGED <<config, signalled, control, locals, prevWorkers, window, disk,
                   web, spent, last, faults>>

Edit ==
    /\ edits < MaxEdits
    /\ web = "on"
    /\ \E f \in DOMAIN cfg, c \in Configs :
          /\ cfg' = [cfg EXCEPT ![f] = c[f]]
          /\ cfg' # cfg
    /\ stopped' = CASE cfg'.running -> Unset
                    [] cfg.running /\ ~cfg'.running -> now
                    [] OTHER -> stopped
    /\ edits' = edits + 1
    /\ UNCHANGED <<now, signalled, control, locals, prevWorkers, window, disk,
                   web, spent, last, faults>>

-----------------------------------------------------------------------------
(* The loop.                                                               *)

SleepFor(d) == pc' = "sleep" /\ wake' = now + d

\* Mutant: a stopped service polls before it looks at ctx.
PollFirst ==
    /\ pc = "gate"
    /\ \/ ~cfg.running /\ SleepFor(1)
       \/ signalled /\ cfg.running /\ pc' = "join" /\ wake' = wake
       \/ ~signalled /\ cfg.running /\ pc' = "reconcile" /\ wake' = wake
    /\ UNCHANGED <<config, now, signalled, snap, locals, prevWorkers, window, disk, web,
                   spent, last, faults>>

\* The top of the loop: done, stopped (poll again in a tick), or a cycle.
Gate ==
    /\ pc = "gate"
    /\ \/ signalled /\ pc' = "join" /\ wake' = wake
       \/ ~signalled /\ ~cfg.running /\ SleepFor(1)
       \/ ~signalled /\ cfg.running /\ pc' = "reconcile" /\ wake' = wake
    /\ UNCHANGED <<config, now, signalled, snap, locals, prevWorkers, window, disk, web,
                   spent, last, faults>>

Wake ==
    /\ pc = "sleep"
    /\ now >= wake \/ signalled
    /\ pc' = "gate"
    /\ wake' = 0
    /\ UNCHANGED <<config, now, signalled, snap, locals, prevWorkers, window, disk,
                   web, spent, last, faults>>

\* runCycle returns, its locals die, and the loop sleeps.
CycleEnds ==
    /\ \E d \in Interval : SleepFor(d)
    /\ last' = workers
    /\ snap' = cfg /\ deficit' = 0 /\ workers' = 0 /\ sent' = 0

\* netstat.Read fails: the cycle is over.
NetstatFails ==
    /\ pc = "reconcile"
    /\ CycleEnds
    /\ UNCHANGED <<config, now, signalled, prevWorkers, window, disk,
                   web, spent, faults>>

\* rollWindow: the window that contains now; a new one has nothing sent.
Rolled(w) ==
    IF w.start = Unset THEN [start |-> now, sent |-> 0]
    ELSE IF now - w.start < WindowLen THEN w
    ELSE [start |-> w.start + WindowLen * ((now - w.start) \div WindowLen), sent |-> 0]

\* Mutant: what was sent is not taken off.
GrossDeficit(w) == Larger(0, Share[Smaller(now - w.start, WindowLen)])

\* schedule.VolumeDeficit: what the curve grants by now, less what was sent.
VolumeDeficit(w) == Larger(0, Share[Smaller(now - w.start, WindowLen)] - w.sent)

\* runCycle reads the config a second time, and works from that snapshot.
Deficit ==
    /\ pc = "reconcile"
    /\ pc' = "plan"
    /\ snap' = cfg
    /\ IF snap'.mode = "volume"
       THEN window' = Rolled(window) /\ deficit' = VolumeDeficit(window')
       ELSE deficit' \in RatioDeficits /\ window' = window
    /\ UNCHANGED <<config, now, signalled, wake, workers, sent, prevWorkers, disk,
                   web, spent, last, faults>>

Clamped(v, lo, hi) == Larger(lo, Smaller(v, hi))

slew(prev, target) == Clamped(target, prev - MaxRamp, prev + MaxRamp)

workerCount(target) ==
    IF snap.dev THEN Clamped(DevWorkers, 1, MaxWorkers)
    ELSE Clamped(slew(prevWorkers, target), 0, MaxWorkers)

\* Mutant: the upload runs until its budget is sent.
UploadUntilSpent ==
    /\ pc = "plan"
    /\ deficit > 0 /\ (snap.asns \/ snap.dev)
    /\ \E target \in Curve : workers' = workerCount(target)
    /\ workers' > 0
    /\ pc' = "upload"
    /\ wake' = MaxTime
    /\ UNCHANGED <<config, now, signalled, snap, deficit, sent, prevWorkers, window, disk,
                   web, spent, last, faults>>

\* The cycle uploads when bytes are owed, there is somewhere to send them and
\* the ramp has a worker; RunCycle then runs for at most maxCycleDuration.
Upload ==
    /\ pc = "plan"
    /\ deficit > 0 /\ (snap.asns \/ snap.dev)
    /\ \E target \in Curve : workers' = workerCount(target)
    /\ workers' > 0
    /\ pc' = "upload"
    /\ wake' = now + MaxCycle
    /\ UNCHANGED <<config, now, signalled, snap, deficit, sent, prevWorkers, window, disk,
                   web, spent, last, faults>>

Skip ==
    /\ pc = "plan"
    /\ \/ deficit = 0 \/ ~(snap.asns \/ snap.dev)
       \/ \E target \in Curve : workerCount(target) = 0
    /\ workers' = 0
    /\ sent' = 0
    /\ pc' = "account"
    /\ UNCHANGED <<config, now, signalled, snap, wake, deficit, prevWorkers, window, disk,
                   web, spent, last, faults>>

\* RunCycle: each worker has an even share of the budget, jittered by a fifth,
\* and stops after the datagram that reaches it.
Quota == ((deficit * Percent) \div 100) \div workers

MaxSent == IF Quota = 0 THEN 0 ELSE workers * ((Quota * 6) \div 5 + MaxDatagram - 1)

\* What a cycle, an interrupted one too, adds to the true volume of its window.
Spend(n) ==
    spent' = IF snap.mode # "volume" THEN spent
             ELSE IF spent.start = window.start THEN [spent EXCEPT !.sent = @ + n]
             ELSE [start |-> window.start, sent |-> n]

\* Mutant: the ramp starts from the same place each time.
UploadForgetsWorkers ==
    /\ pc = "upload"
    /\ sent' \in 0..MaxSent
    /\ Spend(sent')
    /\ pc' = "account" /\ wake' = 0
    /\ UNCHANGED <<config, now, signalled, snap, deficit, workers, prevWorkers, window,
                   disk, web, last, faults>>

\* The budget is used up, the deadline passed, the context is done, or the
\* targets failed: a cycle may return early with any amount.
UploadReturns ==
    /\ pc = "upload"
    /\ sent' \in 0..MaxSent
    /\ Spend(sent')
    /\ prevWorkers' = workers
    /\ pc' = "account" /\ wake' = 0
    /\ UNCHANGED <<config, now, signalled, snap, deficit, workers, window, disk,
                   web, last, faults>>

\* Mutant: the mode is read again after the upload.
AccountByLiveMode ==
    /\ pc = "account"
    /\ window' = IF cfg.mode = "volume" THEN [window EXCEPT !.sent = @ + sent] ELSE window
    /\ sent' = 0
    /\ pc' = "save"
    /\ UNCHANGED <<config, now, signalled, snap, wake, deficit, workers, prevWorkers, disk,
                   web, spent, last, faults>>

Account ==
    /\ pc = "account"
    /\ window' = IF snap.mode = "volume" THEN [window EXCEPT !.sent = @ + sent] ELSE window
    /\ sent' = 0
    /\ pc' = "save"
    /\ UNCHANGED <<config, now, signalled, snap, wake, deficit, workers, prevWorkers, disk,
                   web, spent, last, faults>>

Fault == faults < MaxFaults /\ faults' = faults + 1

\* state.Save: at the end of a cycle, when the loop ends, and in main.
Written == disk' = window /\ UNCHANGED faults

NotWritten == Fault /\ UNCHANGED disk

Save ==
    /\ pc = "save"
    /\ Written \/ NotWritten
    /\ CycleEnds
    /\ UNCHANGED <<config, now, signalled, prevWorkers, window, web, spent>>

\* A panic in the engine's goroutine: cycle() recovers, the loop sleeps.  RunCycle
\* itself can only panic before its workers start, and recovers theirs.
Panic ==
    /\ pc \in {"reconcile", "plan", "account", "save"}
    /\ Fault
    /\ CycleEnds
    /\ UNCHANGED <<config, now, signalled, prevWorkers, window, disk, web, spent>>

-----------------------------------------------------------------------------
(* Shutdown and crash.                                                     *)

Signal ==
    /\ pc # "done"
    /\ ~signalled
    /\ signalled' = TRUE
    /\ UNCHANGED <<config, now, control, locals, prevWorkers, window, disk, web, spent,
                   last, faults>>

\* Server.Run: Shutdown waits for open requests, five seconds at most.
WebStops ==
    /\ signalled /\ web = "on"
    /\ web' = "off"
    /\ UNCHANGED <<config, now, signalled, control, locals, prevWorkers, window, disk,
                   spent, last, faults>>

\* The dashboard cannot listen, or panics: the daemon goes on without it.
WebFails ==
    /\ web = "on"
    /\ Fault
    /\ web' = "off"
    /\ UNCHANGED <<config, now, signalled, control, locals, prevWorkers, window, disk,
                   spent, last>>

\* Run: wg.Wait for the sampler, which ends with ctx, and the final save; main:
\* metering closed and the state saved again, the web server awaited.
Join ==
    /\ pc = "join" /\ pc' = "finalsave"
    /\ UNCHANGED <<config, now, signalled, snap, wake, locals, prevWorkers, window, disk,
                   web, spent, last, faults>>

AfterFinal == [finalsave |-> "mainsave", mainsave |-> "await"]

FinalSave ==
    /\ pc \in DOMAIN AfterFinal
    /\ pc' = AfterFinal[pc]
    /\ Written \/ NotWritten
    /\ UNCHANGED <<config, now, signalled, snap, wake, locals, prevWorkers, window, web, spent, last>>

Exit ==
    /\ pc = "await" /\ web = "off" /\ pc' = "done"
    /\ UNCHANGED <<config, now, signalled, snap, wake, locals, prevWorkers, window, disk,
                   web, spent, last, faults>>

\* SIGKILL in or out of an upload, and the restart: the state file is read back.
CrashRestart ==
    /\ pc # "done"
    /\ Fault
    /\ IF pc = "upload" THEN \E n \in 0..MaxSent : Spend(n) ELSE UNCHANGED spent
    /\ window' = disk
    /\ prevWorkers' = 0
    /\ last' = 0
    /\ deficit' = 0 /\ workers' = 0 /\ sent' = 0
    /\ signalled' = FALSE
    /\ web' = "on"
    /\ pc' = "gate"
    /\ wake' = 0
    /\ snap' = cfg
    /\ UNCHANGED <<config, now, disk>>

EngineStep ==
    \/ Gate \/ Wake \/ NetstatFails \/ Deficit \/ Upload \/ Skip \/ UploadReturns
    \/ Account \/ Save \/ Panic \/ Join \/ FinalSave \/ Exit

Next ==
    \/ Tick \/ Edit \/ EngineStep
    \/ Signal \/ WebStops \/ WebFails \/ CrashRestart

Spec == Init /\ [][Next]_vars

\* Timers fire, contexts end uploads and sleeps, goroutines are scheduled.
Fairness ==
    /\ WF_vars(EngineStep)
    /\ WF_vars(Tick)
    /\ WF_vars(WebStops)

FairSpec == Spec /\ Fairness
-----------------------------------------------------------------------------
(* Properties.                                                             *)

\* Every variable stays in its type; a cycle past its gate holds an instant
\* of the window it is about to charge, and an upload has workers and a debt.
TypeOK ==
    /\ cfg \in Configs /\ snap \in Configs
    /\ now \in 0..MaxTime /\ signalled \in BOOLEAN
    /\ pc \in {"gate", "sleep", "reconcile", "plan", "upload", "account", "save",
               "join", "finalsave", "mainsave", "await", "done"}
    /\ wake \in Nat /\ deficit \in Nat /\ sent \in Nat
    /\ {workers, prevWorkers, last} \subseteq 0..MaxWorkers
    /\ {window, disk, spent} \subseteq [start : (0..now) \cup {Unset}, sent : Nat]
    /\ stopped \in (0..now) \cup {Unset}
    /\ edits \in 0..MaxEdits /\ faults \in 0..MaxFaults
    /\ web \in {"on", "off"}
    /\ pc = "upload" => workers > 0 /\ deficit > 0
    /\ pc \in {"plan", "upload", "account"} /\ snap.mode = "volume" =>
          now - MaxCycle - WindowLen < window.start /\ window.start # Unset

\* What the workers may send past their quotas: the rest of a datagram each.
LastDatagrams == MaxWorkers * (MaxDatagram - 1)

\* The most one RunCycle can send: the budget fraction of the whole window's
\* budget, a fifth more by jitter, and each worker's last datagram.
CycleMax == (Budget * Percent * 6) \div 500 + LastDatagrams

\* The volume budget is a ceiling per window (docs/RED_LINES.md E3), up to the
\* jitter and the last datagrams of the one cycle that reaches it, and up to
\* one cycle for each crash, panic or failed save, whose bytes VolumeDeficit
\* never learns of.  Overshoots do not add up from cycle to cycle.
WindowCeiling ==
    spent.sent <= Larger(Budget + LastDatagrams, CycleMax) + faults * CycleMax

\* While nothing crashes, panics or fails to save, WindowSentBytes is exactly
\* what the window's cycles have sent, whatever mode or target the dashboard
\* switched to while they ran, and what the state file holds between cycles
\* and after a shutdown is what memory holds.
NothingForgotten ==
    faults = 0 =>
        /\ pc # "account" /\ spent.start = window.start => spent.sent = window.sent
        /\ pc # "account" /\ spent.start # window.start => window.sent = 0
        /\ pc \in {"gate", "sleep", "join", "await", "done"} => disk = window

\* Stop takes effect within one cycle (engine.go: maxCycleDuration bounds the
\* dashboard's Stop latency): no upload runs later than that.
StopTakesEffect ==
    pc = "upload" /\ ~cfg.running => now <= stopped + MaxCycle

\* Between two cycles that both upload, the worker count ramps by at most
\* max_ramp, through edits, dev mode and windows.
RampIsLimited ==
    pc = "upload" /\ ~snap.dev /\ last > 0 =>
        workers \in last - MaxRamp .. last + MaxRamp

\* SIGTERM ends the process, whether it finds the loop stopped, asleep,
\* uploading or at a failed save; only a crash before that undoes the signal.
SignalEndsIt == signalled ~> (pc = "done" \/ ~signalled)
=============================================================================
