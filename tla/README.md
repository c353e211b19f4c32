# Verification of Tavazon

Tavazon is a single Go daemon that keeps the upload volume of a server in a
chosen proportion to its download volume (ratio mode) or at a chosen volume per
window (volume mode), by sending UDP datagrams of random bytes to addresses of
selected networks. It meters what it sends, keeps lifetime totals across
reboots, and serves a dashboard from which everything can be changed while it
runs.

This directory holds TLA+ models of the daemon, configurations that check them
with TLC, and theorems that TLAPS proves. `PROJECT.json` is the index: every
definition with the lines of Go it stands for, every run with its properties,
for each property a mutation of the code it detects, the hazards and findings.

Contents: [1 the system](#1-the-system) ·
[2 modules](#2-modules-and-the-code) · [3 runs](#3-runs-bounds-and-what-they-show) ·
[4 fairness](#4-fairness) · [5 proofs](#5-proofs) ·
[6 disagreements](#6-where-the-code-and-its-documents-disagree) ·
[7 not modelled](#7-not-modelled) · [8 plan](#8-plan)

## 1 The system

### Inventory

| part | code | state it keeps | operations | what makes it correct |
|---|---|---|---|---|
| synchronizer | `internal/engine` `reconcile`, `internal/netstat` | totals and offsets in `state.State` | read counters, reconcile (twice a cycle) | no byte counted twice while one interface stays selected, each reset re-anchored once, a restart is no reboot |
| state file | `internal/state` | JSON file, `<path>.tmp` | Load, Save, PurgeExpired | live file whole at every instant; saved is kept |
| live config | `internal/web` `ConfigHolder`, `internal/config` | pointer, file | Get, Replace, Update, Load, Validate | file is the live config; snapshots are stable; toggles are not lost; the newest record of a field tells what is live |
| engine loop | `internal/engine` | window, `prevWorkers`, the cycle's locals | Run, runCycle, workerCount, deficit, rollWindow | ceiling per window, exact accounting, ramp, latency of Stop, clean shutdown |
| curve, volume target | `internal/schedule` | anchors, wander | RatioDeficit, VolumeDeficit, Intensity | the curve never steps; the volume follows it to the whole budget, exceeded by no more than one cycle's jitter and last datagrams |
| uploader | `internal/uploader` | workers, token bucket, atomic counter | RunCycle, runWorker, WaitN | rate and budget hold, counters agree, every worker ends |
| destinations | `internal/targets`, `internal/geoip` | pool by ASN | EnsureSelection, RandomTarget | only selected networks; every address alike; metered under the ASN it belongs to |
| metering | `internal/metering` | current bucket, month files | Sample, RecordSend, Close, History, Billing | bytes conserved, none billed early, no bucket missed, the rate the provider charges |
| audit log | `internal/metering/audit.go` | audit.jsonl | AppendAudit, Audit | a torn write costs its record only; records chain to the live state |
| metrics, gauges | `internal/metrics`, `internal/sysstat` | counters, ring of speeds, previous sample | Add, Observe, Snapshot, sampleResources | a speed or share is of the period it names; counters and plotted line add up |
| dashboard | `internal/web` | none of its own | handlers over all of the above | an answer 200 holds |
| logging | `internal/logging` | file, backups, size | Write, rotate, Close | order, newest records and disk use hold over failed rotations and kills |
| process | `cmd/tavazon`, `internal/config` | merged config, context | start, shutdown | it starts on a config its code can compute with; a signal ends it, nothing is lost on the way |

### How the parts interact

One goroutine runs the engine loop. Each cycle takes a snapshot of the config,
reads the kernel's interface counters, reconciles the totals, computes a
deficit, and if bytes are owed calls `Uploader.RunCycle`, which starts workers
and waits for them; then it reads and reconciles again, adds the bytes to the
window, samples the meter and saves the state. Beside it run a sampler
(read-only), and the web server with one goroutine per request. They share:

- `*state.State`: written by the engine and, without its mutex, by the
  dashboard's "reset counters" and "set sync"; saved by both and by `main`;
- the config pointer: replaced by handlers under a lock, read by the engine at
  the gate and at the start of a cycle, and again by `RunCycle` and each worker;
- the metering store: workers, the end of a cycle, `main` and the dashboard, under
  a mutex that History leaves before it has finished;
- the context of `signal.NotifyContext`, which ends all of them, and a deadline
  derived from it for each cycle.

### What is hard

Unlocked writes of the totals; two savers of one temporary file; a config copy
that shares a slice; counters that restart under a total that does not; what a
crash, a failed save or a panic forgets between sending and saving; config edits
in the middle of a cycle, another interface among them; a bucket used after its lock; a shared rate limiter; and
a shutdown that waits for everybody. `PROJECT.json` lists each at its line under
`hazards`, with the properties that watch it.

## 2 Modules and the code

| module | models | extends / implements |
|---|---|---|
| `LifetimeTotal` | abstract: totals that are shown and totals that survive | |
| `Synchronizer` | `reconcile`, the reads and saves around it, restart, kill, reboot, lost power | implements `LifetimeTotal` |
| `Totals_proofs`, `ConfigHolder_proofs`, `Engine_proofs`, `Uploader_proofs`, `Metering_proofs`, `Disk_proofs`, `Figures_proofs` | theorems (section 5) | `Totals_proofs` extends `Tracking`, `Metering_proofs` `Billing`, `Disk_proofs` `Disk` and `StateFile`, the others the module they are named after |
| `FoldTheorems` | sums over finite sets, for any associative and commutative operator | instantiated by `Uploader_proofs`, `Metering_proofs`, `Disk_proofs`, `Figures_proofs` |
| `Tracking` | the same with the dashboard as a second writer, one field at a time | extends `Synchronizer` |
| `AtomicFile` | abstract: a file that is replaced whole, in memory, on disk, durable | |
| `StateFile` | `state.Save` by system calls, `state.Load` | implements `AtomicFile` |
| `ConfigHolder` | live config, PUT, start, stop, dev, audit, restart | |
| `Boot` | defaults, config.json, environment, flags, Validate, the files opened after it, write-back of edits in its steps, lost power | |
| `Engine` | loop, window, ramp, accounting, shutdown | |
| `Curve` | spline, its integral, `VolumeDeficit` | |
| `Uploader` | `RunCycle`, workers, token bucket, pool | |
| `TargetDraw` | `geoip.Open` and its index, `Targets`, the draw of ASN, prefix, host | |
| `Metering` | store, flush, Close, History | |
| `Percentile` | `nthPercentile`, its floating-point index | |
| `Billing` | `Billing`, `billingWindowStart`, beside the provider's measurement | extends `Metering`, instantiates `Percentile` |
| `AuditLog` | concurrent requests, `AppendAudit`, `Audit` | |
| `LogRotation` | `rotatingWriter`, by system calls | |
| `Metrics` | byte counters, `ObserveSpeed`, rings, Snapshot | |
| `Resources` | `/proc/stat`, `CPUPercent`, `sampleResources` | |
| `Disk` | `LogRotation`, `AuditLog`, `Boot`, side by side | instantiates them |
| `Figures` | `Metrics`, `Resources`, `Curve`, `TargetDraw`, `Percentile`, side by side | instantiates them |
| `MCSynchronizer` ... `MCUploader`, `MCBilling`, `MCDisk`, `MCFigures` | constants of one module for TLC | extend it |

**Synchronizer.** `raw` is what `netstat.Read` would return, `carried` the bytes
that really passed (history), `mem` the totals and offsets of `*state.State`,
`disk` what the file holds and `durable` what it holds after a loss of power
(`Save` fsyncs the file and not the directory; `Journal` is the moment the rename
is safe). `pc` walks through `runCycle`: `ReadCounters`, `Reconcile`, then either
`SkipRecheck` or `ReadAgain` and `Reconcile`, then `Save` or `SaveFails`; a signal
leads to the two saves on the way out. `InterfaceReset` lets the sum of the
counters fall to anything, as when an interface is removed; `SelectInterface` is an
edit of `network.interface`, after which the counters of another interface are read,
larger or smaller; it does not come between the two readings of one cycle, which
reads the name once. `gained` is what selections raised the counters by: bytes that
were not carried since, and that reconcile counts all the same. `Reboot` makes the
counters zero and takes back what was not journalled. The direction *up* is `TxBytes`,
*down* `RxBytes`.

**Tracking** replaces the atomic `Reconcile` and `Save` by their reads and writes
(`ComputeLive`, `Compare`, `Anchor`, `Store`, `Advance`, `Marshal`, `Rename`) and adds
the handlers in the order of their assignments. Each read and each write of a field is
a step: an offset is stored after the total it is made from was read, and a Save copies
the four fields one by one in the order of the struct, under the mutex, which excludes
the other Save and no assignment; a record torn between the two writers is renamed,
loaded again and reconciled like any other. `claim` is what the last answer 200
promised; `clean` says that no reconcile or save overlapped the request.

**StateFile** has inodes, the names `<path>` and `<path>.tmp`, and for each saving
goroutine its step, its marshalled record and its descriptor. A record is a
version number; a torn one is `Torn`.

**ConfigHolder** has Go's slices: a config holds an address and a length, a copy
holds the same address, and decoding a list fills the array it finds when it is
long enough, as `encoding/json` does. `unsaved` remembers a failed write,
`promise` an answered start or stop. `audit` is what the newest record of each field
says, `untold` the fields of which the code does not keep that up, and why is written
where they are added: a failed write or append, a kill before the append, a request
that crosses, a PUT over a copy older than the live config (`Stale`).

**Engine** has a clock in ticks; computation takes none. `Share[t]` is what the
curve grants `t` ticks into a window, any monotone table; `Curve` is the set of
worker targets the curve may produce. A `RunCycle` is an interval at whose end any
number of bytes up to `MaxSent` has been sent: the bound `Uploader` establishes
as `BudgetHolds`. `spent` is the true volume of the window, kept beside the
code's own `window.sent`.

**Uploader** has one cycle at a time with the set of workers it started; each has
its step, quota, count, datagram and ASN. The token bucket is the code's: tokens,
time of the last refill, capacity of one second (one tick).

**Metering** keeps every bucket that was made, so that a reader's pointer, the
current bucket and the lines of the file can be told apart; `lost` accounts for
what died in memory or was appended to a torn line. `SetTotals` is what the dashboard's
two handlers and a selected interface do to the totals that `Sample` is given, and
`raised` what they raised them by; `CycleEndsUnsampled` is a cycle that panics or cannot
read the counters.

**Billing** runs `Metering` with three more histories, each kept as the bytes up to the
end of every window: `link`, what the network card carried, which is what the provider
of the link measures; `entered`, what requests set the totals up by, which the meter
books like traffic; and `late`, those of both that came while a cycle of an earlier
window was still running.

**LogRotation** has the directory as a function from generations to sequences of
records, the writer's `w.f` (`open`) and `w.size`, and one action per system call of
`rotate`, each of which may fail, the Close of the full file included; a kill falls
between any two.

**AuditLog** has each request between `s.cfg.Get`, `s.cfg.Update` and its append; a torn
line may be whole but for its newline, and is then readable until the next append.

**Boot** has configs as records of the fields that other code computes with, overrides
as partial records laid over them by `Over`, and `onDisk` for what the kernel has
written back of config.json. An edit takes three steps under the lock: `Swap` makes it
live, `Rename` puts it on the file, `Answer` answers; the write may fail after the
first (`WriteFails`), and a kill falls between any two. `Start` ends, after Validate,
with the three files of the config opened, or fatally when one of them is `Unopened`.

**Metrics** has workers between their two atomic additions (`adding`), the sampler
between its reading, its loads in `ObserveSpeed` and the lock (`reading`), and a dashboard between two loads
(`snap`). `carried` has, beside what the cards carried between two readings and the time
of it, whether a counter was reset in between. **Resources** counts true busy jiffies beside what the fields of
`/proc/stat` say.

**Curve** is exact: the spline in integers scaled by 2 * Steps^3, the integral further
by 2 * Steps; the float64 of the code rounds where this does not, and nothing is
claimed about the last bit. A `Cycle` sends up to `MaxSent`: the quotas of a fraction of
the deficit, a fifth of jitter, and the rest of a datagram for each worker, which is what
`Uploader.BudgetHolds` gives. **Percentile** is where a last bit decides, and models it:
the error of p/100 as a float64, times n, against half a unit of the last place.

**TargetDraw** has the random generator's values as inputs of the walks through the
weights, so that "equally likely" is a count.

The modules meet at narrow seams. `Uploader.BudgetHolds` is what `Engine.MaxSent`
assumes; `StateFile` implements `AtomicFile`, whose three copies are those of
`Synchronizer` (memory, `disk`, `durable`), for one writer; `Tracking` and `StateFile`
with two savers show what happens without it. `Curve.WholeBudget` and the growth of
what is owed are what `Engine.Share` assumes of the curve. `TargetDraw` refines the
pool of `Uploader`, and `Boot.Relied` gives the ranges that draws and clocks compute
with. `ConfigHolder` and `Boot` both have the edits of the dashboard: the one with
their interleavings and bodies that are decoded over an older copy, the other with the
layers and the lives of the process, and the overrides of a start.

## 3 Runs, bounds and what they show

Deadlock is not checked: every run has bounds (time, starts, edits, faults) at
which a model stops, and the daemon itself may stop. All other constants are
named in the modules with a comment each.

| run | bounds | properties |
|---|---|---|
| `synchronizer` | 2 bytes carried, 1 shown again, 2 resets, 2 starts (0.3 M states) | `TypeOK` `NeverOvercounts` `NoFalseReboot` `OneAnchorPerReset` `ImplementsLifetime` `CatchesUp` |
| `tracking` | 1 byte, 1 reset, 2 starts, 2 requests (2.0 M) | `UndisturbedResetHolds` `RacesNeverOvercount` |
| `state_file` | 1 saver, 4 inodes, 3 versions, 2 crashes (1.8 M) | `SavedIsKept` `ImplementsAtomicFile` |
| `config_holder` | 2 handlers, 3 requests, 1 restart (1.1 M) | `FileIsLive` `AnsweredToggleHolds` `ChangesAreAudited` |
| `engine` | window of 2 ticks, clock to 3, 3 workers, 1 edit, 1 fault (0.3 M) | `WindowCeiling` `NothingForgotten` `StopTakesEffect` `RampIsLimited` `SignalEndsIt` |
| `uploader` | 2 workers, 2 ASNs (1 known), rates 0 and 2, 1 cycle, 1 edit, 1 panic (0.5 M) | `RateHolds` `BudgetHolds` `CountersAgree` `OnlySelected` `CycleReturns` |
| `metering` | `MCBilling`: 3 windows, 2 to a billing window, 2 bytes carried or 1 carried and 1 sent (`FewBytes`), 1 fault (a failed flush, a kill, a cycle without a sample or totals set), 2 starts (1.7 M) | `BytesConserved` `NeverBilledEarly` `HistoryMissesNothing` `BilledIfSampled` |
| `on_disk` | `MCDisk`: 0 or 2 backups, 6 records of 1, 2 or 4 bytes in files of 3, 1 kill, 1 failing call; 2 requests at a time, 4 in all, 2 faults; 3 environments, 3 flag sets, 5 bodies, one with a path that cannot be opened (0.6 M) | `NewestInOrder` `SizesHold` `TornCostsOneRecord` `HistoryIsTrue` `StartsOnUsable` `RestartKeeps` |
| `figures` | `MCFigures`: 2 workers, 3 samples in a ring of 2; 5 jiffies; all curves of 4 hours with 3 intensities, a budget of 10 sent in fractions of 30 or 100% by 1 or 2 workers, datagrams of 2; every assignment of 5 networks to 2 ASNs, selections of 2; 6 percentiles by 8928 samples (0.7 M) | `PeriodIsTrue` `FakeAddsUp` `NeverSteps` `WholeBudget` `EveryHostAlike` `IndexIsTheDatabase` `DropsTheTop` |

In the last two runs, of `Disk` and `Figures`, the components do not interact: they share
no variable, and each property is about the variables of one of them. A behaviour of all of them side by side
shows to each property a behaviour of its own component, so it is enough that one
of them moves at a time (`moving`), and the state space is their sum and not their
product. The proofs take the same step once and for all (`DiskParts`, `FiguresParts`:
a behaviour of the composition is one of each part), and reason about each part
alone. `MCFigures` starts what does not move in one initial state of its own, and its
two workers are interchangeable (`Symmetry`).

`TypeOK` is checked for `Synchronizer`, where it says something (a total never goes
negative although an offset may); `TTypeOK` and the `TypeOK` of the other core modules
are proved for all constants (section 5) and not spent on a run. `StateFile.LiveNeverCorrupt` and
`JournalledIsWhole` are parts of what `ImplementsAtomicFile` says.

Three more runs check one property each and TLC refutes it; see section 6.

Why the bounds are enough. *Synchronizer*: a counter has to fall below a total and
pass it again, which takes two bytes; the second reset meets the record the first
one left; a selection raises one counter or lowers the other; the second start loads a
record of any age. *Tracking*: the interleavings are between one request and the
reconciles and saves around it; a second request meets what the first one left, in
memory or in a torn record after the restart. The one amount is 0: a set to zero reads
back what it wrote where a reset does not. The values matter as "below, equal, above".
*StateFile*: the live, the journalled, the temporary and one unlinked file exist at
most. *ConfigHolder*: two requests in flight are the race; the third meets its
result. *Engine*: a window of two ticks within a clock of three rolls over, a worker
count of three with a ramp of one has to climb, one edit reaches every state of a
cycle. *Uploader*: two workers share the bucket, one of them may find it empty; a rate
of 2 refills one datagram of either length, and the rate of 1 that `newTokenBucket` makes
of 0 never grants a datagram of 2, so that only the deadline ends its worker. *Metering*: a bucket is current, one is
in the file, one is held by a reader; the third window opens a second billing window.
*LogRotation*: two backups are the fewest that shift, and a record of 4 in a file of 3
is longer than the limit; six records fill every generation. With files of 3 the clause
of `SizesHold` that a backup was full up to one record says nothing for a record of 4; the
theorem has it for any lengths. *AuditLog*: two
requests cross or follow each other, and a torn line meets an append of another.
*Boot*: the overrides are each valid alone; together with the file or an edit some are
not, and one body names a file that cannot be opened. *Metrics*: the third sample overflows the ring, and one failed reading makes a
period of two ticks. *Curve*: four hours are the fewest with four different
neighbours, and next to a 9 the spline through zeros dips below zero; of a budget of 10 two
workers get quotas of 5, the least of which a fifth is a byte. *TargetDraw*:
an ASN with prefixes of two countries and as many of each; an unknown ASN; an IPv6
network, which is not indexed. *Percentile* is complete for the percentiles carriers
charge and a month of samples.

What the safety properties say, in short:

- **No byte twice** (`NeverOvercounts`, `RacesNeverOvercount`, `NeverBilledEarly`,
  `HistoryMissesNothing`, `BytesConserved`): whatever resets, dies or comes back,
  neither totals nor meter exceed what was carried, but for what a selected interface
  shows again (`gained`) and what a request sets the totals up by (`raised`): exactly that
  much and no more. No recorded byte leaves the books unaccounted.
- **No false alarm, no double alarm** (`NoFalseReboot`, `OneAnchorPerReset`).
- **Bounded egress** (`WindowCeiling`, `WholeBudget`, `RateHolds`, `BudgetHolds`,
  `RampIsLimited`): the ceiling is stated with the tolerance the code really has:
  the jitter of a fifth and the last datagram of each worker of one cycle (`Excess` in
  `Curve`), which later cycles take off and do not add up, and one more cycle for each crash, panic or failed save, whose bytes it never learns of.
  `RampIsLimited` holds between consecutive cycles that both upload.
- **Answers hold** (`UndisturbedResetHolds`, `AnsweredToggleHolds`,
  `ChangesAreAudited`, `FileIsLive`). `ChangesAreAudited` compares the newest record of
  each field with the live config, and leaves out the fields in `untold`.
- **Nothing forgotten** (`NothingForgotten`, `CountersAgree`, `SavedIsKept`).
- **Right destinations** (`OnlySelected`, `EveryHostAlike`, `IndexIsTheDatabase`).
- **What is shown is true** (`PeriodIsTrue`, `FakeAddsUp`, `NeverSteps`, `DropsTheTop`,
  `BilledIfSampled`, `HistoryIsTrue`): the billed rate is compared with a definition of
  the provider's, over the true traffic of the link, for windows that all had a
  cycle; the speed with what was carried between the last two
  successful readings, to the byte, unless a counter was reset between them; the index of the percentile with "drop the top (100-p)%"; the spline with the
  Hermite cubic of each hour.
- **What is on disk survives** (`NewestInOrder`, `SizesHold`, `TornCostsOneRecord`,
  `StartsOnUsable`, `RestartKeeps`). `StartsOnUsable` names every cause a start may have to
  give up, and `RestartKeeps` both configs a restart may resume.
- **It ends** (`SignalEndsIt`, `CycleReturns`, `StopTakesEffect`) and **it catches
  up** (`CatchesUp`).

Abstraction and implementation: `Synchronizer` implements `LifetimeTotal` with
`counted <- Counted` (carried and gained), `up <- pc # "off"`, and `shown`, `saved`,
`kept` the totals of `mem`, `disk` and `durable`: shown totals are bounded by what the
counters have shown to pass, no step that leaves the service up makes one fall, and only
the end of a life falls back, to the newest saved record and not below it, or with a loss
of power to the journalled one. `StateFile` implements `AtomicFile`: six system calls with failures and
kills are, to who looks at the name, one replacement that happens or not, and a loss of
power brings back one of the records that were live, whole.

## 4 Fairness

- `Synchronizer`: the steps of a cycle that has begun are weakly fair, and so is
  the start of the next one: the loop has no exit but a signal, its sleeps are
  bounded by `interval_max`, and `general.running` is assumed to hold. A reset, a
  crash, a restart and traffic are never required, so `CatchesUp` speaks of what
  happens once they cease.
- `Engine`: the engine's goroutine and then `main` run on (`WF EngineStep`), timers
  fire (`WF Tick`), and `Shutdown` of the web server returns, because the code gives
  it five seconds (`WF WebStops`). The signal itself is not assumed.
- `Uploader`: every goroutine is scheduled, `wg.Wait` returns when they have ended,
  and the deadline of the context passes (`WF Cancel`).

Weak fairness is all that is assumed. A worker that waits for tokens may lose them
to another again and again; that it ends follows from the deadline, not from a
grant. Safety-only runs use `Spec` without fairness.

## 5 Proofs

Every theorem holds for all values of the constants: any traffic, number of workers,
handlers, requests, windows, resets, crashes, restarts. Each module has a named
assumption on its constants (`BoundsAssumption`, `EngineAssumption`,
`UploaderAssumption`, `ConfigAssumption`, `StateFileAssumption`, `MeteringAssumption`, and
`DiskAssumption` and `FiguresAssumption`, which are those of their parts), which gives
them types and is evaluated by TLC in its run. Some theorems have a hypothesis of
their own, named below.

| theorem | states | for |
|---|---|---|
| `Totals_proofs`: `TypeCorrect`, `NoOvercount`, `RestartIsNoReboot`, `AnchorsAreDue`, `Implementation` | `TypeOK`, `NeverOvercounts`, `NoFalseReboot`, `OneAnchorPerReset`, `ImplementsLifetime` | any number of bytes, resets, starts |
| `Totals_proofs`: `TrackingTypeCorrect`, `RacesLoseOnly`, `UndisturbedHolds` | `TTypeOK`, `RacesNeverOvercount`, `UndisturbedResetHolds` | any number of requests |
| `Disk_proofs`: `LiveIsWhole`, `JournalIsWhole`, `StartsReadTheFile`, `SavesAreKept`, `SaveIsAtomic` | `LiveNeverCorrupt`, `JournalledIsWhole`, `StartNeverFails`, `SavedIsKept`, `ImplementsAtomicFile` | one saver (`OneSaver`) |
| `Disk_proofs`: `LogIsNewestInOrder`, `LogSizesHold` | `NewestInOrder`, `SizesHold` | any limit, lengths, number of backups, failed calls, kills, restarts |
| `Disk_proofs`: `AuditTearsAreCheap`, `AuditHistoryIsTrue` | `TornCostsOneRecord`, `HistoryIsTrue` | any number of handlers, requests, torn and failed appends, kills |
| `Disk_proofs`: `ConfigStartsOnUsable`, `ConfigRestartKeeps` | `StartsOnUsable`, the action property `RestartKeeps` | any files, environments, flags, bodies |
| `ConfigHolder_proofs`: `TypeCorrect`, `ToggleHolds`, `FileStaysLive`, `ChangesReachTheLog` | `TypeOK`, `AnsweredToggleHolds`, `FileIsLive`, `ChangesAreAudited` | any handlers and bodies; the last two under `ListsAgree` |
| `Engine_proofs`: `TypeCorrect`, `BudgetIsACeiling`, `NothingIsForgotten`, `StopIsPrompt`, `RampIsKept` | `TypeOK`, `WindowCeiling`, `NothingForgotten`, `StopTakesEffect`, `RampIsLimited` | any window, curve, edits, faults |
| `Uploader_proofs`: `TypeCorrect`, `RateIsHeld`, `CountersAgreeAlways`, `BudgetIsHeld`, `SelectionIsKept` | `TypeOK`, `RateHolds`, `CountersAgree`, `BudgetHolds`, the action property `OnlySelected` | any finite set of workers and ASNs |
| `Metering_proofs`: `TypeCorrect`, `HistoryIsWhole`, `BytesHold`, `BillingMeters`, `BillsNothingEarly` | `TypeOK`, `HistoryMissesNothing`, `BytesConserved`, `BSpec => Spec`, `NeverBilledEarly` | any number of buckets, faults, starts |
| `Figures_proofs`: `FakeTrafficAddsUp` | `FakeAddsUp` | any workers, cards, samples, room in the ring |
| `Figures_proofs`: `GaugesAreTrue` | `PeriodIsTrue` | one counter to read (`SameCounter`), no virtual CPUs (`PlainTime`) |
| `Figures_proofs`: `CurveNeverSteps`, `VolumeSendsTheBudget` | `NeverSteps`, `WholeBudget` | any anchors, hours, steps, window, budget, edits |
| `Figures_proofs`: `PercentileDropsTheTop` | `DropsTheTop` | every percentile of `WellRepresented`, up to 65535 samples |
| `FoldTheorems`: `FoldRemove`, `FoldAdd`, `FoldChange` | a sum may be taken in any order; adding or changing one value | any commutative operator |

The hypotheses are those under which the code keeps its promise; for the first two,
a run that TLC refutes shows that they are needed.
`OneSaver` says that one goroutine saves at a time, as it is while nobody uses the
dashboard's two handlers; `state_file_race` is the run without it, and
`StartsReadTheFile` proves with it what that run refutes. `ListsAgree` says that the
lists of ASNs in the file and in the bodies agree where they overlap (each extends the
other or is empty), so that decoding one into the live array writes what is there;
`config_alias` is the run without it. `ToggleHolds` needs neither.
`SameCounter` says that the sampler always reads the same sum: the machine has one
card, or only "All" can be selected; another choice between two readings draws a spike
(section 6). `PlainTime` leaves out guest time, which `/proc/stat` counts twice, and
a falling iowait. `WellRepresented` says that p/100 as a float64 is not so far above p/100
that a product with n is rounded past a whole number; 50, 75, 90, 95, 98 and 99 are among
those percentiles, 55 is not, and for it the code does charge one sample too high.

### The invariants, and why they are needed

None of the properties is inductive as it stands.

- *NoOvercount*: `SoundInv`; a cycle works with counters it has read, which may be older than the
  kernel's. `Pending` adds that the counters read and not yet reconciled count no
  byte twice either, whether the totals advance to them or are anchored at them. Both are
  stated against what was carried and `gained`.
- *RestartIsNoReboot*: `ExactInv`; as long as no counter fell, every record has zero
  offsets and totals that no counter is below.
- *Implementation*: `SoundInv` again, with `Rested`: between two lives memory stands for
  the record the next one loads. A reconcile that finds no reboot advances every total, one
  that does leaves them, so each is an `Observe`; kill and last save are `End` and `Save`.
- *AnchorsAreDue*: `AnchorInv` counts the anchors still owed: one if the counters read
  show a reset, one more if a counter fell since. Anchors and what is owed are at most
  resets and restarts.
- *RacesLoseOnly*: `Unmixed` speaks of every copy: memory, disk, journal, the fields that
  the engine and the handler have marshalled so far (`WithinSoFar`), and the totals and
  offsets a reconcile has computed and not yet assigned (`EngineWithin`). Both bounds of `Within` are needed,
  on the total and on the counter plus its offset: a reset writes them in two steps.
- *UndisturbedHolds*: `Asking` follows the handler through its assignments, `Promised`
  keeps what it answered with the bounds of `EngineWithin`, moved by the traffic
  (`EngineTraffic`).
- *StateFile*: `FileInv` (live and journalled records are whole and on the disk, and the
  temporary name refers to neither) and `SaverInv` (what the saver has open is the
  temporary file with its record). `SaveIsAtomic` maps the rename to the replacement,
  `Journal` to the durable step, and the other calls to stutters.
- *ToggleHolds*: `ToggleInv`; a request that does not name `running` carries the value
  it read under the lock or compares it there, so none can revert the promise.
  *FileStaysLive* and *ChangesReachTheLog*: `AuditInv` says of each field that is not
  `untold` (`FieldInv`) what is pending of it: nothing, and live config, file and newest record
  agree, or the one request that is about to append what is live. `Shows` says that the
  diff a PUT carries shows its config against the copy it was made from.
- *BudgetIsACeiling*: `TimeInv` (a cycle ends less than one maximal cycle after the window it charges),
  `DebtInv` (a cycle is planned within what its window has left) and `GapInv` (memory and
  file each fall short of the true volume by one cycle for each fault).
  *NothingIsForgotten*: `MemoryInv`, exact while nothing fails.
- *RateIsHeld*: `RateInv` counts datagrams in flight; *CountersAgreeAlways*: `CountInv`
  the bytes a worker has counted and not yet metered; *BudgetIsHeld*: `BudgetInv`, the
  allowances left to the workers that run. Each is a sum over the workers, of which a
  step changes one term.
- *HistoryIsWhole*: `ReaderInv`; what a reader is owed is the bucket it points at or
  on the file by the time it reads. *BytesHold*: `BytesInv`, over the shape of the file
  (`FileInv`: whole lines without duplicates, then at most one torn).
- *BillsNothingEarly*: `LinkInv` and `EarlyInv`; at each window, what is booked up to it,
  and what the cycle in flight will add to it, was carried or entered up to it or late.

- *LogIsNewestInOrder*, *LogSizesHold*: `LogInv`. `StepOK` says why a rotation is under
  way (the file is full up to the record in hand) and when `w.f` is closed; `SizeInv`
  that `w.size` is the size of the open file and that every backup was full when it was
  moved; `OrderInv` orders the lines within a file, between files, and against the record
  in flight. `KeptInv` (what is dropped is older than all that is kept, and the place a
  file is moved to is free, while no call failed) and `BackedInv` (the generations are 1
  to m, but for the hole that a rotation moves through them) are what makes "no backup is
  wasted" inductive.
- *AuditHistoryIsTrue*: `AuditInv`; `Chained` follows the records while no requests cross,
  `Complete` says that what the log lacks is the record of the one request that
  has changed the state and not yet appended. *AuditTearsAreCheap*: `Counted` relates
  changes, failed appends and what a tear dropped.
- *ConfigStartsOnUsable*, *ConfigRestartKeeps*: `BootInv`. A config file is as the operator
  wrote it, torn, or whole and `Sound` (valid but for the local settings of dev
  mode, which the toggle does not validate); `Resumes` says that the file, where no
  override hides it, holds the config last answered, and from the rename on the live one;
  after a kill it is one of the two, whole.
- *FakeTrafficAddsUp*: `CountInv` (total = cycle + what workers have added to the one
  only, a sum over the workers), `AreaInv` (area and fractions of each period against the
  bytes: `f \div t` loses less than `t`), `RingInv` (the ring is the end of the samples,
  element by element). *GaugesAreTrue*: `CarriedInv`: the kernel's counter is the last reading, or
  the one on its way, plus what was carried since, or less if it was reset since (`Reads`),
  and the speed is the quotient of the two, or less (`Pace`);
  `GaugesInv`, which relates true busy jiffies to the fields of the previous sample.
- *CurveNeverSteps* needs no invariant but the type: the spline of the code and the
  Hermite cubic are one polynomial in the four anchors (`SplineIsHermite`), and the
  anchors taken are the same around midnight (`AnchorsAround`). *VolumeSendsTheBudget*:
  `VolumeInv` with `DueGrows`, and `MaxSentIs`: a cycle sends at most its deficit and the
  `Excess`, and none without a deficit, so that windows do not add excesses up; the clamped integral is a sum of numbers that are not
  negative, so its share of the total grows, and division by the total keeps the order.
- *PercentileDropsTheTop*: the rounding of the product can only reach the next whole
  number when the error of p/100 is more than half a spacing; `NeverAbove` bounds the
  one by the other with the power of two below the product (`PowerBelow`).

### Sums and induction

The library's induction theorems have an operator parameter that no installed prover
can instantiate. The sums of `Uploader`, `Metering`, `LogRotation`, `Curve`, `Resources` and `Metrics`
are folds of the community modules,
so `FoldTheorems` takes another way: among finite subsets (or numbers) for which a fact
fails, there is a least one (`LeastSubset`, `LeastNat`, from the well-foundedness of
strict inclusion), and that one leads to a contradiction. First comes that the recursion
behind `MapThenFoldSet` has a solution, then that the element `CHOOSE` takes does not matter.

### What the proofs changed in the models

`Engine.Spend` was a `CASE` with two overlapping guards, of which TLC took the
first and TLA+ promises either; the proof of `GapInv` failed in the other. It is a
nested `IF` now. `WindowCeiling` names `LastDatagrams`, `TTypeOK` the
types of the dashboard's locals, and `ConfigHolder.TypeOK` the bounds of slices in their
arrays, all of which the proofs needed.

The proof of `StartsOnUsable` for any environment found a cause of a fatal start that the
property had not admitted and the run had no value for: dev mode switched on over a
number of dev workers below one (`config.go:469`). It is `DevValid` now, in the
model and in the property. `BootAssumption` says that the values of a config are strings or
numbers by their field. `Disk` and `Figures` were definitions inside `MCDisk` and
`MCFigures`, with constants that nothing assumed anything of; they are modules with
assumptions now. `Boot.Over` stands where `@@` did, `Curve` multiplies where it took
powers, `LogRotation.Kept` and `Bytes` name the sets and sums its properties speak of, and
`Percentile.Powers` is a set the prover can look through: each says the same in a form
the provers know.

### Only model-checked

- Liveness (`CatchesUp`, `SignalEndsIt`, `CycleReturns`): fairness and ENABLED are out
  of the prover's reach.
- `BilledIfSampled`: both rates are picked by `CHOOSE` from the samples in their order, over a
  sequence that `SelectSeq` filters; its definition is recursive, and the provers know
  nothing of it. Of the index, which is where the billed rate could go wrong, `DropsTheTop`
  is proved.
- `EveryHostAlike` and `IndexIsTheDatabase`: counts of the random values that lead
  through two recursive walks (`Walk`) to an element, over prefixes that `SelectSeq`
  and `SetToSortSeq` put in order. What a recursive definition computes for every input
  is induction over data. The run takes every assignment of five networks to ASNs.

## 6 Where the code and its documents disagree

Each of these three has a run that TLC refutes.

1. `tracking_race`: a reset or set answered 200 is undone by the reconcile in
   flight (`web.go:428`; `state.go:21` asks for the mutex).
2. `state_file_race`: two Saves on one `.tmp`, and a crash, leave an empty state file
   with which the daemon does not start (`state.go:69`; RED_LINES X8).
3. `config_alias`: a PUT that replaces the list of ASNs writes the live config in
   place, even when it is then refused (`web.go:281`; comment at `web.go:46`).

`PROJECT.json` lists further disagreements met while modelling, without a run of
their own. The properties are stated so that they hold of the code, and each names
what it leaves out:

- History answers a bucket twice that is flushed while it reads (`metering.go:144`), and
  encodes a map workers write (`:161`); one torn line makes a month, or the audit log,
  unreadable (`metering.go:184`, `audit.go:59`), and so does a line longer than the
  scanner's buffer (`audit.go:53`).
- Selecting eth0 and "All" again counts everything but eth0's bytes twice
  (`engine.go:162`): `NeverOvercounts` admits what a selection raises the counters by.
  Totals that the dashboard sets up, or such a selection, are billed as traffic
  (`metering.go:68`): `NeverBilledEarly` admits that.
- A PUT decoded over a config from before a Stop undoes it, and its diff, taken against
  that copy, leaves no record (`web.go:280`); changes by the file, the environment and
  flags are not audited at all (`web.go:478`). `ChangesAreAudited` leaves these fields out,
  and those of a failed write (`web.go:70`).
- Windows without a cycle are no samples (`metering.go:68`): `BilledIfSampled` asks for
  one in every window. For some percentiles, 55 among them, the float product charges
  one sample too high (`percentile.go:28`): `DropsTheTop` is checked for 50, 75, 90, 95,
  98 and 99. `billing_window` knows no durations (`web.go:531`).
- Crossing requests append their records in the opposite order of their changes
  (`web.go:399`): `HistoryIsTrue` is about requests that do not cross.
- After one failed rotation the log refuses every record that needs another, on stderr
  too (`logging.go:92`): `NewestInOrder` promises the newest records as long as no call
  failed, and order always.
- Another interface selected draws a speed nobody had (`metrics.go:138`); guest time
  counts twice and a falling iowait makes more than 100% (`sysstat.go:73`, `:142`);
  `PeriodIsTrue` is checked for one interface and a machine without guests. The
  counter of the bytes of this cycle is never reset (`metrics.go:95`), and a snapshot
  mixes two cycles (`:174`).
- An ASN listed twice is drawn twice as often (`targets.go:60`): `EveryHostAlike` is
  about selections without duplicates.
- The dev toggle makes a config live that Validate refuses, and the next start is fatal
  (`web.go:413`); so does a loss of power after an edit (`web.go:543`): both are causes
  `StartsOnUsable` admits, and so is a PUT of a log, state or metering path that cannot be
  opened (`web.go:286`), which Validate does not look at. `-stopped=false` stops (`config.go:367`). Overrides become
  the file at the first edit (`web.go:70`).
- The ramp base that only uploading cycles update, Stop that cancels no cycle, a token
  bucket smaller than a datagram, a change that is live after a 500, metering that
  writes in the caller's goroutine, and retention that is not implemented.

Because of (3), the passing run of `ConfigHolder` uses bodies that append to the
list, empty it or leave it alone; the violating run uses one that replaces it in
place. Because of (2), the passing run of `StateFile` has one saver, which is the
daemon with the dashboard's two handlers unused.

## 7 Not modelled

- `ConfigHolder` restarts on the file alone: the overrides of environment and flags are in
  `Boot`, which has no interleaved requests. `Tracking` keeps one interface selected and
  has no loss of power: both are in `Synchronizer`, beside one writer.
- Parsing and formats: `/proc/net/dev`, MaxMind files, JSON beyond the sharing of
  arrays, Prometheus text, the static page.
- Random floats: the jitter of the ratio and the Ornstein-Uhlenbeck wander of the
  curve. `Engine` takes any value of a set for them. Last bits of the spline and
  its integral.
- Edits of `target.volume.bytes` and `window` inside a window: `Share` is fixed
  during a run of `Engine`, `Bytes` and `Window` in `Curve`. The ceiling is then the
  larger of the two.
- Port and size distribution and payload of a datagram; pauses between datagrams.
- The week as a billing window (the last seven days, no boundary); months of the
  metering files (one month); the second direction of metering and metrics, which is
  treated exactly as the first.
- A metering line that is written whole but for its newline: `Metering` tears a line
  so that it does not parse. Such a line would be counted beside the bucket that is
  still current until the next flush garbles both.
- Fields of the config that no other code computes with; the warnings of Validate.
- Authentication, static pages, stats and log reading: no state another part depends
  on. `ObserveTracked` and single stores of gauges. `PurgeExpired`: nothing fills the
  IP cache. Installer, container and release files.
- Unsigned overflow of byte counters at 2^64, and of `int64` at 2^63: out of reach of
  any traffic the rate limit permits.

## 8 Plan

Order: what loses or invents bytes first, then what answers wrongly, then what is
only shown.

1. *Done.* `LifetimeTotal`, `Synchronizer` with proofs, `Tracking`, `StateFile`,
   `ConfigHolder`, `Engine`, `Uploader`, `Metering`.
2. *Done.* `AtomicFile`, `LogRotation`, `AuditLog`, `Boot`, `Percentile`, `Billing`,
   `Curve`, `TargetDraw`, `Metrics`, `Resources`.
3. *Done: proofs.* Everything of section 5: every safety and action property that a
   run checks is proved for all constants, but for the three of "Only model-checked".
4. *Left.* `IndexIsTheDatabase` and `EveryHostAlike` for any databases, by writing `NetsOf`
   and `Walk` so that a least counterexample among their lengths can be taken; that
   needs what the database guarantees, that no two networks overlap, as an assumption.
5. *Consolidate.* Compose `Tracking` with `StateFile` so that both races meet, and
   revisit every bound.

To repeat a check: `tlc -config X.cfg M` for a row of section 3, `tlapm M.tla`
for a module of section 5.
