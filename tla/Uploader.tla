------------------------------ MODULE Uploader ------------------------------
(***************************************************************************)
(* Uploader.RunCycle: the pool of destinations refreshed at its top, the   *)
(* workers with their jittered quotas, the shared token bucket, the        *)
(* deadline of the cycle's context, the counters of the bytes sent, and    *)
(* the dashboard that edits dev mode and the selected ASNs meanwhile.      *)
(*                                                                         *)
(* A tick is a second: the bucket holds one tick's worth of tokens.  Bytes *)
(* are counted in datagrams' units; payload, address and port are left     *)
(* out, the ASN a datagram is sent to and billed to is kept.               *)
(***************************************************************************)
EXTENDS Integers, FiniteSets, FiniteSetsExt

CONSTANTS Workers,      \* at most max_workers goroutines
          ASNs,         \* what the dashboard may select
          Resolvable,   \* those the database has IPv4 prefixes for
          Sizes,        \* datagram sizes, min_datagram .. max_datagram
          Rates,        \* what the engine may ask for as ratePerSec, scaled by the curve
          Budgets,      \* the byte budgets the engine may ask for
          MaxCycle,     \* the deadline of a cycle, in ticks
          MaxCycles,    \* bound on cycles
          MaxEdits,     \* bound on config changes
          MaxPanics     \* bound on panics in a worker

Dev == "dev"            \* ASN 0: the one fixed destination of dev mode

ASSUME UploaderAssumption ==
    /\ IsFiniteSet(Workers) /\ IsFiniteSet(ASNs)
    /\ Resolvable \subseteq ASNs /\ Dev \notin ASNs
    /\ Sizes \subseteq Nat \ {0} /\ Sizes # {} /\ IsFiniteSet(Sizes)
    /\ Rates \subseteq Nat /\ Budgets \subseteq Nat
    /\ {MaxCycle, MaxCycles, MaxEdits, MaxPanics} \subseteq Nat

VARIABLES cfg,      \* live: dev.enabled and geoip.selected_asns
          pool,     \* Targets: the selection it was built from, the ASNs in it
          elapsed,  \* ticks since the cycle began
          ctx,      \* the cycle's context: "off" between cycles, "live", "done"
          share,    \* perWorker: the budget of the cycle, divided
          active,   \* the goroutines of the cycle
          rate,     \* token bucket: rate and capacity,
          tokens,   \*   tokens at
          filled,   \*   the tick of the last refill (last)
          at, quota, local, size, asn,  \* each worker: its step and its locals
          sent,     \* the atomic counter of the cycle
          fake,     \* metrics.fakeBytesTotal
          billed,   \* metering: bytes recorded by ASN
          returned, \* history: the sum of what RunCycle returned
          devSeen,  \* history: dev mode was on at some time of this cycle
          cycles, edits, panics

worker == <<at, quota, local, size, asn>>
bucket == <<rate, tokens, filled>>
counters == <<sent, fake, billed>>
bounds == <<cycles, edits, panics>>
vars == <<cfg, pool, elapsed, ctx, share, active, rate, tokens, filled, at, quota, local,
          size, asn, sent, fake, billed, returned, devSeen, cycles, edits, panics>>

MaxDatagram == Max(Sizes)

Smaller(a, b) == IF a < b THEN a ELSE b
Larger(a, b) == IF a < b THEN b ELSE a

All(v) == [w \in Workers |-> v]

Init ==
    /\ cfg \in [dev : BOOLEAN, asns : SUBSET ASNs]
    /\ pool = [selected |-> cfg.asns, in |-> cfg.asns \cap Resolvable]
    /\ elapsed = 0 /\ ctx = "off" /\ share = 0 /\ active = {}
    /\ rate = 0 /\ tokens = 0 /\ filled = 0
    /\ at = All("none") /\ quota = All(0) /\ local = All(0) /\ size = All(0)
    /\ asn = All(Dev)
    /\ sent = 0 /\ fake = 0
    /\ billed = [a \in ASNs \cup {Dev} |-> 0]
    /\ returned = 0
    /\ devSeen = FALSE
    /\ cycles = 0 /\ edits = 0 /\ panics = 0

-----------------------------------------------------------------------------
(* RunCycle, before its workers and after them.                            *)

\* Targets.rebuild: ASNs without a prefix are skipped.
Rebuilt(selection) == [selected |-> selection, in |-> selection \cap Resolvable]

\* Mutant: selections are compared by their length.
EnsureBySize(selection) ==
    IF Cardinality(pool.selected) = Cardinality(selection) THEN pool ELSE Rebuilt(selection)

EnsureSelection(selection) == IF pool.selected = selection THEN pool ELSE Rebuilt(selection)

\* A fifth more or less.
jitterQuota(base) == IF base <= 0 THEN {0} ELSE (base * 4) \div 5 .. (base * 6) \div 5

Begin ==
    /\ ctx = "off" /\ cycles < MaxCycles
    /\ cycles' = cycles + 1
    /\ pool' = EnsureSelection(cfg.asns)
    /\ \E W \in (SUBSET Workers) \ {{}}, budget \in Budgets :
          /\ active' = W
          /\ share' = budget \div Cardinality(W)
          /\ \E q \in [W -> jitterQuota(share')] :
                quota' = [w \in Workers |-> IF w \in W THEN q[w] ELSE 0]
          /\ at' = [w \in Workers |-> IF w \in W THEN "draw" ELSE "none"]
    /\ ctx' = "live" /\ elapsed' = 0
    /\ \E r \in Rates : rate' = Larger(1, r)
    /\ tokens' = rate' /\ filled' = 0
    /\ sent' = 0
    /\ devSeen' = cfg.dev
    /\ UNCHANGED <<cfg, local, size, asn, fake, billed, returned, edits, panics>>

\* wg.Wait returned: the cycle's bytes go to the engine.
Return ==
    /\ ctx # "off"
    /\ \A w \in active : at[w] = "none"
    /\ returned' = returned + sent
    /\ ctx' = "off"
    /\ active' = {} /\ share' = 0 /\ elapsed' = 0 /\ sent' = 0
    /\ rate' = 0 /\ tokens' = 0 /\ filled' = 0
    /\ UNCHANGED <<cfg, pool, worker, fake, billed, devSeen, bounds>>

-----------------------------------------------------------------------------
(* runWorker.                                                              *)

Goto(w, to) == at' = [at EXCEPT ![w] = to]

\* The goroutine ends; its locals are gone.
Ends(w) ==
    /\ Goto(w, "none")
    /\ quota' = [quota EXCEPT ![w] = 0] /\ local' = [local EXCEPT ![w] = 0]
    /\ size' = [size EXCEPT ![w] = 0] /\ asn' = [asn EXCEPT ![w] = Dev]

\* Where a worker may send: dev mode is read from the live config.
pickTarget == IF cfg.dev THEN {Dev} ELSE pool.in

Draw(w) ==
    /\ at[w] = "draw"
    /\ IF quota[w] > 0 /\ pickTarget # {}
       THEN /\ \E a \in pickTarget : asn' = [asn EXCEPT ![w] = a]
            /\ Goto(w, "loop")
            /\ UNCHANGED <<quota, local, size>>
       ELSE Ends(w)
    /\ UNCHANGED <<cfg, pool, elapsed, ctx, share, active, bucket, counters, returned,
                   devSeen, bounds>>

\* Mutant: one more datagram after the quota is reached.
LoopOnce(w) ==
    /\ at[w] = "loop"
    /\ IF local[w] <= quota[w] /\ ctx = "live"
       THEN /\ \E n \in Sizes : size' = [size EXCEPT ![w] = n]
            /\ Goto(w, "wait")
            /\ UNCHANGED <<quota, local, asn>>
       ELSE Ends(w)
    /\ UNCHANGED <<cfg, pool, elapsed, ctx, share, active, bucket, counters, returned,
                   devSeen, bounds>>

\* for local < quota, unless the context is done: draw a size.
Loop(w) ==
    /\ at[w] = "loop"
    /\ IF local[w] < quota[w] /\ ctx = "live"
       THEN /\ \E n \in Sizes : size' = [size EXCEPT ![w] = n]
            /\ Goto(w, "wait")
            /\ UNCHANGED <<quota, local, asn>>
       ELSE Ends(w)
    /\ UNCHANGED <<cfg, pool, elapsed, ctx, share, active, bucket, counters, returned,
                   devSeen, bounds>>

\* The bucket after a refill now; filled twice it is the same as filled once,
\* so a try that finds too few tokens changes nothing that matters.
Refilled == Smaller(rate, tokens + (elapsed - filled) * rate)

\* Mutant: a grant does not move the time of the last refill.
GrantAgain(w) ==
    /\ at[w] = "wait"
    /\ Refilled >= size[w]
    /\ tokens' = Refilled - size[w]
    /\ Goto(w, "write")
    /\ UNCHANGED <<cfg, pool, elapsed, ctx, share, active, rate, filled, quota, local, size,
                   asn, counters, returned, devSeen, bounds>>

\* tokenBucket.WaitN grants.
Grant(w) ==
    /\ at[w] = "wait"
    /\ Refilled >= size[w]
    /\ tokens' = Refilled - size[w]
    /\ filled' = elapsed
    /\ Goto(w, "write")
    /\ UNCHANGED <<cfg, pool, elapsed, ctx, share, active, rate, quota, local, size, asn,
                   counters, returned, devSeen, bounds>>

\* Mutant: a waiting worker does not watch its context.
NeverAbandon(w) ==
    /\ at[w] = "wait" /\ ctx = "done" /\ Refilled >= size[w]
    /\ Ends(w)
    /\ UNCHANGED <<cfg, pool, elapsed, ctx, share, active, bucket, counters, returned,
                   devSeen, bounds>>

\* WaitN on a context that is done, when the bucket does not have the tokens.
Abandon(w) ==
    /\ at[w] = "wait" /\ ctx = "done" /\ Refilled < size[w]
    /\ Ends(w)
    /\ UNCHANGED <<cfg, pool, elapsed, ctx, share, active, bucket, counters, returned,
                   devSeen, bounds>>

\* WriteTo, and the atomic adds to the cycle's counter and to the metric; only
\* the sampler and the dashboard see the metric between the two.
Write(w) ==
    /\ at[w] = "write"
    /\ local' = [local EXCEPT ![w] = @ + size[w]]
    /\ sent' = sent + size[w]
    /\ fake' = fake + size[w]
    /\ Goto(w, "record")
    /\ UNCHANGED <<cfg, pool, elapsed, ctx, share, active, bucket, quota, size, asn, billed,
                   returned, devSeen, bounds>>

\* No socket, or WriteTo fails.
SocketFails(w) ==
    /\ \/ at[w] = "write"
       \/ at[w] = "loop" /\ local[w] = 0
    /\ Ends(w)
    /\ UNCHANGED <<cfg, pool, elapsed, ctx, share, active, bucket, counters, returned,
                   devSeen, bounds>>

\* Mutant: the worker looks at its context before it records the send.
RecordUnlessDone(w) ==
    /\ at[w] = "record"
    /\ billed' = IF ctx = "done" THEN billed ELSE [billed EXCEPT ![asn[w]] = @ + size[w]]
    /\ size' = [size EXCEPT ![w] = 0]
    /\ Goto(w, "loop")
    /\ UNCHANGED <<cfg, pool, elapsed, ctx, share, active, bucket, quota, local, asn, sent,
                   fake, returned, devSeen, bounds>>

RecordSend(w) ==
    /\ at[w] = "record"
    /\ billed' = [billed EXCEPT ![asn[w]] = @ + size[w]]
    /\ size' = [size EXCEPT ![w] = 0]
    /\ Goto(w, "loop")
    /\ UNCHANGED <<cfg, pool, elapsed, ctx, share, active, bucket, quota, local, asn, sent,
                   fake, returned, devSeen, bounds>>

\* Recovered in the worker's goroutine; nothing between the write and the last
\* counter can panic.
Panic(w) ==
    /\ at[w] \in {"draw", "loop", "wait"}
    /\ panics < MaxPanics
    /\ panics' = panics + 1
    /\ Ends(w)
    /\ UNCHANGED <<cfg, pool, elapsed, ctx, share, active, bucket, counters, returned,
                   devSeen, cycles, edits>>

runWorker(w) ==
    \/ Draw(w) \/ Loop(w) \/ Grant(w) \/ Abandon(w) \/ Write(w) \/ SocketFails(w)
    \/ RecordSend(w) \/ Panic(w)

-----------------------------------------------------------------------------
(* Time and the dashboard.                                                 *)

Tick ==
    /\ ctx = "live" /\ elapsed < MaxCycle
    /\ elapsed' = elapsed + 1
    /\ UNCHANGED <<cfg, pool, ctx, share, active, bucket, worker, counters, returned,
                   devSeen, bounds>>

\* The deadline, or SIGTERM at any time.
Cancel ==
    /\ ctx = "live"
    /\ ctx' = "done"
    /\ UNCHANGED <<cfg, pool, elapsed, share, active, bucket, worker, counters, returned,
                   devSeen, bounds>>

Edit ==
    /\ edits < MaxEdits
    /\ edits' = edits + 1
    /\ \/ cfg' = [cfg EXCEPT !.dev = ~@]
       \/ \E s \in (SUBSET ASNs) \ {cfg.asns} : cfg' = [cfg EXCEPT !.asns = s]
    /\ devSeen' = (devSeen \/ cfg'.dev)
    /\ UNCHANGED <<pool, elapsed, ctx, share, active, bucket, worker, counters, returned,
                   cycles, panics>>

Next ==
    \/ Begin
    \/ Return
    \/ \E w \in Workers : runWorker(w)
    \/ Tick
    \/ Cancel
    \/ Edit

Spec == Init /\ [][Next]_vars

\* Goroutines are scheduled, and the deadline of the context passes.
Fairness ==
    /\ \A w \in Workers : WF_vars(runWorker(w))
    /\ WF_vars(Return)
    /\ WF_vars(Cancel)

FairSpec == Spec /\ Fairness

-----------------------------------------------------------------------------
(* Properties.                                                             *)

Total(f) == MapThenSumSet(LAMBDA k : f[k], DOMAIN f)

\* Every variable has its type, and only goroutines of the cycle are at a step.
TypeOK ==
    /\ cfg \in [dev : BOOLEAN, asns : SUBSET ASNs]
    /\ pool \in [selected : SUBSET ASNs, in : SUBSET Resolvable]
    /\ ctx \in {"off", "live", "done"} /\ elapsed \in 0..MaxCycle
    /\ active \subseteq Workers /\ (ctx = "off" => active = {})
    /\ rate \in Nat /\ tokens \in 0..rate /\ filled \in 0..elapsed
    /\ at \in [Workers -> {"none", "draw", "loop", "wait", "write", "record"}]
    /\ \A w \in Workers : at[w] # "none" => w \in active
    /\ \A w \in Workers : at[w] \in {"wait", "write", "record"} => size[w] \in Sizes
    /\ {quota, local, size} \subseteq [Workers -> Nat]
    /\ asn \in [Workers -> ASNs \cup {Dev}]
    /\ billed \in [ASNs \cup {Dev} -> Nat]
    /\ {share, sent, fake, returned, cycles, edits, panics} \subseteq Nat
    /\ devSeen \in BOOLEAN

\* What has been granted and is not yet sent.
InFlight == Total([w \in {v \in Workers : at[v] = "write"} |-> size[w]])

\* The token bucket holds the cycle's rate (docs/RED_LINES.md E3) however
\* many workers share it: one tick's burst, and the rate for the ticks elapsed.
RateHolds == ctx # "off" => sent + InFlight <= rate + rate * elapsed

\* A cycle sends at most its budget, a fifth more by jitter, and what each
\* worker's last datagram exceeds its quota by: the bound Engine relies on.
BudgetHolds ==
    sent <= Cardinality(active) * ((share * 6) \div 5 + IF share = 0 THEN 0 ELSE MaxDatagram - 1)

\* However cycles end (deadline, signal, failed sends, panics), what RunCycle
\* returned to the engine, the metric of fake bytes and the bytes billed to
\* ASNs are the same once its workers have ended.
CountersAgree ==
    ctx = "off" => returned = fake /\ fake = Total(billed)

SendsToPool ==
    \A w \in Workers :
        at[w] \in {"loop", "wait", "write", "record"} =>
            asn[w] \in pool.in \cup (IF devSeen THEN {Dev} ELSE {})

\* No worker sends outside the selection read at the top of its cycle, edited as it
\* may be since, and the pool is only ever the one that selection makes; to the
\* dev target only if dev mode was on in this cycle.
OnlySelected ==
    /\ []SendsToPool
    /\ [][ctx = "off" /\ ctx' = "live" => pool'.in = cfg.asns \cap Resolvable]_vars

\* Every cycle comes back, even one whose bucket never holds a whole datagram: with
\* a rate below the datagram's size (the curve scales it) WaitN grants nothing, and
\* only the context of the cycle ends the wait.
CycleReturns == ctx # "off" ~> ctx = "off"
=============================================================================
