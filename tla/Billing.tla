------------------------------ MODULE Billing ------------------------------
(***************************************************************************)
(* What GET /api/billing answers over the buckets of Metering, beside what *)
(* the provider of the link sees: the bytes carried in each five-minute    *)
(* window.  Rates are in bytes of a window: both divide by its 300 s.      *)
(***************************************************************************)
EXTENDS Metering, FiniteSetsExt, Functions

CONSTANTS Charged,      \* metering.percentile
          Period        \* windows from one start of a billing window to the next

ASSUME BillingAssumption == Charged \in 50..99 /\ Period \in Nat \ {0}

VARIABLES link,         \* history: bytes carried up to the end of each window
          entered,      \* history: bytes the totals were set up by, likewise
          late          \* history: those of either kind during a cycle begun in an
                        \* earlier window, up to the window of that cycle

bvars == <<vars, link, entered, late>>

Rule == INSTANCE Percentile
        WITH Percentiles <- {Charged}, MaxRecorded <- MaxTime, p <- Charged, n <- Len(file)

BInit == Init /\ link = [w \in 0..MaxTime |-> 0] /\ entered = link /\ late = link

\* n more in window w: more up to the end of it and of every later one.
Later(f, w, n) == [v \in 0..MaxTime |-> IF v >= w THEN f[v] + n ELSE f[v]]

\* The network card carries its bytes whatever the program does.
BNext ==
    /\ Next
    /\ link' = Later(link, now, carried' - carried)
    /\ entered' = Later(entered, now, raised' - raised)
    /\ late' = IF cycle = Unset \/ cycle = now THEN late
               ELSE Later(late, cycle, carried' + raised' - carried - raised)

BSpec == BInit /\ [][BNext]_bvars

-----------------------------------------------------------------------------

\* The day or the month that now is in began here.
billingWindowStart(w) == w - (w % Period)

\* The buckets of an answer of History from the start of the billing window;
\* bytes / 300 s of each, a bucket still in progress too.
Charges(answer) ==
    LET within == SelectSeq(answer, LAMBDA i : buckets[i].start >= billingWindowStart(now))
    IN  [k \in DOMAIN within |-> buckets[within[k]].up]

\* Mutant: the samples of a window with no traffic are not counted.
BilledRateOfBusy(answer) == Rule!nthPercentile(SelectSeq(Charges(answer), LAMBDA v : v > 0), Charged)

BilledRate(answer) == Rule!nthPercentile(Charges(answer), Charged)

-----------------------------------------------------------------------------
(* Properties.                                                             *)

SumUp(S) == SumFunctionOnSet([i \in DOMAIN buckets |-> buckets[i].up], S)

Begun(i) == buckets[i].start

\* A byte is never billed before it was carried, nor one that was not, but for the
\* bytes the operator set the totals up by, which the next sample takes for traffic:
\* up to any window no more is booked than went over the link and was entered by
\* then, but for the bytes of the one cycle that was running when the window ended.
\* A total set down adds nothing, and the flush of a finished bucket comes before the
\* delta that is added to the next.
NeverBilledEarly ==
    /\ measured <= carried + raised
    /\ \A w \in 0..now :
          SumUp({i \in DOMAIN buckets : Begun(i) <= w}) <= link[w] + entered[w] + late[w]

Window == billingWindowStart(now)..now

\* The bytes carried before window w began, and within it.
LinkBefore(w) == IF w = 0 THEN 0 ELSE link[w - 1]

LinkIn(w) == link[w] - LinkBefore(w)

Billed == {i \in ToSet(reader.answer) : Begun(i) \in Window}

WithBucket == {Begun(i) : i \in Billed}

\* History has just answered with every bucket, once each; within the billing
\* window each was sampled at the end of its five minutes, and left no byte to
\* the next.
Faithful ==
    /\ reader.at = "joined"
    /\ ToSet(reader.answer) = Recorded /\ IsInjective(reader.answer)
    /\ Cardinality(WithBucket) = Cardinality(Billed)
    /\ \A w \in WithBucket :
          SumUp({i \in Billed : Begun(i) <= w})
              = link[w] - LinkBefore(billingWindowStart(now))

Windows(P(_)) == Cardinality({w \in Window : P(LinkIn(w))})

\* The top (100-p)% of the samples of all windows discarded, the next-highest.
ProvidersRate ==
    LET top == (Cardinality(Window) * (100 - Charged)) \div 100
    IN  CHOOSE v \in 0..carried :
            /\ Windows(LAMBDA x : x > v) <= top
            /\ Windows(LAMBDA x : x >= v) > top

\* When the engine has run a cycle in every window, the bucket in progress
\* among them, the billed rate is what the provider charges: the percentile of
\* the 5-minute average-rate samples (docs/project.md:610-613).
BilledIfSampled ==
    Faithful /\ WithBucket = Window =>
        BilledRate(reader.answer) = ProvidersRate
=============================================================================
