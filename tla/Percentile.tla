----------------------------- MODULE Percentile -----------------------------
(***************************************************************************)
(* nthPercentile of metering/percentile.go: the samples are sorted and the *)
(* one at an index computed in floating point is charged.  A sample more   *)
(* is recorded at each step, up to a month of five-minute windows.         *)
(***************************************************************************)
EXTENDS Integers, FiniteSets

CONSTANTS Percentiles,  \* values of metering.percentile
          MaxRecorded   \* bound on the samples of a window

\* The range Validate allows; a month has 8928 windows of five minutes.
PercentileAssumption == Percentiles \subseteq 50..99 /\ MaxRecorded \in Nat /\ MaxRecorded <= 65535

VARIABLES p, n          \* the percentile, and the number of samples

vars == <<p, n>>

\* The error of p/100 as a float64, which has 53 bits below 1: in units of
\* 2^-53 / 100, by 2^53 % 100 = 92.
RoundingOf(q) == LET r == (92 * q) % 100 IN IF r < 50 THEN -r ELSE 100 - r

\* The power of two at or below k: it gives the spacing of floats near k.
Powers == {1, 2, 4, 8, 16, 32, 64, 128, 256, 512, 1024, 2048, 4096, 8192, 16384, 32768}
FloorPower(k) == CHOOSE w \in Powers : w <= k /\ k < 2 * w

\* math.Ceil(float64(p)/100*float64(n)): a product that should be whole is one
\* float above it when the error, times n, is more than half of the spacing.
CeilOfProduct(q, k) ==
    LET whole == (q * k) \div 100 IN
    IF (q * k) % 100 # 0 THEN whole + 1
    ELSE IF RoundingOf(q) * k > 100 * FloorPower(whole) THEN whole + 1
    ELSE whole

\* Mutant: the index is not made zero-based.
IndexOneBased(q, k) == IF CeilOfProduct(q, k) >= k THEN k - 1 ELSE CeilOfProduct(q, k)

\* Zero-based, within the slice.
Index(q, k) ==
    LET i == CeilOfProduct(q, k) - 1
    IN  IF i < 0 THEN 0 ELSE IF i >= k THEN k - 1 ELSE i

Smaller(vals, v) == {i \in DOMAIN vals : vals[i] < v}

\* s[i] of the sorted copy.
SortedAt(vals, i) ==
    LET at == CHOOSE j \in DOMAIN vals :
                /\ Cardinality(Smaller(vals, vals[j])) <= i
                /\ Cardinality(Smaller(vals, vals[j] + 1)) > i
    IN  vals[at]

nthPercentile(vals, q) ==
    LET k == Cardinality(DOMAIN vals)
    IN  IF k = 0 THEN 0 ELSE SortedAt(vals, Index(q, k))

Init == p \in Percentiles /\ n = 0

Record == n < MaxRecorded /\ n' = n + 1 /\ UNCHANGED p

Next == Record

Spec == Init /\ [][Next]_vars

-----------------------------------------------------------------------------
(* Properties.                                                             *)

\* The charged sample is the highest that is left when the top (100-p)% of the
\* samples are dropped, rounded down (percentile.go:20-21): the float product
\* is never one too high, not at the sample counts where it should be whole.
DropsTheTop == n > 0 => Index(p, n) = n - (n * (100 - p)) \div 100 - 1
=============================================================================
