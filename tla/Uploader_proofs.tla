-------------------------- MODULE Uploader_proofs --------------------------
(***************************************************************************)
(* Proofs about module Uploader: for any number of workers, any rate, any  *)
(* datagram sizes and any budgets, the token bucket holds the rate, a      *)
(* cycle holds its budget, the three counters of the bytes sent agree, and *)
(* no worker sends outside the selection.                                  *)
(*                                                                         *)
(* The sums over workers are the folds of FoldTheorems, over the integers. *)
(***************************************************************************)
EXTENDS Uploader, FiniteSetTheorems, TLAPS

N == INSTANCE FoldTheorems WITH Values <- Int, Base <- 0, Op <- +

\* The sum of z over a set of workers.
Part(D, z) == Total([w \in D |-> z[w]])

InStep(s) == {v \in Workers : at[v] = s}

-----------------------------------------------------------------------------
(* Sums.                                                                   *)

\* Addition does not care about the order of its operands.
LEMMA IntsAdd == N!Orderless
  BY DEF N!Orderless

\* The finite sets of FoldTheorems are the finite sets.
LEMMA Finite == \A S : N!IsFiniteSet(S) <=> IsFiniteSet(S)
  BY DEF N!IsFiniteSet, IsFiniteSet

\* Total is the fold of addition.
LEMMA TotalIsFold == \A f : Total(f) = N!Fold(f, DOMAIN f)
  BY DEF Total, MapThenSumSet, N!Fold, MapThenFoldSet, N!MapThenFoldSet

\* A sum over workers is the fold of the values themselves.
LEMMA PartIsFold ==
    ASSUME NEW D \in SUBSET Workers, NEW z
    PROVE  Part(D, z) = N!Fold(z, D)
<1> DEFINE f == [w \in D |-> z[w]]
<1>1. IsFiniteSet(D)
  BY UploaderAssumption, FS_Subset
<1>2. N!Fold(f, D) = N!Fold(z, D)
  BY <1>1, Finite, N!FoldSame
<1>3. Total(f) = N!Fold(f, D)
  BY TotalIsFold
<1> QED BY <1>2, <1>3 DEF Part

\* Sums of integers are integers, sums of naturals naturals, and that over
\* nobody is zero.
LEMMA PartType ==
    ASSUME NEW D \in SUBSET Workers, NEW z, \A v \in D : z[v] \in Int
    PROVE  /\ Part(D, z) \in Int
           /\ (\A v \in D : z[v] >= 0) => Part(D, z) >= 0
           /\ D = {} => Part(D, z) = 0
<1>1. IsFiniteSet(D)
  BY UploaderAssumption, FS_Subset
<1>2. Part(D, z) \in Int
  BY <1>1, IntsAdd, PartIsFold, Finite, N!FoldType
<1>3. D = {} => Part(D, z) = 0
  BY PartIsFold, N!FoldEmpty
<1>4. ASSUME \A v \in D : z[v] >= 0 PROVE Part(D, z) >= 0
  <2> DEFINE Bad == {T \in SUBSET D : ~(N!Fold(z, T) >= 0)}
  <2> SUFFICES ASSUME Bad # {} PROVE FALSE
    BY PartIsFold
  <2>1. PICK T \in Bad : \A V \in SUBSET T : V # T => V \notin Bad
    <3>1. Bad \subseteq SUBSET D
      OBVIOUS
    <3> HIDE DEF Bad
    <3> QED BY <1>1, <3>1, Finite, N!LeastSubset
  <2>2. IsFiniteSet(T) /\ T # {}
    <3>1. N!Fold(z, {}) = 0
      BY N!FoldEmpty
    <3>2. T \in SUBSET D /\ T # {}
      BY <2>1, <3>1
    <3> QED BY <1>1, <3>2, FS_Subset
  <2>3. PICK v \in T : TRUE
    BY <2>2
  <2>4. N!Fold(z, T) = z[v] + N!Fold(z, T \ {v})
    BY <2>1, <2>2, <2>3, IntsAdd, Finite, N!FoldRemove
  <2>5. T \ {v} \notin Bad /\ T \ {v} \in SUBSET D
    BY <2>1, <2>3
  <2>6. N!Fold(z, T \ {v}) \in Int
    BY <2>1, <2>2, FS_RemoveElement, IntsAdd, Finite, N!FoldType
  <2>7. z[v] \in Int /\ z[v] >= 0 /\ N!Fold(z, T \ {v}) >= 0
    BY <1>4, <2>1, <2>3, <2>5
  <2> QED BY <2>1, <2>4, <2>6, <2>7
<1> QED BY <1>2, <1>3, <1>4

\* One worker moves: it joins, leaves or changes its value.
LEMMA PartMoves ==
    ASSUME NEW D \in SUBSET Workers, NEW E \in SUBSET Workers, NEW w \in Workers,
           NEW z, NEW y,
           E \ {w} = D \ {w},
           \A v \in D : z[v] \in Int,
           \A v \in E : y[v] \in Int,
           \A v \in D \ {w} : y[v] = z[v]
    PROVE  Part(E, y) = Part(D, z) - (IF w \in D THEN z[w] ELSE 0)
                                   + (IF w \in E THEN y[w] ELSE 0)
<1> DEFINE R == D \ {w}
<1>1. IsFiniteSet(D) /\ IsFiniteSet(E) /\ IsFiniteSet(R) /\ R \in SUBSET Workers
  BY UploaderAssumption, FS_Subset
<1>2. N!Fold(z, R) = N!Fold(y, R) /\ N!Fold(z, R) \in Int
  <2>1. \A v \in R : z[v] = y[v] /\ z[v] \in Int
    OBVIOUS
  <2> HIDE DEF R
  <2> QED BY <1>1, <2>1, IntsAdd, Finite, N!FoldSame, N!FoldType
<1>3. Part(D, z) = N!Fold(z, R) + (IF w \in D THEN z[w] ELSE 0)
  <2>1. CASE w \in D
    <3>1. N!Fold(z, D) = z[w] + N!Fold(z, R)
      BY <1>1, <2>1, IntsAdd, Finite, N!FoldRemove
    <3> QED BY <2>1, <3>1, <1>2, PartIsFold
  <2>2. CASE w \notin D
    <3>1. R = D
      BY <2>2
    <3> HIDE DEF R
    <3> QED BY <2>2, <3>1, <1>2, PartIsFold
  <2> QED BY <2>1, <2>2
<1>4. Part(E, y) = N!Fold(y, R) + (IF w \in E THEN y[w] ELSE 0)
  <2>0. R = E \ {w}
    OBVIOUS
  <2>1. CASE w \in E
    <3>1. N!Fold(y, E) = y[w] + N!Fold(y, R)
      BY <1>1, <2>0, <2>1, IntsAdd, Finite, N!FoldRemove
    <3>2. y[w] \in Int
      BY <2>1
    <3> QED BY <2>1, <3>1, <3>2, <1>2, PartIsFold
  <2>2. CASE w \notin E
    <3>1. R = E
      BY <2>2
    <3> HIDE DEF R
    <3> QED BY <2>2, <3>1, <1>2, PartIsFold
  <2> QED BY <2>1, <2>2
<1>5. w \in D => z[w] \in Int
  OBVIOUS
<1>6. w \in E => y[w] \in Int
  OBVIOUS
<1> HIDE DEF R
<1> QED BY <1>2, <1>3, <1>4, <1>5, <1>6

\* Nobody moves.
LEMMA PartSame ==
    ASSUME NEW D \in SUBSET Workers, NEW z, NEW y, \A v \in D : y[v] = z[v]
    PROVE  Part(D, y) = Part(D, z)
<1>1. IsFiniteSet(D)
  BY UploaderAssumption, FS_Subset
<1> QED BY <1>1, PartIsFold, Finite, N!FoldSame

\* Everybody has the same.
LEMMA PartOfEqual ==
    ASSUME NEW D \in SUBSET Workers, NEW b \in Int, NEW z, \A v \in D : z[v] = b
    PROVE  Part(D, z) = Cardinality(D) * b
<1>0. IsFiniteSet(D)
  BY UploaderAssumption, FS_Subset
<1> DEFINE Bad == {T \in SUBSET D : N!Fold(z, T) # Cardinality(T) * b}
<1> SUFFICES ASSUME Bad # {} PROVE FALSE
  BY PartIsFold
<1>1. PICK T \in Bad : \A V \in SUBSET T : V # T => V \notin Bad
  <2>1. Bad \subseteq SUBSET D
    OBVIOUS
  <2> HIDE DEF Bad
  <2> QED BY <1>0, <2>1, Finite, N!LeastSubset
<1>2. IsFiniteSet(T) /\ T # {}
  BY <1>0, <1>1, FS_Subset, FS_EmptySet, N!FoldEmpty
<1>3. PICK v \in T : TRUE
  BY <1>2
<1>4. N!Fold(z, T) = z[v] + N!Fold(z, T \ {v}) /\ z[v] = b
  BY <1>1, <1>2, <1>3, IntsAdd, Finite, N!FoldRemove
<1>5. N!Fold(z, T \ {v}) = Cardinality(T \ {v}) * b
  BY <1>1, <1>3
<1>6. PICK k \in Int : k = Cardinality(T \ {v}) /\ Cardinality(T) = k + 1
  <2>1. IsFiniteSet(T \ {v}) /\ Cardinality(T \ {v}) = Cardinality(T) - 1
    BY <1>2, <1>3, FS_RemoveElement
  <2>2. Cardinality(T) \in Int /\ Cardinality(T \ {v}) \in Int
    BY <1>2, <2>1, FS_CardinalityType
  <2> QED BY <2>1, <2>2
<1>7. N!Fold(z, T) = b + k * b
  BY <1>4, <1>5, <1>6
<1>8. (k + 1) * b = b + k * b
  OBVIOUS
<1>9. Cardinality(T) * b = (k + 1) * b
  BY <1>6
<1> QED BY <1>1, <1>7, <1>8, <1>9

-----------------------------------------------------------------------------
(* Types.                                                                  *)

\* Budgets and quotas are divided rounding down; neither gets negative.
LEMMA Quotient == \A a \in Nat, b \in Nat \ {0} : a \div b \in Nat
  OBVIOUS

\* The jittered share of a worker is at most a fifth above the share, and nothing of
\* nothing (jitterQuota).
LEMMA QuotaBounds ==
    ASSUME NEW b \in Nat, NEW q \in jitterQuota(b)
    PROVE  q \in Nat /\ q <= (b * 6) \div 5 /\ (b = 0 => q = 0)
  BY DEF jitterQuota

\* A step of a worker leaves the others and the cycle alone.
LEMMA OthersStay ==
    ASSUME TypeOK, NEW w \in Workers, runWorker(w)
    PROVE  /\ \A v \in Workers \ {w} :
                 /\ at'[v] = at[v] /\ quota'[v] = quota[v] /\ local'[v] = local[v]
                 /\ size'[v] = size[v] /\ asn'[v] = asn[v]
           /\ UNCHANGED <<cfg, pool, elapsed, ctx, share, active, returned, devSeen>>
<1> USE DEF TypeOK, Goto, Ends
<1>1. CASE Draw(w)
  BY <1>1 DEF Draw
<1>2. CASE Loop(w)
  BY <1>2 DEF Loop
<1>3. CASE Grant(w)
  BY <1>3 DEF Grant
<1>4. CASE Abandon(w) \/ SocketFails(w) \/ Panic(w)
  BY <1>4 DEF Abandon, SocketFails, Panic
<1>5. CASE Write(w)
  BY <1>5 DEF Write
<1>6. CASE RecordSend(w)
  BY <1>6 DEF RecordSend
<1> QED BY <1>1, <1>2, <1>3, <1>4, <1>5, <1>6 DEF runWorker

\* Every variable has its type (Uploader.RunCycle, runWorker, tokenBucket.WaitN).
THEOREM TypeCorrect == Spec => []TypeOK
<1> USE UploaderAssumption DEF TypeOK
<1>1. Init => TypeOK
  <2> SUFFICES ASSUME Init PROVE TypeOK
    OBVIOUS
  <2>1. cfg \in [dev : BOOLEAN, asns : SUBSET ASNs] /\ pool \in [selected : SUBSET ASNs, in : SUBSET Resolvable]
    BY DEF Init
  <2>2. /\ at = [w \in Workers |-> "none"] /\ asn = [w \in Workers |-> Dev]
        /\ quota = [w \in Workers |-> 0] /\ local = [w \in Workers |-> 0]
        /\ size = [w \in Workers |-> 0]
    BY DEF Init, All
  <2>3. /\ at \in [Workers -> {"none", "draw", "loop", "wait", "write", "record"}]
        /\ {quota, local, size} \subseteq [Workers -> Nat]
        /\ asn \in [Workers -> ASNs \cup {Dev}]
        /\ \A w \in Workers : at[w] = "none"
    BY <2>2
  <2>4. devSeen \in BOOLEAN
    BY Zenon DEF Init
  <2>5. billed \in [ASNs \cup {Dev} -> Nat]
    BY DEF Init
  <2>6. /\ ctx \in {"off", "live", "done"} /\ elapsed \in 0..MaxCycle
        /\ active \subseteq Workers /\ (ctx = "off" => active = {})
        /\ rate \in Nat /\ tokens \in 0..rate /\ filled \in 0..elapsed
    BY DEF Init
  <2>7. {share, sent, fake, returned, cycles, edits, panics} \subseteq Nat
    BY DEF Init
  <2> QED BY <2>1, <2>3, <2>4, <2>5, <2>6, <2>7
<1>2. TypeOK /\ [Next]_vars => TypeOK'
  <2> SUFFICES ASSUME TypeOK, [Next]_vars PROVE TypeOK'
    OBVIOUS
  <2> USE DEF worker, bucket, counters, bounds
  <2>1. CASE Begin
    <3>1. PICK W \in (SUBSET Workers) \ {{}}, budget \in Budgets :
            /\ active' = W
            /\ share' = budget \div Cardinality(W)
            /\ \E q \in [W -> jitterQuota(share')] :
                  quota' = [v \in Workers |-> IF v \in W THEN q[v] ELSE 0]
            /\ at' = [v \in Workers |-> IF v \in W THEN "draw" ELSE "none"]
      BY <2>1 DEF Begin
    <3>2. share' \in Nat /\ W \subseteq Workers
      <4>1. IsFiniteSet(W)
        BY FS_Subset
      <4>2. Cardinality(W) \in Nat \ {0}
        <5>1. W # {}
          BY <3>1, Zenon
        <5>2. Cardinality(W) \in Nat /\ Cardinality(W) # 0
          BY <4>1, <5>1, FS_EmptySet, FS_CardinalityType
        <5> QED BY <5>2
      <4>3. budget \in Nat
        OBVIOUS
      <4>4. budget \div Cardinality(W) \in Nat
        BY <4>2, <4>3, Quotient
      <4> QED BY <3>1, <4>4
    <3>3. PICK q \in [W -> jitterQuota(share')] :
            quota' = [v \in Workers |-> IF v \in W THEN q[v] ELSE 0]
      BY <3>1
    <3>4. \A v \in W : q[v] \in Nat
      BY <3>2, <3>3, QuotaBounds
    <3>5. quota' \in [Workers -> Nat]
      BY <3>3, <3>4
    <3>6. pool' \in [selected : SUBSET ASNs, in : SUBSET Resolvable]
      BY <2>1 DEF Begin, EnsureSelection, Rebuilt
    <3>7. rate' \in Nat /\ tokens' \in 0..rate' /\ filled' = 0
      <4>1. PICK r \in Rates : rate' = Larger(1, r)
        BY <2>1 DEF Begin
      <4>2. rate' \in Nat
        BY <4>1, UploaderAssumption DEF Larger
      <4>3. tokens' = rate' /\ filled' = 0
        BY <2>1 DEF Begin
      <4> QED BY <4>2, <4>3
    <3>8. /\ cfg' = cfg /\ ctx' = "live" /\ elapsed' = 0 /\ active' = W /\ sent' = 0
          /\ at' = [v \in Workers |-> IF v \in W THEN "draw" ELSE "none"]
          /\ devSeen' = cfg.dev /\ cycles' = cycles + 1
          /\ UNCHANGED <<local, size, asn, fake, billed, returned, edits, panics>>
      BY <2>1, <3>1, Zenon DEF Begin
    <3>9. /\ at' \in [Workers -> {"none", "draw", "loop", "wait", "write", "record"}]
          /\ \A v \in Workers : at'[v] # "none" => v \in active'
          /\ \A v \in Workers : at'[v] \notin {"wait", "write", "record"}
      BY <3>8
    <3>10. cfg' \in [dev : BOOLEAN, asns : SUBSET ASNs] /\ devSeen' \in BOOLEAN
      BY <3>8
    <3>11. /\ ctx' \in {"off", "live", "done"} /\ elapsed' \in 0..MaxCycle
           /\ active' \subseteq Workers /\ (ctx' = "off" => active' = {})
           /\ filled' \in 0..elapsed'
      BY <3>2, <3>7, <3>8, UploaderAssumption
    <3>12. {share', sent', fake', returned', cycles', edits', panics'} \subseteq Nat
      BY <3>2, <3>8
    <3>13. /\ {quota', local', size'} \subseteq [Workers -> Nat]
           /\ asn' \in [Workers -> ASNs \cup {Dev}] /\ billed' \in [ASNs \cup {Dev} -> Nat]
      BY <3>5, <3>8
    <3> QED BY <3>6, <3>7, <3>9, <3>10, <3>11, <3>12, <3>13
  <2>2. CASE Return
    BY <2>2 DEF Return
  <2>3. ASSUME NEW w \in Workers, runWorker(w) PROVE TypeOK'
    <3> USE DEF Goto, Ends
    <3>1. CASE Draw(w)
      BY <3>1 DEF Draw, pickTarget
    <3>2. CASE Loop(w)
      BY <3>2 DEF Loop
    <3>3. CASE Grant(w)
      BY <3>3 DEF Grant, Refilled, Smaller
    <3>4. CASE Abandon(w) \/ SocketFails(w) \/ Panic(w)
      BY <3>4 DEF Abandon, SocketFails, Panic
    <3>5. CASE Write(w)
      BY <3>5 DEF Write
    <3>6. CASE RecordSend(w)
      BY <3>6 DEF RecordSend
    <3> QED BY <2>3, <3>1, <3>2, <3>3, <3>4, <3>5, <3>6 DEF runWorker
  <2>4. CASE Tick \/ Cancel
    BY <2>4 DEF Tick, Cancel
  <2>5. CASE Edit
    <3>1. cfg' \in [dev : BOOLEAN, asns : SUBSET ASNs]
      <4>1. PICK b \in BOOLEAN : b = ~cfg.dev
        BY Zenon
      <4>2. CASE cfg' = [cfg EXCEPT !.dev = ~@]
        <5>1. cfg' = [cfg EXCEPT !.dev = b]
          BY <4>1, <4>2, Zenon
        <5> QED BY <5>1
      <4>3. CASE \E s \in (SUBSET ASNs) \ {cfg.asns} : cfg' = [cfg EXCEPT !.asns = s]
        BY <4>3
      <4> QED BY <2>5, <4>2, <4>3, Zenon DEF Edit
    <3>2. devSeen' \in BOOLEAN
      <4>1. devSeen' = (devSeen \/ cfg'.dev)
        BY <2>5, Zenon DEF Edit
      <4>2. devSeen' = TRUE \/ devSeen' = FALSE
        BY <4>1, Zenon
      <4> QED BY <4>2, Zenon
    <3>3. edits' \in Nat
      BY <2>5 DEF Edit
    <3>4. UNCHANGED <<pool, elapsed, ctx, share, active, bucket, worker, counters, returned,
                   cycles, panics>>
      BY <2>5 DEF Edit
    <3> QED BY <3>1, <3>2, <3>3, <3>4
  <2>6. CASE UNCHANGED vars
    BY <2>6 DEF vars
  <2> QED BY <2>1, <2>2, <2>3, <2>4, <2>5, <2>6 DEF Next
<1> QED BY <1>1, <1>2, PTL DEF Spec

-----------------------------------------------------------------------------
(* The inductive invariants.                                               *)

\* A worker's share, a fifth more by jitter, and what its last datagram adds.
Allowance == (share * 6) \div 5 + IF share = 0 THEN 0 ELSE MaxDatagram - 1

Left == [w \in Workers |-> Allowance - local[w]]

Running == {w \in Workers : at[w] # "none"}

\* Tokens count as granted from the refill on: what is sent, in flight or left in
\* the bucket came from the burst and from the ticks up to the last refill.
RateInv == ctx # "off" => sent + Part(InStep("write"), size) + tokens <= rate + rate * filled

\* A byte the metric has and no ASN yet is between the two counters of a worker.
CountInv ==
    /\ returned + sent = fake
    /\ fake = Total(billed) + Part(InStep("record"), size)
    /\ ctx = "off" => sent = 0

QuotaInv ==
    /\ ctx = "off" => sent = 0
    /\ \A w \in Workers :
          /\ at[w] \in {"none", "draw"} => local[w] = 0
          /\ at[w] = "none" => quota[w] = 0
          /\ at[w] \in {"wait", "write"} => local[w] < quota[w]
          /\ at[w] # "none" => local[w] <= Allowance
          /\ quota[w] <= (share * 6) \div 5 /\ (share = 0 => quota[w] = 0)

\* What the running workers may still send is part of what the cycle may.
BudgetInv == sent + Part(Running, Left) <= Cardinality(active) * Allowance

PoolInv ==
    /\ pool.in = pool.selected \cap Resolvable
    /\ ctx # "off" /\ cfg.dev => devSeen
    /\ SendsToPool

-----------------------------------------------------------------------------
(* How a step of a worker changes the sums.                                *)

\* What is in flight, or written and not billed, changes by the datagram of the
\* worker that moves.
LEMMA StepSum ==
    ASSUME TypeOK, TypeOK', NEW w \in Workers, runWorker(w), NEW s
    PROVE  /\ {Part(InStep(s), size), Part(InStep(s), size)'} \subseteq Nat
           /\ Part(InStep(s), size)' =
                Part(InStep(s), size) - (IF at[w] = s THEN size[w] ELSE 0)
                                      + (IF at'[w] = s THEN size'[w] ELSE 0)
<1> DEFINE D == InStep(s)
           E == {v \in Workers : at'[v] = s}
<1>1. D \in SUBSET Workers /\ E \in SUBSET Workers
  BY DEF InStep
<1>2. (\A v \in Workers : size[v] \in Nat) /\ (\A v \in Workers : size'[v] \in Nat)
  BY DEF TypeOK
<1>3. E \ {w} = D \ {w} /\ \A v \in D \ {w} : size'[v] = size[v]
  BY OthersStay DEF InStep
<1>4. w \in D <=> at[w] = s
  BY DEF InStep
<1>5. w \in E <=> at'[w] = s
  OBVIOUS
<1>6. Part(InStep(s), size)' = Part(E, size')
  BY DEF InStep
<1> HIDE DEF D, E
<1>7. Part(E, size') = Part(D, size) - (IF w \in D THEN size[w] ELSE 0)
                                     + (IF w \in E THEN size'[w] ELSE 0)
  <2>1. (\A v \in D : size[v] \in Int) /\ (\A v \in E : size'[v] \in Int)
    BY <1>1, <1>2
  <2> QED BY <2>1, <1>1, <1>3, PartMoves
<1>8. Part(D, size) \in Nat
  <2>1. \A v \in D : size[v] \in Int /\ size[v] >= 0
    BY <1>1, <1>2
  <2>2. Part(D, size) \in Int /\ Part(D, size) >= 0
    BY <2>1, <1>1, PartType
  <2> QED BY <2>2
<1>9. Part(E, size') \in Nat
  <2>1. \A v \in E : size'[v] \in Int /\ size'[v] >= 0
    BY <1>1, <1>2
  <2>2. Part(E, size') \in Int /\ Part(E, size') >= 0
    BY <2>1, <1>1, PartType
  <2> QED BY <2>2
<1> QED BY <1>4, <1>5, <1>6, <1>7, <1>8, <1>9 DEF D

\* A step of nobody leaves the sum alone.
LEMMA SameSum ==
    ASSUME UNCHANGED worker, NEW s
    PROVE  Part(InStep(s), size)' = Part(InStep(s), size)
  BY DEF InStep, worker

\* A worker that is not running is at no step, so the sum is of nobody.
LEMMA NoSum ==
    ASSUME TypeOK, NEW s, \A w \in Workers : at[w] # s
    PROVE  Part(InStep(s), size) = 0
<1>1. InStep(s) = {} /\ InStep(s) \in SUBSET Workers
  BY DEF InStep
<1> QED BY <1>1, PartType

-----------------------------------------------------------------------------
(* The rate.                                                               *)

\* A token is spent before a datagram is sent and returned by nobody: the bucket accounts
\* for what is in flight.
LEMMA RateNext == TypeOK /\ TypeOK' /\ RateInv /\ [Next]_vars => RateInv'
<1> SUFFICES ASSUME TypeOK, TypeOK', RateInv, [Next]_vars PROVE RateInv'
  OBVIOUS
<1> DEFINE Flight == Part(InStep("write"), size)
<1>1. CASE Begin
  <2>1. /\ ctx' # "off" /\ sent' = 0 /\ tokens' = rate' /\ filled' = 0 /\ rate' \in Nat
        /\ \A v \in Workers : at'[v] # "write"
    BY <1>1 DEF Begin, TypeOK
  <2>2. Flight' = 0
    <3>1. InStep("write")' = {} /\ {} \in SUBSET Workers
      BY <2>1 DEF InStep
    <3>2. Part({}, size') = 0
      BY <3>1, PartType
    <3> QED BY <3>1, <3>2
  <2>3. sent' + Flight' + tokens' <= rate' + rate' * filled'
    BY <2>1, <2>2
  <2> QED BY <2>3 DEF RateInv
<1>2. CASE Return
  BY <1>2 DEF Return, RateInv
<1>3. ASSUME NEW w \in Workers, runWorker(w) PROVE RateInv'
  <2>0. ctx' = ctx /\ rate' = rate
    BY <1>3, OthersStay DEF runWorker, Draw, Loop, Grant, Abandon, Write, SocketFails,
                            RecordSend, Panic, bucket
  <2> SUFFICES ASSUME ctx # "off"
               PROVE  sent' + Flight' + tokens' <= rate + rate * filled'
    BY <2>0 DEF RateInv
  <2>1. /\ {sent, sent', Flight, Flight', tokens, tokens', filled, filled', elapsed,
            rate, size[w], size'[w]} \subseteq Nat
        /\ filled <= elapsed
    BY <1>3, StepSum, UploaderAssumption DEF TypeOK
  <2>2. sent + Flight + tokens <= rate + rate * filled
    BY DEF RateInv
  <2>3. Flight' = Flight - (IF at[w] = "write" THEN size[w] ELSE 0)
                         + (IF at'[w] = "write" THEN size'[w] ELSE 0)
    BY <1>3, StepSum
  <2> HIDE DEF Flight
  <2>4. CASE Grant(w)
    <3>1. /\ at[w] = "wait" /\ at'[w] = "write" /\ size'[w] = size[w] /\ sent' = sent
          /\ tokens' = Refilled - size[w] /\ filled' = elapsed
      BY <2>4 DEF Grant, Goto, TypeOK, counters
    <3>2. Flight' = Flight + size[w]
      BY <2>1, <2>3, <3>1
    <3>3. PICK d \in Nat : elapsed = filled + d /\ elapsed - filled = d
      BY <2>1
    <3>4. Refilled <= tokens + d * rate
      BY <2>1, <3>3 DEF Refilled, Smaller
    <3>5. rate * (filled + d) = rate * filled + d * rate
      BY <2>1
    <3>6. sent + (Flight + size[w]) + (Refilled - size[w]) <= rate + rate * (filled + d)
      BY <2>1, <2>2, <3>4, <3>5 DEF Refilled, Smaller
    <3> QED BY <3>1, <3>2, <3>3, <3>6
  <2>5. CASE Write(w)
    <3>1. /\ at[w] = "write" /\ at'[w] # "write" /\ sent' = sent + size[w]
          /\ tokens' = tokens /\ filled' = filled
      BY <2>5 DEF Write, Goto, TypeOK, bucket
    <3>2. Flight' = Flight - size[w]
      BY <2>1, <2>3, <3>1
    <3> QED BY <2>1, <2>2, <3>1, <3>2
  <2>6. CASE Draw(w) \/ Loop(w) \/ Abandon(w) \/ SocketFails(w) \/ RecordSend(w) \/ Panic(w)
    <3>1. at'[w] # "write" /\ sent' = sent /\ tokens' = tokens /\ filled' = filled
      BY <2>6 DEF Draw, Loop, Abandon, SocketFails, RecordSend, Panic, Goto, Ends, TypeOK,
                  bucket, counters
    <3>2. Flight' <= Flight
      BY <2>1, <2>3, <3>1
    <3> QED BY <2>1, <2>2, <3>1, <3>2
  <2> QED BY <1>3, <2>4, <2>5, <2>6 DEF runWorker
<1>4. CASE Tick \/ Cancel \/ Edit \/ UNCHANGED vars
  <2>1. /\ UNCHANGED <<worker, sent, rate, tokens, filled>>
        /\ ctx' # "off" => ctx # "off"
    BY <1>4 DEF Tick, Cancel, Edit, vars, worker, bucket, counters
  <2>2. Flight' = Flight
    BY <2>1, SameSum
  <2> QED BY <2>1, <2>2 DEF RateInv
<1> QED BY <1>1, <1>2, <1>3, <1>4 DEF Next

\* However many workers share the token bucket, a cycle never sends faster than the
\* configured rate after one tick's burst (tokenBucket.WaitN).
THEOREM RateIsHeld == Spec => []RateHolds
<1>1. Init => RateInv
  BY DEF Init, RateInv
<1>2. TypeOK /\ RateInv => RateHolds
  <2> SUFFICES ASSUME TypeOK, RateInv, ctx # "off"
               PROVE  sent + InFlight <= rate + rate * elapsed
    BY DEF RateHolds
  <2> DEFINE Flight == Part(InStep("write"), size)
  <2>1. InFlight = Flight
    BY DEF InFlight, Part, InStep
  <2>2. Flight \in Nat
    <3>1. /\ InStep("write") \in SUBSET Workers
          /\ \A v \in InStep("write") : size[v] \in Int /\ size[v] >= 0
      BY DEF InStep, TypeOK
    <3>2. Flight \in Int /\ Flight >= 0
      BY <3>1, PartType
    <3> QED BY <3>2
  <2>3. sent + Flight + tokens <= rate + rate * filled
    BY DEF RateInv
  <2> HIDE DEF Flight
  <2>4. PICK d \in Nat : elapsed = filled + d
    BY DEF TypeOK
  <2>5. rate * (filled + d) = rate * filled + rate * d /\ rate * d >= 0
    BY UploaderAssumption DEF TypeOK
  <2> QED BY <2>1, <2>2, <2>3, <2>4, <2>5, UploaderAssumption DEF TypeOK
<1> QED BY <1>1, <1>2, RateNext, TypeCorrect, PTL DEF Spec

-----------------------------------------------------------------------------
(* The counters.                                                           *)

\* A send adds its bytes to the sum over all ASNs once.
LEMMA BilledSum ==
    ASSUME TypeOK, NEW a \in ASNs \cup {Dev}, NEW n \in Nat,
           NEW b, b = [billed EXCEPT ![a] = @ + n]
    PROVE  Total(b) = Total(billed) + n /\ Total(billed) \in Int
<1> DEFINE S == ASNs \cup {Dev}
<1>1. IsFiniteSet(S)
  BY UploaderAssumption, FS_AddElement
<1>2. DOMAIN b = S /\ DOMAIN billed = S /\ a \in S
  BY DEF TypeOK
<1>3. /\ \A c \in S : billed[c] \in Int /\ b[c] \in Int
      /\ \A c \in S \ {a} : billed[c] = b[c]
      /\ b[a] = billed[a] + n
  BY DEF TypeOK
<1> HIDE DEF S
<1>4. /\ N!Fold(billed, S) = billed[a] + N!Fold(billed, S \ {a})
      /\ N!Fold(b, S) = b[a] + N!Fold(billed, S \ {a})
      /\ N!Fold(billed, S \ {a}) \in Int
  <2>1. N!IsFiniteSet(S) /\ N!IsFiniteSet(S \ {a})
    BY <1>1, Finite, FS_RemoveElement
  <2>2. N!Fold(billed, S \ {a}) = N!Fold(b, S \ {a})
    BY <1>3, <2>1, N!FoldSame
  <2>3. N!Fold(billed, S) = billed[a] + N!Fold(billed, S \ {a})
    BY <1>2, <1>3, <2>1, IntsAdd, N!FoldRemove
  <2>4. N!Fold(b, S) = b[a] + N!Fold(b, S \ {a})
    BY <1>2, <1>3, <2>1, IntsAdd, N!FoldRemove
  <2>5. N!Fold(billed, S \ {a}) \in Int
    BY <1>3, <2>1, IntsAdd, N!FoldType
  <2> QED BY <2>2, <2>3, <2>4, <2>5
<1>5. Total(billed) = N!Fold(billed, S) /\ Total(b) = N!Fold(b, S)
  BY <1>2, TotalIsFold
<1>6. billed[a] \in Int
  BY <1>2, <1>3
<1> QED BY <1>3, <1>4, <1>5, <1>6

\* The bytes metered by ASN add up to a number.
LEMMA BilledType == TypeOK => Total(billed) \in Int
<1> SUFFICES ASSUME TypeOK PROVE Total(billed) \in Int
  OBVIOUS
<1>1. [billed EXCEPT ![Dev] = @ + 0] = [billed EXCEPT ![Dev] = @ + 0]
  OBVIOUS
<1> QED BY <1>1, BilledSum

\* What was sent and is not in the counters is in the hands of the workers that have not
\* recorded it yet.
LEMMA CountNext == TypeOK /\ TypeOK' /\ CountInv /\ [Next]_vars => CountInv'
<1> SUFFICES ASSUME TypeOK, TypeOK', CountInv, [Next]_vars PROVE CountInv'
  OBVIOUS
<1> DEFINE Due == Part(InStep("record"), size)
<1>0. {sent, sent', fake, fake', returned, returned', Total(billed)} \subseteq Int
  BY BilledType DEF TypeOK
<1>1. CASE Begin
  <2>1. /\ ctx = "off" /\ ctx' # "off" /\ sent' = 0 /\ UNCHANGED <<fake, billed, returned>>
        /\ \A v \in Workers : at'[v] # "record"
    BY <1>1 DEF Begin
  <2>2. Due' = 0
    <3>1. InStep("record")' = {} /\ {} \in SUBSET Workers
      BY <2>1 DEF InStep
    <3>2. Part({}, size') = 0
      BY <3>1, PartType
    <3> QED BY <3>1, <3>2
  <2>3. Due = 0
    <3>1. \A v \in Workers : at[v] # "record"
      BY <2>1 DEF TypeOK
    <3> QED BY <3>1, NoSum
  <2> HIDE DEF Due
  <2>4. Total(billed)' = Total(billed)
    BY <2>1
  <2>5. fake = Total(billed) + Due /\ returned + sent = fake /\ sent = 0
    BY <2>1 DEF CountInv, Due
  <2>6. fake' = Total(billed)' + Due' /\ returned' + sent' = fake'
    BY <1>0, <2>1, <2>2, <2>3, <2>4, <2>5
  <2> QED BY <2>1, <2>6 DEF CountInv, Due
<1>2. CASE Return
  <2>1. returned' = returned + sent /\ sent' = 0 /\ UNCHANGED <<worker, fake, billed>>
    BY <1>2 DEF Return
  <2>2. Due' = Due
    BY <2>1, SameSum
  <2>3. returned' + sent' = fake'
    BY <1>0, <2>1 DEF CountInv
  <2> QED BY <2>1, <2>2, <2>3 DEF CountInv
<1>3. ASSUME NEW w \in Workers, runWorker(w) PROVE CountInv'
  <2>0. ctx' = ctx /\ returned' = returned
    BY <1>3, OthersStay
  <2>1. /\ {Due, Due', size[w], size'[w]} \subseteq Nat
        /\ Due' = Due - (IF at[w] = "record" THEN size[w] ELSE 0)
                      + (IF at'[w] = "record" THEN size'[w] ELSE 0)
    BY <1>3, StepSum DEF TypeOK
  <2>2. returned + sent = fake /\ fake = Total(billed) + Due /\ (ctx = "off" => sent = 0)
    BY DEF CountInv
  <2>3. at[w] # "none" => ctx # "off"
    BY DEF TypeOK
  <2> HIDE DEF Due
  <2> SUFFICES /\ returned' + sent' = fake' /\ fake' = Total(billed)' + Due'
               /\ ctx' = "off" => sent' = 0
    BY DEF CountInv, Due
  <2>4. CASE Write(w)
    <3>1. /\ at[w] = "write" /\ at'[w] = "record" /\ size'[w] = size[w]
          /\ sent' = sent + size[w] /\ fake' = fake + size[w] /\ billed' = billed
      BY <2>4 DEF Write, Goto, TypeOK
    <3>2. Due' = Due + size[w] /\ Total(billed)' = Total(billed)
      BY <2>1, <3>1
    <3>3. returned' + sent' = fake' /\ fake' = Total(billed)' + Due'
      BY <1>0, <2>0, <2>1, <2>2, <3>1, <3>2
    <3> QED BY <2>0, <2>3, <3>1, <3>3
  <2>5. CASE RecordSend(w)
    <3>1. /\ at[w] = "record" /\ at'[w] # "record" /\ sent' = sent /\ fake' = fake
          /\ billed' = [billed EXCEPT ![asn[w]] = @ + size[w]]
          /\ asn[w] \in ASNs \cup {Dev}
      BY <2>5 DEF RecordSend, Goto, TypeOK
    <3>2. Due' = Due - size[w]
      BY <2>1, <3>1
    <3>3. size[w] \in Nat
      BY <2>1
    <3>4. Total(billed') = Total(billed) + size[w]
      BY <3>1, <3>3, BilledSum
    <3>5. Total(billed)' = Total(billed')
      OBVIOUS
    <3>6. fake' = Total(billed)' + Due'
      BY <1>0, <2>1, <2>2, <3>1, <3>2, <3>4, <3>5
    <3> QED BY <2>0, <2>2, <3>1, <3>6
  <2>6. CASE Draw(w) \/ Loop(w) \/ Grant(w) \/ Abandon(w) \/ SocketFails(w) \/ Panic(w)
    <3>1. /\ at[w] # "record" /\ at'[w] # "record"
          /\ sent' = sent /\ fake' = fake /\ billed' = billed
      BY <2>6 DEF Draw, Loop, Grant, Abandon, SocketFails, Panic, Goto, Ends, TypeOK, counters
    <3>2. Due' = Due /\ Total(billed)' = Total(billed)
      BY <2>1, <3>1
    <3> QED BY <2>0, <2>2, <3>1, <3>2
  <2> QED BY <1>3, <2>4, <2>5, <2>6 DEF runWorker
<1>4. CASE Tick \/ Cancel \/ Edit \/ UNCHANGED vars
  <2>1. /\ UNCHANGED <<worker, sent, fake, billed, returned>>
        /\ ctx' = "off" => ctx = "off"
    BY <1>4 DEF Tick, Cancel, Edit, vars, worker, counters
  <2>2. Due' = Due /\ Total(billed)' = Total(billed)
    BY <2>1, SameSum
  <2> QED BY <2>1, <2>2 DEF CountInv
<1> QED BY <1>1, <1>2, <1>3, <1>4 DEF Next

\* However cycles end, what RunCycle returned, the metric of fake bytes and the bytes
\* billed to ASNs agree between two cycles (Uploader.runWorker).
THEOREM CountersAgreeAlways == Spec => []CountersAgree
<1>1. Init => CountInv
  <2> SUFFICES ASSUME Init PROVE CountInv
    OBVIOUS
  <2>1. Part(InStep("record"), size) = 0
    <3>1. InStep("record") = {} /\ {} \in SUBSET Workers
      BY DEF Init, All, InStep
    <3> QED BY <3>1, PartType
  <2>2. Total(billed) = 0
    <3>1. IsFiniteSet(ASNs \cup {Dev}) /\ DOMAIN billed = ASNs \cup {Dev}
      BY UploaderAssumption, FS_AddElement DEF Init
    <3>2. \A a \in ASNs \cup {Dev} : billed[a] = 0
      BY DEF Init
    <3>3. 0 + 0 = 0
      OBVIOUS
    <3> QED BY <3>1, <3>2, <3>3, TotalIsFold, Finite, N!FoldBase
  <2> QED BY <2>1, <2>2 DEF Init, CountInv
<1>2. TypeOK /\ CountInv => CountersAgree
  <2> SUFFICES ASSUME TypeOK, CountInv, ctx = "off"
               PROVE  returned = fake /\ fake = Total(billed)
    BY DEF CountersAgree
  <2>1. \A v \in Workers : at[v] # "record"
    BY DEF TypeOK
  <2>2. Part(InStep("record"), size) = 0
    BY <2>1, NoSum
  <2> QED BY <2>2, BilledType DEF CountInv, TypeOK
<1> QED BY <1>1, <1>2, CountNext, TypeCorrect, PTL DEF Spec

-----------------------------------------------------------------------------
(* The budget.                                                             *)

\* The largest datagram exists and bounds every other.
LEMMA MaxDatagramBounds == MaxDatagram \in Nat \ {0} /\ \A n \in Sizes : n <= MaxDatagram
<1>1. PICK m \in Sizes : \A k \in Sizes : m >= k
  <2>1. N!IsFiniteSet(Sizes) /\ Sizes \subseteq Int /\ Sizes # {}
    BY UploaderAssumption, Finite
  <2> QED BY <2>1, N!Greatest
<1>2. MaxDatagram \in Sizes /\ \A k \in Sizes : MaxDatagram >= k
  BY <1>1 DEF MaxDatagram, Max
<1> QED BY <1>2, UploaderAssumption

\* What one worker may send is a number, and its quota is within it.
LEMMA AllowanceType == TypeOK => Allowance \in Nat /\ (share * 6) \div 5 \in Nat
                                 /\ (share * 6) \div 5 <= Allowance
<1> SUFFICES ASSUME TypeOK PROVE Allowance \in Nat /\ (share * 6) \div 5 \in Nat
                                 /\ (share * 6) \div 5 <= Allowance
  OBVIOUS
<1>1. share \in Nat
  BY DEF TypeOK
<1>2. (share * 6) \div 5 \in Nat
  BY <1>1
<1> QED BY <1>1, <1>2, MaxDatagramBounds DEF Allowance

\* A quota is drawn when the worker starts and never grows; the count passes it by less
\* than a datagram.
LEMMA QuotaNext == TypeOK /\ TypeOK' /\ QuotaInv /\ [Next]_vars => QuotaInv'
<1> SUFFICES ASSUME TypeOK, TypeOK', QuotaInv, [Next]_vars PROVE QuotaInv'
  OBVIOUS
<1>1. CASE Begin
  <2>1. PICK W \in (SUBSET Workers) \ {{}}, budget \in Budgets :
          /\ \E q \in [W -> jitterQuota(share')] :
                quota' = [v \in Workers |-> IF v \in W THEN q[v] ELSE 0]
          /\ at' = [v \in Workers |-> IF v \in W THEN "draw" ELSE "none"]
    BY <1>1 DEF Begin
  <2>2. PICK q \in [W -> jitterQuota(share')] :
          quota' = [v \in Workers |-> IF v \in W THEN q[v] ELSE 0]
    BY <2>1
  <2>3. PICK b \in Nat : b = share'
    BY DEF TypeOK
  <2>4. ASSUME NEW v \in Workers
        PROVE  /\ quota'[v] <= (b * 6) \div 5 /\ (b = 0 => quota'[v] = 0)
               /\ at'[v] = "none" => quota'[v] = 0
    <3>1. CASE v \in W
      <4>1. q[v] \in jitterQuota(b) /\ quota'[v] = q[v] /\ at'[v] # "none"
        BY <2>1, <2>2, <2>3, <3>1
      <4> QED BY <4>1, QuotaBounds
    <3>2. CASE v \notin W
      <4>1. quota'[v] = 0
        BY <2>2, <3>2
      <4> QED BY <4>1
    <3> QED BY <3>1, <3>2
  <2>5. \A v \in Workers : at'[v] \in {"none", "draw"} /\ local'[v] = 0
    <3>1. \A v \in Workers : at[v] = "none" /\ local'[v] = local[v]
      BY <1>1 DEF Begin, TypeOK
    <3>2. \A v \in Workers : at'[v] \in {"none", "draw"}
      BY <1>1 DEF Begin
    <3> QED BY <3>1, <3>2 DEF QuotaInv
  <2>6. Allowance' \in Nat
    <3>1. (b * 6) \div 5 \in Nat
      OBVIOUS
    <3>2. (share' * 6) \div 5 \in Nat
      BY <2>3, <3>1
    <3> QED BY <3>2, MaxDatagramBounds DEF Allowance
  <2>7. \A v \in Workers : local'[v] <= Allowance'
    BY <2>5, <2>6
  <2>8. sent' = 0
    BY <1>1 DEF Begin
  <2> QED BY <2>3, <2>4, <2>5, <2>7, <2>8 DEF QuotaInv
<1>2. CASE Return
  <2>1. /\ sent' = 0 /\ share' = 0 /\ UNCHANGED worker
        /\ \A v \in Workers : at[v] = "none"
    BY <1>2 DEF Return, TypeOK
  <2>2. \A v \in Workers : quota[v] = 0
    BY <2>1 DEF QuotaInv
  <2>3. \A v \in Workers : at'[v] = "none" /\ local'[v] = 0 /\ quota'[v] = 0
    BY <2>1, <2>2 DEF QuotaInv, worker
  <2> QED BY <2>1, <2>3 DEF QuotaInv
<1>3. ASSUME NEW w \in Workers, runWorker(w) PROVE QuotaInv'
  <2> USE DEF TypeOK, Goto, Ends
  <2> DEFINE Fifth == (share * 6) \div 5
  <2>1. /\ \A v \in Workers \ {w} : /\ at'[v] = at[v] /\ quota'[v] = quota[v]
                                    /\ local'[v] = local[v]
        /\ UNCHANGED <<ctx, share>>
    BY <1>3, OthersStay
  <2>2. Allowance' = Allowance /\ Fifth' = Fifth
    BY <2>1 DEF Allowance
  <2>3. Allowance \in Nat /\ Fifth \in Nat /\ Fifth <= Allowance
    BY AllowanceType
  <2>4. /\ {local[w], local'[w], quota[w], quota'[w], size[w], sent, sent'} \subseteq Nat
        /\ at[w] # "none" /\ ctx # "off"
    BY <1>3 DEF runWorker, Draw, Loop, Grant, Abandon, Write, SocketFails, RecordSend, Panic
  <2>5. /\ at[w] \in {"none", "draw"} => local[w] = 0
        /\ at[w] \in {"wait", "write"} => local[w] < quota[w]
        /\ local[w] <= Allowance /\ quota[w] <= Fifth /\ (share = 0 => quota[w] = 0)
    BY <2>4 DEF QuotaInv
  <2>6. /\ at'[w] \in {"none", "draw"} => local'[w] = 0
        /\ at'[w] = "none" => quota'[w] = 0
        /\ at'[w] \in {"wait", "write"} => local'[w] < quota'[w]
        /\ at'[w] # "none" => local'[w] <= Allowance
        /\ quota'[w] <= Fifth /\ (share = 0 => quota'[w] = 0)
    <3> HIDE DEF Fifth
    <3>1. CASE Draw(w)
      BY <2>3, <2>4, <2>5, <3>1 DEF Draw
    <3>2. CASE Loop(w)
      BY <2>3, <2>4, <2>5, <3>2 DEF Loop
    <3>3. CASE Grant(w)
      BY <2>3, <2>4, <2>5, <3>3 DEF Grant
    <3>4. CASE Abandon(w) \/ SocketFails(w) \/ Panic(w)
      BY <2>3, <2>4, <2>5, <3>4 DEF Abandon, SocketFails, Panic
    <3>5. CASE Write(w)
      <4>1. /\ at[w] = "write" /\ at'[w] = "record" /\ quota'[w] = quota[w]
            /\ local'[w] = local[w] + size[w] /\ size[w] \in Sizes
        BY <3>5 DEF Write
      <4>2. share # 0 /\ local[w] + 1 <= Fifth
        BY <2>3, <2>4, <2>5, <4>1
      <4>3. Allowance = Fifth + (MaxDatagram - 1)
        BY <4>2 DEF Allowance, Fifth
      <4>4. size[w] <= MaxDatagram /\ MaxDatagram \in Nat
        BY <4>1, MaxDatagramBounds
      <4>5. local[w] + size[w] <= Allowance
        BY <2>3, <2>4, <4>2, <4>3, <4>4
      <4> QED BY <2>5, <4>1, <4>5
    <3>6. CASE RecordSend(w)
      BY <2>3, <2>4, <2>5, <3>6 DEF RecordSend
    <3> QED BY <1>3, <3>1, <3>2, <3>3, <3>4, <3>5, <3>6 DEF runWorker
  <2>7. ASSUME NEW v \in Workers
        PROVE  /\ at'[v] \in {"none", "draw"} => local'[v] = 0
               /\ at'[v] = "none" => quota'[v] = 0
               /\ at'[v] \in {"wait", "write"} => local'[v] < quota'[v]
               /\ at'[v] # "none" => local'[v] <= Allowance
               /\ quota'[v] <= Fifth /\ (share = 0 => quota'[v] = 0)
    <3>1. CASE v = w
      BY <2>6, <3>1
    <3>2. CASE v # w
      BY <2>1, <3>2 DEF QuotaInv
    <3> QED BY <3>1, <3>2
  <2>8. ctx' # "off" /\ share' = share
    BY <2>1, <2>4
  <2> HIDE DEF TypeOK
  <2> QED BY <2>2, <2>7, <2>8 DEF QuotaInv
<1>4. CASE Tick \/ Cancel \/ Edit \/ UNCHANGED vars
  <2>1. UNCHANGED <<worker, sent, share>> /\ (ctx' = "off" => ctx = "off")
    BY <1>4 DEF Tick, Cancel, Edit, vars, worker, counters
  <2>2. UNCHANGED <<at, quota, local, sent, share>> /\ Allowance' = Allowance
    BY <2>1 DEF worker, Allowance
  <2> QED BY <2>1, <2>2 DEF QuotaInv
<1> QED BY <1>1, <1>2, <1>3, <1>4 DEF Next

\* What a worker sends comes out of its own allowance, and the sum over those that run only
\* shrinks.
LEMMA BudgetNext ==
    TypeOK /\ TypeOK' /\ QuotaInv /\ QuotaInv' /\ BudgetInv /\ [Next]_vars => BudgetInv'
<1> SUFFICES ASSUME TypeOK, TypeOK', QuotaInv, QuotaInv', BudgetInv, [Next]_vars
             PROVE  BudgetInv'
  OBVIOUS
<1> DEFINE Room == Part(Running, Left)
<1>0. Allowance \in Nat /\ Running \in SUBSET Workers
  BY AllowanceType DEF Running
<1>1. CASE Begin
  <2>1. PICK W \in (SUBSET Workers) \ {{}} :
          active' = W /\ at' = [v \in Workers |-> IF v \in W THEN "draw" ELSE "none"]
    BY <1>1 DEF Begin
  <2>2. Running' = W /\ W \in SUBSET Workers
    BY <2>1 DEF Running
  <2>3. PICK b : b = Allowance'
    OBVIOUS
  <2>4. b \in Int
    <3>1. PICK s \in Nat : s = share'
      BY DEF TypeOK
    <3>2. (s * 6) \div 5 \in Nat
      OBVIOUS
    <3>3. (share' * 6) \div 5 \in Nat
      BY <3>1, <3>2
    <3> QED BY <2>3, <3>3, MaxDatagramBounds DEF Allowance
  <2>5. \A v \in W : local'[v] = 0
    BY <2>1 DEF QuotaInv
  <2>6. Left' = [v \in Workers |-> b - local'[v]]
    BY <2>3 DEF Left
  <2>7. \A v \in W : Left'[v] = b
    BY <2>2, <2>4, <2>5, <2>6
  <2>8. Part(W, Left') = Cardinality(W) * b
    BY <2>2, <2>4, <2>7, PartOfEqual
  <2>9. PICK n \in Int : n = Cardinality(W)
    BY <2>2, UploaderAssumption, FS_Subset, FS_CardinalityType
  <2>10. Room' = n * b
    BY <2>2, <2>8, <2>9
  <2>11. sent' = 0 /\ Cardinality(active)' = n
    BY <1>1, <2>1, <2>9 DEF Begin
  <2>12. n * b \in Int
    BY <2>4, <2>9
  <2>13. 0 + n * b <= n * b
    BY <2>12
  <2> HIDE DEF Room
  <2>14. sent' + Room' <= Cardinality(active)' * Allowance'
    BY <2>3, <2>10, <2>11, <2>13
  <2> QED BY <2>14 DEF BudgetInv, Room
<1>2. CASE Return
  <2>1. /\ sent' = 0 /\ share' = 0 /\ active' = {} /\ at' = at
        /\ \A v \in Workers : at[v] = "none"
    BY <1>2 DEF Return, TypeOK, worker
  <2>2. Running' = {} /\ {} \in SUBSET Workers
    BY <2>1 DEF Running
  <2>3. Room' = 0
    <3>1. Part({}, Left') = 0
      BY <2>2, PartType
    <3> QED BY <2>2, <3>1
  <2>4. Cardinality(active)' = 0
    BY <2>1, FS_EmptySet
  <2>5. Allowance' = 0
    BY <2>1 DEF Allowance
  <2> HIDE DEF Room
  <2>6. sent' + Room' <= Cardinality(active)' * Allowance'
    BY <2>1, <2>3, <2>4, <2>5
  <2> QED BY <2>6 DEF BudgetInv, Room
<1>3. ASSUME NEW w \in Workers, runWorker(w) PROVE BudgetInv'
  <2>1. /\ \A v \in Workers \ {w} : at'[v] = at[v] /\ local'[v] = local[v]
        /\ UNCHANGED <<ctx, share, active>>
    BY <1>3, OthersStay
  <2>2. Allowance' = Allowance
    BY <2>1 DEF Allowance
  <2>3. /\ at[w] # "none"
        /\ {local[w], local'[w], size[w], sent, sent', Allowance} \subseteq Nat
        /\ local[w] <= Allowance
    <3>1. at[w] # "none"
      BY <1>3 DEF runWorker, Draw, Loop, Grant, Abandon, Write, SocketFails, RecordSend, Panic
    <3>2. {local[w], local'[w], size[w], sent, sent', Allowance} \subseteq Nat
      BY <1>0 DEF TypeOK
    <3> QED BY <3>1, <3>2 DEF QuotaInv
  <2> DEFINE E == {v \in Workers : at'[v] # "none"}
             y == [v \in Workers |-> Allowance - local'[v]]
  <2>4. Room' = Part(E, y)
    BY <2>2 DEF Running, Left
  <2>5. /\ E \in SUBSET Workers /\ E \ {w} = Running \ {w} /\ w \in Running
        /\ \A v \in Workers : Left[v] \in Int /\ y[v] \in Int
        /\ \A v \in Workers \ {w} : y[v] = Left[v]
        /\ Left[w] = Allowance - local[w] /\ y[w] = Allowance - local'[w]
        /\ w \in E <=> at'[w] # "none"
    <3>1. /\ \A v \in Workers : local[v] \in Nat
          /\ \A v \in Workers : local'[v] \in Nat
      BY DEF TypeOK
    <3> QED BY <1>0, <2>1, <2>3, <3>1 DEF Running, Left
  <2> HIDE DEF E, y
  <2>6. Part(E, y) = Room - Left[w] + (IF w \in E THEN y[w] ELSE 0)
    <3>1. /\ \A v \in Running : Left[v] \in Int
          /\ \A v \in E : y[v] \in Int
          /\ \A v \in Running \ {w} : y[v] = Left[v]
      BY <1>0, <2>5
    <3> QED BY <1>0, <2>5, <3>1, PartMoves
  <2>7. Room \in Int
    <3>1. \A v \in Running : Left[v] \in Int
      BY <1>0, <2>5
    <3> QED BY <1>0, <3>1, PartType
  <2> HIDE DEF Room
  <2>8. /\ {Room, Room', sent, sent', size[w], local[w], local'[w], Allowance} \subseteq Int
        /\ local[w] <= Allowance
        /\ Room' = Room - (Allowance - local[w])
                        + (IF at'[w] # "none" THEN Allowance - local'[w] ELSE 0)
    BY <2>3, <2>4, <2>5, <2>6, <2>7
  <2>9. sent' + Room' <= sent + Room
    <3>1. CASE Write(w)
      <4>1. at'[w] # "none" /\ local'[w] = local[w] + size[w] /\ sent' = sent + size[w]
        BY <3>1 DEF Write, Goto, TypeOK
      <4> QED BY <2>8, <4>1
    <3>2. CASE Draw(w) \/ Loop(w) \/ Grant(w) \/ Abandon(w) \/ SocketFails(w)
               \/ RecordSend(w) \/ Panic(w)
      <4>1. sent' = sent /\ (at'[w] = "none" \/ local'[w] = local[w])
        BY <3>2 DEF Draw, Loop, Grant, Abandon, SocketFails, RecordSend, Panic, Goto, Ends,
                    TypeOK, counters
      <4> QED BY <2>8, <4>1
    <3> QED BY <1>3, <3>1, <3>2 DEF runWorker
  <2>10. sent + Room <= Cardinality(active) * Allowance
    BY DEF BudgetInv, Room
  <2>11. Cardinality(active) * Allowance \in Int
    <3>1. PICK n \in Int : n = Cardinality(active)
      <4>1. active \in SUBSET Workers
        BY DEF TypeOK
      <4> QED BY <4>1, UploaderAssumption, FS_Subset, FS_CardinalityType
    <3> QED BY <1>0, <3>1
  <2>12. Cardinality(active)' * Allowance' = Cardinality(active) * Allowance
    BY <2>1, <2>2
  <2>13. sent' + Room' <= Cardinality(active) * Allowance
    BY <2>8, <2>9, <2>10, <2>11
  <2> QED BY <2>12, <2>13 DEF BudgetInv, Room
<1>4. CASE Tick \/ Cancel \/ Edit \/ UNCHANGED vars
  <2>1. UNCHANGED <<at, local, sent, share, active>>
    BY <1>4 DEF Tick, Cancel, Edit, vars, worker, counters
  <2>2. UNCHANGED <<Running, Left, Allowance>>
    BY <2>1 DEF Running, Left, Allowance
  <2> QED BY <2>1, <2>2 DEF BudgetInv
<1> QED BY <1>1, <1>2, <1>3, <1>4 DEF Next

\* A cycle sends no more than its budget, jittered, and the excess of each worker's
\* last datagram (Uploader.RunCycle, jitterQuota).
THEOREM BudgetIsHeld == Spec => []BudgetHolds
<1>1. Init => QuotaInv /\ BudgetInv
  <2> SUFFICES ASSUME Init PROVE QuotaInv /\ BudgetInv
    OBVIOUS
  <2>1. /\ share = 0 /\ sent = 0 /\ active = {}
        /\ \A w \in Workers : at[w] = "none" /\ local[w] = 0 /\ quota[w] = 0
    BY DEF Init, All
  <2>2. QuotaInv
    BY <2>1 DEF QuotaInv
  <2>3. Running = {} /\ {} \in SUBSET Workers
    BY <2>1 DEF Running
  <2>4. Part(Running, Left) = 0 /\ Cardinality(active) = 0 /\ Allowance = 0
    BY <2>1, <2>3, PartType, FS_EmptySet DEF Allowance
  <2> QED BY <2>1, <2>2, <2>4 DEF BudgetInv
<1>2. TypeOK /\ QuotaInv /\ BudgetInv => BudgetHolds
  <2> SUFFICES ASSUME TypeOK, QuotaInv, BudgetInv PROVE BudgetHolds
    OBVIOUS
  <2>1. Allowance \in Nat /\ Running \in SUBSET Workers
    BY AllowanceType DEF Running
  <2>2. \A v \in Running : Left[v] \in Int /\ Left[v] >= 0
    <3>1. \A v \in Running : local[v] \in Nat /\ local[v] <= Allowance
      BY DEF TypeOK, QuotaInv, Running
    <3> QED BY <2>1, <3>1 DEF Left
  <2>3. Part(Running, Left) \in Int /\ Part(Running, Left) >= 0
    BY <2>1, <2>2, PartType
  <2>4. Cardinality(active) * Allowance \in Int
    <3>1. PICK n \in Int : n = Cardinality(active)
      <4>1. active \in SUBSET Workers
        BY DEF TypeOK
      <4> QED BY <4>1, UploaderAssumption, FS_Subset, FS_CardinalityType
    <3> QED BY <2>1, <3>1
  <2>5. sent <= Cardinality(active) * Allowance
    BY <2>3, <2>4 DEF BudgetInv, TypeOK
  <2> QED BY <2>5 DEF BudgetHolds, Allowance
<1> QED BY <1>1, <1>2, QuotaNext, BudgetNext, TypeCorrect, PTL DEF Spec

-----------------------------------------------------------------------------
(* The selection.                                                          *)

\* The pool is what its selection makes, and a worker holds only destinations of the pool,
\* or the dev target.
LEMMA PoolNext == TypeOK /\ PoolInv /\ [Next]_vars => PoolInv'
<1> SUFFICES ASSUME TypeOK, PoolInv, [Next]_vars PROVE PoolInv'
  OBVIOUS
<1> USE DEF PoolInv, SendsToPool
<1>1. CASE Begin
  <2>1. /\ pool' = EnsureSelection(cfg.asns) /\ devSeen' = cfg.dev /\ cfg' = cfg
        /\ \A v \in Workers : at'[v] \in {"none", "draw"}
    BY <1>1 DEF Begin
  <2>2. pool'.in = pool'.selected \cap Resolvable
    BY <2>1 DEF EnsureSelection, Rebuilt
  <2> QED BY <2>1, <2>2
<1>2. CASE Return
  BY <1>2 DEF Return, TypeOK, worker
<1>3. ASSUME NEW w \in Workers, runWorker(w) PROVE PoolInv'
  <2> USE DEF Goto, Ends, TypeOK
  <2> DEFINE Out == {"loop", "wait", "write", "record"}
             May == pool.in \cup (IF devSeen THEN {Dev} ELSE {})
  <2>1. /\ \A v \in Workers \ {w} : at'[v] = at[v] /\ asn'[v] = asn[v]
        /\ UNCHANGED <<cfg, pool, ctx, devSeen>>
    BY <1>3, OthersStay
  <2>2. at'[w] \in Out => asn'[w] \in May
    <3>1. CASE Draw(w)
      <4>1. ctx # "off"
        BY <3>1 DEF Draw
      <4>2. pickTarget \subseteq May
        BY <4>1 DEF pickTarget
      <4> HIDE DEF May
      <4> QED BY <3>1, <4>2 DEF Draw
    <3>2. CASE Loop(w)
      BY <3>2 DEF Loop
    <3>3. CASE Grant(w) \/ Write(w) \/ RecordSend(w)
      BY <3>3 DEF Grant, Write, RecordSend
    <3>4. CASE Abandon(w) \/ SocketFails(w) \/ Panic(w)
      BY <3>4 DEF Abandon, SocketFails, Panic
    <3> QED BY <1>3, <3>1, <3>2, <3>3, <3>4 DEF runWorker
  <2>3. \A v \in Workers : at'[v] \in Out => asn'[v] \in May
    BY <2>1, <2>2
  <2> QED BY <2>1, <2>3
<1>4. CASE Tick \/ Cancel \/ UNCHANGED vars
  BY <1>4 DEF Tick, Cancel, vars, worker
<1>5. CASE Edit
  <2>1. UNCHANGED <<pool, ctx, at, asn>>
    BY <1>5 DEF Edit, worker
  <2>2. devSeen' = (devSeen \/ cfg'.dev)
    BY <1>5, Zenon DEF Edit
  <2> QED BY <2>1, <2>2
<1> QED BY <1>1, <1>2, <1>3, <1>4, <1>5 DEF Next

\* No worker sends outside the selection its cycle began with, to the dev target only
\* if dev mode was on in it, and a cycle begins with the selection then configured
\* (Targets.EnsureSelection, Uploader.pickTarget).
THEOREM SelectionIsKept == Spec => OnlySelected
<1>1. Init => PoolInv
  BY DEF Init, All, PoolInv, SendsToPool
<1>2. PoolInv => SendsToPool
  BY DEF PoolInv
<1>3. TypeOK /\ PoolInv /\ [Next]_vars
      => [ctx = "off" /\ ctx' = "live" => pool'.in = cfg.asns \cap Resolvable]_vars
  <2> SUFFICES ASSUME PoolInv, Next, ctx = "off", ctx' = "live", TypeOK
               PROVE  pool'.in = cfg.asns \cap Resolvable
    OBVIOUS
  <2>1. Begin
    <3>1. ~Return /\ ~Tick /\ ~Cancel /\ ~Edit
      BY DEF Return, Tick, Cancel, Edit
    <3>2. \A w \in Workers : ~runWorker(w)
      BY OthersStay
    <3> QED BY <3>1, <3>2 DEF Next
  <2> QED BY <2>1 DEF Begin, EnsureSelection, Rebuilt, PoolInv
<1> QED BY <1>1, <1>2, <1>3, PoolNext, TypeCorrect, PTL DEF Spec, OnlySelected
=============================================================================
