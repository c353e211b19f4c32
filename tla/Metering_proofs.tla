-------------------------- MODULE Metering_proofs --------------------------
(***************************************************************************)
(* Theorems about Metering and Billing, for any number of windows, bytes,  *)
(* failed flushes, kills and restarts.                                     *)
(***************************************************************************)
EXTENDS Billing, FiniteSetTheorems, SequenceTheorems, TLAPS

Bucket == [start : Nat, up : Nat, fake : Nat]

Lines == [id : Nat, whole : BOOLEAN]

\* A line is one bucket's or does not parse, and the one that lacks its newline does
\* not; only a running process has a cycle or a current bucket.
ShapeInv ==
    /\ buckets \in Seq(Bucket)
    /\ file \in Seq(Lines)
    /\ \A i \in DOMAIN file : file[i] = Garbled \/ (file[i].whole /\ file[i].id \in DOMAIN buckets)
    /\ open => file # <<>> /\ file[Len(file)] = Garbled
    /\ cycle # Unset => up = "on"
    /\ up # "on" => cur = 0
    /\ {carried, raised, fakes, measured, faults, starts} \subseteq Nat
    /\ lost \in [up : Nat, fake : Nat]

MeterInv == TypeOK /\ ShapeInv

\* A sequence and its domain.
LEMMA SeqShape ==
    ASSUME NEW S, NEW s \in Seq(S)
    PROVE  /\ Len(s) \in Nat /\ DOMAIN s = 1..Len(s)
           /\ \A i \in DOMAIN s : s[i] \in S
           /\ \A i \in DOMAIN s : i \in Nat /\ i # 0
  BY ElementOfSeq, LenProperties

\* An element more.
LEMMA Appended ==
    ASSUME NEW S, NEW s \in Seq(S), NEW e \in S, NEW t, t = Append(s, e)
    PROVE  /\ t \in Seq(S) /\ Len(t) = Len(s) + 1
           /\ DOMAIN t = DOMAIN s \cup {Len(s) + 1} /\ Len(s) + 1 \notin DOMAIN s
           /\ t[Len(s) + 1] = e /\ \A j \in DOMAIN s : t[j] = s[j]
  BY AppendProperties, LenProperties

\* An element replaced.
LEMMA Replaced ==
    ASSUME NEW S, NEW s \in Seq(S), NEW i \in DOMAIN s, NEW e \in S, NEW t,
           t = [s EXCEPT ![i] = e]
    PROVE  /\ t \in Seq(S) /\ Len(t) = Len(s) /\ DOMAIN t = DOMAIN s
           /\ t[i] = e /\ \A j \in DOMAIN s \ {i} : t[j] = s[j]
  BY ExceptSeq, LenProperties

\* A bucket gains booked bytes; the other buckets and its other fields stay.
LEMMA Booked ==
    ASSUME NEW bs \in Seq(Bucket), NEW i \in DOMAIN bs, NEW n \in Nat, NEW t,
           t = [bs EXCEPT ![i].up = @ + n]
    PROVE  /\ t \in Seq(Bucket) /\ DOMAIN t = DOMAIN bs
           /\ \A j \in DOMAIN bs \ {i} : t[j] = bs[j]
           /\ t[i].start = bs[i].start /\ t[i].up = bs[i].up + n /\ t[i].fake = bs[i].fake
<1>1. PICK b \in Bucket : b = bs[i]
  BY SeqShape
<1>2. b.start \in Nat /\ b.up \in Nat /\ b.fake \in Nat
  BY DEF Bucket
<1>3. PICK m \in Nat : m = b.up + n
  BY <1>2
<1>4. PICK c \in Bucket : c = [b EXCEPT !.up = m]
  BY <1>2 DEF Bucket
<1>5. c.start = b.start /\ c.up = m /\ c.fake = b.fake
  BY <1>4 DEF Bucket
<1>6. t = [bs EXCEPT ![i] = c]
  BY <1>1, <1>3, <1>4
<1>7. t \in Seq(Bucket) /\ DOMAIN t = DOMAIN bs /\ t[i] = c /\ \A j \in DOMAIN bs \ {i} : t[j] = bs[j]
  BY <1>6, Replaced
<1> QED BY <1>1, <1>3, <1>5, <1>7

\* A bucket gains sent bytes.
LEMMA Sent ==
    ASSUME NEW bs \in Seq(Bucket), NEW i \in DOMAIN bs, NEW n \in Nat, NEW t,
           t = [bs EXCEPT ![i].fake = @ + n]
    PROVE  /\ t \in Seq(Bucket) /\ DOMAIN t = DOMAIN bs
           /\ \A j \in DOMAIN bs \ {i} : t[j] = bs[j]
           /\ t[i].start = bs[i].start /\ t[i].fake = bs[i].fake + n /\ t[i].up = bs[i].up
<1>1. PICK b \in Bucket : b = bs[i]
  BY SeqShape
<1>2. b.start \in Nat /\ b.up \in Nat /\ b.fake \in Nat
  BY DEF Bucket
<1>3. PICK m \in Nat : m = b.fake + n
  BY <1>2
<1>4. PICK c \in Bucket : c = [b EXCEPT !.fake = m]
  BY <1>2 DEF Bucket
<1>5. c.start = b.start /\ c.fake = m /\ c.up = b.up
  BY <1>4 DEF Bucket
<1>6. t = [bs EXCEPT ![i] = c]
  BY <1>1, <1>3, <1>4
<1>7. t \in Seq(Bucket) /\ DOMAIN t = DOMAIN bs /\ t[i] = c /\ \A j \in DOMAIN bs \ {i} : t[j] = bs[j]
  BY <1>6, Replaced
<1> QED BY <1>1, <1>3, <1>5, <1>7

\* The records the actions write.
LEMMA Written ==
    /\ \A w \in Nat : /\ NewBucket(w) \in Bucket /\ NewBucket(w).start = w
                      /\ NewBucket(w).up = 0 /\ NewBucket(w).fake = 0
    /\ \A i \in Nat : Line(i) \in Lines /\ Line(i).id = i /\ Line(i).whole
    /\ Garbled \in Lines /\ Garbled.id = 0 /\ ~Garbled.whole
  BY DEF NewBucket, Bucket, Line, Lines, Garbled

\* What is added to the bytes lost.
LEMMA PlusType ==
    \A a \in [up : Nat, fake : Nat], b \in Bucket : Plus(a, b) \in [up : Nat, fake : Nat]
  BY DEF Plus, Bucket

\* A bucket more.
Longer(made, b) ==
    /\ made \in Seq(Bucket) /\ Len(made) = Len(buckets) + 1
    /\ DOMAIN made = DOMAIN buckets \cup {Len(made)} /\ Len(made) \notin DOMAIN buckets
    /\ made[Len(made)] = b /\ \A j \in DOMAIN buckets : made[j] = buckets[j]

\* The sequence when b is made.
LEMMA NewLast == MeterInv => \A b \in Bucket : Longer(Append(buckets, b), b)
<1> SUFFICES ASSUME MeterInv, NEW b \in Bucket, NEW made, made = Append(buckets, b)
             PROVE  Longer(made, b)
  OBVIOUS
<1>1. PICK bs \in Seq(Bucket) : bs = buckets
  BY DEF MeterInv, ShapeInv
<1>2. made = Append(bs, b)
  BY <1>1
<1>3. /\ made \in Seq(Bucket) /\ Len(made) = Len(bs) + 1
      /\ DOMAIN made = DOMAIN bs \cup {Len(bs) + 1} /\ Len(bs) + 1 \notin DOMAIN bs
      /\ made[Len(bs) + 1] = b /\ \A j \in DOMAIN bs : made[j] = bs[j]
  BY ONLY <1>2, Appended
<1> QED BY ONLY <1>1, <1>3 DEF Longer

-----------------------------------------------------------------------------
\* A send goes to the current bucket, made for it if there is none.
LEMMA SendWrites ==
    ASSUME MeterInv, RecordSend
    PROVE  /\ buckets' \in Seq(Bucket) /\ cur' \in DOMAIN buckets'
           /\ DOMAIN buckets' = DOMAIN buckets \cup {cur'}
           /\ \A j \in DOMAIN buckets \ {cur'} : buckets'[j] = buckets[j]
           /\ \/ /\ cur # 0 /\ cur' = cur /\ cur \in DOMAIN buckets
                 /\ buckets'[cur].start = buckets[cur].start /\ buckets'[cur].up = buckets[cur].up
                 /\ buckets'[cur].fake = buckets[cur].fake + 1
              \/ /\ cur = 0 /\ cur' \notin DOMAIN buckets
                 /\ buckets'[cur'].start = now /\ buckets'[cur'].up = 0 /\ buckets'[cur'].fake = 1
<1>1. CASE cur = 0
  <2>1. PICK b \in Bucket : b = NewBucket(now) /\ b.start = now /\ b.up = 0 /\ b.fake = 0
    <3>1. now \in Nat
      BY MeteringAssumption DEF MeterInv, TypeOK
    <3> QED BY <3>1, Written
  <2>2. PICK made : made = Append(buckets, b) /\ Longer(made, b)
    BY NewLast
  <2>3. /\ made \in Seq(Bucket) /\ Len(made) = Len(buckets) + 1
        /\ DOMAIN made = DOMAIN buckets \cup {Len(made)} /\ Len(made) \notin DOMAIN buckets
        /\ made[Len(made)] = b /\ \A j \in DOMAIN buckets : made[j] = buckets[j]
    BY ONLY <2>2 DEF Longer
  <2>4. cur' = Len(made) /\ buckets' = [made EXCEPT ![Len(made)].fake = @ + 1]
    BY <1>1, <2>1, <2>2 DEF RecordSend
  <2>5. PICK i \in DOMAIN made : i = Len(made)
    BY <2>3
  <2>6. /\ buckets' \in Seq(Bucket) /\ DOMAIN buckets' = DOMAIN made
        /\ \A j \in DOMAIN made \ {i} : buckets'[j] = made[j]
        /\ buckets'[i].start = b.start /\ buckets'[i].up = b.up /\ buckets'[i].fake = b.fake + 1
    BY <2>3, <2>4, <2>5, Sent
  <2> QED BY <1>1, <2>1, <2>3, <2>4, <2>5, <2>6
<1>2. CASE cur # 0
  <2>1. cur \in DOMAIN buckets /\ buckets \in Seq(Bucket)
    BY <1>2 DEF MeterInv, TypeOK, ShapeInv
  <2>2. cur' = cur /\ buckets' = [buckets EXCEPT ![cur].fake = @ + 1]
    BY <1>2 DEF RecordSend
  <2>3. /\ buckets' \in Seq(Bucket) /\ DOMAIN buckets' = DOMAIN buckets
        /\ \A j \in DOMAIN buckets \ {cur} : buckets'[j] = buckets[j]
        /\ buckets'[cur].start = buckets[cur].start /\ buckets'[cur].up = buckets[cur].up
        /\ buckets'[cur].fake = buckets[cur].fake + 1
    BY <2>1, <2>2, Sent
  <2> QED BY <1>2, <2>1, <2>2, <2>3
<1> QED BY <1>1, <1>2

\* Where a sample is booked: in the bucket of the cycle's own window.
LEMMA SampleWrites ==
    ASSUME MeterInv, SampleHere \/ SampleRolls
    PROVE  /\ buckets' \in Seq(Bucket) /\ cur' \in DOMAIN buckets'
           /\ DOMAIN buckets' = DOMAIN buckets \cup {cur'}
           /\ \A j \in DOMAIN buckets \ {cur'} : buckets'[j] = buckets[j]
           /\ buckets'[cur'].start = cycle /\ cycle \in Nat
           /\ Delta \in Nat /\ measured' = measured + Delta /\ last' = tracked
           /\ \/ /\ SampleHere /\ cur # 0 /\ cur' = cur /\ cur \in DOMAIN buckets
                 /\ buckets[cur].start = cycle /\ buckets'[cur].fake = buckets[cur].fake
                 /\ buckets'[cur].up = buckets[cur].up + Delta
              \/ /\ cur = 0 \/ SampleRolls
                 /\ cur' \notin DOMAIN buckets
                 /\ buckets'[cur'].up = Delta /\ buckets'[cur'].fake = 0
<1>0. cycle \in Nat
  BY MeteringAssumption DEF SampleHere, SampleRolls, MeterInv, TypeOK
<1>1. tracked \in Nat /\ last \in Int
  BY DEF MeterInv, TypeOK, ShapeInv, Unset
<1>2. Delta \in Nat
  BY <1>1 DEF Delta
<1>3. CASE SampleRolls \/ cur = 0
  <2>1. PICK b \in Bucket : b = NewBucket(cycle) /\ b.start = cycle /\ b.up = 0 /\ b.fake = 0
    BY <1>0, Written
  <2>2. PICK made : made = Append(buckets, b) /\ Longer(made, b)
    BY NewLast
  <2>n. PICK n \in Nat : n = Delta
    BY <1>2
  <2>3. /\ made \in Seq(Bucket) /\ Len(made) = Len(buckets) + 1
        /\ DOMAIN made = DOMAIN buckets \cup {Len(made)} /\ Len(made) \notin DOMAIN buckets
        /\ made[Len(made)] = b /\ \A j \in DOMAIN buckets : made[j] = buckets[j]
    BY ONLY <2>2 DEF Longer
  <2>4. /\ cur' = Len(made) /\ buckets' = [made EXCEPT ![Len(made)].up = @ + n]
        /\ measured' = measured + Delta /\ last' = tracked
    BY <1>3, <2>1, <2>2, <2>3, <2>n DEF SampleRolls, SampleHere, Sampled
  <2>5. PICK i \in DOMAIN made : i = Len(made)
    BY <2>3
  <2>6. /\ buckets' \in Seq(Bucket) /\ DOMAIN buckets' = DOMAIN made
        /\ \A j \in DOMAIN made \ {i} : buckets'[j] = made[j]
        /\ buckets'[i].start = b.start /\ buckets'[i].up = b.up + n /\ buckets'[i].fake = b.fake
    BY <2>3, <2>4, <2>5, Booked, SMTT(30)
  <2>7. cur' = i /\ 0 + n = n /\ buckets'[i].up = Delta /\ buckets'[i].fake = 0
    BY <2>1, <2>4, <2>5, <2>6, <2>n
  <2>8. /\ cur' \in DOMAIN buckets' /\ DOMAIN buckets' = DOMAIN buckets \cup {cur'}
        /\ \A j \in DOMAIN buckets \ {cur'} : buckets'[j] = buckets[j]
        /\ cur' \notin DOMAIN buckets
    BY <2>3, <2>4, <2>5, <2>6
  <2> QED BY <1>0, <1>2, <1>3, <2>1, <2>4, <2>6, <2>7, <2>8
<1>4. CASE SampleHere /\ cur # 0
  <2>1. cur \in DOMAIN buckets /\ buckets \in Seq(Bucket)
    BY <1>4 DEF MeterInv, TypeOK, ShapeInv
  <2>2. PICK n \in Nat : n = Delta
    BY <1>2
  <2>3. /\ cur' = cur /\ buckets' = [buckets EXCEPT ![cur].up = @ + n] /\ buckets[cur].start = cycle
        /\ measured' = measured + Delta /\ last' = tracked
    BY <1>4, <2>2 DEF SampleHere, Sampled, InWindow
  <2>4. /\ buckets' \in Seq(Bucket) /\ DOMAIN buckets' = DOMAIN buckets
        /\ \A j \in DOMAIN buckets \ {cur} : buckets'[j] = buckets[j]
        /\ buckets'[cur].start = buckets[cur].start /\ buckets'[cur].up = buckets[cur].up + n
        /\ buckets'[cur].fake = buckets[cur].fake
    BY <2>1, <2>3, Booked
  <2> QED BY <1>0, <1>2, <1>4, <2>1, <2>2, <2>3, <2>4
<1> QED BY <1>3, <1>4

-----------------------------------------------------------------------------
\* What the file may be after a step, for buckets numbered in D.
FileInv(f, o, D) ==
    /\ f \in Seq(Lines)
    /\ \A i \in DOMAIN f : f[i] = Garbled \/ (f[i].whole /\ f[i].id \in D)
    /\ \A i, j \in DOMAIN f : f[i].whole /\ f[i].id = f[j].id => i = j
    /\ o => f # <<>> /\ f[Len(f)] = Garbled

Ids(f) == {f[i].id : i \in DOMAIN f}

\* A whole line more, or one torn line less.
LEMMA FlushWrites ==
    ASSUME NEW D \in SUBSET Nat, FileInv(file, open, D), NEW b \in D, b # 0, b \notin OnFile,
           0 \notin D, Flushed(b)
    PROVE  /\ FileInv(file', open', D)
           /\ OnFile' = IF open THEN OnFile ELSE OnFile \cup {b}
           /\ Ids(file) \ {0} \subseteq Ids(file')
           /\ b \in OnFile' \/ open
<1>0. file \in Seq(Lines) /\ DOMAIN file = 1..Len(file) /\ Len(file) \in Nat
  BY SeqShape DEF FileInv
<1>2. PICK g \in Lines : g = Garbled /\ g.id = 0 /\ ~g.whole
  BY Written
<1>3. CASE open
  <2>1. Len(file) \in DOMAIN file
    BY <1>0, <1>3, SeqShape, EmptySeq DEF FileInv
  <2>2. file' = file /\ open' = FALSE
    <3>1. PICK k \in DOMAIN file : k = Len(file)
      BY <2>1
    <3>2. [file EXCEPT ![k] = file[k]] = file
      BY <1>0
    <3> QED BY <1>3, <3>1, <3>2 DEF Flushed, FileInv
  <2> QED BY <1>3, <2>2 DEF FileInv, OnFile
<1>4. CASE ~open
  <2>1. PICK l \in Lines : l = Line(b) /\ l.id = b /\ l.whole
    BY Written
  <2>2. file' = Append(file, l) /\ open' = FALSE
    BY <1>4, <2>1 DEF Flushed
  <2>3. /\ file' \in Seq(Lines) /\ DOMAIN file' = DOMAIN file \cup {Len(file) + 1}
        /\ Len(file) + 1 \notin DOMAIN file
        /\ file'[Len(file) + 1] = l /\ \A j \in DOMAIN file : file'[j] = file[j]
    BY <1>0, <2>2, Appended
  <2>4. \A i \in DOMAIN file : file[i].id # b
    BY <1>2 DEF FileInv, OnFile
  <2>5. FileInv(file', open', D)
    BY <2>1, <2>2, <2>3, <2>4 DEF FileInv
  <2>6. OnFile' = OnFile \cup {b}
    BY <2>1, <2>3 DEF OnFile
  <2>7. Ids(file) \subseteq Ids(file')
    BY <2>3 DEF Ids
  <2> QED BY <1>4, <2>5, <2>6, <2>7
<1> QED BY <1>3, <1>4

\* A line torn by a full disk or a kill.
LEMMA TearWrites ==
    ASSUME NEW D, FileInv(file, open, D), 0 \notin D,
           \/ UNCHANGED disk
           \/ file' = (IF open THEN file ELSE Append(file, Garbled)) /\ open' = TRUE
    PROVE  FileInv(file', open', D) /\ OnFile' = OnFile /\ Ids(file) \ {0} \subseteq Ids(file')
<1>1. CASE UNCHANGED disk \/ (open /\ file' = file /\ open' = TRUE)
  BY <1>1 DEF disk, FileInv, OnFile, Ids
<1>2. CASE ~open /\ file' = Append(file, Garbled) /\ open' = TRUE
  <2>1. PICK g \in Lines : g = Garbled /\ g.id = 0 /\ ~g.whole
    BY Written
  <2>2. /\ file' \in Seq(Lines) /\ DOMAIN file' = DOMAIN file \cup {Len(file) + 1}
        /\ Len(file) + 1 \notin DOMAIN file /\ Len(file') = Len(file) + 1
        /\ file'[Len(file) + 1] = g /\ \A j \in DOMAIN file : file'[j] = file[j]
    BY <1>2, <2>1, Appended DEF FileInv
  <2>3. file' # <<>>
    BY <2>2, EmptySeq
  <2>4. \A i, j \in DOMAIN file' : file'[i].whole /\ file'[i].id = file'[j].id => i = j
    BY <2>1, <2>2 DEF FileInv
  <2>5. FileInv(file', open', D)
    BY <1>2, <2>1, <2>2, <2>3, <2>4 DEF FileInv
  <2>6. OnFile' = OnFile /\ Ids(file) \subseteq Ids(file')
    BY <2>1, <2>2 DEF OnFile, Ids
  <2> QED BY <2>5, <2>6
<1> QED BY <1>1, <1>2

-----------------------------------------------------------------------------
\* The file of a store that has its types.
LEMMA FileShape ==
    ASSUME MeterInv
    PROVE  /\ FileInv(file, open, DOMAIN buckets)
           /\ DOMAIN buckets \subseteq Nat /\ 0 \notin DOMAIN buckets
           /\ OnFile \subseteq DOMAIN buckets
           /\ cur # 0 => cur \in DOMAIN buckets /\ cur \notin OnFile
<1>1. DOMAIN buckets \subseteq Nat /\ 0 \notin DOMAIN buckets
  BY SeqShape DEF MeterInv, ShapeInv
<1>2. FileInv(file, open, DOMAIN buckets)
  BY DEF MeterInv, ShapeInv, TypeOK, FileInv
<1>3. OnFile \subseteq DOMAIN buckets
  BY <1>2, Written DEF FileInv, OnFile
<1> QED BY <1>1, <1>2, <1>3 DEF MeterInv, TypeOK

\* The integers of the state.
LEMMA MeterNumbers ==
    ASSUME MeterInv
    PROVE  /\ {MaxTime, now, tracked, carried, raised, fakes, measured, faults, starts} \subseteq Nat
           /\ {last, cycle} \subseteq Int
           /\ tracked <= carried + raised /\ last <= carried + raised /\ now <= MaxTime /\ cycle <= now
<1>1. MaxTime \in Nat
  BY MeteringAssumption
<1> QED BY <1>1 DEF MeterInv, TypeOK, ShapeInv, Unset

\* An empty store, no file and no line: the invariant holds when the daemon starts.
LEMMA MeterInit == Init => MeterInv
<1> SUFFICES ASSUME Init PROVE MeterInv
  OBVIOUS
<1>1. DOMAIN buckets = {} /\ DOMAIN file = {} /\ buckets \in Seq(Bucket) /\ file \in Seq(Lines)
  BY EmptySeq DEF Init
<1>2. ShapeInv
  BY <1>1 DEF Init, ShapeInv, Nothing
<1>3. TypeOK
  BY <1>1, MeteringAssumption DEF Init, TypeOK, NoReader
<1> QED BY <1>2, <1>3 DEF MeterInv

\* What is left to show when the buckets and the file are as the lemmas above say.
LEMMA MeterParts ==
    ASSUME buckets' \in Seq(Bucket), \A i \in DOMAIN buckets' : buckets'[i].start \in 0..now',
           FileInv(file', open', DOMAIN buckets'),
           cur' \in {0} \cup DOMAIN buckets', cur' = 0 \/ cur' \notin OnFile',
           up' \in {"off", "on", "closed"}, now' \in 0..MaxTime,
           tracked' \in 0..(carried' + raised'), last' \in {Unset} \cup 0..(carried' + raised'),
           cycle' \in {Unset} \cup 0..now',
           cycle' # Unset => up' = "on", up' # "on" => cur' = 0,
           {carried', raised', fakes', measured', faults', starts'} \subseteq Nat,
           lost' \in [up : Nat, fake : Nat],
           reader'.at \in {"none", "read", "joined", "failed"}
    PROVE  MeterInv'
<1>1. TypeOK'
  BY DEF TypeOK, FileInv
<1>2. ShapeInv'
  BY DEF ShapeInv, FileInv
<1> QED BY <1>1, <1>2 DEF MeterInv

\* The clock, the traffic, the engine's cycle and the reader.
LEMMA MeterOutside ==
    ASSUME MeterInv, Start \/ Tick \/ Carry \/ SetTotals \/ CycleBegins \/ CycleEndsUnsampled \/ History
    PROVE  MeterInv'
<1> USE DEF store, disk, history, bounds
<1>1. UNCHANGED <<buckets, cur, last, file, open, fakes, measured, lost>>
  BY DEF Start, Tick, Carry, SetTotals, CycleBegins, CycleEndsUnsampled, History, HistoryLocks, HistoryReads,
         HistoryAnswers
<1>2. OnFile' = OnFile
  BY <1>1 DEF OnFile
<1>3. PICK n \in Nat, c \in Nat, r \in Nat, t \in Nat, f \in Nat, s \in Nat, y \in Int, T \in Nat :
         /\ n = now /\ c = carried /\ r = raised /\ t = tracked /\ f = faults /\ s = starts /\ y = cycle
         /\ T = MaxTime
         /\ t <= c + r /\ n <= T /\ y <= n
  BY MeterNumbers
<1>4. /\ now' \in 0..MaxTime /\ now <= now' /\ tracked' \in 0..(carried' + raised')
      /\ carried' \in Nat /\ raised' \in Nat /\ carried + raised <= carried' + raised'
      /\ faults' \in Nat /\ starts' \in Nat
      /\ cycle' \in {cycle, now, Unset}
      /\ reader'.at \in {"none", "read", "joined", "failed"}
  <2>1. now' = n \/ (n < T /\ now' = n + 1)
    BY <1>3 DEF Start, Tick, Carry, SetTotals, CycleBegins, CycleEndsUnsampled, History, HistoryLocks, HistoryReads,
                HistoryAnswers
  <2>2. \/ carried' = c /\ raised' = r /\ tracked' = t
        \/ carried' = c /\ tracked' \in Nat /\ raised' = r + IF tracked' > t THEN tracked' - t ELSE 0
        \/ carried' = c + 1 /\ raised' = r /\ tracked' = t + 1
    BY <1>3, MeteringAssumption DEF Start, Tick, Carry, SetTotals, CycleBegins, CycleEndsUnsampled, History, HistoryLocks, HistoryReads,
                HistoryAnswers
  <2>3. faults' \in {f, f + 1} /\ starts' \in {s, s + 1}
    BY <1>3 DEF Start, Tick, Carry, SetTotals, CycleBegins, CycleEndsUnsampled, History, HistoryLocks, HistoryReads,
                HistoryAnswers, Fault
  <2>4. cycle' \in {cycle, now, Unset} /\ reader'.at \in {"none", "read", "joined", "failed"}
    BY DEF Start, Tick, Carry, SetTotals, CycleBegins, CycleEndsUnsampled, History, HistoryLocks, HistoryReads,
           HistoryAnswers, NoReader, MeterInv, TypeOK
  <2>5. tracked' \in 0..(carried' + raised') /\ carried' \in Nat /\ raised' \in Nat /\ c + r <= carried' + raised'
    <3>1. CASE \/ carried' = c /\ raised' = r /\ tracked' = t
               \/ carried' = c + 1 /\ raised' = r /\ tracked' = t + 1
      BY <1>3, <3>1
    <3>2. CASE carried' = c /\ tracked' \in Nat /\ raised' = r + IF tracked' > t THEN tracked' - t ELSE 0
      <4>1. PICK u \in Nat : u = tracked'
        BY <3>2
      <4>2. CASE u > t
        <5>1. PICK j \in Nat : j = u - t
          BY <4>2
        <5>2. raised' = r + j
          BY <3>2, <4>1, <4>2, <5>1
        <5>3. PICK q \in Nat : q = r + j /\ u <= c + q /\ c + r <= c + q
          BY <1>3, <5>1
        <5>4. carried' = c /\ raised' = q /\ tracked' = u
          BY <3>2, <4>1, <5>2, <5>3
        <5>5. u \in 0..(c + q)
          BY <5>3
        <5> QED BY <5>3, <5>4, <5>5
      <4>3. CASE ~(u > t)
        BY <1>3, <3>2, <4>1, <4>3
      <4> QED BY <4>2, <4>3
    <3> QED BY <2>2, <3>1, <3>2
  <2>6. now' \in 0..MaxTime /\ now <= now' /\ faults' \in Nat /\ starts' \in Nat
    BY <1>3, <2>1, <2>3
  <2>7. carried + raised <= carried' + raised'
    BY <1>3, <2>5
  <2> QED BY <2>4, <2>5, <2>6, <2>7
<1>5. /\ up' \in {"off", "on", "closed"}
      /\ cycle' # Unset => up' = "on"
      /\ up' # "on" => cur' = 0
  BY <1>1 DEF Start, Tick, Carry, SetTotals, CycleBegins, CycleEndsUnsampled, History, HistoryLocks, HistoryReads,
         HistoryAnswers, MeterInv, TypeOK, ShapeInv
<1>6. last' \in {Unset} \cup 0..(carried' + raised')
  BY <1>1, <1>4, MeterNumbers DEF MeterInv, TypeOK
<1>7. cycle' \in {Unset} \cup 0..now'
  BY <1>4, MeterNumbers DEF MeterInv, TypeOK
<1>8. \A i \in DOMAIN buckets' : buckets'[i].start \in 0..now'
  <2>1. \A i \in DOMAIN buckets : buckets[i].start \in 0..now
    BY DEF MeterInv, TypeOK
  <2> QED BY <1>1, <1>4, <2>1, MeterNumbers
<1>9. FileInv(file', open', DOMAIN buckets')
  BY <1>1, FileShape
<1>10. /\ buckets' \in Seq(Bucket) /\ cur' \in {0} \cup DOMAIN buckets'
       /\ cur' = 0 \/ cur' \notin OnFile'
       /\ fakes' \in Nat /\ measured' \in Nat /\ lost' \in [up : Nat, fake : Nat]
  BY <1>1, <1>2 DEF MeterInv, TypeOK, ShapeInv
<1> QED BY <1>4, <1>5, <1>6, <1>7, <1>8, <1>9, <1>10, MeterParts

\* What a step leaves of the starts when it touches one bucket only.
LEMMA StartsKept ==
    ASSUME MeterInv, now' = now, DOMAIN buckets' = DOMAIN buckets \cup {cur'},
           \A j \in DOMAIN buckets \ {cur'} : buckets'[j] = buckets[j],
           buckets'[cur'].start \in 0..now
    PROVE  \A i \in DOMAIN buckets' : buckets'[i].start \in 0..now'
  BY DEF MeterInv, TypeOK

\* The workers and the samples.
LEMMA MeterStore ==
    ASSUME MeterInv, RecordSend \/ Sample
    PROVE  MeterInv'
<1> USE DEF store, disk, history, bounds
<1>1. /\ {MaxTime, now, tracked, carried, raised, fakes, measured, faults, starts} \subseteq Nat
      /\ {last, cycle} \subseteq Int
      /\ tracked <= carried + raised /\ last <= carried + raised /\ now <= MaxTime /\ cycle <= now
  BY MeterNumbers
<1>2. UNCHANGED <<up, now, tracked, carried, raised, starts, reader>> /\ cycle # Unset /\ cycle' \in {Unset, cycle}
  BY DEF RecordSend, Sample, SampleHere, SampleRolls, SampleFails, NotFlushed, Fault
<1>3. up = "on" /\ cycle \in 0..now
  BY <1>2 DEF MeterInv, ShapeInv, TypeOK
<1>4. /\ up' \in {"off", "on", "closed"} /\ now' \in 0..MaxTime /\ tracked' \in 0..(carried' + raised')
      /\ cycle' \in {Unset} \cup 0..now' /\ up' = "on" /\ {carried', raised', starts'} \subseteq Nat
      /\ reader'.at \in {"none", "read", "joined", "failed"}
  BY <1>1, <1>2, <1>3 DEF MeterInv, TypeOK
<1>5. /\ FileInv(file, open, DOMAIN buckets) /\ DOMAIN buckets \subseteq Nat /\ 0 \notin DOMAIN buckets
      /\ OnFile \subseteq DOMAIN buckets /\ (cur # 0 => cur \in DOMAIN buckets /\ cur \notin OnFile)
      /\ buckets \in Seq(Bucket) /\ lost \in [up : Nat, fake : Nat]
  BY FileShape DEF MeterInv, ShapeInv
<1>6. CASE RecordSend
  <2>1. /\ buckets' \in Seq(Bucket) /\ cur' \in DOMAIN buckets'
        /\ DOMAIN buckets' = DOMAIN buckets \cup {cur'}
        /\ \A j \in DOMAIN buckets \ {cur'} : buckets'[j] = buckets[j]
        /\ (cur' = cur /\ cur # 0) \/ cur' \notin DOMAIN buckets
        /\ buckets'[cur'].start \in {now, buckets[cur].start}
        /\ cur' \notin DOMAIN buckets => buckets'[cur'].start = now
    BY <1>6, SendWrites
  <2>2. buckets'[cur'].start \in 0..now
    <3>1. now \in Nat /\ \A i \in DOMAIN buckets : buckets[i].start \in 0..now
      BY <1>1 DEF MeterInv, TypeOK
    <3> QED BY <1>5, <2>1, <3>1
  <2>3. \A i \in DOMAIN buckets' : buckets'[i].start \in 0..now'
    BY <1>2, <2>1, <2>2, StartsKept
  <2>4. UNCHANGED <<file, open, last, measured, lost, faults>> /\ fakes' = fakes + 1
    BY <1>6 DEF RecordSend
  <2>5. OnFile' = OnFile
    BY <2>4 DEF OnFile
  <2>6. cur' \notin OnFile'
    BY <1>5, <2>1, <2>5
  <2>7. FileInv(file', open', DOMAIN buckets')
    BY <1>5, <2>1, <2>4 DEF FileInv
  <2>8. last' \in {Unset} \cup 0..(carried' + raised') /\ fakes' \in Nat /\ measured' \in Nat /\ faults' \in Nat
    BY <1>1, <1>2, <2>4 DEF MeterInv, TypeOK
  <2> QED BY <1>4, <1>5, <2>1, <2>3, <2>4, <2>6, <2>7, <2>8, MeterParts
<1>7. CASE SampleHere \/ SampleRolls
  <2>1. /\ buckets' \in Seq(Bucket) /\ cur' \in DOMAIN buckets'
        /\ DOMAIN buckets' = DOMAIN buckets \cup {cur'}
        /\ \A j \in DOMAIN buckets \ {cur'} : buckets'[j] = buckets[j]
        /\ buckets'[cur'].start = cycle
        /\ Delta \in Nat /\ measured' = measured + Delta /\ last' = tracked
        /\ (SampleHere /\ cur # 0 /\ cur' = cur) \/ cur' \notin DOMAIN buckets
    BY <1>7, SampleWrites
  <2>2. \A i \in DOMAIN buckets' : buckets'[i].start \in 0..now'
    BY <1>2, <1>3, <2>1, StartsKept
  <2>3. /\ FileInv(file', open', DOMAIN buckets) /\ cur' \notin OnFile'
        /\ lost' \in [up : Nat, fake : Nat]
    <3>1. CASE SampleHere
      <4>1. UNCHANGED <<file, open, lost>>
        BY <3>1 DEF SampleHere
      <4>2. OnFile' = OnFile
        BY <4>1 DEF OnFile
      <4> QED BY <1>5, <2>1, <4>1, <4>2
    <3>2. CASE ~SampleHere
      <4>1. SampleRolls /\ Flushed(cur) /\ cur \in DOMAIN buckets /\ cur # 0
        BY <1>5, <1>7, <3>2 DEF SampleRolls
      <4>d. PICK D \in SUBSET Nat : D = DOMAIN buckets
        BY <1>5
      <4>2. PICK b \in D : D = DOMAIN buckets /\ b = cur
        BY <4>1, <4>d
      <4>3. /\ FileInv(file', open', D)
            /\ OnFile' = IF open THEN OnFile ELSE OnFile \cup {b}
        BY <1>5, <4>1, <4>2, FlushWrites
      <4>4. cur' \notin OnFile'
        BY <1>5, <2>1, <3>2, <4>2, <4>3
      <4>5. buckets[cur] \in Bucket
        BY <1>5, <4>1, SeqShape
      <4>6. lost' \in [up : Nat, fake : Nat]
        <5>1. Plus(lost, buckets[cur]) \in [up : Nat, fake : Nat]
          BY <1>5, <4>5, PlusType
        <5>2. lost' \in {lost, Plus(lost, buckets[cur])}
          BY <4>1 DEF Flushed
        <5> QED BY <1>5, <5>1, <5>2
      <4> QED BY <4>2, <4>3, <4>4, <4>6
    <3> QED BY <3>1, <3>2
  <2>4. FileInv(file', open', DOMAIN buckets')
    BY <2>1, <2>3 DEF FileInv
  <2>5. fakes' = fakes /\ faults' = faults
    BY <1>7 DEF SampleHere, SampleRolls
  <2>6. last' \in {Unset} \cup 0..(carried' + raised') /\ measured' \in Nat
    BY <1>1, <1>2, <2>1
  <2> QED BY <1>1, <1>4, <2>1, <2>2, <2>3, <2>4, <2>5, <2>6, MeterParts
<1>8. CASE SampleFails
  <2>1. UNCHANGED <<buckets, cur, last, fakes, measured, lost>> /\ NotFlushed
    BY <1>8 DEF SampleFails
  <2>2. FileInv(file', open', DOMAIN buckets) /\ OnFile' = OnFile
    BY <1>5, <2>1, TearWrites DEF NotFlushed
  <2>3. faults' \in Nat
    BY <1>1, <2>1 DEF NotFlushed, Fault
  <2>4. /\ \A i \in DOMAIN buckets' : buckets'[i].start \in 0..now'
        /\ last' \in {Unset} \cup 0..(carried' + raised') /\ cur' \in {0} \cup DOMAIN buckets'
    BY <1>2, <2>1 DEF MeterInv, TypeOK
  <2> QED BY <1>1, <1>4, <1>5, <2>1, <2>2, <2>3, <2>4, MeterParts
<1> QED BY <1>6, <1>7, <1>8 DEF Sample

\* The end of the process.
LEMMA MeterEnds ==
    ASSUME MeterInv, Close \/ Exit \/ Kill
    PROVE  MeterInv'
<1> USE DEF store, disk, history, bounds
<1>1. /\ {MaxTime, now, tracked, carried, raised, fakes, measured, faults, starts} \subseteq Nat
      /\ {last, cycle} \subseteq Int
      /\ tracked <= carried + raised /\ last <= carried + raised /\ now <= MaxTime /\ cycle <= now
  BY MeterNumbers
<1>2. /\ UNCHANGED <<now, tracked, buckets, carried, raised, fakes, measured, starts>>
      /\ cur' = 0 /\ cycle' = Unset /\ last' \in {last, Unset} /\ up' \in {"off", "closed"}
      /\ faults' \in {faults, faults + 1} /\ reader' \in {reader, NoReader}
  BY DEF Close, Exit, Kill, Off, Fault, NotFlushed
<1>3. /\ FileInv(file, open, DOMAIN buckets) /\ DOMAIN buckets \subseteq Nat /\ 0 \notin DOMAIN buckets
      /\ OnFile \subseteq DOMAIN buckets /\ (cur # 0 => cur \in DOMAIN buckets /\ cur \notin OnFile)
      /\ buckets \in Seq(Bucket) /\ lost \in [up : Nat, fake : Nat]
  BY FileShape DEF MeterInv, ShapeInv
<1>4. cur # 0 => buckets[cur] \in Bucket
  BY <1>3, SeqShape
<1>5. lost' \in [up : Nat, fake : Nat]
  <2>1. cur # 0 => Plus(lost, buckets[cur]) \in [up : Nat, fake : Nat]
    BY <1>3, <1>4, PlusType
  <2>2. lost' = lost \/ (cur # 0 /\ lost' = Plus(lost, buckets[cur]))
    BY DEF Close, Exit, Kill, Flushed
  <2> QED BY <1>3, <2>1, <2>2
<1>6. FileInv(file', open', DOMAIN buckets)
  <2>1. \/ cur # 0 /\ Flushed(cur)
        \/ UNCHANGED disk
        \/ file' = (IF open THEN file ELSE Append(file, Garbled)) /\ open' = TRUE
    BY DEF Close, Exit, Kill, NotFlushed
  <2>2. CASE cur # 0 /\ Flushed(cur)
    <3>d. PICK D \in SUBSET Nat : D = DOMAIN buckets
      BY <1>3
    <3>1. PICK b \in D : D = DOMAIN buckets /\ b = cur
      BY <1>3, <2>2, <3>d
    <3> QED BY <1>3, <2>2, <3>1, FlushWrites
  <2>3. CASE ~(cur # 0 /\ Flushed(cur))
    BY <1>3, <2>1, <2>3, TearWrites
  <2> QED BY <2>2, <2>3
<1>7. /\ \A i \in DOMAIN buckets' : buckets'[i].start \in 0..now'
      /\ last' \in {Unset} \cup 0..(carried' + raised') /\ now' \in 0..MaxTime /\ tracked' \in 0..(carried' + raised')
      /\ reader'.at \in {"none", "read", "joined", "failed"}
  BY <1>1, <1>2 DEF MeterInv, TypeOK, NoReader
<1>8. {carried', raised', fakes', measured', faults', starts'} \subseteq Nat
  BY <1>1, <1>2
<1> QED BY <1>2, <1>3, <1>5, <1>6, <1>7, <1>8, MeterParts

\* Every step keeps the invariant.
LEMMA MeterNext == MeterInv /\ [Next]_vars => MeterInv'
<1>1. MeterInv /\ UNCHANGED vars => MeterInv'
  BY DEF vars, MeterInv, TypeOK, ShapeInv, OnFile
<1> QED BY <1>1, MeterOutside, MeterStore, MeterEnds DEF Next

\* Every variable has its type: the current bucket is not on the file, and no bucket is
\* there twice, however flushes fail and lines are torn.
THEOREM TypeCorrect == Spec => []TypeOK
<1> QED BY MeterInit, MeterNext, PTL DEF Spec, MeterInv
-----------------------------------------------------------------------------
\* A reader that has the pointer and not yet the file is owed nothing that is neither
\* the bucket it points at nor on the file by now.
ReaderInv ==
    /\ reader.at = "read" => 0 \notin reader.due /\ reader.due \subseteq Ids(file) \cup {reader.cur}
    /\ HistoryMissesNothing

\* No step takes a bucket off the file.
LEMMA LinesStay ==
    ASSUME MeterInv, [Next]_vars
    PROVE  Ids(file) \ {0} \subseteq Ids(file')
<1> USE DEF store, disk, history, bounds
<1>1. /\ FileInv(file, open, DOMAIN buckets) /\ DOMAIN buckets \subseteq Nat /\ 0 \notin DOMAIN buckets
      /\ (cur # 0 => cur \in DOMAIN buckets /\ cur \notin OnFile)
  BY FileShape
<1>2. \/ cur # 0 /\ Flushed(cur)
      \/ UNCHANGED disk
      \/ file' = (IF open THEN file ELSE Append(file, Garbled)) /\ open' = TRUE
  BY DEF Next, Start, Tick, Carry, SetTotals, CycleBegins, CycleEndsUnsampled, RecordSend, Sample, SampleHere,
         SampleRolls, SampleFails, Close, Exit, Kill, NotFlushed, History, HistoryLocks, HistoryReads,
         HistoryAnswers, vars
<1>3. CASE cur # 0 /\ Flushed(cur)
  <2>1. PICK D \in SUBSET Nat : D = DOMAIN buckets
    BY <1>1
  <2>2. PICK b \in D : D = DOMAIN buckets /\ b = cur
    BY <1>1, <1>3, <2>1
  <2>3. FileInv(file, open, D) /\ 0 \notin D /\ b \notin OnFile /\ Flushed(b)
    BY <1>1, <1>3, <2>2
  <2>4. D \in SUBSET Nat /\ b \in D /\ b # 0
    BY <1>3, <2>2
  <2> QED BY ONLY <2>3, <2>4, FlushWrites
<1>4. CASE ~(cur # 0 /\ Flushed(cur))
  BY <1>1, <1>2, <1>4, TearWrites
<1> QED BY <1>3, <1>4

\* What an answer holds: the lines, then the bucket the reader points at.
LEMMA AnswerHolds ==
    ASSUME NEW f \in Seq(Lines), NEW c
    PROVE  LET answer == [i \in DOMAIN f |-> f[i].id] \o (IF c = 0 THEN <<>> ELSE <<c>>)
           IN  (Ids(f) \cup {c}) \ {0} \subseteq ToSet(answer)
<1> DEFINE S == Nat \cup {c}
           ids == [i \in DOMAIN f |-> f[i].id]
           tail == IF c = 0 THEN <<>> ELSE <<c>>
<1>1. \A i \in DOMAIN f : f[i].id \in Nat
  <2>1. \A i \in DOMAIN f : f[i] \in Lines
    BY SeqShape
  <2> QED BY <2>1 DEF Lines
<1>2. ids \in Seq(S) /\ DOMAIN ids = DOMAIN f /\ \A i \in DOMAIN f : ids[i] = f[i].id
  <2>1. Len(f) \in Nat /\ DOMAIN f = 1..Len(f)
    BY SeqShape
  <2>2. ids \in [1..Len(f) -> S]
    BY <1>1, <2>1
  <2> QED BY <2>1, <2>2, SeqDef
<1>3. tail \in Seq(S) /\ (c # 0 => DOMAIN tail = {1} /\ tail[1] = c)
  <2>1. <<>> \in Seq(S)
    BY EmptySeq
  <2>2. c \in S /\ <<c>> \in Seq(S) /\ DOMAIN <<c>> = {1} /\ <<c>>[1] = c
    OBVIOUS
  <2>3. CASE c = 0
    BY <2>1, <2>3
  <2>4. CASE c # 0
    BY <2>2, <2>4
  <2> QED BY <2>3, <2>4
<1> HIDE DEF ids, tail
<1>4. /\ Len(ids \o tail) = Len(ids) + Len(tail) /\ ids \o tail \in Seq(S)
      /\ \A i \in 1..Len(ids) + Len(tail) :
            (ids \o tail)[i] = IF i <= Len(ids) THEN ids[i] ELSE tail[i - Len(ids)]
  BY <1>2, <1>3, ConcatProperties
<1>5. /\ DOMAIN (ids \o tail) = 1..Len(ids) + Len(tail)
      /\ {Len(ids), Len(tail)} \subseteq Nat
      /\ DOMAIN ids = 1..Len(ids) /\ DOMAIN tail = 1..Len(tail)
  BY <1>2, <1>3, <1>4, SeqShape
<1>6. ASSUME NEW i \in DOMAIN f PROVE f[i].id \in ToSet(ids \o tail)
  <2>1. i \in DOMAIN (ids \o tail) /\ (ids \o tail)[i] = f[i].id
    BY <1>2, <1>4, <1>5
  <2> QED BY <2>1 DEF ToSet
<1>7. ASSUME c # 0 PROVE c \in ToSet(ids \o tail)
  <2>1. Len(tail) = 1
    BY <1>3, <1>5, <1>7
  <2>2. Len(ids) + 1 \in DOMAIN (ids \o tail) /\ (ids \o tail)[Len(ids) + 1] = tail[1]
    BY <1>4, <1>5, <2>1
  <2> QED BY <1>3, <1>7, <2>2 DEF ToSet
<1>8. (Ids(f) \cup {c}) \ {0} \subseteq ToSet(ids \o tail)
  BY <1>6, <1>7 DEF Ids
<1> QED BY <1>8 DEF ids, tail

\* A reader is owed its buckets until it has them.
LEMMA ReaderNext == MeterInv /\ ReaderInv /\ [Next]_vars => ReaderInv'
<1> SUFFICES ASSUME MeterInv, ReaderInv, [Next]_vars PROVE ReaderInv'
  OBVIOUS
<1> USE DEF store, disk, history, bounds
<1>1. CASE HistoryLocks
  <2>1. reader'.at = "read" /\ reader'.cur = cur /\ reader'.due = Recorded /\ file' = file
    BY <1>1 DEF HistoryLocks
  <2> QED BY <2>1 DEF ReaderInv, HistoryMissesNothing, Recorded, Ids
<1>2. CASE HistoryReads
  <2>1. CASE \E i \in DOMAIN file : ~file[i].whole
    BY <1>2, <2>1 DEF HistoryReads, ReaderInv, HistoryMissesNothing
  <2>2. CASE ~\E i \in DOMAIN file : ~file[i].whole
    <3>1. /\ reader.at = "read" /\ reader'.at = "joined" /\ reader'.due = reader.due
          /\ reader'.answer = [i \in DOMAIN file |-> file[i].id]
                                \o (IF reader.cur = 0 THEN <<>> ELSE <<reader.cur>>)
      BY <1>2, <2>2 DEF HistoryReads
    <3>2. file \in Seq(Lines)
      BY DEF MeterInv, ShapeInv
    <3>3. (Ids(file) \cup {reader.cur}) \ {0} \subseteq ToSet(reader'.answer)
      BY <3>1, <3>2, AnswerHolds
    <3> QED BY <3>1, <3>3 DEF ReaderInv, HistoryMissesNothing
  <2> QED BY <2>1, <2>2
<1>3. CASE reader' = NoReader
  BY <1>3 DEF NoReader, ReaderInv, HistoryMissesNothing
<1>4. CASE reader' = reader
  BY <1>4, LinesStay DEF ReaderInv, HistoryMissesNothing
<1>5. reader' \in {reader, NoReader} \/ HistoryLocks \/ HistoryReads
  BY DEF Next, Start, Tick, Carry, SetTotals, CycleBegins, CycleEndsUnsampled, RecordSend, Sample, SampleHere,
         SampleRolls, SampleFails, Close, Exit, Kill, Off, History, HistoryAnswers, vars
<1> QED BY <1>1, <1>2, <1>3, <1>4, <1>5

\* The pointer taken under the lock and the file read after it together hold every bucket
\* there was: a bucket flushed in between is in the file (Store.History, Store.rollTo).
THEOREM HistoryIsWhole == Spec => []HistoryMissesNothing
<1>1. Init => ReaderInv
  BY DEF Init, NoReader, ReaderInv, HistoryMissesNothing
<1>2. ReaderInv => HistoryMissesNothing
  BY DEF ReaderInv
<1> QED BY <1>1, <1>2, MeterInit, MeterNext, ReaderNext, PTL DEF Spec
-----------------------------------------------------------------------------
(* The bytes of a set of buckets: the folds of FoldTheorems, over records. *)

Sums == [up : Nat, fake : Nat]

B == INSTANCE FoldTheorems WITH Values <- Sums \cup Bucket, Base <- Nothing, Op <- Plus

\* What a sum of two of them is.
LEMMA PlusIs ==
    \A a, b \in Sums \cup Bucket :
        /\ Plus(a, b) \in Sums
        /\ Plus(a, b).up = a.up + b.up /\ Plus(a, b).fake = a.fake + b.fake
        /\ {a.up, a.fake} \subseteq Nat
  BY DEF Plus, Sums, Bucket

\* Two sums are one if their fields are.
LEMMA SameSums ==
    \A a, b \in Sums : a.up = b.up /\ a.fake = b.fake => a = b
  BY DEF Sums

\* Adding buckets does not care about the order.
LEMMA PlusOrderless == B!Orderless
<1>1. Nothing \in Sums
  BY DEF Nothing, Sums
<1>2. ASSUME NEW a \in Sums \cup Bucket, NEW b \in Sums \cup Bucket, NEW c \in Sums \cup Bucket
      PROVE  Plus(a, Plus(b, c)) = Plus(b, Plus(a, c))
  <2>1. PICK x \in Sums, y \in Sums : x = Plus(b, c) /\ y = Plus(a, c)
    BY PlusIs
  <2>2. Plus(a, x) \in Sums /\ Plus(b, y) \in Sums
    BY PlusIs
  <2>3. /\ Plus(a, x).up = a.up + (b.up + c.up) /\ Plus(a, x).fake = a.fake + (b.fake + c.fake)
        /\ Plus(b, y).up = b.up + (a.up + c.up) /\ Plus(b, y).fake = b.fake + (a.fake + c.fake)
    BY <2>1, PlusIs
  <2>4. {a.up, a.fake, b.up, b.fake, c.up, c.fake} \subseteq Nat
    BY PlusIs
  <2>5. Plus(a, x).up = Plus(b, y).up /\ Plus(a, x).fake = Plus(b, y).fake
    BY <2>3, <2>4
  <2> QED BY <2>1, <2>2, <2>5, SameSums
<1> QED BY <1>1, <1>2, PlusIs DEF B!Orderless

\* The finite sets of FoldTheorems are the finite sets.
LEMMA FiniteSame == \A S : B!IsFiniteSet(S) <=> IsFiniteSet(S)
  BY DEF B!IsFiniteSet, IsFiniteSet

\* The bytes of the buckets of bs that S numbers.
BytesOf(bs, S) == B!Fold(bs, S)

\* SumOf is that fold.
LEMMA SumIsFold == \A S : SumOf(S) = BytesOf(buckets, S)
  BY DEF SumOf, BytesOf, FoldFunctionOnSet, B!Fold, MapThenFoldSet, B!MapThenFoldSet

\* The bytes of no bucket, of one, of one more; and where they are counted.
LEMMA BytesType ==
    ASSUME NEW S, IsFiniteSet(S), NEW bs, \A i \in S : bs[i] \in Bucket
    PROVE  BytesOf(bs, S) \in Sums
<1>1. BytesOf(bs, S) \in Sums \cup Bucket
  BY PlusOrderless, FiniteSame, B!FoldType DEF BytesOf
<1>2. CASE S = {}
  BY <1>2, B!FoldEmpty DEF BytesOf, Nothing, Sums
<1>3. CASE S # {}
  <2>1. PICK i \in S : TRUE
    BY <1>3
  <2>2. B!Fold(bs, S) = Plus(bs[i], B!Fold(bs, S \ {i}))
    BY PlusOrderless, FiniteSame, B!FoldRemove
  <2>3. IsFiniteSet(S \ {i})
    BY FS_RemoveElement
  <2>4. B!Fold(bs, S \ {i}) \in Sums \cup Bucket
    BY <2>3, PlusOrderless, FiniteSame, B!FoldType
  <2> QED BY <2>2, <2>4, PlusIs DEF BytesOf
<1> QED BY <1>2, <1>3

\* One bucket more.
LEMMA BytesAdd ==
    ASSUME NEW S, IsFiniteSet(S), NEW x, x \notin S, NEW bs, \A i \in S \cup {x} : bs[i] \in Bucket
    PROVE  /\ BytesOf(bs, S \cup {x}).up = bs[x].up + BytesOf(bs, S).up
           /\ BytesOf(bs, S \cup {x}).fake = bs[x].fake + BytesOf(bs, S).fake
<1>1. BytesOf(bs, S \cup {x}) = Plus(bs[x], BytesOf(bs, S))
  BY PlusOrderless, FiniteSame, B!FoldAdd DEF BytesOf
<1>2. BytesOf(bs, S) \in Sums /\ bs[x] \in Bucket
  BY BytesType
<1> QED BY <1>1, <1>2, PlusIs

\* The bytes of no bucket and of one.
LEMMA BytesFew ==
    ASSUME NEW bs
    PROVE  /\ BytesOf(bs, {}) = Nothing
           /\ \A i : bs[i] \in Bucket => /\ BytesOf(bs, {i}) \in Sums
                                         /\ BytesOf(bs, {i}).up = bs[i].up
                                         /\ BytesOf(bs, {i}).fake = bs[i].fake
<1>1. BytesOf(bs, {}) = Nothing
  BY B!FoldEmpty DEF BytesOf
<1>2. ASSUME NEW i, bs[i] \in Bucket
      PROVE  /\ BytesOf(bs, {i}) \in Sums
             /\ BytesOf(bs, {i}).up = bs[i].up /\ BytesOf(bs, {i}).fake = bs[i].fake
  <2>1. IsFiniteSet({}) /\ IsFiniteSet({i}) /\ {} \cup {i} = {i}
    BY FS_EmptySet, FS_Singleton
  <2>2. /\ BytesOf(bs, {} \cup {i}).up = bs[i].up + BytesOf(bs, {}).up
        /\ BytesOf(bs, {} \cup {i}).fake = bs[i].fake + BytesOf(bs, {}).fake
    BY <1>2, <2>1, BytesAdd
  <2>3. bs[i].up \in Nat /\ bs[i].fake \in Nat
    BY <1>2, PlusIs
  <2>4. BytesOf(bs, {i}) \in Sums
    BY <1>2, <2>1, BytesType
  <2> QED BY <1>1, <2>1, <2>2, <2>3, <2>4 DEF Nothing
<1> QED BY <1>1, <1>2

\* Buckets that did not change hold the same bytes.
LEMMA BytesSame ==
    ASSUME NEW S, IsFiniteSet(S), NEW bs, NEW cs, \A i \in S : bs[i] = cs[i]
    PROVE  BytesOf(bs, S) = BytesOf(cs, S)
  BY FiniteSame, B!FoldSame DEF BytesOf

-----------------------------------------------------------------------------
(* No byte is lost.                                                        *)

\* The balance, direction by direction.
Held == IF cur = 0 THEN Nothing ELSE [up |-> buckets[cur].up, fake |-> buckets[cur].fake]

BytesInv ==
    /\ SumOf(OnFile).up + lost.up + Held.up = measured
    /\ SumOf(OnFile).fake + lost.fake + Held.fake = fakes

\* The terms of the balance.
LEMMA Terms ==
    ASSUME MeterInv
    PROVE  /\ IsFiniteSet(OnFile) /\ OnFile \subseteq DOMAIN buckets
           /\ \A i \in DOMAIN buckets : buckets[i] \in Bucket
           /\ SumOf(OnFile) \in Sums /\ lost \in Sums /\ Held \in Sums /\ Nothing \in Sums
           /\ SumOf({cur} \ {0}) = Held
           /\ measured \in Nat /\ fakes \in Nat
<1>1. OnFile \subseteq DOMAIN buckets /\ (cur # 0 => cur \in DOMAIN buckets)
  BY FileShape
<1>2. /\ buckets \in Seq(Bucket) /\ lost \in Sums /\ measured \in Nat /\ fakes \in Nat
  BY DEF MeterInv, ShapeInv, Sums
<1>3. \A i \in DOMAIN buckets : buckets[i] \in Bucket
  BY <1>2, SeqShape
<1>4. IsFiniteSet(OnFile)
  <2>1. DOMAIN buckets = 1..Len(buckets) /\ Len(buckets) \in Nat
    BY <1>2, SeqShape
  <2>2. IsFiniteSet(DOMAIN buckets)
    BY <2>1, FS_Interval
  <2> QED BY <1>1, <2>2, FS_Subset
<1>5. SumOf(OnFile) \in Sums
  BY <1>1, <1>3, <1>4, SumIsFold, BytesType
<1>6. Nothing \in Sums
  BY DEF Nothing, Sums
<1>7. Held \in Sums /\ SumOf({cur} \ {0}) = Held
  <2>1. CASE cur = 0
    <3>1. {cur} \ {0} = {}
      BY <2>1
    <3> QED BY <1>6, <2>1, <3>1, SumIsFold, BytesFew DEF Held
  <2>2. CASE cur # 0
    <3>1. {cur} \ {0} = {cur}
      BY <2>2
    <3>2. PICK b \in Bucket : b = buckets[cur] /\ b.up \in Nat /\ b.fake \in Nat
      BY <1>1, <1>3, <2>2, PlusIs
    <3>3. Held \in Sums /\ Held.up = b.up /\ Held.fake = b.fake
      BY <2>2, <3>2 DEF Held, Sums
    <3>4. /\ SumOf({cur}) \in Sums /\ SumOf({cur}).up = b.up /\ SumOf({cur}).fake = b.fake
      BY <3>2, SumIsFold, BytesFew
    <3> QED BY <3>1, <3>3, <3>4, SameSums
  <2> QED BY <2>1, <2>2
<1> QED BY <1>1, <1>2, <1>3, <1>4, <1>5, <1>6, <1>7

\* The balance is the property.
LEMMA Balance == MeterInv /\ BytesInv => BytesConserved
<1> SUFFICES ASSUME MeterInv, BytesInv PROVE BytesConserved
  OBVIOUS
<1>1. PICK s \in Sums, l \in Sums, h \in Sums, m \in Nat, k \in Nat :
         s = SumOf(OnFile) /\ l = lost /\ h = Held /\ m = measured /\ k = fakes
  BY Terms
<1>2. s.up + l.up + h.up = m /\ s.fake + l.fake + h.fake = k
  BY <1>1 DEF BytesInv
<1>3. PICK t \in Sums : t = Plus(s, l) /\ t.up = s.up + l.up /\ t.fake = s.fake + l.fake
  BY PlusIs
<1>4. Plus(t, h) \in Sums /\ Plus(t, h).up = m /\ Plus(t, h).fake = k
  BY <1>2, <1>3, PlusIs
<1>5. /\ [up |-> m, fake |-> k] \in Sums
      /\ [up |-> m, fake |-> k].up = m /\ [up |-> m, fake |-> k].fake = k
  BY DEF Sums
<1>6. Plus(t, h) = [up |-> m, fake |-> k]
  BY <1>4, <1>5, SameSums
<1> QED BY <1>1, <1>3, <1>6, Terms DEF BytesConserved

\* A bucket that is written moves its bytes to the file, or they are lost with a torn line.
LEMMA FlushMoves ==
    ASSUME MeterInv, cur # 0, Flushed(cur), \A i \in DOMAIN buckets : buckets'[i] = buckets[i]
    PROVE  /\ SumOf(OnFile)'.up + lost'.up = SumOf(OnFile).up + lost.up + buckets[cur].up
           /\ SumOf(OnFile)'.fake + lost'.fake = SumOf(OnFile).fake + lost.fake + buckets[cur].fake
<1>1. /\ FileInv(file, open, DOMAIN buckets) /\ DOMAIN buckets \subseteq Nat /\ 0 \notin DOMAIN buckets
      /\ cur \in DOMAIN buckets /\ cur \notin OnFile
  BY FileShape
<1>2. PICK D \in SUBSET Nat : D = DOMAIN buckets
  BY <1>1
<1>3. PICK b \in D : D = DOMAIN buckets /\ b = cur
  BY <1>1, <1>2
<1>4. FileInv(file, open, D) /\ 0 \notin D /\ b \notin OnFile /\ Flushed(b) /\ b # 0
  BY <1>1, <1>3
<1>5. OnFile' = IF open THEN OnFile ELSE OnFile \cup {b}
  <2>1. D \in SUBSET Nat /\ b \in D
    OBVIOUS
  <2> QED BY ONLY <1>4, <2>1, FlushWrites
<1>6. PICK v \in Bucket : v = buckets[b] /\ v.up \in Nat /\ v.fake \in Nat
  BY <1>3, Terms, PlusIs
<1>7. PICK s \in Sums, l \in Sums : s = SumOf(OnFile) /\ l = lost
  BY Terms
<1>8. {s.up, s.fake, l.up, l.fake} \subseteq Nat
  BY PlusIs
<1>9. BytesOf(buckets', OnFile) = s
  BY <1>7, Terms, BytesSame, SumIsFold
<1>10. SumOf(OnFile)' = BytesOf(buckets', OnFile')
  BY SumIsFold DEF SumOf, BytesOf, FoldFunctionOnSet, B!Fold, MapThenFoldSet, B!MapThenFoldSet
<1>11. CASE open
  <2>1. lost' = Plus(l, v) /\ OnFile' = OnFile
    BY <1>3, <1>5, <1>6, <1>7, <1>11 DEF Flushed
  <2>2. lost'.up = l.up + v.up /\ lost'.fake = l.fake + v.fake
    BY <2>1, PlusIs
  <2> QED BY <1>3, <1>6, <1>7, <1>8, <1>9, <1>10, <2>1, <2>2
<1>12. CASE ~open
  <2>1. lost' = l /\ OnFile' = OnFile \cup {b}
    BY <1>5, <1>7, <1>12 DEF Flushed
  <2>2. \A i \in OnFile \cup {b} : buckets'[i] \in Bucket
    BY <1>3, Terms
  <2>3. /\ BytesOf(buckets', OnFile \cup {b}).up = buckets'[b].up + BytesOf(buckets', OnFile).up
        /\ BytesOf(buckets', OnFile \cup {b}).fake = buckets'[b].fake + BytesOf(buckets', OnFile).fake
    BY <1>4, <2>2, Terms, BytesAdd
  <2>4. buckets'[b] = v
    BY <1>3, <1>6
  <2> QED BY <1>3, <1>6, <1>7, <1>8, <1>9, <1>10, <2>1, <2>3, <2>4
<1> QED BY <1>11, <1>12

\* A step that writes no whole line leaves the bytes on the file.
LEMMA FileBytesStay ==
    ASSUME MeterInv, OnFile' = OnFile, \A i \in OnFile : buckets'[i] = buckets[i]
    PROVE  SumOf(OnFile)' = SumOf(OnFile)
<1>1. BytesOf(buckets', OnFile) = BytesOf(buckets, OnFile)
  BY Terms, BytesSame
<1>2. SumOf(OnFile)' = BytesOf(buckets', OnFile')
  BY DEF SumOf, BytesOf, FoldFunctionOnSet, B!Fold, MapThenFoldSet, B!MapThenFoldSet
<1> QED BY <1>1, <1>2, SumIsFold

\* After a step, too, the sums are sums.
LEMMA TermsNext == MeterInv' => SumOf(OnFile)' \in Sums /\ lost' \in Sums
<1> DEFINE Typed == SumOf(OnFile) \in Sums /\ lost \in Sums
<1>1. MeterInv => Typed
  BY Terms
<1>2. MeterInv' => Typed'
  <2> HIDE DEF Typed
  <2> QED BY <1>1, PTL
<1> QED BY <1>2

\* Every step keeps the balance.
LEMMA BytesNext == MeterInv /\ BytesInv /\ [Next]_vars => BytesInv'
<1> SUFFICES ASSUME MeterInv, BytesInv, [Next]_vars PROVE BytesInv'
  OBVIOUS
<1> USE DEF store, disk, history, bounds
<1>1. PICK s \in Sums, l \in Sums, h \in Sums, m \in Nat, k \in Nat :
         s = SumOf(OnFile) /\ l = lost /\ h = Held /\ m = measured /\ k = fakes
  BY Terms
<1>2. s.up + l.up + h.up = m /\ s.fake + l.fake + h.fake = k
  BY <1>1 DEF BytesInv
<1>3. {s.up, s.fake, l.up, l.fake, h.up, h.fake} \subseteq Nat
  BY PlusIs
<1>4. cur = 0 => h.up = 0 /\ h.fake = 0
  BY <1>1 DEF Held, Nothing
<1>5. cur # 0 => /\ cur \in DOMAIN buckets /\ cur \notin OnFile
                 /\ h.up = buckets[cur].up /\ h.fake = buckets[cur].fake
  BY <1>1, FileShape DEF Held
<1>6. OnFile \subseteq DOMAIN buckets /\ 0 \notin DOMAIN buckets
  BY FileShape
<1>7. CASE RecordSend
  <2>1. OnFile' = OnFile /\ lost' = l /\ measured' = m /\ fakes' = k + 1
    BY <1>1, <1>7 DEF RecordSend, OnFile
  <2>2. /\ \A j \in DOMAIN buckets \ {cur'} : buckets'[j] = buckets[j]
        /\ cur' \in DOMAIN buckets'
        /\ \/ /\ cur # 0 /\ cur' = cur
              /\ buckets'[cur].up = buckets[cur].up /\ buckets'[cur].fake = buckets[cur].fake + 1
           \/ /\ cur = 0 /\ cur' \notin DOMAIN buckets
              /\ buckets'[cur'].up = 0 /\ buckets'[cur'].fake = 1
    BY <1>7, SendWrites
  <2>3. SumOf(OnFile)' = s
    BY <1>1, <1>5, <1>6, <2>1, <2>2, FileBytesStay
  <2>4. cur' # 0
    BY <1>7, MeterStore DEF MeterInv, TypeOK, ShapeInv, RecordSend
  <2>5. Held'.up = h.up /\ Held'.fake = h.fake + 1
    BY <1>3, <1>4, <1>5, <2>2, <2>4 DEF Held
  <2>6. s.fake + l.fake + (h.fake + 1) = k + 1
    <3>1. PICK x \in Nat, y \in Nat, z \in Nat : x = s.fake /\ y = l.fake /\ z = h.fake
      BY <1>3
    <3>2. x + y + z = k
      BY <1>2, <3>1
    <3>3. x + y + (z + 1) = k + 1
      BY <3>2
    <3> QED BY <3>1, <3>3
  <2> QED BY <1>2, <2>1, <2>3, <2>5, <2>6 DEF BytesInv
<1>8. CASE SampleHere \/ SampleRolls
  <2>1. /\ \A j \in DOMAIN buckets \ {cur'} : buckets'[j] = buckets[j]
        /\ Delta \in Nat /\ measured' = m + Delta /\ fakes' = k
        /\ \/ /\ SampleHere /\ cur # 0 /\ cur' = cur
              /\ buckets'[cur].fake = buckets[cur].fake /\ buckets'[cur].up = buckets[cur].up + Delta
           \/ /\ cur = 0 \/ SampleRolls
              /\ cur' \notin DOMAIN buckets /\ buckets'[cur'].up = Delta /\ buckets'[cur'].fake = 0
        /\ cur' # 0
    BY <1>1, <1>6, <1>8, SampleWrites DEF SampleHere, SampleRolls
  <2>2. CASE SampleHere
    <3>1. OnFile' = OnFile /\ lost' = l
      BY <1>1, <2>2 DEF SampleHere, OnFile
    <3>2. SumOf(OnFile)' = s
      BY <1>1, <1>5, <1>6, <2>1, <3>1, FileBytesStay
    <3>3. Held'.up = h.up + Delta /\ Held'.fake = h.fake
      BY <1>3, <1>4, <1>5, <2>1, <2>2 DEF Held, SampleHere, SampleRolls
    <3> QED BY <1>2, <1>3, <2>1, <3>1, <3>2, <3>3 DEF BytesInv
  <2>3. CASE SampleRolls
    <3>1. /\ cur # 0 /\ Flushed(cur) /\ cur' \notin DOMAIN buckets
          /\ buckets'[cur'].up = Delta /\ buckets'[cur'].fake = 0
      BY <2>1, <2>3 DEF SampleRolls, SampleHere
    <3>2. \A i \in DOMAIN buckets : buckets'[i] = buckets[i]
      BY <2>1, <3>1
    <3>3. PICK t \in Sums, r \in Sums : t = SumOf(OnFile)' /\ r = lost'
      BY <2>3, MeterStore, TermsNext DEF Sample
    <3>4. t.up + r.up = s.up + l.up + h.up /\ t.fake + r.fake = s.fake + l.fake + h.fake
      BY <1>1, <1>5, <3>1, <3>2, <3>3, FlushMoves
    <3>5. Held'.up = Delta /\ Held'.fake = 0
      BY <2>1, <3>1 DEF Held
    <3>6. {t.up, t.fake, r.up, r.fake} \subseteq Nat
      BY PlusIs
    <3> QED BY <1>2, <1>3, <2>1, <3>3, <3>4, <3>5, <3>6 DEF BytesInv
  <2> QED BY <1>8, <2>2, <2>3
<1>9. CASE SampleFails
  <2>1. UNCHANGED <<buckets, cur, fakes, measured, lost>> /\ NotFlushed
    BY <1>9 DEF SampleFails
  <2>2. OnFile' = OnFile
    BY <2>1, FileShape, TearWrites DEF NotFlushed
  <2>3. SumOf(OnFile)' = s
    BY <1>1, <2>1, <2>2, FileBytesStay
  <2> QED BY <1>1, <1>2, <2>1, <2>3 DEF BytesInv, Held
<1>10. CASE Close \/ Kill \/ Exit
  <2>1. UNCHANGED <<buckets, fakes, measured>> /\ cur' = 0
    BY <1>10 DEF Close, Kill, Exit, Off
  <2>2. Held' = Nothing
    BY <2>1 DEF Held
  <2>3. CASE cur # 0 /\ Flushed(cur)
    <3>1. PICK t \in Sums, r \in Sums : t = SumOf(OnFile)' /\ r = lost'
      BY <1>10, MeterEnds, TermsNext
    <3>2. t.up + r.up = s.up + l.up + h.up /\ t.fake + r.fake = s.fake + l.fake + h.fake
      BY <1>1, <1>5, <2>1, <2>3, <3>1, FlushMoves
    <3>3. {t.up, t.fake, r.up, r.fake} \subseteq Nat /\ Held'.up = 0 /\ Held'.fake = 0
      BY <2>2, PlusIs DEF Nothing
    <3> QED BY <1>1, <1>2, <1>3, <2>1, <3>1, <3>2, <3>3 DEF BytesInv
  <2>4. CASE ~(cur # 0 /\ Flushed(cur))
    <3>1. /\ lost' = (IF cur = 0 THEN lost ELSE Plus(lost, buckets[cur]))
          /\ \/ UNCHANGED disk
             \/ file' = (IF open THEN file ELSE Append(file, Garbled)) /\ open' = TRUE
      BY <1>10, <2>4 DEF Close, Kill, Exit, Off, NotFlushed, MeterInv, ShapeInv
    <3>2. OnFile' = OnFile
      BY <3>1, FileShape, TearWrites
    <3>3. SumOf(OnFile)' = s
      BY <1>1, <2>1, <3>2, FileBytesStay
    <3>4. lost'.up = l.up + h.up /\ lost'.fake = l.fake + h.fake
      <4>1. CASE cur = 0
        BY <1>1, <1>3, <1>4, <3>1, <4>1
      <4>2. CASE cur # 0
        <5>1. buckets[cur] \in Bucket
          BY <1>5, <4>2, Terms
        <5>2. /\ Plus(l, buckets[cur]).up = l.up + buckets[cur].up
              /\ Plus(l, buckets[cur]).fake = l.fake + buckets[cur].fake
          BY <5>1, PlusIs
        <5> QED BY <1>1, <1>5, <3>1, <4>2, <5>2
      <4> QED BY <4>1, <4>2
    <3>5. Held'.up = 0 /\ Held'.fake = 0
      BY <2>2 DEF Nothing
    <3> QED BY <1>1, <1>2, <1>3, <2>1, <3>3, <3>4, <3>5 DEF BytesInv
  <2> QED BY <2>3, <2>4
<1>11. CASE ~(RecordSend \/ Sample \/ Close \/ Kill \/ Exit)
  <2>1. UNCHANGED <<buckets, cur, file, fakes, measured, lost>>
    BY <1>11 DEF Next, Start, Tick, Carry, SetTotals, CycleBegins, CycleEndsUnsampled, History, HistoryLocks,
                 HistoryReads, HistoryAnswers, vars
  <2>2. OnFile' = OnFile
    BY <2>1 DEF OnFile
  <2>3. SumOf(OnFile)' = s
    BY <1>1, <2>1, <2>2, FileBytesStay
  <2> QED BY <1>1, <1>2, <2>1, <2>3 DEF BytesInv, Held
<1> QED BY <1>7, <1>8, <1>9, <1>10, <1>11 DEF Sample


\* No byte that was sampled or sent is dropped or counted twice, whatever flush fails or
\* is torn and whenever the process ends (Store.RecordSend, Sample, rollTo, Close).
THEOREM BytesHold == Spec => []BytesConserved
<1>1. Init => BytesInv
  <2> SUFFICES ASSUME Init PROVE BytesInv
    OBVIOUS
  <2>1. OnFile = {}
    BY DEF Init, OnFile
  <2>2. SumOf({}) = Nothing
    BY SumIsFold, BytesFew
  <2> QED BY <2>1, <2>2 DEF Init, BytesInv, Held, Nothing
<1> QED BY <1>1, MeterInit, MeterNext, BytesNext, Balance, PTL DEF Spec
-----------------------------------------------------------------------------
(* Nothing is billed early.  The sums are folds again, over the naturals.  *)

N == INSTANCE FoldTheorems WITH Values <- Nat, Base <- 0, Op <- +

Ups(bs) == [i \in DOMAIN bs |-> bs[i].up]

\* The bytes booked in the buckets of bs, and in those begun by window w.
TotalBy(bs) == N!Fold(Ups(bs), DOMAIN bs)

BookedBy(bs, w) == N!Fold(Ups(bs), {i \in DOMAIN bs : bs[i].start <= w})

\* Addition does not care about the order.
LEMMA NatsAdd == N!Orderless /\ \A S : N!IsFiniteSet(S) <=> IsFiniteSet(S)
  BY DEF N!Orderless, N!IsFiniteSet, IsFiniteSet

\* The sums of Billing are these folds.
LEMMA BillingSums == \A S : SumUp(S) = N!Fold(Ups(buckets), S)
  BY DEF SumUp, Ups, SumFunctionOnSet, FoldFunctionOnSet, N!Fold, MapThenFoldSet, N!MapThenFoldSet

\* One term of a sum changes.
LEMMA SumChanges ==
    ASSUME NEW S, IsFiniteSet(S), NEW f, NEW g, NEW c \in S,
           \A i \in S : f[i] \in Nat /\ g[i] \in Nat,
           \A i \in S \ {c} : f[i] = g[i]
    PROVE  \E r \in Nat : N!Fold(f, S) = f[c] + r /\ N!Fold(g, S) = g[c] + r
<1>1. /\ N!Fold(f, S) = f[c] + N!Fold(f, S \ {c})
      /\ N!Fold(g, S) = g[c] + N!Fold(f, S \ {c})
      /\ N!Fold(f, S \ {c}) \in Nat
  <2>1. N!Orderless /\ N!IsFiniteSet(S)
    BY NatsAdd
  <2> QED BY <2>1, N!FoldChange
<1> QED BY <1>1

\* From f to g the term of c grows by n, or is new and n.
Gains(f, g, S, c, n) ==
    /\ IsFiniteSet(S) /\ n \in Nat
    /\ \A i \in S : f[i] \in Nat
    /\ \A i \in S \ {c} : f[i] = g[i]
    /\ (c \in S /\ g[c] = f[c] + n) \/ (c \notin S /\ g[c] = n)

\* So does the sum.
LEMMA SumGains ==
    \A f, g, S, c, n :
        Gains(f, g, S, c, n) => N!Fold(f, S) \in Nat /\ N!Fold(g, S \cup {c}) = N!Fold(f, S) + n
<1> SUFFICES ASSUME NEW f, NEW g, NEW S, NEW c, NEW n, Gains(f, g, S, c, n)
             PROVE  N!Fold(f, S) \in Nat /\ N!Fold(g, S \cup {c}) = N!Fold(f, S) + n
  OBVIOUS
<1> SUFFICES \E r \in Nat : N!Fold(f, S) = r /\ N!Fold(g, S \cup {c}) = r + n
  OBVIOUS
<1> USE DEF Gains
<1>1. CASE c \in S /\ g[c] = f[c] + n
  <2>1. PICK x \in Nat : x = f[c] /\ g[c] = x + n
    BY <1>1
  <2>2. \A i \in S : f[i] \in Nat /\ g[i] \in Nat
    BY <2>1
  <2>3. PICK r \in Nat : N!Fold(f, S) = f[c] + r /\ N!Fold(g, S) = g[c] + r
    BY <1>1, <2>2, SumChanges
  <2>4. x + n + r = x + r + n /\ S \cup {c} = S /\ x + r \in Nat
    BY <1>1
  <2> QED BY <2>1, <2>3, <2>4
<1>2. CASE c \notin S /\ g[c] = n
  <2>1. /\ \A i \in S : f[i] = g[i]
        /\ \A i \in S \cup {c} : g[i] \in Nat
    BY <1>2
  <2>2. N!Fold(g, S \cup {c}) = g[c] + N!Fold(g, S)
    BY <1>2, <2>1, NatsAdd, N!FoldAdd
  <2>3. N!Fold(g, S) = N!Fold(f, S)
    BY <2>1, NatsAdd, N!FoldSame
  <2>4. PICK r \in Nat : r = N!Fold(f, S)
    BY NatsAdd, N!FoldType
  <2>5. n + r = r + n
    OBVIOUS
  <2> QED BY <1>2, <2>2, <2>3, <2>4, <2>5
<1> QED BY <1>1, <1>2

\* More in one window is more up to it and to later ones.
LEMMA LaterGrows ==
    ASSUME NEW f \in [0..MaxTime -> Nat], NEW k \in Int, NEW n \in Nat
    PROVE  /\ Later(f, k, n) \in [0..MaxTime -> Nat]
           /\ \A w \in 0..MaxTime : /\ f[w] \in Nat
                                    /\ Later(f, k, n)[w] = f[w] + (IF k <= w THEN n ELSE 0)
  BY MeteringAssumption DEF Later

\* More bytes in one bucket, or a bucket more.
Books(bs, cs, c, n, W) ==
    /\ bs \in Seq(Bucket) /\ cs \in Seq(Bucket) /\ n \in Nat /\ W \in Nat
    /\ DOMAIN cs = DOMAIN bs \cup {c} /\ \A j \in DOMAIN bs \ {c} : cs[j] = bs[j]
    /\ cs[c].start = W
    /\ \/ c \in DOMAIN bs /\ bs[c].start = W /\ cs[c].up = bs[c].up + n
       \/ c \notin DOMAIN bs /\ cs[c].up = n

\* What is booked up to window W and to later ones grows by n.
BookedMore(bs, cs, n, W) ==
    /\ TotalBy(bs) \in Nat /\ TotalBy(cs) = TotalBy(bs) + n
    /\ \A w \in Nat : /\ BookedBy(bs, w) \in Nat
                      /\ BookedBy(cs, w) = BookedBy(bs, w) + (IF W <= w THEN n ELSE 0)

\* That bucket's window.
LEMMA BookedGrows ==
    \A bs, cs, c, n, W : Books(bs, cs, c, n, W) => BookedMore(bs, cs, n, W)
<1> SUFFICES ASSUME NEW bs, NEW cs, NEW c, NEW n, NEW W, Books(bs, cs, c, n, W)
             PROVE  BookedMore(bs, cs, n, W)
  OBVIOUS
<1> USE DEF Books
<1> DEFINE f == Ups(bs)
           g == Ups(cs)
<1>1. IsFiniteSet(DOMAIN bs)
  <2>1. DOMAIN bs = 1..Len(bs) /\ Len(bs) \in Nat
    BY SeqShape
  <2> QED BY <2>1, FS_Interval
<1>2. \A i \in DOMAIN bs : bs[i] \in Bucket
  BY SeqShape
<1>3. \A i \in DOMAIN bs : f[i] = bs[i].up /\ f[i] \in Nat /\ (i # c => g[i] = f[i])
  BY <1>2 DEF Ups, Bucket
<1>4. \/ c \in DOMAIN bs /\ g[c] = f[c] + n
      \/ c \notin DOMAIN bs /\ g[c] = n
  BY <1>3 DEF Ups
<1>5. TotalBy(cs) = TotalBy(bs) + n /\ TotalBy(bs) \in Nat
  <2> HIDE DEF f, g
  <2>1. N!Fold(g, DOMAIN bs \cup {c}) = N!Fold(f, DOMAIN bs) + n /\ N!Fold(f, DOMAIN bs) \in Nat
    <3>1. Gains(f, g, DOMAIN bs, c, n)
      BY <1>1, <1>3, <1>4 DEF Gains
    <3> QED BY <3>1, SumGains
  <2> QED BY <2>1 DEF TotalBy, f, g
<1>6. ASSUME NEW w \in Nat
      PROVE  /\ BookedBy(bs, w) \in Nat
             /\ BookedBy(cs, w) = BookedBy(bs, w) + (IF W <= w THEN n ELSE 0)
  <2> DEFINE S == {i \in DOMAIN bs : bs[i].start <= w}
             R == {i \in DOMAIN cs : cs[i].start <= w}
  <2>1. IsFiniteSet(S) /\ \A i \in S : f[i] \in Nat /\ (i # c => g[i] = f[i])
    BY <1>1, <1>3, FS_Subset
  <2>2. CASE W <= w
    <3>1. R = S \cup {c} /\ (c \in S <=> c \in DOMAIN bs)
      BY <2>2
    <3>2. (c \in S /\ g[c] = f[c] + n) \/ (c \notin S /\ g[c] = n)
      BY <1>4, <3>1
    <3> HIDE DEF f, g, S, R
    <3>3. N!Fold(g, S \cup {c}) = N!Fold(f, S) + n /\ N!Fold(f, S) \in Nat
      <4>1. Gains(f, g, S, c, n)
        BY <2>1, <3>2 DEF Gains
      <4> QED BY ONLY <4>1, SumGains
    <3> QED BY <2>2, <3>1, <3>3 DEF BookedBy, f, g, S, R
  <2>3. CASE ~(W <= w)
    <3>1. R = S /\ c \notin S
      BY <2>3
    <3> HIDE DEF f, g, S, R
    <3>2. N!Fold(g, S) = N!Fold(f, S)
      BY <2>1, <3>1, NatsAdd, N!FoldSame
    <3>3. N!Fold(f, S) \in Nat
      BY <2>1, NatsAdd, N!FoldType
    <3>4. BookedBy(bs, w) = N!Fold(f, S) /\ BookedBy(cs, w) = N!Fold(g, R)
      BY DEF BookedBy, f, g, S, R
    <3> QED BY <2>3, <3>1, <3>2, <3>3, <3>4
  <2> QED BY <2>2, <2>3
<1> QED BY <1>5, <1>6 DEF BookedMore

\* What is booked is a number.
LEMMA BookedType ==
    ASSUME NEW bs \in Seq(Bucket)
    PROVE  TotalBy(bs) \in Nat /\ \A w \in Nat : BookedBy(bs, w) \in Nat
<1> DEFINE f == Ups(bs)
<1>1. IsFiniteSet(DOMAIN bs)
  <2>1. DOMAIN bs = 1..Len(bs) /\ Len(bs) \in Nat
    BY SeqShape
  <2> QED BY <2>1, FS_Interval
<1>2. \A i \in DOMAIN bs : f[i] \in Nat
  <2>1. \A i \in DOMAIN bs : bs[i] \in Bucket
    BY SeqShape
  <2> QED BY <2>1 DEF Ups, Bucket
<1> HIDE DEF f
<1>3. ASSUME NEW S \in SUBSET DOMAIN bs PROVE N!Fold(f, S) \in Nat
  <2>1. IsFiniteSet(S)
    BY <1>1, FS_Subset
  <2> QED BY <1>2, <2>1, NatsAdd, N!FoldType
<1> QED BY <1>3 DEF TotalBy, BookedBy, f

-----------------------------------------------------------------------------
\* What a sample may book: bytes carried, and those the totals were set up by.
Shown == carried + raised

Shows(f, g, w) == f[w] + g[w]

\* Every such byte is in some window by now, and what the next sample would add is one.
LinkInv ==
    /\ {link, entered, late} \subseteq [0..MaxTime -> Nat]
    /\ \A w \in now..MaxTime : Shows(link, entered, w) = Shown
    /\ TotalBy(buckets) = measured
    /\ measured + Delta <= Shown

\* The same up to each window that is over, with the increase that the cycle in flight
\* will book there.
EarlyInv ==
    \A w \in 0..now :
        /\ BookedBy(buckets, w) <= Shows(link, entered, w) + late[w]
        /\ cycle # Unset /\ cycle <= w =>
              BookedBy(buckets, w) + Delta <= Shows(link, entered, w) + late[w]

\* What a step carries or enters.
LEMMA StepShows ==
    ASSUME MeterInv, BNext
    PROVE  \E i \in Nat, j \in Nat :
              /\ carried' = carried + i /\ raised' = raised + j
              /\ i + j # 0 => now' = now /\ UNCHANGED buckets
<1> USE DEF store, disk, history, bounds
<1>1. PICK c \in Nat, r \in Nat, t \in Nat : c = carried /\ r = raised /\ t = tracked
  BY MeterNumbers
<1>2. \/ carried' = c /\ raised' = r
      \/ carried' = c + 1 /\ raised' = r /\ Carry
      \/ carried' = c /\ tracked' \in Nat /\ raised' = r + (IF tracked' > t THEN tracked' - t ELSE 0) /\ SetTotals
  BY <1>1, MeteringAssumption
     DEF BNext, Next, Start, Tick, Carry, SetTotals, CycleBegins, CycleEndsUnsampled, RecordSend,
         Sample, SampleHere, SampleRolls, SampleFails, Close, Exit, Kill, History, HistoryLocks,
         HistoryReads, HistoryAnswers
<1>3. CASE carried' = c /\ raised' = r
  <2>1. c = c + 0 /\ r = r + 0 /\ 0 + 0 = 0
    OBVIOUS
  <2> QED BY <1>1, <1>3, <2>1
<1>4. CASE carried' = c + 1 /\ raised' = r /\ Carry
  <2>1. r = r + 0 /\ now' = now /\ UNCHANGED buckets
    BY <1>4 DEF Carry
  <2> QED BY <1>1, <1>4, <2>1
<1>5. CASE carried' = c /\ tracked' \in Nat /\ raised' = r + (IF tracked' > t THEN tracked' - t ELSE 0) /\ SetTotals
  <2>1. PICK j \in Nat : j = IF tracked' > t THEN tracked' - t ELSE 0
    <3>1. PICK u \in Nat : u = tracked'
      BY <1>5
    <3>2. u > t => u - t \in Nat
      OBVIOUS
    <3> QED BY <3>1, <3>2
  <2>2. c = c + 0 /\ raised' = r + j /\ now' = now /\ UNCHANGED buckets
    BY <1>5, <2>1 DEF SetTotals
  <2> QED BY <1>1, <1>5, <2>2
<1> QED BY <1>2, <1>3, <1>4, <1>5

\* And where.
LEMMA StepCarries ==
    ASSUME MeterInv, LinkInv, BNext
    PROVE  \E k \in Nat :
              /\ Shown' = Shown + k /\ (k # 0 => now' = now /\ UNCHANGED buckets)
              /\ {link', entered', late'} \subseteq [0..MaxTime -> Nat]
              /\ \A w \in 0..MaxTime :
                    /\ {Shows(link, entered, w), late[w]} \subseteq Nat
                    /\ Shows(link', entered', w) = Shows(link, entered, w) + (IF now <= w THEN k ELSE 0)
                    /\ late'[w] = late[w]
                          + (IF cycle # Unset /\ cycle # now /\ cycle <= w THEN k ELSE 0)
<1>1. PICK i \in Nat, j \in Nat :
         /\ carried' = carried + i /\ raised' = raised + j
         /\ i + j # 0 => now' = now /\ UNCHANGED buckets
  BY StepShows
<1>2. MaxTime \in Nat /\ now \in 0..MaxTime /\ cycle \in {Unset} \cup 0..now
  BY MeteringAssumption DEF MeterInv, TypeOK
<1>3. PICK f \in [0..MaxTime -> Nat], g \in [0..MaxTime -> Nat], h \in [0..MaxTime -> Nat] :
         f = link /\ g = entered /\ h = late
  BY <1>2 DEF LinkInv
<1>a. PICK a \in Nat, b \in Nat : a = carried /\ b = raised
  BY MeterNumbers
<1>k. PICK k \in Nat : k = i + j
  OBVIOUS
<1>s. carried' + raised' = (a + b) + k
  BY <1>1, <1>a, <1>k
<1>4. /\ link' \in [0..MaxTime -> Nat]
      /\ \A w \in 0..MaxTime : f[w] \in Nat /\ link'[w] = f[w] + (IF now <= w THEN i ELSE 0)
  <2>1. a + i - a = i
    OBVIOUS
  <2>2. link' = Later(f, now, i)
    BY <1>1, <1>a, <1>3, <2>1 DEF BNext
  <2>3. now \in Int
    BY <1>2
  <2> QED BY ONLY f \in [0..MaxTime -> Nat], i \in Nat, <2>2, <2>3, LaterGrows
<1>e. /\ entered' \in [0..MaxTime -> Nat]
      /\ \A w \in 0..MaxTime : g[w] \in Nat /\ entered'[w] = g[w] + (IF now <= w THEN j ELSE 0)
  <2>1. b + j - b = j
    OBVIOUS
  <2>2. entered' = Later(g, now, j)
    BY <1>1, <1>a, <1>3, <2>1 DEF BNext
  <2>3. now \in Int
    BY <1>2
  <2> QED BY ONLY g \in [0..MaxTime -> Nat], j \in Nat, <2>2, <2>3, LaterGrows
<1>5. /\ late' \in [0..MaxTime -> Nat]
      /\ \A w \in 0..MaxTime :
            /\ h[w] \in Nat
            /\ late'[w] = h[w] + (IF cycle # Unset /\ cycle # now /\ cycle <= w THEN k ELSE 0)
  <2>1. CASE cycle = Unset \/ cycle = now
    <3>1. late' = h
      BY <1>3, <2>1 DEF BNext
    <3>2. \A w \in 0..MaxTime : h[w] \in Nat /\ h[w] + 0 = h[w]
      BY <1>3
    <3> QED BY <1>3, <2>1, <3>1, <3>2
  <2>2. CASE ~(cycle = Unset \/ cycle = now)
    <3>1. (a + i) + (b + j) - a - b = k
      BY <1>k
    <3>2. late' = Later(h, cycle, k)
      BY <1>1, <1>3, <1>a, <2>2, <3>1 DEF BNext
    <3>3. cycle \in Int
      BY <1>2, <2>2
    <3>4. /\ late' \in [0..MaxTime -> Nat]
          /\ \A w \in 0..MaxTime : h[w] \in Nat /\ late'[w] = h[w] + (IF cycle <= w THEN k ELSE 0)
      BY ONLY h \in [0..MaxTime -> Nat], k \in Nat, <3>2, <3>3, LaterGrows
    <3> QED BY <1>3, <2>2, <3>4
  <2> QED BY <2>1, <2>2
<1>6. ASSUME NEW w \in 0..MaxTime
      PROVE  /\ Shows(link, entered, w) \in Nat
             /\ Shows(link', entered', w) = Shows(link, entered, w) + (IF now <= w THEN k ELSE 0)
  <2>1. PICK x \in Nat, y \in Nat : x = f[w] /\ y = g[w]
    BY <1>4, <1>e
  <2>2. link'[w] = x + (IF now <= w THEN i ELSE 0) /\ entered'[w] = y + (IF now <= w THEN j ELSE 0)
    BY <1>4, <1>e, <2>1
  <2>3. CASE now <= w
    <3>1. (x + i) + (y + j) = (x + y) + k
      BY <1>k
    <3>2. Shows(link', entered', w) = (x + i) + (y + j) /\ Shows(link, entered, w) = x + y
      BY <1>3, <2>1, <2>2, <2>3 DEF Shows
    <3>3. x + y \in Nat
      OBVIOUS
    <3> QED BY <2>3, <3>1, <3>2, <3>3
  <2>4. CASE ~(now <= w)
    <3>1. (x + 0) + (y + 0) = (x + y) + 0
      OBVIOUS
    <3>2. Shows(link', entered', w) = (x + 0) + (y + 0) /\ Shows(link, entered, w) = x + y
      BY <1>3, <2>1, <2>2, <2>4 DEF Shows
    <3>3. x + y \in Nat
      OBVIOUS
    <3> QED BY <2>4, <3>1, <3>2, <3>3
  <2> QED BY <2>3, <2>4
<1>7. Shown' = Shown + k /\ (k # 0 => now' = now /\ UNCHANGED buckets)
  BY <1>1, <1>a, <1>k, <1>s DEF Shown
<1> QED BY <1>3, <1>4, <1>e, <1>5, <1>6, <1>7

\* What a step books: nothing, or the increase, in the cycle's own window.
LEMMA StepBooks ==
    ASSUME MeterInv, Next
    PROVE  \E n \in Nat, W \in Nat :
              /\ BookedMore(buckets, buckets', n, W)
              /\ measured' = measured + n
              /\ n = 0 \/ ((SampleHere \/ SampleRolls) /\ n = Delta /\ W = cycle)
<1> USE DEF store, disk, history, bounds
<1>1. buckets \in Seq(Bucket) /\ measured \in Nat
  BY DEF MeterInv, ShapeInv
<1>2. PICK bs \in Seq(Bucket) : bs = buckets
  BY <1>1
<1>3. CASE RecordSend
  <2>1. /\ buckets' \in Seq(Bucket) /\ cur' \in DOMAIN buckets'
        /\ DOMAIN buckets' = DOMAIN buckets \cup {cur'}
        /\ \A j \in DOMAIN buckets \ {cur'} : buckets'[j] = buckets[j]
        /\ \/ cur' \in DOMAIN buckets /\ buckets'[cur'].start = buckets[cur'].start
              /\ buckets'[cur'].up = buckets[cur'].up
           \/ cur' \notin DOMAIN buckets /\ buckets'[cur'].up = 0
    BY <1>3, SendWrites
  <2>2. PICK cs \in Seq(Bucket) : cs = buckets'
    BY <2>1
  <2>3. PICK c \in DOMAIN cs : c = cur'
    BY <2>1, <2>2
  <2>4. PICK W \in Nat : W = cs[c].start
    <3>1. cs[c] \in Bucket
      BY SeqShape
    <3> QED BY <3>1 DEF Bucket
  <2>5. c \in DOMAIN bs => bs[c].up + 0 = bs[c].up
    <3>1. c \in DOMAIN bs => bs[c] \in Bucket
      BY SeqShape
    <3> QED BY <3>1 DEF Bucket
  <2>6. BookedMore(bs, cs, 0, W)
    <3>1. Books(bs, cs, c, 0, W)
      BY <1>2, <2>1, <2>2, <2>3, <2>4, <2>5 DEF Books
    <3> QED BY <3>1, BookedGrows
  <2>7. measured' = measured + 0
    BY <1>1, <1>3 DEF RecordSend
  <2> QED BY <1>2, <2>2, <2>6, <2>7
<1>4. CASE SampleHere \/ SampleRolls
  <2>1. /\ buckets' \in Seq(Bucket) /\ cur' \in DOMAIN buckets'
        /\ DOMAIN buckets' = DOMAIN buckets \cup {cur'}
        /\ \A j \in DOMAIN buckets \ {cur'} : buckets'[j] = buckets[j]
        /\ buckets'[cur'].start = cycle /\ cycle \in Nat
        /\ Delta \in Nat /\ measured' = measured + Delta
        /\ \/ cur' \in DOMAIN buckets /\ buckets[cur'].start = cycle
              /\ buckets'[cur'].up = buckets[cur'].up + Delta
           \/ cur' \notin DOMAIN buckets /\ buckets'[cur'].up = Delta
    BY <1>4, SampleWrites
  <2>2. PICK cs \in Seq(Bucket) : cs = buckets'
    BY <2>1
  <2>3. PICK c \in DOMAIN cs : c = cur'
    BY <2>1, <2>2
  <2>4. PICK n \in Nat, W \in Nat : n = Delta /\ W = cycle
    BY <2>1
  <2>5. BookedMore(bs, cs, n, W)
    <3>1. Books(bs, cs, c, n, W)
      BY <1>2, <2>1, <2>2, <2>3, <2>4 DEF Books
    <3> QED BY <3>1, BookedGrows
  <2>6. measured' = measured + n
    BY <2>1, <2>4
  <2> QED BY <1>2, <1>4, <2>2, <2>4, <2>5, <2>6
<1>5. CASE ~(RecordSend \/ SampleHere \/ SampleRolls)
  <2>1. buckets' = buckets /\ measured' = measured + 0
    <3>1. UNCHANGED <<buckets, measured>>
      BY <1>5 DEF Next, Sample, Start, Tick, Carry, SetTotals, CycleBegins, CycleEndsUnsampled, SampleFails, Close, Exit,
                  Kill, Off, History, HistoryLocks, HistoryReads, HistoryAnswers
    <3> QED BY <1>1, <3>1
  <2>2. TotalBy(bs) \in Nat /\ \A w \in Nat : BookedBy(bs, w) \in Nat
    BY BookedType
  <2>3. BookedMore(bs, bs, 0, 0)
    BY <2>2 DEF BookedMore
  <2> QED BY <1>2, <2>1, <2>2, <2>3
<1> QED BY <1>3, <1>4, <1>5

\* The increase the next sample would book: no more than was carried or entered comes in, and what a
\* sample booked goes out.
LEMMA StepDelta ==
    ASSUME MeterInv, Next
    PROVE  /\ Delta \in Nat /\ Delta' \in Nat
           /\ SampleHere \/ SampleRolls => Delta' = 0
           /\ \/ Delta' <= Delta
              \/ \E k \in Nat : Shown' = Shown + k /\ Delta' <= Delta + k
<1> USE DEF store, disk, history, bounds
<1>1. tracked \in Nat /\ last \in {Unset} \cup Nat /\ carried \in Nat /\ raised \in Nat
  BY MeterNumbers DEF MeterInv, TypeOK
<1>2. PICK t \in Nat, l \in Int : t = tracked /\ l = last /\ (l = Unset \/ l \in Nat)
  BY <1>1 DEF Unset
<1>d. PICK d \in Nat : d = IF l # Unset /\ t > l THEN t - l ELSE 0
  <2>1. t > l => t - l \in Nat
    OBVIOUS
  <2>2. (IF l # Unset /\ t > l THEN t - l ELSE 0) \in Nat
    BY ONLY <2>1
  <2> QED BY ONLY <2>2
<1>3. d = Delta
  BY <1>2, <1>d DEF Delta
<1>4. CASE UNCHANGED <<tracked, last>>
  <2>1. Delta' = d
    BY <1>3, <1>4 DEF Delta
  <2>2. SampleHere \/ SampleRolls => l = t
    BY <1>2, <1>4 DEF SampleHere, SampleRolls, Sampled
  <2>3. l = t => d = 0
    BY <1>d
  <2> QED BY <1>3, <2>1, <2>2, <2>3
<1>5. CASE Carry
  <2>1. tracked' = t + 1 /\ last' = l /\ Shown' = Shown + 1
    <3>1. PICK c \in Nat, r \in Nat : c = carried /\ r = raised
      BY <1>1
    <3>2. (c + 1) + r = (c + r) + 1
      OBVIOUS
    <3> QED BY <1>2, <1>5, <3>1, <3>2 DEF Carry, Shown
  <2>2. PICK e \in Nat : e = IF l # Unset /\ t + 1 > l THEN t + 1 - l ELSE 0
    <3>1. t + 1 > l => t + 1 - l \in Nat
      OBVIOUS
    <3>2. (IF l # Unset /\ t + 1 > l THEN t + 1 - l ELSE 0) \in Nat
      BY ONLY <3>1
    <3> QED BY ONLY <3>2
  <2>3. e <= d + 1
    BY <1>d, <2>2
  <2>4. Delta' = e
    BY <2>1, <2>2 DEF Delta
  <2> QED BY <1>3, <1>5, <2>1, <2>3, <2>4 DEF SampleHere, SampleRolls, Sampled, Carry
<1>s. CASE SetTotals
  <2>1. PICK u \in Nat, c \in Nat, r \in Nat : u = tracked' /\ c = carried /\ r = raised
    BY <1>1, <1>s, MeteringAssumption DEF SetTotals
  <2>2. last' = l /\ carried' = c /\ raised' = r + IF u > t THEN u - t ELSE 0
    BY <1>2, <1>s, <2>1 DEF SetTotals
  <2>3. PICK e \in Nat : e = IF l # Unset /\ u > l THEN u - l ELSE 0
    <3>1. u > l => u - l \in Nat
      OBVIOUS
    <3>2. (IF l # Unset /\ u > l THEN u - l ELSE 0) \in Nat
      BY ONLY <3>1
    <3> QED BY ONLY <3>2
  <2>4. Delta' = e
    BY <2>1, <2>2, <2>3 DEF Delta
  <2>5. CASE u > t
    <3>1. PICK k \in Nat : k = u - t
      BY <2>5
    <3>2. e <= d + k
      BY <1>d, <2>3, <2>5, <3>1
    <3>3. c + (r + k) = (c + r) + k
      OBVIOUS
    <3>4. Shown' = Shown + k
      BY <2>1, <2>2, <2>5, <3>1, <3>3 DEF Shown
    <3> QED BY <1>3, <1>s, <2>4, <3>2, <3>4 DEF SampleHere, SampleRolls, Sampled, SetTotals, history
  <2>6. CASE ~(u > t)
    <3>1. e <= d
      BY <1>d, <2>3, <2>6
    <3> QED BY <1>3, <1>s, <2>4, <3>1 DEF SampleHere, SampleRolls, Sampled, SetTotals
  <2> QED BY <2>5, <2>6
<1>6. CASE last' = Unset \/ last' = tracked'
  <2>1. last' = Unset \/ last' \in Nat
    BY <1>1, <1>6 DEF Next, Start, Tick, Carry, SetTotals, CycleBegins, CycleEndsUnsampled, RecordSend, Sample, SampleHere,
           SampleRolls, SampleFails, Sampled, Close, Exit, Kill, Off, History, HistoryLocks, HistoryReads,
           HistoryAnswers
  <2>2. tracked' \in Nat
    BY <1>1, MeteringAssumption DEF Next, Start, Tick, Carry, SetTotals, CycleBegins, CycleEndsUnsampled, RecordSend, Sample, SampleHere,
           SampleRolls, SampleFails, Sampled, Close, Exit, Kill, Off, History, HistoryLocks, HistoryReads,
           HistoryAnswers
  <2>3. PICK u \in Nat, m \in Int : u = tracked' /\ m = last' /\ (m = Unset \/ m \in Nat)
    BY <2>1, <2>2 DEF Unset
  <2>4. ~(m # Unset /\ u > m)
    BY <1>6, <2>3
  <2>5. Delta' = 0
    BY <2>3, <2>4 DEF Delta
  <2> QED BY <1>3, <2>5
<1>7. UNCHANGED <<tracked, last>> \/ Carry \/ SetTotals \/ last' = Unset \/ last' = tracked'
  BY DEF Next, Start, Tick, SetTotals, CycleBegins, CycleEndsUnsampled, RecordSend, Sample, SampleHere,
         SampleRolls, SampleFails, Sampled, Close, Exit, Kill, Off, History, HistoryLocks, HistoryReads,
         HistoryAnswers
<1> QED BY <1>4, <1>5, <1>s, <1>6, <1>7

\* A step of the clock and of the engine's cycle.
LEMMA StepCycle ==
    ASSUME MeterInv, Next
    PROVE  /\ now' \in {now, now + 1}
           /\ cycle' \in {cycle, Unset} \/ (cycle' = now /\ now' = now)
           /\ SampleHere \/ SampleRolls => cycle # Unset /\ cycle' = Unset
           /\ SampleFails => UNCHANGED <<buckets, measured>>
  BY DEF Next, Start, Tick, Carry, SetTotals, CycleBegins, CycleEndsUnsampled, RecordSend, Sample, SampleHere,
         SampleRolls, SampleFails, Sampled, Close, Exit, Kill, Off, History, HistoryLocks, HistoryReads,
         HistoryAnswers, store, disk, history, bounds

\* By the window it is all buckets were begun.
LEMMA AllBegun == MeterInv => BookedBy(buckets, now) = TotalBy(buckets)
<1> SUFFICES ASSUME MeterInv PROVE BookedBy(buckets, now) = TotalBy(buckets)
  OBVIOUS
<1>1. \A i \in DOMAIN buckets : buckets[i].start <= now
  BY DEF MeterInv, TypeOK
<1>2. {i \in DOMAIN buckets : buckets[i].start <= now} = DOMAIN buckets
  BY <1>1
<1> QED BY <1>2 DEF BookedBy, TotalBy

\* Every step keeps the totals.
LEMMA LinkNext == MeterInv /\ LinkInv /\ BNext => LinkInv'
<1> SUFFICES ASSUME MeterInv, LinkInv, BNext PROVE LinkInv'
  OBVIOUS
<1>1. Next
  BY DEF BNext
<1>2. PICK k \in Nat :
         /\ Shown' = Shown + k /\ (k # 0 => now' = now /\ UNCHANGED buckets)
         /\ {link', entered', late'} \subseteq [0..MaxTime -> Nat]
         /\ \A w \in 0..MaxTime :
               Shows(link', entered', w) = Shows(link, entered, w) + (IF now <= w THEN k ELSE 0)
  BY StepCarries
<1>3. PICK n \in Nat, W \in Nat :
         /\ BookedMore(buckets, buckets', n, W) /\ measured' = measured + n
         /\ n = 0 \/ ((SampleHere \/ SampleRolls) /\ n = Delta /\ W = cycle)
  BY <1>1, StepBooks
<1>4. PICK c \in Nat, m \in Nat, a \in Nat, T \in Nat : c = Shown /\ m = measured /\ a = now /\ T = MaxTime
  BY MeterNumbers DEF Shown
<1>5. \A w \in now'..MaxTime : Shows(link', entered', w) = Shown'
  <2>1. now' = a \/ now' = a + 1
    BY <1>1, <1>4, StepCycle
  <2>2. \A w \in a..T : Shows(link, entered, w) = c
    BY <1>4 DEF LinkInv
  <2>3. \A w \in 0..T : Shows(link', entered', w) = Shows(link, entered, w) + (IF a <= w THEN k ELSE 0)
    BY <1>2, <1>4
  <2>4. \A w \in a..T : Shows(link', entered', w) = c + k
    BY <2>2, <2>3
  <2>5. now'..MaxTime \subseteq a..T
    BY <1>4, <2>1
  <2> QED BY <1>2, <1>4, <2>4, <2>5
<1>6. TotalBy(buckets') = measured'
  BY <1>3 DEF BookedMore, LinkInv
<1>7. measured' + Delta' <= Shown'
  <2>1. PICK d \in Nat, e \in Nat : d = Delta /\ e = Delta'
    BY <1>1, StepDelta
  <2>2. m + d <= c
    BY <1>4, <2>1 DEF LinkInv
  <2>3. e <= d + k
    <3>1. CASE Delta' <= Delta
      BY <2>1, <3>1
    <3>2. CASE \E x \in Nat : Shown' = Shown + x /\ Delta' <= Delta + x
      <4>1. PICK x \in Nat : Shown' = Shown + x /\ Delta' <= Delta + x
        BY <3>2
      <4>2. c + k = c + x /\ e <= d + x
        BY <1>2, <1>4, <2>1, <4>1
      <4> QED BY ONLY <4>2, k \in Nat, c \in Nat, d \in Nat, e \in Nat, x \in Nat
    <3> QED BY <1>1, <3>1, <3>2, StepDelta
  <2>4. n = 0 \/ (n = d /\ e = 0)
    BY <1>1, <1>3, <2>1, StepDelta
  <2>5. m + n + e <= c + k
    BY <2>2, <2>3, <2>4
  <2> QED BY <1>2, <1>3, <1>4, <2>1, <2>5
<1> QED BY <1>2, <1>5, <1>6, <1>7 DEF LinkInv

\* In the window it is, the sums are those of all traffic.
NowDone ==
    /\ BookedBy(buckets, now) <= Shows(link, entered, now) + late[now]
    /\ BookedBy(buckets, now) + Delta <= Shows(link, entered, now) + late[now]

\* So nothing is billed early there.
LEMMA NowIsDone == MeterInv /\ LinkInv => NowDone
<1> SUFFICES ASSUME MeterInv, LinkInv PROVE NowDone
  OBVIOUS
<1>1. /\ measured + Delta <= Shown /\ Shows(link, entered, now) = Shown /\ BookedBy(buckets, now) = measured
  BY AllBegun, MeterNumbers DEF LinkInv
<1>2. Delta \in Nat
  <2>1. PICK t \in Nat, l \in Int : t = tracked /\ l = last
    BY MeterNumbers
  <2>2. t > l => t - l \in Nat
    OBVIOUS
  <2> QED BY <2>1, <2>2 DEF Delta
<1>3. late[now] \in Nat
  BY MeteringAssumption DEF MeterInv, TypeOK, LinkInv
<1>4. PICK m \in Nat, d \in Nat, c \in Nat, x \in Nat :
         m = measured /\ d = Delta /\ c = Shown /\ x = late[now]
  <2>1. PICK a \in Nat, b \in Nat : a = carried /\ b = raised
    BY MeterNumbers
  <2>2. Shown \in Nat
    BY <2>1 DEF Shown
  <2> QED BY <1>2, <1>3, <2>2, MeterNumbers
<1>5. m + d <= c
  BY <1>1, <1>4
<1>6. m <= c + x /\ m + d <= c + x
  BY ONLY <1>5, m \in Nat, d \in Nat, c \in Nat, x \in Nat
<1> QED BY <1>1, <1>4, <1>6 DEF NowDone

\* Nor after a step.
LEMMA NowStaysDone == MeterInv' /\ LinkInv' => NowDone'
  BY NowIsDone, PTL

\* Every step keeps each window's account.
LEMMA EarlyNext == MeterInv /\ LinkInv /\ EarlyInv /\ BNext => EarlyInv'
<1> SUFFICES ASSUME MeterInv, LinkInv, EarlyInv, BNext PROVE EarlyInv'
  OBVIOUS
<1>1. Next /\ MeterInv' /\ LinkInv'
  BY MeterNext, LinkNext DEF BNext
<1>2. PICK k \in Nat :
         /\ Shown' = Shown + k /\ (k # 0 => now' = now /\ UNCHANGED buckets)
         /\ \A w \in 0..MaxTime :
               /\ {Shows(link, entered, w), late[w]} \subseteq Nat
               /\ Shows(link', entered', w) = Shows(link, entered, w) + (IF now <= w THEN k ELSE 0)
               /\ late'[w] = late[w]
                     + (IF cycle # Unset /\ cycle # now /\ cycle <= w THEN k ELSE 0)
  BY StepCarries
<1>3. PICK n \in Nat, W \in Nat :
         /\ BookedMore(buckets, buckets', n, W) /\ measured' = measured + n
         /\ n = 0 \/ ((SampleHere \/ SampleRolls) /\ n = Delta /\ W = cycle)
  BY <1>1, StepBooks
<1>4. PICK a \in Nat, b \in Nat, T \in Nat, y \in Int :
         a = now /\ b = now' /\ T = MaxTime /\ y = cycle /\ a <= T /\ b \in {a, a + 1}
  BY <1>1, StepCycle, MeterNumbers
<1>5. PICK d \in Nat, e \in Nat : d = Delta /\ e = Delta'
  BY <1>1, StepDelta
<1>6. e <= d + k
  <2>1. PICK c \in Nat : c = Shown
    BY MeterNumbers DEF Shown
  <2>2. CASE Delta' <= Delta
    BY <1>5, <2>2
  <2>3. CASE \E x \in Nat : Shown' = Shown + x /\ Delta' <= Delta + x
    <3>1. PICK x \in Nat : Shown' = Shown + x /\ Delta' <= Delta + x
      BY <2>3
    <3>2. c + k = c + x /\ e <= d + x
      BY <1>2, <1>5, <2>1, <3>1
    <3> QED BY ONLY <3>2, k \in Nat, c \in Nat, d \in Nat, e \in Nat, x \in Nat
  <2> QED BY <1>1, <2>2, <2>3, StepDelta
<1>7. ASSUME NEW w \in 0..now'
      PROVE  /\ BookedBy(buckets', w) <= Shows(link', entered', w) + late'[w]
             /\ cycle' # Unset /\ cycle' <= w =>
                   BookedBy(buckets', w) + Delta' <= Shows(link', entered', w) + late'[w]
  <2>1. CASE w = now'
    <3>1. NowDone'
      BY <1>1, NowStaysDone
    <3> QED BY <2>1, <3>1 DEF NowDone
  <2>2. CASE w # now'
    <3>1. w \in Nat /\ w < b /\ w <= a /\ w <= T
      BY <1>4, <2>2
    <3>2. w \in 0..now /\ w \in 0..MaxTime
      BY <1>4, <3>1
    <3>3. PICK p \in Nat, x \in Nat, z \in Nat :
             p = BookedBy(buckets, w) /\ x = Shows(link, entered, w) /\ z = late[w]
      BY <1>2, <1>3, <3>1, <3>2 DEF BookedMore
    <3>4. /\ p <= x + z /\ (y # Unset /\ y <= w => p + d <= x + z)
      BY <1>4, <1>5, <3>2, <3>3 DEF EarlyInv
    <3>5. PICK q \in Nat : q = BookedBy(buckets', w) /\ q = p + (IF W <= w THEN n ELSE 0)
      BY <1>3, <3>1, <3>3 DEF BookedMore
    <3>6. /\ Shows(link', entered', w) = x + (IF a <= w THEN k ELSE 0)
          /\ late'[w] = z + (IF y # Unset /\ y # a /\ y <= w THEN k ELSE 0)
      BY <1>2, <1>4, <3>2, <3>3
    <3>7. PICK u \in Nat, v \in Nat :
             /\ u = Shows(link', entered', w) /\ u = x + (IF a <= w THEN k ELSE 0)
             /\ v = late'[w] /\ v = z + (IF y # Unset /\ y # a /\ y <= w THEN k ELSE 0)
      BY <3>6
    <3>8. n = 0 \/ (n = d /\ W = y /\ y # Unset)
      BY <1>1, <1>3, <1>4, <1>5, StepCycle
    <3>9. u >= x /\ v >= z
      BY <3>7
    <3>10. q <= u + v
      BY <3>4, <3>5, <3>8, <3>9
    <3>11. ASSUME cycle' # Unset, cycle' <= w PROVE q + e <= u + v
      <4>1. cycle' = y /\ y # Unset /\ y <= w
        BY <1>1, <1>4, <3>1, <3>11, StepCycle
      <4>2. q = p
        BY <1>1, <1>3, <3>5, <3>11, StepCycle
      <4>3. u + v >= x + z + k
        BY <1>2, <1>4, <3>1, <3>7, <4>1
      <4> QED BY <1>6, <3>4, <4>1, <4>2, <4>3
    <3> QED BY <1>5, <3>5, <3>7, <3>10, <3>11
  <2> QED BY <2>1, <2>2
<1> QED BY <1>7 DEF EarlyInv

\* With the link's own count beside it, the store is the store: what holds of Spec holds
\* of BSpec.
THEOREM BillingMeters == BSpec => Spec
<1>1. BInit => Init
  BY DEF BInit
<1>2. [BNext]_bvars => [Next]_vars
  BY DEF BNext, bvars, vars
<1> QED BY <1>1, <1>2, PTL DEF BSpec, Spec

\* But for the bytes the operator set the totals up by, a byte is never billed before it
\* was carried, nor one that was not, whatever resets, kills, failed flushes and cycles
\* without a sample there are (Store.Sample, rollTo).
THEOREM BillsNothingEarly == BSpec => []NeverBilledEarly
<1>1. BInit => MeterInv /\ LinkInv /\ EarlyInv
  <2> SUFFICES ASSUME BInit PROVE LinkInv /\ EarlyInv
    BY MeterInit DEF BInit
  <2>1. MaxTime \in Nat /\ link = [w \in 0..MaxTime |-> 0] /\ entered = link /\ late = link /\ now = 0 /\ cycle = Unset
        /\ buckets = <<>> /\ Shown = 0 /\ measured = 0 /\ Delta = 0
    BY MeteringAssumption DEF BInit, Init, Delta, Shown
  <2>2. ASSUME NEW w \in 0..MaxTime PROVE link[w] = 0
    BY <2>1
  <2>3. TotalBy(buckets) = 0 /\ \A w : BookedBy(buckets, w) = 0
    <3>1. DOMAIN buckets = {} /\ \A w : {i \in DOMAIN buckets : buckets[i].start <= w} = {}
      BY <2>1
    <3> QED BY <3>1, N!FoldEmpty DEF TotalBy, BookedBy
  <2>4. {link, entered, late} \subseteq [0..MaxTime -> Nat]
    BY <2>1
  <2>5. ASSUME NEW w \in 0..MaxTime PROVE Shows(link, entered, w) = 0 /\ late[w] = 0
    <3>1. entered = link /\ late = link /\ 0 + 0 = 0
      BY <2>1
    <3> QED BY <2>2, <3>1 DEF Shows
  <2>6. \A w \in 0..now : w \in 0..MaxTime
    BY <2>1
  <2> QED BY <2>1, <2>3, <2>4, <2>5, <2>6 DEF LinkInv, EarlyInv
<1>2. MeterInv /\ LinkInv /\ EarlyInv /\ [BNext]_bvars => MeterInv' /\ LinkInv' /\ EarlyInv'
  <2>1. ASSUME MeterInv, LinkInv, EarlyInv, UNCHANGED bvars PROVE MeterInv' /\ LinkInv' /\ EarlyInv'
    <3>1. UNCHANGED vars /\ link' = link /\ entered' = entered /\ late' = late
      BY <2>1 DEF bvars
    <3>2. now' = now /\ Shown' = Shown /\ measured' = measured /\ buckets' = buckets
          /\ cycle' = cycle /\ Delta' = Delta
      BY <3>1 DEF vars, Delta, Shown
    <3> QED BY <2>1, <3>1, <3>2, MeterNext DEF LinkInv, EarlyInv
  <2>2. ASSUME MeterInv, LinkInv, EarlyInv, BNext PROVE MeterInv' /\ LinkInv' /\ EarlyInv'
    BY <2>2, MeterNext, LinkNext, EarlyNext DEF BNext
  <2> QED BY <2>1, <2>2
<1>3. MeterInv /\ LinkInv /\ EarlyInv => NeverBilledEarly
  <2> SUFFICES ASSUME MeterInv, LinkInv, EarlyInv PROVE NeverBilledEarly
    OBVIOUS
  <2>1. measured <= Shown
    <3>1. measured + Delta <= Shown /\ measured \in Nat /\ Shown \in Nat
      BY MeterNumbers DEF LinkInv, Shown
    <3>2. Delta \in Nat
      <4>1. PICK t \in Nat, l \in Int : t = tracked /\ l = last
        BY MeterNumbers
      <4>2. t > l => t - l \in Nat
        OBVIOUS
      <4> QED BY <4>1, <4>2 DEF Delta
    <3>3. PICK m \in Nat, d \in Nat, c \in Nat : m = measured /\ d = Delta /\ c = Shown
      BY <3>1, <3>2
    <3>4. m + d <= c
      BY <3>1, <3>3
    <3>5. m <= c
      BY ONLY <3>4, m \in Nat, d \in Nat, c \in Nat
    <3> QED BY <3>3, <3>5
  <2>2. ASSUME NEW w \in 0..now
        PROVE  SumUp({i \in DOMAIN buckets : Begun(i) <= w})
                  <= link[w] + entered[w] + late[w]
    <3>1. SumUp({i \in DOMAIN buckets : Begun(i) <= w}) = BookedBy(buckets, w)
      BY BillingSums DEF BookedBy, Begun
    <3> QED BY <3>1 DEF EarlyInv, Shows
  <2> QED BY <2>1, <2>2 DEF NeverBilledEarly, Shown
<1> QED BY <1>1, <1>2, <1>3, PTL DEF BSpec

=============================================================================
