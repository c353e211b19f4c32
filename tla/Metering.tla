------------------------------ MODULE Metering ------------------------------
(***************************************************************************)
(* metering.Store: the current bucket, its flush into the month's file,    *)
(* the sends that workers record, the sample at the end of a cycle, Close, *)
(* and History, which takes the current bucket under the lock and reads    *)
(* the file and the bucket after it, without.                              *)
(*                                                                         *)
(* Time is counted in five-minute windows of one month; the two directions *)
(* of a counter behave alike and are one; bytes are units.                 *)
(***************************************************************************)
EXTENDS Integers, Sequences, FiniteSets, SequencesExt

CONSTANTS MaxTime,      \* bound: windows
          MaxBytes,     \* bound: bytes carried
          MaxSent,      \* bound: bytes sent
          MaxFaults,    \* bound: failed flushes, kills, cycles cut short, totals set
          MaxStarts     \* bound on starts of the process

ASSUME MeteringAssumption == {MaxTime, MaxBytes, MaxSent, MaxFaults, MaxStarts} \subseteq Nat

VARIABLES up,       \* process: "off", "on", or "closed" after store.Close
          now,      \* the window it is
          tracked,  \* the lifetime total the engine would pass to Sample
          cycle,    \* the engine's cycle: none, or the window it began in
          buckets,  \* every *Bucket made, with its contents; append-only
          cur,      \* s.cur: an index of buckets, or 0
          last,     \* s.lastUp, or Unset (haveLast)
          file,     \* lines of <month>.5min.jsonl
          open,     \* the last line lacks its newline
          reader,   \* the History call in flight
          carried, fakes,   \* history: bytes carried, bytes sent
          raised,           \* history: bytes requests set the totals up by
          measured,         \* history: bytes Sample took into account
          lost,             \* history: bytes of buckets that died in memory
          faults, starts    \* history

store == <<buckets, cur, last>>
disk == <<file, open>>
history == <<carried, fakes, raised, measured, lost>>
bounds == <<faults, starts>>
vars == <<up, now, tracked, cycle, buckets, cur, last, file, open, reader, carried, fakes,
          raised, measured, lost, faults, starts>>

Unset == -1

NoReader == [at |-> "none"]

Nothing == [up |-> 0, fake |-> 0]

Plus(a, b) == [up |-> a.up + b.up, fake |-> a.fake + b.fake]

Init ==
    /\ up = "off" /\ now = 0 /\ tracked = 0 /\ cycle = Unset
    /\ buckets = <<>> /\ cur = 0 /\ last = Unset
    /\ file = <<>> /\ open = FALSE
    /\ reader = NoReader
    /\ carried = 0 /\ fakes = 0 /\ raised = 0 /\ measured = 0 /\ lost = Nothing
    /\ faults = 0 /\ starts = 0

Fault == faults < MaxFaults /\ faults' = faults + 1 /\ UNCHANGED starts

-----------------------------------------------------------------------------
(* Outside the store.                                                      *)

Start ==
    /\ up = "off" /\ starts < MaxStarts
    /\ up' = "on"
    /\ starts' = starts + 1
    /\ UNCHANGED <<now, tracked, cycle, store, disk, reader, history, faults>>

Tick ==
    /\ now < MaxTime
    /\ now' = now + 1
    /\ UNCHANGED <<up, tracked, cycle, store, disk, reader, history, bounds>>

Carry ==
    /\ carried < MaxBytes
    /\ carried' = carried + 1
    /\ tracked' = tracked + 1
    /\ UNCHANGED <<up, now, cycle, store, disk, reader, fakes, raised, measured, lost, bounds>>

\* The dashboard resets the lifetime totals or sets them to any amount; or another
\* interface is selected, whose counters are larger.
SetTotals ==
    /\ Fault
    /\ \E t \in 0..MaxBytes :
          /\ t # tracked
          /\ tracked' = t
          /\ raised' = raised + IF t > tracked THEN t - tracked ELSE 0
    /\ UNCHANGED <<up, now, cycle, store, disk, reader, carried, fakes, measured, lost>>

\* runCycle reads the clock once, at its start.
CycleBegins ==
    /\ up = "on" /\ cycle = Unset
    /\ cycle' = now
    /\ UNCHANGED <<up, now, tracked, store, disk, reader, history, bounds>>

\* A cycle that panics, or cannot read the counters, ends without a sample.
CycleEndsUnsampled ==
    /\ cycle # Unset
    /\ Fault
    /\ cycle' = Unset
    /\ UNCHANGED <<up, now, tracked, store, disk, reader, history>>

-----------------------------------------------------------------------------
(* The store.                                                              *)

NewBucket(w) == [start |-> w, up |-> 0, fake |-> 0]

\* An upload worker; the first send may come before the first sample.
RecordSend ==
    /\ cycle # Unset
    /\ fakes < MaxSent
    /\ fakes' = fakes + 1
    /\ LET made == IF cur = 0 THEN Append(buckets, NewBucket(now)) ELSE buckets
           i == IF cur = 0 THEN Len(made) ELSE cur
       IN cur' = i /\ buckets' = [made EXCEPT ![i].fake = @ + 1]
    /\ UNCHANGED <<up, now, tracked, cycle, last, disk, reader, carried, raised, measured,
                   lost, bounds>>

Line(i) == [id |-> i, whole |-> TRUE]

Garbled == [id |-> 0, whole |-> FALSE]

\* Appended with its newline; after a line without one it makes the two one
\* line that does not parse, and its bytes are gone.
Flushed(i) ==
    /\ file' = IF open THEN [file EXCEPT ![Len(file)] = Garbled] ELSE Append(file, Line(i))
    /\ open' = FALSE
    /\ lost' = IF open THEN Plus(lost, buckets[i]) ELSE lost

\* The file cannot be opened or, on a full disk, a prefix of the line is written.
NotFlushed ==
    /\ Fault
    /\ \/ UNCHANGED disk
       \/ file' = (IF open THEN file ELSE Append(file, Garbled)) /\ open' = TRUE

\* The increase since the last sample; a total that fell counts for nothing.
Delta == IF last # Unset /\ tracked > last THEN tracked - last ELSE 0

\* What Sample adds once the current bucket is i of bs.
Sampled(i, bs) ==
    /\ cur' = i
    /\ buckets' = [bs EXCEPT ![i].up = @ + Delta]
    /\ measured' = measured + Delta
    /\ last' = tracked

InWindow(w) == cur # 0 /\ buckets[cur].start = w

SampleHere ==
    /\ cycle # Unset
    /\ cur = 0 \/ InWindow(cycle)
    /\ IF cur = 0 THEN Sampled(Len(buckets) + 1, Append(buckets, NewBucket(cycle)))
       ELSE Sampled(cur, buckets)
    /\ cycle' = Unset
    /\ UNCHANGED <<up, now, tracked, disk, reader, carried, fakes, raised, lost, bounds>>

\* Mutant: a failed flush does not keep the bucket.
SampleRollsAnyway ==
    /\ cycle # Unset
    /\ cur # 0 /\ ~InWindow(cycle)
    /\ \/ Flushed(cur) /\ UNCHANGED bounds
       \/ NotFlushed /\ UNCHANGED lost
    /\ Sampled(Len(buckets) + 1, Append(buckets, NewBucket(cycle)))
    /\ cycle' = Unset
    /\ UNCHANGED <<up, now, tracked, reader, carried, fakes, raised>>

\* Mutant: the increase is added before the roll-over.
SampleAddsFirst ==
    /\ cycle # Unset
    /\ cur # 0 /\ ~InWindow(cycle)
    /\ Flushed(cur)
    /\ Sampled(cur, buckets)
    /\ cycle' = Unset
    /\ UNCHANGED <<up, now, tracked, reader, carried, fakes, raised, bounds>>

\* rollTo: the finished bucket is written before the next one is made.
SampleRolls ==
    /\ cycle # Unset
    /\ cur # 0 /\ ~InWindow(cycle)
    /\ Flushed(cur)
    /\ Sampled(Len(buckets) + 1, Append(buckets, NewBucket(cycle)))
    /\ cycle' = Unset
    /\ UNCHANGED <<up, now, tracked, reader, carried, fakes, raised, bounds>>

\* The bucket stays current and the baseline where it was: the next cycle tries
\* again.
SampleFails ==
    /\ cycle # Unset
    /\ cur # 0 /\ ~InWindow(cycle)
    /\ NotFlushed
    /\ cycle' = Unset
    /\ UNCHANGED <<up, now, tracked, store, reader, history>>

\* store.Close, in main after the loop; the bucket is dropped either way.
Close ==
    /\ up = "on" /\ cycle = Unset
    /\ up' = "closed"
    /\ cur' = 0
    /\ \/ cur = 0 /\ UNCHANGED <<disk, lost, bounds>>
       \/ cur # 0 /\ Flushed(cur) /\ UNCHANGED bounds
       \/ cur # 0 /\ NotFlushed /\ lost' = Plus(lost, buckets[cur])
    /\ UNCHANGED <<now, tracked, cycle, buckets, last, reader, carried, fakes, raised,
                   measured>>

Off ==
    /\ up' = "off"
    /\ cycle' = Unset /\ cur' = 0 /\ last' = Unset
    /\ reader' = NoReader

Exit ==
    /\ up = "closed"
    /\ Off
    /\ UNCHANGED <<now, tracked, buckets, disk, history, bounds>>

\* Killed, perhaps within the write of a line.
Kill ==
    /\ up = "on"
    /\ Fault
    /\ Off
    /\ lost' = IF cur = 0 THEN lost ELSE Plus(lost, buckets[cur])
    /\ \/ UNCHANGED disk
       \/ cur # 0 /\ cycle # Unset /\ ~InWindow(cycle)
             /\ file' = (IF open THEN file ELSE Append(file, Garbled)) /\ open' = TRUE
    /\ UNCHANGED <<now, tracked, buckets, carried, fakes, raised, measured>>

-----------------------------------------------------------------------------
(* History, called by the dashboard for the whole month.                   *)

\* The buckets a reader is owed.
Recorded == ({file[i].id : i \in DOMAIN file} \cup {cur}) \ {0}

\* cur := s.cur, under the lock: a pointer.
HistoryLocks ==
    /\ up \in {"on", "closed"} /\ reader = NoReader
    /\ reader' = [at |-> "read", cur |-> cur,
                  due |-> Recorded]
    /\ UNCHANGED <<up, now, tracked, cycle, store, disk, history, bounds>>

\* Mutant: the file is read first, the current bucket is taken after it.
HistoryTakesLast ==
    /\ reader.at = "read"
    /\ reader' = IF "lines" \in DOMAIN reader
                 THEN [at |-> "joined", due |-> reader.due,
                       answer |-> reader.lines \o (IF cur = 0 THEN <<>> ELSE <<cur>>)]
                 ELSE [at |-> "read", due |-> reader.due,
                       lines |-> [i \in DOMAIN file |-> file[i].id]]
    /\ UNCHANGED <<up, now, tracked, cycle, store, disk, history, bounds>>

\* readBuckets: one line that does not parse fails the whole month.
HistoryReads ==
    /\ reader.at = "read"
    /\ reader' = IF \E i \in DOMAIN file : ~file[i].whole
                 THEN [at |-> "failed"]
                 ELSE [at |-> "joined", due |-> reader.due,
                       answer |-> [i \in DOMAIN file |-> file[i].id]
                                    \o (IF reader.cur = 0 THEN <<>> ELSE <<reader.cur>>)]
    /\ UNCHANGED <<up, now, tracked, cycle, store, disk, history, bounds>>

HistoryAnswers ==
    /\ reader.at \in {"joined", "failed"}
    /\ reader' = NoReader
    /\ UNCHANGED <<up, now, tracked, cycle, store, disk, history, bounds>>

Sample == SampleHere \/ SampleRolls \/ SampleFails

History == HistoryLocks \/ HistoryReads \/ HistoryAnswers

Next ==
    \/ Start \/ Tick \/ Carry \/ SetTotals \/ CycleBegins \/ CycleEndsUnsampled
    \/ RecordSend \/ Sample \/ Close \/ Exit \/ Kill
    \/ History

Spec == Init /\ [][Next]_vars

-----------------------------------------------------------------------------
(* Properties.                                                             *)

SumOf(S) == FoldFunctionOnSet(Plus, Nothing, buckets, S)

OnFile == {file[i].id : i \in {j \in DOMAIN file : file[j].whole}}

\* Every variable has its type; the current bucket is not on the file yet, and
\* no bucket is written twice.
TypeOK ==
    /\ up \in {"off", "on", "closed"} /\ now \in 0..MaxTime
    /\ tracked \in 0..(carried + raised) /\ last \in {Unset} \cup 0..(carried + raised)
    /\ cycle \in {Unset} \cup 0..now
    /\ \A i \in DOMAIN buckets : buckets[i].start \in 0..now
    /\ cur \in {0} \cup DOMAIN buckets
    /\ cur \notin OnFile \/ cur = 0
    /\ \A i, j \in DOMAIN file : file[i].whole /\ file[i].id = file[j].id => i = j
    /\ reader.at \in {"none", "read", "joined", "failed"}

\* No byte that was sampled or sent is dropped or counted twice: it is in the
\* file or in the current bucket, unless its bucket died with the process, in a
\* failed Close, or was appended to a torn line.  A failed flush, of which the
\* next cycle knows nothing, loses none.
BytesConserved ==
    Plus(Plus(SumOf(OnFile), lost), SumOf({cur} \ {0})) = [up |-> measured, fake |-> fakes]

\* An answer holds every bucket that was recorded when the call began: a flush
\* between the lock and the read cannot hide the bucket it moves to the file.
HistoryMissesNothing ==
    reader.at = "joined" => reader.due \subseteq ToSet(reader.answer)
=============================================================================
