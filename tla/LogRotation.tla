---------------------------- MODULE LogRotation ----------------------------
(***************************************************************************)
(* The rotating log file.  slog hands one record at a time to              *)
(* io.MultiWriter(rotatingWriter, stderr); a record that would exceed      *)
(* maxSize first closes the file, shifts the backups and opens a new one,  *)
(* system call by system call.  Any call may fail, and the process may be  *)
(* killed and started again between any two of them.                       *)
(***************************************************************************)
EXTENDS Integers, Sequences, Functions

CONSTANTS MaxSize,      \* rotatingWriter.maxSize, 0 for no rotation
          Backups,      \* values rotatingWriter.maxBackups may have
          Lengths,      \* lengths a record can have
          MaxLines,     \* bound: records
          MaxKills,     \* bound: kills
          MaxFaults     \* bound: system calls that fail

LogAssumption ==
    /\ {MaxSize, MaxLines, MaxKills, MaxFaults} \cup Backups \subseteq Nat
    /\ Lengths \subseteq Nat \ {0}

VARIABLES maxBackups,
          gen,      \* directory: 0 is path, i is path.i; its domain are the files there are
          open,     \* w.f is an open file
          size,     \* w.size
          step,     \* where the process is
          at,       \* the loop variable of rotate
          line,     \* the record being written
          stderr,   \* records mirrored
          next, kills, faults

writer  == <<maxBackups, open, size, at, line>>
history == <<stderr, next>>
vars    == <<gen, step, writer, history, kills, faults>>

Bytes(g) == SumFunction([i \in DOMAIN g |-> g[i].len])

Init ==
    /\ maxBackups \in Backups
    /\ gen = <<>>
    /\ step = "off" /\ open = FALSE /\ size = 0 /\ at = 0
    /\ line = [id |-> 0, len |-> 0]
    /\ stderr = {} /\ next = 1 /\ kills = 0 /\ faults = 0

\* os.Rename: takes the place of what is there, fails when there is no such file.
Renamed(i, j) ==
    IF i \notin DOMAIN gen THEN gen
    ELSE [k \in (DOMAIN gen \ {i}) \cup {j} |-> IF k = j THEN gen[i] ELSE gen[k]]

Without(i) == [k \in DOMAIN gen \ {i} |-> gen[k]]

\* O_CREATE | O_APPEND
Created == IF 0 \in DOMAIN gen THEN gen ELSE [k \in DOMAIN gen \cup {0} |-> IF k = 0 THEN <<>> ELSE gen[k]]

Goes(from, to) == step = from /\ step' = to

\* The record is lost, on stderr too: MultiWriter stops at the first error.
Refused == step' = "idle" /\ UNCHANGED history

\* A system call of this record fails.
Fault ==
    /\ faults < MaxFaults
    /\ faults' = faults + 1
    /\ UNCHANGED kills

NoFault == UNCHANGED <<kills, faults>>

-----------------------------------------------------------------------------
(* Write.                                                                  *)

\* Mutants: the file is opened with O_TRUNC, or its size is not asked for.
StartTruncates ==
    /\ Goes("off", "idle")
    /\ gen' = [Created EXCEPT ![0] = <<>>]
    /\ open' = TRUE /\ size' = 0
    /\ UNCHANGED <<maxBackups, at, line, history, kills, faults>>

StartAtZero ==
    /\ Goes("off", "idle")
    /\ gen' = Created
    /\ open' = TRUE /\ size' = 0
    /\ UNCHANGED <<maxBackups, at, line, history, kills, faults>>

\* newRotatingWriter: the file of the process before is continued.
Start ==
    /\ Goes("off", "idle")
    /\ gen' = Created
    /\ open' = TRUE /\ size' = Bytes(gen'[0])
    /\ UNCHANGED <<maxBackups, at, line, history, kills, faults>>

TooBig(l) == MaxSize > 0 /\ size > 0 /\ size + l.len > MaxSize

\* w.f.Close may fail, and does when an earlier rotation has left the file closed; the
\* record is refused then, and the descriptor is gone either way.
Begin(l) ==
    IF TooBig(l)
    THEN /\ open' = FALSE
         /\ \/ open /\ step' = (IF maxBackups < 1 THEN "truncate" ELSE "drop") /\ NoFault
            \/ ~open /\ step' = "idle" /\ NoFault
            \/ open /\ step' = "idle" /\ Fault
    ELSE step' = "write" /\ UNCHANGED open /\ NoFault

Record ==
    /\ step = "idle"
    /\ next <= MaxLines
    /\ \E n \in Lengths : line' = [id |-> next, len |-> n]
    /\ next' = next + 1
    /\ Begin(line')
    /\ UNCHANGED <<maxBackups, gen, size, at, stderr>>

WriteLine ==
    /\ step = "write" /\ open
    /\ step' = "idle"
    /\ gen' = [gen EXCEPT ![0] = Append(@, line)]
    /\ size' = size + line.len
    /\ stderr' = stderr \cup {line.id}
    /\ UNCHANGED <<maxBackups, open, at, line, next>> /\ NoFault

\* A closed file, or a full disk that takes a part of the record.
WriteFails ==
    /\ step = "write"
    /\ Refused
    /\ \/ ~open /\ NoFault /\ UNCHANGED <<gen, size>>
       \/ /\ open /\ Fault
          /\ \E n \in 0..line.len - 1 :
                /\ gen' = IF n = 0 THEN gen ELSE [gen EXCEPT ![0] = Append(@, [line EXCEPT !.len = n])]
                /\ size' = size + n
    /\ UNCHANGED <<maxBackups, open, at, line>>

-----------------------------------------------------------------------------
(* rotate.                                                                 *)

\* maxBackups = 0: truncate and reopen.
Truncate ==
    /\ step = "truncate"
    /\ \/ step' = "write" /\ gen' = [k \in {0} |-> <<>>] /\ open' = TRUE /\ size' = 0
          /\ UNCHANGED history /\ NoFault
       \/ Fault /\ Refused /\ UNCHANGED <<gen, open, size>>
    /\ UNCHANGED <<maxBackups, at, line>>

\* os.Remove of the oldest, whose error is ignored.
Drop ==
    /\ Goes("drop", "shift")
    /\ \/ gen' = Without(maxBackups) /\ NoFault
       \/ Fault /\ UNCHANGED gen
    /\ at' = maxBackups
    /\ UNCHANGED <<maxBackups, open, size, line, history>>

\* path.(at-1) becomes path.at; best effort.
Shift ==
    /\ step = "shift" /\ at >= 2
    /\ \/ gen' = Renamed(at - 1, at) /\ NoFault
       \/ Fault /\ UNCHANGED gen
    /\ at' = at - 1
    /\ UNCHANGED <<step, maxBackups, open, size, line, history>>

Move ==
    /\ step = "shift" /\ at = 1
    /\ \/ 0 \in DOMAIN gen /\ step' = "reopen" /\ gen' = Renamed(0, 1) /\ UNCHANGED history /\ NoFault
       \/ Fault /\ Refused /\ UNCHANGED gen
    /\ UNCHANGED writer

Reopen ==
    /\ step = "reopen"
    /\ \/ step' = "write" /\ gen' = Created /\ open' = TRUE /\ size' = Bytes(gen'[0])
          /\ UNCHANGED history /\ NoFault
       \/ Fault /\ Refused /\ UNCHANGED <<gen, open, size>>
    /\ UNCHANGED <<maxBackups, at, line>>

-----------------------------------------------------------------------------

Down == step' = "off" /\ open' = FALSE /\ size' = 0 /\ at' = 0 /\ UNCHANGED <<maxBackups, line>>

\* The function Setup returns, called last by main.
Close ==
    /\ step = "idle"
    /\ Down
    /\ UNCHANGED <<gen, history, kills, faults>>

\* Between two system calls.
Kill ==
    /\ step # "off" /\ kills < MaxKills
    /\ kills' = kills + 1
    /\ Down
    /\ UNCHANGED <<gen, history, faults>>

rotate == Truncate \/ Drop \/ Shift \/ Move \/ Reopen

Next == Start \/ Record \/ WriteLine \/ WriteFails \/ rotate \/ Close \/ Kill

Spec == Init /\ [][Next]_vars

-----------------------------------------------------------------------------
(* Properties.                                                             *)

Kept == UNION {{gen[g][i].id : i \in DOMAIN gen[g]} : g \in DOMAIN gen}

\* Read from the oldest backup to the live file, the log is in the order the
\* records were written, whatever failed and wherever the process died.  As long
\* as no call failed, rotation and kills drop old records only: what they dropped is
\* older than all that is kept, and something that was written always is kept.
NewestInOrder ==
    /\ \A g, h \in DOMAIN gen : \A i \in DOMAIN gen[g], j \in DOMAIN gen[h] :
          g > h \/ (g = h /\ i < j) => gen[g][i].id < gen[h][j].id
    /\ faults = 0 /\ maxBackups > 0 /\ stderr # {} =>
          /\ stderr \cap Kept # {}
          /\ \A i \in stderr \ Kept, k \in Kept : i < k

\* The size the writer goes by is the file's; no generation grows past maxSize
\* but by a single long record.
SizeIsFile ==
    /\ open => 0 \in DOMAIN gen /\ size = Bytes(gen[0])
    /\ MaxSize > 0 => \A g \in DOMAIN gen : Bytes(gen[g]) <= MaxSize \/ Len(gen[g]) = 1

\* Retention: a file becomes a backup only when it is full up to one record, and
\* records are dropped only when all the backups exist: they hold what their
\* number and maxSize promise.
BackupsAreFull ==
    /\ \A g \in DOMAIN gen \ {0} : gen[g] # <<>> /\ \E n \in Lengths : Bytes(gen[g]) + n > MaxSize
    /\ step = "idle" /\ faults + kills = 0 /\ ~(stderr \subseteq Kept) => 1..maxBackups \subseteq DOMAIN gen

\* After any history of short writes, failed rotations, kills and restarts the log
\* is as large as configured: neither limit nor backups are exceeded or wasted.
SizesHold == SizeIsFile /\ BackupsAreFull /\ DOMAIN gen \subseteq 0..maxBackups
=============================================================================
