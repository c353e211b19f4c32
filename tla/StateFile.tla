----------------------------- MODULE StateFile -----------------------------
(***************************************************************************)
(* state.Save down to its system calls, run by any number of goroutines:   *)
(* the lock covers the marshalling only; open, write, fsync, close and     *)
(* rename follow without it, on the one temporary name <path>.tmp.         *)
(* A process may be killed and the machine may lose power at any point;    *)
(* main reads the file back with state.Load and gives up when it does not  *)
(* parse.                                                                  *)
(***************************************************************************)
EXTENDS Integers

CONSTANTS Savers,       \* the goroutines that call Save
          Inodes,       \* files the two names can refer to
          NoInode,      \* a name that refers to none
          MaxVersion,   \* bound: changes of the state in memory
          MaxCrashes    \* bound: kills and losses of power

ASSUME StateFileAssumption ==
    /\ NoInode \notin Inodes
    /\ MaxVersion \in Nat
    /\ MaxCrashes \in Nat

\* What a file holds: nothing, a whole record (its version), or bytes that do
\* not parse: a prefix of a record, or one record over the tail of another.
Empty == -1
Torn == -2

VARIABLES up,       \* process: "on", "off", or "fatal" when Load failed
          version,  \* version of the state in memory
          pc,       \* step of each goroutine's Save
          data,     \* the version it marshalled
          fd,       \* the file it has open
          tmp,      \* directory: what <path>.tmp names
          live,     \* directory: what <path> names
          journalled, \* directory: what <path> names after a loss of power
          content,  \* file contents as read now
          synced,   \* files whose contents are on the disk
          saved,    \* history: newest version a Save returned nil for
          crashes   \* history

directory == <<tmp, live, journalled>>
files     == <<content, synced>>
vars      == <<up, version, pc, data, fd, tmp, live, journalled, content, synced,
               saved, crashes>>

Steps == {"idle", "open", "write", "sync", "close", "rename"}

Init ==
    /\ up = "off"
    /\ version = 0
    /\ pc = [s \in Savers |-> "idle"]
    /\ data = [s \in Savers |-> 0]
    /\ fd = [s \in Savers |-> NoInode]
    /\ tmp = NoInode /\ live = NoInode /\ journalled = NoInode
    /\ content = [i \in Inodes |-> Empty]
    /\ synced = Inodes
    /\ saved = 0
    /\ crashes = 0

\* No name and no descriptor refers to the file.
Free(i) == i \notin {tmp, live, journalled} /\ \A s \in Savers : fd[s] # i

-----------------------------------------------------------------------------
(* The process.                                                            *)

\* state.Load: a missing file is the first run, one that does not parse ends
\* the process.
Load ==
    /\ up = "off"
    /\ \/ live = NoInode /\ version' = 0 /\ up' = "on"
       \/ live # NoInode /\ content[live] >= 0 /\ version' = content[live] /\ up' = "on"
       \/ live # NoInode /\ content[live] < 0 /\ up' = "fatal" /\ UNCHANGED version
    /\ UNCHANGED <<pc, data, fd, directory, files, saved, crashes>>

Change ==
    /\ up = "on"
    /\ version < MaxVersion
    /\ version' = version + 1
    /\ UNCHANGED <<up, pc, data, fd, directory, files, saved, crashes>>

Step(s, from, to) == up = "on" /\ pc[s] = from /\ pc' = [pc EXCEPT ![s] = to]

\* Under mu.
Marshal(s) ==
    /\ Step(s, "idle", "open")
    /\ data' = [data EXCEPT ![s] = version]
    /\ UNCHANGED <<up, version, fd, directory, files, saved, crashes>>

\* O_CREATE | O_TRUNC: empties the file that has the name, if there is one.
Open(s) ==
    /\ Step(s, "open", "write")
    /\ \E i \in Inodes :
          /\ IF tmp = NoInode THEN Free(i) ELSE i = tmp
          /\ tmp' = i
          /\ fd' = [fd EXCEPT ![s] = i]
          /\ content' = [content EXCEPT ![i] = Empty]
          /\ synced' = synced \ {i}
    /\ UNCHANGED <<up, version, data, live, journalled, saved, crashes>>

\* Written from offset 0: over another writer's longer record its tail remains.
Write(s) ==
    /\ Step(s, "write", "sync")
    /\ \E c \in {data[s]} \cup (IF content[fd[s]] \in {Empty, data[s]} THEN {} ELSE {Torn}) :
          content' = [content EXCEPT ![fd[s]] = c]
    /\ synced' = synced \ {fd[s]}
    /\ UNCHANGED <<up, version, data, fd, directory, saved, crashes>>

\* Mutant: no fsync before the rename.
NoFsync(s) ==
    /\ Step(s, "sync", "close")
    /\ UNCHANGED <<up, version, data, fd, directory, files, saved, crashes>>

Fsync(s) ==
    /\ Step(s, "sync", "close")
    /\ synced' = synced \cup {fd[s]}
    /\ UNCHANGED <<up, version, data, fd, directory, content, saved, crashes>>

Close(s) ==
    /\ Step(s, "close", "rename")
    /\ fd' = [fd EXCEPT ![s] = NoInode]
    /\ UNCHANGED <<up, version, data, directory, files, saved, crashes>>

Newer(a, b) == IF a > b THEN a ELSE b

Rename(s) ==
    /\ Step(s, "rename", "idle")
    /\ tmp # NoInode
    /\ live' = tmp
    /\ tmp' = NoInode
    /\ saved' = Newer(saved, data[s])
    /\ UNCHANGED <<up, version, data, fd, journalled, files, crashes>>

\* Mutant: errors of write and rename are not looked at.
FailsUnnoticed(s) ==
    /\ \/ Step(s, "write", "sync")
       \/ Step(s, "rename", "idle")
    /\ content' = IF pc[s] = "write" THEN [content EXCEPT ![fd[s]] = Torn] ELSE content
    /\ saved' = IF pc[s] = "rename" THEN Newer(saved, data[s]) ELSE saved
    /\ UNCHANGED <<up, version, data, fd, directory, synced, crashes>>

\* A full disk fails a write half way, an I/O error any call; the rename fails
\* too when another Save has taken the name <path>.tmp away.
Fails(s) ==
    /\ \E from \in Steps \ {"idle"} : Step(s, from, "idle")
    /\ fd' = [fd EXCEPT ![s] = NoInode]
    /\ content' = IF pc[s] = "write" THEN [content EXCEPT ![fd[s]] = Torn] ELSE content
    /\ synced' = IF pc[s] = "rename" THEN synced ELSE synced \ {fd[s]}
    /\ UNCHANGED <<up, version, data, directory, saved, crashes>>

-----------------------------------------------------------------------------
(* Crashes.                                                                *)

Down ==
    /\ crashes < MaxCrashes
    /\ crashes' = crashes + 1
    /\ up' = "off"
    /\ pc' = [s \in Savers |-> "idle"]
    /\ data' = [s \in Savers |-> 0]
    /\ fd' = [s \in Savers |-> NoInode]
    /\ version' = 0

\* SIGKILL: what was written stays readable, a write in progress is cut short.
Kill ==
    /\ up = "on"
    /\ Down
    /\ \E cut \in SUBSET {fd[s] : s \in {t \in Savers : pc[t] = "write"}} :
          content' = [i \in Inodes |-> IF i \in cut THEN Torn ELSE content[i]]
    /\ UNCHANGED <<directory, synced, saved>>

\* The directory reaches the journal some time after the rename; a file that was
\* not synced may come back empty, or cut short.
Journal ==
    /\ journalled # live
    /\ journalled' = live
    /\ UNCHANGED <<up, version, pc, data, fd, tmp, live, files, saved, crashes>>

PowerLoss ==
    /\ Down
    /\ live' = journalled
    /\ tmp' \in {tmp, NoInode}
    /\ \E c \in [Inodes \ synced -> {Empty, Torn}] :
          content' = [i \in Inodes |-> IF i \in synced THEN content[i] ELSE c[i]]
    /\ synced' = Inodes
    /\ saved' = IF journalled = NoInode THEN 0 ELSE content'[journalled]
    /\ UNCHANGED journalled

Save(s) ==
    \/ Marshal(s) \/ Open(s) \/ Write(s) \/ Fsync(s) \/ Close(s)
    \/ Rename(s) \/ Fails(s)

Next ==
    \/ Load
    \/ Change
    \/ \E s \in Savers : Save(s)
    \/ Kill
    \/ Journal
    \/ PowerLoss

Spec == Init /\ [][Next]_vars

-----------------------------------------------------------------------------
(* Properties.                                                             *)

TypeOK ==
    /\ up \in {"on", "off", "fatal"}
    /\ version \in 0..MaxVersion
    /\ pc \in [Savers -> Steps]
    /\ data \in [Savers -> 0..MaxVersion]
    /\ fd \in [Savers -> Inodes \cup {NoInode}]
    /\ {tmp, live, journalled} \subseteq Inodes \cup {NoInode}
    /\ content \in [Inodes -> Torn..MaxVersion]
    /\ synced \subseteq Inodes
    /\ saved \in Torn..MaxVersion
    /\ crashes \in 0..MaxCrashes

\* At every instant, so at every crash, the live file is missing or holds one
\* whole record (the promise of Save's comment).
LiveNeverCorrupt == live # NoInode => content[live] >= 0

\* A start never finds a state file it cannot parse.
StartNeverFails == up # "fatal"

\* What Save returned nil for is not lost by a kill, and no older record takes
\* its place.
SavedIsKept == saved > 0 => live # NoInode /\ content[live] >= saved

\* A loss of power may take back the last renames, but what the name then
\* refers to was on the disk before the rename (fsync before rename).
JournalledIsWhole ==
    journalled # NoInode => journalled \in synced /\ content[journalled] >= 0

Recorded(i) == IF i = NoInode THEN 0 ELSE content[i]

Atomic == INSTANCE AtomicFile
          WITH NoRecord <- Empty,
               memory <- IF up = "on" THEN version ELSE Empty,
               disk <- Recorded(live), durable <- Recorded(journalled)

\* The seven calls of a Save, with kills, losses of power and failures between
\* any two, are one replacement of the file, and never an older record
\* (state.go:57-60).
ImplementsAtomicFile == Atomic!Spec
=============================================================================
