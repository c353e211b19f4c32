----------------------------- MODULE AtomicFile -----------------------------
(***************************************************************************)
(* What state.Save and state.Load promise, without system calls: the file  *)
(* always holds one whole record; a save replaces it in one step with one  *)
(* that is not older; a kill leaves it alone; a loss of power brings back  *)
(* a record the file has had, never older than one it brought back before  *)
(* or that a directory sync has kept.  Synchronizer takes its two copies   *)
(* of the state file from here.                                            *)
(***************************************************************************)
EXTENDS Integers

CONSTANT NoRecord       \* the memory of a process that is not running

VARIABLES memory,       \* version of the state of the running process
          disk,         \* version the file holds as read now
          durable       \* version it holds after a loss of power

vars == <<memory, disk, durable>>

Init == memory = NoRecord /\ disk = 0 /\ durable = 0

Load == memory = NoRecord /\ memory' = disk /\ UNCHANGED <<disk, durable>>

Change == memory # NoRecord /\ memory' = memory + 1 /\ UNCHANGED <<disk, durable>>

\* With the state as it was when the save began, or newer.
Replace ==
    /\ memory # NoRecord
    /\ disk' \in disk..memory
    /\ UNCHANGED <<memory, durable>>

Keep == durable' = disk /\ UNCHANGED <<memory, disk>>

Kill == memory' = NoRecord /\ UNCHANGED <<disk, durable>>

PowerLoss == memory' = NoRecord /\ disk' = durable /\ UNCHANGED durable

Next == Load \/ Change \/ Replace \/ Keep \/ Kill \/ PowerLoss

Spec == Init /\ [][Next]_vars
=============================================================================
