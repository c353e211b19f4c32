-------------------------------- MODULE Disk --------------------------------
(***************************************************************************)
(* What the program keeps on disk beside its state and its metering: the   *)
(* log and its backups, the audit log, and config.json.  The three share   *)
(* no variable, so that no interleaving of one with another matters to a   *)
(* property of either, and one at a time moves.                            *)
(***************************************************************************)
EXTENDS Integers, Sequences

CONSTANTS MaxSize, Backups, Lengths, MaxLines, MaxKills, MaxFaults,     \* LogRotation
          Handlers, MaxChanges, MaxFailures,                            \* AuditLog
          Files, Envs, Flags, Bodies, Missing, TornFile, Unparsed, Unopened,
          NoConfig                                                      \* Boot

VARIABLES moving,
          maxBackups, gen, open, size, step, at, line, stderr, next, kills, faults,
          running, req, log, unended, changed, dropped, torn, crossed, failures,
          process, file, onDisk, env, flags, liveConfig, editing, answered, powerLost

logFiles   == <<maxBackups, gen, open, size, step, at, line, stderr, next, kills, faults>>
auditFile  == <<running, req, log, unended, changed, dropped, torn, crossed, failures>>
configFile == <<process, file, onDisk, env, flags, liveConfig, editing, answered, powerLost>>

Rotation == INSTANCE LogRotation

Records == INSTANCE AuditLog

Config == INSTANCE Boot WITH up <- process, live <- liveConfig, step <- editing, Torn <- TornFile

ASSUME DiskAssumption ==
    Rotation!LogAssumption /\ Records!AuditLogAssumption /\ Config!BootAssumption

\* What does not move stays in its initial state.
DInit == moving \in {"log", "audit", "config"} /\ Rotation!Init /\ Records!Init /\ Config!Init

DNext ==
    \/ moving = "log" /\ Rotation!Next /\ UNCHANGED <<moving, auditFile, configFile>>
    \/ moving = "audit" /\ Records!Next /\ UNCHANGED <<moving, logFiles, configFile>>
    \/ moving = "config" /\ Config!Next /\ UNCHANGED <<moving, logFiles, auditFile>>

DSpec == DInit /\ [][DNext]_<<moving, logFiles, auditFile, configFile>>

-----------------------------------------------------------------------------
(* Properties.                                                             *)

\* The log: order and newest records over rotations, failed calls and kills.
NewestInOrder == Rotation!NewestInOrder

\* The log: what is kept is as large as configured.
SizesHold == Rotation!SizesHold

\* The audit log: what a torn write costs.
TornCostsOneRecord == Records!TornCostsOneRecord

\* The audit log: its records chain, and the newest is the live state.
HistoryIsTrue == Records!HistoryIsTrue

\* The config: a start ends in an engine that can compute with it, or has a cause to
\* give up.
StartsOnUsable == Config!StartsOnUsable

\* The config: a restart resumes one whole config, the last answered or the last live.
RestartKeeps == Config!RestartKeeps
=============================================================================
