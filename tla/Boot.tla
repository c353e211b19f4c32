------------------------------- MODULE Boot --------------------------------
(***************************************************************************)
(* The configuration over the lives of the process: defaults, config.json, *)
(* environment and flags laid over each other at a start, the check of the *)
(* result, the files it names, the edits of the dashboard, which swap the  *)
(* merged config in and then write it back, and the file after a failed    *)
(* write, a kill or a loss of power.  Durations are seconds, fractions are *)
(* hundredths.                                                             *)
(***************************************************************************)
EXTENDS Integers

CONSTANTS Files,        \* config.json as an operator may write it: some fields
          Envs, Flags,  \* overrides a start may have
          Bodies,       \* bodies of PUT /api/config
          Missing,      \* there is no file
          Torn,         \* a file that does not parse
          Unparsed,     \* an environment value that does not
          Unopened,     \* paths at which there is no file to be opened or made
          NoConfig

VARIABLES up,           \* "off", "on", or "fatal": main gave up
          file, onDisk, \* config.json, and what a loss of power leaves of it
          env, flags,   \* of the last start
          live,         \* ConfigHolder.cfg; the last one while the process is off
          step,         \* of the edit that holds ConfigHolder.mu: "idle" when none does,
                        \*   "swapped", "renamed"
          answered,     \* history: the config that was live at the start or at the last
                        \*   edit that was answered with success
          powerLost     \* history: power was lost since live was current

vars == <<up, file, onDisk, env, flags, live, step, answered, powerLost>>

Default ==
    [interval_min |-> 5, interval_max |-> 30, running |-> TRUE,
     dev_enabled |-> FALSE, dev_target |-> "192.168.1.1", dev_workers |-> 4,
     mode |-> "ratio", multiplier |-> 8, jitter |-> 30, min_deficit_bytes |-> 1073741824,
     volume_bytes |-> 1073741824, window |-> 86400,
     link_capacity_mbit |-> 0,
     threads_coefficient |-> 3, speed_coefficient |-> 1, base_rate_bps |-> 524288,
     cycle_budget_fraction |-> 30, packet_gap_max |-> 0, max_workers |-> 300, max_ramp |-> 20,
     min_datagram |-> 64, max_datagram |-> 1472,
     curve_max |-> 250, wander_strength |-> 15, wander_reversion |-> 1800,
     port_min |-> 1024, port_max |-> 65535, cache_ttl_min |-> 600, cache_ttl_max |-> 6000,
     save_interval |-> 30, retention_5min |-> 32400000, percentile |-> 95,
     web_enabled |-> TRUE, level |-> "info", max_size_mb |-> 10, max_backups |-> 3,
     log_file |-> "data/tavazon.log", state_file |-> "data/state.json",
     metering_dir |-> "data/metering"]

Fields == DOMAIN Default

\* The fields with a type of their own; the others are numbers.
Switches == {"running", "dev_enabled", "web_enabled"}
Paths == {"log_file", "state_file", "metering_dir"}
Words == {"dev_target", "mode", "level"} \cup Paths

TypeOf(k) == IF k \in Switches THEN BOOLEAN ELSE IF k \in Words THEN STRING ELSE Int

\* JSON, the environment and the flags are decoded into the types of the fields.
Typed(o) == \A k \in Fields \cap DOMAIN o : o[k] \in TypeOf(k)

Configs == {c \in [Fields -> BOOLEAN \cup STRING \cup Int] : Typed(c)}

BootAssumption ==
    /\ \A o \in Files \cup Bodies : DOMAIN o \subseteq Fields /\ Typed(o)
    /\ \A e \in Envs : DOMAIN e \subseteq Fields /\ ((\E k \in DOMAIN e : e[k] = Unparsed) \/ Typed(e))
    /\ \A f \in Flags : Typed(f)
    /\ Missing \notin Configs /\ Torn \notin Configs
    /\ Typed([k \in Words |-> Default[k]])

DevValid(c) == c.dev_target # "bad" /\ c.dev_workers >= 1

Valid(c) ==
    /\ c.interval_min > 0 /\ c.interval_max > 0 /\ c.interval_min <= c.interval_max
    /\ c.mode \in {"ratio", "volume"}
    /\ c.multiplier \in 2..15 /\ c.jitter \in 0..90 /\ c.min_deficit_bytes >= 0
    /\ c.volume_bytes > 0 /\ c.window > 0
    /\ c.threads_coefficient \in 1..30 /\ c.speed_coefficient \in 1..5
    /\ c.base_rate_bps >= 65536 /\ c.cycle_budget_fraction \in 5..100
    /\ c.packet_gap_max >= 0 /\ c.max_workers >= 1 /\ c.max_ramp >= 1
    /\ c.min_datagram >= 1 /\ c.max_datagram > c.min_datagram /\ c.max_datagram <= 1472
    /\ c.curve_max > 0 /\ c.wander_strength >= 0 /\ c.wander_reversion > 0
    /\ c.port_min >= 1 /\ c.port_max <= 65535 /\ c.port_min < c.port_max
    /\ c.cache_ttl_min > 0 /\ c.cache_ttl_min <= c.cache_ttl_max
    /\ c.save_interval > 0 /\ c.retention_5min > 0
    /\ c.percentile \in 50..99 /\ c.link_capacity_mbit >= 0
    /\ c.max_size_mb >= 1 /\ c.max_backups >= 0
    /\ c.level \in {"debug", "info", "warn", "error"}
    /\ c.dev_enabled => DevValid(c)

-----------------------------------------------------------------------------
(* main, up to the start of the engine.                                    *)

\* The fields of one layer, and below them those of another.
Over(o, c) == [k \in DOMAIN o \cup DOMAIN c |-> IF k \in DOMAIN o THEN o[k] ELSE c[k]]

Load == IF file = Missing THEN Default ELSE Over(file, Default)

ApplyEnv(c, e) == Over(e, c)

\* The value of a flag that is a switch is not looked at.
ApplyFlags(c, f) ==
    [c EXCEPT !.mode        = IF "mode" \in DOMAIN f THEN f.mode ELSE @,
              !.multiplier  = IF "multiplier" \in DOMAIN f THEN f.multiplier ELSE @,
              !.level       = IF "level" \in DOMAIN f THEN f.level ELSE @,
              !.running     = @ /\ "stopped" \notin DOMAIN f,
              !.web_enabled = @ /\ "no_web" \notin DOMAIN f]

Accepted(c, f) == Valid(ApplyFlags(c, f))

\* logging.Setup, state.Load and metering.Open come after Validate, which does not
\* look at paths.
Opens(c) == \A k \in Paths : c[k] \notin Unopened

\* Load, ApplyEnv, ApplyFlags, Validate, and the three files: each may end the process.
Start(e, f) ==
    /\ up # "on"
    /\ env' = e /\ flags' = f
    /\ IF file = Torn \/ \E k \in DOMAIN e : e[k] = Unparsed
       THEN up' = "fatal" /\ UNCHANGED <<live, answered, powerLost>>
       ELSE LET c == ApplyEnv(Load, e) IN
            IF Accepted(c, f) /\ Opens(c)
            THEN /\ up' = "on" /\ live' = ApplyFlags(c, f) /\ answered' = live'
                 /\ powerLost' = FALSE
            ELSE up' = "fatal" /\ UNCHANGED <<live, answered, powerLost>>
    /\ UNCHANGED <<file, onDisk, step>>

-----------------------------------------------------------------------------
(* The dashboard, when there is one.                                       *)

\* Replace and Update: the merged config, overrides included, is live before it is
\* written.
Swap(c) ==
    /\ up = "on" /\ step = "idle"
    /\ live' = c /\ step' = "swapped"
    /\ UNCHANGED <<up, file, onDisk, env, flags, answered, powerLost>>

\* Mutant: the config that is replaced is checked.
PutOverValid(b) ==
    /\ up = "on" /\ live.web_enabled
    /\ Valid(live)
    /\ Swap(Over(b, live))

\* A body over a copy from before another edit is module ConfigHolder's.
handlePutConfig(b) ==
    /\ up = "on" /\ live.web_enabled
    /\ Valid(Over(b, live))
    /\ Swap(Over(b, live))

setRunning ==
    /\ up = "on" /\ live.web_enabled
    /\ \E r \in BOOLEAN : Swap([live EXCEPT !.running = r])

\* Not checked by Validate, which looks at dev.target only when dev is enabled.
handleDev ==
    /\ up = "on" /\ live.web_enabled
    /\ \E d \in BOOLEAN : Swap([live EXCEPT !.dev_enabled = d])

\* Mutant: the temporary file is not renamed.
NotRenamed ==
    /\ up = "on" /\ step = "swapped"
    /\ step' = "renamed"
    /\ UNCHANGED <<up, file, onDisk, env, flags, live, answered, powerLost>>

\* writeJSONFile: the temporary file is written and renamed; what becomes of it before
\* that, nobody reads.
Rename ==
    /\ up = "on" /\ step = "swapped"
    /\ file' = live /\ step' = "renamed"
    /\ UNCHANGED <<up, onDisk, env, flags, live, answered, powerLost>>

\* One of its calls fails: the answer is an error, and the config stays live.
WriteFails ==
    /\ up = "on" /\ step = "swapped"
    /\ step' = "idle"
    /\ UNCHANGED <<up, file, onDisk, env, flags, live, answered, powerLost>>

\* The mutex is given back and the request answered.
Answer ==
    /\ up = "on" /\ step = "renamed"
    /\ answered' = live /\ step' = "idle"
    /\ UNCHANGED <<up, file, onDisk, env, flags, live, powerLost>>

-----------------------------------------------------------------------------

\* The kernel writes the file back in its own time: writeJSONFile has no fsync.
WriteBack ==
    /\ onDisk # file /\ onDisk' = file
    /\ UNCHANGED <<up, file, env, flags, live, step, answered, powerLost>>

\* An exit or a kill, at any step of an edit, keeps what was written.
Ends ==
    /\ up = "on" /\ up' = "off" /\ step' = "idle"
    /\ UNCHANGED <<file, onDisk, env, flags, live, answered, powerLost>>

PowerLoss ==
    /\ up' = "off" /\ step' = "idle" /\ powerLost' = TRUE
    /\ file' \in {onDisk, file} \cup (IF file = onDisk THEN {} ELSE {Torn})
    /\ onDisk' = file'
    /\ UNCHANGED <<env, flags, live, answered>>

Init ==
    /\ up = "off" /\ file \in Files \cup {Missing} /\ onDisk = file
    /\ env = <<>> /\ flags = <<>>
    /\ live = NoConfig /\ step = "idle" /\ answered = NoConfig /\ powerLost = TRUE

Next ==
    \/ \E e \in Envs, f \in Flags : Start(e, f)
    \/ \E b \in Bodies : handlePutConfig(b)
    \/ setRunning \/ handleDev
    \/ Rename \/ WriteFails \/ Answer
    \/ WriteBack \/ Ends \/ PowerLoss

Spec == Init /\ [][Next]_vars

-----------------------------------------------------------------------------
(* Properties.                                                             *)

\* What the consumers of a config compute with, unguarded: RandomTarget draws from
\* PortMax - PortMin + 1 ports and panics on none, RandomSize from MaxDatagram -
\* MinDatagram + 1 lengths into a buffer of MaxDatagram, the loop sleeps between two
\* positive intervals, the clock of the volume window divides by its length, the
\* percentile indexes the samples.
Relied(c) ==
    /\ c.port_max - c.port_min + 1 > 0
    /\ c.max_datagram - c.min_datagram + 1 > 0 /\ c.min_datagram > 0
    /\ c.interval_min > 0 /\ c.interval_min <= c.interval_max
    /\ c.window > 0 /\ c.percentile \in 1..100
    /\ c.mode \in {"ratio", "volume"} /\ c.multiplier > 1

\* Whatever files, overrides and edits came together, a start ends in an engine on
\* a config its consumers can compute with, as it then stays, or gives up; and it
\* gives up only for a file that does not parse or is not valid as the operator wrote
\* it, for an override of this very start, or for one of the two things that Validate
\* lets the dashboard write: local settings that dev mode was switched on over, and
\* the path of a file that cannot be opened.
StartsOnUsable ==
    /\ up = "on" => Relied(live)
    /\ up = "fatal" => \/ file = Torn \/ (file \in Files /\ ~Valid(Load))
                       \/ env # <<>> \/ flags # <<>>
                       \/ Load.dev_enabled /\ ~DevValid(Load)
                       \/ ~Opens(Load)

Overridden(e, f) ==
    DOMAIN e \cup DOMAIN f \cup {k \in {"running"} : "stopped" \in DOMAIN f}
             \cup {k \in {"web_enabled"} : "no_web" \in DOMAIN f}

Agree(c, d, fields) == \A k \in fields : c[k] = d[k]

\* A restart that does not follow a loss of power resumes, in the fields that neither
\* its overrides set nor those of the start before, the run state among them, one
\* whole config: the one of the last edit that was answered with success, or, when a
\* kill came between the rename and the answer, the one last live.  The edit of which
\* the write failed was live and is undone by the restart, whole.
RestartKeeps ==
    [][up = "off" /\ up' = "on" /\ ~powerLost =>
         LET kept == Fields \ (Overridden(env, flags) \cup Overridden(env', flags'))
         IN  Agree(live', answered, kept) \/ Agree(live', live, kept)]_vars
=============================================================================
