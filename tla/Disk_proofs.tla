---------------------------- MODULE Disk_proofs ----------------------------
(***************************************************************************)
(* Proofs about what the program writes to the disk, modules Disk and      *)
(* StateFile: whatever the operator writes, the flags and the environment  *)
(* hold, however many records, handlers, failed calls, kills and losses of *)
(* power there are, the log, the audit log and config.json keep what       *)
(* MCDisk checks of them.  Each of the three has an inductive invariant of *)
(* its own, put together before the last section.  That one is about the   *)
(* state file; Init, Next, Spec and vars without a prefix are its.         *)
(***************************************************************************)
EXTENDS Disk, StateFile, FiniteSetTheorems, SequenceTheorems, TLAPS

-----------------------------------------------------------------------------
(* config.json (Boot).                                                     *)

\* What Validate promises of a config whatever happens to its local settings.
Sound(c) == Config!Valid([c EXCEPT !.dev_enabled = FALSE])

\* A config file is as an operator wrote it, or whole and sound.
FileOK(f) == f \in Files \cup {Missing, TornFile} \/ (f \in Config!Configs /\ Sound(f))

\* The file has the config, but for the overrides of the last start.
Saved(c) == Config!Agree(Config!Load, c, Config!Fields \ Config!Overridden(env, flags))

\* The file has the config of the last edit that was answered, or from the rename on
\* the one that is live.
Resumes ==
    /\ Saved(liveConfig) \/ Saved(answered)
    /\ process = "on" => IF editing = "renamed" THEN Saved(liveConfig) ELSE Saved(answered)

BootInv ==
    /\ process \in {"off", "on", "fatal"} /\ editing \in {"idle", "swapped", "renamed"}
    /\ process # "on" => editing = "idle"
    /\ FileOK(file) /\ FileOK(onDisk)
    /\ process = "on" \/ ~powerLost => liveConfig \in Config!Configs /\ Sound(liveConfig)
    /\ process # "fatal" /\ ~powerLost => Resumes
    /\ process = "on" => ~powerLost

\* The settings that are modelled, by name.
LEMMA FieldsAre ==
    /\ Config!Fields = {"interval_min", "interval_max", "running", "dev_enabled", "dev_target",
        "dev_workers", "mode", "multiplier", "jitter", "min_deficit_bytes", "volume_bytes", "window",
        "link_capacity_mbit", "threads_coefficient", "speed_coefficient", "base_rate_bps",
        "cycle_budget_fraction", "packet_gap_max", "max_workers", "max_ramp", "min_datagram",
        "max_datagram", "curve_max", "wander_strength", "wander_reversion", "port_min", "port_max",
        "cache_ttl_min", "cache_ttl_max", "save_interval", "retention_5min", "percentile",
        "web_enabled", "level", "max_size_mb", "max_backups", "log_file", "state_file",
        "metering_dir"}
  BY DEF Config!Fields, Config!Default

\* The defaults are a valid config.
LEMMA DefaultValid ==
    Config!Default \in Config!Configs /\ Config!Valid(Config!Default)
<1>1. Config!Valid(Config!Default)
  BY DEF Config!Default, Config!Valid
<1>2. Config!Default = [k \in Config!Fields |-> Config!Default[k]]
  BY SMTT(30) DEF Config!Fields, Config!Default
<1>3. /\ Config!Default.running \in BOOLEAN /\ Config!Default.dev_enabled \in BOOLEAN
      /\ Config!Default.web_enabled \in BOOLEAN
  BY SMTT(30) DEF Config!Default
<1>4. \A k \in Config!Words : Config!Default[k] \in STRING
  <2>1. Config!Typed([k \in Config!Words |-> Config!Default[k]])
    BY DiskAssumption DEF Config!BootAssumption
  <2> QED BY <2>1, FieldsAre DEF Config!Typed, Config!TypeOf, Config!Words, Config!Paths, Config!Switches
<1>5. \A k \in Config!Fields \ (Config!Switches \cup Config!Words) : Config!Default[k] \in Int
  BY SMTT(30) DEF Config!Fields, Config!Default, Config!Switches, Config!Words, Config!Paths
<1>6. \A k \in Config!Fields : Config!Default[k] \in Config!TypeOf(k)
  BY <1>3, <1>4, <1>5, SMTT(30) DEF Config!TypeOf, Config!Switches
<1>7. Config!Default \in [Config!Fields -> BOOLEAN \cup STRING \cup Int]
  BY <1>2, <1>6, SMTT(30) DEF Config!TypeOf
<1> QED BY <1>1, <1>6, <1>7, SMTT(30) DEF Config!Configs, Config!Typed

\* One layer over another.
LEMMA Merged ==
    ASSUME NEW c \in Config!Configs, NEW o, DOMAIN o \subseteq Config!Fields, Config!Typed(o)
    PROVE  /\ Config!Over(o, c) \in Config!Configs
           /\ \A k \in Config!Fields : Config!Over(o, c)[k] = IF k \in DOMAIN o THEN o[k] ELSE c[k]
<1>1. Config!Over(o, c) = [k \in Config!Fields |-> IF k \in DOMAIN o THEN o[k] ELSE c[k]]
  BY DEF Config!Over, Config!Configs
<1> QED BY <1>1 DEF Config!Configs, Config!Typed, Config!TypeOf

\* What Validate accepts is sound, and what is sound but not accepted has its
\* local settings to blame.
LEMMA ValidSound ==
    ASSUME NEW c \in Config!Configs
    PROVE  /\ Config!Valid(c) => Sound(c)
           /\ Sound(c) /\ ~Config!Valid(c) => c.dev_enabled /\ ~Config!DevValid(c)
<1> DEFINE d == [c EXCEPT !.dev_enabled = FALSE]
<1>1. \A k \in Config!Fields \ {"dev_enabled"} : d[k] = c[k]
  BY DEF Config!Configs
<1>2. ~d.dev_enabled
  BY FieldsAre DEF Config!Configs
<1> HIDE DEF d
<1>3. Config!Valid(d) <=> Config!Valid(c) \/ (Config!Valid(d) /\ c.dev_enabled /\ ~Config!DevValid(c))
  BY <1>1, <1>2, FieldsAre, SMTT(60) DEF Config!Valid
<1> QED BY <1>3 DEF Sound, d

\* A sound config stays sound when it is started, stopped, or its dev mode switched.
LEMMA SwitchSound ==
    ASSUME NEW c \in Config!Configs, Sound(c), NEW r \in BOOLEAN
    PROVE  /\ [c EXCEPT !.running = r] \in Config!Configs /\ Sound([c EXCEPT !.running = r])
           /\ [c EXCEPT !.dev_enabled = r] \in Config!Configs /\ Sound([c EXCEPT !.dev_enabled = r])
<1> DEFINE d == [c EXCEPT !.dev_enabled = FALSE]
           e == [[c EXCEPT !.running = r] EXCEPT !.dev_enabled = FALSE]
<1>1. \A k \in Config!Fields \ {"running"} : e[k] = d[k]
  BY DEF Config!Configs
<1>2. [[c EXCEPT !.dev_enabled = r] EXCEPT !.dev_enabled = FALSE] = d
  BY DEF Config!Configs
<1>3. [c EXCEPT !.running = r] \in Config!Configs /\ [c EXCEPT !.dev_enabled = r] \in Config!Configs
  BY DEF Config!Configs, Config!Typed, Config!TypeOf, Config!Switches
<1>4. Sound(c) <=> Config!Valid(d)
  BY DEF Sound
<1> HIDE DEF d, e
<1>5. Config!Valid(e)
  BY <1>1, <1>4, FieldsAre, SMTT(60) DEF Config!Valid, Config!DevValid
<1> QED BY <1>2, <1>3, <1>4, <1>5 DEF Sound, e

\* A sound config is one that its consumers can compute with.
LEMMA SoundRelied ==
    ASSUME NEW c \in Config!Configs, Sound(c)
    PROVE  Config!Relied(c)
<1> DEFINE d == [c EXCEPT !.dev_enabled = FALSE]
<1>1. \A k \in Config!Fields \ {"dev_enabled"} : d[k] = c[k] /\ c[k] \in Config!TypeOf(k)
  BY DEF Config!Configs, Config!Typed
<1>2. Config!Valid(d)
  BY DEF Sound
<1> HIDE DEF d
<1> DEFINE Numbers == {"port_min", "port_max", "min_datagram", "max_datagram", "interval_min",
                       "interval_max", "window", "percentile", "multiplier"}
<1>3. \A k \in Numbers : d[k] = c[k] /\ c[k] \in Int
  BY <1>1, FieldsAre DEF Config!TypeOf, Config!Switches, Config!Words, Config!Paths
<1>4. d.mode = c.mode
  BY <1>1, FieldsAre
<1>5. /\ d.port_min < d.port_max
      /\ d.min_datagram >= 1 /\ d.max_datagram > d.min_datagram
      /\ d.interval_min > 0 /\ d.interval_min <= d.interval_max
      /\ d.window > 0 /\ d.percentile \in 50..99 /\ d.multiplier \in 2..15
      /\ d.mode \in {"ratio", "volume"}
  BY <1>2 DEF Config!Valid
<1> QED BY <1>3, <1>4, <1>5 DEF Config!Relied

\* The defaults and what they are overridden with are a config, and what was read is
\* unless the file does not parse.
LEMMA Loaded ==
    ASSUME FileOK(file), file # TornFile
    PROVE  /\ Config!Load \in Config!Configs
           /\ file \notin Files => Sound(Config!Load)
           /\ file \in Config!Configs => \A k \in Config!Fields : Config!Load[k] = file[k]
<1>1. CASE file = Missing
  BY <1>1, DefaultValid, ValidSound, DiskAssumption DEF Config!Load, Config!BootAssumption
<1>2. CASE file # Missing /\ file \in Config!Configs
  <2>1. DOMAIN file = Config!Fields /\ Config!Typed(file)
    BY <1>2 DEF Config!Configs
  <2>2. Config!Load = Config!Over(file, Config!Default)
    BY <1>2 DEF Config!Load
  <2>3. Config!Load \in Config!Configs /\ \A k \in Config!Fields : Config!Load[k] = file[k]
    BY <2>1, <2>2, DefaultValid, Merged
  <2>4. Config!Load = file
    BY <1>2, <2>3 DEF Config!Configs
  <2> QED BY <1>2, <2>3, <2>4 DEF FileOK
<1>3. CASE file # Missing /\ file \notin Config!Configs
  <2>1. file \in Files
    BY <1>3 DEF FileOK
  <2> QED BY <1>3, <2>1, DefaultValid, Merged, DiskAssumption DEF Config!Load, Config!BootAssumption
<1> QED BY <1>1, <1>2, <1>3

\* The flags of a start, over the config that file and environment gave.
LEMMA Flagged ==
    ASSUME NEW c \in Config!Configs, NEW f \in Flags
    PROVE  /\ Config!ApplyFlags(c, f) \in Config!Configs
           /\ \A k \in Config!Fields \ Config!Overridden(<<>>, f) : Config!ApplyFlags(c, f)[k] = c[k]
<1> DEFINE d == Config!ApplyFlags(c, f)
<1>1. DOMAIN d = Config!Fields /\ d = [k \in Config!Fields |-> d[k]]
  BY DEF Config!ApplyFlags, Config!Configs
<1>2. Config!Typed(f) /\ Config!Typed(c) /\ DOMAIN c = Config!Fields
  BY DiskAssumption DEF Config!BootAssumption, Config!Configs
<1>3. /\ d.mode = IF "mode" \in DOMAIN f THEN f.mode ELSE c.mode
      /\ d.multiplier = IF "multiplier" \in DOMAIN f THEN f.multiplier ELSE c.multiplier
      /\ d.level = IF "level" \in DOMAIN f THEN f.level ELSE c.level
      /\ d.running = (c.running /\ "stopped" \notin DOMAIN f)
      /\ d.web_enabled = (c.web_enabled /\ "no_web" \notin DOMAIN f)
      /\ \A k \in Config!Fields \ {"mode", "multiplier", "level", "running", "web_enabled"} : d[k] = c[k]
  BY <1>2, FieldsAre DEF Config!ApplyFlags
<1>4. c.running \in BOOLEAN /\ c.web_enabled \in BOOLEAN
  BY <1>2, FieldsAre DEF Config!Typed, Config!TypeOf, Config!Switches
<1>5. \A k \in Config!Fields : c[k] \in Config!TypeOf(k) /\ (k \in DOMAIN f => f[k] \in Config!TypeOf(k))
  BY <1>2 DEF Config!Typed
<1> HIDE DEF d
<1>6. \A k \in Config!Fields : d[k] \in Config!TypeOf(k)
  <2>1. d.running \in BOOLEAN /\ d.web_enabled \in BOOLEAN
    BY <1>3, <1>4
  <2>2. \A k \in Config!Fields \ {"running", "web_enabled"} : d[k] \in Config!TypeOf(k)
    BY <1>3, <1>5, FieldsAre
  <2> QED BY <2>1, <2>2 DEF Config!TypeOf, Config!Switches
<1>7. d \in Config!Configs
  BY <1>1, <1>6 DEF Config!Configs, Config!Typed, Config!TypeOf
<1>8. \A k \in Config!Fields \ Config!Overridden(<<>>, f) : d[k] = c[k]
  BY <1>3, <1>4, FieldsAre DEF Config!Overridden
<1> QED BY <1>7, <1>8 DEF d

\* A start that is not refused.
Begun(e, f) ==
    /\ file # TornFile /\ process' = "on" /\ ~powerLost'
    /\ \A k \in DOMAIN e : e[k] # Unparsed
    /\ liveConfig' = Config!ApplyFlags(Config!Over(e, Config!Load), f) /\ answered' = liveConfig'
    /\ Config!Accepted(Config!Over(e, Config!Load), f) /\ Config!Opens(Config!Over(e, Config!Load))

\* What a start does, and what it starts.
LEMMA Starts ==
    ASSUME BootInv, NEW e \in Envs, NEW f \in Flags, Config!Start(e, f)
    PROVE  /\ process # "on" /\ env' = e /\ flags' = f /\ UNCHANGED <<file, onDisk, editing>>
           /\ Begun(e, f) \/ (~Begun(e, f) /\ process' = "fatal"
                               /\ UNCHANGED <<liveConfig, answered, powerLost>>)
           /\ Begun(e, f) =>
                 /\ liveConfig' \in Config!Configs /\ Sound(liveConfig')
                 /\ \A k \in Config!Fields \ Config!Overridden(e, f) : liveConfig'[k] = Config!Load[k]
<1>1. /\ process # "on" /\ env' = e /\ flags' = f /\ UNCHANGED <<file, onDisk, editing>>
      /\ Begun(e, f) \/ (~Begun(e, f) /\ process' = "fatal"
                          /\ UNCHANGED <<liveConfig, answered, powerLost>>)
  BY DEF Config!Start, Begun, Config!ApplyEnv
<1>2. ASSUME Begun(e, f)
      PROVE  /\ liveConfig' \in Config!Configs /\ Sound(liveConfig')
             /\ \A k \in Config!Fields \ Config!Overridden(e, f) : liveConfig'[k] = Config!Load[k]
  <2> DEFINE c == Config!Over(e, Config!Load)
  <2>1. Config!Load \in Config!Configs
    BY <1>2, Loaded DEF BootInv, Begun
  <2>2. DOMAIN e \subseteq Config!Fields /\ Config!Typed(e)
    BY <1>2, DiskAssumption DEF Config!BootAssumption, Begun
  <2>3. c \in Config!Configs /\ \A k \in Config!Fields \ DOMAIN e : c[k] = Config!Load[k]
    BY <2>1, <2>2, Merged
  <2>4. liveConfig' = Config!ApplyFlags(c, f) /\ Config!Valid(Config!ApplyFlags(c, f))
    BY <1>2 DEF Begun, Config!Accepted
  <2> HIDE DEF c
  <2>5. liveConfig' \in Config!Configs /\ Sound(liveConfig')
    BY <2>3, <2>4, Flagged, ValidSound
  <2>6. Config!Overridden(e, f) = DOMAIN e \cup Config!Overridden(<<>>, f)
    BY DEF Config!Overridden
  <2>7. \A k \in Config!Fields \ Config!Overridden(<<>>, f) : liveConfig'[k] = c[k]
    BY <2>3, <2>4, Flagged
  <2> QED BY <2>3, <2>5, <2>6, <2>7
<1> QED BY <1>1, <1>2

\* A start without overrides is refused for the file alone.
LEMMA Refused ==
    ASSUME BootInv, NEW e \in Envs, NEW f \in Flags, Config!Start(e, f), ~Begun(e, f),
           e = <<>>, f = <<>>, file # TornFile
    PROVE  ~Config!Valid(Config!Load) \/ ~Config!Opens(Config!Load)
<1> DEFINE c == Config!Load
<1>1. c \in Config!Configs
  BY Loaded DEF BootInv
<1>2. DOMAIN e = {} /\ DOMAIN f = {}
  OBVIOUS
<1>3. Config!Over(e, c) = c
  BY <1>1, <1>2 DEF Config!Over, Config!Configs
<1>4. ~Config!Accepted(c, f) \/ ~Config!Opens(c)
  BY <1>2, <1>3 DEF Config!Start, Begun, Config!ApplyEnv
<1> HIDE DEF c
<1>5. Config!Overridden(<<>>, f) = {}
  BY <1>2 DEF Config!Overridden
<1>6. /\ Config!ApplyFlags(c, f) \in Config!Configs
      /\ \A k \in Config!Fields : Config!ApplyFlags(c, f)[k] = c[k]
  BY <1>1, <1>5, Flagged
<1>7. Config!ApplyFlags(c, f) = c
  BY <1>1, <1>6 DEF Config!Configs
<1>8. ~Config!Valid(c) \/ ~Config!Opens(c)
  BY <1>4, <1>7 DEF Config!Accepted
<1> QED BY <1>8 DEF c

\* A config over itself: what is in the file is what a start loads.
LEMMA LoadedWhole ==
    ASSUME BootInv, NEW c \in Config!Configs, file' = c
    PROVE  \A k \in Config!Fields : (Config!Load')[k] = c[k]
<1>1. c # Missing /\ DOMAIN c = Config!Fields /\ Config!Typed(c)
  BY DiskAssumption DEF Config!BootAssumption, Config!Configs
<1>2. Config!Load' = Config!Over(c, Config!Default)
  BY <1>1 DEF Config!Load
<1> QED BY <1>1, <1>2, DefaultValid, Merged

\* An edit of the dashboard swaps a sound config in.
LEMMA Swapped ==
    ASSUME BootInv, NEW c \in Config!Configs, Sound(c), Config!Swap(c)
    PROVE  BootInv'
<1>1. /\ process = "on" /\ ~powerLost /\ editing = "idle" /\ liveConfig' = c /\ editing' = "swapped"
      /\ UNCHANGED <<process, file, onDisk, env, flags, answered, powerLost>>
  BY DEF BootInv, Config!Swap
<1>2. Saved(answered) /\ Saved(answered)'
  BY <1>1 DEF BootInv, Resumes, Saved, Config!Load
<1>3. Resumes'
  BY <1>1, <1>2 DEF Resumes, Saved
<1> QED BY <1>1, <1>3 DEF BootInv, FileOK

\* Its steps after that: the file is replaced, or is not, and the request answered.
LEMMA Written ==
    ASSUME BootInv, Config!Rename \/ Config!WriteFails \/ Config!Answer
    PROVE  BootInv'
<1>1. /\ process = "on" /\ ~powerLost /\ editing' \in {"idle", "renamed"}
      /\ UNCHANGED <<process, onDisk, env, flags, liveConfig, powerLost>>
  BY DEF BootInv, Config!Rename, Config!WriteFails, Config!Answer
<1>2. liveConfig \in Config!Configs /\ Sound(liveConfig)
  BY <1>1 DEF BootInv
<1>3. CASE Config!Rename
  <2>1. file' = liveConfig /\ editing' = "renamed" /\ answered' = answered
    BY <1>3 DEF Config!Rename
  <2>2. Saved(liveConfig)'
    BY <1>1, <1>2, <2>1, LoadedWhole DEF Saved, Config!Agree
  <2>3. Resumes'
    BY <2>1, <2>2 DEF Resumes
  <2> QED BY <1>1, <1>2, <2>1, <2>3 DEF BootInv, FileOK
<1>4. CASE Config!WriteFails \/ Config!Answer
  <2>1. file' = file /\ editing' = "idle" /\ Config!Load' = Config!Load
    BY <1>4 DEF Config!WriteFails, Config!Answer, Config!Load
  <2>2. Saved(answered)'
    <3>1. CASE Config!WriteFails
      <4>1. Saved(answered) /\ answered' = answered
        BY <3>1 DEF Config!WriteFails, BootInv, Resumes
      <4> QED BY <1>1, <2>1, <4>1 DEF Saved
    <3>2. CASE Config!Answer
      <4>1. Saved(liveConfig) /\ answered' = liveConfig
        BY <3>2 DEF Config!Answer, BootInv, Resumes
      <4> QED BY <1>1, <2>1, <4>1 DEF Saved
    <3> QED BY <1>4, <3>1, <3>2
  <2>3. Resumes'
    BY <2>1, <2>2 DEF Resumes
  <2> QED BY <1>1, <1>2, <2>1, <2>3 DEF BootInv, FileOK
<1> QED BY <1>3, <1>4

\* Every step keeps the invariant.
LEMMA BootNext == BootInv /\ [Config!Next]_(Config!vars) => BootInv'
<1> SUFFICES ASSUME BootInv, [Config!Next]_(Config!vars) PROVE BootInv'
  OBVIOUS
<1>1. ASSUME NEW e \in Envs, NEW f \in Flags, Config!Start(e, f) PROVE BootInv'
  <2>1. FileOK(file') /\ FileOK(onDisk')
    BY <1>1, Starts DEF BootInv, FileOK
  <2>2. Config!Load' = Config!Load
    BY <1>1, Starts DEF Config!Load
  <2>3. CASE Begun(e, f)
    <3>1. /\ env' = e /\ flags' = f /\ answered' = liveConfig' /\ editing' = "idle"
          /\ \A k \in Config!Fields \ Config!Overridden(e, f) : liveConfig'[k] = Config!Load[k]
      BY <1>1, <2>3, Starts DEF Begun, BootInv
    <3>2. Saved(liveConfig)' /\ Saved(answered)'
      BY <2>2, <3>1 DEF Saved, Config!Agree
    <3>3. Resumes'
      BY <3>2 DEF Resumes
    <3> QED BY <1>1, <2>1, <2>3, <3>1, <3>3, Starts DEF BootInv, Begun, FileOK
  <2>4. CASE ~Begun(e, f)
    BY <1>1, <2>1, <2>4, Starts DEF BootInv, FileOK
  <2> QED BY <2>3, <2>4
<1>2. ASSUME NEW b \in Bodies, Config!handlePutConfig(b) PROVE BootInv'
  <2>1. DOMAIN b \subseteq Config!Fields /\ Config!Typed(b) /\ liveConfig \in Config!Configs
    BY <1>2, DiskAssumption DEF Config!BootAssumption, BootInv, Config!handlePutConfig
  <2>2. Config!Over(b, liveConfig) \in Config!Configs
    BY <2>1, Merged
  <2> QED BY <1>2, <2>2, ValidSound, Swapped DEF Config!handlePutConfig
<1>3. ASSUME Config!setRunning \/ Config!handleDev PROVE BootInv'
  <2>1. liveConfig \in Config!Configs /\ Sound(liveConfig)
    BY <1>3 DEF BootInv, Config!setRunning, Config!handleDev
  <2>2. PICK b \in BOOLEAN : \/ Config!Swap([liveConfig EXCEPT !.running = b])
                            \/ Config!Swap([liveConfig EXCEPT !.dev_enabled = b])
    BY <1>3 DEF Config!setRunning, Config!handleDev
  <2> QED BY <2>1, <2>2, SwitchSound, Swapped
<1>4. CASE Config!Rename \/ Config!WriteFails \/ Config!Answer
  BY <1>4, Written
<1>5. CASE Config!WriteBack
  BY <1>5 DEF Config!WriteBack, BootInv, FileOK, Resumes, Saved, Config!Load
<1>6. CASE Config!Ends
  BY <1>6 DEF Config!Ends, BootInv, FileOK, Resumes, Saved, Config!Load
<1>7. CASE Config!PowerLoss
  BY <1>7 DEF Config!PowerLoss, BootInv, FileOK
<1>8. CASE UNCHANGED Config!vars
  BY <1>8 DEF Config!vars, BootInv, FileOK, Resumes, Saved, Config!Load
<1> QED BY <1>1, <1>2, <1>3, <1>4, <1>5, <1>6, <1>7, <1>8 DEF Config!Next

\* The first part of StartsOnUsable is SoundRelied; why a start gave up is the second.
Causes ==
    process = "fatal" =>
        \/ file = TornFile \/ (file \in Files /\ ~Config!Valid(Config!Load))
        \/ env # <<>> \/ flags # <<>>
        \/ Config!Load.dev_enabled /\ ~Config!DevValid(Config!Load)
        \/ ~Config!Opens(Config!Load)

\* Whatever gave up had a cause, and keeps it.
LEMMA CausesNext == BootInv /\ Causes /\ [Config!Next]_(Config!vars) => Causes'
<1> SUFFICES ASSUME BootInv, Causes, [Config!Next]_(Config!vars), process' = "fatal" PROVE Causes'
  BY DEF Causes
<1>1. ASSUME NEW e \in Envs, NEW f \in Flags, Config!Start(e, f) PROVE Causes'
  <2> SUFFICES ASSUME e = <<>>, f = <<>>, file # TornFile, Config!Opens(Config!Load),
                      file \notin Files \/ Config!Valid(Config!Load)
               PROVE  Config!Load.dev_enabled /\ ~Config!DevValid(Config!Load)
    BY <1>1, Starts DEF Causes, Config!Load, Config!Opens
  <2>1. ~Begun(e, f)
    BY DEF Begun
  <2>2. ~Config!Valid(Config!Load)
    BY <1>1, <2>1, Refused
  <2>3. Config!Load \in Config!Configs /\ Sound(Config!Load)
    BY <2>2, Loaded DEF BootInv
  <2> QED BY <2>2, <2>3, ValidSound
<1>2. CASE \/ \E b \in Bodies : Config!handlePutConfig(b)
           \/ Config!setRunning \/ Config!handleDev \/ Config!Rename \/ Config!WriteFails
           \/ Config!Answer \/ Config!Ends \/ Config!PowerLoss
  BY <1>2 DEF Config!handlePutConfig, Config!setRunning, Config!handleDev, Config!Swap,
    Config!Rename, Config!WriteFails, Config!Answer, Config!Ends, Config!PowerLoss
<1>3. CASE Config!WriteBack
  BY <1>3 DEF Config!WriteBack, Causes, Config!Load, Config!Opens
<1>4. CASE UNCHANGED Config!vars
  BY <1>4 DEF Config!vars, Causes, Config!Load, Config!Opens
<1> QED BY <1>1, <1>2, <1>3, <1>4 DEF Config!Next

\* The invariants hold at first, the file being as an operator wrote it.
LEMMA BootInit == Config!Init => BootInv /\ Causes
  BY DEF Config!Init, BootInv, Causes, FileOK

\* What StartsOnUsable is made of.
LEMMA UsableFollows == BootInv /\ Causes => StartsOnUsable
  BY SoundRelied DEF BootInv, Causes, StartsOnUsable, Config!StartsOnUsable

\* A restart finds in the file what was answered, or live.
LEMMA KeepsFollows ==
    BootInv /\ [Config!Next]_(Config!vars) =>
        (process = "off" /\ process' = "on" /\ ~powerLost =>
            LET kept == Config!Fields \ (Config!Overridden(env, flags)
                                           \cup Config!Overridden(env', flags'))
            IN  \/ Config!Agree(liveConfig', answered, kept)
                \/ Config!Agree(liveConfig', liveConfig, kept))
<1> DEFINE kept == Config!Fields \ (Config!Overridden(env, flags) \cup Config!Overridden(env', flags'))
<1> SUFFICES ASSUME BootInv, [Config!Next]_(Config!vars), process = "off", process' = "on", ~powerLost
             PROVE  \/ Config!Agree(liveConfig', answered, kept)
                    \/ Config!Agree(liveConfig', liveConfig, kept)
  BY Zenon
<1>1. PICK e \in Envs, f \in Flags : Config!Start(e, f)
  BY DEF Config!Next, Config!vars, Config!handlePutConfig, Config!setRunning, Config!handleDev,
    Config!Swap, Config!Rename, Config!WriteFails, Config!Answer, Config!WriteBack, Config!Ends,
    Config!PowerLoss
<1>2. Begun(e, f) /\ env' = e /\ flags' = f
  BY <1>1, Starts
<1>3. \A k \in kept : liveConfig'[k] = Config!Load[k]
  BY <1>1, <1>2, Starts
<1>4. Saved(liveConfig) \/ Saved(answered)
  BY DEF BootInv, Resumes
<1> QED BY <1>3, <1>4 DEF Saved, Config!Agree

\* In Boot itself: see StartsOnUsable.
LEMMA BootUsable == Config!Spec => []StartsOnUsable
<1>1. BootInv /\ Causes /\ [Config!Next]_(Config!vars) => (BootInv /\ Causes)'
  BY BootNext, CausesNext
<1> QED BY <1>1, BootInit, UsableFollows, PTL DEF Config!Spec
-----------------------------------------------------------------------------
(* The audit log (AuditLog).                                               *)

AuditRecord == [id : Nat \ {0}, was : BOOLEAN, to : BOOLEAN]

Requests == {Records!None} \cup [at : {"got"}, was : BOOLEAN, to : BOOLEAN]
              \cup [at : {"audit"}, rec : AuditRecord]

AuditTypeOK ==
    /\ running \in BOOLEAN /\ unended \in BOOLEAN /\ crossed \in BOOLEAN
    /\ req \in [Handlers -> Requests]
    /\ log \in Seq(AuditRecord \cup {Records!Garbled})
    /\ changed \in Seq(AuditRecord)
    /\ dropped \in Nat /\ torn \in Nat

\* A record is in the log once, or with one request that is to append it, or nowhere.
IdsOnce ==
    /\ Records!Readable \subseteq 1..Len(changed)
    /\ \A i, j \in DOMAIN log :
          Records!Whole(log[i]) /\ Records!Whole(log[j]) /\ log[i].id = log[j].id => i = j
    /\ \A h \in Records!Unlogged :
          /\ req[h].rec.id \in 1..Len(changed) \ Records!Readable
          /\ \A g \in Records!Unlogged : req[g].rec.id = req[h].rec.id => g = h

\* A line without its newline has been paid for by the write that tore it, and when
\* it parses, the record it will lose has been too.
Slack == IF ~unended THEN 0 ELSE IF Records!Whole(log[Len(log)]) THEN 2 ELSE 1

Counted ==
    /\ unended => log # <<>>
    /\ Len(changed) + Slack <=
          Cardinality(Records!Readable) + Cardinality(Records!Unlogged) + dropped + torn

\* Requests served one after the other see what the one before left, and as long as
\* no append was lost the log lacks at most the newest change.
Chained ==
    ~crossed =>
       /\ \A i \in 1..Len(changed) - 1 : changed[i].to = changed[i + 1].was
       /\ changed # <<>> => changed[Len(changed)].to = running
       /\ \A h \in Handlers : Records!Serving(h, "got") => req[h].was = running

Complete ==
    /\ dropped = 0 => ~unended
    /\ dropped = 0 /\ ~crossed =>
          \/ Records!Unlogged = {} /\ log = changed
          \/ \E h \in Handlers : Records!Unlogged = {h} /\ changed = Append(log, req[h].rec)

AuditInv == AuditTypeOK /\ IdsOnce /\ Counted /\ Chained /\ Complete

\* A request that was got or made is a record of its fields, and what it is not
\* serving it is not.
LEMMA RequestParts ==
    ASSUME AuditTypeOK, NEW h \in Handlers
    PROVE  /\ Records!Serving(h, "none") => req[h] = Records!None
           /\ Records!Serving(h, "got") => req[h].was \in BOOLEAN /\ req[h].to \in BOOLEAN
           /\ Records!Serving(h, "audit") => req[h].rec \in AuditRecord
           /\ Records!Serving(h, "none") \/ Records!Serving(h, "got") \/ Records!Serving(h, "audit")
  BY DEF AuditTypeOK, Requests, Records!Serving, Records!None

\* No change that was made is the line that does not parse.
LEMMA WholeRecord == \A r \in AuditRecord : r # Records!Garbled /\ Records!Whole(r)
<1> SUFFICES ASSUME NEW r \in AuditRecord PROVE r.id # 0
  BY DEF Records!Garbled, Records!Whole
<1> QED BY DEF AuditRecord

\* Finite, and how many, are the same in every module.
LEMMA FiniteSame ==
    \A S : (Records!IsFiniteSet(S) <=> IsFiniteSet(S)) /\ Records!Cardinality(S) = Cardinality(S)
<1>1. \A S : Records!IsFiniteSet(S) <=> IsFiniteSet(S)
  BY DEF Records!IsFiniteSet, IsFiniteSet
<1>2. \A S : Records!Cardinality(S) = Cardinality(S)
  BY DEF Records!Cardinality, Cardinality
<1> QED BY <1>1, <1>2

\* The sets that are counted are finite.
LEMMA Countable ==
    ASSUME AuditTypeOK, IdsOnce
    PROVE  /\ IsFiniteSet(Records!Readable) /\ Cardinality(Records!Readable) \in Nat
           /\ IsFiniteSet(Records!Unlogged) /\ Cardinality(Records!Unlogged) \in Nat
<1>1. Len(changed) \in Nat
  BY DEF AuditTypeOK
<1>2. IsFiniteSet(1..Len(changed))
  BY <1>1, FS_Interval
<1>3. Records!Unlogged \subseteq Handlers /\ IsFiniteSet(Handlers)
  BY DiskAssumption, FiniteSame DEF Records!Unlogged, Records!AuditLogAssumption
<1> QED BY <1>2, <1>3, FS_Subset, FS_CardinalityType DEF IdsOnce

Lines == AuditRecord \cup {Records!Garbled}

\* The ids that a log can be read for, and that it has each once.
Read(s) == {s[i].id : i \in {j \in DOMAIN s : Records!Whole(s[j])}}

Once(s) ==
    \A i, j \in DOMAIN s : Records!Whole(s[i]) /\ Records!Whole(s[j]) /\ s[i].id = s[j].id => i = j

\* A line more.
LEMMA LineAdded ==
    ASSUME NEW s \in Seq(Lines), Once(s), NEW text \in Lines,
           Records!Whole(text) => text.id \notin Read(s)
    PROVE  LET t == Append(s, text) IN
           /\ t \in Seq(Lines) /\ Once(t) /\ t # <<>> /\ t[Len(t)] = text
           /\ Read(t) = Read(s) \cup (IF Records!Whole(text) THEN {text.id} ELSE {})
<1> DEFINE t == Append(s, text)
<1>1. /\ t \in Seq(Lines) /\ t # <<>> /\ Len(s) \in Nat
      /\ DOMAIN s = 1..Len(s) /\ DOMAIN t = 1..Len(s) + 1 /\ Len(t) = Len(s) + 1
      /\ \A i \in 1..Len(s) : t[i] = s[i]
      /\ t[Len(s) + 1] = text
  OBVIOUS
<1> HIDE DEF t
<1>2. \A i \in DOMAIN t : (i \in DOMAIN s /\ t[i] = s[i]) \/ (i = Len(s) + 1 /\ t[i] = text)
  BY <1>1
<1>3. Once(t)
  <2>1. \A i \in DOMAIN s : Records!Whole(s[i]) /\ Records!Whole(text) => s[i].id # text.id
    BY DEF Read
  <2> QED BY <1>1, <1>2, <2>1 DEF Once
<1>4. Len(s) + 1 \in DOMAIN t /\ DOMAIN s \subseteq DOMAIN t
  BY <1>1
<1>5. Read(t) = Read(s) \cup (IF Records!Whole(text) THEN {text.id} ELSE {})
  BY <1>1, <1>2, <1>4 DEF Read
<1> QED BY <1>1, <1>3, <1>5 DEF t

\* The last line does not parse any more.
LEMMA LineGarbled ==
    ASSUME NEW s \in Seq(Lines), Once(s), s # <<>>
    PROVE  LET t == [s EXCEPT ![Len(s)] = Records!Garbled] IN
           /\ t \in Seq(Lines) /\ Once(t) /\ t # <<>> /\ ~Records!Whole(t[Len(t)])
           /\ Read(t) = Read(s) \ (IF Records!Whole(s[Len(s)]) THEN {s[Len(s)].id} ELSE {})
<1> DEFINE t == [s EXCEPT ![Len(s)] = Records!Garbled]
<1>0. Len(s) \in 1..Len(s) /\ DOMAIN s = 1..Len(s) /\ Len(s) \in Nat
  OBVIOUS
<1>1. t \in [1..Len(s) -> Lines]
  BY <1>0 DEF Lines
<1>2. t \in Seq(Lines) /\ DOMAIN t = DOMAIN s /\ Len(t) = Len(s) /\ t # <<>>
  BY <1>0, <1>1
<1>3. t[Len(s)] = Records!Garbled /\ \A i \in DOMAIN s \ {Len(s)} : t[i] = s[i]
  BY <1>0
<1>4. ~Records!Whole(t[Len(s)])
  BY <1>3 DEF Records!Whole
<1> HIDE DEF t
<1>5. Once(t)
  BY <1>2, <1>3, <1>4 DEF Once
<1>6. Read(t) = {s[i].id : i \in {j \in DOMAIN s \ {Len(s)} : Records!Whole(s[j])}}
  BY <1>2, <1>3, <1>4 DEF Read
<1>7. \A i \in DOMAIN s \ {Len(s)} :
         Records!Whole(s[i]) /\ Records!Whole(s[Len(s)]) => s[i].id # s[Len(s)].id
  BY <1>0 DEF Once
<1>8. Read(t) = Read(s) \ (IF Records!Whole(s[Len(s)]) THEN {s[Len(s)].id} ELSE {})
  BY <1>0, <1>6, <1>7 DEF Read
<1> QED BY <1>2, <1>4, <1>5, <1>8 DEF t

\* An append, whole or torn, to the log as it is.
Adds(text) ==
    /\ log' = IF unended THEN [log EXCEPT ![Len(log)] = Records!Garbled] ELSE Append(log, text)
    /\ \/ unended' = FALSE /\ Records!Whole(text)
       \/ unended' = TRUE

\* What an append leaves readable, and how many.
LEMMA Added ==
    ASSUME AuditTypeOK, IdsOnce, Counted, NEW text \in Lines, Adds(text),
           Records!Whole(text) => text.id \in 1..Len(changed) \ Records!Readable
    PROVE  /\ log' \in Seq(Lines) /\ log' # <<>> /\ Once(log')
           /\ Read(log') \subseteq Read(log) \cup (IF Records!Whole(text) THEN {text.id} ELSE {})
           /\ Slack' \in 0..2 /\ Slack \in 0..2
           /\ Cardinality(Read(log)) \in Nat /\ Cardinality(Read(log')) \in Nat
           /\ ~unended' => Slack' = 0 /\ Cardinality(Read(log')) = Cardinality(Read(log)) + 1 - Slack
           /\ unended' => Cardinality(Read(log')) + Slack + 1 >= Cardinality(Read(log)) + Slack'
<1>1. /\ log \in Seq(Lines) /\ Once(log) /\ Records!Readable = Read(log)
      /\ IsFiniteSet(Read(log)) /\ Cardinality(Read(log)) \in Nat
  BY Countable DEF AuditTypeOK, Lines, IdsOnce, Once, Read, Records!Readable
<1>2. CASE unended
  <2>1. log # <<>> /\ log' = [log EXCEPT ![Len(log)] = Records!Garbled]
    BY <1>2 DEF Counted, Adds
  <2>2. /\ log' \in Seq(Lines) /\ Once(log') /\ log' # <<>> /\ ~Records!Whole(log'[Len(log')])
        /\ Read(log') = Read(log) \ (IF Records!Whole(log[Len(log)]) THEN {log[Len(log)].id} ELSE {})
    BY <1>1, <2>1, LineGarbled
  <2>3. Records!Whole(log[Len(log)]) => log[Len(log)].id \in Read(log)
    <3>1. Len(log) \in DOMAIN log
      BY <1>1, <2>1
    <3> QED BY <3>1 DEF Read
  <2>4. /\ Cardinality(Read(log')) \in Nat
        /\ Cardinality(Read(log')) = Cardinality(Read(log)) - (IF Records!Whole(log[Len(log)]) THEN 1 ELSE 0)
    <3>1. CASE Records!Whole(log[Len(log)])
      <4>1. /\ Read(log') = Read(log) \ {log[Len(log)].id} /\ log[Len(log)].id \in Read(log)
        BY <2>2, <2>3, <3>1
      <4> DEFINE R == Read(log)
                 x == log[Len(log)].id
      <4>2. IsFiniteSet(R) /\ x \in R
        BY <1>1, <4>1
      <4> HIDE DEF R, x
      <4>3. IsFiniteSet(R \ {x}) /\ Cardinality(R \ {x}) = Cardinality(R) - 1
        BY <4>2, FS_RemoveElement
      <4>4. IsFiniteSet(Read(log')) /\ Cardinality(Read(log')) = Cardinality(Read(log)) - 1
        BY <4>1, <4>3 DEF R, x
      <4>5. Cardinality(Read(log')) \in Nat
        BY <4>4, FS_CardinalityType
      <4> QED BY <3>1, <4>4, <4>5
    <3>2. CASE ~Records!Whole(log[Len(log)])
      <4>1. Read(log') = Read(log)
        BY <2>2, <3>2
      <4> QED BY <1>1, <3>2, <4>1
    <3> QED BY <3>1, <3>2
  <2>5. Slack = IF Records!Whole(log[Len(log)]) THEN 2 ELSE 1
    BY <1>2 DEF Slack
  <2>6. unended' \in BOOLEAN /\ Slack' = IF unended' THEN 1 ELSE 0
    BY <2>2 DEF Slack, Adds
  <2> QED BY <1>1, <2>2, <2>4, <2>5, <2>6
<1>3. CASE ~unended
  <2>1. log' = Append(log, text)
    BY <1>3 DEF Adds
  <2>2. /\ log' \in Seq(Lines) /\ Once(log') /\ log' # <<>> /\ log'[Len(log')] = text
        /\ Read(log') = Read(log) \cup (IF Records!Whole(text) THEN {text.id} ELSE {})
    BY <1>1, <2>1, LineAdded
  <2>3. Records!Whole(text) => text.id \notin Read(log)
    BY <1>1
  <2>4. /\ Cardinality(Read(log')) \in Nat
        /\ Cardinality(Read(log')) = Cardinality(Read(log)) + (IF Records!Whole(text) THEN 1 ELSE 0)
    <3>1. CASE Records!Whole(text)
      <4>1. Read(log') = Read(log) \cup {text.id} /\ text.id \notin Read(log)
        BY <2>2, <2>3, <3>1
      <4>2. Cardinality(Read(log) \cup {text.id}) = Cardinality(Read(log)) + 1
        BY <1>1, <4>1, FS_AddElement
      <4> QED BY <1>1, <3>1, <4>1, <4>2
    <3>2. CASE ~Records!Whole(text)
      <4>1. Read(log') = Read(log)
        BY <2>2, <3>2
      <4> QED BY <1>1, <3>2, <4>1
    <3> QED BY <3>1, <3>2
  <2>5. Slack = 0
    BY <1>3 DEF Slack
  <2>6. /\ unended' \in BOOLEAN /\ (~unended' => Records!Whole(text))
        /\ Slack' = IF unended' THEN (IF Records!Whole(text) THEN 2 ELSE 1) ELSE 0
    BY <2>2 DEF Slack, Adds
  <2> QED BY <1>1, <2>2, <2>4, <2>5, <2>6
<1> QED BY <1>2, <1>3

\* What is left to append when one request is done with, or one more has changed.
LEMMA UnloggedChanges ==
    ASSUME AuditTypeOK, IdsOnce, NEW h \in Handlers, NEW r,
           req' = [req EXCEPT ![h] = r]
    PROVE  /\ Records!Serving(h, "audit") /\ r.at # "audit" =>
                /\ Records!Unlogged' = Records!Unlogged \ {h} /\ h \in Records!Unlogged
                /\ Cardinality(Records!Unlogged') = Cardinality(Records!Unlogged) - 1
           /\ ~Records!Serving(h, "audit") /\ r.at = "audit" =>
                /\ Records!Unlogged' = Records!Unlogged \cup {h} /\ h \notin Records!Unlogged
                /\ Cardinality(Records!Unlogged') = Cardinality(Records!Unlogged) + 1
           /\ ~Records!Serving(h, "audit") /\ r.at # "audit" => Records!Unlogged' = Records!Unlogged
           /\ Cardinality(Records!Unlogged') \in Nat
           /\ \A g \in Handlers : req'[g] = IF g = h THEN r ELSE req[g]
<1>1. \A g \in Handlers : req'[g] = IF g = h THEN r ELSE req[g]
  BY DEF AuditTypeOK
<1>2. /\ Records!Serving(h, "audit") /\ r.at # "audit" =>
           Records!Unlogged' = Records!Unlogged \ {h} /\ h \in Records!Unlogged
      /\ ~Records!Serving(h, "audit") /\ r.at = "audit" =>
           Records!Unlogged' = Records!Unlogged \cup {h} /\ h \notin Records!Unlogged
      /\ ~Records!Serving(h, "audit") /\ r.at # "audit" => Records!Unlogged' = Records!Unlogged
  BY <1>1 DEF Records!Unlogged, Records!Serving
<1>3. IsFiniteSet(Records!Unlogged)
  BY Countable
<1> DEFINE U == Records!Unlogged
           V == Records!Unlogged'
<1>4. /\ U \ {h} = V /\ h \in U => Cardinality(V) = Cardinality(U) - 1
      /\ U \cup {h} = V /\ h \notin U => Cardinality(V) = Cardinality(U) + 1
  <2>1. IsFiniteSet(U)
    BY <1>3
  <2> HIDE DEF U, V
  <2> QED BY <2>1, FS_RemoveElement, FS_AddElement
<1>5. IsFiniteSet(V)
  <2>1. V \subseteq Handlers /\ IsFiniteSet(Handlers)
    BY DiskAssumption, FiniteSame DEF Records!Unlogged, Records!AuditLogAssumption
  <2> QED BY <2>1, FS_Subset
<1>6. Cardinality(V) \in Nat
  BY <1>5, FS_CardinalityType
<1> QED BY <1>1, <1>2, <1>4, <1>6

\* A request is read in.
LEMMA AuditGet == ASSUME AuditInv, NEW h \in Handlers, Records!Get(h) PROVE AuditInv'
<1> USE DEF AuditInv
<1>1. PICK v \in BOOLEAN : req' = [req EXCEPT ![h] = [at |-> "got", was |-> running, to |-> v]]
  BY DEF Records!Get, Records!Goes
<1> DEFINE r == [at |-> "got", was |-> running, to |-> v]
<1>2. /\ UNCHANGED <<running, log, unended, changed, dropped, torn, crossed>>
      /\ ~Records!Serving(h, "audit") /\ r.at # "audit"
  BY DEF Records!Get, Records!Serving
<1>3. /\ Records!Unlogged' = Records!Unlogged
      /\ \A g \in Handlers : req'[g] = IF g = h THEN r ELSE req[g]
  BY <1>1, <1>2, UnloggedChanges
<1>4. AuditTypeOK'
  <2>1. r \in Requests
    BY DEF AuditTypeOK, Requests
  <2> QED BY <1>1, <1>2, <2>1 DEF AuditTypeOK
<1>5. \A g \in Records!Unlogged : req'[g] = req[g]
  BY <1>2, <1>3 DEF Records!Unlogged
<1>6. IdsOnce'
  BY <1>2, <1>3, <1>5 DEF IdsOnce, Records!Readable
<1>7. Counted'
  BY <1>2, <1>3 DEF Counted, Slack, Records!Readable
<1>8. Chained'
  BY <1>2, <1>3 DEF Chained, Records!Serving
<1>9. Complete'
  <2> SUFFICES ASSUME dropped = 0, ~crossed
      PROVE  \/ Records!Unlogged = {} /\ log = changed
             \/ \E g \in Handlers : Records!Unlogged = {g} /\ changed = Append(log, req'[g].rec)
    BY <1>2, <1>3 DEF Complete
  <2> QED BY <1>5 DEF Complete
<1> QED BY <1>4, <1>6, <1>7, <1>8, <1>9

\* The live config is changed.
LEMMA AuditUpdate == ASSUME AuditInv, NEW h \in Handlers, Records!Update(h) PROVE AuditInv'
<1> USE DEF AuditInv
<1> DEFINE c == Records!Record(h, req[h].was)
           r == [at |-> "audit", rec |-> c]
           n == Len(changed)
<1>1. /\ running' = req[h].to /\ changed' = Append(changed, c)
      /\ req' = [req EXCEPT ![h] = r]
      /\ crossed' = (crossed \/ Records!Others(h))
      /\ UNCHANGED <<log, unended, dropped, torn>>
      /\ Records!Serving(h, "got")
  BY DEF Records!Update, Records!Goes
<1>2. req[h].was \in BOOLEAN /\ req[h].to \in BOOLEAN
  BY <1>1, RequestParts
<1>3. /\ n \in Nat /\ c = [id |-> n + 1, was |-> req[h].was, to |-> req[h].to]
      /\ c \in AuditRecord
  BY <1>2 DEF AuditTypeOK, Records!Record, AuditRecord
<1> HIDE DEF c
<1>4. ~Records!Serving(h, "audit") /\ r.at = "audit"
  BY <1>1 DEF Records!Serving
<1>5. /\ Records!Unlogged' = Records!Unlogged \cup {h} /\ h \notin Records!Unlogged
      /\ Cardinality(Records!Unlogged') = Cardinality(Records!Unlogged) + 1
      /\ \A g \in Handlers : req'[g] = IF g = h THEN r ELSE req[g]
  BY <1>1, <1>4, UnloggedChanges
<1>6. /\ changed' \in Seq(AuditRecord) /\ Len(changed') = n + 1 /\ changed'[n + 1] = c
      /\ \A i \in 1..n : changed'[i] = changed[i]
      /\ changed' # <<>>
  BY <1>1, <1>3 DEF AuditTypeOK
<1>7. AuditTypeOK'
  <2>1. r \in Requests
    BY <1>3 DEF Requests
  <2> QED BY <1>1, <1>2, <1>6, <2>1 DEF AuditTypeOK
<1>8. \A g \in Records!Unlogged : req'[g] = req[g] /\ g \in Handlers
  BY <1>5 DEF Records!Unlogged
<1>9. Records!Readable' = Records!Readable
  BY <1>1 DEF Records!Readable
<1>10. IdsOnce'
  <2>1. Records!Readable' \subseteq 1..Len(changed')
    BY <1>3, <1>6, <1>9 DEF IdsOnce
  <2>2. ASSUME NEW g \in Records!Unlogged'
        PROVE  /\ req'[g].rec.id \in 1..Len(changed') \ Records!Readable'
               /\ \A k \in Records!Unlogged' : req'[k].rec.id = req'[g].rec.id => k = g
    <3>1. req'[h].rec.id = n + 1 /\ n + 1 \notin Records!Readable
      BY <1>3, <1>5 DEF IdsOnce
    <3>2. \A k \in Records!Unlogged :
             /\ req'[k].rec.id \in 1..n \ Records!Readable
             /\ \A l \in Records!Unlogged : req'[k].rec.id = req'[l].rec.id => k = l
      BY <1>8 DEF IdsOnce
    <3> QED BY <1>3, <1>5, <1>6, <1>9, <3>1, <3>2
  <2> QED BY <1>1, <2>1, <2>2 DEF IdsOnce
<1>11. Counted'
  <2>1. Slack' = Slack
    BY <1>1 DEF Slack
  <2>2. Slack \in 0..2 /\ Cardinality(Records!Readable) \in Nat /\ Cardinality(Records!Unlogged) \in Nat
    BY Countable DEF Slack
  <2> QED BY <1>1, <1>3, <1>5, <1>6, <1>9, <2>1, <2>2, SMTT(60) DEF Counted, AuditTypeOK
<1>12. ASSUME ~crossed'
       PROVE  ~crossed /\ \A g \in Handlers \ {h} : Records!Serving(g, "none")
  BY <1>1, <1>12 DEF Records!Others, AuditTypeOK
<1>13. Chained'
  <2> SUFFICES ASSUME ~crossed'
      PROVE  /\ \A i \in 1..Len(changed') - 1 : changed'[i].to = changed'[i + 1].was
             /\ changed'[Len(changed')].to = running'
             /\ \A g \in Handlers : Records!Serving(g, "got")' => req'[g].was = running'
    BY DEF Chained
  <2>1. ~crossed /\ \A g \in Handlers \ {h} : Records!Serving(g, "none")
    BY <1>12
  <2>2. req[h].was = running
    BY <1>1, <2>1 DEF Chained
  <2>3. ASSUME NEW i \in 1..n PROVE changed'[i].to = changed'[i + 1].was
    <3>1. CASE i = n
      BY <1>3, <1>6, <2>1, <2>2, <3>1 DEF Chained, AuditTypeOK
    <3>2. CASE i # n
      <4>1. i \in 1..n - 1 /\ i + 1 \in 1..n
        BY <1>3, <3>2
      <4> QED BY <1>6, <2>1, <4>1 DEF Chained
    <3> QED BY <3>1, <3>2
  <2>4. \A g \in Handlers : ~Records!Serving(g, "got")'
    BY <1>5, <2>1 DEF Records!Serving
  <2>5. 1..Len(changed') - 1 = 1..n
    BY <1>3, <1>6
  <2> QED BY <1>1, <1>3, <1>6, <2>3, <2>4, <2>5
<1>14. Complete'
  <2> SUFFICES ASSUME dropped = 0, ~crossed'
      PROVE  \E g \in Handlers : Records!Unlogged' = {g} /\ changed' = Append(log', req'[g].rec)
    BY <1>1 DEF Complete
  <2>1. Records!Unlogged = {} /\ log = changed
    BY <1>1, <1>12 DEF Complete, Records!Unlogged, Records!Serving
  <2>2. req'[h].rec = c
    BY <1>5
  <2> QED BY <1>1, <1>5, <2>1, <2>2
<1> QED BY <1>7, <1>10, <1>11, <1>13, <1>14

\* After an append, of the record of a request that is then done with, or torn by a
\* kill: ids stay single as long as the requests left are others.
LEMMA AddedOnce ==
    ASSUME AuditInv, NEW h \in Records!Unlogged, NEW text \in {Records!Garbled, req[h].rec}, Adds(text),
           UNCHANGED changed, Records!Unlogged' \subseteq Records!Unlogged \ {h},
           \A g \in Records!Unlogged' : req'[g] = req[g]
    PROVE  IdsOnce' /\ text \in Lines /\ (Records!Whole(text) => text.id \in 1..Len(changed) \ Records!Readable)
<1> USE DEF AuditInv
<1>1. h \in Handlers /\ req[h].rec \in AuditRecord
  BY RequestParts DEF Records!Unlogged
<1>2. /\ text \in Lines
      /\ Records!Whole(text) => text = req[h].rec /\ text.id \in 1..Len(changed) \ Records!Readable
  BY <1>1 DEF Lines, IdsOnce, Records!Whole
<1>3. /\ Once(log') /\ Read(log') \subseteq Read(log) \cup (IF Records!Whole(text) THEN {text.id} ELSE {})
  BY <1>2, Added
<1>4. Records!Readable = Read(log) /\ Records!Readable' = Read(log')
  BY DEF Records!Readable, Read
<1>5. ASSUME NEW g \in Records!Unlogged'
      PROVE  /\ req'[g].rec.id \in 1..Len(changed) \ Read(log')
             /\ \A k \in Records!Unlogged' : req'[k].rec.id = req'[g].rec.id => k = g
  <2>1. /\ req'[g] = req[g] /\ g \in Records!Unlogged /\ g # h
        /\ \A k \in Records!Unlogged' : req'[k] = req[k] /\ k \in Records!Unlogged
    OBVIOUS
  <2>2. req[g].rec.id \in 1..Len(changed) \ Read(log) /\ req[g].rec.id # req[h].rec.id
    BY <1>4, <2>1 DEF IdsOnce
  <2>3. \A k \in Records!Unlogged : req[k].rec.id = req[g].rec.id => k = g
    BY <2>1 DEF IdsOnce
  <2> QED BY <1>2, <1>3, <2>1, <2>2, <2>3
<1>6. Read(log') \subseteq 1..Len(changed)
  BY <1>2, <1>3, <1>4 DEF IdsOnce
<1>7. IdsOnce'
  BY <1>3, <1>4, <1>5, <1>6 DEF IdsOnce, Once
<1> QED BY <1>2, <1>7

\* A record is appended.
LEMMA AuditAppend == ASSUME AuditInv, NEW h \in Handlers, Records!AppendAudit(h) PROVE AuditInv'
<1> USE DEF AuditInv
<1> DEFINE text == req[h].rec
<1>1. /\ Records!Serving(h, "audit") /\ h \in Records!Unlogged /\ unended' = FALSE
      /\ log' = IF unended THEN [log EXCEPT ![Len(log)] = Records!Garbled] ELSE Append(log, text)
      /\ req' = [req EXCEPT ![h] = Records!None]
      /\ UNCHANGED <<running, changed, dropped, torn, crossed>>
  BY DEF Records!AppendAudit, Records!Goes, Records!Unlogged
<1>2. Records!None.at # "audit" /\ Records!None.at # "got"
  BY DEF Records!None
<1>3. /\ Records!Unlogged' = Records!Unlogged \ {h}
      /\ Cardinality(Records!Unlogged') = Cardinality(Records!Unlogged) - 1
      /\ \A g \in Handlers : req'[g] = IF g = h THEN Records!None ELSE req[g]
  BY <1>1, <1>2, UnloggedChanges
<1>4. \A g \in Records!Unlogged' : req'[g] = req[g]
  BY <1>3 DEF Records!Unlogged
<1>5. text \in AuditRecord /\ Records!Whole(text)
  BY <1>1, RequestParts, WholeRecord
<1>6. Adds(text)
  BY <1>1, <1>5 DEF Adds
<1>7. IdsOnce' /\ text \in Lines /\ text.id \in 1..Len(changed) \ Records!Readable
  BY <1>1, <1>3, <1>4, <1>5, <1>6, AddedOnce
<1>8. /\ log' \in Seq(Lines) /\ Slack \in 0..2 /\ Slack' = 0
      /\ Cardinality(Read(log)) \in Nat
      /\ Cardinality(Read(log')) = Cardinality(Read(log)) + 1 - Slack
  BY <1>1, <1>6, <1>7, Added
<1>9. AuditTypeOK'
  BY <1>1, <1>8 DEF AuditTypeOK, Lines, Requests
<1>10. Counted'
  <2>1. Records!Readable = Read(log) /\ Records!Readable' = Read(log')
    BY DEF Records!Readable, Read
  <2>2. Cardinality(Records!Unlogged) \in Nat /\ Len(changed) \in Nat
    BY Countable DEF AuditTypeOK
  <2> QED BY <1>1, <1>3, <1>8, <2>1, <2>2 DEF Counted, AuditTypeOK
<1>11. Chained'
  BY <1>1, <1>2, <1>3 DEF Chained, Records!Serving
<1>12. Complete'
  <2> SUFFICES ASSUME dropped = 0, ~crossed PROVE Records!Unlogged' = {} /\ log' = changed
    BY <1>1 DEF Complete
  <2>1. PICK g \in Handlers : Records!Unlogged = {g} /\ changed = Append(log, req[g].rec)
    BY <1>1 DEF Complete
  <2>2. ~unended /\ g = h
    BY <1>1, <2>1 DEF Complete
  <2> QED BY <1>1, <1>3, <2>1, <2>2
<1> QED BY <1>7, <1>9, <1>10, <1>11, <1>12

\* An append fails, torn or not at all, or a kill tears one.
LEMMA AuditTears ==
    ASSUME AuditInv, NEW h \in Records!Unlogged, Records!Tears(req[h].rec),
           UNCHANGED changed, Records!Unlogged' \subseteq Records!Unlogged \ {h},
           \A g \in Records!Unlogged' : req'[g] = req[g]
    PROVE  /\ IdsOnce' /\ log' \in Seq(Lines) /\ log' # <<>> /\ unended' = TRUE /\ torn' = torn + 1
           /\ Slack' \in 0..2 /\ Slack \in 0..2
           /\ Cardinality(Records!Readable) \in Nat /\ Cardinality(Records!Readable') \in Nat
           /\ Cardinality(Records!Readable') + Slack + 1 >= Cardinality(Records!Readable) + Slack'
<1> USE DEF AuditInv
<1>1. PICK text \in {Records!Garbled, req[h].rec} : Adds(text)
  <2>1. CASE unended
    BY <2>1 DEF Records!Tears, Adds
  <2>2. CASE ~unended
    BY <2>2 DEF Records!Tears, Adds
  <2> QED BY <2>1, <2>2
<1>2. unended' = TRUE /\ torn' = torn + 1
  BY DEF Records!Tears
<1>3. IdsOnce' /\ text \in Lines /\ (Records!Whole(text) => text.id \in 1..Len(changed) \ Records!Readable)
  BY <1>1, AddedOnce
<1>4. Records!Readable = Read(log) /\ Records!Readable' = Read(log')
  BY DEF Records!Readable, Read
<1> QED BY <1>1, <1>2, <1>3, <1>4, Added

\* The numbers of Counted when a line is torn.
Tearing(l, k, j, r, s, u, d, t) ==
    /\ {l, k, j, r, s, u, d, t} \subseteq Nat
    /\ l + k <= r + u + d + t /\ s + k + 1 >= r + j

\* A tear pays for itself.
LEMMA Paid ==
    \A l, k, j, r, s, u, d, t : Tearing(l, k, j, r, s, u, d, t) =>
       /\ l + j <= s + (u - 1) + (d + 1) + (t + 1)
       /\ l + j <= s + 0 + (d + u) + (t + 1)
  BY DEF Tearing

\* An append fails; the request is done with.
LEMMA AuditFails == ASSUME AuditInv, NEW h \in Handlers, Records!AppendFails(h) PROVE AuditInv'
<1> USE DEF AuditInv
<1>1. /\ Records!Serving(h, "audit") /\ h \in Records!Unlogged /\ dropped' = dropped + 1
      /\ req' = [req EXCEPT ![h] = Records!None]
      /\ Records!Tears(req[h].rec) \/ UNCHANGED <<log, unended, torn>>
      /\ UNCHANGED <<running, changed, crossed>>
  BY DEF Records!AppendFails, Records!Goes, Records!Unlogged
<1>2. Records!None.at # "audit" /\ Records!None.at # "got"
  BY DEF Records!None
<1>3. /\ Records!Unlogged' = Records!Unlogged \ {h}
      /\ Cardinality(Records!Unlogged') = Cardinality(Records!Unlogged) - 1
      /\ \A g \in Handlers : req'[g] = IF g = h THEN Records!None ELSE req[g]
  BY <1>1, <1>2, UnloggedChanges
<1>4. \A g \in Records!Unlogged' : req'[g] = req[g]
  BY <1>3 DEF Records!Unlogged
<1>5. /\ Cardinality(Records!Unlogged) \in Nat /\ Len(changed) \in Nat /\ dropped \in Nat /\ torn \in Nat
      /\ Cardinality(Records!Readable) \in Nat
  BY Countable DEF AuditTypeOK
<1>6. Chained'
  BY <1>1, <1>2, <1>3 DEF Chained, Records!Serving
<1>7. Complete'
  BY <1>1, <1>5 DEF Complete
<1>8. req' \in [Handlers -> Requests]
  BY <1>1 DEF AuditTypeOK, Requests
<1>9. CASE UNCHANGED <<log, unended, torn>>
  <2>1. Records!Readable' = Records!Readable /\ Slack' = Slack /\ Slack \in 0..2
    BY <1>9 DEF Records!Readable, Slack
  <2>2. IdsOnce'
    BY <1>1, <1>3, <1>4, <1>9, <2>1 DEF IdsOnce
  <2>3. Counted'
    BY <1>1, <1>3, <1>5, <1>9, <2>1 DEF Counted
  <2>4. AuditTypeOK'
    BY <1>1, <1>5, <1>8, <1>9 DEF AuditTypeOK
  <2> QED BY <1>6, <1>7, <2>2, <2>3, <2>4
<1>10. CASE Records!Tears(req[h].rec)
  <2>1. /\ IdsOnce' /\ log' \in Seq(Lines) /\ log' # <<>> /\ unended' = TRUE /\ torn' = torn + 1
        /\ Slack' \in 0..2 /\ Slack \in 0..2 /\ Cardinality(Records!Readable') \in Nat
        /\ Cardinality(Records!Readable') + Slack + 1 >= Cardinality(Records!Readable) + Slack'
    BY <1>1, <1>3, <1>4, <1>10, AuditTears
  <2>2. Counted'
    <3>1. Len(changed') = Len(changed) /\ dropped' = dropped + 1
      BY <1>1
    <3>2. Len(changed) + Slack <=
             Cardinality(Records!Readable) + Cardinality(Records!Unlogged) + dropped + torn
      BY DEF Counted
    <3>3. Len(changed) + Slack' <=
             Cardinality(Records!Readable') + (Cardinality(Records!Unlogged) - 1) + (dropped + 1) + (torn + 1)
      <4>1. Tearing(Len(changed), Slack, Slack', Cardinality(Records!Readable), Cardinality(Records!Readable'),
                    Cardinality(Records!Unlogged), dropped, torn)
        BY ONLY <1>5, <2>1, <3>2, SMTT(60) DEF Tearing
      <4> QED BY ONLY <4>1, Paid
    <3>4. Len(changed') + Slack' <=
             Cardinality(Records!Readable') + Cardinality(Records!Unlogged') + dropped' + torn'
      BY ONLY <1>3, <2>1, <3>1, <3>3
    <3> QED BY <2>1, <3>4 DEF Counted
  <2>3. AuditTypeOK'
    BY <1>1, <1>5, <1>8, <2>1 DEF AuditTypeOK, Lines
  <2> QED BY <1>6, <1>7, <2>1, <2>2, <2>3
<1> QED BY <1>1, <1>9, <1>10

\* The process is killed, perhaps within a write.
LEMMA AuditKill == ASSUME AuditInv, Records!Kill PROVE AuditInv'
<1> USE DEF AuditInv
<1>1. /\ dropped' = dropped + Cardinality(Records!Unlogged)
      /\ req' = [h \in Handlers |-> Records!None]
      /\ \/ UNCHANGED <<log, unended, torn>>
         \/ \E h \in Records!Unlogged : Records!Tears(req[h].rec)
      /\ UNCHANGED <<running, changed, crossed>>
  BY FiniteSame DEF Records!Kill
<1>2. Records!Unlogged' = {} /\ \A h \in Handlers : ~Records!Serving(h, "got")'
  BY <1>1 DEF Records!Unlogged, Records!Serving, Records!None
<1>3. Cardinality(Records!Unlogged') = 0
  BY <1>2, FS_EmptySet
<1>4. /\ Cardinality(Records!Unlogged) \in Nat /\ Len(changed) \in Nat /\ dropped \in Nat /\ torn \in Nat
      /\ Cardinality(Records!Readable) \in Nat /\ IsFiniteSet(Records!Unlogged)
  BY Countable DEF AuditTypeOK
<1>5. dropped' = 0 => dropped = 0 /\ Records!Unlogged = {}
  BY <1>1, <1>4, FS_EmptySet
<1>6. Chained'
  BY <1>1, <1>2 DEF Chained
<1>7. req' \in [Handlers -> Requests] /\ dropped' \in Nat
  BY <1>1, <1>4 DEF AuditTypeOK, Requests
<1>8. CASE UNCHANGED <<log, unended, torn>>
  <2>1. Records!Readable' = Records!Readable /\ Slack' = Slack /\ Slack \in 0..2
    BY <1>8 DEF Records!Readable, Slack
  <2>2. IdsOnce'
    BY <1>1, <1>2, <1>8, <2>1 DEF IdsOnce
  <2>3. Counted'
    BY <1>1, <1>3, <1>4, <1>8, <2>1 DEF Counted
  <2>4. AuditTypeOK'
    BY <1>1, <1>4, <1>7, <1>8 DEF AuditTypeOK
  <2>5. Complete'
    BY <1>1, <1>2, <1>5, <1>8 DEF Complete
  <2> QED BY <1>6, <2>2, <2>3, <2>4, <2>5
<1>9. ASSUME NEW h \in Records!Unlogged, Records!Tears(req[h].rec) PROVE AuditInv'
  <2>1. /\ IdsOnce' /\ log' \in Seq(Lines) /\ log' # <<>> /\ unended' = TRUE /\ torn' = torn + 1
        /\ Slack' \in 0..2 /\ Slack \in 0..2 /\ Cardinality(Records!Readable') \in Nat
        /\ Cardinality(Records!Readable') + Slack + 1 >= Cardinality(Records!Readable) + Slack'
    BY <1>1, <1>2, <1>9, AuditTears
  <2>2. Counted'
    <3>1. Len(changed') = Len(changed) /\ dropped' = dropped + Cardinality(Records!Unlogged)
      BY <1>1
    <3>2. Len(changed) + Slack <=
             Cardinality(Records!Readable) + Cardinality(Records!Unlogged) + dropped + torn
      BY DEF Counted
    <3>3. Len(changed) + Slack' <=
             Cardinality(Records!Readable') + 0 + (dropped + Cardinality(Records!Unlogged)) + (torn + 1)
      <4>1. Tearing(Len(changed), Slack, Slack', Cardinality(Records!Readable), Cardinality(Records!Readable'),
                    Cardinality(Records!Unlogged), dropped, torn)
        BY ONLY <1>4, <2>1, <3>2, SMTT(60) DEF Tearing
      <4> QED BY ONLY <4>1, Paid
    <3>4. Len(changed') + Slack' <=
             Cardinality(Records!Readable') + Cardinality(Records!Unlogged') + dropped' + torn'
      BY ONLY <1>3, <2>1, <3>1, <3>3
    <3> QED BY <2>1, <3>4 DEF Counted
  <2>3. AuditTypeOK'
    BY <1>1, <1>4, <1>7, <2>1 DEF AuditTypeOK, Lines
  <2>4. Complete'
    BY <1>5 DEF Complete
  <2> QED BY <1>6, <2>1, <2>2, <2>3, <2>4
<1> QED BY <1>1, <1>8, <1>9

\* Every step keeps the invariant.
LEMMA AuditNext == AuditInv /\ [Records!Next]_(Records!vars) => AuditInv'
<1> SUFFICES ASSUME AuditInv, [Records!Next]_(Records!vars) PROVE AuditInv'
  OBVIOUS
<1>1. CASE UNCHANGED Records!vars
  BY <1>1 DEF Records!vars, AuditInv, AuditTypeOK, IdsOnce, Counted, Slack, Chained, Complete,
    Records!Readable, Records!Unlogged, Records!Serving
<1> QED BY <1>1, AuditGet, AuditUpdate, AuditAppend, AuditFails, AuditKill DEF Records!Next

\* It holds of an empty log.
LEMMA AuditInit == Records!Init => AuditInv
<1> SUFFICES ASSUME Records!Init PROVE AuditInv
  OBVIOUS
<1> USE DEF Records!Init
<1>1. Records!Unlogged = {} /\ Records!Readable = {} /\ \A h \in Handlers : ~Records!Serving(h, "got")
  BY DEF Records!Unlogged, Records!Serving, Records!None, Records!Readable
<1>2. Cardinality({}) = 0
  BY FS_EmptySet
<1>3. AuditTypeOK
  <2>1. log \in Seq(AuditRecord \cup {Records!Garbled}) /\ changed \in Seq(AuditRecord)
    OBVIOUS
  <2>2. req \in [Handlers -> Requests]
    BY DEF Requests
  <2> QED BY <2>1, <2>2 DEF AuditTypeOK
<1> QED BY <1>1, <1>2, <1>3 DEF AuditInv, IdsOnce, Counted, Slack, Chained, Complete

\* What the invariant says of the log as it can be read.
LEMMA TornFollows == AuditInv => TornCostsOneRecord
<1> SUFFICES ASSUME AuditInv PROVE TornCostsOneRecord
  OBVIOUS
<1>1. /\ Cardinality(Records!Readable) \in Nat /\ Cardinality(Records!Unlogged) \in Nat /\ Slack \in 0..2
      /\ Len(changed) \in Nat /\ dropped \in Nat /\ torn \in Nat
  BY Countable DEF AuditInv, AuditTypeOK, Slack
<1>2. Len(changed) <= Cardinality(Records!Readable) + Cardinality(Records!Unlogged) + dropped + torn
  BY <1>1 DEF AuditInv, Counted
<1> QED BY <1>2, FiniteSame DEF AuditInv, IdsOnce, TornCostsOneRecord, Records!TornCostsOneRecord

\* The answer to a request for every record, and for the newest, of a log that has
\* every change.
LEMMA HistoryFollows == AuditInv => HistoryIsTrue
<1> SUFFICES ASSUME AuditInv, Records!Idle, dropped = 0, ~crossed
             PROVE  /\ \A i \in 1..Len(Records!Answered) - 1 :
                          Records!Answered[i].to = Records!Answered[i + 1].was
                    /\ Records!Audit(1).records # <<>> =>
                          Records!Last(Records!Audit(1).records).to = running
  BY DEF HistoryIsTrue, Records!HistoryIsTrue
<1>1. Records!Unlogged = {}
  BY DEF Records!Idle, Records!Unlogged, Records!Serving
<1>2. log = changed /\ changed \in Seq(AuditRecord)
  BY <1>1 DEF AuditInv, Complete, AuditTypeOK
<1>3. \A i \in DOMAIN log : Records!Whole(log[i])
  BY <1>2, WholeRecord
<1>4. Records!Answered = log
  BY <1>3 DEF Records!Answered, Records!Audit
<1>5. Records!Audit(1).records = IF 1 >= Len(log) THEN log ELSE SubSeq(log, Len(log), Len(log))
  BY <1>2, <1>3 DEF Records!Audit
<1>6. log # <<>> => Records!Last(Records!Audit(1).records) = log[Len(log)]
  <2>1. CASE Len(log) > 1
    <3> DEFINE s == SubSeq(log, Len(log), Len(log))
    <3>1. Len(log) \in Nat /\ log \in Seq(AuditRecord)
      BY <1>2
    <3>2. Len(s) = 1 /\ s[1] = log[Len(log)]
      BY <2>1, <3>1, SubSeqProperties
    <3>3. Records!Audit(1).records = s
      <4>1. ~(1 >= Len(log))
        BY <2>1, <3>1
      <4> QED BY <1>5, <4>1
    <3> QED BY <3>2, <3>3 DEF Records!Last
  <2>2. CASE Len(log) <= 1
    BY <1>2, <1>5, <2>2 DEF Records!Last
  <2> QED BY <1>2, <2>1, <2>2
<1>7. log = <<>> => Records!Audit(1).records = <<>>
  BY <1>5
<1> QED BY <1>2, <1>4, <1>6, <1>7 DEF AuditInv, Chained

\* In AuditLog itself: see TornCostsOneRecord and HistoryIsTrue.
LEMMA AuditLogHolds == Records!Spec => [](TornCostsOneRecord /\ HistoryIsTrue)
  BY AuditNext, AuditInit, TornFollows, HistoryFollows, PTL DEF Records!Spec

-----------------------------------------------------------------------------
(* The log and its backups (LogRotation).  The bytes of a file are a fold  *)
(* over its lines.                                                         *)

N == INSTANCE FoldTheorems WITH Values <- Nat, Base <- 0, Op <- +

Entry == [id : Nat \ {0}, len : Nat \ {0}]

LineLengths(g) == [i \in DOMAIN g |-> g[i].len]

\* Addition does not care about the order, and the sums of LogRotation are folds.
LEMMA BytesAreFold ==
    /\ N!Orderless /\ \A S : N!IsFiniteSet(S) <=> IsFiniteSet(S)
    /\ \A g : Rotation!Bytes(g) = N!Fold(LineLengths(g), DOMAIN g)
<1>1. N!Orderless /\ \A S : N!IsFiniteSet(S) <=> IsFiniteSet(S)
  BY DEF N!Orderless, N!IsFiniteSet, IsFiniteSet
<1>2. \A f, S : Rotation!SumFunctionOnSet(f, S) = N!Fold(f, S)
  BY DEF Rotation!SumFunctionOnSet, Rotation!FoldFunctionOnSet, N!Fold,
    Rotation!MapThenFoldSet, N!MapThenFoldSet
<1>3. \A g : DOMAIN LineLengths(g) = DOMAIN g
  BY DEF LineLengths
<1>4. \A g : Rotation!Bytes(g) = Rotation!SumFunctionOnSet(LineLengths(g), DOMAIN LineLengths(g))
  BY DEF Rotation!Bytes, Rotation!SumFunction, LineLengths
<1> QED BY <1>1, <1>2, <1>3, <1>4

\* An empty file has no bytes.
LEMMA NoBytes == Rotation!Bytes(<<>>) = 0
<1>1. DOMAIN <<>> = {}
  OBVIOUS
<1> QED BY <1>1, BytesAreFold, N!FoldEmpty

\* The bytes of a file are a number, and none only in an empty one.
LEMMA SomeBytes ==
    ASSUME NEW g \in Seq(Entry)
    PROVE  /\ Rotation!Bytes(g) \in Nat
           /\ Rotation!Bytes(g) = 0 <=> g = <<>>
<1> DEFINE f == LineLengths(g)
           S == DOMAIN g
<1>1. /\ S = 1..Len(g) /\ Len(g) \in Nat
      /\ \A i \in S : f[i] \in Nat \ {0}
  <2>1. S = 1..Len(g) /\ Len(g) \in Nat
    OBVIOUS
  <2>2. \A i \in S : g[i] \in Entry
    OBVIOUS
  <2> QED BY <2>1, <2>2 DEF LineLengths, Entry
<1>2. IsFiniteSet(S)
  BY <1>1, FS_Interval
<1>3. \A i \in S : f[i] \in Nat
  BY <1>1
<1>4. Rotation!Bytes(g) = N!Fold(f, S)
  BY BytesAreFold
<1> HIDE DEF f, S
<1>5. N!Fold(f, S) \in Nat
  BY <1>2, <1>3, BytesAreFold, N!FoldType
<1>6. CASE g = <<>>
  BY <1>6, NoBytes
<1>7. CASE g # <<>>
  <2>1. 1 \in S
    BY <1>1, <1>7
  <2>2. N!Fold(f, S) = f[1] + N!Fold(f, S \ {1})
    BY <1>2, <1>3, <2>1, BytesAreFold, N!FoldRemove
  <2>3. N!Fold(f, S \ {1}) \in Nat
    <3>1. IsFiniteSet(S \ {1}) /\ \A i \in S \ {1} : f[i] \in Nat
      BY <1>2, <1>3, FS_RemoveElement
    <3> QED BY <3>1, BytesAreFold, N!FoldType
  <2>4. f[1] \in Nat \ {0}
    BY <1>1, <2>1
  <2>5. N!Fold(f, S) # 0
    BY <2>2, <2>3, <2>4
  <2> QED BY <1>4, <1>5, <1>7, <2>5
<1> QED BY <1>6, <1>7

\* A line more adds its length.
LEMMA BytesAppended ==
    ASSUME NEW g \in Seq(Entry), NEW e \in Entry
    PROVE  Rotation!Bytes(Append(g, e)) = Rotation!Bytes(g) + e.len
<1> DEFINE f == LineLengths(g)
           h == LineLengths(Append(g, e))
           S == DOMAIN g
           n == Len(g) + 1
<1>1. /\ S = 1..Len(g) /\ Len(g) \in Nat /\ n \notin S /\ DOMAIN Append(g, e) = S \cup {n}
      /\ \A i \in S : Append(g, e)[i] = g[i]
      /\ Append(g, e)[n] = e
  OBVIOUS
<1>2. /\ \A i \in S : f[i] \in Nat /\ h[i] = f[i]
      /\ h[n] = e.len /\ e.len \in Nat
  <2>1. \A i \in S : g[i] \in Entry /\ i \in S \cup {n} /\ n \in S \cup {n}
    OBVIOUS
  <2>2. n \in S \cup {n} /\ e.len \in Nat
    BY DEF Entry
  <2>3. /\ \A i \in S : f[i] = g[i].len /\ g[i].len \in Nat
        /\ \A i \in S \cup {n} : h[i] = Append(g, e)[i].len
    BY <1>1, <2>1 DEF LineLengths, Entry
  <2> QED BY <1>1, <2>1, <2>2, <2>3
<1>3. IsFiniteSet(S)
  BY <1>1, FS_Interval
<1>4. Rotation!Bytes(g) = N!Fold(f, S) /\ Rotation!Bytes(Append(g, e)) = N!Fold(h, S \cup {n})
  BY <1>1, BytesAreFold
<1>5. n \notin S
  BY <1>1
<1> HIDE DEF f, h, S, n
<1>6. N!Fold(h, S \cup {n}) = h[n] + N!Fold(h, S)
  BY <1>2, <1>3, <1>5, BytesAreFold, N!FoldAdd
<1>7. N!Fold(h, S) = N!Fold(f, S)
  BY <1>2, <1>3, BytesAreFold, N!FoldSame
<1>8. N!Fold(f, S) \in Nat
  BY <1>2, <1>3, BytesAreFold, N!FoldType
<1> QED BY <1>2, <1>4, <1>6, <1>7, <1>8

-----------------------------------------------------------------------------
(* The invariant of the log: types, where a record is on its way, the      *)
(* order of the lines, sizes, and what rotation may have dropped.          *)

LogTypeOK ==
    /\ step \in {"off", "idle", "write", "truncate", "drop", "shift", "reopen"}
    /\ maxBackups \in Nat /\ open \in BOOLEAN /\ size \in Nat /\ at \in Nat
    /\ DOMAIN gen \subseteq 0..maxBackups
    /\ \A g \in DOMAIN gen : gen[g] \in Seq(Entry)
    /\ line \in [id : Nat, len : Nat]
    /\ stderr \subseteq Nat /\ next \in Nat \ {0}
    /\ kills \in Nat /\ faults \in Nat

InFlight == step \notin {"off", "idle"}

\* A rotation is under way when the file is full up to one record; its steps go where
\* maxBackups sends them, and the file is closed until it is written to again.
StepOK ==
    /\ InFlight => line \in Entry /\ line.len \in Lengths /\ line.id < next
    /\ step = "truncate" => maxBackups = 0
    /\ step \in {"drop", "shift", "reopen"} => maxBackups > 0
    /\ step = "shift" => at \in 1..maxBackups
    /\ step \in {"drop", "shift"} =>
          0 \in DOMAIN gen /\ gen[0] # <<>> /\ Rotation!Bytes(gen[0]) + line.len > MaxSize
    /\ step = "reopen" => 0 \notin DOMAIN gen
    /\ step \notin {"idle", "write"} => ~open
    /\ step = "write" /\ open /\ MaxSize > 0 => size = 0 \/ size + line.len <= MaxSize

Fits(s) == MaxSize > 0 => Rotation!Bytes(s) <= MaxSize \/ Len(s) = 1

Full(s) == s # <<>> /\ \E n \in Lengths : Rotation!Bytes(s) + n > MaxSize

SizeInv ==
    /\ open => 0 \in DOMAIN gen /\ size = Rotation!Bytes(gen[0])
    /\ \A g \in DOMAIN gen : Fits(gen[g])
    /\ \A g \in DOMAIN gen \ {0} : Full(gen[g])

\* The lines of a file are in order, those of one file before those of another, and
\* those of a file below an id.
Sorted(s) == \A i, j \in DOMAIN s : i < j => s[i].id < s[j].id
Before(s, t) == \A i \in DOMAIN s, j \in DOMAIN t : s[i].id < t[j].id
Under(s, n) == \A i \in DOMAIN s : s[i].id < n

OrderInv ==
    /\ \A g \in DOMAIN gen : Sorted(gen[g]) /\ Under(gen[g], next)
    /\ \A g, h \in DOMAIN gen : g > h => Before(gen[g], gen[h])
    /\ \A i \in stderr : i < next
    /\ InFlight =>
          /\ \A g \in DOMAIN gen : Under(gen[g], line.id)
          /\ \A i \in stderr : i < line.id

IdsIn(s) == {s[i].id : i \in DOMAIN s}

\* What a rotation drops is the oldest there is, and the place it moves a file to is
\* free, as long as no call failed.
KeptInv ==
    faults = 0 =>
       /\ Rotation!Kept \subseteq stderr
       /\ step = "shift" => at \notin DOMAIN gen
       /\ maxBackups > 0 /\ stderr # {} => Rotation!Kept # {}
       /\ maxBackups > 0 => \A i \in stderr \ Rotation!Kept, k \in Rotation!Kept : i < k

\* The backups there are when m files have been shifted out of the live one, and while
\* a rotation moves a hole through them.
Backed(m) ==
    IF step = "shift"
    THEN /\ m < maxBackups
         /\ DOMAIN gen \ {0} = (IF at <= m THEN (1..m + 1) \ {at} ELSE 1..m)
         /\ ~(stderr \subseteq Rotation!Kept) => m = maxBackups - 1
    ELSE /\ m <= maxBackups
         /\ DOMAIN gen \ {0} = 1..m
         /\ ~(stderr \subseteq Rotation!Kept) => m = maxBackups

BackedInv == faults + kills = 0 => \E m \in Nat : Backed(m)

LogInv == LogTypeOK /\ StepOK /\ SizeInv /\ OrderInv /\ KeptInv /\ BackedInv

\* Begin, with the file as it is.
LEMMA Begins ==
    ASSUME LogTypeOK, NEW l \in Entry, Rotation!Begin(l)
    PROVE  /\ \/ /\ step' = "write" /\ open' = open
                 /\ MaxSize > 0 => size = 0 \/ size + l.len <= MaxSize
              \/ step' = "idle" /\ open' = FALSE
              \/ /\ MaxSize > 0 /\ size > 0 /\ size + l.len > MaxSize
                 /\ open /\ open' = FALSE
                 /\ \/ step' = "truncate" /\ maxBackups = 0
                    \/ step' = "drop" /\ maxBackups > 0
           /\ kills' = kills /\ faults' \in {faults, faults + 1}
<1>1. MaxSize \in Nat /\ size \in Nat /\ l.len \in Nat /\ maxBackups \in Nat /\ open \in BOOLEAN
  BY DiskAssumption DEF Rotation!LogAssumption, LogTypeOK, Entry
<1> QED BY <1>1 DEF Rotation!Begin, Rotation!TooBig, Rotation!Fault, Rotation!NoFault

\* What the directory is after each call.
LEMMA CreatedIs ==
    /\ DOMAIN Rotation!Created = DOMAIN gen \cup {0}
    /\ \A g \in DOMAIN gen : Rotation!Created[g] = gen[g]
    /\ 0 \notin DOMAIN gen => Rotation!Created[0] = <<>>
<1>1. CASE 0 \in DOMAIN gen
  BY <1>1 DEF Rotation!Created
<1>2. CASE 0 \notin DOMAIN gen
  BY <1>2 DEF Rotation!Created
<1> QED BY <1>1, <1>2

\* A line appended to the live file.
LEMMA AppendedIs ==
    ASSUME LogTypeOK, 0 \in DOMAIN gen, NEW e, gen' = [gen EXCEPT ![0] = Append(@, e)]
    PROVE  /\ DOMAIN gen' = DOMAIN gen
           /\ gen'[0] = Append(gen[0], e)
           /\ \A g \in DOMAIN gen \ {0} : gen'[g] = gen[g]
  OBVIOUS

\* A file that is removed.
LEMMA WithoutIs ==
    ASSUME NEW i
    PROVE  /\ DOMAIN Rotation!Without(i) = DOMAIN gen \ {i}
           /\ \A g \in DOMAIN gen \ {i} : Rotation!Without(i)[g] = gen[g]
  BY DEF Rotation!Without

\* A file that is renamed.
LEMMA RenamedIs ==
    ASSUME NEW i, NEW j, i # j, i \in DOMAIN gen, gen' = Rotation!Renamed(i, j)
    PROVE  /\ DOMAIN gen' = (DOMAIN gen \ {i}) \cup {j}
           /\ gen'[j] = gen[i]
           /\ \A g \in DOMAIN gen \ {i, j} : gen'[g] = gen[g]
  BY DEF Rotation!Renamed

\* A file with nothing in it.
LEMMA EmptyFile ==
    /\ <<>> \in Seq(Entry) /\ Sorted(<<>>) /\ IdsIn(<<>>) = {}
    /\ \A n : Under(<<>>, n)
    /\ \A s : Before(s, <<>>) /\ Before(<<>>, s)
    /\ Fits(<<>>)
<1>1. DOMAIN <<>> = {} /\ <<>> \in Seq(Entry)
  OBVIOUS
<1>2. Fits(<<>>)
  BY NoBytes, DiskAssumption DEF Fits, Rotation!LogAssumption
<1> QED BY <1>1, <1>2 DEF Sorted, IdsIn, Under, Before

\* A file with a line more.
LEMMA LongerFile ==
    ASSUME NEW s \in Seq(Entry), NEW e \in Entry
    PROVE  /\ Append(s, e) \in Seq(Entry)
           /\ Sorted(s) /\ Under(s, e.id) => Sorted(Append(s, e))
           /\ IdsIn(Append(s, e)) = IdsIn(s) \cup {e.id}
           /\ \A n : Under(s, n) /\ e.id < n => Under(Append(s, e), n)
           /\ \A r : Before(r, s) /\ Under(r, e.id) => Before(r, Append(s, e))
<1> DEFINE t == Append(s, e)
           m == Len(s) + 1
<1>1. /\ t \in Seq(Entry) /\ Len(s) \in Nat /\ DOMAIN s = 1..Len(s) /\ DOMAIN t = 1..m
      /\ \A i \in DOMAIN s : t[i] = s[i]
      /\ t[m] = e
  OBVIOUS
<1>2. DOMAIN t = DOMAIN s \cup {m} /\ m \notin DOMAIN s /\ \A i \in DOMAIN s : i < m
  BY <1>1
<1>3. \A i, j \in DOMAIN t : i < j => i \in DOMAIN s
  BY <1>1
<1> HIDE DEF t, m
<1>4. Sorted(s) /\ Under(s, e.id) => Sorted(t)
  BY <1>1, <1>2, <1>3 DEF Sorted, Under
<1>5. IdsIn(t) = IdsIn(s) \cup {e.id}
  <2>1. \A k : (\E i \in DOMAIN t : k = t[i].id) <=> (\E i \in DOMAIN s : k = s[i].id) \/ k = e.id
    BY <1>1, <1>2
  <2> QED BY <2>1 DEF IdsIn
<1>6. \A n : Under(s, n) /\ e.id < n => Under(t, n)
  BY <1>1, <1>2 DEF Under
<1>7. \A r : Before(r, s) /\ Under(r, e.id) => Before(r, t)
  BY <1>1, <1>2 DEF Before, Under
<1> QED BY <1>1, <1>4, <1>5, <1>6, <1>7 DEF t

\* A start continues the file there is.
LEMMA LogStart ==
    ASSUME LogTypeOK, StepOK, SizeInv, Rotation!Start PROVE (LogTypeOK /\ StepOK /\ SizeInv)'
<1> USE DEF LogTypeOK, StepOK, SizeInv, InFlight
<1>1. /\ step' = "idle" /\ open' = TRUE /\ gen' = Rotation!Created /\ size' = Rotation!Bytes(gen'[0])
      /\ UNCHANGED <<maxBackups, at, line, stderr, next, kills, faults>>
  BY DEF Rotation!Start, Rotation!Goes, Rotation!history
<1>2. /\ DOMAIN gen' = DOMAIN gen \cup {0}
      /\ \A g \in DOMAIN gen : gen'[g] = gen[g]
      /\ 0 \notin DOMAIN gen => gen'[0] = <<>>
  BY <1>1, CreatedIs
<1>3. \A g \in DOMAIN gen' : gen'[g] \in Seq(Entry) /\ Fits(gen'[g])
  BY <1>2, EmptyFile
<1>4. size' \in Nat
  BY <1>1, <1>2, <1>3, SomeBytes
<1> QED BY <1>1, <1>2, <1>3, <1>4

\* A record comes in.
LEMMA LogRecord ==
    ASSUME LogTypeOK, StepOK, SizeInv, Rotation!Record PROVE (LogTypeOK /\ StepOK /\ SizeInv)'
<1> USE DEF LogTypeOK, StepOK, SizeInv, InFlight
<1>1. /\ step = "idle" /\ next' = next + 1 /\ Rotation!Begin(line')
      /\ UNCHANGED <<maxBackups, gen, size, at, stderr>>
  BY DEF Rotation!Record
<1>2. PICK n \in Lengths : line' = [id |-> next, len |-> n]
  BY DEF Rotation!Record
<1>3. n \in Nat \ {0}
  BY DiskAssumption DEF Rotation!LogAssumption
<1>4. line' \in Entry /\ line'.len \in Lengths /\ line'.id < next' /\ line' \in [id : Nat, len : Nat]
  BY <1>1, <1>2, <1>3 DEF Entry
<1>5. /\ step' \in {"idle", "write", "truncate", "drop"} /\ open' \in BOOLEAN /\ (open' => open)
      /\ step' \notin {"idle", "write"} => ~open'
      /\ kills' = kills /\ faults' \in {faults, faults + 1}
  BY <1>1, <1>4, Begins
<1>6. LogTypeOK' /\ SizeInv'
  <2>1. LogTypeOK'
    BY <1>1, <1>4, <1>5
  <2>2. SizeInv'
    BY <1>1, <1>5 DEF Fits, Full
  <2> QED BY <2>1, <2>2
<1>7. step' = "write" /\ open' /\ MaxSize > 0 => size = 0 \/ size + line'.len <= MaxSize
  BY <1>1, <1>4, Begins
<1>8. step' = "truncate" => maxBackups = 0
  BY <1>1, <1>4, Begins
<1>9. step' = "drop" =>
         maxBackups > 0 /\ 0 \in DOMAIN gen /\ gen[0] # <<>> /\ Rotation!Bytes(gen[0]) + line'.len > MaxSize
  <2> SUFFICES ASSUME step' = "drop"
      PROVE  maxBackups > 0 /\ 0 \in DOMAIN gen /\ gen[0] # <<>> /\ Rotation!Bytes(gen[0]) + line'.len > MaxSize
    OBVIOUS
  <2>1. maxBackups > 0 /\ open /\ size > 0 /\ size + line'.len > MaxSize
    BY <1>1, <1>4, Begins
  <2>2. 0 \in DOMAIN gen /\ gen[0] \in Seq(Entry) /\ Rotation!Bytes(gen[0]) = size
    BY <2>1
  <2>3. gen[0] # <<>>
    BY <2>1, <2>2, SomeBytes
  <2> QED BY <2>1, <2>2, <2>3
<1>10. StepOK'
  BY <1>1, <1>4, <1>5, <1>7, <1>8, <1>9
<1> QED BY <1>6, <1>10

\* The live file with a line more, whole or not.
LEMMA LogAppend ==
    ASSUME LogTypeOK, StepOK, SizeInv, step = "write", open, step' = "idle", open' = open,
           NEW e \in Entry, e.len <= line.len,
           gen' = [gen EXCEPT ![0] = Append(@, e)], size' = size + e.len,
           UNCHANGED <<maxBackups, at, line, next, kills>>,
           stderr' \subseteq Nat, faults' \in Nat
    PROVE  (LogTypeOK /\ StepOK /\ SizeInv)'
<1> USE DEF LogTypeOK, StepOK, SizeInv, InFlight
<1>1. 0 \in DOMAIN gen /\ gen[0] \in Seq(Entry) /\ size = Rotation!Bytes(gen[0])
  OBVIOUS
<1>2. /\ DOMAIN gen' = DOMAIN gen /\ gen'[0] = Append(gen[0], e)
      /\ \A g \in DOMAIN gen \ {0} : gen'[g] = gen[g]
  BY <1>1, AppendedIs
<1>3. gen'[0] \in Seq(Entry) /\ Rotation!Bytes(gen'[0]) = size + e.len
  BY <1>1, <1>2, LongerFile, BytesAppended
<1>4. Fits(gen'[0])
  <2> SUFFICES ASSUME MaxSize > 0 PROVE Rotation!Bytes(gen'[0]) <= MaxSize \/ Len(gen'[0]) = 1
    BY DEF Fits
  <2>1. /\ size \in Nat /\ e.len \in Nat /\ line.len \in Nat /\ MaxSize \in Nat
        /\ size = 0 \/ size + line.len <= MaxSize
    BY DiskAssumption DEF Entry, Rotation!LogAssumption
  <2>2. CASE size = 0
    <3>1. gen[0] = <<>>
      BY <1>1, <2>2, SomeBytes
    <3> QED BY <1>2, <3>1
  <2>3. CASE size + line.len <= MaxSize
    BY <1>3, <2>1, <2>3
  <2> QED BY <2>1, <2>2, <2>3
<1>5. size' \in Nat
  BY DEF Entry
<1> QED BY <1>2, <1>3, <1>4, <1>5

\* The record is written, or a part of it, or nothing.
LEMMA LogWrite ==
    ASSUME LogTypeOK, StepOK, SizeInv, Rotation!WriteLine \/ Rotation!WriteFails
    PROVE  (LogTypeOK /\ StepOK /\ SizeInv)'
<1> USE DEF LogTypeOK, StepOK, SizeInv, InFlight
<1>1. step = "write" /\ step' = "idle" /\ line \in Entry
  BY DEF Rotation!WriteLine, Rotation!WriteFails, Rotation!Refused
<1>2. CASE Rotation!WriteLine
  <2>1. /\ open /\ open' = open /\ gen' = [gen EXCEPT ![0] = Append(@, line)] /\ size' = size + line.len
        /\ stderr' = stderr \cup {line.id} /\ UNCHANGED <<maxBackups, at, line, next, kills, faults>>
    BY <1>2 DEF Rotation!WriteLine, Rotation!NoFault
  <2>2. line.id \in Nat /\ line.len \in Nat
    BY <1>1 DEF Entry
  <2>3. stderr' \subseteq Nat
    BY <2>1, <2>2
  <2>4. faults' \in Nat
    BY <2>1
  <2>5. line.len <= line.len
    BY <2>2
  <2> QED BY <1>1, <2>1, <2>3, <2>4, <2>5, LogAppend
<1>3. CASE Rotation!WriteFails /\ UNCHANGED <<gen, size>>
  BY <1>1, <1>3 DEF Rotation!WriteFails, Rotation!Refused, Rotation!history, Rotation!NoFault, Rotation!Fault
<1>4. ASSUME Rotation!WriteFails, ~UNCHANGED <<gen, size>> PROVE (LogTypeOK /\ StepOK /\ SizeInv)'
  <2>1. /\ open /\ Rotation!Fault /\ UNCHANGED <<maxBackups, open, at, line, stderr, next>>
        /\ \E n \in 0..line.len - 1 :
              /\ gen' = IF n = 0 THEN gen
                        ELSE [gen EXCEPT ![0] = Append(@, [line EXCEPT !.len = n])]
              /\ size' = size + n
    BY <1>4 DEF Rotation!WriteFails, Rotation!Refused, Rotation!history
  <2>2. PICK n \in 0..line.len - 1 :
              /\ gen' = IF n = 0 THEN gen
                        ELSE [gen EXCEPT ![0] = Append(@, [line EXCEPT !.len = n])]
              /\ size' = size + n
    BY <2>1
  <2>3. n # 0
    BY <1>4, <2>2
  <2>4. n \in Nat \ {0} /\ n <= line.len
    BY <1>1, <2>3 DEF Entry
  <2> DEFINE e == [line EXCEPT !.len = n]
  <2>5. e \in Entry /\ e.len = n
    BY <1>1, <2>4 DEF Entry
  <2>6. faults' \in Nat /\ kills' = kills
    BY <2>1 DEF Rotation!Fault
  <2> HIDE DEF e
  <2>7. gen' = [gen EXCEPT ![0] = Append(@, e)] /\ size' = size + e.len
    BY <2>2, <2>3, <2>5 DEF e
  <2> QED BY <1>1, <2>1, <2>4, <2>5, <2>6, <2>7, LogAppend
<1> QED BY <1>2, <1>3, <1>4

\* A step that leaves the directory as it is, and no file open that was not.
LEMMA LogQuiet ==
    ASSUME LogTypeOK, StepOK, SizeInv,
           step' \in {"off", "idle"} \/ (step' = "shift" /\ step \in {"drop", "shift"}),
           step' = "off" => ~open',
           step' = "shift" => at' \in 1..maxBackups,
           open' \in BOOLEAN, open' => open /\ size' = size, size' \in Nat, at' \in Nat,
           UNCHANGED <<maxBackups, gen, line, stderr, next>>, kills' \in Nat, faults' \in Nat
    PROVE  (LogTypeOK /\ StepOK /\ SizeInv)'
<1>1. LogTypeOK'
  BY DEF LogTypeOK
<1>2. SizeInv'
  BY DEF SizeInv, Fits, Full
<1>3. CASE step' \in {"off", "idle"}
  BY <1>1, <1>2, <1>3 DEF StepOK, InFlight
<1>4. CASE step' = "shift" /\ step \in {"drop", "shift"}
  <2>1. StepOK'
    BY <1>4 DEF StepOK, InFlight
  <2> QED BY <1>1, <1>2, <2>1
<1> QED BY <1>3, <1>4

\* Without backups the file is emptied.
LEMMA LogTruncate ==
    ASSUME LogTypeOK, StepOK, SizeInv, Rotation!Truncate PROVE (LogTypeOK /\ StepOK /\ SizeInv)'
<1>1. step = "truncate" /\ UNCHANGED <<maxBackups, at, line, stderr, next>>
  BY DEF Rotation!Truncate, Rotation!history, Rotation!Refused
<1>2. CASE /\ step' = "write" /\ gen' = [k \in {0} |-> <<>>] /\ open' = TRUE /\ size' = 0
           /\ Rotation!NoFault
  <2>1. DOMAIN gen' = {0} /\ gen'[0] = <<>>
    BY <1>2
  <2>2. maxBackups = 0 /\ line \in Entry /\ line.len \in Lengths /\ line.id < next
    BY <1>1 DEF StepOK, InFlight
  <2>3. LogTypeOK'
    BY <1>1, <1>2, <2>1, EmptyFile DEF LogTypeOK, Rotation!NoFault
  <2>4. StepOK'
    BY <1>1, <1>2, <2>2 DEF StepOK, InFlight
  <2>5. SizeInv'
    BY <1>2, <2>1, EmptyFile, NoBytes DEF SizeInv
  <2> QED BY <2>3, <2>4, <2>5
<1>3. CASE Rotation!Fault /\ Rotation!Refused /\ UNCHANGED <<gen, open, size>>
  <2>1. ~open
    BY <1>1 DEF StepOK
  <2> QED BY <1>1, <1>3, <2>1, LogQuiet DEF Rotation!Fault, Rotation!Refused, LogTypeOK
<1> QED BY <1>2, <1>3 DEF Rotation!Truncate

\* The oldest backup is removed.
LEMMA LogDrop ==
    ASSUME LogTypeOK, StepOK, SizeInv, Rotation!Drop PROVE (LogTypeOK /\ StepOK /\ SizeInv)'
<1>1. /\ step = "drop" /\ step' = "shift" /\ at' = maxBackups
      /\ UNCHANGED <<maxBackups, open, size, line, stderr, next>>
  BY DEF Rotation!Drop, Rotation!Goes, Rotation!history
<1>2. /\ ~open /\ maxBackups \in Nat \ {0} /\ 0 \in DOMAIN gen /\ line \in Entry
      /\ line.len \in Lengths /\ line.id < next
  BY <1>1 DEF StepOK, InFlight, LogTypeOK
<1>3. CASE gen' = Rotation!Without(maxBackups) /\ Rotation!NoFault
  <2>1. /\ DOMAIN gen' = DOMAIN gen \ {maxBackups}
        /\ \A g \in DOMAIN gen' : gen'[g] = gen[g] /\ g \in DOMAIN gen
        /\ 0 \in DOMAIN gen'
    BY <1>2, <1>3, WithoutIs
  <2>2. LogTypeOK'
    BY <1>1, <1>2, <1>3, <2>1 DEF LogTypeOK, Rotation!NoFault
  <2>3. StepOK'
    BY <1>1, <1>2, <2>1 DEF StepOK, InFlight
  <2>4. SizeInv'
    BY <1>1, <1>2, <2>1 DEF SizeInv, Fits, Full
  <2> QED BY <2>2, <2>3, <2>4
<1>4. CASE Rotation!Fault /\ UNCHANGED gen
  <2>1. /\ at' \in 1..maxBackups /\ at' \in Nat /\ kills' \in Nat /\ faults' \in Nat
        /\ size' \in Nat /\ open' \in BOOLEAN
    BY <1>1, <1>2, <1>4 DEF LogTypeOK, Rotation!Fault
  <2> QED BY <1>1, <1>2, <1>4, <2>1, LogQuiet
<1> QED BY <1>3, <1>4 DEF Rotation!Drop

\* A backup is renamed to the place above.
LEMMA LogShift ==
    ASSUME LogTypeOK, StepOK, SizeInv, Rotation!Shift PROVE (LogTypeOK /\ StepOK /\ SizeInv)'
<1>1. /\ step = "shift" /\ step' = "shift" /\ at' = at - 1 /\ at >= 2
      /\ UNCHANGED <<maxBackups, open, size, line, stderr, next>>
  BY DEF Rotation!Shift, Rotation!history
<1>2. /\ ~open /\ maxBackups \in Nat /\ 0 \in DOMAIN gen /\ line \in Entry
      /\ line.len \in Lengths /\ line.id < next /\ at \in 1..maxBackups
  BY <1>1 DEF StepOK, InFlight, LogTypeOK
<1>3. at' \in 1..maxBackups /\ at - 1 # at /\ at # 0 /\ at - 1 # 0 /\ at \in 0..maxBackups
  BY <1>1, <1>2
<1>4. CASE UNCHANGED gen /\ (Rotation!Fault \/ Rotation!NoFault)
  <2>1. /\ kills' \in Nat /\ faults' \in Nat /\ size' \in Nat /\ at' \in Nat /\ open' \in BOOLEAN
    BY <1>1, <1>3, <1>4 DEF LogTypeOK, Rotation!Fault, Rotation!NoFault
  <2> QED BY <1>1, <1>2, <1>3, <1>4, <2>1, LogQuiet
<1>5. CASE at - 1 \in DOMAIN gen /\ gen' = Rotation!Renamed(at - 1, at) /\ Rotation!NoFault
  <2>1. /\ DOMAIN gen' = (DOMAIN gen \ {at - 1}) \cup {at}
        /\ gen'[at] = gen[at - 1]
        /\ \A g \in DOMAIN gen \ {at - 1, at} : gen'[g] = gen[g]
    BY <1>3, <1>5, RenamedIs
  <2>2. 0 \in DOMAIN gen' /\ gen'[0] = gen[0]
    BY <1>2, <1>3, <2>1
  <2>3. LogTypeOK'
    BY <1>1, <1>3, <1>5, <2>1 DEF LogTypeOK, Rotation!NoFault
  <2>4. StepOK'
    BY <1>1, <1>2, <1>3, <2>2 DEF StepOK, InFlight
  <2>5. SizeInv'
    BY <1>1, <1>2, <1>3, <1>5, <2>1 DEF SizeInv, Fits, Full
  <2> QED BY <2>3, <2>4, <2>5
<1>6. Rotation!Renamed(at - 1, at) = gen \/ at - 1 \in DOMAIN gen
  BY DEF Rotation!Renamed
<1> QED BY <1>4, <1>5, <1>6 DEF Rotation!Shift

\* The live file becomes the first backup.
LEMMA LogMove ==
    ASSUME LogTypeOK, StepOK, SizeInv, Rotation!Move PROVE (LogTypeOK /\ StepOK /\ SizeInv)'
<1>1. step = "shift" /\ at = 1 /\ UNCHANGED <<maxBackups, open, size, at, line, stderr, next>>
  BY DEF Rotation!Move, Rotation!writer, Rotation!history, Rotation!Refused
<1>2. /\ ~open /\ maxBackups \in Nat \ {0} /\ 0 \in DOMAIN gen /\ line \in Entry
      /\ line.len \in Lengths /\ line.id < next
      /\ gen[0] # <<>> /\ Rotation!Bytes(gen[0]) + line.len > MaxSize
  BY <1>1 DEF StepOK, InFlight, LogTypeOK
<1>3. CASE step' = "reopen" /\ gen' = Rotation!Renamed(0, 1) /\ Rotation!NoFault
  <2>1. /\ DOMAIN gen' = (DOMAIN gen \ {0}) \cup {1}
        /\ gen'[1] = gen[0]
        /\ \A g \in DOMAIN gen \ {0, 1} : gen'[g] = gen[g]
    <3>1. 0 # 1 /\ 0 \in DOMAIN gen
      BY <1>2
    <3> QED BY <1>3, <3>1, RenamedIs
  <2>2. LogTypeOK'
    BY <1>1, <1>2, <1>3, <2>1 DEF LogTypeOK, Rotation!NoFault
  <2>3. StepOK'
    BY <1>1, <1>2, <1>3, <2>1 DEF StepOK, InFlight
  <2>4. Full(gen[0])
    BY <1>2 DEF Full
  <2>5. SizeInv'
    BY <1>1, <1>2, <2>1, <2>4 DEF SizeInv, Fits, Full
  <2> QED BY <2>2, <2>3, <2>5
<1>4. CASE Rotation!Fault /\ Rotation!Refused /\ UNCHANGED gen
  <2>1. kills' \in Nat /\ faults' \in Nat /\ size' \in Nat /\ at' \in Nat
    BY <1>1, <1>4 DEF LogTypeOK, Rotation!Fault
  <2> QED BY <1>1, <1>2, <1>4, <2>1, LogQuiet DEF Rotation!Refused
<1> QED BY <1>3, <1>4 DEF Rotation!Move

\* A new live file is opened.
LEMMA LogReopen ==
    ASSUME LogTypeOK, StepOK, SizeInv, Rotation!Reopen PROVE (LogTypeOK /\ StepOK /\ SizeInv)'
<1>1. step = "reopen" /\ UNCHANGED <<maxBackups, at, line, stderr, next>>
  BY DEF Rotation!Reopen, Rotation!history, Rotation!Refused
<1>2. /\ ~open /\ 0 \notin DOMAIN gen /\ line \in Entry /\ line.len \in Lengths /\ line.id < next
  BY <1>1 DEF StepOK, InFlight
<1>3. CASE /\ step' = "write" /\ gen' = Rotation!Created /\ open' = TRUE /\ size' = Rotation!Bytes(gen'[0])
           /\ Rotation!NoFault
  <2>1. /\ DOMAIN gen' = DOMAIN gen \cup {0} /\ gen'[0] = <<>>
        /\ \A g \in DOMAIN gen : gen'[g] = gen[g]
    BY <1>2, <1>3, CreatedIs
  <2>2. size' = 0
    BY <1>3, <2>1, NoBytes
  <2>3. LogTypeOK'
    <3>1. DOMAIN gen' \subseteq 0..maxBackups
      BY <2>1 DEF LogTypeOK
    <3>2. \A g \in DOMAIN gen' : gen'[g] \in Seq(Entry)
      BY <2>1, EmptyFile DEF LogTypeOK
    <3> QED BY <1>1, <1>3, <2>2, <3>1, <3>2 DEF LogTypeOK, Rotation!NoFault
  <2>4. StepOK'
    BY <1>1, <1>2, <1>3, <2>2 DEF StepOK, InFlight
  <2>5. SizeInv'
    BY <1>2, <1>3, <2>1, EmptyFile DEF SizeInv, Fits, Full
  <2> QED BY <2>3, <2>4, <2>5
<1>4. CASE Rotation!Fault /\ Rotation!Refused /\ UNCHANGED <<gen, open, size>>
  BY <1>1, <1>2, <1>4, LogQuiet DEF Rotation!Fault, Rotation!Refused, LogTypeOK
<1> QED BY <1>3, <1>4 DEF Rotation!Reopen

\* The process ends, at the end of a record or anywhere.
LEMMA LogDown ==
    ASSUME LogTypeOK, StepOK, SizeInv, Rotation!Close \/ Rotation!Kill
    PROVE  (LogTypeOK /\ StepOK /\ SizeInv)'
<1>1. /\ step' = "off" /\ open' = FALSE /\ size' = 0 /\ at' = 0
      /\ UNCHANGED <<maxBackups, gen, line, stderr, next, faults>>
      /\ kills' = kills \/ kills' = kills + 1
  BY DEF Rotation!Close, Rotation!Kill, Rotation!Down, Rotation!history
<1>2. kills' \in Nat /\ faults' \in Nat
  BY <1>1 DEF LogTypeOK
<1> QED BY <1>1, <1>2, LogQuiet

\* Every step keeps types, places and sizes.
LEMMA LogShape ==
    LogTypeOK /\ StepOK /\ SizeInv /\ [Rotation!Next]_(Rotation!vars) => (LogTypeOK /\ StepOK /\ SizeInv)'
<1> SUFFICES ASSUME LogTypeOK, StepOK, SizeInv, [Rotation!Next]_(Rotation!vars)
             PROVE  (LogTypeOK /\ StepOK /\ SizeInv)'
  OBVIOUS
<1>1. CASE UNCHANGED Rotation!vars
  <2>1. UNCHANGED logFiles
    BY <1>1 DEF Rotation!vars, Rotation!writer, Rotation!history, logFiles
  <2>2. LogTypeOK'
    BY <2>1 DEF LogTypeOK, logFiles
  <2>3. StepOK'
    BY <2>1 DEF StepOK, InFlight, logFiles
  <2>4. SizeInv'
    BY <2>1 DEF SizeInv, Fits, Full, logFiles
  <2> QED BY <2>2, <2>3, <2>4
<1> QED BY <1>1, LogStart, LogRecord, LogWrite, LogTruncate, LogDrop, LogShift, LogMove, LogReopen, LogDown
        DEF Rotation!Next, Rotation!rotate

-----------------------------------------------------------------------------
(* The order of the lines, and what is kept of them.                       *)

LogBase == LogTypeOK /\ StepOK /\ SizeInv /\ OrderInv

\* What every step but one that adds to the live file does to the files: each comes
\* from one there was, or is empty, and the order of places is kept.
Rearranged ==
    \E from \in [DOMAIN gen' -> DOMAIN gen \cup {-1}] :
       /\ \A g \in DOMAIN gen' : IF from[g] = -1 THEN gen'[g] = <<>> ELSE gen'[g] = gen[from[g]]
       /\ \A g, h \in DOMAIN gen' :
             g > h /\ from[g] # -1 /\ from[h] # -1 => from[g] > from[h]

\* The places files are in are kept in order by every rearrangement.
LEMMA OrderKept ==
    ASSUME LogTypeOK, OrderInv, Rearranged, stderr' = stderr, next' >= next, next' \in Nat,
           InFlight' => (InFlight /\ line' = line) \/ line'.id = next
    PROVE  OrderInv'
<1>1. PICK from \in [DOMAIN gen' -> DOMAIN gen \cup {-1}] :
         /\ \A g \in DOMAIN gen' : IF from[g] = -1 THEN gen'[g] = <<>> ELSE gen'[g] = gen[from[g]]
         /\ \A g, h \in DOMAIN gen' :
               g > h /\ from[g] # -1 /\ from[h] # -1 => from[g] > from[h]
  BY DEF Rearranged
<1>2. \A g \in DOMAIN gen' : gen'[g] = <<>> \/ (from[g] \in DOMAIN gen /\ gen'[g] = gen[from[g]])
  BY <1>1
<1>3. \A g \in DOMAIN gen : \A n : n \in Nat /\ n >= next => Under(gen[g], n)
  <2> SUFFICES ASSUME NEW g \in DOMAIN gen, NEW n \in Nat, n >= next, NEW i \in DOMAIN gen[g]
               PROVE  gen[g][i].id < n
    BY DEF Under
  <2>1. gen[g][i].id < next
    BY DEF OrderInv, Under
  <2>2. gen[g][i] \in Entry
    BY DEF LogTypeOK
  <2> QED BY <2>1, <2>2 DEF LogTypeOK, Entry
<1>4. \A g \in DOMAIN gen' : Sorted(gen'[g]) /\ Under(gen'[g], next')
  BY <1>2, <1>3, EmptyFile DEF OrderInv
<1>5. ASSUME NEW g \in DOMAIN gen', NEW h \in DOMAIN gen', g > h PROVE Before(gen'[g], gen'[h])
  <2>1. CASE from[g] = -1 \/ from[h] = -1
    BY <1>1, <2>1, EmptyFile
  <2>2. CASE from[g] # -1 /\ from[h] # -1
    <3>1. from[g] > from[h] /\ from[g] \in DOMAIN gen /\ from[h] \in DOMAIN gen
      BY <1>1, <1>5, <2>2
    <3> QED BY <1>1, <2>2, <3>1 DEF OrderInv
  <2> QED BY <2>1, <2>2
<1>6. \A i \in stderr' : i < next'
  BY DEF OrderInv, LogTypeOK
<1>7. ASSUME InFlight'
      PROVE  (\A g \in DOMAIN gen' : Under(gen'[g], line'.id)) /\ (\A i \in stderr' : i < line'.id)
  <2>1. CASE InFlight /\ line' = line
    BY <1>2, <2>1, EmptyFile DEF OrderInv
  <2>2. CASE line'.id = next
    BY <1>2, <2>2, EmptyFile DEF OrderInv
  <2> QED BY <1>7, <2>1, <2>2
<1> QED BY <1>4, <1>5, <1>6, <1>7 DEF OrderInv

\* Where a file came from that is in place g now, after i was renamed to i + 1.
LEMMA RenameOrder ==
    \A i, g, h \in Nat : g > h /\ g # i /\ h # i =>
       (IF g = i + 1 THEN i ELSE g) > (IF h = i + 1 THEN i ELSE h)
  OBVIOUS

\* The directory as each call leaves it is such a rearrangement.
LEMMA RearrangedBy ==
    ASSUME LogTypeOK,
           \/ gen' = gen
           \/ gen' = Rotation!Created
           \/ gen' = [k \in {0} |-> <<>>]
           \/ gen' = Rotation!Without(maxBackups)
           \/ \E i \in Nat : gen' = Rotation!Renamed(i, i + 1)
    PROVE  Rearranged
<1>0. \A g \in DOMAIN gen : g \in Nat /\ g # -1
  BY DEF LogTypeOK
<1>1. ASSUME DOMAIN gen' \subseteq DOMAIN gen, \A g \in DOMAIN gen' : gen'[g] = gen[g] PROVE Rearranged
  <2> DEFINE from == [g \in DOMAIN gen' |-> g]
  <2>1. from \in [DOMAIN gen' -> DOMAIN gen \cup {-1}]
    BY <1>1
  <2>2. \A g \in DOMAIN gen' : from[g] = g /\ from[g] # -1
    BY <1>0, <1>1
  <2> HIDE DEF from
  <2> QED BY <1>1, <2>1, <2>2 DEF Rearranged
<1>2. CASE gen' = Rotation!Created \/ gen' = [k \in {0} |-> <<>>]
  <2>1. \A g \in DOMAIN gen' : (g \in DOMAIN gen /\ gen'[g] = gen[g]) \/ (g = 0 /\ gen'[g] = <<>>)
    BY <1>2, CreatedIs
  <2> DEFINE from == [g \in DOMAIN gen' |-> IF gen'[g] = <<>> THEN -1 ELSE g]
  <2>2. from \in [DOMAIN gen' -> DOMAIN gen \cup {-1}]
    BY <2>1
  <2>3. \A g \in DOMAIN gen' :
           IF from[g] = -1 THEN gen'[g] = <<>> ELSE from[g] = g /\ gen'[g] = gen[g]
    BY <1>0, <2>1
  <2> HIDE DEF from
  <2> QED BY <2>2, <2>3 DEF Rearranged
<1>3. ASSUME NEW i \in Nat, gen' = Rotation!Renamed(i, i + 1), i \in DOMAIN gen PROVE Rearranged
  <2>0. i # i + 1
    OBVIOUS
  <2>1. /\ DOMAIN gen' = (DOMAIN gen \ {i}) \cup {i + 1}
        /\ gen'[i + 1] = gen[i]
        /\ \A g \in DOMAIN gen \ {i, i + 1} : gen'[g] = gen[g]
    BY <1>3, <2>0, RenamedIs
  <2> DEFINE from == [g \in DOMAIN gen' |-> IF g = i + 1 THEN i ELSE g]
  <2>2. from \in [DOMAIN gen' -> DOMAIN gen \cup {-1}]
    BY <1>3, <2>1
  <2>3. \A g \in DOMAIN gen' : from[g] = (IF g = i + 1 THEN i ELSE g) /\ from[g] # -1 /\ gen'[g] = gen[from[g]]
    BY <1>0, <1>3, <2>1
  <2> HIDE DEF from
  <2>4. \A g, h \in DOMAIN gen' : g > h => from[g] > from[h]
    <3> SUFFICES ASSUME NEW g \in DOMAIN gen', NEW h \in DOMAIN gen', g > h PROVE from[g] > from[h]
      OBVIOUS
    <3>1. g \in Nat /\ h \in Nat /\ h # i /\ g # i
      BY <1>0, <2>0, <2>1
    <3>2. (IF g = i + 1 THEN i ELSE g) > (IF h = i + 1 THEN i ELSE h)
      BY <3>1, RenameOrder
    <3>3. from[g] = (IF g = i + 1 THEN i ELSE g) /\ from[h] = (IF h = i + 1 THEN i ELSE h)
      BY <2>3
    <3> QED BY <3>2, <3>3
  <2> QED BY <2>2, <2>3, <2>4 DEF Rearranged
<1>4. ASSUME NEW i \in Nat, gen' = Rotation!Renamed(i, i + 1), i \notin DOMAIN gen PROVE gen' = gen
  BY <1>4 DEF Rotation!Renamed
<1> QED BY <1>1, <1>2, <1>3, <1>4, WithoutIs

\* A line that is newer than all goes to the end of the live file.
LEMMA OrderAppend ==
    ASSUME LogTypeOK, OrderInv, InFlight, ~InFlight', 0 \in DOMAIN gen,
           NEW e \in Entry, e.id < next, e.id = line.id, gen' = [gen EXCEPT ![0] = Append(@, e)],
           stderr' \subseteq stderr \cup {line.id}, next' = next
    PROVE  OrderInv'
<1>1. /\ DOMAIN gen' = DOMAIN gen /\ gen'[0] = Append(gen[0], e)
      /\ \A g \in DOMAIN gen \ {0} : gen'[g] = gen[g]
  BY AppendedIs
<1>2. gen[0] \in Seq(Entry) /\ \A g \in DOMAIN gen : g \in Nat
  BY DEF LogTypeOK
<1>3. \A g \in DOMAIN gen : Sorted(gen[g]) /\ Under(gen[g], next) /\ Under(gen[g], e.id)
  BY DEF OrderInv
<1>4. \A g \in DOMAIN gen' : Sorted(gen'[g]) /\ Under(gen'[g], next)
  BY <1>1, <1>2, <1>3, LongerFile
<1>5. ASSUME NEW g \in DOMAIN gen, NEW h \in DOMAIN gen, g > h PROVE Before(gen'[g], gen'[h])
  <2>1. g # 0 /\ gen'[g] = gen[g] /\ Before(gen[g], gen[h])
    BY <1>1, <1>2, <1>5 DEF OrderInv
  <2>2. CASE h # 0
    BY <1>1, <2>1, <2>2
  <2>3. CASE h = 0
    BY <1>1, <1>2, <1>3, <2>1, <2>3, LongerFile
  <2> QED BY <2>2, <2>3
<1>6. \A i \in stderr' : i < next'
  BY DEF OrderInv
<1> QED BY <1>1, <1>4, <1>5, <1>6 DEF OrderInv

\* Every step keeps the order.
LEMMA OrderNext == LogBase /\ [Rotation!Next]_(Rotation!vars) => OrderInv'
<1> SUFFICES ASSUME LogBase, [Rotation!Next]_(Rotation!vars) PROVE OrderInv'
  OBVIOUS
<1> USE DEF LogBase
<1>0. LogTypeOK' /\ next \in Nat /\ next >= next
  BY LogShape DEF LogTypeOK
<1>1. CASE Rotation!Start
  <2>1. /\ gen' = Rotation!Created /\ UNCHANGED <<stderr, next>> /\ ~InFlight'
    BY <1>1 DEF Rotation!Start, Rotation!Goes, Rotation!history, InFlight
  <2> QED BY <1>0, <2>1, RearrangedBy, OrderKept
<1>2. CASE Rotation!Record
  <2>1. gen' = gen /\ stderr' = stderr /\ next' = next + 1 /\ line'.id = next
    BY <1>2 DEF Rotation!Record
  <2>2. next' >= next /\ next' \in Nat
    BY <1>0, <2>1
  <2> QED BY <2>1, <2>2, RearrangedBy, OrderKept
<1>3. CASE Rotation!WriteLine \/ Rotation!WriteFails
  <2>1. step = "write" /\ step' = "idle" /\ line' = line /\ next' = next /\ line \in Entry /\ line.id < next
    BY <1>3 DEF Rotation!WriteLine, Rotation!WriteFails, Rotation!Refused, Rotation!history, StepOK, InFlight
  <2>2. InFlight /\ ~InFlight'
    BY <2>1 DEF InFlight
  <2>3. CASE gen' = gen /\ stderr' = stderr
    BY <1>0, <2>1, <2>2, <2>3, RearrangedBy, OrderKept
  <2>4. ASSUME open, NEW e \in Entry, e.id = line.id, gen' = [gen EXCEPT ![0] = Append(@, e)],
               stderr' \subseteq stderr \cup {line.id}
        PROVE  OrderInv'
    <3>1. 0 \in DOMAIN gen /\ e.id < next
      BY <2>1, <2>4 DEF SizeInv
    <3> QED BY <2>1, <2>2, <2>4, <3>1, OrderAppend
  <2>5. CASE Rotation!WriteLine
    BY <2>1, <2>4, <2>5 DEF Rotation!WriteLine
  <2>6. ASSUME Rotation!WriteFails, gen' # gen PROVE OrderInv'
    <3>1. PICK n \in 0..line.len - 1 : gen' = IF n = 0 THEN gen
                                              ELSE [gen EXCEPT ![0] = Append(@, [line EXCEPT !.len = n])]
      BY <2>6 DEF Rotation!WriteFails
    <3>2. open /\ stderr' = stderr
      BY <2>6 DEF Rotation!WriteFails, Rotation!Refused, Rotation!history
    <3> DEFINE e == [line EXCEPT !.len = n]
    <3>3. n # 0 /\ n \in Nat \ {0}
      BY <2>1, <2>6, <3>1 DEF Entry
    <3>4. e \in Entry /\ e.id = line.id
      BY <2>1, <3>3 DEF Entry
    <3>5. gen' = [gen EXCEPT ![0] = Append(@, e)]
      BY <3>1, <3>3
    <3> HIDE DEF e
    <3> QED BY <2>4, <3>2, <3>4, <3>5
  <2>7. Rotation!WriteFails => stderr' = stderr
    BY DEF Rotation!WriteFails, Rotation!Refused, Rotation!history
  <2> QED BY <1>3, <2>3, <2>5, <2>6, <2>7
<1>4. CASE Rotation!rotate
  <2>1. UNCHANGED <<stderr, next, line>> /\ InFlight
    BY <1>4 DEF Rotation!rotate, Rotation!Truncate, Rotation!Drop, Rotation!Shift, Rotation!Move,
      Rotation!Reopen, Rotation!Refused, Rotation!Goes, Rotation!history, Rotation!writer, InFlight
  <2>2. \/ gen' = gen \/ gen' = Rotation!Created \/ gen' = [k \in {0} |-> <<>>]
        \/ gen' = Rotation!Without(maxBackups)
        \/ \E i \in Nat : gen' = Rotation!Renamed(i, i + 1)
    <3>1. CASE Rotation!Shift
      <4>1. at - 1 \in Nat /\ (at - 1) + 1 = at
        BY <3>1 DEF Rotation!Shift, LogTypeOK
      <4>2. gen' = Rotation!Renamed(at - 1, (at - 1) + 1) \/ gen' = gen
        BY <3>1, <4>1 DEF Rotation!Shift
      <4> QED BY <4>1, <4>2
    <3>2. CASE Rotation!Move
      <4>1. gen' = Rotation!Renamed(0, 0 + 1) \/ gen' = gen
        BY <3>2 DEF Rotation!Move
      <4> QED BY <4>1
    <3>3. CASE Rotation!Truncate \/ Rotation!Drop \/ Rotation!Reopen
      BY <3>3 DEF Rotation!Truncate, Rotation!Drop, Rotation!Reopen
    <3> QED BY <1>4, <3>1, <3>2, <3>3 DEF Rotation!rotate
  <2> QED BY <1>0, <2>1, <2>2, RearrangedBy, OrderKept
<1>5. CASE Rotation!Close \/ Rotation!Kill \/ UNCHANGED Rotation!vars
  <2>1. gen' = gen /\ stderr' = stderr /\ next' = next /\ (InFlight' => InFlight /\ line' = line)
    BY <1>5 DEF Rotation!Close, Rotation!Kill, Rotation!Down, Rotation!history, Rotation!vars,
      Rotation!writer, InFlight
  <2> QED BY <1>0, <2>1, RearrangedBy, OrderKept
<1> QED BY <1>1, <1>2, <1>3, <1>4, <1>5 DEF Rotation!Next

\* What is kept is in some file.
LEMMA KeptIs == \A k : k \in Rotation!Kept <=> \E g \in DOMAIN gen : k \in IdsIn(gen[g])
  BY DEF Rotation!Kept, IdsIn

\* The same after a step.
LEMMA KeptThen == \A k : k \in Rotation!Kept' <=> \E g \in DOMAIN gen' : k \in IdsIn(gen'[g])
  BY DEF Rotation!Kept, IdsIn

\* A new file, a file moved to a free place, and one that is not there: nothing is lost.
LEMMA KeptSame ==
    ASSUME \/ gen' = gen
           \/ gen' = Rotation!Created
           \/ \E i, j : i # j /\ j \notin DOMAIN gen /\ gen' = Rotation!Renamed(i, j)
    PROVE  Rotation!Kept' = Rotation!Kept
<1>1. CASE gen' = gen
  BY <1>1, KeptIs, KeptThen
<1>2. CASE gen' = Rotation!Created
  <2>1. /\ DOMAIN gen' = DOMAIN gen \cup {0} /\ \A g \in DOMAIN gen : gen'[g] = gen[g]
        /\ 0 \in DOMAIN gen \/ IdsIn(gen'[0]) = {}
    BY <1>2, CreatedIs, EmptyFile
  <2>2. \A k : (\E g \in DOMAIN gen' : k \in IdsIn(gen'[g])) <=> (\E g \in DOMAIN gen : k \in IdsIn(gen[g]))
    BY <2>1
  <2>3. \A k : k \in Rotation!Kept' <=> k \in Rotation!Kept
    BY <2>2, KeptIs, KeptThen
  <2> QED BY <2>3
<1>3. ASSUME NEW i, NEW j, i # j, j \notin DOMAIN gen, gen' = Rotation!Renamed(i, j), i \in DOMAIN gen
      PROVE  Rotation!Kept' = Rotation!Kept
  <2>1. /\ DOMAIN gen' = (DOMAIN gen \ {i}) \cup {j}
        /\ gen'[j] = gen[i]
        /\ \A g \in DOMAIN gen \ {i, j} : gen'[g] = gen[g]
    BY <1>3, RenamedIs
  <2>2. \A k : (\E g \in DOMAIN gen' : k \in IdsIn(gen'[g])) <=> (\E g \in DOMAIN gen : k \in IdsIn(gen[g]))
    <3> SUFFICES ASSUME NEW k
        PROVE  (\E g \in DOMAIN gen' : k \in IdsIn(gen'[g])) <=> (\E g \in DOMAIN gen : k \in IdsIn(gen[g]))
      OBVIOUS
    <3>1. ASSUME NEW g \in DOMAIN gen', k \in IdsIn(gen'[g]) PROVE \E h \in DOMAIN gen : k \in IdsIn(gen[h])
      <4>1. CASE g = j
        BY <1>3, <2>1, <3>1, <4>1
      <4>2. CASE g # j
        BY <1>3, <2>1, <3>1, <4>2
      <4> QED BY <4>1, <4>2
    <3>2. ASSUME NEW g \in DOMAIN gen, k \in IdsIn(gen[g]) PROVE \E h \in DOMAIN gen' : k \in IdsIn(gen'[h])
      <4>1. CASE g = i
        BY <1>3, <2>1, <3>2, <4>1
      <4>2. CASE g # i
        BY <1>3, <2>1, <3>2, <4>2
      <4> QED BY <4>1, <4>2
    <3> QED BY <3>1, <3>2
  <2>3. \A k : k \in Rotation!Kept' <=> k \in Rotation!Kept
    BY <2>2, KeptIs, KeptThen
  <2> QED BY <2>3
<1>4. ASSUME NEW i, NEW j, gen' = Rotation!Renamed(i, j), i \notin DOMAIN gen PROVE gen' = gen
  BY <1>4 DEF Rotation!Renamed
<1> QED BY <1>1, <1>2, <1>3, <1>4

\* The line that is written is kept beside the others.
LEMMA KeptAppended ==
    ASSUME LogTypeOK, 0 \in DOMAIN gen, NEW e \in Entry, gen' = [gen EXCEPT ![0] = Append(@, e)]
    PROVE  Rotation!Kept' = Rotation!Kept \cup {e.id}
<1>1. /\ DOMAIN gen' = DOMAIN gen /\ \A g \in DOMAIN gen \ {0} : gen'[g] = gen[g]
      /\ IdsIn(gen'[0]) = IdsIn(gen[0]) \cup {e.id}
  BY AppendedIs, LongerFile DEF LogTypeOK
<1>2. \A k : (\E g \in DOMAIN gen' : k \in IdsIn(gen'[g])) <=>
             (\E g \in DOMAIN gen : k \in IdsIn(gen[g])) \/ k = e.id
  BY <1>1
<1>3. \A k : k \in Rotation!Kept' <=> k \in Rotation!Kept \cup {e.id}
  BY <1>2, KeptIs, KeptThen
<1> QED BY <1>3

\* Removing the oldest backup loses what it holds, which is older than the rest.
LEMMA KeptWithout ==
    ASSUME LogBase, maxBackups > 0, gen' = Rotation!Without(maxBackups)
    PROVE  /\ Rotation!Kept' \subseteq Rotation!Kept
           /\ maxBackups \notin DOMAIN gen => Rotation!Kept' = Rotation!Kept
           /\ \A i \in Rotation!Kept \ Rotation!Kept', k \in Rotation!Kept' : i < k
           /\ 0 \in DOMAIN gen /\ gen[0] # <<>> => Rotation!Kept' # {}
<1>1. /\ DOMAIN gen' = DOMAIN gen \ {maxBackups} /\ \A g \in DOMAIN gen' : gen'[g] = gen[g]
  BY WithoutIs
<1>2. \A k : k \in Rotation!Kept' <=> \E g \in DOMAIN gen \ {maxBackups} : k \in IdsIn(gen[g])
  BY <1>1, KeptThen
<1>3. Rotation!Kept' \subseteq Rotation!Kept
  BY <1>2, KeptIs
<1>4. ASSUME maxBackups \notin DOMAIN gen PROVE Rotation!Kept' = Rotation!Kept
  <2>1. \A k : k \in Rotation!Kept => k \in Rotation!Kept'
    BY <1>2, <1>4, KeptIs
  <2> QED BY <1>3, <2>1
<1>5. ASSUME NEW i \in Rotation!Kept \ Rotation!Kept', NEW k \in Rotation!Kept' PROVE i < k
  <2>1. i \in IdsIn(gen[maxBackups]) /\ maxBackups \in DOMAIN gen
    BY <1>2, KeptIs
  <2>2. PICK g \in DOMAIN gen \ {maxBackups} : k \in IdsIn(gen[g])
    BY <1>2
  <2>3. maxBackups > g
    BY DEF LogBase, LogTypeOK
  <2>4. Before(gen[maxBackups], gen[g])
    BY <2>1, <2>3 DEF LogBase, OrderInv
  <2> QED BY <2>1, <2>2, <2>4 DEF Before, IdsIn
<1>6. ASSUME 0 \in DOMAIN gen, gen[0] # <<>> PROVE Rotation!Kept' # {}
  <2>1. gen[0] \in Seq(Entry) /\ 1 \in DOMAIN gen[0] /\ 0 # maxBackups
    BY <1>6 DEF LogBase, LogTypeOK
  <2>2. gen[0][1].id \in IdsIn(gen[0])
    BY <2>1 DEF IdsIn
  <2> QED BY <1>2, <1>6, <2>1, <2>2
<1> QED BY <1>3, <1>4, <1>5, <1>6

\* Every step keeps what KeptInv says of the lines that are dropped.
LEMMA KeptNext == LogBase /\ KeptInv /\ [Rotation!Next]_(Rotation!vars) => KeptInv'
<1> SUFFICES ASSUME LogBase, KeptInv, [Rotation!Next]_(Rotation!vars), faults' = 0 PROVE KeptInv'
  BY DEF KeptInv
<1> DEFINE Kept == Rotation!Kept
<1>0. faults = 0 /\ faults' = faults /\ ~Rotation!Fault /\ UNCHANGED maxBackups
  <2>1. faults \in Nat /\ (faults' = faults \/ faults' = faults + 1) /\ UNCHANGED maxBackups
    BY DEF LogBase, LogTypeOK, Rotation!Next, Rotation!rotate, Rotation!Start, Rotation!Record,
      Rotation!WriteLine, Rotation!WriteFails, Rotation!Truncate, Rotation!Drop, Rotation!Shift,
      Rotation!Move, Rotation!Reopen, Rotation!Close, Rotation!Kill, Rotation!Down, Rotation!vars,
      Rotation!Fault, Rotation!NoFault, Rotation!Begin, Rotation!writer
  <2>2. Rotation!Fault => faults' = faults + 1
    BY DEF Rotation!Fault
  <2> QED BY <2>1, <2>2
<1>1. /\ Kept \subseteq stderr /\ (step = "shift" => at \notin DOMAIN gen)
      /\ maxBackups > 0 /\ stderr # {} => Kept # {}
      /\ maxBackups > 0 => \A i \in stderr \ Kept, k \in Kept : i < k
  BY <1>0 DEF KeptInv
<1>2. ASSUME Kept' = Kept, stderr' = stderr, step' = "shift" => at' \notin DOMAIN gen' PROVE KeptInv'
  BY <1>0, <1>1, <1>2 DEF KeptInv
<1>3. CASE Rotation!Start
  <2>1. gen' = Rotation!Created /\ stderr' = stderr /\ step' # "shift"
    BY <1>3 DEF Rotation!Start, Rotation!Goes, Rotation!history
  <2>2. Kept' = Kept
    BY <2>1, KeptSame
  <2> QED BY <1>2, <2>1, <2>2
<1>4. CASE Rotation!Record
  <2>1. gen' = gen /\ stderr' = stderr /\ step' # "shift"
    BY <1>4 DEF Rotation!Record, Rotation!Begin
  <2>2. Kept' = Kept
    BY <2>1, KeptSame
  <2> QED BY <1>2, <2>1, <2>2
<1>5. CASE Rotation!WriteLine
  <2>1. /\ gen' = [gen EXCEPT ![0] = Append(@, line)] /\ stderr' = stderr \cup {line.id}
        /\ step' # "shift" /\ line \in Entry /\ 0 \in DOMAIN gen
        /\ \A i \in stderr : i < line.id
    BY <1>5 DEF Rotation!WriteLine, Rotation!Goes, LogBase, StepOK, SizeInv, OrderInv, InFlight
  <2>2. Kept' = Kept \cup {line.id}
    BY <2>1, KeptAppended DEF LogBase
  <2> HIDE DEF Kept
  <2>3. maxBackups > 0 => \A i \in stderr' \ Kept', k \in Kept' : i < k
    BY <1>1, <2>1, <2>2
  <2>4. Kept' \subseteq stderr' /\ Kept' # {}
    BY <1>1, <2>1, <2>2
  <2> QED BY <1>0, <2>1, <2>3, <2>4 DEF KeptInv, Kept
<1>6. CASE Rotation!WriteFails
  <2>1. gen' = gen /\ stderr' = stderr /\ step' # "shift"
    BY <1>0, <1>6 DEF Rotation!WriteFails, Rotation!Refused, Rotation!history
  <2>2. Kept' = Kept
    BY <2>1, KeptSame
  <2> QED BY <1>2, <2>1, <2>2
<1>7. CASE Rotation!Truncate
  <2>1. gen' = [k \in {0} |-> <<>>] /\ step' # "shift" /\ maxBackups = 0
    BY <1>0, <1>7 DEF Rotation!Truncate, LogBase, StepOK
  <2>2. Kept' = {}
    <3>1. \A g \in DOMAIN gen' : IdsIn(gen'[g]) = {}
      BY <2>1, EmptyFile
    <3> QED BY <3>1, KeptThen
  <2> QED BY <1>0, <2>1, <2>2 DEF KeptInv
<1>8. CASE Rotation!Drop
  <2>1. /\ gen' = Rotation!Without(maxBackups) /\ at' = maxBackups /\ stderr' = stderr
        /\ maxBackups > 0 /\ 0 \in DOMAIN gen /\ gen[0] # <<>>
    BY <1>0, <1>8 DEF Rotation!Drop, Rotation!Goes, Rotation!history, LogBase, StepOK
  <2>2. at' \notin DOMAIN gen'
    BY <2>1, WithoutIs
  <2>3. /\ Kept' \subseteq Kept /\ Kept' # {}
        /\ \A i \in Kept \ Kept', k \in Kept' : i < k
    BY <2>1, KeptWithout
  <2> HIDE DEF Kept
  <2>4. \A i \in stderr' \ Kept', k \in Kept' : i < k
    BY <1>1, <2>1, <2>3
  <2>5. Kept' \subseteq stderr'
    BY <1>1, <2>1, <2>3
  <2> QED BY <1>0, <2>1, <2>2, <2>3, <2>4, <2>5 DEF KeptInv, Kept
<1>9. CASE Rotation!Shift
  <2>1. /\ gen' = Rotation!Renamed(at - 1, at) /\ at' = at - 1 /\ stderr' = stderr
        /\ at \notin DOMAIN gen
    BY <1>0, <1>1, <1>9 DEF Rotation!Shift, Rotation!history
  <2>2. at - 1 # at
    BY DEF LogBase, LogTypeOK
  <2>3. Kept' = Kept
    BY <2>1, <2>2, KeptSame
  <2>4. at - 1 \notin DOMAIN gen'
    <3>1. CASE at - 1 \in DOMAIN gen
      <4>1. DOMAIN gen' = (DOMAIN gen \ {at - 1}) \cup {at}
        BY <2>1, <2>2, <3>1, RenamedIs
      <4> QED BY <2>2, <4>1
    <3>2. CASE at - 1 \notin DOMAIN gen
      BY <2>1, <3>2 DEF Rotation!Renamed
    <3> QED BY <3>1, <3>2
  <2> QED BY <1>2, <2>1, <2>3, <2>4
<1>10. CASE Rotation!Move
  <2>1. gen' = Rotation!Renamed(0, 1) /\ stderr' = stderr /\ step' # "shift" /\ 1 \notin DOMAIN gen
    BY <1>0, <1>1, <1>10 DEF Rotation!Move, Rotation!history
  <2>2. Kept' = Kept
    BY <2>1, KeptSame
  <2> QED BY <1>2, <2>1, <2>2
<1>11. CASE Rotation!Reopen
  <2>1. gen' = Rotation!Created /\ stderr' = stderr /\ step' # "shift"
    BY <1>0, <1>11 DEF Rotation!Reopen, Rotation!history
  <2>2. Kept' = Kept
    BY <2>1, KeptSame
  <2> QED BY <1>2, <2>1, <2>2
<1>12. CASE Rotation!Close \/ Rotation!Kill \/ UNCHANGED Rotation!vars
  <2>1. gen' = gen /\ stderr' = stderr /\ (step' = "shift" => step = "shift" /\ at' = at)
    BY <1>12 DEF Rotation!Close, Rotation!Kill, Rotation!Down, Rotation!history, Rotation!vars,
      Rotation!writer
  <2>2. Kept' = Kept
    BY <2>1, KeptSame
  <2> QED BY <1>1, <1>2, <2>1, <2>2
<1> QED BY <1>3, <1>4, <1>5, <1>6, <1>7, <1>8, <1>9, <1>10, <1>11, <1>12 DEF Rotation!Next, Rotation!rotate

\* One backup moves up, past the hole, which is where it was.
LEMMA HoleMoves ==
    ASSUME NEW m \in Nat, NEW a \in Nat, a >= 2, NEW D,
           D = IF a <= m THEN (1..m + 1) \ {a} ELSE 1..m
    PROVE  /\ a - 1 \in D <=> a - 1 <= m
           /\ a - 1 <= m => (D \ {a - 1}) \cup {a} = (1..m + 1) \ {a - 1}
           /\ a - 1 > m => D = 1..m
<1>1. CASE a <= m
  BY <1>1
<1>2. CASE a = m + 1
  BY <1>2
<1>3. CASE a > m + 1
  BY <1>3
<1> QED BY <1>1, <1>2, <1>3

\* The live file becomes the first backup: the hole is filled.
LEMMA HoleFilled ==
    ASSUME NEW m \in Nat, NEW D, D = IF 1 <= m THEN (1..m + 1) \ {1} ELSE 1..m
    PROVE  D \cup {1} = 1..m + 1
<1>1. CASE m = 0
  BY <1>1
<1>2. CASE m # 0
  BY <1>2
<1> QED BY <1>1, <1>2

\* Every step keeps the backups without a gap but for the hole of a rotation, as long as
\* no call failed and the process was not killed.
LEMMA BackedNext == LogBase /\ KeptInv /\ BackedInv /\ [Rotation!Next]_(Rotation!vars) => BackedInv'
<1> SUFFICES ASSUME LogBase, KeptInv, BackedInv, [Rotation!Next]_(Rotation!vars), faults' + kills' = 0
             PROVE  \E m \in Nat : Backed(m)'
  BY DEF BackedInv
<1> DEFINE D == DOMAIN gen \ {0}
           Lost == ~(stderr \subseteq Rotation!Kept)
<1>0. /\ faults = 0 /\ kills = 0 /\ ~Rotation!Fault /\ ~Rotation!Kill /\ maxBackups' = maxBackups
      /\ maxBackups \in Nat
  <2>1. /\ faults \in Nat /\ (faults' = faults \/ faults' = faults + 1)
        /\ kills \in Nat /\ (kills' = kills \/ kills' = kills + 1)
        /\ UNCHANGED maxBackups /\ maxBackups \in Nat
    BY DEF LogBase, LogTypeOK, Rotation!Next, Rotation!rotate, Rotation!Start, Rotation!Record,
      Rotation!WriteLine, Rotation!WriteFails, Rotation!Truncate, Rotation!Drop, Rotation!Shift,
      Rotation!Move, Rotation!Reopen, Rotation!Close, Rotation!Kill, Rotation!Down, Rotation!vars,
      Rotation!Fault, Rotation!NoFault, Rotation!Begin, Rotation!writer
  <2>2. faults = 0 /\ kills = 0 /\ faults' = 0 /\ kills' = 0
    BY <2>1
  <2>3. (Rotation!Fault => faults' = faults + 1) /\ (Rotation!Kill => kills' = kills + 1)
    BY DEF Rotation!Fault, Rotation!Kill
  <2> QED BY <2>1, <2>2, <2>3
<1>1. PICK m \in Nat : Backed(m)
  BY <1>0 DEF BackedInv
<1>2. ASSUME step # "shift", step' # "shift", D' = D, Lost' => Lost PROVE Backed(m)'
  BY <1>0, <1>1, <1>2 DEF Backed
<1>3. CASE Rotation!Start \/ Rotation!Reopen
  <2>1. gen' = Rotation!Created /\ stderr' = stderr /\ step # "shift" /\ step' # "shift"
    BY <1>0, <1>3 DEF Rotation!Start, Rotation!Reopen, Rotation!Goes, Rotation!history
  <2>2. Rotation!Kept' = Rotation!Kept
    BY <2>1, KeptSame
  <2>3. D' = D
    BY <2>1, CreatedIs
  <2> QED BY <1>2, <2>1, <2>2, <2>3
<1>4. CASE Rotation!Record \/ Rotation!WriteFails \/ Rotation!Close \/ Rotation!Kill
  <2>1. gen' = gen /\ stderr' = stderr /\ step # "shift" /\ step' # "shift"
    BY <1>0, <1>4 DEF Rotation!Record, Rotation!Begin, Rotation!WriteFails, Rotation!Refused,
      Rotation!Close, Rotation!Down, Rotation!history
  <2>2. Rotation!Kept' = Rotation!Kept
    BY <2>1, KeptSame
  <2> QED BY <1>2, <2>1, <2>2
<1>5. CASE Rotation!WriteLine
  <2>1. /\ gen' = [gen EXCEPT ![0] = Append(@, line)] /\ stderr' = stderr \cup {line.id}
        /\ step # "shift" /\ step' # "shift" /\ line \in Entry /\ 0 \in DOMAIN gen
    BY <1>5 DEF Rotation!WriteLine, Rotation!Goes, LogBase, StepOK, SizeInv, InFlight
  <2>2. Rotation!Kept' = Rotation!Kept \cup {line.id} /\ D' = D
    BY <2>1, KeptAppended, AppendedIs DEF LogBase
  <2> QED BY <1>2, <2>1, <2>2
<1>6. CASE Rotation!Truncate
  <2>1. gen' = [k \in {0} |-> <<>>] /\ step' # "shift" /\ maxBackups = 0
    BY <1>0, <1>6 DEF Rotation!Truncate, LogBase, StepOK
  <2>2. DOMAIN gen' \ {0} = 1..0
    BY <2>1
  <2>3. Backed(0)'
    BY <1>0, <2>1, <2>2 DEF Backed
  <2> QED BY <2>3
<1>7. CASE Rotation!Drop
  <2>1. /\ gen' = Rotation!Without(maxBackups) /\ at' = maxBackups /\ stderr' = stderr
        /\ maxBackups > 0 /\ step = "drop" /\ step' = "shift"
    BY <1>0, <1>7 DEF Rotation!Drop, Rotation!Goes, Rotation!history, LogBase, StepOK
  <2>2. m <= maxBackups /\ D = 1..m /\ (Lost => m = maxBackups)
    BY <1>1, <2>1 DEF Backed
  <2>3. DOMAIN gen' = DOMAIN gen \ {maxBackups}
    BY <2>1, WithoutIs
  <2>4. CASE m = maxBackups
    <3>0. PICK k \in Nat : k = maxBackups - 1
      BY <1>0, <2>1
    <3>1. DOMAIN gen' \ {0} = 1..k
      BY <1>0, <2>2, <2>3, <2>4, <3>0
    <3>2. ~(maxBackups <= k) /\ k < maxBackups
      BY <1>0, <2>1, <3>0
    <3>3. Backed(k)'
      BY <1>0, <2>1, <3>0, <3>1, <3>2 DEF Backed
    <3> QED BY <3>3
  <2>5. CASE m # maxBackups
    <3>1. maxBackups \notin D /\ maxBackups # 0 /\ ~(maxBackups <= m) /\ m < maxBackups
      BY <1>0, <2>1, <2>2, <2>5
    <3>2. DOMAIN gen' \ {0} = 1..m /\ Rotation!Kept' = Rotation!Kept
      BY <2>1, <2>2, <2>3, <3>1, KeptWithout
    <3>3. ~Lost'
      BY <2>1, <2>2, <2>5, <3>2
    <3>4. Backed(m)'
      BY <1>0, <2>1, <3>1, <3>2, <3>3 DEF Backed
    <3> QED BY <3>4
  <2> QED BY <2>4, <2>5
<1>8. CASE Rotation!Shift
  <2>1. /\ gen' = Rotation!Renamed(at - 1, at) /\ at' = at - 1 /\ stderr' = stderr
        /\ at \notin DOMAIN gen /\ at >= 2 /\ step = "shift" /\ step' = "shift"
    BY <1>0, <1>8 DEF Rotation!Shift, Rotation!history, KeptInv
  <2>2. at \in Nat /\ at - 1 # at /\ at # 0 /\ at - 1 # 0
    BY <2>1 DEF LogBase, LogTypeOK
  <2>3. Rotation!Kept' = Rotation!Kept
    BY <2>1, <2>2, KeptSame
  <2>4. /\ m < maxBackups /\ D = (IF at <= m THEN (1..m + 1) \ {at} ELSE 1..m)
        /\ Lost => m = maxBackups - 1
    BY <1>1, <2>1 DEF Backed
  <2>5. /\ at - 1 \in D <=> at - 1 <= m
        /\ at - 1 <= m => (D \ {at - 1}) \cup {at} = (1..m + 1) \ {at - 1}
        /\ at - 1 > m => D = 1..m
    BY <2>1, <2>2, <2>4, HoleMoves
  <2>6. DOMAIN gen' \ {0} = (IF at - 1 <= m THEN (1..m + 1) \ {at - 1} ELSE 1..m)
    <3>1. CASE at - 1 \in DOMAIN gen
      <4>1. DOMAIN gen' = (DOMAIN gen \ {at - 1}) \cup {at}
        BY <2>1, <2>2, <3>1, RenamedIs
      <4> QED BY <2>2, <2>5, <3>1, <4>1
    <3>2. CASE at - 1 \notin DOMAIN gen
      <4>1. gen' = gen
        BY <2>1, <3>2 DEF Rotation!Renamed
      <4> QED BY <2>2, <2>5, <3>2, <4>1
    <3> QED BY <3>1, <3>2
  <2>7. Backed(m)'
    BY <1>0, <2>1, <2>3, <2>4, <2>6 DEF Backed
  <2> QED BY <2>7
<1>9. CASE Rotation!Move
  <2>1. /\ gen' = Rotation!Renamed(0, 1) /\ stderr' = stderr /\ step' # "shift" /\ step = "shift"
        /\ at = 1 /\ 1 \notin DOMAIN gen /\ 0 \in DOMAIN gen
    BY <1>0, <1>9 DEF Rotation!Move, Rotation!history, KeptInv
  <2>2. Rotation!Kept' = Rotation!Kept
    BY <2>1, KeptSame
  <2>3. /\ m < maxBackups /\ D = (IF 1 <= m THEN (1..m + 1) \ {1} ELSE 1..m)
        /\ Lost => m = maxBackups - 1
    BY <1>1, <2>1 DEF Backed
  <2>4. DOMAIN gen' = (DOMAIN gen \ {0}) \cup {1}
    <3>1. 0 # 1
      OBVIOUS
    <3> QED BY <2>1, <3>1, RenamedIs
  <2>5. DOMAIN gen' \ {0} = 1..m + 1
    BY <2>3, <2>4, HoleFilled
  <2>6. m + 1 \in Nat /\ m + 1 <= maxBackups /\ (m = maxBackups - 1 => m + 1 = maxBackups)
    BY <1>0, <2>3
  <2>7. Backed(m + 1)'
    BY <1>0, <2>1, <2>2, <2>3, <2>5, <2>6 DEF Backed
  <2> QED BY <2>6, <2>7
<1>10. CASE UNCHANGED Rotation!vars
  <2>1. gen' = gen /\ stderr' = stderr /\ step' = step /\ at' = at
    BY <1>10 DEF Rotation!vars, Rotation!writer, Rotation!history
  <2>2. Rotation!Kept' = Rotation!Kept
    BY <2>1, KeptSame
  <2>3. Backed(m)'
    BY <1>0, <1>1, <2>1, <2>2 DEF Backed
  <2> QED BY <2>3
<1> QED BY <1>3, <1>4, <1>5, <1>6, <1>7, <1>8, <1>9, <1>10 DEF Rotation!Next, Rotation!rotate

\* At first there is no file.
LEMMA LogInit == Rotation!Init => LogInv
<1> SUFFICES ASSUME Rotation!Init PROVE LogInv
  OBVIOUS
<1>0. /\ maxBackups \in Nat /\ DOMAIN gen = {} /\ step = "off" /\ open = FALSE /\ size = 0 /\ at = 0
      /\ line = [id |-> 0, len |-> 0] /\ stderr = {} /\ next = 1 /\ kills = 0 /\ faults = 0
  BY DiskAssumption DEF Rotation!Init, Rotation!LogAssumption
<1>1. LogTypeOK
  <2>1. line \in [id : Nat, len : Nat]
    BY <1>0
  <2>2. DOMAIN gen \subseteq 0..maxBackups /\ \A g \in DOMAIN gen : gen[g] \in Seq(Entry)
    BY <1>0
  <2>3. open \in BOOLEAN /\ stderr \subseteq Nat
    BY <1>0
  <2>4. /\ size \in Nat /\ at \in Nat /\ step = "off" /\ maxBackups \in Nat
        /\ next \in Nat \ {0} /\ kills \in Nat /\ faults \in Nat
    BY <1>0
  <2> QED BY <2>1, <2>2, <2>3, <2>4 DEF LogTypeOK
<1>2. StepOK
  BY <1>0 DEF StepOK, InFlight
<1>3. SizeInv
  BY <1>0 DEF SizeInv
<1>4. OrderInv
  BY <1>0 DEF OrderInv, InFlight
<1>5. KeptInv
  BY <1>0, KeptIs DEF KeptInv
<1>6. BackedInv
  <2>1. DOMAIN gen \ {0} = 1..0
    BY <1>0
  <2>2. Backed(0)
    BY <1>0, <2>1 DEF Backed
  <2> QED BY <2>2 DEF BackedInv
<1> QED BY <1>1, <1>2, <1>3, <1>4, <1>5, <1>6 DEF LogInv

\* The invariant of the log is inductive.
LEMMA LogNext == LogInv /\ [Rotation!Next]_(Rotation!vars) => LogInv'
  BY LogShape, OrderNext, KeptNext, BackedNext DEF LogInv, LogBase

\* What is kept is in order, and the newest.
LEMMA NewestFollows == LogInv => NewestInOrder
<1> SUFFICES ASSUME LogInv PROVE NewestInOrder
  OBVIOUS
<1>1. ASSUME NEW g \in DOMAIN gen, NEW h \in DOMAIN gen, NEW i \in DOMAIN gen[g], NEW j \in DOMAIN gen[h],
             g > h \/ (g = h /\ i < j)
      PROVE  gen[g][i].id < gen[h][j].id
  <2>1. CASE g > h
    <3>1. Before(gen[g], gen[h])
      BY <2>1 DEF LogInv, OrderInv
    <3> QED BY <3>1 DEF Before
  <2>2. CASE g = h /\ i < j
    <3>1. Sorted(gen[g])
      BY DEF LogInv, OrderInv
    <3> QED BY <2>2, <3>1 DEF Sorted
  <2> QED BY <1>1, <2>1, <2>2
<1>2. ASSUME faults = 0, maxBackups > 0, stderr # {}
      PROVE  /\ stderr \cap Rotation!Kept # {}
             /\ \A i \in stderr \ Rotation!Kept, k \in Rotation!Kept : i < k
  BY <1>2 DEF LogInv, KeptInv
<1> QED BY <1>1, <1>2 DEF NewestInOrder, Rotation!NewestInOrder

\* Its size is what is configured.
LEMMA SizesFollow == LogInv => SizesHold
<1> SUFFICES ASSUME LogInv PROVE SizesHold
  OBVIOUS
<1>1. Rotation!SizeIsFile
  BY DEF LogInv, SizeInv, Fits, Rotation!SizeIsFile
<1>2. \A g \in DOMAIN gen \ {0} : gen[g] # <<>> /\ \E n \in Lengths : Rotation!Bytes(gen[g]) + n > MaxSize
  BY DEF LogInv, SizeInv, Full
<1>3. ASSUME step = "idle", faults + kills = 0, ~(stderr \subseteq Rotation!Kept)
      PROVE  1..maxBackups \subseteq DOMAIN gen
  <2>1. PICK m \in Nat : Backed(m)
    BY <1>3 DEF LogInv, BackedInv
  <2>2. m = maxBackups /\ DOMAIN gen \ {0} = 1..m
    BY <1>3, <2>1 DEF Backed
  <2> QED BY <2>2
<1>4. DOMAIN gen \subseteq 0..maxBackups
  BY DEF LogInv, LogTypeOK
<1> QED BY <1>1, <1>2, <1>3, <1>4 DEF SizesHold, Rotation!SizesHold, Rotation!BackupsAreFull

\* The rotating log keeps its two promises.
LEMMA LogHolds == Rotation!Spec => [](NewestInOrder /\ SizesHold)
  BY LogNext, LogInit, NewestFollows, SizesFollow, PTL DEF Rotation!Spec

-----------------------------------------------------------------------------
(* The disk as a whole: every behaviour of Disk is one of each part.       *)

\* A step of the disk is a step of each part, or leaves it alone.
LEMMA DiskStep ==
    [DNext]_<<moving, logFiles, auditFile, configFile>> =>
        /\ [Rotation!Next]_(Rotation!vars)
        /\ [Records!Next]_(Records!vars)
        /\ [Config!Next]_(Config!vars)
<1>1. UNCHANGED logFiles => UNCHANGED Rotation!vars
  BY DEF logFiles, Rotation!vars, Rotation!writer, Rotation!history
<1>2. UNCHANGED auditFile => UNCHANGED Records!vars
  BY DEF auditFile, Records!vars
<1>3. UNCHANGED configFile => UNCHANGED Config!vars
  BY DEF configFile, Config!vars
<1> QED BY <1>1, <1>2, <1>3 DEF DNext

\* The disk implements its parts.
LEMMA DiskParts == DSpec => Rotation!Spec /\ Records!Spec /\ Config!Spec
  BY DiskStep, PTL DEF DSpec, DInit, Rotation!Spec, Records!Spec, Config!Spec

\* The log is in the order its records were written over any rotations, failed calls,
\* kills and restarts; without a failed call, what is gone is older than all that is
\* kept (internal/logging).
THEOREM LogIsNewestInOrder == DSpec => []NewestInOrder
  BY DiskParts, LogHolds, PTL

\* Neither maxSize nor max_backups is exceeded or wasted, whatever failed
\* (internal/logging).
THEOREM LogSizesHold == DSpec => []SizesHold
  BY DiskParts, LogHolds, PTL

\* A torn write costs the audit log at most one record more than the write that failed
\* (internal/auditlog).
THEOREM AuditTearsAreCheap == DSpec => []TornCostsOneRecord
  BY DiskParts, AuditLogHolds, PTL

\* The audit log tells the true history of the run state (internal/auditlog).
THEOREM AuditHistoryIsTrue == DSpec => []HistoryIsTrue
  BY DiskParts, AuditLogHolds, PTL

\* A start ends in a usable config or has a cause to give up (cmd/tavazon,
\* internal/config).
THEOREM ConfigStartsOnUsable == DSpec => []StartsOnUsable
  BY DiskParts, BootUsable, PTL

\* A restart that follows no loss of power resumes, but for overrides, one whole
\* config: that of the last edit answered with success, or the one last live
\* (internal/config, web.ConfigHolder).
THEOREM ConfigRestartKeeps == DSpec => RestartKeeps
<1>1. BootInv /\ [Config!Next]_(Config!vars) => BootInv'
  BY BootNext
<1>2. Config!Spec => Config!RestartKeeps
  BY <1>1, BootInit, KeepsFollows, PTL DEF Config!Spec, Config!RestartKeeps
<1> QED BY <1>2, DiskParts, PTL DEF RestartKeeps
-----------------------------------------------------------------------------
(* The state file (StateFile): with one goroutine that saves, whatever the  *)
(* number of files, versions, kills and losses of power, the live file is   *)
(* whole at every instant, what Save returned nil for survives a kill, what *)
(* the journal holds was on the disk, and the seven system calls are one    *)
(* replacement of the file (AtomicFile).                                    *)

\* In the Synchronizer composition the engine loop alone saves; the second writer of
\* the dashboard is what MCStateFile_race refutes the file's promise with.
OneSaver == \A s, t \in Savers : s = t

Whole(i) == i \in synced /\ content[i] >= 0

\* The file: what the two durable names refer to is whole and on the disk, the
\* journalled record is not newer than the live one, and the temporary name refers
\* to neither.
FileInv ==
    /\ up # "fatal"
    /\ live # NoInode => Whole(live)
    /\ journalled # NoInode =>
          live # NoInode /\ Whole(journalled) /\ content[journalled] <= content[live]
    /\ tmp # NoInode => tmp \notin {live, journalled}
    /\ 0 <= saved /\ saved <= Recorded(live)
    /\ up = "on" => Recorded(live) <= version

\* The saver: what it has open is the temporary file, which holds its record from
\* the write on and is on the disk from the fsync on; its record is not older than
\* the live one.
SaverInv ==
    \A s \in Savers :
       /\ pc[s] \in {"idle", "open", "rename"} => fd[s] = NoInode
       /\ pc[s] \in {"write", "sync", "close"} => fd[s] = tmp /\ tmp # NoInode
       /\ pc[s] = "write" => content[tmp] = Empty
       /\ pc[s] \in {"sync", "close", "rename"} => tmp # NoInode /\ content[tmp] = data[s]
       /\ pc[s] \in {"close", "rename"} => tmp \in synced
       /\ pc[s] # "idle" => up = "on" /\ Recorded(live) <= data[s] /\ data[s] <= version

-----------------------------------------------------------------------------
\* Every variable has its type.
LEMMA TypeNext == TypeOK /\ SaverInv /\ [Next]_vars => TypeOK'
<1> SUFFICES ASSUME TypeOK, SaverInv, [Next]_vars PROVE TypeOK'
  OBVIOUS
<1> USE StateFileAssumption DEF TypeOK, directory, files, Empty, Torn, Steps
<1>1. CASE Load
  <2>1. live # NoInode => content[live] \in Torn..MaxVersion
    OBVIOUS
  <2> QED BY <1>1, <2>1 DEF Load
<1>2. CASE Change
  BY <1>2 DEF Change
<1>3. ASSUME NEW s \in Savers, Save(s) PROVE TypeOK'
  <2> USE DEF Step
  <2>1. CASE Marshal(s)
    BY <2>1 DEF Marshal
  <2>2. CASE Open(s)
    <3>1. PICK i \in Inodes :
            /\ tmp' = i
            /\ fd' = [fd EXCEPT ![s] = i]
            /\ content' = [content EXCEPT ![i] = Empty]
            /\ synced' = synced \ {i}
      BY <2>2 DEF Open
    <3>2. content' \in [Inodes -> Torn..MaxVersion]
      BY <3>1
    <3>3. fd' \in [Savers -> Inodes \cup {NoInode}]
      BY <3>1
    <3>4. pc' \in [Savers -> Steps]
      BY <2>2 DEF Open
    <3> QED BY <2>2, <3>1, <3>2, <3>3, <3>4 DEF Open
  <2>3. CASE Write(s)
    <3>1. PICK c \in {data[s], Torn} : content' = [content EXCEPT ![fd[s]] = c]
      BY <2>3 DEF Write
    <3>2. c \in Torn..MaxVersion
      BY <3>1
    <3>3. content' \in [Inodes -> Torn..MaxVersion]
      BY <3>1, <3>2
    <3> QED BY <2>3, <3>3 DEF Write
  <2>4. CASE Fsync(s)
    <3>1. fd[s] \in Inodes
      BY <2>4 DEF Fsync, SaverInv
    <3> QED BY <2>4, <3>1 DEF Fsync
  <2>5. CASE Close(s)
    BY <2>5 DEF Close
  <2>6. CASE Rename(s)
    BY <2>6 DEF Rename, Newer
  <2>7. CASE Fails(s)
    <3>1. content' = content \/ content' = [content EXCEPT ![fd[s]] = Torn]
      BY <2>7 DEF Fails
    <3>2. content' \in [Inodes -> Torn..MaxVersion]
      BY <3>1
    <3> QED BY <2>7, <3>2 DEF Fails
  <2> QED BY <1>3, <2>1, <2>2, <2>3, <2>4, <2>5, <2>6, <2>7 DEF Save
<1>4. CASE Kill
  <2>1. content' \in [Inodes -> Torn..MaxVersion]
    BY <1>4 DEF Kill
  <2> QED BY <1>4, <2>1 DEF Kill, Down
<1>5. CASE Journal
  BY <1>5 DEF Journal
<1>6. CASE PowerLoss
  <2>1. content' \in [Inodes -> Torn..MaxVersion]
    BY <1>6 DEF PowerLoss
  <2> QED BY <1>6, <2>1 DEF PowerLoss, Down
<1>7. CASE UNCHANGED vars
  BY <1>7 DEF vars
<1> QED BY <1>1, <1>2, <1>3, <1>4, <1>5, <1>6, <1>7 DEF Next

-----------------------------------------------------------------------------
(* What a step leaves alone: only the temporary file changes.              *)

Named(i) == i # NoInode /\ i \in {live, journalled}

\* No system call changes the contents of the live or the journalled file, nor
\* whether they are on the disk: a saver writes to the temporary file alone.
LEMMA NamedStay ==
    ASSUME TypeOK, FileInv, SaverInv, NEW s \in Savers, Save(s), NEW i, Named(i)
    PROVE  content'[i] = content[i] /\ (i \in synced => i \in synced')
<1> USE StateFileAssumption DEF TypeOK, FileInv, SaverInv, Named, Step, directory, files, Steps
<1>0. i \in Inodes /\ i # tmp
  OBVIOUS
<1>1. CASE Open(s)
  <2>1. PICK j \in Inodes :
          /\ IF tmp = NoInode THEN Free(j) ELSE j = tmp
          /\ content' = [content EXCEPT ![j] = Empty]
          /\ synced' = synced \ {j}
    BY <1>1 DEF Open
  <2>2. i # j
    BY <1>0, <2>1 DEF Free
  <2> QED BY <1>0, <2>1, <2>2
<1>2. CASE Write(s)
  <2>1. fd[s] = tmp
    BY <1>2 DEF Write
  <2> QED BY <1>0, <1>2, <2>1 DEF Write
<1>3. CASE Fails(s)
  <2>1. fd[s] = tmp \/ fd[s] = NoInode
    BY <1>3 DEF Fails
  <2> QED BY <1>0, <1>3, <2>1 DEF Fails
<1>4. CASE Marshal(s) \/ Fsync(s) \/ Close(s) \/ Rename(s)
  BY <1>4 DEF Marshal, Fsync, Close, Rename
<1> QED BY <1>1, <1>2, <1>3, <1>4 DEF Save

\* Before the first start there is no file, and no goroutine is saving.
LEMMA InvInit == Init => TypeOK /\ FileInv /\ SaverInv
<1> SUFFICES ASSUME Init PROVE TypeOK /\ FileInv /\ SaverInv
  OBVIOUS
<1> USE StateFileAssumption DEF Init, Empty, Torn, Steps, Recorded
<1>1. TypeOK
  BY DEF TypeOK
<1>2. FileInv /\ SaverInv
  BY DEF FileInv, SaverInv
<1> QED BY <1>1, <1>2

\* Every system call of Save, every kill and every loss of power leaves the live name on
\* a whole record that is at least what Save returned nil for.
LEMMA FileNext ==
    ASSUME TypeOK, TypeOK', FileInv, SaverInv, [Next]_vars
    PROVE  FileInv'
<1> USE StateFileAssumption DEF Recorded, Whole, Empty, Torn
<1>0. /\ \A i \in Inodes : content[i] \in Int /\ content'[i] \in Int
      /\ \A s \in Savers : data[s] \in Int
      /\ {saved, saved', version, version'} \subseteq Int
      /\ {tmp, live, journalled, tmp', live', journalled'} \subseteq Inodes \cup {NoInode}
  BY DEF TypeOK
<1>1. CASE Load
  <2>1. UNCHANGED <<directory, files, saved>> /\ up' = "on" /\ version' = Recorded(live)
    BY <1>0, <1>1 DEF Load, FileInv
  <2> QED BY <1>0, <2>1 DEF FileInv, directory, files
<1>2. CASE Change
  BY <1>0, <1>2 DEF Change, FileInv, directory, files
<1>3. ASSUME NEW s \in Savers, Save(s) PROVE FileInv'
  <2>1. CASE Rename(s)
    <3>1. /\ pc[s] = "rename" /\ live' = tmp /\ tmp' = NoInode
          /\ UNCHANGED <<up, version, journalled, content, synced>>
          /\ saved' = Newer(saved, data[s])
      BY <2>1 DEF Rename, Step, files
    <3>2. /\ tmp # NoInode /\ content[tmp] = data[s] /\ tmp \in synced /\ tmp \in Inodes
          /\ up = "on" /\ Recorded(live) <= data[s] /\ data[s] <= version /\ data[s] >= 0
      BY <1>0, <3>1 DEF SaverInv, TypeOK
    <3>3. saved' = data[s]
      BY <1>0, <3>1, <3>2 DEF Newer, FileInv
    <3>4. journalled # NoInode => content[journalled] <= data[s]
      BY <1>0, <3>2 DEF FileInv
    <3> QED BY <1>0, <3>1, <3>2, <3>3, <3>4 DEF FileInv
  <2>2. CASE Marshal(s) \/ Open(s) \/ Write(s) \/ Fsync(s) \/ Close(s) \/ Fails(s)
    <3>1. UNCHANGED <<up, version, live, journalled, saved>>
      BY <2>2 DEF Marshal, Open, Write, Fsync, Close, Fails, directory, files
    <3>2. \A i : Named(i) => content'[i] = content[i] /\ (i \in synced => i \in synced')
      BY <1>3, NamedStay
    <3>3. tmp' # NoInode => tmp' \notin {live, journalled}
      <4>1. CASE Open(s)
        BY <4>1 DEF Open, Free, FileInv
      <4>2. CASE ~Open(s)
        BY <2>2, <4>2 DEF Marshal, Write, Fsync, Close, Fails, directory, files, FileInv
      <4> QED BY <4>1, <4>2
    <3> QED BY <1>0, <3>1, <3>2, <3>3 DEF FileInv, Named
  <2> QED BY <1>3, <2>1, <2>2 DEF Save
<1>4. CASE Kill
  <2>1. UNCHANGED <<tmp, live, journalled, synced, saved>> /\ up' = "off"
    BY <1>4 DEF Kill, Down, directory
  <2>2. PICK cut \in SUBSET {fd[s] : s \in {t \in Savers : pc[t] = "write"}} :
          content' = [i \in Inodes |-> IF i \in cut THEN Torn ELSE content[i]]
    BY <1>4 DEF Kill
  <2>3. \A i \in cut : i = tmp
    BY <2>2 DEF SaverInv
  <2>4. \A i : Named(i) => content'[i] = content[i]
    BY <1>0, <2>2, <2>3 DEF Named, FileInv
  <2> QED BY <1>0, <2>1, <2>4 DEF FileInv, Named
<1>5. CASE Journal
  BY <1>0, <1>5 DEF Journal, FileInv, files
<1>6. CASE PowerLoss
  <2>1. /\ live' = journalled /\ journalled' = journalled /\ tmp' \in {tmp, NoInode}
        /\ up' = "off" /\ synced' = Inodes
        /\ saved' = IF journalled = NoInode THEN 0 ELSE content'[journalled]
    BY <1>6 DEF PowerLoss, Down
  <2>2. journalled # NoInode => content'[journalled] = content[journalled]
    BY <1>0, <1>6 DEF PowerLoss, FileInv
  <2> QED BY <1>0, <2>1, <2>2 DEF FileInv
<1>7. CASE UNCHANGED vars
  BY <1>7 DEF vars, FileInv
<1> QED BY <1>1, <1>2, <1>3, <1>4, <1>5, <1>6, <1>7 DEF Next

\* With one saver, the temporary file is the one it has opened, written and synced: no
\* other goroutine truncates it between two of its system calls.
LEMMA SaverNext ==
    ASSUME OneSaver, TypeOK, TypeOK', FileInv, SaverInv, [Next]_vars
    PROVE  SaverInv'
<1> USE StateFileAssumption DEF Recorded, Empty, Torn, directory, files
<1>0. /\ \A i \in Inodes : content[i] \in Int /\ content'[i] \in Int
      /\ \A s \in Savers : data[s] \in Int /\ data'[s] \in Int
      /\ {version, version'} \subseteq Int
      /\ {tmp, live, journalled, tmp', live', journalled'} \subseteq Inodes \cup {NoInode}
  BY DEF TypeOK
<1>1. CASE Load
  BY <1>1 DEF Load, SaverInv
<1>2. CASE Change
  <2>1. version' = version + 1 /\ UNCHANGED <<up, pc, data, fd, tmp, live, content, synced>>
    BY <1>2 DEF Change
  <2> QED BY <1>0, <2>1 DEF SaverInv
<1>3. ASSUME NEW s \in Savers, Save(s) PROVE SaverInv'
  <2> USE <1>0 DEF Step, TypeOK, Steps
  <2>0. \A t \in Savers : t = s
    BY DEF OneSaver
  <2>1. CASE Marshal(s)
    <3>1. /\ pc'[s] = "open" /\ data'[s] = version /\ fd'[s] = NoInode /\ up' = "on"
          /\ version' = version /\ Recorded(live) <= version
          /\ UNCHANGED <<live, content>>
      BY <2>1 DEF Marshal, SaverInv, FileInv
    <3> QED BY <2>0, <3>1 DEF SaverInv
  <2>2. CASE Open(s)
    <3>1. PICK i \in Inodes : tmp' = i /\ fd'[s] = i /\ content'[i] = Empty
      BY <2>2 DEF Open
    <3>2. /\ pc'[s] = "write" /\ up' = "on" /\ data'[s] = data[s]
          /\ version' = version /\ live' = live
      BY <2>2 DEF Open
    <3>3. live # NoInode => content'[live] = content[live]
      BY <1>3, NamedStay DEF Named
    <3>4. Recorded(live) <= data[s] /\ data[s] <= version
      BY <2>2 DEF Open, SaverInv
    <3> QED BY <2>0, <3>1, <3>2, <3>3, <3>4 DEF SaverInv
  <2>3. CASE Write(s)
    <3>1. /\ pc[s] = "write" /\ pc'[s] = "sync" /\ up' = "on" /\ fd[s] = tmp /\ tmp # NoInode
          /\ content[tmp] = Empty
          /\ UNCHANGED <<version, data, fd, tmp, live>>
      BY <2>3 DEF Write, SaverInv
    <3>2. content'[tmp] = data[s]
      BY <2>3, <3>1 DEF Write
    <3>3. live # NoInode => content'[live] = content[live]
      BY <1>3, NamedStay DEF Named
    <3>4. Recorded(live) <= data[s] /\ data[s] <= version
      BY <3>1 DEF SaverInv
    <3> QED BY <2>0, <3>1, <3>2, <3>3, <3>4 DEF SaverInv
  <2>4. CASE Fsync(s)
    <3>1. /\ pc[s] = "sync" /\ pc'[s] = "close" /\ tmp \in synced'
          /\ UNCHANGED <<up, version, data, fd, tmp, live, content>>
      BY <2>4 DEF Fsync, SaverInv
    <3> QED BY <2>0, <3>1 DEF SaverInv
  <2>5. CASE Close(s)
    <3>1. /\ pc[s] = "close" /\ pc'[s] = "rename" /\ fd'[s] = NoInode
          /\ UNCHANGED <<up, version, data, tmp, live, content, synced>>
      BY <2>5 DEF Close
    <3> QED BY <2>0, <3>1 DEF SaverInv
  <2>6. CASE Rename(s)
    <3>1. pc[s] = "rename" /\ pc'[s] = "idle" /\ fd' = fd
      BY <2>6 DEF Rename
    <3> QED BY <2>0, <3>1 DEF SaverInv
  <2>7. CASE Fails(s)
    <3>1. pc'[s] = "idle" /\ fd'[s] = NoInode
      BY <2>7 DEF Fails
    <3> QED BY <2>0, <3>1 DEF SaverInv
  <2> QED BY <1>3, <2>1, <2>2, <2>3, <2>4, <2>5, <2>6, <2>7 DEF Save
<1>4. CASE Kill \/ PowerLoss
  <2>1. \A s \in Savers : pc'[s] = "idle" /\ fd'[s] = NoInode
    BY <1>4 DEF Kill, PowerLoss, Down
  <2> QED BY <2>1 DEF SaverInv
<1>5. CASE Journal
  BY <1>5 DEF Journal, SaverInv
<1>6. CASE UNCHANGED vars
  BY <1>6 DEF vars, SaverInv
<1> QED BY <1>1, <1>2, <1>3, <1>4, <1>5, <1>6 DEF Next

\* What one saver keeps, whatever fails and whenever the process or the machine dies.
LEMMA Invariants == OneSaver => (Spec => [](TypeOK /\ FileInv /\ SaverInv))
<1> SUFFICES ASSUME OneSaver PROVE Spec => [](TypeOK /\ FileInv /\ SaverInv)
  OBVIOUS
<1>1. TypeOK /\ FileInv /\ SaverInv /\ [Next]_vars => (TypeOK /\ FileInv /\ SaverInv)'
  BY TypeNext, FileNext, SaverNext
<1> QED BY <1>1, InvInit, PTL DEF Spec

-----------------------------------------------------------------------------
(* What the runs check.                                                    *)

\* At every instant the live file is missing or one whole record (state.Save).
THEOREM LiveIsWhole == OneSaver => (Spec => []LiveNeverCorrupt)
<1> SUFFICES ASSUME OneSaver PROVE Spec => []LiveNeverCorrupt
  OBVIOUS
<1>1. FileInv => LiveNeverCorrupt
  BY DEF FileInv, Whole, LiveNeverCorrupt
<1> QED BY <1>1, Invariants, PTL

\* So a start never gives up on the state file (state.Load).
THEOREM StartsReadTheFile == OneSaver => (Spec => []StartNeverFails)
<1> SUFFICES ASSUME OneSaver PROVE Spec => []StartNeverFails
  OBVIOUS
<1>1. FileInv => StartNeverFails
  BY DEF FileInv, StartNeverFails
<1> QED BY <1>1, Invariants, PTL

\* What Save returned nil for survives every kill, and no older record replaces it.
THEOREM SavesAreKept == OneSaver => (Spec => []SavedIsKept)
<1> SUFFICES ASSUME OneSaver PROVE Spec => []SavedIsKept
  OBVIOUS
<1>1. TypeOK /\ FileInv => SavedIsKept
  BY DEF TypeOK, FileInv, SavedIsKept, Recorded
<1> QED BY <1>1, Invariants, PTL

\* What a loss of power falls back to was on the disk before it got its name.
THEOREM JournalIsWhole == OneSaver => (Spec => []JournalledIsWhole)
<1> SUFFICES ASSUME OneSaver PROVE Spec => []JournalledIsWhole
  OBVIOUS
<1>1. FileInv => JournalledIsWhole
  BY DEF FileInv, Whole, JournalledIsWhole
<1> QED BY <1>1, Invariants, PTL

\* Each step of the seven calls, of the process and of a crash is a step of
\* AtomicFile or leaves memory, file and journal as they are there.
LEMMA AtomicStep ==
    ASSUME TypeOK, TypeOK', FileInv, FileInv', SaverInv, [Next]_vars
    PROVE  [Atomic!Next]_(Atomic!vars)
<1> DEFINE memory == IF up = "on" THEN version ELSE Empty
           disk == Recorded(live)
           durable == Recorded(journalled)
<1> USE StateFileAssumption DEF Empty, Torn
<1>0. /\ \A i \in Inodes : content[i] \in Int /\ content'[i] \in Int
      /\ {version, version'} \subseteq Nat
      /\ {tmp, live, journalled, tmp', live', journalled'} \subseteq Inodes \cup {NoInode}
  BY DEF TypeOK
<1>1. CASE Load
  <2>1. up = "off" /\ up' = "on" /\ version' = disk /\ UNCHANGED <<live, journalled, content>>
    BY <1>0, <1>1 DEF Load, FileInv, Whole, directory, files, Recorded
  <2>2. memory = Empty /\ memory' = disk /\ disk' = disk /\ durable' = durable
    BY <2>1 DEF Recorded
  <2> QED BY <2>2 DEF Atomic!Next, Atomic!Load
<1>2. CASE Change
  <2>1. up = "on" /\ up' = "on" /\ version' = version + 1
        /\ UNCHANGED <<live, journalled, content>>
    BY <1>2 DEF Change, directory, files
  <2>2. memory # Empty /\ memory' = memory + 1 /\ disk' = disk /\ durable' = durable
    BY <1>0, <2>1 DEF Recorded
  <2> QED BY <2>2 DEF Atomic!Next, Atomic!Change
<1>3. ASSUME NEW s \in Savers, Rename(s) PROVE [Atomic!Next]_(Atomic!vars)
  <2>1. /\ pc[s] = "rename" /\ live' = tmp /\ up = "on"
        /\ UNCHANGED <<up, version, journalled, content>>
    BY <1>3 DEF Rename, Step, files
  <2>2. /\ tmp # NoInode /\ content[tmp] = data[s] /\ Recorded(live) <= data[s]
        /\ data[s] <= version /\ data[s] \in Nat
    BY <2>1 DEF SaverInv, TypeOK
  <2>3. disk' = data[s] /\ durable' = durable /\ memory' = memory /\ memory = version
    BY <2>1, <2>2 DEF Recorded
  <2>4. disk \in Int
    BY <1>0 DEF Recorded
  <2>5. memory # Empty /\ disk' \in disk..memory
    <3>1. data[s] \in disk..version
      BY <1>0, <2>2, <2>4
    <3> QED BY <1>0, <2>3, <3>1
  <2> QED BY <2>3, <2>5 DEF Atomic!Next, Atomic!Replace
<1>4. ASSUME NEW s \in Savers, Save(s), ~Rename(s) PROVE [Atomic!Next]_(Atomic!vars)
  <2>1. UNCHANGED <<up, version, live, journalled>>
    BY <1>4 DEF Save, Marshal, Open, Write, Fsync, Close, Fails, directory, files
  <2>2. \A i : Named(i) => content'[i] = content[i]
    BY <1>4, NamedStay
  <2>3. memory' = memory /\ disk' = disk /\ durable' = durable
    BY <2>1, <2>2 DEF Recorded, Named
  <2> QED BY <2>3 DEF Atomic!vars
<1>5. CASE Kill
  <2>1. UNCHANGED <<tmp, live, journalled>> /\ up' = "off"
    BY <1>5 DEF Kill, Down, directory
  <2>2. PICK cut \in SUBSET {fd[s] : s \in {t \in Savers : pc[t] = "write"}} :
          content' = [i \in Inodes |-> IF i \in cut THEN Torn ELSE content[i]]
    BY <1>5 DEF Kill
  <2>3. \A i \in cut : i = tmp
    BY <2>2 DEF SaverInv
  <2>4. \A i : Named(i) => content'[i] = content[i]
    BY <1>0, <2>2, <2>3 DEF Named, FileInv
  <2>5. memory' = Empty /\ disk' = disk /\ durable' = durable
    BY <2>1, <2>4 DEF Recorded, Named
  <2> QED BY <2>5 DEF Atomic!Next, Atomic!Kill
<1>6. CASE Journal
  <2>1. journalled' = live /\ UNCHANGED <<up, version, live, content>>
    BY <1>6 DEF Journal, files
  <2>2. durable' = disk /\ disk' = disk /\ memory' = memory
    BY <2>1 DEF Recorded
  <2> QED BY <2>2 DEF Atomic!Next, Atomic!Keep
<1>7. CASE PowerLoss
  <2>1. live' = journalled /\ journalled' = journalled /\ up' = "off"
    BY <1>7 DEF PowerLoss, Down
  <2>2. journalled # NoInode => content'[journalled] = content[journalled]
    BY <1>0, <1>7 DEF PowerLoss, FileInv, Whole
  <2>3. memory' = Empty /\ disk' = durable /\ durable' = durable
    BY <2>1, <2>2 DEF Recorded
  <2> QED BY <2>3 DEF Atomic!Next, Atomic!PowerLoss
<1>8. CASE UNCHANGED vars
  <2>1. memory' = memory /\ disk' = disk /\ durable' = durable
    BY <1>8 DEF vars, Recorded
  <2> QED BY <2>1 DEF Atomic!vars
<1> QED BY <1>1, <1>2, <1>3, <1>4, <1>5, <1>6, <1>7, <1>8 DEF Next

\* The seven system calls of a Save, with kills, losses of power and failures between
\* any two, are one replacement of the file by a record that is not older.
THEOREM SaveIsAtomic == OneSaver => (Spec => ImplementsAtomicFile)
<1> SUFFICES ASSUME OneSaver PROVE Spec => ImplementsAtomicFile
  OBVIOUS
<1>1. Init => Atomic!Init
  BY DEF Init, Atomic!Init, Recorded
<1>2. Atomic!Init /\ [][Atomic!Next]_(Atomic!vars) => Atomic!Spec
  BY DEF Atomic!Spec
<1> QED BY <1>1, <1>2, AtomicStep, Invariants, PTL DEF Spec, ImplementsAtomicFile
=============================================================================
