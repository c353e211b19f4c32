---------------------------- MODULE ConfigHolder ----------------------------
(***************************************************************************)
(* The live configuration: web.ConfigHolder, the dashboard handlers that   *)
(* change it (PUT /api/config, start, stop, dev), the config file and the  *)
(* audit log they write, and the engine that reads a snapshot each cycle.  *)
(*                                                                         *)
(* A config is a struct that handlers copy, with one slice in it: a copy   *)
(* shares the array of geoip.selected_asns with the config it was made     *)
(* from, and encoding/json decodes a list into the array it finds.         *)
(***************************************************************************)
EXTENDS Integers, Sequences, FiniteSets

CONSTANTS Handlers,     \* goroutines of net/http
          Bodies,       \* what a PUT may carry: some fields and their values
          Initial,      \* the file the first start reads, field by field
          MaxRequests,  \* bound
          MaxCrashes    \* bound

\* general.running, dev.enabled, every other scalar, geoip.selected_asns
Fields == {"running", "dev", "rest", "asns"}

\* The values of field f that the program meets.
Values(f) == {c[f] : c \in {b \in Bodies \cup {Initial} : f \in DOMAIN b}}

ASNs == UNION {{list[i] : i \in DOMAIN list} : list \in Values("asns")}

ASSUME ConfigAssumption ==
    /\ "free" \notin Handlers
    /\ Initial = [f \in Fields |-> Initial[f]]
    /\ \A b \in Bodies : DOMAIN b \subseteq Fields
    /\ Values("running") \subseteq BOOLEAN /\ Values("dev") \subseteq BOOLEAN
    /\ Values("asns") \subseteq Seq(ASNs)
    /\ MaxRequests \in Nat
    /\ MaxCrashes \in Nat

VARIABLES cfg,      \* h.cfg: scalars, and the slice as an array and a length
          heap,     \* the arrays, by address: allocated ones, in order
          lock,     \* the handler holding h.mu for writing, or "free"
          req,      \* request of each handler, with its locals
          file,     \* the config file, parsed
          unsaved,  \* history: the last persist failed
          audit,    \* the audit log: what the newest record of each field says, the
                    \* first file's value where there is none
          untold,   \* history: fields for which the log need not tell what is live
          snap,     \* the config the engine's cycle works with
          seen,     \* history: selected ASNs the cycle started with
          promise,  \* history: the value a start or stop was answered 200 for, if any
          requests, crashes

vars == <<cfg, heap, lock, req, file, unsaved, audit, untold, snap, seen, promise,
          requests, crashes>>

history == <<requests, crashes>>

None == [at |-> "none"]

NoCycle == [arr |-> 0]

-----------------------------------------------------------------------------
(* Slices.                                                                 *)

List(c, h) == SubSeq(h[c.arr], 1, c.len)

\* A config as its JSON shows it.
Contents(c, h) ==
    [f \in Fields |-> IF f = "asns" THEN List(c, h) ELSE c[f]]

\* A config read from a file has an array of its own.
Fresh(contents, h) ==
    [running |-> contents["running"], dev |-> contents["dev"], rest |-> contents["rest"],
     arr |-> Len(h) + 1, len |-> Len(contents["asns"])]

\* encoding/json fills the array it finds up to its capacity, then moves to a
\* larger one; an empty list gets a new slice.
Overwritten(c, h, list) ==
    [h EXCEPT ![c.arr] = [i \in 1..Len(@) |-> IF i <= Len(list) THEN list[i] ELSE @[i]]]

Decoded(c, h, list) ==
    IF list # <<>> /\ Len(list) <= Len(h[c.arr])
    THEN [c EXCEPT !.len = Len(list)]
    ELSE [c EXCEPT !.arr = Len(h) + 1, !.len = Len(list)]

DecodedHeap(c, h, list) ==
    IF list # <<>> /\ Len(list) <= Len(h[c.arr])
    THEN Overwritten(c, h, list)
    ELSE Append(Overwritten(c, h, list), list)

\* Mutant: fields the body does not name fall back to the first file.
OverDefaults(c, body) ==
    [f \in DOMAIN c |-> IF f \in DOMAIN body THEN body[f]
                       ELSE IF f \in DOMAIN Initial THEN Initial[f] ELSE c[f]]

WithScalars(c, body) ==
    [f \in DOMAIN c |-> IF f \in DOMAIN body THEN body[f] ELSE c[f]]

\* Mutant: the record holds the values before the change.
DiffBackwards(old, next, h) ==
    [f \in {g \in Fields : Contents(old, h)[g] # Contents(next, h)[g]} |->
        Contents(old, h)[f]]

\* diffConfig: the fields whose JSON differs.
Diff(old, next, h) ==
    [f \in {g \in Fields : Contents(old, h)[g] # Contents(next, h)[g]} |->
        Contents(next, h)[f]]

-----------------------------------------------------------------------------
Init ==
    /\ heap = <<Initial["asns"]>>
    /\ cfg = Fresh(Initial, <<>>)
    /\ lock = "free"
    /\ req = [h \in Handlers |-> None]
    /\ file = Initial
    /\ unsaved = FALSE
    /\ audit = Initial
    /\ untold = {}
    /\ snap = NoCycle
    /\ seen = <<>>
    /\ promise = {}
    /\ requests = 0
    /\ crashes = 0

Accept(h) ==
    /\ req[h] = None
    /\ requests < MaxRequests
    /\ requests' = requests + 1

Answer(h) == req' = [req EXCEPT ![h] = None]

\* Fields a request has changed and is about to append the record of.
Unrecorded == UNION {DOMAIN req[h].change : h \in {g \in Handlers : req[g].at = "audit"}}

\* Fields in which the config a PUT has decoded over is no longer the live one.
Stale(h) == {f \in Fields : Contents(req[h].was, heap)[f] # Contents(cfg, heap)[f]}

-----------------------------------------------------------------------------
(* handlePutConfig.                                                        *)

\* s.cfg.Get(), and a body that is not JSON answers 400 at once.
PutGet(h) ==
    /\ Accept(h)
    /\ lock = "free"
    /\ \E b \in Bodies :
          req' = [req EXCEPT ![h] = [at |-> "decode", body |-> b, old |-> cfg]]
    /\ UNCHANGED <<cfg, heap, lock, file, unsaved, audit, untold, snap, seen, promise, crashes>>

\* next := *old, and the body decoded over it.
PutDecode(h) ==
    /\ req[h].at = "decode"
    /\ LET b == req[h].body
           next == WithScalars(req[h].old, b)
       IN IF "asns" \in DOMAIN b
          THEN /\ heap' = DecodedHeap(next, heap, b["asns"])
               /\ req' = [req EXCEPT ![h] = [at |-> "validate", body |-> b, old |-> req[h].old,
                                             next |-> Decoded(next, heap, b["asns"])]]
          ELSE /\ heap' = heap
               /\ req' = [req EXCEPT ![h] = [at |-> "validate", body |-> b, old |-> req[h].old,
                                             next |-> next]]
    /\ UNCHANGED <<cfg, lock, file, unsaved, audit, untold, snap, seen, promise, history>>

\* A field of the wrong type or a value Validate refuses: 400.
PutReject(h) ==
    /\ req[h].at = "validate"
    /\ Answer(h)
    /\ UNCHANGED <<cfg, heap, lock, file, unsaved, audit, untold, snap, seen, promise, history>>

PutDiff(h) ==
    /\ req[h].at = "validate"
    /\ req' = [req EXCEPT ![h] = [at |-> "swap", next |-> req[h].next, was |-> req[h].old,
                                  running |-> "running" \in DOMAIN req[h].body,
                                  change |-> Diff(req[h].old, req[h].next, heap)]]
    /\ UNCHANGED <<cfg, heap, lock, file, unsaved, audit, untold, snap, seen, promise, history>>

\* ConfigHolder.Replace up to the write of the file.  A PUT that sets running, or
\* that read a config in which it was still different, ends a promise.
Replace(h) ==
    /\ req[h].at = "swap"
    /\ lock = "free"
    /\ lock' = h
    /\ cfg' = req[h].next
    /\ promise' = IF req[h].running \/ req[h].was.running # cfg.running THEN {} ELSE promise
    /\ untold' = untold \cup Stale(h) \cup (DOMAIN req[h].change \cap Unrecorded)
    /\ req' = [req EXCEPT ![h] = [at |-> "persist", change |-> req[h].change, promise |-> {}]]
    /\ UNCHANGED <<heap, file, unsaved, audit, snap, seen, history>>

-----------------------------------------------------------------------------
(* handleStart, handleStop (f = "running") and handleDev (f = "dev").      *)

ToggleGet(h) ==
    /\ Accept(h)
    /\ lock = "free"
    /\ \E f \in {"running", "dev"}, v \in BOOLEAN :
          req' = [req EXCEPT ![h] = [at |-> "update", field |-> f, value |-> v]]
    /\ UNCHANGED <<cfg, heap, lock, file, unsaved, audit, untold, snap, seen, promise, crashes>>

\* ConfigHolder.Update: the copy is made of the current config, under the lock.
Update(h) ==
    /\ req[h].at = "update"
    /\ lock = "free"
    /\ lock' = h
    /\ cfg' = [cfg EXCEPT ![req[h].field] = req[h].value]
    /\ promise' = IF req[h].field = "running" THEN {} ELSE promise
    /\ untold' = untold \cup ({req[h].field} \cap Unrecorded)
    /\ req' = [req EXCEPT ![h] =
                  [at |-> "persist", change |-> [f \in {req[h].field} |-> req[h].value],
                   promise |-> IF req[h].field = "running" THEN {req[h].value} ELSE {}]]
    /\ UNCHANGED <<heap, file, unsaved, audit, snap, seen, history>>

-----------------------------------------------------------------------------
(* writeJSONFile and the unlock; then the audit record and the answer.     *)

\* Mutant: nothing is written when the diff is empty.
PersistIfChanged(h) ==
    /\ req[h].at = "persist"
    /\ lock = h
    /\ file' = IF DOMAIN req[h].change = {} THEN file ELSE Contents(cfg, heap)
    /\ unsaved' = FALSE
    /\ lock' = "free"
    /\ promise' = IF req[h].promise # {} THEN req[h].promise ELSE promise
    /\ req' = [req EXCEPT ![h] = [at |-> "audit", change |-> req[h].change]]
    /\ UNCHANGED <<cfg, heap, audit, untold, snap, seen, history>>

Persist(h) ==
    /\ req[h].at = "persist"
    /\ lock = h
    /\ file' = Contents(cfg, heap)
    /\ unsaved' = FALSE
    /\ lock' = "free"
    /\ promise' = IF req[h].promise # {} THEN req[h].promise ELSE promise
    /\ req' = [req EXCEPT ![h] = [at |-> "audit", change |-> req[h].change]]
    /\ UNCHANGED <<cfg, heap, audit, untold, snap, seen, history>>

\* 500: the new config is live and neither on disk nor audited.
PersistFails(h) ==
    /\ req[h].at = "persist"
    /\ lock = h
    /\ unsaved' = TRUE
    /\ untold' = untold \cup DOMAIN req[h].change
    /\ lock' = "free"
    /\ Answer(h)
    /\ UNCHANGED <<cfg, heap, file, audit, snap, seen, promise, history>>

\* An empty diff is not recorded; a failed append is logged and answered 200.
Audit(h) ==
    /\ req[h].at = "audit"
    /\ LET change == req[h].change
       IN \/ /\ audit' = [f \in Fields |-> IF f \in DOMAIN change THEN change[f] ELSE audit[f]]
             /\ untold' = untold
          \/ audit' = audit /\ untold' = untold \cup DOMAIN change
    /\ Answer(h)
    /\ UNCHANGED <<cfg, heap, lock, file, unsaved, snap, seen, promise, history>>

-----------------------------------------------------------------------------
(* The engine, and a crash with the restart after it.                      *)

CycleStart ==
    /\ snap = NoCycle
    /\ lock = "free"
    /\ snap' = cfg
    /\ seen' = List(cfg, heap)
    /\ UNCHANGED <<cfg, heap, lock, req, file, unsaved, audit, untold, promise, history>>

CycleEnd ==
    /\ snap # NoCycle
    /\ snap' = NoCycle
    /\ seen' = <<>>
    /\ UNCHANGED <<cfg, heap, lock, req, file, unsaved, audit, untold, promise, history>>

\* The next process loads the file; what was live and unsaved is gone.
Restart ==
    /\ crashes < MaxCrashes
    /\ crashes' = crashes + 1
    /\ heap' = <<file["asns"]>>
    /\ cfg' = Fresh(file, <<>>)
    /\ lock' = "free"
    /\ req' = [h \in Handlers |-> None]
    /\ unsaved' = FALSE
    /\ untold' = untold \cup Unrecorded
    /\ snap' = NoCycle
    /\ seen' = <<>>
    /\ promise' = IF unsaved \/ lock # "free" THEN {} ELSE promise
    /\ UNCHANGED <<file, audit, requests>>

Put(h) == PutGet(h) \/ PutDecode(h) \/ PutReject(h) \/ PutDiff(h) \/ Replace(h)

Toggle(h) == ToggleGet(h) \/ Update(h)

Finish(h) == Persist(h) \/ PersistFails(h) \/ Audit(h)

Next ==
    \/ \E h \in Handlers : Put(h) \/ Toggle(h) \/ Finish(h)
    \/ CycleStart
    \/ CycleEnd
    \/ Restart

Spec == Init /\ [][Next]_vars

-----------------------------------------------------------------------------
(* Properties.                                                             *)

\* A config.Config without the slice's elements.
Structs ==
    [running : BOOLEAN, dev : BOOLEAN, rest : Values("rest"), arr : Nat, len : Nat]

\* Its slice lies within an array that was allocated.
Slice(c) == c \in Structs /\ c.arr \in DOMAIN heap /\ c.len \in 0..Len(heap[c.arr])

\* What a request's locals hold at each step of its handler.
Typed(r) ==
    /\ r.at \in {"none", "decode", "validate", "swap", "update", "persist", "audit"}
    /\ r.at \in {"decode", "validate"} => r.body \in Bodies /\ Slice(r.old)
    /\ r.at \in {"validate", "swap"} => Slice(r.next)
    /\ r.at = "swap" => Slice(r.was) /\ r.running \in BOOLEAN
    /\ r.at \in {"swap", "persist", "audit"} => DOMAIN r.change \subseteq Fields
    /\ r.at = "update" => r.field \in {"running", "dev"} /\ r.value \in BOOLEAN

\* Slices stay inside their arrays, and the request that is writing has the lock.
TypeOK ==
    /\ heap \in Seq(Seq(ASNs))
    /\ Slice(cfg)
    /\ \A h \in Handlers : Typed(req[h])
    /\ DOMAIN req = Handlers
    /\ lock \in Handlers \cup {"free"}
    /\ \A h \in Handlers : req[h].at = "persist" <=> lock = h
    /\ file = [f \in Fields |-> file[f]] /\ file["asns"] \in Seq(ASNs)
    /\ file["running"] \in BOOLEAN /\ file["dev"] \in BOOLEAN /\ file["rest"] \in Values("rest")
    /\ unsaved \in BOOLEAN /\ untold \subseteq Fields
    /\ snap # NoCycle => Slice(snap)

\* A cycle works with the config it started with: the live object is never
\* mutated in place (the comment on ConfigHolder).
SnapshotStable == snap # NoCycle => List(snap, heap) = seen

\* Whatever writers interleave, the file is the live config once the lock is
\* free, unless the last write of it failed (Replace and Update hold h.mu over
\* the write).
FileIsLive == lock = "free" /\ ~unsaved => file = Contents(cfg, heap)

\* A start or stop answered 200 holds, in memory, on disk and after a restart,
\* until another start or stop, or a PUT that names running or that was decoded
\* over a config from before it: switching dev mode or changing another field
\* never reverts it (ConfigHolder.Update).
AnsweredToggleHolds ==
    \A v \in promise :
        /\ cfg.running = v
        /\ ~unsaved /\ lock = "free" => file["running"] = v

\* No change slips past the audit log, or into the record of another field, because
\* of the requests around it: what the newest record of a field says is what is
\* live, once the request that changed it last is past its record.  Excepted are the
\* fields for which the code does not keep that: the write of the file or of the
\* record failed, a crash came between them, another request changed the field
\* before the record was appended, or a PUT wrote it back from a copy older than
\* the live config, which its diff does not show.
ChangesAreAudited ==
    \A f \in Fields \ untold :
        (\A h \in Handlers : req[h].at \in {"persist", "audit"} => f \notin DOMAIN req[h].change)
            => Contents(cfg, heap)[f] = audit[f]
=============================================================================
