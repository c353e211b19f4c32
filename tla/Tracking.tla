------------------------------ MODULE Tracking ------------------------------
(***************************************************************************)
(* The synchronizer with its second writer: the dashboard's "reset         *)
(* counters" and "set sync" handlers assign the fields of the same         *)
(* *state.State the engine owns, without state.State.mu, from net/http's   *)
(* goroutine.  Each read and each write of a field is a step of its own,   *)
(* the reads of a Save too: it marshals field by field, under mu, which    *)
(* keeps out another Save but no assignment, and renames later.            *)
(*                                                                         *)
(* The kernel, the process and its crashes are those of Synchronizer; its  *)
(* atomic Reconcile and Save are replaced by their steps.  A loss of power *)
(* is left to Synchronizer: here a reset of the counters and a kill of the *)
(* process come separately, and re-anchorings are not counted.  One        *)
(* interface stays selected.                                               *)
(***************************************************************************)
EXTENDS Synchronizer

CONSTANTS Amounts,      \* the lifetime totals an operator may ask for
          MaxRequests   \* bound: requests the dashboard serves

ASSUME AmountsAssumption == Amounts \subseteq Nat /\ MaxRequests \in Nat

VARIABLES stage,    \* the operation of reconcile the engine is at
          live,     \* locals of reconcile: liveUp and liveDown, and when these are done
                    \* with, the total an offset is made from
          marshalled, \* what the engine's Save has copied so far
          web,      \* the handler in flight
          requests, \* history: requests served
          claim,    \* history: what the last 200 answer promises
          clean     \* history: no engine write or save overlapped that request

dashboard == <<web, requests, claim, clean>>
engine == <<stage, live, marshalled>>
trackingVars == <<vars, dashboard, engine>>

Kinds == {"reset", "set"}

None == [kind |-> "none"]

\* A record being marshalled: the fields copied so far.
Blank == [n |-> 0, rec |-> FirstRun]

Whole == 4

Idle == [at |-> "none", want |-> Zero, raw |-> Zero, read |-> 0, since |-> Zero, buf |-> Blank]

TInit ==
    /\ Init
    /\ stage = <<"live", "up">>
    /\ live = Zero
    /\ marshalled = Blank
    /\ web = Idle
    /\ requests = [k \in Kinds |-> 0]
    /\ claim = None
    /\ clean = TRUE

-----------------------------------------------------------------------------
(* Engine.reconcile, one access to a field at a time.                      *)

Reconciling == pc \in {"reconcile", "recheck"}

\* The engine is using the shared fields or a copy of them.
EngineBusy == Reconciling \/ pc \in DOMAIN AfterSave

At(op, d) == Reconciling /\ stage = <<op, d>>

\* A reconcile that starts while a request is in flight disturbs it.
TReadCounters ==
    /\ ReadCounters \/ ReadAgain
    /\ clean' = (clean /\ web.at = "none")
    /\ UNCHANGED <<web, requests, claim, stage, live, marshalled>>

ComputeLive(d) ==
    /\ At("live", d)
    /\ live' = [live EXCEPT ![d] = snap[d] + mem.sync[d]]
    /\ stage' = IF d = "up" THEN <<"live", "down">> ELSE <<"compare", "up">>
    /\ UNCHANGED <<vars, dashboard, marshalled>>

Compare(d) ==
    /\ At("compare", d)
    /\ stage' = IF live[d] < mem.total[d] THEN <<"anchor", "up">>
                ELSE IF d = "up" THEN <<"compare", "down">> ELSE <<"advance", "up">>
    /\ UNCHANGED <<vars, dashboard, live, marshalled>>

\* The write of one direction; after the second the reconcile returns and its
\* locals are gone.
Return(op, d) ==
    IF d = "up"
    THEN stage' = <<op, "down">> /\ UNCHANGED <<pc, snap, live>>
    ELSE /\ stage' = <<"live", "up">>
         /\ pc' = IF pc = "reconcile" THEN "upload" ELSE "save"
         /\ snap' = Zero
         /\ live' = Zero

\* The right side of an assignment to an offset, then the assignment.
Anchor(d) ==
    /\ At("anchor", d)
    /\ live' = [live EXCEPT ![d] = mem.total[d]]
    /\ stage' = <<"store", d>>
    /\ UNCHANGED <<vars, dashboard, marshalled>>

\* Mutant: the counter is not taken off.
StoreTotal(d) ==
    /\ At("store", d)
    /\ mem' = [mem EXCEPT !.sync[d] = live[d]]
    /\ Return("anchor", d)
    /\ UNCHANGED <<kernel, files, starts, anchors, dashboard, marshalled>>

Store(d) ==
    /\ At("store", d)
    /\ mem' = [mem EXCEPT !.sync[d] = live[d] - snap[d]]
    /\ Return("anchor", d)
    /\ UNCHANGED <<kernel, files, starts, anchors, dashboard, marshalled>>

Advance(d) ==
    /\ At("advance", d)
    /\ mem' = [mem EXCEPT !.total[d] = live[d]]
    /\ Return("advance", d)
    /\ UNCHANGED <<kernel, files, starts, anchors, dashboard, marshalled>>

\* The position of each field in the struct.
TotalAt == [d \in Dir |-> IF d = "up" THEN 0 ELSE 1]

SyncAt == [d \in Dir |-> IF d = "up" THEN 2 ELSE 3]

\* json.MarshalIndent reads the next field.
Copied(b) ==
    [n |-> b.n + 1,
     rec |-> [total |-> [d \in Dir |-> IF TotalAt[d] = b.n THEN mem.total[d] ELSE b.rec.total[d]],
              sync  |-> [d \in Dir |-> IF SyncAt[d] = b.n THEN mem.sync[d] ELSE b.rec.sync[d]]]]

HoldsMu(b) == b.n > 0 /\ b.n < Whole

\* state.Save of the engine: marshal under mu, write and rename after it.
Marshal ==
    /\ pc \in DOMAIN AfterSave
    /\ marshalled.n < Whole /\ ~HoldsMu(web.buf)
    /\ marshalled' = Copied(marshalled)
    /\ UNCHANGED <<vars, dashboard, stage, live>>

Rename ==
    /\ marshalled.n = Whole
    /\ disk' = marshalled.rec
    /\ pc' = AfterSave[pc]
    /\ marshalled' = Blank
    /\ mem' = IF pc' = "off" THEN disk' ELSE mem
    /\ web' = IF pc' = "off" THEN Idle ELSE web
    /\ UNCHANGED <<kernel, snap, durable, starts, anchors, requests, claim, clean,
                   stage, live>>

-----------------------------------------------------------------------------
(* handleResetCounters and handleSetSync.                                  *)

\* A request is undisturbed while the engine neither reconciles nor saves.
Quiet == clean' = (clean /\ ~EngineBusy)

Handle(from, to) ==
    /\ web.at = from
    /\ web' = [web EXCEPT !.at = to, !.raw = IF to = "save" THEN Zero ELSE @, !.read = 0]

\* The handler reads the counters: a reset asks for zero, a set for an amount.
\* What was carried since then counts, or since the older reading of the cycle
\* in flight.
Request(kind) ==
    /\ pc # "off"
    /\ web.at = "none"
    /\ requests["reset"] + requests["set"] < MaxRequests
    /\ requests' = [requests EXCEPT ![kind] = @ + 1]
    /\ \E w \in IF kind = "reset" THEN {Zero} ELSE [Dir -> Amounts] :
          web' = [Idle EXCEPT !.at = kind, !.want = w, !.raw = raw,
                              !.since = IF Reconciling THEN snap ELSE carried]
    /\ clean' = ~EngineBusy
    /\ claim' = None
    /\ UNCHANGED <<vars, engine>>

\* Mutant: the handler leaves the total alone.
WriteNoTotal(d, from, to) ==
    /\ Handle(from, to)
    /\ Quiet
    /\ UNCHANGED <<vars, requests, claim, engine>>

\* The assignments of a handler in the order of the code.  A reset computes the
\* offset from the counters alone; a set reads the total back.
WriteTotal(d, from, to) ==
    /\ Handle(from, to)
    /\ mem' = [mem EXCEPT !.total[d] = web.want[d]]
    /\ Quiet
    /\ UNCHANGED <<kernel, pc, snap, files, starts, anchors, requests, claim, engine>>

WriteSync(d, from, to) ==
    /\ Handle(from, to)
    /\ mem' = [mem EXCEPT !.sync[d] = -web.raw[d]]
    /\ Quiet
    /\ UNCHANGED <<kernel, pc, snap, files, starts, anchors, requests, claim, engine>>

ReadTotal(d, from, to) ==
    /\ web.at = from
    /\ web' = [web EXCEPT !.at = to, !.read = mem.total[d]]
    /\ Quiet
    /\ UNCHANGED <<vars, requests, claim, engine>>

WriteSyncFromTotal(d, from, to) ==
    /\ Handle(from, to)
    /\ mem' = [mem EXCEPT !.sync[d] = web.read - web.raw[d]]
    /\ Quiet
    /\ UNCHANGED <<kernel, pc, snap, files, starts, anchors, requests, claim, engine>>

WebMarshal ==
    /\ web.at = "save"
    /\ ~HoldsMu(marshalled)
    /\ web' = [web EXCEPT !.at = IF web.buf.n + 1 = Whole THEN "rename" ELSE @,
                          !.buf = Copied(web.buf)]
    /\ Quiet
    /\ UNCHANGED <<vars, requests, claim, engine>>

\* The rename succeeds and the handler answers 200.
WebAnswer ==
    /\ web.at = "rename"
    /\ disk' = web.buf.rec
    /\ claim' = [kind |-> "claim", want |-> web.want, since |-> web.since]
    /\ web' = Idle
    /\ Quiet
    /\ UNCHANGED <<kernel, pc, snap, mem, durable, starts, anchors, requests, engine>>

WebSaveFails ==
    /\ web.at = "rename"
    /\ web' = Idle
    /\ UNCHANGED <<vars, requests, claim, clean, engine>>

Reset ==
    \/ Request("reset")
    \/ WriteTotal("up", "reset", "reset2") \/ WriteTotal("down", "reset2", "reset3")
    \/ WriteSync("up", "reset3", "reset4") \/ WriteSync("down", "reset4", "save")

SetSync ==
    \/ Request("set")
    \/ WriteTotal("up", "set", "set2") \/ WriteTotal("down", "set2", "set3")
    \/ ReadTotal("up", "set3", "set4") \/ WriteSyncFromTotal("up", "set4", "set5")
    \/ ReadTotal("down", "set5", "set6") \/ WriteSyncFromTotal("down", "set6", "save")

Dashboard == Reset \/ SetSync \/ WebMarshal \/ WebAnswer \/ WebSaveFails

-----------------------------------------------------------------------------
(* The rest of the process, as in Synchronizer; a crash ends the request.  *)

Unshared ==
    /\ \/ \E d \in Dir : Carry(d)
       \/ InterfaceReset
       \/ SkipRecheck
    /\ UNCHANGED <<dashboard, engine>>

TStart == Start /\ UNCHANGED <<dashboard, engine>>

\* Before the save: a panic comes from the uploader or from metering.
TPanic == Panic /\ marshalled = Blank /\ UNCHANGED <<dashboard, engine>>

TTerminate == Terminate /\ UNCHANGED <<dashboard, engine>>

TSaveFails ==
    /\ SaveFails
    /\ marshalled.n = Whole /\ marshalled' = Blank
    /\ web' = IF pc' = "off" THEN Idle ELSE web
    /\ UNCHANGED <<requests, claim, clean, stage, live>>

TKill ==
    /\ Kill
    /\ web' = Idle
    /\ marshalled' = Blank
    /\ stage' = <<"live", "up">>
    /\ live' = Zero
    /\ UNCHANGED <<requests, claim, clean>>

EngineCycle ==
    \/ TReadCounters
    \/ \E d \in Dir : ComputeLive(d) \/ Compare(d) \/ Anchor(d) \/ Store(d) \/ Advance(d)
    \/ Marshal \/ Rename \/ TPanic \/ TTerminate \/ TSaveFails

TNext ==
    \/ Unshared
    \/ TStart
    \/ EngineCycle
    \/ Dashboard
    \/ TKill

TSpec == TInit /\ [][TNext]_trackingVars

-----------------------------------------------------------------------------
(* Properties.                                                             *)

Steps == {"none", "reset", "reset2", "reset3", "reset4", "set", "set2", "set3",
          "set4", "set5", "set6", "save", "rename"}

Buffers == [n : 0..Whole, rec : Record]

\* Totals asked for and totals shown are never negative, whatever the two writers
\* leave in the record.
TTypeOK ==
    /\ TypeOK
    /\ stage \in {"live", "compare", "anchor", "store", "advance"} \X Dir
    /\ live \in [Dir -> Int]
    /\ marshalled \in Buffers
    /\ web \in [at : Steps, want : Bytes, raw : Bytes, read : Nat, since : Bytes, buf : Buffers]
    /\ requests \in [Kinds -> Nat]
    /\ claim \in {None} \cup [kind : {"claim"}, want : Bytes, since : Bytes]
    /\ clean \in BOOLEAN

\* A 200 answer to a reset or a set means that from then on the total is at most
\* the amount asked for plus what was carried since the counters were read; a
\* cycle in flight may still count from its own, older, reading.  Asked only
\* between two cycles, when the engine has had its chance to settle, and while
\* no counter fell.
ResetHolds ==
    claim # None /\ pc = "idle" /\ resets = 0 =>
        \A d \in Dir : mem.total[d] <= claim.want[d] + carried[d] - claim.since[d]

\* The same, to the byte and across kills and restarts, for a request during
\* which the engine neither reconciled nor saved.
UndisturbedResetHolds ==
    claim # None /\ clean /\ pc # "off" =>
        \A d \in Dir :
            mem.total[d] <= claim.want[d] + carried[d] - claim.since[d]

\* Whatever the two writers do to each other, and although a save may take some
\* fields of a record from before a write and others from after it, resets alone
\* never make a record count a byte twice, not even after a restart from a torn one:
\* the races lose a reset, they do not invent traffic.
RacesNeverOvercount == requests["set"] = 0 => NeverOvercounts
=============================================================================
