------------------------------ MODULE AuditLog ------------------------------
(***************************************************************************)
(* The audit log: dashboard requests change a field of the live config     *)
(* under the holder's lock (ConfigHolder) and append their record after    *)
(* it, without; Audit reads the whole file and answers its tail.           *)
(***************************************************************************)
EXTENDS Integers, Sequences, SequencesExt, FiniteSets

CONSTANTS Handlers,     \* goroutines that serve start and stop
          MaxChanges,   \* bound: requests
          MaxFailures   \* bound: failed appends and kills

AuditLogAssumption ==
    /\ IsFiniteSet(Handlers) /\ Handlers # {} /\ MaxChanges \in Nat /\ MaxFailures \in Nat

VARIABLES running,      \* general.running, live and on file
          req,          \* the request each handler serves
          log,          \* lines of audit.jsonl: a record, or Garbled
          unended,      \* the last line lacks its newline
          changed,      \* history: the changes made live, in order
          dropped,      \* history: records whose append failed or was killed
          torn,         \* history: lines cut short
          crossed,      \* history: a change was made while another request was served
          failures      \* history

vars == <<running, req, log, unended, changed, dropped, torn, crossed, failures>>

None == [at |-> "none"]

Garbled == [id |-> 0]

Init ==
    /\ running \in BOOLEAN
    /\ req = [h \in Handlers |-> None]
    /\ log = <<>> /\ unended = FALSE
    /\ changed = <<>> /\ dropped = 0 /\ torn = 0 /\ crossed = FALSE /\ failures = 0

Serving(h, at) == req[h].at = at

Unlogged == {h \in Handlers : Serving(h, "audit")}

Goes(h, r) == req' = [req EXCEPT ![h] = r]

Fault == failures < MaxFailures /\ failures' = failures + 1

\* setRunning: was := s.cfg.Get().
Get(h) ==
    /\ Serving(h, "none")
    /\ Len(changed) + Cardinality({g \in Handlers : Serving(g, "got")}) < MaxChanges
    /\ \E v \in BOOLEAN : Goes(h, [at |-> "got", was |-> running, to |-> v])
    /\ UNCHANGED <<running, log, unended, changed, dropped, torn, crossed, failures>>

Others(h) == \E g \in Handlers \ {h} : ~Serving(g, "none")

Record(h, was) == [id |-> Len(changed) + 1, was |-> was, to |-> req[h].to]

\* Mutant: the old value is read after the update.
UpdateFirst(h) ==
    /\ Serving(h, "got")
    /\ running' = req[h].to
    /\ changed' = Append(changed, Record(h, running'))
    /\ Goes(h, [at |-> "audit", rec |-> Record(h, running')])
    /\ crossed' = (crossed \/ Others(h))
    /\ UNCHANGED <<log, unended, dropped, torn, failures>>

\* s.cfg.Update; one that cannot be written to the config file is ConfigHolder's.
Update(h) ==
    /\ Serving(h, "got")
    /\ running' = req[h].to
    /\ changed' = Append(changed, Record(h, req[h].was))
    /\ Goes(h, [at |-> "audit", rec |-> Record(h, req[h].was)])
    /\ crossed' = (crossed \/ Others(h))
    /\ UNCHANGED <<log, unended, dropped, torn, failures>>

\* Mutant: the newline is written before the line, by the next append.
AppendUnended(h) ==
    /\ Serving(h, "audit")
    /\ log' = IF unended THEN [log EXCEPT ![Len(log)] = Garbled] ELSE Append(log, req[h].rec)
    /\ unended' = TRUE
    /\ Goes(h, None)
    /\ UNCHANGED <<running, changed, dropped, torn, crossed, failures>>

\* AppendAudit: line and newline in one write at the end of the file, whatever
\* else appends; after a torn line the two are one line that does not parse.
AppendAudit(h) ==
    /\ Serving(h, "audit")
    /\ log' = IF unended THEN [log EXCEPT ![Len(log)] = Garbled] ELSE Append(log, req[h].rec)
    /\ unended' = FALSE
    /\ Goes(h, None)
    /\ UNCHANGED <<running, changed, dropped, torn, crossed, failures>>

\* A prefix of the line is written, perhaps all of it but the newline.
Tears(rec) ==
    /\ log' \in (IF unended THEN {[log EXCEPT ![Len(log)] = Garbled]}
                ELSE {Append(log, line) : line \in {Garbled, rec}})
    /\ unended' = TRUE
    /\ torn' = torn + 1

\* The file cannot be opened or, on a full disk, a prefix is written; the
\* request is answered 200 all the same.
AppendFails(h) ==
    /\ Serving(h, "audit")
    /\ Fault
    /\ dropped' = dropped + 1
    /\ Goes(h, None)
    /\ Tears(req[h].rec) \/ UNCHANGED <<log, unended, torn>>
    /\ UNCHANGED <<running, changed, crossed>>

\* Killed and started again, perhaps within a write.
Kill ==
    /\ Fault
    /\ dropped' = dropped + Cardinality(Unlogged)
    /\ req' = [h \in Handlers |-> None]
    /\ \/ UNCHANGED <<log, unended, torn>>
       \/ \E h \in Unlogged : Tears(req[h].rec)
    /\ UNCHANGED <<running, changed, crossed>>

Next ==
    \/ \E h \in Handlers : Get(h) \/ Update(h) \/ AppendAudit(h) \/ AppendFails(h)
    \/ Kill

Spec == Init /\ [][Next]_vars

-----------------------------------------------------------------------------

Whole(line) == line # Garbled

\* Audit(n): a line that does not parse is an error; 0 asks for every record.
Audit(n) ==
    IF \E i \in DOMAIN log : ~Whole(log[i]) THEN [ok |-> FALSE]
    ELSE [ok |-> TRUE,
          records |-> IF n = 0 \/ n >= Len(log) THEN log
                      ELSE SubSeq(log, Len(log) - n + 1, Len(log))]

-----------------------------------------------------------------------------
(* Properties.                                                             *)

Idle == \A h \in Handlers : Serving(h, "none")

Readable == {log[i].id : i \in {j \in DOMAIN log : Whole(log[j])}}

\* A torn write costs at most the last line (docs/RED_LINES.md X8) and the
\* record that is appended to it: every other change whose append succeeded is
\* in the log, whole and once, however the appends of requests interleave.
TornCostsOneRecord ==
    /\ Len(changed) <= Cardinality(Readable) + Cardinality(Unlogged) + dropped + torn
    /\ \A i, j \in DOMAIN log : Whole(log[i]) /\ log[i] = log[j] => i = j

Answered == Audit(0).records

\* The records are the "history of what was changed" (docs/project.md:623): as
\* long as no change was made during another request and no append was lost, the
\* value one changed the service to is the value the next changed it from, and
\* the newest of a short answer is the value that is live, over restarts too.
HistoryIsTrue ==
    Idle /\ dropped = 0 /\ ~crossed /\ Audit(0).ok =>
        /\ \A i \in 1..Len(Answered) - 1 : Answered[i].to = Answered[i + 1].was
        /\ Audit(1).records # <<>> => Last(Audit(1).records).to = running
=============================================================================
