-------------------------------- MODULE Backend --------------------------------
(***************************************************************************)
(* The collector behind its batch: what it does with a trace from the call *)
(* of addToBatch on (src/collector/daemon.go, alerts.go, api.go).  Trace   *)
(* by trace goes to the live stream and into the database; one goroutine   *)
(* aggregates minutes, checks the alert rules and applies the retention;   *)
(* handlers of the API read traces with their details, statement by        *)
(* statement.                                                              *)
(*                                                                         *)
(* A behaviour shows one part, chosen in Init: opening a database, the     *)
(* minutes and alerts, the retention and its readers, or the live stream.  *)
(***************************************************************************)
EXTENDS Schema, TraceStore, LiveHub

CONSTANTS
  Parts,         \* "upgrade", "minutes", "shelf", "stream"
  Requests,      \* part -> requests that come in: [host, dur, err, s500, n1, tables]
  Arrivals,      \* bound: part -> traces received
  MaxMinute,     \* bound: part -> the last minute of the clock, which starts at 1
  MaxFaults,     \* bound: statements that fail and deaths of the process, together
  Window,        \* WindowMinutes of the rules
  MinReqs,       \* requests below which a host is not judged
  Retention,     \* RetentionDays, in minutes; 0: off
  CapPages,      \* RetentionMaxMB, in rows; 0: off
  PerHour        \* bound: traces received between two runs of the retention

ASSUME BackendAssumption ==
  /\ Parts \subseteq {"upgrade", "minutes", "shelf", "stream"}
  /\ \A p \in Parts :
       /\ Requests[p] \subseteq [host : Hosts, dur : Nat, err : BOOLEAN, s500 : BOOLEAN,
                                n1 : BOOLEAN, tables : SUBSET Tables]
       /\ Arrivals[p] \in Nat /\ MaxMinute[p] \in Nat
  /\ {MaxFaults, Window, MinReqs, Retention, CapPages, PerHour} \subseteq Nat

\* enforceSizeCap: passes at most.
Passes == 5
NoMinute == 0   \* Daemon.lastAggBucket of a process that has aggregated nothing

VARIABLES
  part,      \* the part this behaviour shows
  now,       \* the minute it is
  received,  \* traces received
  batch,     \* traces on their way to the database: Daemon.batch and the batches being stored
  lastAgg,   \* Daemon.lastAggBucket
  agg,       \* aggWorker: [pc, minute, hosts, rules, events, pass]
  hourly,    \* traces received since the retention ran
  faults,    \* faults so far
  view,      \* a handler: [pc, rows, todo, got]; failed: history, reads that did not succeed
  stale,     \* history: minutes with a trace stored or deleted since their rows were inserted
  blind,     \* history: [rule, host] whose last alert could not be read once
  owed       \* history: [rule, host, at] seen beyond its value in the last check of the rules

workVars == <<received, batch, hourly>>
aggVars  == <<lastAgg, agg>>
histVars == <<stale, blind, owed>>
vars == <<part, now, workVars, aggVars, faults, view, histVars, schemaVars, storeVars, hubVars>>

Idle == [pc |-> "idle", minute |-> NoMinute, hosts |-> {}, rules |-> {}, events |-> {},
         pass |-> 0]
NoView == [pc |-> "idle", rows |-> {}, todo |-> {}, got |-> {}, failed |-> {}]

Up == opener = "open"
Fault == faults < MaxFaults /\ faults' = faults + 1

Init ==
  /\ part \in Parts
  /\ IF part = "upgrade" THEN OldFile ELSE NewFile
  /\ EmptyStore
  /\ NoClients
  /\ now = 1 /\ received = 0 /\ batch = {} /\ hourly = 0
  /\ lastAgg = NoMinute /\ agg = Idle
  /\ faults = 0
  /\ view = NoView
  /\ stale = {} /\ blind = {} /\ owed = {}

---------------------------------------------------------------------------
\* Traces come in.

\* The request q as it is noted now.
Noted(q) == [host |-> q.host, dur |-> q.dur, err |-> q.err, s500 |-> q.s500, n1 |-> q.n1,
             tables |-> q.tables, ref |-> received + 1, minute |-> now]

\* addToBatch, and storeSink of a collector without a daemon: the stream first, then the batch.
Receive ==
  /\ Up /\ received < Arrivals[part] /\ hourly < PerHour
  /\ \E q \in Requests[part] : batch' = batch \union {Noted(q)}
  /\ Broadcast(received + 1)
  /\ received' = received + 1
  /\ hourly' = hourly + 1
  /\ UNCHANGED <<part, now, aggVars, faults, view, histVars, schemaVars, storeVars>>

\* StoreBatch, one trace: batches are stored by whichever goroutine flushed them, so that their
\* traces are stored in any order.
Store ==
  /\ Up
  /\ \E t \in batch :
       /\ batch' = batch \ {t}
       /\ StoreTrace(t)
       /\ stale' = stale \union {t.minute}
  /\ UNCHANGED <<part, now, received, hourly, aggVars, faults, view, blind, owed, schemaVars,
                 hubVars>>

\* StoreBatch: a trace that cannot be stored is rolled back, and the next one is taken.
StoreFails ==
  /\ Up /\ Fault
  /\ \E t \in batch : batch' = batch \ {t}
  /\ UNCHANGED <<part, now, received, hourly, aggVars, view, histVars, schemaVars, storeVars,
                 hubVars>>

---------------------------------------------------------------------------
\* aggWorker: the minutes.

rest == <<part, now, workVars, view, schemaVars, hubVars>>

\* runAggregation: the minute before this one, unless it was done, whatever minutes are missing.
Due == now - 1

\* Aggregate1m: the first statement.
Aggregate ==
  /\ Up /\ agg.pc = "idle" /\ Due > lastAgg
  /\ InsertRollups(Due)
  /\ stale' = stale \ {Due}
  /\ agg' = [agg EXCEPT !.pc = "hosts", !.minute = Due]
  /\ UNCHANGED <<rest, lastAgg, faults, blind, owed>>

\* The second one: the hosts of the minute now.
ReadHosts ==
  /\ Up /\ agg.pc = "hosts"
  /\ agg' = [agg EXCEPT !.pc = "p95", !.hosts = HostsOf(agg.minute)]
  /\ UNCHANGED <<rest, lastAgg, faults, histVars, storeVars>>

HostP95 ==
  /\ Up /\ agg.pc = "p95"
  /\ \E h \in agg.hosts :
       /\ SetP95(agg.minute, h)
       /\ agg' = [agg EXCEPT !.hosts = @ \ {h}]
  /\ UNCHANGED <<rest, lastAgg, faults, histVars>>

\* An error in the statements for a host is ignored: its p95 stays 0.
HostP95Fails ==
  /\ Up /\ Fault /\ agg.pc = "p95"
  /\ \E h \in agg.hosts : agg' = [agg EXCEPT !.hosts = @ \ {h}]
  /\ UNCHANGED <<rest, lastAgg, histVars, storeVars>>

\* The minute is done, and the rules are checked.
Aggregated ==
  /\ Up /\ agg.pc = "p95" /\ agg.hosts = {}
  /\ lastAgg' = agg.minute
  /\ agg' = [agg EXCEPT !.pc = "rules", !.rules = Rules]
  /\ owed' = {}
  /\ UNCHANGED <<rest, faults, stale, blind, storeVars>>

\* An error of the first two statements ends the run, and the rules are not checked.
AggregationFails ==
  /\ Up /\ Fault
  /\ agg.pc = "hosts" \/ (agg.pc = "idle" /\ Due > lastAgg)
  /\ agg' = Idle
  /\ UNCHANGED <<rest, lastAgg, histVars, storeVars>>

---------------------------------------------------------------------------
\* aggWorker: the rules.

Recent(h) == {t \in traces : t.host = h /\ t.minute + Window >= now}

\* computeAlertMetrics: per host, and EvaluateAlerts: hosts with few requests are left alone.
Breached(r) == {h \in Hosts : Recent(h) # {} /\ Cardinality(Recent(h)) >= MinReqs
                                /\ Exceeds(r, Recent(h))}

\* Mutant: the cooldown lasts until it is longer ago than that.
CoolingLonger(r, h) ==
  LET last == LastAlertTime(r, h) IN last > 0 /\ now - last <= r.cooldown

\* The cooldown is taken from the alerts in the database, which a restart leaves.
Cooling(r, h) ==
  LET last == LastAlertTime(r, h) IN last > 0 /\ now - last < r.cooldown

Event(r, h) == [rule |-> r, host |-> h, at |-> now]

\* EvaluateAlerts, one rule.  Its statements are taken as one step: each reads what is there.
EvaluateRule ==
  /\ Up /\ agg.pc = "rules"
  /\ \E r \in agg.rules :
       /\ agg' = [agg EXCEPT !.rules = @ \ {r},
                     !.events = @ \union {Event(r, h) : h \in {g \in Breached(r) : ~Cooling(r, g)}}]
       /\ owed' = owed \union {Event(r, h) : h \in Breached(r)}
  /\ UNCHANGED <<rest, lastAgg, faults, stale, blind, storeVars>>

\* The metrics cannot be read: no host of the rule is judged.
MetricsFail ==
  /\ Up /\ Fault /\ agg.pc = "rules"
  /\ \E r \in agg.rules : agg' = [agg EXCEPT !.rules = @ \ {r}]
  /\ UNCHANGED <<rest, lastAgg, histVars, storeVars>>

\* The last alert cannot be read: the rule fires as if there were none.
CooldownFails ==
  /\ Up /\ Fault /\ agg.pc = "rules"
  /\ \E r \in agg.rules :
       /\ Breached(r) # {}
       /\ agg' = [agg EXCEPT !.rules = @ \ {r},
                     !.events = @ \union {Event(r, h) : h \in Breached(r)}]
       /\ blind' = blind \union {[rule |-> r, host |-> h] : h \in Breached(r)}
       /\ owed' = owed \union {Event(r, h) : h \in Breached(r)}
  /\ UNCHANGED <<rest, lastAgg, stale, storeVars>>

\* checkAlerts: the alerts are stored after all rules were looked at.
RulesDone ==
  /\ Up /\ agg.pc = "rules" /\ agg.rules = {}
  /\ agg' = [agg EXCEPT !.pc = "alerts"]
  /\ UNCHANGED <<rest, lastAgg, faults, histVars, storeVars>>

Alert ==
  /\ Up /\ agg.pc = "alerts"
  /\ \E e \in agg.events :
       /\ StoreAlert(e)
       /\ agg' = [agg EXCEPT !.events = @ \ {e}]
  /\ UNCHANGED <<rest, lastAgg, faults, histVars>>

\* An alert that cannot be stored is skipped; the rule may fire again at the next minute.
AlertFails ==
  /\ Up /\ Fault /\ agg.pc = "alerts"
  /\ \E e \in agg.events :
       /\ agg' = [agg EXCEPT !.events = @ \ {e}]
       /\ owed' = owed \ {e}
  /\ UNCHANGED <<rest, lastAgg, stale, blind, storeVars>>

AlertsDone ==
  /\ Up /\ agg.pc = "alerts" /\ agg.events = {}
  /\ agg' = Idle
  /\ UNCHANGED <<rest, lastAgg, faults, histVars, storeVars>>

---------------------------------------------------------------------------
\* aggWorker: the retention, once an hour.

\* Bound: what came in during the hour has been stored by then.
Retain ==
  /\ Up /\ agg.pc = "idle" /\ CapPages + Retention > 0
  /\ batch = {}
  /\ agg' = [agg EXCEPT !.pc = IF CapPages > 0 THEN "cap" ELSE "purge"]
  /\ hourly' = 0
  /\ UNCHANGED <<part, now, received, batch, view, schemaVars, hubVars, lastAgg, faults,
                 histVars, storeVars>>

AfterCap == IF Retention > 0 THEN [agg EXCEPT !.pc = "purge"] ELSE Idle

\* enforceSizeCap: one pass, which ends the run when it finds nothing to delete.
CapPass ==
  /\ Up /\ agg.pc = "cap" /\ agg.pass < Passes /\ pages > CapPages
  /\ DeleteTraces(Oldest(TenthOf(Cardinality(traces))))
  /\ stale' = stale \union {t.minute : t \in traces \ traces'}
  /\ agg' = IF traces = {} THEN AfterCap ELSE [agg EXCEPT !.pass = @ + 1]
  /\ UNCHANGED <<rest, lastAgg, faults, blind, owed>>

\* The file fits, the passes are used up, or a statement fails.
CapDone ==
  /\ Up /\ agg.pc = "cap"
  /\ \/ (agg.pass = Passes \/ pages <= CapPages) /\ UNCHANGED faults
     \/ Fault
  /\ agg' = AfterCap
  /\ UNCHANGED <<rest, lastAgg, histVars, storeVars>>

\* PurgeOld.
Purge ==
  /\ Up /\ agg.pc = "purge"
  /\ DeleteTraces({t \in traces : t.minute + Retention < now})
  /\ stale' = stale \union {t.minute : t \in traces \ traces'}
  /\ agg' = [agg EXCEPT !.pc = "purgeagg"]
  /\ UNCHANGED <<rest, lastAgg, faults, blind, owed>>

PurgeAggregates ==
  /\ Up /\ agg.pc = "purgeagg"
  /\ DeleteRollups(now - Min({now, Retention}))
  /\ agg' = Idle
  /\ UNCHANGED <<rest, lastAgg, faults, histVars>>

\* An error of either ends the run.
PurgeFails ==
  /\ Up /\ Fault /\ agg.pc \in {"purge", "purgeagg"}
  /\ agg' = Idle
  /\ UNCHANGED <<rest, lastAgg, histVars, storeVars>>

---------------------------------------------------------------------------
\* Handlers that read traces with their details.

\* handleTraceDetail: one trace and its four tables; LoadTracesForDiag: the newest traces, and
\* three tables of each.
DetailTables == {"queries", "http_calls", "marks", "errors"}
DiagTables == DetailTables \ {"marks"}

\* One trace after the other, newest first, and the tables of a trace in this order.
Rank == [queries |-> 1, http_calls |-> 2, marks |-> 3, errors |-> 4]
Read(t, name) == [table |-> name, trace |-> t.id]
Reads(S, names) == {Read(t, name) : t \in S, name \in names \cap Tables}
Earlier(p, q) ==
  \E s, t \in view.rows :
    /\ s.id = p.trace /\ t.id = q.trace
    /\ Before(t, s) \/ (s = t /\ Rank[p.table] < Rank[q.table])

beside == <<part, now, workVars, aggVars, histVars, schemaVars, storeVars, hubVars>>
free == <<beside, faults>>

OpenDetail ==
  /\ Up /\ view.pc = "idle"
  /\ \E t \in traces :
       view' = [pc |-> "detail", rows |-> {t}, todo |-> Reads({t}, DetailTables), got |-> {},
               failed |-> {}]
  /\ UNCHANGED free

\* Traces without details (level summary) are not asked about.
OpenDiag ==
  /\ Up /\ view.pc = "idle" /\ traces # {}
  /\ view' = [pc |-> "diag", rows |-> traces, got |-> {}, failed |-> {},
               todo |-> Reads({t \in traces : t.tables # {}}, DiagTables)]
  /\ UNCHANGED free

Nearest(r) == r \in view.todo /\ \A q \in view.todo : ~Earlier(q, r)
RowsOf(r) == {k \in children : k.table = r.table /\ k.trace = r.trace}

ReadTable ==
  /\ Up
  /\ \E r \in view.todo :
       /\ Nearest(r)
       /\ view' = [view EXCEPT !.todo = @ \ {r}, !.got = @ \union RowsOf(r)]
  /\ UNCHANGED free

\* The error of the statement, or of one of its rows, is dropped: the trace is answered with what
\* was read of the table until then.
ReadTableFails ==
  /\ Up /\ Fault
  /\ \E r \in view.todo :
       /\ Nearest(r)
       /\ \E some \in SUBSET RowsOf(r) :
            view' = [view EXCEPT !.todo = @ \ {r}, !.got = @ \union some,
                                 !.failed = @ \union {r}]
  /\ UNCHANGED beside

Answer ==
  /\ Up /\ view.pc # "idle" /\ view.todo = {}
  /\ view' = NoView
  /\ UNCHANGED free

---------------------------------------------------------------------------
\* Time, restarts, the database being opened and the stream.

\* Bound: a trace is stored by the end of the minute after its own, flushed after 5 s at most.
NextMinute ==
  /\ now < MaxMinute[part]
  /\ \A t \in batch : t.minute = now
  /\ now' = now + 1
  /\ UNCHANGED <<part, workVars, aggVars, faults, view, histVars, schemaVars, storeVars, hubVars>>

\* The process dies between two statements and is started again: what was not stored is lost,
\* and so is lastAggBucket.
Restart ==
  /\ Up /\ Fault
  /\ batch' = {}
  /\ lastAgg' = NoMinute /\ agg' = Idle
  /\ view' = NoView
  /\ owed' = {}
  /\ UNCHANGED <<part, now, received, hourly, stale, blind, schemaVars, storeVars, hubVars>>

Upgrade ==
  /\ SchemaNext
  /\ UNCHANGED <<part, now, workVars, aggVars, faults, view, histVars, storeVars, hubVars>>

Stream ==
  /\ HubNext
  /\ UNCHANGED <<part, now, workVars, aggVars, faults, view, histVars, schemaVars, storeVars>>

Minute ==
  \/ Aggregate \/ ReadHosts \/ HostP95 \/ HostP95Fails
  \/ Aggregated \/ AggregationFails
  \/ EvaluateRule \/ MetricsFail \/ CooldownFails \/ RulesDone
  \/ Alert \/ AlertFails \/ AlertsDone

Retainer == Retain \/ CapPass \/ CapDone \/ Purge \/ PurgeAggregates \/ PurgeFails
View == OpenDetail \/ OpenDiag \/ ReadTable \/ ReadTableFails \/ Answer

Next ==
  \/ part = "upgrade" /\ Upgrade
  \/ part = "minutes" /\ (Receive \/ Store \/ StoreFails \/ Minute \/ NextMinute \/ Restart)
  \/ part = "shelf" /\ (Receive \/ Store \/ Retainer \/ View \/ NextMinute)
  \/ part = "stream" /\ (Receive \/ Stream)

Spec == Init /\ [][Next]_vars
FairSpec == Spec /\ HubFairness

---------------------------------------------------------------------------
\* Properties.

TypeOK ==
  /\ SchemaTypeOK
  /\ HubTypeOK
  /\ Cardinality({t.id : t \in traces}) = Cardinality(traces)
  /\ \A t \in traces : t.id \in 1 .. lastId
  /\ agg.pc \in {"idle", "hosts", "p95", "rules", "alerts", "cap", "purge", "purgeagg"}
  /\ agg.hosts \subseteq Hosts /\ agg.rules \subseteq Rules /\ agg.pass \in 0 .. Passes
  /\ \A r, q \in rollups : r.minute = q.minute /\ r.host = q.host => r = q

\* Unless a trace of the minute was stored or deleted since, the row of a minute and a host tells
\* of exactly the traces of it, however often the minute was aggregated, and its p95 is theirs or
\* still 0; no host of an aggregated minute is without a row; and the p95 is there when a run
\* in which no statement failed is done.
Told(r) ==
  LET S == OfMinute(r.minute, r.host)
  IN /\ S # {}
     /\ [r EXCEPT !.p95 = 0] = Rollup(r.minute, r.host, S)
     /\ r.p95 \in {0, P95(S)}
     /\ r.minute = lastAgg /\ faults = 0 => r.p95 = P95(S)

AggregateTellsStored ==
  /\ \A r \in rollups : r.minute \notin stale => Told(r)
  /\ lastAgg \notin stale =>
       \A h \in HostsOf(lastAgg) : \E r \in rollups : r.minute = lastAgg /\ r.host = h

\* Whatever restarts come between, two alerts of a rule for a host are a cooldown apart, unless
\* the last one could not be read; and a host found beyond the value of a rule in the last check
\* has an alert of it that is younger than the cooldown, or is about to get one.
AlertsSpaced ==
  /\ \A a, b \in alerts :
       a.id < b.id /\ a.rule = b.rule /\ a.host = b.host
         => b.at >= a.at + a.rule.cooldown
              \/ [rule |-> a.rule, host |-> a.host] \in blind
  /\ \A o \in owed :
       \E a \in AlertsOf(o.rule, o.host) \union agg.events :
         a.rule = o.rule /\ a.host = o.host /\ o.at < a.at + o.rule.cooldown

\* What a handler puts under a trace belongs to that trace, although deletions leave the details
\* of other traces behind, and a trace is not seen without the details stored with it, unless the
\* statement that reads them failed, which the handler does not tell.
DetailTruthful ==
  \A t \in view.rows :
    LET got == {k \in view.got : k.trace = t.id}
        asked == {b \in t.tables : (view.pc = "diag" => b # "marks")
                                     /\ Read(t, b) \notin view.todo \union view.failed}
    IN /\ \A k \in got : k.ref = t.ref
       /\ \A b \in asked : \E k \in got : k.table = b

\* Both together: what the collector tells of stored traces, summed up or one by one, is so.
StoreTruthful == AggregateTellsStored /\ DetailTruthful

=============================================================================
