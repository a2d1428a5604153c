------------------------------- MODULE TraceStore -------------------------------
(***************************************************************************)
(* The tables of the collector's database and the statements on them       *)
(* (src/collector/storage.go): traces and their details, the minutes       *)
(* computed from them, the alerts, and the size of the file.  One          *)
(* connection: each statement, and the transaction of StoreTrace, is one   *)
(* step, and other goroutines come between two statements.                 *)
(***************************************************************************)
EXTENDS Naturals, FiniteSets, FiniteSetsExt, TLC

CONSTANTS
  Hosts,       \* hosts of the requests
  Tables,      \* tables of details: queries, http_calls, marks, errors
  Rules        \* alert rules: [metric, value, cooldown]

Metrics == {"p95_duration", "avg_duration", "error_rate", "n1_rate"}

\* Every rule of DefaultAlertRules has a cooldown.
ASSUME StoreAssumption ==
  /\ Tables \subseteq {"queries", "http_calls", "marks", "errors"}
  /\ \A r \in Rules : r.metric \in Metrics /\ r.value \in Nat /\ r.cooldown \in Nat \ {0}

VARIABLES
  traces,      \* [id, ref, minute, host, dur, err, s500, n1, tables]; ref: which
               \* request it is of, err: PHP errors were noted, s500: status >= 500
  children,    \* rows of the tables of details: [table, trace, ref]
  lastId,      \* sqlite_sequence: the last id AUTOINCREMENT has given
  slow,        \* slow_queries: host -> executions counted
  rollups,     \* aggregates_1m: [minute, host, count, errs, max, p95]
  alerts,      \* [id, rule, host, at]; no statement deletes one
  pages        \* the size of the file, in rows of traces and details

storeVars == <<traces, children, lastId, slow, rollups, alerts, pages>>

EmptyStore ==
  /\ traces = {} /\ children = {} /\ rollups = {} /\ alerts = {}
  /\ lastId = 0
  /\ slow = [h \in Hosts |-> 0]
  /\ pages = 0

---------------------------------------------------------------------------
\* Traces.

\* A file never gets smaller: pages that are freed are used again.
Grow == pages' = Max({pages, Cardinality(traces') + Cardinality(children')})

\* Mutant: the key is not AUTOINCREMENT, so that the id after the largest in the table is taken.
NextRowId == Max({0} \union {t.id : t \in traces}) + 1

NextId == lastId + 1

\* StoreTrace: a trace, its details and its slow queries in one transaction.
StoreTrace(t) ==
  LET id == NextId
  IN /\ traces' = traces \union {[id |-> id, ref |-> t.ref, minute |-> t.minute,
            host |-> t.host, dur |-> t.dur, err |-> t.err, s500 |-> t.s500, n1 |-> t.n1,
            tables |-> t.tables]}
     /\ children' = children \union
            {[table |-> b, trace |-> id, ref |-> t.ref] : b \in t.tables}
     /\ lastId' = Max({lastId, id})
     /\ slow' = [slow EXCEPT ![t.host] = @ + (IF "queries" \in t.tables THEN 1 ELSE 0)]
     /\ Grow
     /\ UNCHANGED <<rollups, alerts>>

\* DELETE FROM traces: the details stay, since no statement turns foreign keys on.
DeleteTraces(gone) ==
  /\ traces' = traces \ gone
  /\ UNCHANGED <<children, lastId, slow, rollups, alerts, pages>>

\* PurgeOldestFraction: ORDER BY timestamp ASC, id ASC LIMIT n.
Before(s, t) == s.minute < t.minute \/ (s.minute = t.minute /\ s.id < t.id)
Oldest(n) == {t \in traces : Cardinality({s \in traces : Before(s, t)}) < n}

\* The n of PurgeOldestFraction(0.10): a tenth of the rows, at least one.
TenthOf(n) == Max({1, n \div 10})

---------------------------------------------------------------------------
\* Minutes.

\* The duration at OFFSET n of ORDER BY duration_ms.
AtOffset(S, n) ==
  CHOOSE d \in {t.dur : t \in S} :
    /\ Cardinality({t \in S : t.dur < d}) <= n
    /\ n < Cardinality({t \in S : t.dur <= d})

P95(S) == AtOffset(S, Min({(95 * Cardinality(S)) \div 100, Cardinality(S) - 1}))

Errs(S) == Cardinality({t \in S : t.err})
Longest(S) == Max({t.dur : t \in S})
OfMinute(m, h) == {t \in traces : t.minute = m /\ t.host = h}
HostsOf(m) == {t.host : t \in {s \in traces : s.minute = m}}
Rollup(m, h, S) == [minute |-> m, host |-> h, count |-> Cardinality(S), errs |-> Errs(S),
                    max |-> Longest(S), p95 |-> 0]

Others == <<traces, children, lastId, slow, alerts, pages>>

\* Mutant: INSERT without OR REPLACE, into a table without a key.
InsertAnyway(m) ==
  /\ rollups' = rollups \union {Rollup(m, h, OfMinute(m, h)) : h \in HostsOf(m)}
  /\ UNCHANGED Others

\* Mutant: ON CONFLICT DO UPDATE, with the new requests added to those of the row.
InsertAdding(m) ==
  /\ rollups' = {r \in rollups : r.minute # m \/ r.host \notin HostsOf(m)}
                  \union {[Rollup(m, h, OfMinute(m, h)) EXCEPT !.count =
                             @ + SumSet({r.count : r \in {q \in rollups : q.minute = m
                                                                        /\ q.host = h}})]
                            : h \in HostsOf(m)}
  /\ UNCHANGED Others

\* Aggregate1m, first statement: INSERT OR REPLACE, one row per host, p95 still 0.
InsertRollups(m) ==
  /\ rollups' = {r \in rollups : r.minute # m \/ r.host \notin HostsOf(m)}
                  \union {Rollup(m, h, OfMinute(m, h)) : h \in HostsOf(m)}
  /\ UNCHANGED Others

\* Aggregate1m, per host: the count, the duration at its offset and the UPDATE.  That a trace
\* of the minute may be stored between the three is left out: it makes the minute stale anyway.
SetP95(m, h) ==
  LET S == OfMinute(m, h)
  IN /\ rollups' = {IF r.minute = m /\ r.host = h /\ S # {} THEN [r EXCEPT !.p95 = P95(S)]
                    ELSE r : r \in rollups}
     /\ UNCHANGED Others

\* PurgeOldAggregates.
DeleteRollups(cutoff) ==
  /\ rollups' = {r \in rollups : r.minute >= cutoff}
  /\ UNCHANGED Others

---------------------------------------------------------------------------
\* Alerts.

Value(metric, S) ==   \* of a set of traces, multiplied by its size
  LET n == Cardinality(S)
  IN CASE metric = "p95_duration" -> n * P95(S)
       [] metric = "avg_duration" -> MapThenSumSet(LAMBDA t : t.dur, S)
       [] metric = "error_rate" -> 100 * Cardinality({t \in S : t.s500})
       [] metric = "n1_rate" -> 100 * Cardinality({t \in S : t.n1})

Exceeds(r, S) == Value(r.metric, S) > r.value * Cardinality(S)

AlertsOf(r, h) == {a \in alerts : a.rule = r /\ a.host = h}

\* GetLastAlertTime: COALESCE(MAX(created_at), 0).
LastAlertTime(r, h) == Max({0} \union {a.at : a \in AlertsOf(r, h)})

\* Whether an alert was acknowledged is left out: only pages of the dashboard ask for it.
StoreAlert(e) ==
  /\ alerts' = alerts \union {[id |-> Cardinality(alerts) + 1, rule |-> e.rule, host |-> e.host,
                               at |-> e.at]}
  /\ UNCHANGED <<traces, children, lastId, slow, rollups, pages>>

=============================================================================
