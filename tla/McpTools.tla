------------------------------ MODULE McpTools ------------------------------
(***************************************************************************)
(* The tools of the MCP server (src/mcp/tools.go, local.go): what each of  *)
(* them asks of the console or the collector, and the table it makes of    *)
(* the answer.  The model that reads a table takes its first row for the   *)
(* answer, so the order of the rows is what matters here; their wording    *)
(* is left out.                                                            *)
(*                                                                         *)
(* The arguments of a call are a function from the names given to their    *)
(* values; one that is blank or of the wrong type counts as not given.  A  *)
(* row is [id, ms, n]: a time or a value, and the number that goes with    *)
(* it.  Time is in minutes, 0 being when the model starts.                 *)
(***************************************************************************)
EXTENDS Integers, Sequences, FiniteSets, SequencesExt, FiniteSetsExt

CONSTANTS
  CardCalls,   \* kartaSladu: outbound calls shown; 5 in the code
  CardRows,    \* kartaSladu: components and queries shown; 8 in the code
  PageRows,    \* podsumowaniePrzegladu: URLs shown by phpray_overview; 12 in the code
  PartRows,    \* and its components; 10 in the code
  RawRows      \* ladnie: what fits into an answer that is passed on as it is; 60000 bytes in the code

ASSUME ToolsAssumption == {CardCalls, CardRows, PageRows, PartRows, RawRows} \subseteq Nat

\* tekst, liczba
Arg(args, name, default) == IF name \in DOMAIN args THEN args[name] ELSE default

-----------------------------------------------------------------------------
(* What a tool asks: path, the arguments it cannot do without, and the window and the number *)
(* of rows unless the call gives them; 0 where it has none.                                  *)

Get(path, needs, window, limit) ==
  [method |-> "GET", path |-> path, needs |-> needs, window |-> window, limit |-> limit]

Day == 1440

\* Where the time of a site goes.
SiteTools ==
  [phpray_sites        |-> Get("sites", {}, 0, 0),
   phpray_overview     |-> Get("overview", {"site_id"}, 60, 0),
   phpray_slow_pages   |-> Get("overview", {"site_id"}, Day, 25),
   phpray_slow_queries |-> Get("queries", {"site_id"}, Day, 20)]

RequestTools ==
  [phpray_components   |-> Get("components", {"site_id"}, Day, 20),
   phpray_errors       |-> Get("errors", {"site_id"}, Day, 20),
   phpray_traces       |-> Get("traces", {"site_id"}, Day, 50),
   phpray_trace        |-> Get("trace", {"trace_id"}, 0, 0)]

\* Two ranges, the alerts, and the only tool that changes anything (zapis).
OtherTools ==
  [phpray_compare      |-> Get("compare", {"site_id"}, 0, 0),
   phpray_alerts       |-> Get("alerts", {}, 0, 0),
   phpray_profile_url  |-> [Get("profile", {"site_id", "url_prefix"}, 0, 0) EXCEPT !.method = "POST"]]

CloudTools == SiteTools @@ RequestTools @@ OtherTools

\* narzedziaLokalne: the same names where the collector has an answer, and two more.  None
\* changes anything, and fewer need a site.
LocalTools ==
  [phpray_sites        |-> Get("domains", {}, Day, 40),
   phpray_overview     |-> Get("stats", {"site_id"}, Day, 0),
   phpray_diagnose     |-> Get("diagnostics", {"site_id"}, Day, 0),
   phpray_slow_queries |-> Get("queries", {}, Day, 20),
   phpray_components   |-> Get("components", {}, Day, 20),
   phpray_traces       |-> Get("traces", {}, Day, 50),
   phpray_trace        |-> Get("trace", {"trace_id"}, 0, 0),
   phpray_alerts       |-> Get("alerts", {}, 0, 0),
   phpray_php_versions |-> Get("php-versions", {}, Day, 0)]

\* domena: phpray_overview and phpray_diagnose take the site under either name.
Named(args) ==
  IF "domain" \in DOMAIN args /\ "site_id" \notin DOMAIN args
    THEN args @@ [site_id |-> args.domain] ELSE args

ReadOnly(tools) == {t \in DOMAIN tools : tools[t].method = "GET"}

\* okno: a window of no minutes is none.
okno(args, default, now) ==
  LET given == Arg(args, "window_minutes", default)
  IN [from |-> now - (IF given <= 0 THEN default ELSE given), to |-> now]

\* phpray_compare: without any range, the day before the last one against the last one; of ranges
\* given in part the console takes the rest from its last day.
Ranges(args, now) ==
  IF {"from_a", "to_a", "from_b", "to_b"} \cap DOMAIN args = {}
    THEN <<[from |-> now - 2 * Day, to |-> now - Day], [from |-> now - Day, to |-> now]>>
    ELSE <<[from |-> Arg(args, "from_a", now - Day), to |-> Arg(args, "to_a", now)],
           [from |-> Arg(args, "from_b", now - Day), to |-> Arg(args, "to_b", now)]>>

\* The ranges a call asks for; none for what has no window.
CloudRanges(tool, args, now) ==
  CASE tool = "phpray_compare" -> Ranges(args, now)
    [] CloudTools[tool].window # 0 -> <<okno(args, CloudTools[tool].window, now)>>
    [] OTHER -> <<>>

\* oknoQ: the collector counts the minutes back, whatever they are.
LocalRanges(tool, args, now) ==
  IF LocalTools[tool].window = 0 THEN <<>>
  ELSE <<[from |-> now - Arg(args, "window_minutes", LocalTools[tool].window), to |-> now]>>

-----------------------------------------------------------------------------
(* The tables *)

\* sort.SliceStable
Sorted(rows, Before(_, _)) ==
  LET place(i) == 1 + Cardinality({j \in DOMAIN rows :
                        Before(rows[j], rows[i]) \/ (j < i /\ ~Before(rows[i], rows[j]))})
  IN [k \in DOMAIN rows |-> rows[CHOOSE i \in DOMAIN rows : place(i) = k]]

\* The loop that stops at i >= ile: nothing is shown for a limit of 0 or less.
First(rows, limit) == SubSeq(rows, 1, Min({limit, Len(rows)}))

Slower(r, s) == r.ms > s.ms

\* podsumowaniePrzegladu: the URLs by p95; the components as the console sends them.
podsumowaniePrzegladu(uris, parts, ileURI, ileKomponentow) ==
  <<First(Sorted(uris, Slower), ileURI), First(parts, ileKomponentow)>>

\* What it advises when no request of the window was profiled, to whoever asks: phpray_slow_pages,
\* which shows no components, does so too.
radaPrzegladu(parts) == IF parts = <<>> THEN {"phpray_profile_url"} ELSE {}

\* tabelaZapytan: the total time, of the n calls
MoreInAll(r, s) == r.ms * r.n > s.ms * s.n


tabelaZapytan(rows, ile) == <<First(Sorted(rows, MoreInAll), ile)>>

\* tabelaKomponentow: self time
tabelaKomponentow(rows, ile) == <<First(Sorted(rows, Slower), ile)>>

\* What it says instead of a table when there is nothing to show.
radaKomponentow(rows) == IF rows = <<>> THEN {"phpray_profile_url"} ELSE {}

\* tabelaSladow
tabelaSladow(rows, ile) == <<First(Sorted(rows, Slower), ile)>>

\* tabelaBledow: those with a PHP error (n # 0) first
Graver(r, s) == IF (r.n # 0) # (s.n # 0) THEN r.n # 0 ELSE r.ms > s.ms
tabelaBledow(rows, ile) == <<First(Sorted(rows, Graver), ile)>>

\* tabelaAlertow: by how many times the value exceeds its threshold n, 0 times when there is none
Over(r, s) ==
  LET krotnosc(x) == IF x.n = 0 THEN <<0, 1>> ELSE <<x.ms, x.n>>
  IN krotnosc(r)[1] * krotnosc(s)[2] > krotnosc(s)[1] * krotnosc(r)[2]
tabelaAlertow(rows) == <<Sorted(rows, Over)>>

\* tabelaDomen: by average time; rows that are alike may come in any order
tabelaDomen(rows, ile) == <<First(Sorted(rows, Slower), ile)>>

\* tabelaPorownania: the measures of both ranges side by side.
tabelaPorownania(a, b) == <<[k \in DOMAIN a |-> [id |-> a[k].id, a |-> a[k].ms, b |-> b[k].ms]]>>

\* kartaSladu: errors as they came, then the slowest outbound calls, components and queries
kartaSladu(errors, calls, parts, queries) ==
  <<errors, First(Sorted(calls, Slower), CardCalls), First(Sorted(parts, Slower), CardRows),
    First(Sorted(queries, Slower), CardRows)>>

\* ladnie: the answer as it is, cut when it is too long
ladnie(lists) == [k \in DOMAIN lists |-> First(lists[k], RawRows)]

\* The answer of a tool to what the console sent; an answer of another shape is passed on.
CloudTable(tool, args, body) ==
  LET l == body.lists
      ile == Arg(args, "limit", CloudTools[tool].limit)
  IN CASE ~body.expected \/ tool = "phpray_profile_url" -> ladnie(l)
       [] tool = "phpray_sites"        -> l
       [] tool = "phpray_overview"     -> podsumowaniePrzegladu(l[1], l[2], PageRows, PartRows)
       [] tool = "phpray_slow_pages"   -> podsumowaniePrzegladu(l[1], l[2], ile, 0)
       [] tool = "phpray_slow_queries" -> tabelaZapytan(l[1], ile)
       [] tool = "phpray_components"   -> tabelaKomponentow(l[1], ile)
       [] tool = "phpray_errors"       -> tabelaBledow(l[1], ile)
       [] tool = "phpray_traces"       -> tabelaSladow(l[1], ile)
       [] tool = "phpray_trace"        -> kartaSladu(l[1], l[2], l[3], l[4])
       [] tool = "phpray_compare"      -> tabelaPorownania(l[1], l[2])
       [] tool = "phpray_alerts"       -> tabelaAlertow(l[1])

\* The tools its text tells the agent to use.
CloudAdvice(tool, body) ==
  LET l == body.lists
  IN CASE ~body.expected -> {}
       [] tool \in {"phpray_overview", "phpray_slow_pages"} -> radaPrzegladu(l[2])
       [] tool = "phpray_components" -> radaKomponentow(l[1])
       [] OTHER -> {}

LocalAdvice(tool, body) ==
  IF body.expected /\ tool = "phpray_components" THEN radaKomponentow(body.lists[1]) ELSE {}

LocalTable(tool, args, body) ==
  LET l == body.lists
      ile == Arg(args, "limit", LocalTools[tool].limit)
  IN CASE body.expected /\ tool = "phpray_sites"        -> tabelaDomen(l[1], ile)
       [] body.expected /\ tool = "phpray_slow_queries" -> tabelaZapytan(l[1], ile)
       [] body.expected /\ tool = "phpray_components"   -> tabelaKomponentow(l[1], ile)
       [] OTHER -> ladnie(l)

=============================================================================
