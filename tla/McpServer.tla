------------------------------ MODULE McpServer ------------------------------
(***************************************************************************)
(* The MCP server (src/mcp) between an agent and the console: over HTTP,   *)
(* where one process serves many, each with the token of its request or,   *)
(* without one, as the demo account; and over stdio, a process per agent,  *)
(* which asks the console or the collector of its machine.  Its only tool  *)
(* that changes anything starts a profile, which reaches the control table *)
(* of the collector through ControlChannel.                                *)
(*                                                                         *)
(* The console is external: it knows tokens and their roles, holds what    *)
(* the collector shipped, and turns a profile request into a message.      *)
(***************************************************************************)
EXTENDS ControlChannel, McpTools

CONSTANTS
  Conns,        \* HTTP requests served at a time
  Sessions,     \* agents that run the program over stdio
  Scenes,       \* what a behaviour is about: [http, envs, lines, configs, minutes, collector, profiled],
                \* the HTTP requests, the settings [mode, token] of a stdio process and the lines an
                \* agent writes to it, the sites whose rate is set, how far the clock goes (bound),
                \* whether the collector takes part, and whether the requests recorded were profiled
  Role,         \* console: token -> "member" or "viewer"
  DemoToken,    \* PHPRAY_DEMO_TOKEN, None when not set
  None,
  Rows,         \* console and collector: what a site recorded, as [id, at, ms, n]
  SentQueries,  \* handleSlowQueries: its limit, 20 in the code
  SentParts,    \* handleComponents: its limit, 50 in the code
  PerMinute,    \* limitAnonNaMin
  MaxHttp,      \* bound: HTTP requests
  MaxLines      \* bound: lines of a session

MaxMinute == Max({x.minutes : x \in Scenes})
Addresses == UNION {{h.from : h \in x.http} : x \in Scenes}

VARIABLES
  scene,     \* one of Scenes
  minute,    \* the clock of the server, in minutes
  since,     \* licznikMinutowy.okno
  licz,      \* licznikMinutowy.licz: address -> requests of its minute
  conn,      \* HTTP request or session -> what it is at
  http,      \* bound counter
  lines,     \* bound counter
  admitted,  \* history: address -> minute -> requests let through without a token
  posted     \* history: the token each message came with, None for one of type config

limiter == <<minute, since, licz, admitted>>
vars == <<channel, limiter, conn, http, lines, posted, scene>>

Free == [pc |-> "free", status |-> 0, mode |-> "cloud", token |-> None, demo |-> FALSE,
         requests |-> <<>>, at |-> 0, answers |-> <<>>]

Init ==
  /\ ChannelInit
  /\ scene \in Scenes
  /\ minute = 0 /\ since = 0
  /\ licz = [a \in Addresses |-> 0]
  /\ conn = [c \in Conns \cup Sessions |-> Free]
  /\ http = 0 /\ lines = 0
  /\ admitted = [a \in Addresses |-> [m \in 0 .. MaxMinute |-> 0]]
  /\ posted = <<>>

-----------------------------------------------------------------------------
(* The transports *)

Tick ==
  /\ minute < scene.minutes
  /\ minute' = minute + 1
  /\ UNCHANGED <<channel, since, licz, admitted, conn, http, lines, posted>>

\* tokenZZadania: no Authorization header means the demo account, another scheme than Bearer
\* or an empty token nothing at all.
Demo(h) == h.auth = None
TokenOf(h) == CASE Demo(h) -> DemoToken
                [] h.auth = "basic" -> None
                [] OTHER -> h.auth

\* ServeHTTP: what is answered before any request of the body is looked at; 0 when they are.
Refusal(h, wolno) ==
  CASE h.method = "OPTIONS" -> 204
    [] h.method = "GET" /\ h.accept = "event-stream" -> 405
    [] h.method = "GET" /\ h.accept = "html" -> 303
    [] h.method = "GET" -> 200
    [] h.method # "POST" -> 405
    [] TokenOf(h) = None -> 401
    [] Demo(h) /\ ~wolno -> 429
    [] h.body = "large" -> 413
    [] h.body \in {"empty", "malformed"} -> 400
    [] OTHER -> 0

\* wolno counts before it looks at the limit, and starts afresh in a later minute only.  What
\* goes beyond the limit counts once here.
Counted(h) == h.method = "POST" /\ Demo(h) /\ TokenOf(h) # None

wolno(from) ==
  LET fresh == minute > since
      before == IF fresh THEN [a \in Addresses |-> 0] ELSE licz
  IN [since |-> IF fresh THEN minute ELSE since,
      licz |-> [before EXCEPT ![from] = IF @ > PerMinute THEN @ ELSE @ + 1],
      allowed |-> before[from] < PerMinute]

ServeHTTP(c, h) ==
  /\ conn[c].pc = "free" /\ http < MaxHttp
  /\ http' = http + 1
  /\ LET l == IF Counted(h) THEN wolno(h.from) ELSE [since |-> since, licz |-> licz, allowed |-> TRUE]
         status == Refusal(h, l.allowed)
         started == [Free EXCEPT !.pc = "serving", !.token = TokenOf(h), !.demo = Demo(h),
                                 !.requests = h.requests]
     IN /\ since' = l.since /\ licz' = l.licz
        /\ admitted' = IF Counted(h) /\ l.allowed
                         THEN [admitted EXCEPT ![h.from][minute] = @ + 1] ELSE admitted
        /\ conn' = [conn EXCEPT ![c] =
             IF status # 0 THEN [Free EXCEPT !.pc = "closing", !.status = status] ELSE started]
  /\ UNCHANGED <<channel, minute, lines, posted>>

\* The answers go out together, 202 when there are none; whether they arrive nobody learns.
Respond(c) ==
  /\ conn[c].pc = "serving" /\ conn[c].at = Len(conn[c].requests)
  /\ conn' = [conn EXCEPT ![c].pc = "closing", ![c].status = IF conn[c].answers = <<>> THEN 202 ELSE 200]
  /\ UNCHANGED <<channel, limiter, http, lines, posted>>

Close(c) ==
  /\ conn[c].pc = "closing"
  /\ conn' = [conn EXCEPT ![c] = Free]
  /\ UNCHANGED <<channel, limiter, http, lines, posted>>

\* main: the mode is chosen by PHPRAY_MODE, or by whether there is a token.
ModeOf(e) == IF e.mode # None THEN e.mode ELSE IF e.token # None THEN "cloud" ELSE "local"

StartStdio(s, e) ==
  /\ conn[s] = Free
  /\ LET mode == ModeOf(e)
         starts == mode = "local" \/ (mode = "cloud" /\ e.token # None)
     IN conn' = [conn EXCEPT ![s] = [Free EXCEPT !.pc = IF starts THEN "reading" ELSE "ended",
                                       !.mode = mode, !.token = IF mode = "cloud" THEN e.token ELSE None]]
  /\ UNCHANGED <<channel, limiter, http, lines, posted>>

\* run: one line at a time; an empty or malformed one is passed over, one beyond the buffer or
\* the end of the input is the end of the process.
ReadLine(s, l) ==
  /\ conn[s].pc = "reading" /\ lines < MaxLines
  /\ lines' = lines + 1
  /\ conn' = CASE l.kind = "request" -> [conn EXCEPT ![s].pc = "serving", ![s].requests = <<l.request>>]
              [] l.kind = "skipped" -> conn
              [] OTHER -> [conn EXCEPT ![s].pc = "ended"]
  /\ UNCHANGED <<channel, limiter, http, posted>>

\* Mutant: where it is in the last request is not reset.
SendLineKeeping(s) ==
  /\ conn[s].pc = "serving" /\ conn[s].at = Len(conn[s].requests)
  /\ conn' = [conn EXCEPT ![s] = [@ EXCEPT !.pc = "reading", !.requests = <<>>, !.answers = <<>>]]
  /\ UNCHANGED <<channel, limiter, http, lines, posted>>

\* handle: the answer, if there is one, is written before the next line is read.
SendLine(s) ==
  /\ conn[s].pc = "serving" /\ conn[s].at = Len(conn[s].requests)
  /\ conn' = [conn EXCEPT ![s] = [@ EXCEPT !.pc = "reading", !.requests = <<>>, !.at = 0, !.answers = <<>>]]
  /\ UNCHANGED <<channel, limiter, http, lines, posted>>

-----------------------------------------------------------------------------
(* odpowiedz: one request after the other *)

\* Mutant: the tools of a request without a token are not restricted.
ToolsForAll(c) == IF conn[c].mode = "local" THEN LocalTools ELSE CloudTools

\* The tools a request may call; without a token those that change nothing.
Tools(c) ==
  IF conn[c].mode = "local" THEN LocalTools
  ELSE [t \in IF conn[c].demo THEN ReadOnly(CloudTools) ELSE DOMAIN CloudTools |-> CloudTools[t]]

Request(c) == conn[c].requests[conn[c].at + 1]
Serving(c) == conn[c].pc = "serving" /\ conn[c].at < Len(conn[c].requests)

\* An answer: the id of its request, 0 (null) when that has none; to what method; what it is; the
\* lists it shows; what else it tells of, tools among it; and the message of a profile.
Answer(r, kind) ==
  [id |-> r.id, method |-> r.method, kind |-> kind, lists |-> <<>>, says |-> {}, ref |-> 0,
   minute |-> minute]

Answered(c, a) ==
  conn' = [conn EXCEPT ![c].at = @ + 1, ![c].answers = Append(@, a)]

\* wersjaKlienta
Versions == {"2024-11-05", "2025-03-26", "2025-06-18"}
wersjaKlienta(asked) == IF asked \in Versions THEN asked ELSE "2025-06-18"

Prompts == {"what_is_slow", "which_plugin_costs_most", "what_is_failing", "what_got_worse"}
Resources == {"phpray://install", "phpray://demo"}

\* instrukcje: whose data it is
instrukcje(demo) == IF demo THEN {"demo account"} ELSE {"own account"}

\* stopka: the first tool says it again
stopka(demo, name) == IF demo /\ name = "phpray_sites" THEN {"demo account"} ELSE {}

\* What the server answers by itself.  Initialize tells whose data it is; a method it does not
\* know is answered only when it has an id.
OwnAnswer(c, r) ==
  LET result(says) == [Answer(r, "result") EXCEPT !.says = says]
      named(names) == IF r.name \in names THEN result({r.name}) ELSE Answer(r, "error")
  IN CASE r.method = "initialize" ->
            result({wersjaKlienta(r.name)} \cup instrukcje(conn[c].demo))
       [] r.method = "ping" -> result({})
       [] r.method = "tools/list" -> result(DOMAIN Tools(c))
       [] r.method = "prompts/list" -> result(Prompts)
       [] r.method = "resources/list" -> result(Resources)
       [] r.method = "resources/templates/list" -> result({})
       [] r.method = "prompts/get" -> named(Prompts)
       [] r.method = "resources/read" -> named(Resources)
       [] OTHER -> Answer(r, "error")

\* A call of a tool that exists, with the arguments it cannot do without, goes out.
ArgsOf(c, r) == IF conn[c].mode = "local" THEN Named(r.args) ELSE r.args
Offered(c, r) == r.method = "tools/call" /\ r.name \in DOMAIN Tools(c)
Complete(c, r) == Tools(c)[r.name].needs \subseteq DOMAIN ArgsOf(c, r)

Silent(r) == r.method = "notifications" \/ (r.method = "unknown" /\ r.id = 0)

AnswerAlone(c) ==
  /\ Serving(c)
  /\ LET r == Request(c)
     IN CASE Offered(c, r) -> /\ ~Complete(c, r)
                              /\ Answered(c, Answer(r, "tool error"))
          [] Silent(r) -> conn' = [conn EXCEPT ![c].at = @ + 1]
          [] OTHER -> Answered(c, OwnAnswer(c, r))
  /\ UNCHANGED <<channel, limiter, http, lines, posted>>

-----------------------------------------------------------------------------
(* zapytaj: a call that goes out *)

Calling(c) == Serving(c) /\ Offered(c, Request(c)) /\ Complete(c, Request(c))

\* The console answers from what it has of the ranges asked for, with no more traces than asked for.
Within(range) == SelectSeq(Rows, LAMBDA r : range.from <= r.at /\ r.at <= range.to)
Parts(range) == IF scene.profiled THEN Within(range) ELSE <<>>
Stats(range) == <<[id |-> "max", ms |-> Max({0} \cup {r.ms : r \in ToSet(Within(range))})]>>
ConsoleSends(r) ==
  LET ranges == CloudRanges(r.name, r.args, minute)
      limit == Arg(r.args, "limit", CloudTools[r.name].limit)
  IN CASE Len(ranges) = 0 -> <<Rows, Rows, Rows, Rows>>
       [] r.name = "phpray_traces" /\ limit > 0 -> <<First(Within(ranges[1]), limit)>>
       [] r.name = "phpray_components" -> <<Parts(ranges[1])>>
       [] Len(ranges) = 1 -> <<Within(ranges[1]), Parts(ranges[1])>>
       [] OTHER -> <<Stats(ranges[1]), Stats(ranges[2])>>

\* The collector answers from its database (src/collector/api.go), counting back from its clock.
Since(from) == SelectSeq(Rows, LAMBDA r : r.at >= from)

handleDomains(from) == Sorted(Since(from), Slower)

\* It knows no window here, and the tool sends no limit.  The number of calls is exec_count,
\* which the tool does not read: it takes it for 0, and the text of the query for empty.
handleSlowQueries ==
  LET rows == First(Sorted(Rows, Slower), SentQueries)
  IN [k \in DOMAIN rows |-> [rows[k] EXCEPT !.n = 0]]

\* By total_ms, of profiled requests only; the tool reads self_ms, which is not there.
handleComponents(from) ==
  LET rows == First(Sorted(IF scene.profiled THEN Since(from) ELSE <<>>, Slower), SentParts)
  IN [k \in DOMAIN rows |-> [rows[k] EXCEPT !.ms = 0]]

\* The newest first; SQL takes a negative limit for none.
handleTraces(from, limit) ==
  LET rows == Sorted(Since(from), LAMBDA r, s : r.at > s.at)
  IN IF limit < 0 THEN rows ELSE First(rows, limit)

CollectorSends(r) ==
  LET ranges == LocalRanges(r.name, Named(r.args), minute)
      from == ranges[1].from
  IN CASE r.name = "phpray_slow_queries" -> <<handleSlowQueries>>
       [] Len(ranges) = 0 -> <<Rows>>
       [] r.name = "phpray_sites" -> <<handleDomains(from)>>
       [] r.name = "phpray_components" -> <<handleComponents(from)>>
       [] r.name = "phpray_traces" -> <<handleTraces(from, Arg(r.args, "limit", LocalTools[r.name].limit))>>
       [] OTHER -> <<Since(from)>>

Recorded(c, r) == IF conn[c].mode = "local" THEN CollectorSends(r) ELSE ConsoleSends(r)

\* What it says to the token, before it does anything.
Verdict(c, r) ==
  LET args == ArgsOf(c, r)
      site == Arg(args, "site_id", None)
  IN CASE conn[c].mode = "local" -> 200
       [] conn[c].token \notin DOMAIN Role -> 401
       [] Tools(c)[r.name].method = "POST" /\ Role[conn[c].token] = "viewer" -> 403
       [] site \notin Sites \cup {None} -> 404
       [] OTHER -> 200

\* The answer comes: a profile has become a message for the collector.
CallAnswered(c, expected) ==
  /\ Calling(c) /\ Verdict(c, Request(c)) = 200
  /\ LET r == Request(c)
         args == ArgsOf(c, r)
         body == [expected |-> expected, lists |-> Recorded(c, r)]
         answer == [Answer(r, "result") EXCEPT
                      !.lists = IF conn[c].mode = "local" THEN LocalTable(r.name, args, body)
                                ELSE CloudTable(r.name, args, body),
                      !.says = stopka(conn[c].demo, r.name)
                               \cup (IF conn[c].mode = "local" THEN LocalAdvice(r.name, body)
                                     ELSE CloudAdvice(r.name, body))
                               \cup (IF expected THEN {} ELSE {"as sent"})]
     IN IF Tools(c)[r.name].method = "POST"
          THEN /\ Issue(Profile(args.site_id, args.url_prefix))
               /\ posted' = Append(posted, conn[c].token)
               /\ Answered(c, [answer EXCEPT !.lists = <<>>, !.ref = Len(issued) + 1])
               /\ UNCHANGED <<lives, refused, st, sending, poller, memory, table, applied>>
          ELSE /\ Answered(c, answer)
               /\ UNCHANGED <<channel, posted>>
  /\ UNCHANGED <<limiter, http, lines>>

\* It is refused, or there is no answer within 30 s; what was to be done may be done all the same.
CallFails(c, done) ==
  /\ Calling(c)
  /\ LET r == Request(c)
         profile == Tools(c)[r.name].method = "POST" /\ Verdict(c, r) = 200
     IN /\ done => profile
        /\ IF done
             THEN /\ Issue(Profile(r.args.site_id, r.args.url_prefix))
                  /\ posted' = Append(posted, conn[c].token)
                  /\ UNCHANGED <<lives, refused, st, sending, poller, memory, table, applied>>
             ELSE UNCHANGED <<channel, posted>>
        /\ Answered(c, Answer(r, "tool error"))
  /\ UNCHANGED <<limiter, http, lines>>

\* Somebody sets the rate of a site, or of all, in the console.
ConsoleConfig(s) ==
  /\ Issue(Config(s))
  /\ posted' = Append(posted, None)
  /\ UNCHANGED <<lives, refused, st, sending, poller, memory, table, applied, limiter, conn, http, lines>>

-----------------------------------------------------------------------------
All == Conns \cup Sessions

Serve ==
  \/ \E c \in Conns, h \in scene.http : ServeHTTP(c, h)
  \/ \E c \in Conns : Respond(c) \/ Close(c)
  \/ \E s \in Sessions, e \in scene.envs : StartStdio(s, e)
  \/ \E s \in Sessions, l \in scene.lines : ReadLine(s, l)
  \/ \E s \in Sessions : SendLine(s)
  \/ \E c \in All : AnswerAlone(c)
  \/ \E c \in All, b \in BOOLEAN : CallAnswered(c, b) \/ CallFails(c, b)

Next ==
  /\ \/ Tick
     \/ Serve
     \/ \E s \in scene.configs : ConsoleConfig(s)
     \/ scene.collector /\ (Control \/ Surroundings) /\ UNCHANGED <<limiter, conn, http, lines, posted>>
  /\ UNCHANGED scene

Spec == Init /\ [][Next]_vars

-----------------------------------------------------------------------------
(* Properties *)

TypeOK ==
  /\ ChannelTypes
  /\ minute \in 0 .. MaxMinute /\ since \in 0 .. MaxMinute
  /\ licz \in [Addresses -> 0 .. PerMinute + 1]
  /\ \A c \in All :
       /\ conn[c].pc \in {"free", "serving", "closing", "reading", "ended"}
       /\ conn[c].at \in 0 .. Len(conn[c].requests)
       /\ conn[c].status \in {0, 200, 202, 204, 303, 400, 401, 405, 413, 429}
  /\ Len(posted) = Len(issued)

\* What makes a row the first of its table.  Of queries it is their total; locally the collector's
\* order stays, by average time, for the number of calls does not reach the table.
Cost(mode, tool, row) ==
  CASE tool = "phpray_slow_queries" -> IF mode = "local" THEN row.ms ELSE row.ms * row.n
    [] tool = "phpray_errors" -> row.ms + (IF row.n # 0 THEN 1000 ELSE 0)
    [] tool = "phpray_alerts" -> IF row.n = 0 THEN 0 ELSE (1000 * row.ms) \div row.n
    [] OTHER -> row.ms

\* The tools whose first list is ordered by that.
Ranked(mode) ==
  {"phpray_slow_queries", "phpray_components"} \cup
  (IF mode = "local" THEN {"phpray_sites"}
   ELSE {"phpray_slow_pages", "phpray_errors", "phpray_traces", "phpray_alerts"})

\* Such a list shows as many rows as were asked for, or as the collector sends, of the minutes asked
\* for, the costliest first, and leaves out none that costs more than one it shows; but which
\* traces the console sends, when it has more than asked for, is its own choice, and the slow
\* queries of the collector are of all time.  What the console sent is shown as it was recorded.
TrueList(mode, tool, r, l, now) ==
  LET given == Arg(r.args, "window_minutes", 0)
      back == IF given > 0 THEN given ELSE tool.window
      allTime == tool.window = 0 \/ (mode = "local" /\ r.name = "phpray_slow_queries")
      there == {row \in ToSet(Rows) : /\ allTime \/ (now - back <= row.at /\ row.at <= now)
                                      /\ r.name = "phpray_components" => scene.profiled}
      sent == CASE mode = "local" /\ r.name = "phpray_slow_queries" -> SentQueries
                [] mode = "local" /\ r.name = "phpray_components" -> SentParts
                [] OTHER -> Len(Rows)
      wanted == IF tool.limit = 0 THEN Len(Rows) ELSE Arg(r.args, "limit", tool.limit)
      row(k) == CHOOSE x \in ToSet(Rows) : x.id = l[k].id
      cost(x) == Cost(mode, r.name, x)
  IN /\ \A k \in DOMAIN l : row(k) \in there /\ (mode = "cloud" => l[k] = row(k))
     /\ Len(l) = Max({0, Min({wanted, sent, Cardinality(there)})})
     /\ \A i, j \in DOMAIN l : i < j => row(i) # row(j) /\ cost(row(i)) >= cost(row(j))
     /\ r.name # "phpray_traces" =>
          \A x \in there \ {row(k) : k \in DOMAIN l}, k \in DOMAIN l : cost(x) <= cost(row(k))


\* The demo account is lent, not given: of the requests without a token no address gets more than
\* its number through in a minute, and none of them, in whatever batch, starts a profile or finds
\* the tool that does in the list of tools, whatever the role of the demo token is, which only the
\* server knows.  An answer that advises it is not one that offers it (radaPrzegladu).
DemoBounded ==
  /\ \A a \in Addresses, m \in 0 .. MaxMinute : admitted[a][m] <= PerMinute
  /\ \A k \in DOMAIN posted : posted[k] # None => posted[k] # DemoToken
  /\ \A c \in Conns : conn[c].demo =>
       \A k \in DOMAIN conn[c].answers :
         conn[c].answers[k].method = "tools/list" => "phpray_profile_url" \notin conn[c].answers[k].says

=============================================================================
