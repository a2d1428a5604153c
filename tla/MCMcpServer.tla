----------------------------- MODULE MCMcpServer -----------------------------
(* McpServer for TLC: one request of each kind, and a few calls of the tools. *)
EXTENDS McpServer

CONSTANTS demo, member, viewer, s1, elsewhere

None0 == [x \in {} |-> 0]
Req(id, method, name, args) == [id |-> id, method |-> method, name |-> name, args |-> args]
Own(id, method, name) == Req(id, method, name, None0)
Call(id, name, args) == Req(id, "tools/call", name, args)
Site == [site_id |-> s1]

ProfileCall == Call(1, "phpray_profile_url", [site_id |-> s1, url_prefix |-> 1])

MCRole == (demo :> "member") @@ (member :> "member") @@ (viewer :> "viewer")

\* In the order in which they were recorded, which is the order of no table.
MCRows == <<[id |-> 1, at |-> -100, ms |-> 2, n |-> 1], [id |-> 2, at |-> 0, ms |-> 1, n |-> 3],
            [id |-> 3, at |-> -2000, ms |-> 5, n |-> 0], [id |-> 4, at |-> -10, ms |-> 4, n |-> 0]>>

Post(auth, requests) ==
  [method |-> "POST", accept |-> "json", auth |-> auth, from |-> 1, body |-> "json", requests |-> requests]
Bad(auth, body) == [Post(auth, <<>>) EXCEPT !.body = body]
Other(method, accept) == [Bad(None, "empty") EXCEPT !.method = method, !.accept = accept]

HttpScene ==
  [http |->
     {Post(None, <<ProfileCall, Own(2, "tools/list", None), Own(3, "initialize", "2025-03-26")>>),
      [Post(None, <<Call(1, "phpray_sites", None0), Own(0, "notifications", None), Own(0, "unknown", None),
                    Own(0, "ping", None), Call(2, "phpray_components", Site)>>)
         EXCEPT !.from = 2],
      Post(viewer, <<ProfileCall>>), Post(member, <<Own(1, "ping", None)>>),
      Bad(member, "malformed"), Bad(None, "large"), Bad("basic", "json"),
      Other("OPTIONS", "json"), Other("PUT", "json"), Other("GET", "html"), Other("GET", "event-stream"),
      Other("GET", "json")},
   envs |-> {}, lines |-> {}, configs |-> {}, minutes |-> 1, collector |-> FALSE, profiled |-> FALSE]

\* Two posts of the same profile, the second perhaps because the answer to the first was lost.
ProfileScene ==
  [http |-> {Post(member, <<ProfileCall>>)},
   envs |-> {}, lines |-> {}, configs |-> {0}, minutes |-> 0, collector |-> TRUE, profiled |-> TRUE]

\* The rate of all sites and that of one.
RateScene == [ProfileScene EXCEPT !.http = {}, !.configs = Sites \cup {0}]

StdioScene ==
  [http |-> {}, configs |-> {}, minutes |-> 1, collector |-> FALSE, profiled |-> TRUE,
   envs |-> {[mode |-> None, token |-> member], [mode |-> None, token |-> None],
             [mode |-> "cloud", token |-> None], [mode |-> "other", token |-> None]},
   lines |->
    {[kind |-> k, request |-> Own(1, "ping", None)] : k \in {"skipped", "end"}}
    \cup {[kind |-> "request", request |-> r] : r \in
       {Call(1, t, Site @@ [limit |-> 2, window_minutes |-> 500]) :
          t \in DOMAIN CloudTools \cup DOMAIN LocalTools}
       \cup {Call(1, "phpray_traces", Site @@ [limit |-> -1]),
             Call(1, "phpray_slow_pages", Site @@ [window_minutes |-> 0]),
             Call(1, "phpray_errors", [domain |-> s1]), Call(1, "phpray_overview", [domain |-> s1]),
             Call(1, "phpray_compare", Site @@ [from_a |-> -100]),
             Call(1, "phpray_components", [site_id |-> elsewhere]), Call(1, "phpray_trace", [trace_id |-> 1]),
             ProfileCall, Own(1, "prompts/get", "what_is_slow"), Own(1, "prompts/list", None),
             Own(1, "resources/read", "phpray://other"), Own(1, "unknown", None)}}]

MCScenes == {HttpScene, ProfileScene, RateScene, StdioScene}

ConnsAlike == Permutations(Conns)

=============================================================================
