------------------------------- MODULE Recorder -------------------------------
(***************************************************************************)
(* What a request remembers while it runs: the hooks around mysqli, PDO,   *)
(* curl, curl_multi, the file functions and phpredis (src/extension/       *)
(* hooks_*.c) and the handlers of errors and marks (phpray.c).  Each first *)
(* calls the function it stands for and then records the call.  Statements *)
(* and addresses are numbers, offsets are left out.                        *)
(*                                                                         *)
(* PHP and libcurl are external: a curl handle is an object with an        *)
(* address, in a multi handle or not; closing the multi handle takes its   *)
(* handles out without a hook, and a new object may get an old address.    *)
(***************************************************************************)
EXTENDS Integers, SequencesExt, FiniteSetsExt

CONSTANTS
  QueriesMax,    \* PHPRAY_MAX_QUERIES
  QueriesFirst,  \* what the array of queries starts with
  HttpMax,       \* PHPRAY_MAX_HTTP_CALLS
  HttpFirst,     \* what the array of HTTP calls starts with
  MarksMax,      \* PHPRAY_MAX_MARKS
  ErrorsMax,     \* PHPRAY_MAX_ERRORS
  MultiMax,      \* PHPRAY_MAX_MULTI_HANDLES
  Width,         \* the counters are uint16_t: 2^16
  Handles,       \* addresses of curl handles
  Statements,    \* bound: fingerprints of SQL statements, numbers
  Durations,     \* bound: how long a call takes
  SlowQuery,     \* PHPRAY_SLOW_QUERY_BACKTRACE_NS
  MaxOps         \* bound: calls a request makes

ASSUME RecorderAssumption ==
  /\ QueriesMax \in Nat /\ QueriesFirst \in 1 .. QueriesMax
  /\ HttpMax \in Nat /\ HttpFirst \in 1 .. HttpMax
  /\ {MarksMax, MultiMax, Width, SlowQuery, MaxOps} \subseteq Nat
  /\ ErrorsMax \in Nat \ {0}
  /\ Width > QueriesMax /\ Width > HttpMax
  /\ Statements \subseteq Nat \ {0} /\ Durations \subseteq Nat \ {0}

VARIABLES
  req,    \* PHPRAY_G(current_request), see NoRequest
  easy,   \* external: address -> the handle there: in a multi handle or not, and its address
  did     \* history: what the request did

recVars == <<req, easy, did>>

EmptyList == [count |-> 0, alloc |-> 0, items |-> <<>>, total |-> 0]
Blank == [what |-> 0, dur |-> 0, bt |-> 0]
NoTrack == [active |-> FALSE, easy |-> 0, url |-> 0]

NoRequest ==
  [on |-> FALSE, q |-> EmptyList, h |-> EmptyList, marks |-> <<>>, errors |-> <<>>,
   files |-> 0, redis |-> 0, tracks |-> [i \in 1 .. MultiMax |-> NoTrack], tracked |-> 0]

\* ops: calls made so far, which also number the HTTP calls.  http: the calls to be recorded.
\* closed: a multi handle was closed while a transfer was in it.
NothingDone ==
  [ops |-> 0, q |-> <<>>, http |-> {}, marks |-> <<>>, errors |-> <<>>, files |-> 0, redis |-> 0,
   closed |-> FALSE]

-----------------------------------------------------------------------------
(* The two arrays *)

\* Mutant: the array doubles past the limit.
RoomDoubled(list, first, max) ==
  IF list.alloc = 0 THEN first
  ELSE IF list.count >= list.alloc /\ list.alloc < max THEN 2 * list.alloc ELSE list.alloc

\* Room for one more: the first allocation, or twice as much up to the limit.
Room(list, first, max) ==
  IF list.alloc = 0 THEN first
  ELSE IF list.count >= list.alloc /\ list.alloc < max THEN Min({2 * list.alloc, max})
  ELSE list.alloc

\* Beyond the limit only the totals grow; the counter is 16 bits wide.
Put(list, item, first, max) ==
  LET a == Room(list, first, max)
      at == IF list.count >= max THEN 0 ELSE list.count + 1
      entry(i) == IF i = at THEN item ELSE IF i <= list.alloc THEN list.items[i] ELSE Blank
  IN [count |-> (list.count + 1) % Width, alloc |-> a, items |-> [i \in 1 .. a |-> entry(i)],
      total |-> list.total + item.dur]

\* The entries the writers of a trace look at.
Kept(list) == SubSeq(list.items, 1, Min({list.count, list.alloc}))

RecordQuery(r, sql, dur) ==
  [r EXCEPT !.q = Put(@, [what |-> sql, dur |-> dur, bt |-> IF dur >= SlowQuery THEN 1 ELSE 0],
                      QueriesFirst, QueriesMax)]

RecordHttp(r, url) ==
  [r EXCEPT !.h = Put(@, [what |-> url, dur |-> 1, bt |-> 0], HttpFirst, HttpMax)]

-----------------------------------------------------------------------------
(* curl_multi *)

FindTracks(r, h) == {i \in DOMAIN r.tracks : r.tracks[i].active /\ r.tracks[i].easy = h}

\* Mutant: the track stays active when its transfer has been recorded.
CompleteKeeping(r, h, again, url) ==
  IF FindTracks(r, h) = {} THEN r
  ELSE RecordHttp(r, IF again THEN url ELSE r.tracks[Min(FindTracks(r, h))].url)

\* The first track with this address, if there is one, is recorded and freed.  again: its
\* address is asked for once more.
Complete(r, h, again, url) ==
  LET i == Min(FindTracks(r, h))
      named == IF again THEN url ELSE r.tracks[i].url
  IN IF FindTracks(r, h) = {} THEN r
     ELSE [RecordHttp(r, named) EXCEPT
             !.tracks[i] = [@ EXCEPT !.active = FALSE, !.easy = 0],
             !.tracked = IF @ > 0 THEN @ - 1 ELSE 0]

\* The first free slot, unless all are in use.
Track(r, h, url) ==
  LET free == {i \in DOMAIN r.tracks : ~r.tracks[i].active}
  IN IF r.tracked >= MultiMax \/ free = {} THEN r
     ELSE [r EXCEPT !.tracks[Min(free)] = [active |-> TRUE, easy |-> h, url |-> url],
                    !.tracked = @ + 1]

\* At the end of the request what is still tracked is recorded as it is.
FlushTracks(r) ==
  LET q == FoldLeft(LAMBDA s, i : IF r.tracks[i].active THEN RecordHttp(s, r.tracks[i].url) ELSE s,
                    r, [i \in DOMAIN r.tracks |-> i])
  IN IF r.tracked = 0 THEN r
     ELSE [q EXCEPT !.tracks = [i \in DOMAIN @ |-> [@[i] EXCEPT !.active = FALSE]],
                    !.tracked = 0]

-----------------------------------------------------------------------------
(* The calls a script makes *)

Op == did.ops + 1
Busy == req.on /\ did.ops < MaxOps

\* mysqli_query, PDO::query, PDO::exec, PDOStatement::execute.
Query(sql, dur) ==
  /\ Busy
  /\ req' = RecordQuery(req, sql, dur)
  /\ did' = [did EXCEPT !.ops = Op, !.q = Append(@, [what |-> sql, dur |-> dur])]
  /\ UNCHANGED easy

\* curl_exec, and file_get_contents of an address.
HttpCall ==
  /\ Busy
  /\ req' = RecordHttp(req, Op)
  /\ did' = [did EXCEPT !.ops = Op, !.http = @ \union {Op}]
  /\ UNCHANGED easy

\* curl_multi_add_handle; one that is in a multi handle already is refused.
MultiAdd(h) ==
  /\ Busy
  /\ ~easy[h].in
  /\ easy' = [easy EXCEPT ![h] = [in |-> TRUE, url |-> Op]]
  /\ req' = Track(req, h, Op)
  /\ did' = [did EXCEPT !.ops = Op, !.http = IF req' = req THEN @ ELSE @ \union {Op}]

\* curl_multi_info_read returns the handle of a transfer that is done.
MultiInfoRead(h) ==
  /\ Busy
  /\ easy[h].in
  /\ req' = Complete(req, h, TRUE, easy[h].url)
  /\ did' = [did EXCEPT !.ops = Op]
  /\ UNCHANGED easy

\* curl_multi_remove_handle, called for a handle that may not have been read: the hook records
\* first, also when the call then fails as the handle is in no multi handle.
MultiRemove(h) ==
  /\ Busy
  /\ req' = Complete(req, h, FALSE, 0)
  /\ easy' = [easy EXCEPT ![h].in = FALSE]
  /\ did' = [did EXCEPT !.ops = Op]

\* curl_multi_close: no hook, and the tracks stay.
MultiClose ==
  /\ Busy
  /\ \E h \in Handles : easy[h].in
  /\ easy' = [h \in Handles |-> [easy[h] EXCEPT !.in = FALSE]]
  /\ did' = [did EXCEPT !.ops = Op,
                        !.closed = @ \/ \E i \in DOMAIN req.tracks : req.tracks[i].active]
  /\ UNCHANGED req

\* file_get_contents and file_put_contents of a file.
FileOp ==
  /\ Busy
  /\ req' = [req EXCEPT !.files = (@ + 1) % Width]
  /\ did' = [did EXCEPT !.ops = Op, !.files = @ + 1]
  /\ UNCHANGED easy

\* A method of Redis.
RedisCall ==
  /\ Busy
  /\ req' = [req EXCEPT !.redis = (@ + 1) % Width]
  /\ did' = [did EXCEPT !.ops = Op, !.redis = @ + 1]
  /\ UNCHANGED easy

\* phpray_mark.
UserMark ==
  /\ Busy
  /\ req' = [req EXCEPT !.marks = IF Len(@) >= MarksMax THEN @ ELSE Append(@, Op)]
  /\ did' = [did EXCEPT !.ops = Op, !.marks = Append(@, Op)]
  /\ UNCHANGED easy

\* phpray_error_cb.
PhpError ==
  /\ Busy
  /\ req' = [req EXCEPT !.errors = IF Len(@) < ErrorsMax THEN Append(@, Op) ELSE @]
  /\ did' = [did EXCEPT !.ops = Op, !.errors = Append(@, Op)]
  /\ UNCHANGED easy

RecorderInit ==
  /\ req = NoRequest
  /\ easy = [h \in Handles |-> [in |-> FALSE, url |-> 0]]
  /\ did = NothingDone

\* A request begins to be traced, or does not; its curl handles are its own.
RecorderBegin(traced) ==
  /\ req' = [NoRequest EXCEPT !.on = traced]
  /\ easy' = [h \in Handles |-> [in |-> FALSE, url |-> 0]]
  /\ did' = NothingDone

=============================================================================
