----------------------------- MODULE TraceRecord -----------------------------
(***************************************************************************)
(* What the extension writes of a request and what the collector reads.    *)
(* The record of the ring buffer is a sequence of fields, written field by *)
(* field (src/extension/ringbuffer.c) and read field by field              *)
(* (src/collector/ringbuffer.go): nothing in it says where a field starts. *)
(* A field is one number, whatever its width, and so is a text.  The       *)
(* JSONL line names its fields.                                            *)
(***************************************************************************)
EXTENDS Recorder

CONSTANTS
  JsonlTop,   \* queries of a line at the level normal: 5
  RingTop,    \* queries of a record at the level normal: 10
  Repeats,    \* a statement repeated more often than this is the N+1 pattern: 5
  BufferMax   \* the heap buffer for a record, in fields: 256 KB

ASSUME TraceRecordAssumption == {JsonlTop, RingTop, Repeats, BufferMax} \subseteq Nat

Summary == 0
Normal == 1
Full == 2
Alert == 3

-----------------------------------------------------------------------------
(* Decisions at the end of a request *)

\* speed: the threshold the duration reached, from 0 for none to 3 for threshold_alert_ms.
SmartLevel(speed, failed) == IF failed THEN Full ELSE speed

TraceLevel(mode, speed, failed, errors) ==
  LET l == SmartLevel(speed, failed)
  IN IF mode = "smart" THEN IF errors > 0 /\ l < Normal THEN Normal ELSE l
     ELSE IF mode = "all" THEN Full ELSE Normal

\* A statement among the kept ones is repeated too often.  Statements with the same slot of the
\* table of 64 count as one; here each has its own.
NPlusOne(list) ==
  LET kept == Kept(list)
  IN /\ list.count > Repeats
     /\ \E s \in Statements : Cardinality({i \in DOMAIN kept : kept[i].what = s}) > Repeats

\* The indices of the n slowest, slowest first, the earlier of two equals first.
Slowest(items, n) ==
  LET place(top, i) ==
        LET k == 1 + Cardinality({j \in DOMAIN top : items[top[j]].dur >= items[i].dur})
        IN SubSeq(InsertAt(top, k, i), 1, Min({n, Len(top) + 1}))
  IN FoldLeft(place, <<>>, [i \in DOMAIN items |-> i])

-----------------------------------------------------------------------------
(* The JSONL line *)

\* comps: the components of a profiled request, <<>> otherwise.  The database fields are written
\* only when the counter, of 16 bits, is not zero.
JsonlLine(r, level, comps) ==
  LET kept == Kept(r.q)
      top == Slowest(kept, JsonlTop)
      pick == IF level < Full /\ Len(kept) > JsonlTop
              THEN [j \in DOMAIN top |-> kept[top[j]]] ELSE kept
  IN [level |-> level, n1 |-> NPlusOne(r.q), marks |-> r.marks, errors |-> r.errors,
      count |-> r.q.count, total |-> IF r.q.count > 0 THEN r.q.total ELSE 0,
      http |-> r.h.count, files |-> r.files,
      redis |-> r.redis, comps |-> comps,
      queries |-> IF level >= Normal THEN pick ELSE <<>>,
      calls |-> IF level >= Normal THEN Kept(r.h) ELSE <<>>]

-----------------------------------------------------------------------------
(* The record of the ring: the extension's side, version 5 *)

HeaderFields ==
  <<"request_id", "uid", "pid", "timestamp", "duration", "cpu_user", "cpu_sys", "response_code",
    "memory_peak", "query_count", "db_total", "http_call_count", "http_total", "file_op_count",
    "file_total", "redis_call_count", "redis_total", "wp_detected", "trace_level", "mark_count",
    "error_count", "n_plus_one", "server_name_len", "request_uri_len", "request_method_len",
    "phpray_id_len", "php_version_len", "sq", "sh", "sm", "se", "sc", "app", "profiled",
    "prof_overflow", "docroot_len">>
Texts == <<"server_name", "request_uri", "request_method", "phpray_id", "php_version", "docroot">>
QueryFields == <<"len", "duration", "offset", "rows", "source", "frames", "text">>
HttpFields == <<"len", "duration", "offset", "response_code", "frames", "text">>
MarkFields == <<"len", "offset", "text">>
ErrorFields == <<"len", "type", "offset", "text">>
ComponentFields == <<"len", "incl", "self", "calls", "text">>
FrameFields == <<"len", "line", "text">>

\* A field the model does not follow has a value of its own, so that a shift shows.
Pack(fields, values) ==
  [i \in DOMAIN fields |-> IF fields[i] \in DOMAIN values THEN values[fields[i]] ELSE 100 + i]

PackAll(fields, items) ==
  LET frames(v) == IF "frames" \in DOMAIN v
                   THEN FlattenSeq([b \in 1 .. v.frames |-> Pack(FrameFields, [line |-> b])])
                   ELSE <<>>
  IN FlattenSeq([i \in DOMAIN items |-> Pack(fields, items[i]) \o frames(items[i])])

\* The sections of a record, and what its header says of them.
Sections(r, level, comps) ==
  LET first(items, n) == SubSeq(items, 1, Min({Len(items), n}))
      detail(x) == [duration |-> x.dur, frames |-> x.bt, text |-> x.what]
      queries == IF level >= Full THEN Kept(r.q)
                 ELSE IF level >= Normal THEN first(Kept(r.q), RingTop) ELSE <<>>
      calls == IF level >= Normal THEN Kept(r.h) ELSE <<>>
  IN [q |-> [i \in DOMAIN queries |-> detail(queries[i])],
      h |-> [i \in DOMAIN calls |-> detail(calls[i])],
      m |-> [i \in DOMAIN r.marks |-> [text |-> r.marks[i]]],
      e |-> [i \in DOMAIN r.errors |-> [text |-> r.errors[i]]],
      c |-> [i \in DOMAIN comps |->
               [incl |-> comps[i].incl, self |-> comps[i].self, text |-> comps[i].name]]]

SerializeRequest(r, level, comps, profiled) ==
  LET s == Sections(r, level, comps)
      header == [query_count |-> r.q.count, db_total |-> r.q.total, http_call_count |-> r.h.count,
                 file_op_count |-> r.files, redis_call_count |-> r.redis, trace_level |-> level,
                 mark_count |-> Len(r.marks), error_count |-> Len(r.errors),
                 n_plus_one |-> IF NPlusOne(r.q) THEN 1 ELSE 0,
                 sq |-> Len(s.q), sh |-> Len(s.h), sm |-> Len(s.m), se |-> Len(s.e),
                 sc |-> Len(s.c), profiled |-> IF profiled THEN 1 ELSE 0]
  IN Pack(HeaderFields, header) \o Pack(Texts, <<>>) \o PackAll(QueryFields, s.q)
       \o PackAll(HttpFields, s.h) \o PackAll(MarkFields, s.m) \o PackAll(ErrorFields, s.e)
       \o PackAll(ComponentFields, s.c)

-----------------------------------------------------------------------------
(* The record of the ring: the collector's side *)

\* The fields of the fixed header in the order DeserializeTrace reads them, with the version
\* of the ring that brought them.
HeaderReads ==
  <<<<"request_id", 1>>, <<"uid", 1>>, <<"pid", 1>>, <<"timestamp", 1>>, <<"duration", 1>>,
    <<"cpu_user", 1>>, <<"cpu_sys", 1>>, <<"response_code", 1>>, <<"memory_peak", 1>>,
    <<"query_count", 1>>, <<"db_total", 1>>, <<"http_call_count", 1>>, <<"http_total", 1>>,
    <<"file_op_count", 1>>, <<"file_total", 1>>, <<"redis_call_count", 3>>, <<"redis_total", 3>>,
    <<"wp_detected", 1>>, <<"trace_level", 1>>, <<"mark_count", 1>>, <<"error_count", 1>>,
    <<"n_plus_one", 1>>, <<"server_name_len", 1>>, <<"request_uri_len", 1>>,
    <<"request_method_len", 1>>, <<"phpray_id_len", 1>>, <<"php_version_len", 2>>, <<"sq", 1>>,
    <<"sh", 1>>, <<"sm", 1>>, <<"se", 1>>, <<"sc", 3>>, <<"app", 4>>, <<"profiled", 4>>,
    <<"prof_overflow", 4>>, <<"docroot_len", 5>>>>
TextReads ==
  <<<<"server_name", 1>>, <<"request_uri", 1>>, <<"request_method", 1>>, <<"phpray_id", 1>>,
    <<"php_version", 2>>, <<"docroot", 5>>>>
ComponentReads == <<<<"len", 1>>, <<"incl", 1>>, <<"self", 4>>, <<"calls", 1>>, <<"text", 1>>>>

Reads(fields, ver) ==
  FoldLeft(LAMBDA s, f : IF f[2] <= ver THEN Append(s, f[1]) ELSE s, <<>>, fields)

HeaderOf == [ver \in 1 .. 5 |-> Reads(HeaderReads, ver)]
TextsOf == [ver \in 1 .. 5 |-> Reads(TextReads, ver)]
ComponentOf == [ver \in 1 .. 5 |-> Reads(ComponentReads, ver)]

\* Past the end of the record a read gives zero.
At(data, i) == IF i <= Len(data) THEN data[i] ELSE 0

\* Read one item of these fields at st.pos; frames of a backtrace follow it.
ReadItem(data, fields, st) ==
  LET item == [f \in Range(fields) |->
                 At(data, st.pos + (CHOOSE i \in DOMAIN fields : fields[i] = f) - 1)]
      next == st.pos + Len(fields)
  IN [pos |-> IF "frames" \in DOMAIN item THEN next + item.frames * Len(FrameFields) ELSE next,
      items |-> Append(st.items, item)]

ReadItems(data, fields, n, pos) ==
  FoldLeft(LAMBDA st, i : ReadItem(data, fields, st), [pos |-> pos, items |-> <<>>],
           [i \in 1 .. n |-> i])

DeserializeTrace(data, ver) ==
  LET head == ReadItem(data, HeaderOf[ver], [pos |-> 1, items |-> <<>>])
      h == head.items[1]
      texts == ReadItem(data, TextsOf[ver], [pos |-> head.pos, items |-> <<>>])
      qs == ReadItems(data, QueryFields, h.sq, texts.pos)
      hs == ReadItems(data, HttpFields, h.sh, qs.pos)
      ms == ReadItems(data, MarkFields, h.sm, hs.pos)
      es == ReadItems(data, ErrorFields, h.se, ms.pos)
      cs == ReadItems(data, ComponentOf[ver], IF ver >= 3 THEN h.sc ELSE 0, es.pos)
      words(list) == [i \in DOMAIN list |-> list[i].text]
      details(list) == [i \in DOMAIN list |->
                          [what |-> list[i].text, dur |-> list[i].duration, bt |-> list[i].frames]]
  IN [level |-> h.trace_level, n1 |-> h.n_plus_one = 1, count |-> h.query_count,
      total |-> h.db_total, http |-> h.http_call_count, files |-> h.file_op_count,
      redis |-> IF ver >= 3 THEN h.redis_call_count ELSE 0,
      queries |-> details(qs.items), calls |-> details(hs.items), marks |-> words(ms.items),
      errors |-> words(es.items),
      comps |-> [i \in DOMAIN cs.items |->
                   [name |-> cs.items[i].text, incl |-> cs.items[i].incl,
                    self |-> IF ver >= 4 THEN cs.items[i].self ELSE 0]]]

=============================================================================
