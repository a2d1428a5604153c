------------------------------ MODULE PhpWorker ------------------------------
(***************************************************************************)
(* A PHP process with the extension in it, from MINIT to its end           *)
(* (src/extension/phpray.c), composed of Profiler, Recorder with           *)
(* TraceRecord, and Health.  It serves one request after another: RINIT    *)
(* decides whether a request is traced, the script runs, and RSHUTDOWN     *)
(* writes the trace to the JSONL file and to the ring of the user it runs  *)
(* as (RingAttach and RingBuffer have what happens in the ring, JsonlTail  *)
(* what happens in the file).                                              *)
(*                                                                         *)
(* Forked = FALSE: each process loads the extension (lsphp, CGI, FastCGI). *)
(* Forked = TRUE: a master loads it and forks the processes that serve     *)
(* requests (PHP-FPM, prefork).                                            *)
(***************************************************************************)
EXTENDS Profiler, TraceRecord, Health

CONSTANTS
  Forked,       \* the processes are forked from one that has run MINIT
  OutputMode,   \* phpray.output_mode: "file", "shm" or "both"
  Users,        \* users a process may run as, numbers; the ring's path has %u
  RetrySec,     \* PHPRAY_RING_RETRY_SEC
  MaxProcs,     \* bound: processes
  MaxRequests,  \* bound: requests
  Families      \* bound: each behaviour uses one family of calls of these

ASSUME PhpWorkerAssumption ==
  /\ Forked \in BOOLEAN /\ OutputMode \in {"file", "shm", "both"}
  /\ Users \subseteq Nat \ {0} /\ RetrySec \in Nat \ {0}
  /\ MaxProcs \in Nat /\ MaxRequests \in Nat
  /\ Families \subseteq {"db", "curl", "misc", "profile", "users", "life"}

VARIABLES
  family,    \* the family of calls the scripts make
  proc,      \* the process, see NoProcess
  serving,   \* 0 between requests, else the user the process runs as
  override,  \* phpray.enabled of this request's directory: "unset", "on" or "off"
  procs,     \* processes so far
  requests,  \* requests so far
  forgiven,  \* history: the flag was cleared since this process began
  last       \* history: what the last request left, see NoTrace

ownVars == <<family, proc, serving, override, procs, requests, forgiven, last>>
vars == <<profVars, recVars, healthVars, ownVars>>

\* enabled: PHPRAY_G(enabled).  hooked: MINIT has installed hooks and handlers.  ring: the user
\* whose ring is open, or 0.  failed: history, when opening a ring failed last.  certain and
\* possible: history, the recent crashes when the process began.
NoProcess ==
  [up |-> FALSE, enabled |-> TRUE, hooked |-> FALSE, out |-> "file", ring |-> 0, retryAt |-> 0,
   failed |-> 0, certain |-> 0, possible |-> 0]

\* line and ring: <<>>, or the one record written.  to: the user whose ring it was.
NoTrace ==
  [line |-> <<>>, ring |-> <<>>, to |-> 0, user |-> 0, early |-> FALSE,
   did |-> NothingDone, comps |-> <<>>, mode |-> "all"]

-----------------------------------------------------------------------------
(* The process *)

\* MINIT: too many crashes, and nothing below the check is done; output_mode stays 0, "file".
Minit(sick) ==
  [NoProcess EXCEPT !.up = TRUE, !.enabled = ~sick, !.hooked = ~sick,
                    !.out = IF sick THEN "file" ELSE OutputMode,
                    !.certain = CertainCrashes, !.possible = PossibleCrashes]

Spawn ==
  /\ ~proc.up /\ procs < MaxProcs
  /\ procs' = procs + 1
  /\ proc' = Minit(~Forked /\ TooMany)
  /\ IF Forked THEN UNCHANGED healthVars ELSE HealthStart
  /\ forgiven' = (~Forked /\ ~TooMany)
  /\ cc' = NoCache
  /\ UNCHANGED <<prof, handlers, slot, frames, running, now, calls, odd, recVars, family, serving,
                 override, requests, last>>

\* MSHUTDOWN: handlers and hooks are taken back and the ring is closed.
Stop ==
  /\ proc.up /\ serving = 0 /\ family = "users"
  /\ proc' = NoProcess
  /\ UNCHANGED <<profVars, recVars, healthVars, family, serving, override, procs, requests,
                 forgiven, last>>

\* The process dies in a signal; a process without the handler leaves no note of it.
Die ==
  /\ proc.up /\ family = "life"
  /\ proc' = NoProcess
  /\ serving' = 0 /\ override' = "unset"
  /\ req' = NoRequest /\ prof' = NoProfile
  /\ IF proc.hooked THEN CrashTakesSlot ELSE UNCHANGED healthVars
  /\ UNCHANGED <<cc, handlers, slot, frames, running, now, calls, odd, easy, did, family, procs,
                 requests, forgiven, last>>

\* What the others do to the health file: crash, finish the handler, start, reset.
Others ==
  /\ family = "life"
  /\ \/ CrashTakesSlot \/ CrashStores \/ (~Forked /\ HealthStart)
     \/ ResetBegin \/ ResetStep
  /\ forgiven' = (forgiven \/ (file.disabled /\ ~file'.disabled))
  /\ UNCHANGED <<profVars, recVars, family, proc, serving, override, procs, requests, last>>

TimePasses ==
  /\ family \in {"life", "users"}
  /\ Later
  /\ UNCHANGED <<profVars, recVars, ownVars>>

-----------------------------------------------------------------------------
(* RINIT *)

\* set: what the directory says of phpray.enabled.  chosen: not the command line, not an
\* ignored address, and drawn in manual mode.
Rinit(set, user, chosen, mode, draw, entry) ==
  LET enabled == IF set = "unset" THEN proc.enabled ELSE set = "on"
      traced == enabled /\ HealthCheck /\ chosen
  IN /\ proc.up /\ serving = 0 /\ requests < MaxRequests
     /\ serving' = user
     /\ override' = set
     /\ requests' = requests + 1
     /\ proc' = [proc EXCEPT !.enabled = enabled]
     /\ RecorderBegin(traced)
     /\ IF traced /\ proc.hooked THEN ProfilerRequestInit(mode, draw, entry)
        ELSE prof' = NoProfile /\ EngineReset /\ UNCHANGED <<cc, calls>>
     /\ last' = NoTrace
     /\ UNCHANGED <<healthVars, family, procs, forgiven>>

\* bound: only the families that are about it vary the settings; "life" has one request.
Begin ==
  \E set \in {"unset", "on", "off"}, user \in Users, chosen, draw, entry \in BOOLEAN,
     mode \in {"off", "all", "sample", "url"} :
    /\ IF family = "life" THEN requests = 0 ELSE set = "unset"
    /\ family = "misc" \/ chosen
    /\ family = "users" \/ user = Min(Users)
    /\ family = "profile" \/ (mode = "off" /\ ~draw /\ ~entry)
    /\ Rinit(set, user, chosen, mode, draw, entry)

-----------------------------------------------------------------------------
(* The script *)

InScript == proc.up /\ serving # 0
Hooked == InScript /\ proc.hooked

Record ==
  /\ \/ family = "db" /\ Hooked /\ \E s \in Statements, d \in Durations : Query(s, d)
     \/ /\ family = "curl" /\ Hooked
        /\ \/ HttpCall
           \/ MultiClose
           \/ \E h \in Handles : MultiAdd(h) \/ MultiInfoRead(h) \/ MultiRemove(h)
     \/ family = "misc" /\ Hooked /\ (FileOp \/ PhpError)
     \/ family = "misc" /\ InScript /\ (RedisCall \/ UserMark)
  /\ UNCHANGED <<profVars, healthVars, ownVars>>

Run ==
  /\ family = "profile" /\ Hooked
  /\ \/ Tick \/ Return \/ LoseFrame \/ SwitchFiber
     \/ \E f \in Files, match \in BOOLEAN : Call(f, match)
  /\ UNCHANGED <<recVars, healthVars, ownVars>>

-----------------------------------------------------------------------------
(* RSHUTDOWN *)

\* Mutant: an open ring is used whoever the process runs as.
RingOfFirstUser(p, user, works) ==
  IF p.ring # 0 THEN p
  ELSE IF p.retryAt > 0 /\ clock < p.retryAt THEN p
  ELSE IF works THEN [p EXCEPT !.ring = user, !.retryAt = 0]
  ELSE [p EXCEPT !.retryAt = clock + RetrySec, !.failed = clock]

\* phpray_ring_current: the ring of this user, opened again when the user has changed and not
\* tried again for a while after a failure.  works: attaching succeeds.
RingCurrent(p, user, works) ==
  LET closed == [p EXCEPT !.ring = 0]
  IN IF p.ring = user THEN p
     ELSE IF p.retryAt > 0 /\ clock < p.retryAt THEN closed
     ELSE IF works THEN [p EXCEPT !.ring = user, !.retryAt = 0]
     ELSE [closed EXCEPT !.retryAt = clock + RetrySec, !.failed = clock]

\* A record that does not fit the larger buffer is dropped without a trace.
Fits(data) == Len(data) <= BufferMax

\* After the request an overridden setting is what it was in the process's configuration.
Restored(p) == [p EXCEPT !.enabled = IF override = "unset" THEN @ ELSE TRUE]

Rshutdown(mode, speed, failed, works) ==
  LET r == FlushTracks(req)
      p == Finished(prof, now)
      comps == IF p.on THEN p.comps ELSE <<>>
      level == TraceLevel(mode, speed, failed, Len(r.errors))
      q == IF proc.out \in {"shm", "both"} THEN RingCurrent(proc, serving, works) ELSE proc
      data == SerializeRequest(r, level, comps, p.on)
      toRing == proc.out \in {"shm", "both"} /\ q.ring # 0 /\ Fits(data)
  IN /\ req.on
     /\ proc' = Restored(q)
     /\ prof' = p
     /\ last' = [line |-> IF proc.out \in {"file", "both"}
                          THEN <<JsonlLine(r, level, comps)>> ELSE <<>>,
                 ring |-> IF toRing THEN <<DeserializeTrace(data, 5)>> ELSE <<>>,
                 to |-> IF toRing THEN q.ring ELSE 0, user |-> serving,
                 early |-> /\ proc.failed > 0 /\ clock < proc.failed + RetrySec
                           /\ q.failed # proc.failed \/ q.ring \notin {0, proc.ring},
                 did |-> did, comps |-> comps, mode |-> mode]

\* bound: only the families that are about it vary the level and the ring.
End ==
  /\ proc.up /\ serving # 0
  /\ \/ \E mode \in {"smart", "all", "manual"}, speed \in Summary .. Alert,
           failed, works \in BOOLEAN :
          /\ family \in {"db", "misc"} \/ (mode = "all" /\ speed = Summary /\ ~failed)
          /\ family = "users" \/ works
          /\ Rshutdown(mode, speed, failed, works)
     \/ /\ ~req.on
        /\ proc' = Restored(proc)
        /\ prof' = [prof EXCEPT !.live = FALSE]
        /\ UNCHANGED last
  /\ serving' = 0 /\ override' = "unset"
  /\ req' = NoRequest
  /\ UNCHANGED <<cc, handlers, slot, frames, running, now, calls, odd, easy, did, healthVars,
                 family, procs, requests, forgiven>>

-----------------------------------------------------------------------------

\* A forked process finds the file as the master's MINIT left it.
Init ==
  /\ ProfilerInit /\ RecorderInit /\ HealthInit
  /\ family \in Families
  /\ proc = NoProcess /\ serving = 0 /\ override = "unset"
  /\ procs = 0 /\ requests = 0
  /\ forgiven = FALSE /\ last = NoTrace

Next ==
  \/ Spawn \/ Stop \/ Die \/ Others \/ TimePasses
  \/ Begin \/ Record \/ Run \/ End

Spec == Init /\ [][Next]_vars

-----------------------------------------------------------------------------
(* Properties *)

\* The types, and that no array holds more than its limit.
TypeOK ==
  /\ serving \in Users \union {0} /\ proc.ring \in Users \union {0}
  /\ file.slot \in 0 .. MaxCrashes /\ DOMAIN file.times = Slots
  /\ Len(req.q.items) = req.q.alloc /\ req.q.alloc <= QueriesMax /\ req.q.count < Width
  /\ Len(req.h.items) = req.h.alloc /\ req.h.alloc <= HttpMax /\ req.h.count < Width
  /\ req.tracked = Cardinality({i \in DOMAIN req.tracks : req.tracks[i].active})
  /\ Len(prof.comps) <= CompMax /\ Len(prof.stack) <= StackMax
  /\ Len(cc.names) < NamesMax
  /\ prof.live => prof.given
  /\ req.on => proc.up /\ serving # 0

\* A process that starts when the file shows too many recent crashes does without hooks, and no
\* other does; its requests are not traced, even where the directory enables the extension, as
\* long as nothing has cleared the flag; however handlers, starts and resets interleave
\* (crash_recovery.c, MINIT and RINIT).
SickProcessInert ==
  proc.up =>
    /\ proc.certain >= Threshold => ~proc.hooked
    /\ ~proc.hooked => proc.possible >= Threshold
    /\ ~proc.hooked /\ req.on => forgiven

\* Crashes within one window, no reset since, among the last the file has room for.
Noted(k) ==
  /\ dying[k].at = "over" /\ log[k].fresh
  /\ k > Cardinality({j \in Crashes : dying[j].at # "none"}) - CrashSlots
TooManyNoted ==
  \E j \in Crashes :
    Cardinality({k \in Crashes : Noted(k) /\ log[k].time \in log[j].time - Window .. log[j].time})
      >= Threshold

\* That many crashes within the window disable the extension until the health file is removed or
\* phpray_health_reset is called, as docs-site/docs/configuration/extension.md:36 has it: no process
\* that begins after them has its hooks (MINIT, phpray_health_init).
DisabledUntilReset == [][~proc.up /\ proc'.up /\ TooManyNoted => ~proc'.hooked]_vars

\* The number of calls with a duration of at least d, and how long all took.
Slow(calls_, d) == Cardinality({i \in DOMAIN calls_ : calls_[i].dur >= d})
Total(calls_) == FoldLeft(LAMBDA x, y : x + y.dur, 0, calls_)

FirstOf(s, n) == SubSeq(s, 1, Min({Len(s), n}))
Plain(s) == [i \in DOMAIN s |-> [what |-> s[i].what, dur |-> s[i].dur]]
Shares(s) == [i \in DOMAIN s |-> <<s[i].name, s[i].incl, s[i].self>>]

\* What a trace t counts and lists in full is what the request x did; a line whose counter of
\* queries shows zero has no total.
CountsTrue(t, x, ring) ==
  LET d == x.did
  IN /\ t.count = Len(d.q) % Width
     /\ t.total = IF ring \/ t.count > 0 THEN Total(d.q) ELSE 0
     /\ t.http = Cardinality(d.http) % Width
     /\ t.files = d.files % Width /\ t.redis = d.redis % Width
     /\ t.marks = FirstOf(d.marks, MarksMax) /\ t.errors = FirstOf(d.errors, ErrorsMax)
     /\ Shares(t.comps) = Shares(x.comps)
     /\ x.mode = "smart" /\ d.errors # <<>> => t.level >= Normal
     /\ t.level < Normal => t.queries = <<>> /\ t.calls = <<>>

\* Each HTTP call up to the limit is there once, under its address.
CallsTrue(t, d) ==
  LET named == {t.calls[i].what : i \in DOMAIN t.calls}
  IN /\ Len(t.calls) = Min({Cardinality(d.http), HttpMax})
     /\ ~d.closed => named \subseteq d.http /\ Cardinality(named) = Len(t.calls)

\* The statements are the ones of the level, and the pattern is told.
QueriesTrue(t, d, ring) ==
  LET kept == FirstOf(d.q, QueriesMax)
      repeated(s) == Cardinality({i \in DOMAIN kept : kept[i].what = s}) > Repeats
  IN /\ t.n1 = \E s \in Statements : repeated(s)
     /\ t.level >= Full => Plain(t.queries) = kept
     /\ t.level = Normal /\ ring => Plain(t.queries) = FirstOf(kept, RingTop)
     /\ t.level = Normal /\ ~ring =>
          /\ Range(Plain(t.queries)) \subseteq Range(kept)
          /\ \A n \in Durations : Slow(t.queries, n) = Min({Slow(kept, n), JsonlTop})

TraceTrue(t, x, ring) ==
  /\ CountsTrue(t, x, ring)
  /\ t.level >= Normal /\ Cardinality(x.did.http) < Width => CallsTrue(t, x.did)
  /\ Len(x.did.q) < Width => QueriesTrue(t, x.did, ring)

\* What the JSONL line and the ring record, written by the extension and read by the collector,
\* tell is what the request did: counters modulo their width, the exact time in the database
\* (which a line leaves out when the 16 bits of the counter are zero), the first calls up to the
\* limits, at the level normal the slowest statements in the line and the first ones in
\* the record, each tracked transfer once and under its own address (its number alone, when a
\* multi handle was closed with a transfer in it), and the components of its profile; nothing of
\* an earlier request of the process is in it.
TraceTellsRequest ==
  /\ \A t \in Range(last.line) : TraceTrue(t, last, FALSE)
  /\ \A t \in Range(last.ring) : TraceTrue(t, last, TRUE)

\* A trace goes to the ring of the user its request ran as, also when the process changes users
\* from one request to the next, and a directory that does not work is not tried again before
\* PHPRAY_RING_RETRY_SEC have passed (phpray_ring_current).
RightRing ==
  /\ last.to # 0 => last.to = last.user
  /\ ~last.early

=============================================================================
