------------------------------- MODULE Profiler -------------------------------
(***************************************************************************)
(* The component profiler of the extension (src/extension/                 *)
(* hooks_profiler.c): which component a file belongs to, the per-process   *)
(* cache of that answer, the component table of a request, and the begin   *)
(* and end handlers that charge time to components.  A file stands for the *)
(* functions it declares: they share its answer.  Left out: call counts,   *)
(* the truncation of long names, and the text of the settings.             *)
(*                                                                         *)
(* The Zend engine is external: it asks for handlers at the first call of  *)
(* a function in a request, calls begin and end for the functions that got *)
(* them, reuses the address of a frame that is gone, skips end when an     *)
(* exception unwinds a generator, and switches between fibers.             *)
(***************************************************************************)
EXTENDS Integers, SequencesExt, FiniteSetsExt

CONSTANTS
  Files,       \* the files of the site: a path is the sequence of its segments
  Home,        \* file -> the cache slot its hash leads to
  CacheSlots,  \* PHPRAY_CLASS_CACHE_SLOTS
  Probes,      \* PHPRAY_CLASS_CACHE_PROBES
  NamesMax,    \* PHPRAY_NAMES_MAX
  CompMax,     \* phpray.profile_max_components, as clamped
  StackMax,    \* PHPRAY_PROFILE_STACK
  MaxCalls,    \* bound: calls a process makes
  MaxTicks,    \* bound: how long a request lasts
  MaxOdd       \* bound: generators unwound and fibers switched to in a request

ASSUME ProfilerAssumption ==
  /\ \A f \in Files : f \in Seq(STRING) \ {<<>>} /\ Home[f] \in 0 .. CacheSlots - 1
  /\ CacheSlots \in Nat \ {0} /\ Probes \in 1 .. CacheSlots
  /\ NamesMax \in Nat \ {0} /\ CompMax \in Nat \ {0} /\ StackMax \in Nat \ {0}
  /\ {MaxCalls, MaxTicks, MaxOdd} \subseteq Nat

Unclassified == <<>>           \* PHPRAY_CLASS_NONE
Other == <<"other">>           \* PHPRAY_PROFILE_OTHER_NAME
NonePidx == NamesMax           \* PHPRAY_PIDX_NONE
Unused == [file |-> <<>>, pidx |-> NonePidx]
Fibers == {"main", "fiber"}

VARIABLES
  cc,        \* the process's class cache: slots, and the table of component names
  prof,      \* req->prof, see NoProfile
  handlers,  \* file -> "unset", "none" or "both": what the engine got in this request
  slot,      \* file -> the op_array extension slot: a component's number, 0 when not set
  frames,    \* engine: fiber -> its open frames
  running,   \* engine: the fiber that runs
  now,       \* the clock, since the request began
  calls,     \* calls of this process
  odd        \* generators unwound and fiber switches of this request

profVars == <<cc, prof, handlers, slot, frames, running, now, calls, odd>>

\* live: PHPRAY_G(profile) is not NULL.  given: req->prof is not NULL.  over: the frames beyond
\* the stack, so stack_len is Len(stack) + over.  busy is a history: the time the stack was not
\* empty.
NoProfile ==
  [live |-> FALSE, given |-> FALSE, on |-> FALSE, pending |-> FALSE,
   map |-> [i \in 0 .. NamesMax - 1 |-> 0], comps |-> <<>>, stack |-> <<>>, over |-> 0,
   overflow |-> FALSE, busy |-> 0]

\* A component of the request.  wasOpen and wasTop are histories: how long a frame of the
\* component was open, and how long it was the innermost observed frame.
NewComp(name) ==
  [name |-> name, depth |-> 0, enter |-> 0, incl |-> 0, self |-> 0, wasOpen |-> 0, wasTop |-> 0]

-----------------------------------------------------------------------------
(* The component of a file, and the process's cache of it *)

\* The first directory from the left that is wp-content or vendor decides.
Classify(path) ==
  LET marks == {i \in 1 .. Len(path) - 1 : path[i] \in {"wp-content", "vendor"}}
      i == Min(marks)
      dir == i + 1 <= Len(path) - 1    \* what follows the mark is a directory too
  IN IF marks = {} \/ ~dir THEN Unclassified
     ELSE IF path[i] = "wp-content"
     THEN IF path[i + 1] \in {"plugins", "themes", "mu-plugins"}
          THEN SubSeq(path, i + 1, i + 2) ELSE Unclassified
     ELSE SubSeq(path, i, IF i + 2 = Len(path) THEN i + 1 ELSE i + 2)

NoCache == [slots |-> [i \in 0 .. CacheSlots - 1 |-> Unused], names |-> <<>>]

Probe(f, n) == (Home[f] + n) % CacheSlots

\* Mutant: the slot's hash is taken for the file.
FindByHash(c, f) ==
  IF c.slots[Home[f]] = Unused THEN {} ELSE {c.slots[Home[f]].pidx}

\* A lookup stops at the first unused slot.
Find(c, f) ==
  {c.slots[Probe(f, n)].pidx : n \in
     {n \in 0 .. Probes - 1 : /\ c.slots[Probe(f, n)].file = f
                              /\ \A k \in 0 .. n : c.slots[Probe(f, k)] # Unused}}

\* The first unused slot of the probe sequence, or the home slot, whose entry is evicted.
Insert(c, f, pidx) ==
  LET free == {n \in 0 .. Probes - 1 : c.slots[Probe(f, n)] = Unused}
      n == IF free = {} THEN 0 ELSE Min(free)
  IN [c EXCEPT !.slots[Probe(f, n)] = [file |-> f, pidx |-> pidx]]

\* The last name of the process's table is "other".
NameOf(c, pidx) == IF pidx = NamesMax - 1 THEN Other ELSE c.names[pidx + 1]

Intern(c, name) ==
  IF name \in Range(c.names) \/ Len(c.names) = NamesMax - 1
  THEN c ELSE [c EXCEPT !.names = Append(@, name)]

PidxOf(c, name) ==
  IF name \in Range(c.names)
  THEN (CHOOSE i \in DOMAIN c.names : c.names[i] = name) - 1 ELSE NamesMax - 1

\* The component of the request for a name; the last one takes all that finds no room.
CompForPidx(p, c, pidx) ==
  LET last == CompMax - 1
      count == Len(p.comps)
  IN IF p.map[pidx] # 0 THEN p
     ELSE IF count < last
     THEN [p EXCEPT !.comps = Append(@, NewComp(NameOf(c, pidx))), !.map[pidx] = count + 1]
     ELSE [p EXCEPT !.comps = IF count = last THEN Append(@, NewComp(Other)) ELSE @,
                    !.map[pidx] = CompMax]

\* The class cache after a file has been looked up in it.
Looked(f) ==
  LET name == Classify(f)
      c == IF name = Unclassified THEN cc ELSE Intern(cc, name)
  IN IF Find(cc, f) # {} THEN cc
     ELSE Insert(c, f, IF name = Unclassified THEN NonePidx ELSE PidxOf(c, name))

PidxFor(f) ==
  IF Find(cc, f) # {} THEN CHOOSE x \in Find(cc, f) : TRUE
  ELSE IF Classify(f) = Unclassified THEN NonePidx ELSE PidxOf(Looked(f), Classify(f))

-----------------------------------------------------------------------------
(* Charging time *)

\* Close a component's outermost frame.
Leave(comp, t) ==
  [comp EXCEPT !.depth = IF @ > 0 THEN @ - 1 ELSE 0,
               !.incl = IF comp.depth = 1 THEN @ + (t - comp.enter) ELSE @]

\* Pop the innermost recorded frame at time t.
Pop(p, t) ==
  LET n == Len(p.stack)
      f == p.stack[n]
      d == t - f.start
      own == IF d > f.child THEN d - f.child ELSE 0
      comp == Leave(p.comps[f.comp], t)
      below == Front(p.stack)
  IN [p EXCEPT !.comps[f.comp] = [comp EXCEPT !.self = @ + own],
               !.stack = IF n = 1 THEN below ELSE [below EXCEPT ![n - 1].child = @ + d]]

\* Pop frames until k are left.
PopTo(p, k, t) == FoldLeft(LAMBDA q, i : Pop(q, t), p, [i \in 1 .. Len(p.stack) - k |-> i])

\* Mutant: a recursive call starts the component's time again.
EnterAgain(p, ed, c, t) ==
  LET comp == p.comps[c]
      q == [p EXCEPT !.comps[c] = [comp EXCEPT !.depth = @ + 1, !.enter = t]]
  IN IF Len(p.stack) + p.over < StackMax
     THEN [q EXCEPT !.stack = Append(@, [ed |-> ed, start |-> t, child |-> 0, comp |-> c])]
     ELSE [q EXCEPT !.over = @ + 1, !.overflow = TRUE]

Enter(p, ed, c, t) ==
  LET comp == p.comps[c]
      q == [p EXCEPT !.comps[c] = [comp EXCEPT !.depth = @ + 1,
                                               !.enter = IF comp.depth = 0 THEN t ELSE @]]
  IN IF Len(p.stack) + p.over < StackMax
     THEN [q EXCEPT !.stack = Append(@, [ed |-> ed, start |-> t, child |-> 0, comp |-> c])]
     ELSE [q EXCEPT !.over = @ + 1, !.overflow = TRUE]

\* The decision of url mode and of an entry of the control table, put off to the first
\* observed call: only then is the address of the request known.
ProfileDecide(p, match) == [p EXCEPT !.pending = FALSE, !.on = match, !.live = match]

ObserverBegin(p, ed, c, t, match) ==
  LET q == IF p.pending THEN ProfileDecide(p, match) ELSE p
  IN IF ~p.live THEN p ELSE IF ~q.on \/ c = 0 THEN q ELSE Enter(q, ed, c, t)

\* The frame that ends is the last one with its address; frames above it are orphans.
ObserverEnd(p, ed, c, t) ==
  LET at == {i \in DOMAIN p.stack : p.stack[i].ed = ed}
      left == [p.comps EXCEPT ![c] = Leave(p.comps[c], t)]
  IN IF ~p.live \/ ~p.on \/ Len(p.stack) + p.over = 0 THEN p
     ELSE IF p.over > 0
     THEN [p EXCEPT !.comps = IF c = 0 THEN @ ELSE left, !.over = @ - 1]
     ELSE IF at = {} THEN p ELSE PopTo(p, Max(at) - 1, t)

-----------------------------------------------------------------------------
(* The engine and the life of a request *)

NoFrames == [b \in Fibers |-> <<>>]

ProfilerInit ==
  /\ cc = NoCache
  /\ prof = NoProfile
  /\ handlers = [f \in Files |-> "unset"] /\ slot = [f \in Files |-> 0]
  /\ frames = NoFrames /\ running = "main"
  /\ now = 0 /\ calls = 0 /\ odd = 0

\* The run-time caches are new, nothing runs, and the clock starts again.
EngineReset ==
  /\ handlers' = [f \in Files |-> "unset"] /\ slot' = [f \in Files |-> 0]
  /\ frames' = NoFrames /\ running' = "main"
  /\ now' = 0 /\ odd' = 0

\* RINIT's part.  draw: the random number is below the sample rate.  entry: the control table
\* has an active entry for the document root, which is asked only when the mode says no.
ProfilerRequestInit(mode, draw, entry) ==
  LET on == mode = "all" \/ (mode = "sample" /\ draw)
      pending == mode = "url" \/ (~on /\ entry)
  IN /\ prof' = IF on \/ pending
                THEN [NoProfile EXCEPT !.live = TRUE, !.given = TRUE, !.on = on,
                                       !.pending = pending]
                ELSE NoProfile
     /\ EngineReset
     /\ UNCHANGED <<cc, calls>>

FreeEd == Min((1 .. MaxCalls) \ {fr.ed : fr \in UNION {Range(frames[b]) : b \in Fibers}})

\* A function of file f is called; match: the address of the request is one to profile.
Call(f, match) ==
  LET ask == handlers[f] = "unset" /\ prof.live
      c == IF ask THEN Looked(f) ELSE cc
      pidx == PidxFor(f)
      observed == IF ask THEN pidx # NonePidx ELSE handlers[f] = "both"
      p == IF ask /\ observed THEN CompForPidx(prof, c, pidx) ELSE prof
      s == IF ask /\ observed THEN p.map[pidx] ELSE slot[f]
  IN /\ calls < MaxCalls
     /\ calls' = calls + 1
     /\ cc' = c
     /\ slot' = [slot EXCEPT ![f] = s]
     /\ handlers' = [handlers EXCEPT ![f] = IF observed THEN "both" ELSE "none"]
     /\ prof' = IF observed THEN ObserverBegin(p, FreeEd, s, now, match) ELSE p
     /\ frames' = [frames EXCEPT ![running] =
                     Append(@, [ed |-> FreeEd, file |-> f, seen |-> observed /\ prof'.on])]
     /\ UNCHANGED <<running, now, odd>>

\* The innermost frame of the running fiber returns, or an exception leaves it.
Return ==
  LET fr == Last(frames[running])
  IN /\ frames[running] # <<>>
     /\ frames' = [frames EXCEPT ![running] = Front(@)]
     /\ prof' = IF handlers[fr.file] = "both" THEN ObserverEnd(prof, fr.ed, slot[fr.file], now)
                ELSE prof
     /\ UNCHANGED <<cc, handlers, slot, running, now, calls, odd>>

\* An exception unwinds a generator: end is not called.
LoseFrame ==
  /\ odd < MaxOdd
  /\ frames[running] # <<>>
  /\ frames' = [frames EXCEPT ![running] = Front(@)]
  /\ odd' = odd + 1
  /\ UNCHANGED <<cc, prof, handlers, slot, running, now, calls>>

SwitchFiber ==
  /\ odd < MaxOdd
  /\ running' \in Fibers \ {running}
  /\ odd' = odd + 1
  /\ UNCHANGED <<cc, prof, handlers, slot, frames, now, calls>>

\* The components with an observed frame open, and the one whose frame is the innermost.
OpenComps == {slot[fr.file] : fr \in {x \in UNION {Range(frames[b]) : b \in Fibers} : x.seen}}
TopComp ==
  LET seen == {i \in DOMAIN frames[running] : frames[running][i].seen}
  IN IF seen = {} THEN 0 ELSE slot[frames[running][Max(seen)].file]

Tick ==
  /\ now < MaxTicks
  /\ now' = now + 1
  /\ LET used(c) == [prof.comps[c] EXCEPT !.wasOpen = IF c \in OpenComps THEN @ + 1 ELSE @,
                                          !.wasTop = IF c = TopComp THEN @ + 1 ELSE @]
     IN prof' = [prof EXCEPT !.busy = IF prof.stack = <<>> THEN @ ELSE @ + 1,
                             !.comps = [c \in DOMAIN prof.comps |-> used(c)]]
  /\ UNCHANGED <<cc, handlers, slot, frames, running, calls, odd>>

\* Insertion sort by inclusive time, largest first.
SortComponents(comps) ==
  FoldLeft(LAMBDA s, c : InsertAt(s, 1 + Cardinality({i \in DOMAIN s : s[i].incl >= c.incl}), c),
           <<>>, comps)

\* RSHUTDOWN's part: what is still open is closed now.
Finished(p, t) ==
  LET q == PopTo([p EXCEPT !.over = 0], 0, t)
      close(c) == [c EXCEPT !.incl = IF c.depth > 0 THEN @ + (t - c.enter) ELSE @, !.depth = 0]
      guard(c) == [c EXCEPT !.self = IF @ > c.incl THEN c.incl ELSE @]
      closed == [i \in DOMAIN q.comps |-> guard(close(q.comps[i]))]
  IN IF ~p.on THEN [p EXCEPT !.live = FALSE]
     ELSE [q EXCEPT !.live = FALSE, !.comps = SortComponents(closed)]

-----------------------------------------------------------------------------
(* Properties *)

\* What the innermost stretch of each open recorded frame adds to its component's own time.
OpenSelf(p, c, t) ==
  LET until(i) == IF i = Len(p.stack) THEN t ELSE p.stack[i + 1].start
      stretch == [i \in DOMAIN p.stack |-> until(i) - p.stack[i].start - p.stack[i].child]
  IN SumFunctionOnSet(stretch, {i \in DOMAIN p.stack : p.stack[i].comp = c})

\* A profile tells the truth.  As long as frames end in order (no generator lost, no fiber),
\* the inclusive time of each component is exactly the time one of its frames was open, also
\* beyond the stack's limit, and its own time is exactly the time it ran innermost, unless the
\* stack was too small.  Even when frames end out of order, the depth of a component is the
\* number of its recorded frames and the own times add up to the time anything was observed, no
\* more; then, or when both go wrong at once, a component never goes past the time elapsed.
ProfileExact ==
  LET open(c) == IF c.depth > 0 THEN now - c.enter ELSE 0
      comps == prof.comps
      self == [c \in DOMAIN comps |-> comps[c].self + OpenSelf(prof, c, now)]
  IN prof.on =>
     /\ odd = 0 => \A c \in DOMAIN comps : comps[c].incl + open(comps[c]) = comps[c].wasOpen
     /\ odd = 0 /\ ~prof.overflow => \A c \in DOMAIN comps : self[c] = comps[c].wasTop
     /\ ~prof.overflow /\ prof.live =>
          /\ \A c \in DOMAIN comps :
               comps[c].depth = Cardinality({i \in DOMAIN prof.stack : prof.stack[i].comp = c})
          /\ SumFunction(self) = prof.busy
     /\ ~prof.live => \A c \in DOMAIN comps : comps[c].self <= comps[c].incl /\ comps[c].incl <= now

\* Time is charged to the component of the file that runs.  A file outside the four component
\* directories gets no handlers, however the cache was filled, evicted and probed; any other
\* gets the component of its name, or "other" only when a table is full; a cached answer is the
\* answer the path gives; and an entry stays reachable by its probes.
RightComponent ==
  /\ \A f \in Files :
       handlers[f] = "both" =>
         /\ Classify(f) # Unclassified
         /\ prof.live => LET name == prof.comps[slot[f]].name
                         IN \/ name = Classify(f)
                            \/ name = Other /\ (Len(cc.names) = NamesMax - 1
                                                \/ Len(prof.comps) = CompMax)
  /\ \A i \in DOMAIN cc.slots :
       LET e == cc.slots[i]
       IN e # Unused =>
            /\ IF e.pidx = NonePidx THEN Classify(e.file) = Unclassified
               ELSE NameOf(cc, e.pidx) \in {Classify(e.file), Other}
            /\ Find(cc, e.file) # {}

\* Both together: a profile charges the right time, and to the right component.
ProfileTruthful == ProfileExact /\ RightComponent

=============================================================================
