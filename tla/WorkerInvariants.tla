---------------------------- MODULE WorkerInvariants ----------------------------
(***************************************************************************)
(* What the proofs about a PHP process speak of: the inductive invariants, *)
(* and what the operators of the extension do to the state they keep.      *)
(*                                                                         *)
(*   HealthInv, StartInv   the health file and the looks at it             *)
(*   RetryInv              the attempts to attach to a ring                *)
(*   WorkerInv             the shapes of the processes and their requests  *)
(*   ProfilerInv           the profiler and the engine it observes         *)
(*   RecordInv             what a request remembers, and what it did       *)
(*                                                                         *)
(* The other definitions name one relation each between the state before   *)
(* an operator of the extension and its result (Unwound, Flushed, ...), or *)
(* between what is written to a ring and what is read (Writable, Laid,     *)
(* TellsBack, ...).                                                        *)
(***************************************************************************)
EXTENDS PhpWorker

-----------------------------------------------------------------------------
(* The health file.                                                        *)

HealthOK ==
  /\ file \in [times : [Slots -> Nat], slot : Nat, disabled : BOOLEAN]
  /\ clock \in Nat \ {0}
  /\ dying \in [Crashes -> [at : {"none", "store", "over"}, slot : Slots]]
  /\ resetting \in 0 .. 2 + CrashSlots
  /\ log \in [Crashes -> [time : Nat, fresh : BOOLEAN]]

\* The crashes that have taken a slot are the first n.
TakenUpTo(n) == \A k \in Crashes : dying[k].at # "none" <=> k <= n

\* The slot a crash took lies as far behind the file's slot as there were crashes since, unless
\* a reset may have set that back.
SlotsInv ==
  \E n \in 0 .. MaxCrashes :
    /\ TakenUpTo(n)
    /\ file.slot <= n
    /\ \A k \in Crashes : log[k].fresh =>
         /\ resetting = 0 /\ k <= n /\ n - k < file.slot
         /\ dying[k].slot = (file.slot - (n - k + 1)) % CrashSlots

\* A time in the file is that of a crash; the time of a crash no reset has touched is there, or
\* a later one.
TimesInv ==
  /\ \A k \in Crashes : dying[k].at = "over" => log[k].time \in 1 .. clock
  /\ \A k \in Crashes : dying[k].at = "over" /\ log[k].fresh =>
       file.times[dying[k].slot] >= log[k].time
  /\ \A i \in Slots : file.times[i] > 0 =>
       \E k \in Crashes :
         dying[k].at = "over" /\ dying[k].slot = i /\ log[k].time = file.times[i]

HealthInv == HealthOK /\ SlotsInv /\ TimesInv

-----------------------------------------------------------------------------
(* What a process knows of its start, and the ring it writes to.           *)

\* What a process that has started knows of the crashes before.
StartInv ==
  proc.up =>
    /\ ~Forked /\ proc.certain >= Threshold => ~proc.hooked
    /\ ~proc.hooked =>
         /\ proc.possible >= Threshold
         /\ ~forgiven => file.disabled
         /\ req.on => forgiven

Procs ==
  [up : BOOLEAN, enabled : BOOLEAN, hooked : BOOLEAN, out : {"file", "shm", "both"},
   ring : Users \union {0}, retryAt : Nat, failed : Nat, certain : Nat, possible : Nat]

ProcOK ==
  /\ proc \in Procs
  /\ serving \in Users \union {0}
  /\ override \in {"unset", "on", "off"}
  /\ forgiven \in BOOLEAN
  /\ req.on => proc.up /\ serving # 0

\* The next attempt is a full wait after the last failure, also once one has succeeded.
RetryInv ==
  /\ proc.retryAt > 0 => proc.failed > 0 /\ proc.retryAt = proc.failed + RetrySec
  /\ proc.failed > 0 /\ proc.retryAt = 0 => proc.failed + RetrySec <= clock

\* A step of the clock or of the health file.
HealthStep ==
  \/ Later \/ CrashTakesSlot \/ CrashStores \/ HealthStart \/ ResetBegin \/ ResetStep
  \/ UNCHANGED healthVars

-----------------------------------------------------------------------------
(* A request.                                                              *)

Entry == [what : Nat, dur : Nat, bt : Nat]

Lists == [count : Nat, alloc : Nat, items : Seq(Entry), total : Nat]

\* An array holds as many entries as were allocated, and no more than its limit.
ListOK(l, max) ==
  /\ l \in Lists
  /\ l.count < Width /\ Len(l.items) = l.alloc /\ l.alloc <= max

Tracks == [active : BOOLEAN, easy : Handles \union {0}, url : Nat]

ActiveTracks(r) == {i \in DOMAIN r.tracks : r.tracks[i].active}

Requests ==
  [on : BOOLEAN, q : Lists, h : Lists, marks : Seq(Nat), errors : Seq(Nat), files : Nat,
   redis : Nat, tracks : [1 .. MultiMax -> Tracks], tracked : Nat]

IsRequest(r) ==
  /\ r \in Requests
  /\ ListOK(r.q, QueriesMax) /\ ListOK(r.h, HttpMax)
  /\ r.tracked = Cardinality(ActiveTracks(r))

DidOK ==
  did \in [ops : Nat, q : Seq([what : Nat, dur : Nat]), http : SUBSET Nat, marks : Seq(Nat),
           errors : Seq(Nat), files : Nat, redis : Nat, closed : BOOLEAN]

EasyOK == easy \in [Handles -> [in : BOOLEAN, url : Nat]]

RecorderOK == IsRequest(req) /\ DidOK /\ EasyOK

ActiveIn(t) == {i \in 1 .. MultiMax : t[i].active}

WithTracks(r, t, n) == [r EXCEPT !.tracks = t, !.tracked = n]

WorkerInv == HealthInv /\ RecorderOK /\ ProcOK /\ RetryInv /\ RightRing

-----------------------------------------------------------------------------
(* The profiler: shapes.                                                   *)

\* The names a component may have.
Names == {Classify(f) : f \in Files} \union {Other}

Comps ==
  [name : Names, depth : Nat, enter : Nat, incl : Nat, self : Nat, wasOpen : Nat, wasTop : Nat]

Recorded == [ed : 1 .. MaxCalls, start : Nat, child : Nat, comp : 1 .. CompMax]

Profiles ==
  [live : BOOLEAN, given : BOOLEAN, on : BOOLEAN, pending : BOOLEAN, overflow : BOOLEAN,
   map : [0 .. NamesMax - 1 -> 0 .. CompMax], comps : Seq(Comps), stack : Seq(Recorded),
   over : Nat, busy : Nat]

Frames == [ed : 1 .. MaxCalls, file : Files, seen : BOOLEAN]

\* The arrays are within their limits, and what points into the table of components does.
Limits(p) ==
  /\ p \in Profiles
  /\ Len(p.comps) <= CompMax /\ Len(p.stack) <= StackMax
  /\ \A i \in DOMAIN p.stack : p.stack[i].comp <= Len(p.comps)
  /\ \A x \in DOMAIN p.map : p.map[x] <= Len(p.comps)
  /\ p.over > 0 => p.overflow /\ Len(p.stack) = StackMax

\* The times of a component are behind t.
Behind(c, t) ==
  IF c.depth > 0 THEN c.incl <= c.enter /\ c.enter <= t ELSE c.incl <= t

\* No time of a profile lies ahead of t; the frames follow each other.
TimesOK(p, t) ==
  /\ \A c \in DOMAIN p.comps : Behind(p.comps[c], t)
  /\ \A i \in DOMAIN p.stack :
       p.stack[i].start + p.stack[i].child <= IF i = Len(p.stack) THEN t ELSE p.stack[i + 1].start

Of(p, c) == {i \in DOMAIN p.stack : p.stack[i].comp = c}

DepthsOK(p) == \A c \in DOMAIN p.comps : p.comps[c].depth = Cardinality(Of(p, c))

-----------------------------------------------------------------------------
(* The profiler: invariants.                                               *)

\* The stages of a profile.
StageOK ==
  /\ prof.live => prof.given /\ serving # 0
  /\ prof.pending => ~prof.on
  /\ serving # 0 /\ prof.pending => prof.live
  /\ prof.live => prof.on \/ prof.pending
  /\ serving # 0 /\ prof.on => prof.live
  /\ prof.live => req.on
  /\ ~prof.on => prof.stack = <<>> /\ prof.over = 0
  /\ ~prof.live => prof.stack = <<>>
  /\ prof.on /\ ~prof.live =>
       \A c \in DOMAIN prof.comps :
         prof.comps[c].depth = 0 /\ prof.comps[c].self <= prof.comps[c].incl

EngineOK ==
  /\ handlers \in [Files -> {"unset", "none", "both"}]
  /\ slot \in [Files -> 0 .. CompMax]
  /\ frames \in [Fibers -> Seq(Frames)]
  /\ running \in Fibers
  /\ now \in Nat /\ calls \in 0 .. MaxCalls /\ odd \in Nat
  /\ Len(frames["main"]) + Len(frames["fiber"]) <= calls
  /\ serving # 0 => \A b \in Fibers : \A i \in DOMAIN frames[b] :
       LET x == frames[b][i]
       IN /\ handlers[x.file] # "unset"
          /\ x.seen => prof.on /\ handlers[x.file] = "both"
          /\ prof.on /\ handlers[x.file] = "both" => x.seen
  /\ prof.pending => \A f \in Files : handlers[f] # "both"

\* The seen frames among the frames of a fiber, and how many of them there are up to one.
SeenIn(fs) == {i \in DOMAIN fs : fs[i].seen}

Rank(fs, i) == Cardinality({j \in SeenIn(fs) : j <= i})

Under(fs, sl, c) == {i \in SeenIn(fs) : sl[fs[i].file] = c}

\* A profile knows the seen frames fs of the one fiber, when sl is the functions' slots.
Mirrors(p, fs, sl) ==
  /\ Len(p.stack) + p.over = Cardinality(SeenIn(fs))
  /\ \A i \in SeenIn(fs) : Rank(fs, i) <= Len(p.stack) =>
       /\ p.stack[Rank(fs, i)].ed = fs[i].ed
       /\ p.stack[Rank(fs, i)].comp = sl[fs[i].file]
  /\ \A c \in DOMAIN p.comps :
       p.comps[c].depth = Cardinality(Under(fs, sl, c))

\* As long as frames end in order the profile knows the seen frames.
MirrorOK ==
  odd = 0 =>
    /\ running = "main" /\ frames["fiber"] = <<>>
    /\ prof.live => Mirrors(prof, frames["main"], slot)

\* The accounts: what a component was charged is what it used, o being zero as long as frames
\* end in order.
InclOf(c, t) == c.incl + (IF c.depth > 0 THEN t - c.enter ELSE 0)

Own(p, c, t) == p.comps[c].self + OpenSelf(p, c, t)

Accounts(p, t, o) ==
  /\ o = 0 => \A c \in DOMAIN p.comps :
       /\ InclOf(p.comps[c], t) = p.comps[c].wasOpen
       /\ p.comps[c].wasTop <= p.comps[c].wasOpen
       /\ ~p.overflow => Own(p, c, t) = p.comps[c].wasTop
  /\ p.live /\ ~p.overflow => SumFunction([c \in DOMAIN p.comps |-> Own(p, c, t)]) = p.busy

Ledger(p, t, o) ==
  /\ Limits(p) /\ TimesOK(p, t)
  /\ p.on \/ p.live => Accounts(p, t, o)
  /\ p.live /\ ~p.overflow => DepthsOK(p)

\* The cache: every entry can be found and tells the component of its file.
Tells(c, pidx, f) ==
  IF Classify(f) = Unclassified THEN pidx = NonePidx
  ELSE \/ pidx \in 0 .. Len(c.names) - 1 /\ c.names[pidx + 1] = Classify(f)
       \/ pidx = NamesMax - 1 /\ Len(c.names) = NamesMax - 1

Caches ==
  [slots : [0 .. CacheSlots - 1 -> [file : Files \union {<<>>}, pidx : 0 .. NamesMax]],
   names : Seq(Names)]

\* The probes for the file of entry i lead to it.
Reached(c, i) ==
  \E n \in 0 .. Probes - 1 :
    /\ Probe(c.slots[i].file, n) = i
    /\ \A k \in 0 .. n : c.slots[Probe(c.slots[i].file, k)] # Unused

GoodCache(c) ==
  /\ c \in Caches /\ Len(c.names) < NamesMax
  /\ \A i \in 0 .. CacheSlots - 1 : c.slots[i] # Unused =>
       /\ c.slots[i].file \in Files
       /\ Tells(c, c.slots[i].pidx, c.slots[i].file)
       /\ Reached(c, i)

\* The last component there can be takes the others.
LastOther(p) == Len(p.comps) = CompMax => p.comps[CompMax].name = Other

\* The table of components of a request and the slots of its functions: c is the cache, h what
\* the engine got and sl the slots.
Belongs(c, p, f, k) ==
  LET name == p.comps[k].name
  IN \/ name = Classify(f)
     \/ name = Other /\ (Len(c.names) = NamesMax - 1 \/ Len(p.comps) = CompMax)

TableOf(c, p, h, sl) ==
  /\ p.live =>
       /\ LastOther(p)
       /\ \A x \in 0 .. NamesMax - 1 : p.map[x] # 0 =>
            /\ x < Len(c.names) \/ (x = NamesMax - 1 /\ Len(c.names) = NamesMax - 1)
            /\ \/ p.comps[p.map[x]].name = NameOf(c, x)
               \/ p.comps[p.map[x]].name = Other /\ Len(p.comps) = CompMax
  /\ \A f \in Files : h[f] = "both" =>
       /\ Classify(f) # Unclassified
       /\ p.live => sl[f] \in DOMAIN p.comps /\ Belongs(c, p, f, sl[f])

ProfilerInv ==
  /\ Ledger(prof, now, odd) /\ StageOK /\ EngineOK /\ MirrorOK /\ GoodCache(cc)
  /\ TableOf(cc, prof, handlers, slot)

-----------------------------------------------------------------------------
(* The profiler: what a step does to a profile.                            *)

\* What opening and closing frames at time t keeps of a profile: the accounts above all.
Unwound(p, q, t) ==
  /\ Limits(q) /\ TimesOK(q, t)
  /\ q.live = p.live /\ q.given = p.given /\ q.on = p.on /\ q.pending = p.pending
  /\ q.map = p.map /\ q.busy = p.busy
  /\ Len(q.comps) = Len(p.comps)
  /\ \A c \in DOMAIN p.comps :
       /\ q.comps[c].name = p.comps[c].name
       /\ q.comps[c].wasOpen = p.comps[c].wasOpen /\ q.comps[c].wasTop = p.comps[c].wasTop
       /\ InclOf(q.comps[c], t) = InclOf(p.comps[c], t)
       /\ Own(q, c, t) = Own(p, c, t)

Closed(p, q, t) ==
  /\ Unwound(p, q, t)
  /\ q.overflow = p.overflow /\ q.over = p.over
  /\ Len(q.stack) <= Len(p.stack)
  /\ \A i \in DOMAIN q.stack : q.stack[i].ed = p.stack[i].ed /\ q.stack[i].comp = p.stack[i].comp
  /\ DepthsOK(p) => DepthsOK(q)

\* What the frames of a profile add to the components' own times.
Stretch(p, t) ==
  [i \in DOMAIN p.stack |->
     (IF i = Len(p.stack) THEN t ELSE p.stack[i + 1].start) - p.stack[i].start - p.stack[i].child]

\* What Pop does to the stack of n frames, x the last one, and to the components.
PopResult(p, q, t, n, x, d) ==
  /\ n = Len(p.stack) /\ x = p.stack[n] /\ d = t - x.start
  /\ n \in Nat \ {0} /\ x \in Recorded /\ x.comp \in DOMAIN p.comps
  /\ x.start \in Nat /\ x.child \in Nat
  /\ d \in Nat /\ d - x.child \in Nat
  /\ DOMAIN q.comps = DOMAIN p.comps /\ Len(q.comps) = Len(p.comps)
  /\ q.comps \in Seq(Comps)
  /\ q.comps[x.comp] = [Leave(p.comps[x.comp], t) EXCEPT !.self = @ + (d - x.child)]
  /\ \A c \in DOMAIN p.comps : c # x.comp => q.comps[c] = p.comps[c]
  /\ q.stack \in Seq(Recorded) /\ Len(q.stack) = n - 1
  /\ \A i \in 1 .. n - 1 :
       /\ q.stack[i].ed = p.stack[i].ed /\ q.stack[i].start = p.stack[i].start
       /\ q.stack[i].comp = p.stack[i].comp
       /\ q.stack[i].child = (IF i = n - 1 THEN p.stack[i].child + d ELSE p.stack[i].child)
  /\ q = [p EXCEPT !.comps = q.comps, !.stack = q.stack]

Opened(p, q, c, t) ==
  /\ Unwound(p, q, t)
  /\ \A k \in DOMAIN p.comps :
       q.comps[k].depth = p.comps[k].depth + (IF k = c THEN 1 ELSE 0)
  /\ ~q.overflow /\ DepthsOK(p) => DepthsOK(q)

\* The frame is recorded when there is room.
OnStack(p, q, ed, c) ==
  LET n == Len(p.stack)
  IN IF n + p.over < StackMax
     THEN /\ q.over = p.over /\ q.overflow = p.overflow
          /\ Len(q.stack) = n + 1 /\ q.stack[n + 1].ed = ed /\ q.stack[n + 1].comp = c
          /\ \A i \in 1 .. n : q.stack[i] = p.stack[i]
     ELSE q.over = p.over + 1 /\ q.overflow /\ q.stack = p.stack

\* A frame of component c is closed.
Lowered(p, q, c) ==
  \A k \in DOMAIN p.comps :
    q.comps[k].depth = (IF k = c /\ p.comps[k].depth > 0 THEN p.comps[k].depth - 1
                        ELSE p.comps[k].depth)

\* What the end handler keeps, and what it does to the innermost frame.
Ended(p, q, ed, c, t) ==
  LET n == Len(p.stack)
  IN /\ Unwound(p, q, t) /\ q.overflow = p.overflow
     /\ ~p.overflow /\ DepthsOK(p) => DepthsOK(q)
     /\ Len(q.stack) <= n /\ q.over <= p.over
     /\ p.live /\ p.on /\ p.over > 0 =>
          q.over = p.over - 1 /\ q.stack = p.stack /\ Lowered(p, q, c)
     /\ p.live /\ p.on /\ p.over = 0 /\ n > 0 /\ p.stack[n].ed = ed =>
          /\ q.over = 0 /\ Len(q.stack) = n - 1 /\ Lowered(p, q, p.stack[n].comp)
          /\ \A i \in 1 .. n - 1 :
               q.stack[i].ed = p.stack[i].ed /\ q.stack[i].comp = p.stack[i].comp

\* A component is added to a profile.
Added(p, q, name, x, t, o) ==
  LET n == Len(p.comps)
  IN /\ Ledger(q, t, o) /\ q.stack = p.stack /\ q.over = p.over /\ q.overflow = p.overflow
     /\ q.live = p.live /\ q.given = p.given /\ q.on = p.on /\ q.pending = p.pending
     /\ q.busy = p.busy /\ q.map = [p.map EXCEPT ![x] = n + 1]
     /\ Len(q.comps) = n + 1 /\ q.comps[n + 1] = NewComp(name)
     /\ \A c \in DOMAIN p.comps : q.comps[c] = p.comps[c]

\* What making room for the component x of the process's table c changes.
Roomed(p, q, c, x, t, o) ==
  /\ Ledger(q, t, o) /\ LastOther(q)
  /\ q.stack = p.stack /\ q.over = p.over /\ q.overflow = p.overflow /\ q.live = p.live
  /\ q.given = p.given /\ q.on = p.on /\ q.pending = p.pending /\ q.busy = p.busy
  /\ Len(p.comps) <= Len(q.comps)
  /\ \A k \in DOMAIN p.comps : q.comps[k] = p.comps[k]
  /\ \A k \in DOMAIN q.comps : k \notin DOMAIN p.comps => q.comps[k].depth = 0
  /\ q.map[x] \in DOMAIN q.comps
  /\ \A y \in 0 .. NamesMax - 1 : y # x => q.map[y] = p.map[y]
  /\ p.map[x] # 0 => q.map[x] = p.map[x]
  /\ p.map[x] = 0 =>
       LET name == q.comps[q.map[x]].name
       IN name = NameOf(c, x) \/ (name = Other /\ Len(q.comps) = CompMax)

\* A seen frame x of component c comes on top of the frames fs of a profile p, which becomes q.
Topped(p, q, fs, x, sl, c) ==
  /\ Limits(p) /\ Mirrors(p, fs, sl)
  /\ fs \in Seq(Frames) /\ x \in Frames /\ x.seen /\ c = sl[x.file]
  /\ OnStack(p, q, x.ed, c) /\ DOMAIN q.comps = DOMAIN p.comps
  /\ \A k \in DOMAIN p.comps : q.comps[k].depth = p.comps[k].depth + (IF k = c THEN 1 ELSE 0)

\* The decision is taken.
Begun(p, q, ed, c, t, o, match) ==
  /\ Ledger(q, t, o) /\ q.given = p.given /\ q.map = p.map
  /\ Len(q.comps) = Len(p.comps)
  /\ \A k \in DOMAIN p.comps : q.comps[k].name = p.comps[k].name
  /\ ~q.pending /\ q.on = (IF p.pending THEN match ELSE TRUE) /\ q.live = q.on
  /\ q.on => /\ OnStack(p, q, ed, c)
             /\ \A k \in DOMAIN p.comps :
                  q.comps[k].depth = p.comps[k].depth + (IF k = c THEN 1 ELSE 0)
  /\ ~q.on => q.stack = p.stack /\ q.over = p.over

\* The table of names only grows.
Grown(c, d) ==
  /\ Len(c.names) <= Len(d.names) /\ Len(d.names) < NamesMax
  /\ \A i \in DOMAIN c.names : d.names[i] = c.names[i]

\* A step of the insertion sort.
Placed(s, c) == InsertAt(s, 1 + Cardinality({i \in DOMAIN s : s[i].incl >= c.incl}), c)

\* A component when the request is over.
FinalOf(c, t) ==
  LET d == [c EXCEPT !.incl = IF c.depth > 0 THEN @ + (t - c.enter) ELSE @, !.depth = 0]
  IN [d EXCEPT !.self = IF @ > d.incl THEN d.incl ELSE @]

\* What becomes of it.
Concluded(c, e, t) ==
  /\ e \in Comps /\ e.depth = 0 /\ e.incl = InclOf(c, t) /\ e.incl <= t
  /\ e.self = (IF c.self > e.incl THEN e.incl ELSE c.self)
  /\ e.name = c.name /\ e.wasOpen = c.wasOpen /\ e.wasTop = c.wasTop

\* What is true of a component when the request is over.
Final(t, o, overflow) ==
  {c \in Comps :
     /\ c.depth = 0 /\ c.incl <= t /\ c.self <= c.incl
     /\ o = 0 => /\ c.incl = c.wasOpen /\ c.wasTop <= c.wasOpen
                 /\ ~overflow => c.self = c.wasTop}

\* What the end of a request leaves of a profile.
Over(p, q, t, o) ==
  /\ Ledger(q, t, o) /\ ~q.live /\ q.given = p.given /\ q.on = p.on /\ q.pending = p.pending
  /\ q.map = p.map /\ Len(q.comps) = Len(p.comps)
  /\ p.on => /\ q.stack = <<>> /\ q.over = 0
             /\ \A c \in DOMAIN q.comps : q.comps[c].depth = 0 /\ q.comps[c].self <= q.comps[c].incl
  /\ ~p.on => q.stack = p.stack /\ q.over = p.over

\* The component whose frame is the innermost recorded one.
TopOf(p) == IF p.stack = <<>> THEN 0 ELSE p.stack[Len(p.stack)].comp

\* What a tick changes: s is the components with a frame open, u the innermost one.
Ticked(p, s, u) ==
  LET used(c) == [p.comps[c] EXCEPT !.wasOpen = IF c \in s THEN @ + 1 ELSE @,
                                    !.wasTop = IF c = u THEN @ + 1 ELSE @]
  IN [p EXCEPT !.busy = IF p.stack = <<>> THEN @ ELSE @ + 1,
               !.comps = [c \in DOMAIN p.comps |-> used(c)]]

\* What a tick leaves alone.
SameButUse(p, q) ==
  /\ q.live = p.live /\ q.given = p.given /\ q.on = p.on /\ q.pending = p.pending
  /\ q.map = p.map /\ q.stack = p.stack /\ q.over = p.over /\ q.overflow = p.overflow
  /\ Len(q.comps) = Len(p.comps) /\ DOMAIN q.comps = DOMAIN p.comps
  /\ \A c \in DOMAIN p.comps :
       /\ q.comps[c].name = p.comps[c].name /\ q.comps[c].depth = p.comps[c].depth
       /\ q.comps[c].enter = p.comps[c].enter
       /\ q.comps[c].self = p.comps[c].self /\ q.comps[c].incl = p.comps[c].incl

\* A profile nothing was charged to.
Untouched(p) ==
  /\ p.comps = <<>> /\ p.stack = <<>> /\ p.over = 0 /\ ~p.overflow /\ p.busy = 0
  /\ p.map = [i \in 0 .. NamesMax - 1 |-> 0]

\* A frame is added to the running fiber.
Pushed(x) ==
  /\ calls < MaxCalls /\ calls' = calls + 1
  /\ frames' = [frames EXCEPT ![running] = Append(@, x)]
  /\ running' = running /\ now' = now /\ odd' = odd

\* f is called and observed: p is the profile it begins in, s the slot it has, x its frame.
Observed(f, match, x, p, s) ==
  /\ calls < MaxCalls /\ x.ed = FreeEd /\ x.file = f /\ (x.seen <=> prof'.on) /\ Pushed(x)
  /\ Ledger(p, now, odd) /\ p.live /\ prof.live /\ p.given /\ p.on = prof.on
  /\ p.pending = prof.pending /\ p.stack = prof.stack /\ p.over = prof.over
  /\ prof' = ObserverBegin(p, FreeEd, s, now, match)
  /\ GoodCache(cc') /\ TableOf(cc', p, handlers', slot') /\ slot'[f] = s
  /\ slot' \in [Files -> 0 .. CompMax] /\ handlers' = [handlers EXCEPT ![f] = "both"]
  /\ handlers[f] \in {"unset", "both"}
  /\ odd = 0 => Mirrors(p, frames["main"], slot')

\* The engine asks about f for the first time: the cache c tells k, and p has a component for it.
Asking(f, c, k, p) ==
  /\ handlers[f] = "unset" /\ prof.live /\ GoodCache(c) /\ Grown(cc, c) /\ Tells(c, k, f)
  /\ k # NonePidx /\ p = CompForPidx(prof, c, k)

-----------------------------------------------------------------------------
(* What a request remembers is what it did.                                *)

\* A call and how long it takes.
Timed == [what : Nat, dur : Nat]

\* An array tells a sequence of calls: the counter modulo its width, all the time, and the first
\* calls while the counter has not come round.
ListTells(l, d, max) ==
  /\ l.count = Len(d) % Width /\ l.total = Total(d)
  /\ Len(d) < Width =>
       /\ Min({Len(d), max}) <= l.alloc
       /\ \A i \in 1 .. Min({Len(d), max}) :
            l.items[i].what = d[i].what /\ l.items[i].dur = d[i].dur

\* Which calls were recorded, which transfers are tracked, and where they are.
NamesTell(s, t, http, e) ==
  /\ \A i \in 1 .. Len(s) : s[i].what \in http /\ \A j \in 1 .. Len(s) : s[i].what = s[j].what => i = j
  /\ \A i \in ActiveIn(t) :
       /\ t[i].url \in http /\ t[i].easy \in Handles
       /\ e[t[i].easy].in /\ e[t[i].easy].url = t[i].url
       /\ \A j \in 1 .. Len(s) : s[j].what # t[i].url
       /\ \A j \in ActiveIn(t) : t[j].url = t[i].url \/ t[j].easy = t[i].easy => j = i

\* The recorded calls s and the n tracks t are the calls there are; each goes by its own name
\* unless a multi handle was closed with a transfer in it.
HttpIs(s, h, n, t, http, closed, e) ==
  /\ s \in Seq(Timed) /\ ListTells(h, s, HttpMax) /\ Cardinality(http) = Len(s) + n
  /\ ~closed => NamesTell(s, t, http, e)

HttpTells(h, n, t, http, closed, e) == \E s : HttpIs(s, h, n, t, http, closed, e)

HttpItem(url) == [what |-> url, dur |-> 1, bt |-> 0]

HttpNoted(h, url) == Put(h, HttpItem(url), HttpFirst, HttpMax)

\* No other active track is about the handle of track k.
OthersOwn(closed, u, t, k) == ~closed => \A i \in ActiveIn(u) : t[i].easy # t[k].easy

\* What else a request remembers.
SameCalls(q, r) ==
  /\ q.q = r.q /\ q.marks = r.marks /\ q.errors = r.errors /\ q.files = r.files /\ q.redis = r.redis

CallsTell(r, d) ==
  /\ ListTells(r.q, d.q, QueriesMax)
  /\ r.files = d.files % Width /\ r.redis = d.redis % Width
  /\ r.marks = FirstOf(d.marks, MarksMax) /\ r.errors = FirstOf(d.errors, ErrorsMax)

RequestTells(r, d, e) ==
  CallsTell(r, d) /\ HttpTells(r.h, r.tracked, r.tracks, d.http, d.closed, e)

RecordInv == did.http \subseteq 1 .. did.ops /\ (req.on => RequestTells(req, did, easy))

\* The transfer in track k is recorded under a name.
Concludes(q, r, h, k, named) ==
  /\ r.tracks[k].easy = h /\ r.tracks[k].url \in Nat /\ q.h = HttpNoted(r.h, named)
  /\ r.tracked \in Nat \ {0} /\ q.tracked = r.tracked - 1
  /\ q.tracks \in [1 .. MultiMax -> Tracks] /\ ~q.tracks[k].active
  /\ \A i \in 1 .. MultiMax : i # k => q.tracks[i] = r.tracks[i]

\* Track k is taken for a transfer.
Begins(q, r, h, url, k) ==
  /\ k \notin ActiveIn(r.tracks) /\ q.tracked = r.tracked + 1
  /\ q.tracks = [r.tracks EXCEPT ![k] = [active |-> TRUE, easy |-> h, url |-> url]]

\* The recorded calls are the calls there are, each by its own name unless a multi handle was
\* closed with a transfer in it.
HttpAll(h, http, closed) ==
  \E s \in Seq(Timed) :
    /\ ListTells(h, s, HttpMax) /\ Cardinality(http) = Len(s)
    /\ ~closed => \A i \in 1 .. Len(s) :
         s[i].what \in http /\ \A j \in 1 .. Len(s) : s[i].what = s[j].what => i = j

\* The tracks that are left when the first k have been recorded.
After(t, k) == [i \in 1 .. MultiMax |-> IF i <= k THEN [t[i] EXCEPT !.active = FALSE] ELSE t[i]]

\* The states of the loop over the tracks of r.
Flushed(q, r, k, http, closed, e) ==
  /\ IsRequest(q) /\ q.tracks = r.tracks /\ SameCalls(q, r)
  /\ HttpTells(q.h, Cardinality(ActiveIn(After(r.tracks, k))), After(r.tracks, k), http, closed, e)

\* Whether a statement is repeated too often.
RepeatedIn(kept) == \E s \in Statements : Cardinality({i \in DOMAIN kept : kept[i].what = s}) > Repeats

-----------------------------------------------------------------------------
(* What is written is what is read.                                        *)

\* What ReadItem makes of the fields at pos.
ItemAt(data, fields, pos) ==
  [f \in Range(fields) |-> At(data, pos + (CHOOSE i \in DOMAIN fields : fields[i] = f) - 1)]

\* What a field holds.
Cells == Nat \union Names

\* The frames of a backtrace.
FramesOf(v) ==
  IF "frames" \in DOMAIN v THEN FlattenSeq([b \in 1 .. v.frames |-> Pack(FrameFields, [line |-> b])])
  ELSE <<>>

\* x is what reading n items gives: each with what was written, and the place after the last.
ReadBack(x, fields, items, n, next) ==
  /\ x.pos = next /\ DOMAIN x.items = 1 .. n
  /\ \A i \in 1 .. n :
       /\ DOMAIN x.items[i] = Range(fields)
       /\ \A f \in Range(fields) : f \in DOMAIN items[i] => x.items[i][f] = items[i][f]

\* Items that can be written and read.
Writable(fields, items) ==
  /\ DOMAIN fields = 1 .. Len(fields) /\ Len(fields) \in Nat
  /\ \A i \in DOMAIN items :
       /\ \A j \in 1 .. Len(fields) :
            fields[j] \in DOMAIN items[i] => items[i][fields[j]] \in Cells
       /\ "frames" \in Range(fields) <=> "frames" \in DOMAIN items[i]
       /\ "frames" \in DOMAIN items[i] => items[i]["frames"] \in Nat

\* The parts of a section: an item each, and its frames.
Laid(q, fields, items, n) ==
  /\ Len(q) = n
  /\ \A i \in 1 .. n :
       /\ q[i] = Pack(fields, items[i]) \o FramesOf(items[i])
       /\ Pack(fields, items[i]) \in Seq(Cells) /\ FramesOf(items[i]) \in Seq(Cells)
       /\ Len(Pack(fields, items[i])) = Len(fields)
       /\ Len(FramesOf(items[i])) = IF "frames" \in DOMAIN items[i]
                                    THEN items[i]["frames"] * Len(FrameFields) ELSE 0

\* The sections of a record.
Detailed(items) ==
  [i \in DOMAIN items |->
     [duration |-> items[i].dur, frames |-> items[i].bt, text |-> items[i].what]]

Worded(words) == [i \in DOMAIN words |-> [text |-> words[i]]]

Shared(comps) ==
  [i \in DOMAIN comps |->
     [incl |-> comps[i].incl, self |-> comps[i].self, text |-> comps[i].name]]

QueriesOf(r, level) ==
  IF level >= Full THEN Kept(r.q)
  ELSE IF level >= Normal THEN FirstOf(Kept(r.q), RingTop) ELSE <<>>

CallsOf(r, level) == IF level >= Normal THEN Kept(r.h) ELSE <<>>

\* The header of a record, and what the collector makes of its parts.
HeaderValues(r, level, s, profiled) ==
  [query_count |-> r.q.count, db_total |-> r.q.total, http_call_count |-> r.h.count,
   file_op_count |-> r.files, redis_call_count |-> r.redis, trace_level |-> level,
   mark_count |-> Len(r.marks), error_count |-> Len(r.errors),
   n_plus_one |-> IF NPlusOne(r.q) THEN 1 ELSE 0,
   sq |-> Len(s.q), sh |-> Len(s.h), sm |-> Len(s.m), se |-> Len(s.e),
   sc |-> Len(s.c), profiled |-> IF profiled THEN 1 ELSE 0]

Told(h, q, c, m, e, p) ==
  [level |-> h.trace_level, n1 |-> h.n_plus_one = 1, count |-> h.query_count,
   total |-> h.db_total, http |-> h.http_call_count, files |-> h.file_op_count,
   redis |-> h.redis_call_count,
   queries |-> [i \in DOMAIN q |-> [what |-> q[i].text, dur |-> q[i].duration, bt |-> q[i].frames]],
   calls |-> [i \in DOMAIN c |-> [what |-> c[i].text, dur |-> c[i].duration, bt |-> c[i].frames]],
   marks |-> [i \in DOMAIN m |-> m[i].text],
   errors |-> [i \in DOMAIN e |-> e[i].text],
   comps |-> [i \in DOMAIN p |-> [name |-> p[i].text, incl |-> p[i].incl, self |-> p[i].self]]]

\* What a request must have to be written.
Tellable(r) ==
  /\ ListOK(r.q, QueriesMax) /\ ListOK(r.h, HttpMax) /\ r.marks \in Seq(Nat) /\ r.errors \in Seq(Nat)
  /\ r.files \in Nat /\ r.redis \in Nat

\* What the collector reads is what the extension had.
TellsBack(t, r, level, comps) ==
  /\ t.level = level /\ t.n1 \in BOOLEAN /\ (t.n1 <=> NPlusOne(r.q))
  /\ t.count = r.q.count /\ t.total = r.q.total /\ t.http = r.h.count
  /\ t.files = r.files /\ t.redis = r.redis
  /\ t.marks = r.marks /\ t.errors = r.errors /\ Shares(t.comps) = Shares(comps)
  /\ Plain(t.queries) = Plain(QueriesOf(r, level))
  /\ level < Normal => t.queries = <<>> /\ t.calls = <<>>
  /\ DOMAIN t.calls = 1 .. Len(CallsOf(r, level)) /\ Len(t.calls) = Len(CallsOf(r, level))
  /\ \A i \in 1 .. Len(CallsOf(r, level)) : t.calls[i].what = CallsOf(r, level)[i].what

\* The sections that were read: s is what was written.
SectionsRead(s, q, c, m, e, p) ==
  /\ ReadBack(q, QueryFields, s.q, Len(s.q), q.pos)
  /\ ReadBack(c, HttpFields, s.h, Len(s.h), c.pos)
  /\ ReadBack(m, MarkFields, s.m, Len(s.m), m.pos)
  /\ ReadBack(e, ErrorFields, s.e, Len(s.e), e.pos)
  /\ ReadBack(p, ComponentFields, s.c, Len(s.c), p.pos)

\* What is written is what the request x did.
Remembers(r, x) ==
  /\ Tellable(r) /\ CallsTell(r, x.did) /\ HttpAll(r.h, x.did.http, x.did.closed)
  /\ x.did.q \in Seq(Timed)

=============================================================================
