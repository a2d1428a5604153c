---------------------------- MODULE ControlTable ----------------------------
(***************************************************************************)
(* The control table: a file that the collector maps read-write            *)
(* (src/collector/control_table.go) and every PHP worker maps read-only    *)
(* (src/extension/control.c).  Each slot says "profile this site until     *)
(* then".  A seqlock is to keep a worker from acting on a half-written     *)
(* table: seq is odd while a write goes on, and a worker discards what it  *)
(* scanned when seq was odd or changed.                                    *)
(*                                                                         *)
(* Tools are the processes that write: the daemon, and the command line    *)
(* `phpray-collector control`.  The mutex of ControlTable lives inside one *)
(* process, so a tool runs one operation at a time but two tools are kept  *)
(* apart by nothing: the table is what it promises until two of them are   *)
(* inside an operation at once (collided).  Each store another process can *)
(* observe is a step; so is each load of seq, and each look of a worker at *)
(* a slot.  The scan a tool makes before it writes is one step, exact      *)
(* until another tool writes during it.                                    *)
(***************************************************************************)
EXTENDS Naturals, FiniteSets, FiniteSetsExt

CONSTANTS
  Tools,        \* processes that open the table read-write
  Workers,      \* PHP workers
  Sites,        \* document roots, which is what the hashes stand for
  NoSite,       \* hash 0
  MaxEntries,   \* ctrlMaxEntries
  MaxTime,      \* bound: the clock
  Untils,       \* end times that are asked for
  MaxOps,       \* bound: operations that write
  MaxLookups,   \* bound: lookups of one worker
  FromBefore,   \* whether an earlier run left a valid, empty table
  MayDie        \* whether a tool may be killed anywhere

ASSUME TableAssumption ==
  /\ NoSite \notin Sites
  /\ MaxEntries \in Nat \ {0}
  /\ MaxTime \in Nat \ {0}
  /\ Untils \subseteq 0 .. MaxTime
  /\ MaxOps \in Nat
  /\ MaxLookups \in Nat
  /\ FromBefore \in BOOLEAN
  /\ MayDie \in BOOLEAN

Attempts == 3

\* What an entry asks for (url_prefix, sample_rate): every Set asks for something new,
\* so what it asks for is its number among the writing operations.
Rule   == 0 .. MaxOps
NoRule == 0

Time == 0 .. MaxTime

\* until = 0: an empty slot.
Entry == [site : Sites \cup {NoSite}, until : Time, active : BOOLEAN, rule : Rule]

ZeroEntry == [site |-> NoSite, until |-> 0, active |-> FALSE, rule |-> NoRule]
ZeroTable == [i \in 1 .. MaxEntries |-> ZeroEntry]

\* What a tool is writing: entry into slot, with the new entry count; or the slots of
\* off, one after the other, switched off (entry.site: on behalf of this site only).
Job == [slot : 0 .. MaxEntries, entry : Entry, count : 0 .. MaxEntries, off : SUBSET (1 .. MaxEntries)]

NoJob == [slot |-> 0, entry |-> ZeroEntry, count |-> 0, off |-> {}]

Body == {"wipe", "hash", "until", "flags", "rule", "count", "offFlags", "offUntil",
         "endLoad", "endStore"}

ToolStates == {"closed", "zero", "stamp", "stampSize", "stampSeq", "idle", "beginLoad",
               "beginStore"} \cup Body

WorkerStates == {"unmapped", "out", "seq", "count", "compare", "copy", "verify",
                 "answered", "gaveUp"}

\* A lookup: the site asked about, its clock, the attempt, the seq and the count it
\* loaded, the slot it is at and the rule it found; and, as history, the rule the
\* last completed table had when it loaded seq.
Lookup == [site : Sites \cup {NoSite}, now : Time, try : 0 .. Attempts, seq : Nat,
           count : 0 .. MaxEntries, at : 0 .. MaxEntries + 1, found : Rule,
           due : Rule]

\* A lookup before attempt n has loaded anything, and one that has returned.
Attempt(s, at, n) == [site |-> s, now |-> at, try |-> n, seq |-> 0, count |-> 0, at |-> 0,
                      found |-> NoRule, due |-> NoRule]

Returned(found, due) == [site |-> NoSite, now |-> 0, try |-> 0, seq |-> 0, count |-> 0,
                         at |-> 0, found |-> found, due |-> due]

NoLookup == Attempt(NoSite, 0, 0)

\* What a table says of a site at a time.
Live(table, s, at) == {i \in 1 .. MaxEntries : table[i].site = s /\ table[i].active /\ table[i].until > at}

RuleOf(table, s, at) ==
  IF Live(table, s, at) = {} THEN NoRule ELSE table[Min(Live(table, s, at))].rule

VARIABLES
  sized,      \* the file has ctrlFileSize bytes
  magic,      \* and a valid magic and version, all that OpenControlTable asks of it
  fits,       \* and a valid max_entries, which a worker asks for as well
  seq,        \* header.seq
  count,      \* header.entry_count
  slots,      \* the entries
  tpc,        \* where each tool is
  job,        \* what it writes
  loaded,     \* the seq it loaded
  wpc,        \* where each worker is in phpray_control_lookup
  look,       \* its lookup
  now,        \* the clock
  stable,     \* history: the entries as the last write left them
  broken,     \* history: a tool died inside a write
  collided,   \* history: a tool began an operation while another was inside one
  ops,        \* bound counter of writing operations
  lookups     \* bound counter of lookups, per worker

file  == <<sized, magic, fits, seq, count, slots>>
tools == <<tpc, job, loaded>>
wvars == <<wpc, look, lookups>>
rest  == <<now, stable, broken, collided, ops>>
vars  == <<file, tools, wvars, rest>>

Init ==
  /\ sized = FromBefore
  /\ magic = FromBefore
  /\ fits = FromBefore
  /\ seq = 0
  /\ count = 0
  /\ slots = ZeroTable
  /\ tpc = [t \in Tools |-> "closed"]
  /\ job = [t \in Tools |-> NoJob]
  /\ loaded = [t \in Tools |-> 0]
  /\ wpc = [w \in Workers |-> "unmapped"]
  /\ look = [w \in Workers |-> NoLookup]
  /\ now = 1
  /\ stable = ZeroTable
  /\ broken = FALSE
  /\ collided = FALSE
  /\ ops = 0
  /\ lookups = [w \in Workers |-> 0]

-----------------------------------------------------------------------------
(* The tools: control_table.go.                                            *)

\* A tool is inside an operation: a write, or the initialisation of the file.
Inside(t) == tpc[t] \notin {"closed", "idle"}

ToolAt(t, from, to) ==
  /\ tpc[t] = from
  /\ tpc' = [tpc EXCEPT ![t] = to]

\* What a scan bounded by entry_count sees.
InUse == [i \in 1 .. MaxEntries |-> IF i <= count THEN slots[i] ELSE ZeroEntry]

\* OpenControlTable: a file of another size is truncated to the right one; one that
\* is fresh or carries no valid header is initialised.
OpenTable(t) ==
  /\ sized' = TRUE
  /\ ToolAt(t, "closed", IF sized /\ magic THEN "idle" ELSE "zero")
  /\ collided' = (collided \/ (Inside(t)' /\ \E u \in Tools : Inside(u)))
  /\ UNCHANGED <<magic, fits, seq, count, slots, job, loaded, wvars, now, stable, broken, ops>>

\* initLocked, first half: every byte of the mapping is zeroed.
ZeroFile(t) ==
  /\ ToolAt(t, "zero", "stamp")
  /\ magic' = FALSE
  /\ fits' = FALSE
  /\ seq' = 0
  /\ count' = 0
  /\ slots' = ZeroTable
  /\ UNCHANGED <<sized, job, loaded, wvars, rest>>

\* Second half: magic and version, and from here on the table is one that can be opened;
\* then max_entries, and from here on workers map it; then seq = 0.
StampHeader(t) ==
  /\ ToolAt(t, "stamp", "stampSize")
  /\ magic' = TRUE
  /\ stable' = InUse
  /\ UNCHANGED <<sized, fits, seq, count, slots, job, loaded, wvars, now, broken, collided, ops>>

StampSize(t) ==
  /\ ToolAt(t, "stampSize", "stampSeq")
  /\ fits' = TRUE
  /\ UNCHANGED <<sized, magic, seq, count, slots, job, loaded, wvars, rest>>

StampSeq(t) ==
  /\ ToolAt(t, "stampSeq", "idle")
  /\ seq' = 0
  /\ UNCHANGED <<sized, magic, fits, count, slots, job, loaded, wvars, rest>>

CloseTable(t) ==
  /\ ToolAt(t, "idle", "closed")
  /\ UNCHANGED <<file, job, loaded, wvars, rest>>

OfSite(s)  == {i \in 1 .. count : slots[i].site = s}
Expired    == {i \in 1 .. count : slots[i].until # 0 /\ slots[i].until <= now}
Reusable   == {i \in 1 .. count : slots[i].until = 0} \cup Expired

\* Mutated form: an unused slot is preferred to the one the site already has.
SetSlotReusableFirst(s) ==
  IF Reusable # {} THEN Min(Reusable)
  ELSE IF OfSite(s) # {} THEN Min(OfSite(s)) ELSE count + 1

\* Mutated form: a full table gives up its first slot, live or not.
SetSlotEvicting(s) ==
  IF OfSite(s) # {} THEN Min(OfSite(s))
  ELSE IF Reusable # {} THEN Min(Reusable)
  ELSE IF count < MaxEntries THEN count + 1 ELSE 1

\* The slot Set writes: the site's own, else the first empty or expired one, else a
\* new one.  Beyond MaxEntries Set returns "table full" and writes nothing.
SetSlot(s) ==
  IF OfSite(s) # {} THEN Min(OfSite(s))
  ELSE IF Reusable # {} THEN Min(Reusable) ELSE count + 1

StartWrite(t, j) ==
  /\ ops < MaxOps
  /\ ops' = ops + 1
  /\ ToolAt(t, "idle", "beginLoad")
  /\ job' = [job EXCEPT ![t] = j]
  /\ collided' = (collided \/ \E u \in Tools : Inside(u))
  /\ UNCHANGED <<file, loaded, wvars, now, stable, broken>>

SetJob(s, until) ==
  [slot  |-> SetSlot(s),
   entry |-> [site |-> s, until |-> until, active |-> TRUE, rule |-> ops + 1],
   count |-> IF SetSlot(s) > count THEN SetSlot(s) ELSE count,
   off   |-> {}]

OffJob(s, off) ==
  [slot  |-> 0,
   entry |-> [site |-> s, until |-> 0, active |-> FALSE, rule |-> NoRule],
   count |-> 0,
   off   |-> off]

\* Mutated form: a full table is not noticed.
SetBeyondLast(t, s, until) == StartWrite(t, SetJob(s, until))

Set(t, s, until) ==
  /\ SetSlot(s) <= MaxEntries
  /\ StartWrite(t, SetJob(s, until))

Clear(t, s) ==
  LET live == {i \in OfSite(s) : slots[i].until # 0}
  IN  /\ live # {}
      /\ StartWrite(t, OffJob(s, {Min(live)}))

Expire(t) ==
  /\ Expired # {}
  /\ StartWrite(t, OffJob(NoSite, Expired))

\* beginWrite.
BeginLoad(t) ==
  /\ ToolAt(t, "beginLoad", "beginStore")
  /\ loaded' = [loaded EXCEPT ![t] = seq]
  /\ UNCHANGED <<file, job, wvars, rest>>

BeginStore(t) ==
  /\ ToolAt(t, "beginStore", IF job[t].off = {} THEN "wipe" ELSE "offFlags")
  /\ seq' = loaded[t] + 1
  /\ UNCHANGED <<sized, magic, fits, count, slots, job, loaded, wvars, rest>>

\* A store into an entry.
Put(t, i, from, to, entry) ==
  /\ ToolAt(t, from, to)
  /\ slots' = [slots EXCEPT ![i] = entry]
  /\ UNCHANGED <<sized, magic, fits, seq, count, loaded, wvars, rest>>

Wipe(t) == Put(t, job[t].slot, "wipe", "hash", ZeroEntry) /\ UNCHANGED job

PutHash(t) ==
  LET i == job[t].slot
  IN  Put(t, i, "hash", "until", [slots[i] EXCEPT !.site = job[t].entry.site]) /\ UNCHANGED job

PutUntil(t) ==
  LET i == job[t].slot
  IN  Put(t, i, "until", "flags", [slots[i] EXCEPT !.until = job[t].entry.until]) /\ UNCHANGED job

PutFlags(t) ==
  LET i == job[t].slot
  IN  Put(t, i, "flags", "rule", [slots[i] EXCEPT !.active = TRUE]) /\ UNCHANGED job

PutRule(t) ==
  LET i == job[t].slot
  IN  Put(t, i, "rule", "count", [slots[i] EXCEPT !.rule = job[t].entry.rule]) /\ UNCHANGED job

PutCount(t) ==
  /\ ToolAt(t, "count", "endLoad")
  /\ count' = job[t].count
  /\ UNCHANGED <<sized, magic, fits, seq, slots, job, loaded, wvars, rest>>

\* Clear and Expire: flags and then until of each slot, in slot order.
OffFlags(t) ==
  LET i == Min(job[t].off)
  IN  /\ Put(t, i, "offFlags", "offUntil", [slots[i] EXCEPT !.active = FALSE])
      /\ UNCHANGED job

\* Mutated form: every slot that is switched off begins a write of its own.
OffUntilBeginningAgain(t) ==
  LET i == Min(job[t].off)
  IN  /\ Put(t, i, "offUntil", IF job[t].off = {i} THEN "endLoad" ELSE "beginLoad",
             [slots[i] EXCEPT !.until = 0])
      /\ job' = [job EXCEPT ![t].off = @ \ {i}]

OffUntil(t) ==
  LET i == Min(job[t].off)
  IN  /\ Put(t, i, "offUntil", IF job[t].off = {i} THEN "endLoad" ELSE "offFlags",
             [slots[i] EXCEPT !.until = 0])
      /\ job' = [job EXCEPT ![t].off = @ \ {i}]

\* endWrite.
EndLoad(t) ==
  /\ ToolAt(t, "endLoad", "endStore")
  /\ loaded' = [loaded EXCEPT ![t] = seq]
  /\ UNCHANGED <<file, job, wvars, rest>>

EndStore(t) ==
  /\ ToolAt(t, "endStore", "idle")
  /\ seq' = loaded[t] + 1
  /\ job' = [job EXCEPT ![t] = NoJob]
  /\ loaded' = [loaded EXCEPT ![t] = 0]
  /\ stable' = InUse
  /\ UNCHANGED <<sized, magic, fits, count, slots, wvars, now, broken, collided, ops>>

\* The process is killed.  What it stored stays in the file; nobody looks at the
\* parity of seq when the table is opened again.
Die(t) ==
  /\ MayDie
  /\ tpc[t] # "closed"
  /\ tpc' = [tpc EXCEPT ![t] = "closed"]
  /\ job' = [job EXCEPT ![t] = NoJob]
  /\ loaded' = [loaded EXCEPT ![t] = 0]
  /\ broken' = (broken \/ tpc[t] \in Body)
  /\ stable' = IF tpc[t] \in Body THEN InUse ELSE stable
  /\ UNCHANGED <<file, wvars, now, collided, ops>>

ToolStep(t) ==
  \/ OpenTable(t) \/ ZeroFile(t) \/ StampHeader(t) \/ StampSize(t) \/ StampSeq(t)
  \/ CloseTable(t)
  \/ \E s \in Sites, until \in Untils : Set(t, s, until)
  \/ \E s \in Sites : Clear(t, s)
  \/ Expire(t)
  \/ BeginLoad(t) \/ BeginStore(t) \/ EndLoad(t) \/ EndStore(t)
  \/ Wipe(t) \/ PutHash(t) \/ PutUntil(t) \/ PutFlags(t) \/ PutRule(t) \/ PutCount(t)
  \/ OffFlags(t) \/ OffUntil(t)
  \/ Die(t)

-----------------------------------------------------------------------------
(* The workers: control.c, called at the start of a request.               *)

WorkerAt(w, from, to) ==
  /\ wpc[w] = from
  /\ wpc' = [wpc EXCEPT ![w] = to]
  /\ UNCHANGED <<file, tools, rest>>

\* phpray_control_maybe_open: a file of the right size with a valid header.
Map(w) ==
  /\ sized
  /\ magic
  /\ fits
  /\ WorkerAt(w, "unmapped", "out")
  /\ UNCHANGED <<look, lookups>>

\* phpray_control_lookup, with the wall clock of the request.
StartLookup(w, s) ==
  /\ lookups[w] < MaxLookups
  /\ \E from \in {"out", "answered", "gaveUp"} : WorkerAt(w, from, "seq")
  /\ look' = [look EXCEPT ![w] = Attempt(s, now, 0)]
  /\ lookups' = [lookups EXCEPT ![w] = @ + 1]

\* The next attempt, or none left.
Retry(w, from) ==
  /\ WorkerAt(w, from, IF look[w].try + 1 < Attempts THEN "seq" ELSE "gaveUp")
  /\ look' = [look EXCEPT ![w] =
                IF look[w].try + 1 = Attempts THEN NoLookup
                ELSE Attempt(look[w].site, look[w].now, look[w].try + 1)]
  /\ UNCHANGED lookups

\* An odd seq: a writer is busy.
Busy(w) ==
  /\ seq % 2 = 1
  /\ Retry(w, "seq")

LoadSeq(w) ==
  /\ seq % 2 = 0
  /\ WorkerAt(w, "seq", "count")
  /\ look' = [look EXCEPT ![w].seq = seq, ![w].due = RuleOf(stable, look[w].site, look[w].now)]
  /\ UNCHANGED lookups

LoadCount(w) ==
  /\ WorkerAt(w, "count", IF count = 0 THEN "verify" ELSE "compare")
  /\ look' = [look EXCEPT ![w].count = count, ![w].at = 1]
  /\ UNCHANGED lookups

\* On to the next slot, or to the end of the scan.
Onward(w) == IF look[w].at < look[w].count THEN "compare" ELSE "verify"

\* The slot is of another site, or empty.
Pass(w) ==
  /\ WorkerAt(w, "compare", Onward(w))
  /\ \/ slots[look[w].at].site # look[w].site
     \/ slots[look[w].at].until = 0
  /\ look' = [look EXCEPT ![w].at = @ + 1]
  /\ UNCHANGED lookups

Candidate(w) ==
  /\ WorkerAt(w, "compare", "copy")
  /\ slots[look[w].at].site = look[w].site
  /\ slots[look[w].at].until # 0
  /\ UNCHANGED <<look, lookups>>

\* The entry is copied: it counts if it is active and has not expired.
CopyEntry(w) ==
  LET e    == slots[look[w].at]
      live == e.active /\ e.until > look[w].now
  IN  /\ WorkerAt(w, "copy", IF live THEN "verify" ELSE Onward(w))
      /\ look' = [look EXCEPT ![w].at = @ + 1, ![w].found = IF live THEN e.rule ELSE NoRule]
      /\ UNCHANGED lookups

\* The lookup returns what it found: the rest of its stack is gone.
Answer(w) ==
  /\ WorkerAt(w, "verify", "answered")
  /\ look' = [look EXCEPT ![w] = Returned(look[w].found, look[w].due)]
  /\ UNCHANGED lookups

\* Mutated form: the scan is accepted whatever became of seq.
AcceptUnchecked(w) == Answer(w)

\* seq is what it was: the scan is accepted, match or no match.
Accept(w) ==
  /\ seq = look[w].seq
  /\ Answer(w)

Torn(w) ==
  /\ seq # look[w].seq
  /\ Retry(w, "verify")

WorkerStep(w) ==
  \/ Map(w)
  \/ \E s \in Sites : StartLookup(w, s)
  \/ Busy(w) \/ LoadSeq(w) \/ LoadCount(w) \/ Pass(w) \/ Candidate(w) \/ CopyEntry(w)
  \/ Accept(w) \/ Torn(w)

Tick ==
  /\ now < MaxTime
  /\ now' = now + 1
  /\ UNCHANGED <<file, tools, wvars, stable, broken, collided, ops>>

-----------------------------------------------------------------------------
Next ==
  \/ \E t \in Tools : ToolStep(t)
  \/ \E w \in Workers : WorkerStep(w)
  \/ Tick

Spec == Init /\ [][Next]_vars

-----------------------------------------------------------------------------
(* Properties.                                                             *)

TypeOK ==
  /\ sized \in BOOLEAN
  /\ magic \in BOOLEAN
  /\ fits \in BOOLEAN
  /\ seq \in Nat
  /\ count \in 0 .. MaxEntries
  /\ slots \in [1 .. MaxEntries -> Entry]
  /\ tpc \in [Tools -> ToolStates]
  /\ job \in [Tools -> Job]
  /\ loaded \in [Tools -> Nat]
  /\ wpc \in [Workers -> WorkerStates]
  /\ look \in [Workers -> Lookup]
  /\ now \in Time
  /\ stable \in [1 .. MaxEntries -> Entry]
  /\ broken \in BOOLEAN
  /\ collided \in BOOLEAN
  /\ ops \in Nat
  /\ lookups \in [Workers -> Nat]

Writing == \E t \in Tools : tpc[t] \in Body

\* control_table.go: "seq becomes odd before the change and even after".  Without
\* this a worker either trusts a table in the middle of a change or, with seq odd
\* for good, never finds a rule again.
SeqFollows == ~broken => ((seq % 2 = 1) <=> Writing)

\* As long as no two tools were inside an operation at once, seq is odd exactly while the
\* table is being changed, whichever of the tools changes it (beginWrite, endWrite).
SeqTellsWriting == ~collided => SeqFollows

\* An answer that a worker acts on, no match included, is the one the last completed
\* write before its scan gives, never a mixture of two writes.
AnswersStable ==
  ~broken /\ ~collided =>
    \A w \in Workers : wpc[w] = "answered" =>
      look[w].found = look[w].due

\* Both together, what the seqlock promises: seq tells whether the table is being changed, and
\* no lookup answers from a table in the middle of a change (beginWrite, phpray_control_lookup).
SeqlockSound == SeqTellsWriting /\ AnswersStable

\* However slots are emptied, reused and refilled, by whichever tool and wherever one dies, a
\* site never has two: a worker takes the first match and Clear switches off only one.
OneSlotPerSite ==
  ~collided =>
    \A i, j \in 1 .. count : i # j /\ slots[i].site = slots[j].site => slots[i].site = NoSite

\* A rule that has not expired stays as it is until its own site is set or cleared:
\* writing for another site, expiring others or reusing slots never takes it away, not
\* even when the writer dies half-way.
RulesKept ==
  [][\A s \in Sites :
       /\ ~collided'
       /\ RuleOf(stable, s, now) # NoRule
       /\ RuleOf(stable', s, now) # RuleOf(stable, s, now)
       => \E t \in Tools : job[t].entry.site = s /\ job'[t] = NoJob]_vars

=============================================================================
