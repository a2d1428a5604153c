------------------------- MODULE ControlTableProofs -------------------------
(***************************************************************************)
(* Proofs about the control table for every number of sites, slots and     *)
(* workers, for any number of writing processes and every bound, wherever  *)
(* a writing process is killed.  Nothing keeps two writing processes       *)
(* apart; all but the types holds until two are inside an operation at     *)
(* once (collided).  Until then at most one is inside (Alone), so that a   *)
(* step is either of that one (Lone) or changes nothing but whether its    *)
(* tool has the table open (Quiet).                                        *)
(*                                                                         *)
(* The seqlock's argument: a worker that accepts its scan loaded the same  *)
(* even seq before and after.  While seq has that value nobody is inside   *)
(* a write, so the slots it read are those of the last completed write     *)
(* (StableInv), and what it has found so far is what that table says of    *)
(* the slots behind it (ScanInv).                                          *)
(*                                                                         *)
(* That no rule is lost is an argument about a whole write: it changes     *)
(* only slots in which no other site has a rule (RuleInv).                 *)
(***************************************************************************)
EXTENDS ControlTable, TLAPS, WellFoundedInduction

\* At most one tool is inside an operation.
Alone == \A t, u \in Tools : Inside(t) /\ Inside(u) => t = u

\* A step leaves the other tools where they are.
OthersStay(t) ==
  \A u \in Tools : u # t => tpc'[u] = tpc[u] /\ job'[u] = job[u] /\ loaded'[u] = loaded[u]

\* A step of t while no other tool is inside an operation.
Lone(t) == OthersStay(t) /\ \A u \in Tools : u # t => tpc[u] \in {"closed", "idle"}

\* A step by which t, inside no operation, opens or closes the table.
Quiet(t) ==
  /\ OthersStay(t)
  /\ tpc[t] \in {"closed", "idle"}
  /\ tpc'[t] \in {"closed", "idle"}
  /\ tpc'[t] = "idle" => magic /\ sized
  /\ UNCHANGED <<file, wvars, now, stable, broken, ops>>

\* A worker that reads a slot reads one it counted, in one of its three attempts.
LookInv ==
  \A w \in Workers :
    /\ look[w].try < Attempts
    /\ wpc[w] \in {"compare", "copy"} => look[w].at \in 1 .. look[w].count

TypeInv == TypeOK /\ LookInv

\* The tool about to store seq loaded it after its last store.
SeqInv ==
  /\ \A t \in Tools : tpc[t] \in {"beginStore", "endStore"} => loaded[t] = seq
  /\ \A t \in Tools : tpc[t] \in {"stamp", "stampSize", "stampSeq"} => seq = 0
  /\ SeqFollows

\* The header turns valid when the table is initialised and stays so; no worker maps
\* the file before.
HeaderInv ==
  /\ \A t \in Tools : tpc[t] # "closed" => sized
  /\ magic => sized /\ \A t \in Tools : tpc[t] \notin {"zero", "stamp"}
  /\ ~magic =>
       /\ \A t \in Tools : tpc[t] \in {"closed", "zero", "stamp"}
       /\ ~fits
  /\ ~fits => \A w \in Workers : wpc[w] = "unmapped"

StableInv == magic /\ ~broken /\ ~Writing => stable = InUse

\* What the scan has come to, when the table it scans is not being written.
Agrees(w) ==
  LET live == Live(InUse, look[w].site, look[w].now)
  IN  /\ look[w].due = RuleOf(InUse, look[w].site, look[w].now)
      /\ wpc[w] # "verify" => look[w].found = NoRule
      /\ wpc[w] \in {"compare", "copy"} =>
           look[w].count = count /\ \A i \in live : look[w].at <= i
      /\ wpc[w] = "copy" => slots[look[w].at].site = look[w].site
      /\ wpc[w] = "verify" => look[w].found = look[w].due

ScanOK(w) ==
  /\ wpc[w] = "seq" => look[w].found = NoRule
  /\ wpc[w] \in {"count", "compare", "copy", "verify"} =>
       /\ look[w].seq <= seq
       /\ look[w].seq % 2 = 0
       /\ ~broken /\ look[w].seq = seq => Agrees(w)

ScanInv == \A w \in Workers : ScanOK(w)

SeqlockInv == Alone /\ SeqInv /\ HeaderInv /\ StableInv /\ ScanInv

IInv == TypeInv /\ (~collided => SeqlockInv) /\ AnswersStable

\* The slot of a Set is one in use or the next, and no other holds its site.
Setting == {"wipe", "hash", "until", "flags", "rule", "count"}

SlotInv ==
  \A t \in Tools :
    \/ tpc[t] \in Setting
    \/ tpc[t] \in {"beginLoad", "beginStore"} /\ job[t].off = {}
    => /\ job[t].slot \in 1 .. count + 1
       /\ job[t].count = IF job[t].slot > count THEN job[t].slot ELSE count
       /\ \A i \in 1 .. count : i # job[t].slot => slots[i].site # job[t].entry.site
       /\ tpc[t] \in Setting \ {"wipe", "hash"} =>
            slots[job[t].slot].site = job[t].entry.site

OneSlotInv == TypeInv /\ Alone /\ SlotInv /\ OneSlotPerSite

\* An entry with no rule for a site other than s, and never with one as it stands.
Gone(e, s, at) == e.site \notin Sites \ {s} \/ ~e.active \/ e.until <= at

\* The slots a tool still has to store into.
Targets(t) == IF job[t].off = {} THEN {job[t].slot} ELSE job[t].off

Storing == {"beginLoad", "beginStore", "offFlags", "offUntil"} \cup Setting

\* A write takes no rule from a site it is not for: what it has changed so far, and what it
\* will change, had none and has none.
RuleInv ==
  /\ ~magic => InUse = ZeroTable
  /\ ~Writing => InUse = stable
  /\ \A t \in Tools :
       /\ tpc[t] \in Setting => job[t].off = {}
       /\ tpc[t] \in {"offFlags", "offUntil"} => job[t].off # {}
       /\ tpc[t] \in Body =>
            \A i \in 1 .. MaxEntries :
              \/ InUse[i] = stable[i]
              \/ Gone(InUse[i], job[t].entry.site, now) /\ Gone(stable[i], job[t].entry.site, now)
       /\ tpc[t] \in Storing =>
            \A i \in Targets(t) \cap (1 .. count) : Gone(slots[i], job[t].entry.site, now)

-----------------------------------------------------------------------------
(* Minima, slots and rules.                                                *)

\* A set of naturals has its minimum among its elements.
LEMMA MinOf ==
  ASSUME NEW S \in SUBSET Nat, S # {}
  PROVE  Min(S) \in S /\ \A y \in S : Min(S) <= y
<1>1. PICK x \in S : \A y \in S : ~ (<<y, x>> \in OpToRel(<, Nat))
  BY NatLessThanWellFounded, WFMin, Zenon
<1>2. \A y \in S : ~ (y < x)
  BY <1>1 DEF OpToRel
<1>3. x \in S /\ \A y \in S : x =< y
  BY <1>2
<1> QED
  BY <1>3 DEF Min

\* The slots of a table in use, and what it says of a site.
LEMMA InUseTyped ==
  ASSUME TypeOK
  PROVE  InUse \in [1 .. MaxEntries -> Entry]
BY TableAssumption DEF TypeOK, InUse, ZeroEntry, Entry, Time, Rule, NoRule

LEMMA ZeroTableTyped == ZeroTable \in [1 .. MaxEntries -> Entry]
<1>1. ZeroEntry \in Entry
  BY TableAssumption DEF ZeroEntry, Entry, Time, Rule, NoRule
<1> QED
  BY <1>1 DEF ZeroTable

LEMMA RuleOfTyped ==
  ASSUME NEW table \in [1 .. MaxEntries -> Entry], NEW s, NEW at
  PROVE  RuleOf(table, s, at) \in Rule
<1>1. Live(table, s, at) \in SUBSET Nat /\ Live(table, s, at) \subseteq 1 .. MaxEntries
  BY TableAssumption DEF Live
<1>2. CASE Live(table, s, at) = {}
  BY <1>2, TableAssumption DEF RuleOf, Rule, NoRule
<1>3. CASE Live(table, s, at) # {}
  <2>1. Min(Live(table, s, at)) \in 1 .. MaxEntries
    BY <1>1, <1>3, MinOf
  <2>2. table[Min(Live(table, s, at))].rule \in Rule
    BY <2>1 DEF Entry
  <2> QED
    BY <1>3, <2>2 DEF RuleOf
<1> QED
  BY <1>2, <1>3

\* Set picks a slot in use or the one behind them.
LEMMA SetSlotTyped ==
  ASSUME TypeOK, NEW s
  PROVE  SetSlot(s) \in 1 .. count + 1
<1> USE DEF TypeOK
<1>1. OfSite(s) \in SUBSET Nat /\ OfSite(s) \subseteq 1 .. count
  BY DEF OfSite
<1>2. Reusable \in SUBSET Nat /\ Reusable \subseteq 1 .. count
  BY DEF Reusable, Expired
<1>3. OfSite(s) # {} => Min(OfSite(s)) \in 1 .. count
  BY <1>1, MinOf
<1>4. Reusable # {} => Min(Reusable) \in 1 .. count
  BY <1>2, MinOf
<1> QED
  BY <1>3, <1>4 DEF SetSlot

-----------------------------------------------------------------------------
(* Types.                                                                  *)

\* The empty table is well typed.
LEMMA InitTypeInv == Init => TypeInv
<1> SUFFICES ASSUME Init PROVE TypeInv
  OBVIOUS
<1> USE TableAssumption DEF Init, TypeInv
<1>1. ZeroEntry \in Entry
  BY DEF ZeroEntry, Entry, Time, Rule, NoRule
<1>2. ZeroTable \in [1 .. MaxEntries -> Entry]
  BY ZeroTableTyped
<1>3. NoJob \in Job
  BY <1>1 DEF NoJob, Job
<1>4. NoLookup \in Lookup
  BY DEF NoLookup, Attempt, Lookup, Time, Rule, NoRule, Attempts
<1>5. now \in Time /\ count \in 0 .. MaxEntries
  BY DEF Time
<1>6. TypeOK
  BY <1>2, <1>3, <1>4, <1>5 DEF TypeOK, ToolStates, WorkerStates
<1>7. LookInv
  BY DEF LookInv, NoLookup, Attempt, Attempts
<1> QED
  BY <1>6, <1>7

\* A tool's step between writes keeps the types.
LEMMA IdleTypeInv ==
  ASSUME TypeInv, NEW t \in Tools,
         OpenTable(t) \/ ZeroFile(t) \/ StampHeader(t) \/ StampSize(t) \/ StampSeq(t)
         \/ CloseTable(t)
  PROVE  TypeInv'
<1>1. InUse \in [1 .. MaxEntries -> Entry] /\ ZeroTable \in [1 .. MaxEntries -> Entry]
  BY InUseTyped, ZeroTableTyped DEF TypeInv
<1>2. 0 \in 0 .. MaxEntries
  BY TableAssumption
<1> USE DEF TypeInv, TypeOK, ToolAt, wvars, rest
<1>3. TypeOK'
  <2>1. CASE OpenTable(t)
    BY <2>1 DEF OpenTable, ToolStates
  <2>2. CASE ZeroFile(t)
    BY <2>2, <1>1, <1>2 DEF ZeroFile, ToolStates
  <2>3. CASE StampHeader(t)
    BY <2>3, <1>1 DEF StampHeader, ToolStates
  <2>4. CASE CloseTable(t)
    BY <2>4 DEF CloseTable, ToolStates, file
  <2>5. CASE StampSize(t)
    BY <2>5 DEF StampSize, ToolStates
  <2>6. CASE StampSeq(t)
    BY <2>6 DEF StampSeq, ToolStates
  <2> QED
    BY <2>1, <2>2, <2>3, <2>4, <2>5, <2>6
<1>4. LookInv'
  BY DEF LookInv, OpenTable, ZeroFile, StampHeader, StampSize, StampSeq, CloseTable
<1> QED
  BY <1>3, <1>4

\* So does choosing what to write.
LEMMA StartTypeInv ==
  ASSUME TypeInv, NEW t \in Tools, NEW j \in Job, StartWrite(t, j)
  PROVE  TypeInv'
<1> USE DEF TypeInv, StartWrite, ToolAt, wvars, file
<1>1. TypeOK'
  BY TableAssumption DEF TypeOK, ToolStates
<1>2. LookInv'
  BY DEF LookInv
<1> QED
  BY <1>1, <1>2

LEMMA OperationTypeInv ==
  ASSUME TypeInv, NEW t \in Tools,
         \/ \E s \in Sites, until \in Untils : Set(t, s, until)
         \/ \E s \in Sites : Clear(t, s)
         \/ Expire(t)
  PROVE  TypeInv'
<1> USE TableAssumption DEF TypeInv
<1>1. ASSUME NEW s \in Sites, NEW until \in Untils, Set(t, s, until)
      PROVE  TypeInv'
  <2>1. SetSlot(s) \in 1 .. MaxEntries /\ ops + 1 \in Rule
    BY <1>1, SetSlotTyped DEF Set, StartWrite, TypeOK, Rule
  <2>2. [site |-> s, until |-> until, active |-> TRUE, rule |-> ops + 1] \in Entry
    BY <2>1 DEF Entry, Time
  <2>3. SetJob(s, until) \in Job
    BY <2>1, <2>2 DEF SetJob, Job, TypeOK
  <2> QED
    BY <1>1, <2>3, StartTypeInv DEF Set
<1>2. ASSUME NEW s \in Sites \cup {NoSite}, NEW off \in SUBSET (1 .. MaxEntries),
             StartWrite(t, OffJob(s, off))
      PROVE  TypeInv'
  <2>1. OffJob(s, off) \in Job
    BY DEF OffJob, Job, Entry, Time, Rule, NoRule
  <2> QED
    BY <1>2, <2>1, StartTypeInv
<1>3. ASSUME NEW s \in Sites, Clear(t, s)
      PROVE  TypeInv'
  <2> DEFINE live == {i \in OfSite(s) : slots[i].until # 0}
  <2>1. live # {} /\ live \in SUBSET Nat /\ live \subseteq 1 .. MaxEntries
    BY <1>3 DEF Clear, OfSite, TypeOK
  <2>2. Min(live) \in 1 .. MaxEntries
    BY <2>1, MinOf
  <2> QED
    BY <1>2, <1>3, <2>2 DEF Clear
<1>4. CASE Expire(t)
  <2>1. Expired \in SUBSET (1 .. MaxEntries)
    BY DEF Expired, TypeOK
  <2> QED
    BY <1>2, <1>4, <2>1 DEF Expire
<1> QED
  BY <1>1, <1>3, <1>4

\* And storing it, wherever the process is killed.
LEMMA StoreTypeInv ==
  ASSUME TypeInv, NEW t \in Tools,
         \/ BeginLoad(t) \/ BeginStore(t) \/ EndLoad(t) \/ EndStore(t)
         \/ PutCount(t) \/ Die(t)
  PROVE  TypeInv'
<1>1. InUse \in [1 .. MaxEntries -> Entry]
  BY InUseTyped DEF TypeInv
<1>2. NoJob \in Job
  BY TableAssumption DEF NoJob, Job, ZeroEntry, Entry, Time, Rule, NoRule
<1> USE DEF TypeInv, TypeOK, ToolAt, wvars, rest, file
<1>3. TypeOK'
  <2> USE DEF ToolStates, Body
  <2>1. CASE BeginLoad(t)
    BY <2>1 DEF BeginLoad
  <2>2. CASE BeginStore(t)
    BY <2>2 DEF BeginStore
  <2>3. CASE EndLoad(t)
    BY <2>3 DEF EndLoad
  <2>4. CASE EndStore(t)
    BY <2>4, <1>1, <1>2 DEF EndStore
  <2>5. CASE PutCount(t)
    BY <2>5 DEF PutCount, Job
  <2>6. CASE Die(t)
    BY <2>6, <1>1, <1>2 DEF Die
  <2> QED
    BY <2>1, <2>2, <2>3, <2>4, <2>5, <2>6
<1>4. LookInv'
  BY DEF LookInv, BeginLoad, BeginStore, EndLoad, EndStore, PutCount, Die
<1> QED
  BY <1>3, <1>4

\* An entry with one field changed is an entry.
LEMMA FieldTyped ==
  ASSUME NEW e \in Entry, NEW f \in Entry
  PROVE  /\ [e EXCEPT !.site = f.site] \in Entry
         /\ [e EXCEPT !.until = f.until] \in Entry
         /\ [e EXCEPT !.until = 0] \in Entry
         /\ [e EXCEPT !.active = TRUE] \in Entry
         /\ [e EXCEPT !.active = FALSE] \in Entry
         /\ [e EXCEPT !.rule = f.rule] \in Entry
<1>1. 0 \in Time
  BY TableAssumption DEF Time
<1> QED
  BY <1>1 DEF Entry

\* A store into an entry keeps the types when what it stores is an entry.
LEMMA PutTypeInv ==
  ASSUME TypeInv, NEW t \in Tools, NEW i, NEW from, NEW to \in ToolStates, NEW e,
         i \in 1 .. MaxEntries => e \in Entry,
         Put(t, i, from, to, e), job' \in [Tools -> Job]
  PROVE  TypeInv'
<1> USE DEF TypeInv, Put, ToolAt, wvars, rest
<1>1. slots' \in [1 .. MaxEntries -> Entry]
  BY DEF TypeOK
<1>2. TypeOK'
  BY <1>1 DEF TypeOK
<1>3. LookInv'
  BY DEF LookInv
<1> QED
  BY <1>2, <1>3

LEMMA EntryTypeInv ==
  ASSUME TypeInv, NEW t \in Tools,
         \/ Wipe(t) \/ PutHash(t) \/ PutUntil(t) \/ PutFlags(t) \/ PutRule(t)
         \/ OffFlags(t) \/ OffUntil(t)
  PROVE  TypeInv'
<1> DEFINE i == job[t].slot
           k == Min(job[t].off)
<1>1. job \in [Tools -> Job] /\ job[t] \in Job /\ job[t].entry \in Entry
  BY DEF TypeInv, TypeOK, Job
<1>2. ASSUME NEW n \in 1 .. MaxEntries
      PROVE  /\ slots[n] \in Entry
             /\ [slots[n] EXCEPT !.site = job[t].entry.site] \in Entry
             /\ [slots[n] EXCEPT !.until = job[t].entry.until] \in Entry
             /\ [slots[n] EXCEPT !.active = TRUE] \in Entry
             /\ [slots[n] EXCEPT !.rule = job[t].entry.rule] \in Entry
             /\ [slots[n] EXCEPT !.active = FALSE] \in Entry
             /\ [slots[n] EXCEPT !.until = 0] \in Entry
  <2>1. slots[n] \in Entry
    BY DEF TypeInv, TypeOK
  <2> QED
    BY <1>1, <2>1, FieldTyped
<1>3. \A s \in Body : s \in ToolStates
  BY DEF ToolStates
<1> USE <1>1, <1>3 DEF Body
<1>4. CASE Wipe(t)
  <2>1. ZeroEntry \in Entry
    BY TableAssumption DEF ZeroEntry, Entry, Time, Rule, NoRule
  <2> QED
    BY <1>4, <2>1, PutTypeInv DEF Wipe
<1>5. CASE PutHash(t)
  BY <1>5, <1>2, PutTypeInv DEF PutHash
<1>6. CASE PutUntil(t)
  BY <1>6, <1>2, PutTypeInv DEF PutUntil
<1>7. CASE PutFlags(t)
  BY <1>7, <1>2, PutTypeInv DEF PutFlags
<1>8. CASE PutRule(t)
  BY <1>8, <1>2, PutTypeInv DEF PutRule
<1>9. CASE OffFlags(t)
  BY <1>9, <1>2, PutTypeInv DEF OffFlags
<1>10. CASE OffUntil(t)
  <2>1. job' \in [Tools -> Job]
    BY <1>10 DEF OffUntil, Job
  <2> QED
    BY <1>10, <2>1, <1>2, PutTypeInv DEF OffUntil
<1> QED
  BY <1>4, <1>5, <1>6, <1>7, <1>8, <1>9, <1>10

\* A lookup with two fields changed keeps the others.
LEMMA StampFields ==
  ASSUME NEW l \in Lookup, NEW q \in Nat, NEW f \in Rule
  PROVE  [l EXCEPT !.seq = q, !.due = f] =
           [site |-> l.site, now |-> l.now, try |-> l.try, seq |-> q,
            count |-> l.count, at |-> l.at, found |-> l.found, due |-> f]
<1> DEFINE k == [l EXCEPT !.seq = q]
<1>1. k \in Lookup /\ k = [site |-> l.site, now |-> l.now, try |-> l.try, seq |-> q,
                          count |-> l.count, at |-> l.at, found |-> l.found, due |-> l.due]
  BY DEF Lookup
<1> HIDE DEF k
<1>2. [k EXCEPT !.due = f] = [site |-> k.site, now |-> k.now, try |-> k.try, seq |-> k.seq,
                             count |-> k.count, at |-> k.at, found |-> k.found, due |-> f]
  BY <1>1 DEF Lookup
<1> QED
  BY <1>1, <1>2 DEF k

LEMMA CountFields ==
  ASSUME NEW l \in Lookup, NEW n \in 0 .. MaxEntries, NEW a \in 0 .. MaxEntries + 1
  PROVE  [l EXCEPT !.count = n, !.at = a] =
           [site |-> l.site, now |-> l.now, try |-> l.try, seq |-> l.seq,
            count |-> n, at |-> a, found |-> l.found, due |-> l.due]
<1> DEFINE k == [l EXCEPT !.count = n]
<1>1. k \in Lookup /\ k = [site |-> l.site, now |-> l.now, try |-> l.try, seq |-> l.seq,
                          count |-> n, at |-> l.at, found |-> l.found, due |-> l.due]
  BY DEF Lookup
<1> HIDE DEF k
<1>2. [k EXCEPT !.at = a] = [site |-> k.site, now |-> k.now, try |-> k.try, seq |-> k.seq,
                             count |-> k.count, at |-> a, found |-> k.found, due |-> k.due]
  BY <1>1 DEF Lookup
<1> QED
  BY <1>1, <1>2 DEF k

LEMMA FoundFields ==
  ASSUME NEW l \in Lookup, NEW a \in 0 .. MaxEntries + 1, NEW f \in Rule
  PROVE  [l EXCEPT !.at = a, !.found = f] =
           [site |-> l.site, now |-> l.now, try |-> l.try, seq |-> l.seq,
            count |-> l.count, at |-> a, found |-> f, due |-> l.due]
<1> DEFINE k == [l EXCEPT !.at = a]
<1>1. k \in Lookup /\ k = [site |-> l.site, now |-> l.now, try |-> l.try, seq |-> l.seq,
                          count |-> l.count, at |-> a, found |-> l.found, due |-> l.due]
  BY DEF Lookup
<1> HIDE DEF k
<1>2. [k EXCEPT !.found = f] = [site |-> k.site, now |-> k.now, try |-> k.try, seq |-> k.seq,
                             count |-> k.count, at |-> k.at, found |-> f, due |-> k.due]
  BY <1>1 DEF Lookup
<1> QED
  BY <1>1, <1>2 DEF k

\* A worker's steps keep the types.
LEMMA WorkerTypeInv ==
  ASSUME TypeInv, NEW w \in Workers, WorkerStep(w)
  PROVE  TypeInv'
<1>1. look[w] \in Lookup /\ look[w].try < Attempts /\ now \in Time /\ lookups[w] \in Nat
  BY DEF TypeInv, TypeOK, LookInv
<1>a. look[w].count \in 0 .. MaxEntries
  BY <1>1 DEF Lookup
<1>2. ASSUME file' = file, tools' = tools, rest' = rest,
             \E to \in WorkerStates : wpc' = [wpc EXCEPT ![w] = to],
             lookups' \in [Workers -> Nat],
             \E l \in Lookup :
               /\ look' = [look EXCEPT ![w] = l]
               /\ l.try < Attempts
               /\ wpc'[w] \in {"compare", "copy"} => l.at \in 1 .. l.count
      PROVE  TypeInv'
  <2> USE <1>2 DEF TypeInv
  <2>1. TypeOK'
    BY DEF TypeOK, file, tools, rest
  <2>2. LookInv'
    BY DEF LookInv, TypeOK
  <2> QED
    BY <2>1, <2>2
<1>3. CASE Map(w)
  <2>1. look' = [look EXCEPT ![w] = look[w]] /\ lookups' \in [Workers -> Nat]
    BY <1>3 DEF Map, TypeInv, TypeOK
  <2> QED
    BY <1>1, <1>2, <1>3, <2>1 DEF Map, WorkerAt, WorkerStates, TypeInv, TypeOK
<1>4. ASSUME NEW s \in Sites, StartLookup(w, s)
      PROVE  TypeInv'
  <2> DEFINE l == Attempt(s, now, 0)
  <2>1. l \in Lookup /\ l.try < Attempts
    BY <1>1, TableAssumption DEF Attempt, Returned, NoLookup, Lookup, Rule, NoRule, Attempts, Time
  <2>2. lookups' \in [Workers -> Nat]
    BY <1>4 DEF StartLookup, TypeInv, TypeOK
  <2>3. wpc' = [wpc EXCEPT ![w] = "seq"] /\ wpc'[w] = "seq"
    BY <1>4 DEF StartLookup, WorkerAt, TypeInv, TypeOK
  <2> HIDE DEF l
  <2>4. look' = [look EXCEPT ![w] = l]
    BY <1>4 DEF StartLookup, l
  <2> QED
    BY <1>2, <1>4, <2>1, <2>2, <2>3, <2>4 DEF StartLookup, WorkerAt, WorkerStates
<1>5. ASSUME NEW from, Retry(w, from)
      PROVE  TypeInv'
  <2> DEFINE l == IF look[w].try + 1 = Attempts THEN NoLookup
                  ELSE Attempt(look[w].site, look[w].now, look[w].try + 1)
  <2>1. l \in Lookup /\ l.try < Attempts
    BY <1>1, TableAssumption DEF Attempt, Returned, NoLookup, Lookup, Rule, NoRule, Attempts, Time
  <2>2. lookups' \in [Workers -> Nat]
    BY <1>5 DEF Retry, TypeInv, TypeOK
  <2>3. \E to \in {"seq", "gaveUp"} : wpc' = [wpc EXCEPT ![w] = to] /\ wpc'[w] = to
    BY <1>5 DEF Retry, WorkerAt, TypeInv, TypeOK
  <2> HIDE DEF l
  <2>4. look' = [look EXCEPT ![w] = l]
    BY <1>5 DEF Retry, l
  <2> QED
    BY <1>2, <1>5, <2>1, <2>2, <2>3, <2>4 DEF Retry, WorkerAt, WorkerStates
<1>6. CASE LoadSeq(w)
  <2> DEFINE d == RuleOf(stable, look[w].site, look[w].now)
             l == [look[w] EXCEPT !.seq = seq, !.due = d]
  <2>1. d \in Rule
    BY RuleOfTyped DEF TypeInv, TypeOK
  <2> HIDE DEF d
  <2>2. l \in Lookup /\ l.try < Attempts
    BY <1>1, <2>1 DEF Lookup, TypeInv, TypeOK
  <2>3. look' = [look EXCEPT ![w] = l]
    BY <1>6 DEF LoadSeq, TypeInv, TypeOK, d
  <2>4. lookups' \in [Workers -> Nat] /\ wpc' = [wpc EXCEPT ![w] = "count"] /\ wpc'[w] = "count"
    BY <1>6 DEF LoadSeq, WorkerAt, TypeInv, TypeOK
  <2> HIDE DEF l
  <2> QED
    BY <1>2, <1>6, <2>2, <2>3, <2>4 DEF LoadSeq, WorkerAt, WorkerStates
<1>7. CASE LoadCount(w)
  <2> DEFINE l == [look[w] EXCEPT !.count = count, !.at = 1]
  <2>1. l \in Lookup /\ l.try < Attempts /\ (count # 0 => l.at \in 1 .. l.count)
    <3>1. seq \in Nat /\ count \in 0 .. MaxEntries /\ 1 \in 0 .. MaxEntries + 1 /\ NoRule \in Rule
      BY TableAssumption DEF TypeInv, TypeOK, Rule, NoRule
    <3>2. l = [site |-> look[w].site, now |-> look[w].now, try |-> look[w].try,
               seq |-> look[w].seq, count |-> count, at |-> 1,
               found |-> look[w].found, due |-> look[w].due]
      BY <1>1, <3>1, CountFields, Zenon
    <3> QED
      BY <1>1, <3>1, <3>2 DEF Lookup
  <2>2. look' = [look EXCEPT ![w] = l]
    BY <1>7 DEF LoadCount, TypeInv, TypeOK
  <2>3. lookups' \in [Workers -> Nat]
    BY <1>7 DEF LoadCount, TypeInv, TypeOK
  <2>4. \E to \in WorkerStates :
          wpc' = [wpc EXCEPT ![w] = to] /\ wpc'[w] = to /\ (to = "compare" => count # 0) /\ to # "copy"
    BY <1>7 DEF LoadCount, WorkerAt, WorkerStates, TypeInv, TypeOK
  <2> HIDE DEF l
  <2> QED
    BY <1>2, <1>7, <2>1, <2>2, <2>3, <2>4 DEF LoadCount, WorkerAt
<1>8. ASSUME Pass(w) \/ CopyEntry(w) PROVE TypeInv'
  <2> DEFINE onto == [look[w] EXCEPT !.at = @ + 1]
  <2>1. wpc[w] \in {"compare", "copy"} /\ look[w].at \in 1 .. look[w].count
    BY <1>8 DEF Pass, CopyEntry, WorkerAt, TypeInv, LookInv
  <2>2. PICK f \in Rule : look' = [look EXCEPT ![w] = [look[w] EXCEPT !.at = @ + 1, !.found = f]]
    <3>1. CASE Pass(w)
      <4>1. look' = [look EXCEPT ![w] = [look[w] EXCEPT !.at = @ + 1, !.found = look[w].found]]
        BY <1>1, <3>1 DEF Pass, Lookup, TypeInv, TypeOK
      <4> QED
        BY <1>1, <4>1 DEF Lookup
    <3>2. CASE CopyEntry(w)
      <4>1. slots[look[w].at] \in Entry
        BY <1>a, <2>1, TableAssumption DEF TypeInv, TypeOK
      <4>2. slots[look[w].at].rule \in Rule /\ NoRule \in Rule
        BY <4>1, TableAssumption DEF Entry, Rule, NoRule
      <4> QED
        BY <3>2, <4>2 DEF CopyEntry, TypeInv, TypeOK
    <3> QED
      BY <1>8, <3>1, <3>2
  <2> DEFINE l == [look[w] EXCEPT !.at = @ + 1, !.found = f]
  <2>3. l \in Lookup /\ l.try < Attempts /\ (look[w].at < look[w].count => l.at \in 1 .. l.count)
    <3>1. look[w].at + 1 \in 0 .. MaxEntries + 1
      BY <1>a, <2>1, TableAssumption
    <3>2. /\ l \in Lookup
          /\ l.at = look[w].at + 1 /\ l.count = look[w].count /\ l.try = look[w].try
      BY <1>1, <3>1, FoundFields DEF Lookup
    <3> QED
      BY <1>1, <1>a, <2>1, <3>2
  <2>4. lookups' \in [Workers -> Nat]
    BY <1>8 DEF Pass, CopyEntry, TypeInv, TypeOK
  <2>5. \E to \in WorkerStates :
          /\ wpc' = [wpc EXCEPT ![w] = to]
          /\ wpc'[w] = to
          /\ to = "compare" => look[w].at < look[w].count
          /\ to # "copy"
    BY <1>8 DEF Pass, CopyEntry, Onward, WorkerAt, WorkerStates, TypeInv, TypeOK
  <2> HIDE DEF l
  <2>6. look' = [look EXCEPT ![w] = l]
    BY <2>2 DEF l
  <2> QED
    BY <1>2, <1>8, <2>3, <2>4, <2>5, <2>6 DEF Pass, CopyEntry, WorkerAt
<1>9. CASE Candidate(w)
  <2>1. look' = [look EXCEPT ![w] = look[w]] /\ lookups' \in [Workers -> Nat]
    BY <1>9 DEF Candidate, TypeInv, TypeOK
  <2>2. look[w].at \in 1 .. look[w].count
    BY <1>9 DEF Candidate, WorkerAt, TypeInv, LookInv
  <2> QED
    BY <1>1, <1>2, <1>9, <2>1, <2>2 DEF Candidate, WorkerAt, WorkerStates
<1>10. CASE Accept(w)
  <2> DEFINE l == Returned(look[w].found, look[w].due)
  <2>1. l \in Lookup /\ l.try < Attempts
    BY <1>1, TableAssumption DEF Attempt, Returned, NoLookup, Lookup, Rule, NoRule, Attempts, Time
  <2>2. lookups' \in [Workers -> Nat] /\ wpc' = [wpc EXCEPT ![w] = "answered"] /\ wpc'[w] = "answered"
    BY <1>10 DEF Accept, Answer, WorkerAt, TypeInv, TypeOK
  <2> HIDE DEF l
  <2>3. look' = [look EXCEPT ![w] = l]
    BY <1>10 DEF Accept, Answer, l
  <2> QED
    BY <1>2, <1>10, <2>1, <2>2, <2>3 DEF Accept, Answer, WorkerAt, WorkerStates
<1> QED
  BY <1>3, <1>4, <1>5, <1>6, <1>7, <1>8, <1>9, <1>10 DEF WorkerStep, Busy, Torn

\* Every step keeps the types.
LEMMA StepTypeInv == TypeInv /\ [Next]_vars => TypeInv'
<1> SUFFICES ASSUME TypeInv, [Next]_vars PROVE TypeInv'
  OBVIOUS
<1>1. ASSUME NEW t \in Tools, ToolStep(t) PROVE TypeInv'
  BY <1>1, IdleTypeInv, OperationTypeInv, StoreTypeInv, EntryTypeInv DEF ToolStep
<1>2. ASSUME NEW w \in Workers, WorkerStep(w) PROVE TypeInv'
  BY <1>2, WorkerTypeInv
<1>3. CASE Tick
  BY <1>3, TableAssumption DEF Tick, TypeInv, TypeOK, LookInv, Time, file, tools, wvars
<1>4. CASE UNCHANGED vars
  BY <1>4 DEF TypeInv, TypeOK, LookInv, vars, file, tools, wvars, rest
<1> QED
  BY <1>1, <1>2, <1>3, <1>4 DEF Next

\* The table, its writers and its readers always have the form the code gives them:
\* however many tools write at once, no slot number, entry or scan leaves its range
\* (control_table.go indexes the mapping with them unchecked).
THEOREM TypeCorrect == Spec => []TypeOK
<1>1. TypeInv => TypeOK
  BY DEF TypeInv
<1> QED
  BY <1>1, InitTypeInv, StepTypeInv, PTL DEF Spec

-----------------------------------------------------------------------------
(* The seqlock, while one tool at a time writes it.                        *)

\* The three groups of tool steps that differ only in what they store.
Starts(t) ==
  \/ \E s \in Sites, until \in Untils : Set(t, s, until)
  \/ \E s \in Sites : Clear(t, s)
  \/ Expire(t)

Puts(t) ==
  \/ Wipe(t) \/ PutHash(t) \/ PutUntil(t) \/ PutFlags(t) \/ PutRule(t)
  \/ OffFlags(t) \/ OffUntil(t)

LEMMA StartsEffect ==
  ASSUME NEW t \in Tools, Starts(t)
  PROVE  /\ ToolAt(t, "idle", "beginLoad")
         /\ collided' = (collided \/ \E u \in Tools : Inside(u))
         /\ \E j : job' = [job EXCEPT ![t] = j]
         /\ UNCHANGED <<file, loaded, wvars, now, stable, broken>>
<1>1. ASSUME NEW j, StartWrite(t, j)
      PROVE  /\ ToolAt(t, "idle", "beginLoad")
             /\ collided' = (collided \/ \E u \in Tools : Inside(u))
             /\ job' = [job EXCEPT ![t] = j]
             /\ UNCHANGED <<file, loaded, wvars, now, stable, broken>>
  BY <1>1 DEF StartWrite
<1>2. \E j : StartWrite(t, j)
  BY DEF Starts, Set, Clear, Expire
<1> QED
  BY <1>1, <1>2

LEMMA PutsEffect ==
  ASSUME NEW t \in Tools, Puts(t)
  PROVE  /\ \E from \in Body, to \in Body \ {"endStore"} : ToolAt(t, from, to)
         /\ UNCHANGED <<sized, magic, fits, seq, count, loaded, wvars, rest>>
<1>2. CASE Wipe(t)
  BY <1>2 DEF Wipe, Put, Body
<1>3. CASE PutHash(t)
  BY <1>3 DEF PutHash, Put, Body
<1>4. CASE PutUntil(t)
  BY <1>4 DEF PutUntil, Put, Body
<1>5. CASE PutFlags(t)
  BY <1>5 DEF PutFlags, Put, Body
<1>6. CASE PutRule(t)
  BY <1>6 DEF PutRule, Put, Body
<1>7. CASE OffFlags(t)
  BY <1>7 DEF OffFlags, Put, Body
<1>8. CASE OffUntil(t)
  BY <1>8 DEF OffUntil, Put, Body
<1> QED
  BY <1>2, <1>3, <1>4, <1>5, <1>6, <1>7, <1>8 DEF Puts

\* Steps of workers and of the clock leave the table and its writers alone.
LEMMA ReadersEffect ==
  ASSUME \/ \E w \in Workers : WorkerStep(w)
         \/ Tick
         \/ UNCHANGED vars
  PROVE  UNCHANGED <<file, tools, stable, broken, collided>>
<1>1. ASSUME NEW w \in Workers, WorkerStep(w)
      PROVE  UNCHANGED <<file, tools, rest>>
  BY <1>1 DEF WorkerStep, Map, StartLookup, Busy, LoadSeq, LoadCount, Pass, Candidate,
     CopyEntry, Accept, Answer, Torn, Retry, WorkerAt
<1> QED
  BY <1>1 DEF Tick, vars, rest

\* A tool that takes a step leaves the others where they are, and its own step is quiet
\* unless it is inside an operation before or after it.
LEMMA StepAlone ==
  ASSUME TypeOK, Alone, [Next]_vars, ~collided'
  PROVE  /\ Alone' /\ ~collided
         /\ \A t \in Tools : ToolStep(t) => Lone(t) \/ Quiet(t)
<1>1. /\ tpc \in [Tools -> ToolStates] /\ job \in [Tools -> Job] /\ loaded \in [Tools -> Nat]
      /\ sized \in BOOLEAN /\ magic \in BOOLEAN /\ broken \in BOOLEAN
  BY DEF TypeOK
<1>2. ASSUME NEW t \in Tools, ToolStep(t)
      PROVE  OthersStay(t) /\ ~collided /\ (Lone(t) \/ Quiet(t)) /\ Alone'
  <2> USE <1>1 DEF ToolAt, OthersStay
  <2>1. ASSUME ~collided, OthersStay(t), Inside(t)
        PROVE  Lone(t) /\ Alone'
    BY <2>1 DEF Alone, Inside, Lone
  <2>2. ASSUME OthersStay(t), \A u \in Tools : ~Inside(u)
        PROVE  Lone(t) /\ Alone'
    BY <2>2 DEF Alone, Inside, Lone
  <2>3. ASSUME Quiet(t) PROVE Alone'
    BY <2>3 DEF Alone, Inside, Quiet
  <2>4. CASE OpenTable(t)
    <3>1. OthersStay(t) /\ ~collided
      BY <2>4 DEF OpenTable
    <3>2. CASE sized /\ magic
      <4>1. Quiet(t)
        BY <2>4, <3>1, <3>2 DEF OpenTable, Quiet, file
      <4> QED
        BY <2>3, <3>1, <4>1
    <3>3. CASE ~(sized /\ magic)
      <4>1. tpc'[t] = "zero"
        BY <2>4, <3>3 DEF OpenTable
      <4>2. \A u \in Tools : ~Inside(u)
        BY <2>4, <4>1 DEF OpenTable, Inside
      <4> QED
        BY <2>2, <3>1, <4>2
    <3> QED
      BY <3>2, <3>3
  <2>5. CASE ZeroFile(t) \/ StampHeader(t) \/ StampSize(t) \/ StampSeq(t)
    <3>1. OthersStay(t) /\ ~collided /\ Inside(t)
      BY <2>5 DEF ZeroFile, StampHeader, StampSize, StampSeq, Inside, rest
    <3> QED
      BY <2>1, <3>1
  <2>6. CASE CloseTable(t)
    <3>1. OthersStay(t) /\ ~collided /\ Quiet(t)
      BY <2>6 DEF CloseTable, Quiet, rest
    <3> QED
      BY <2>3, <3>1
  <2>7. CASE Starts(t)
    <3>1. OthersStay(t) /\ ~collided /\ \A u \in Tools : ~Inside(u)
      BY <2>7, StartsEffect
    <3> QED
      BY <2>2, <3>1
  <2>8. CASE BeginLoad(t) \/ EndLoad(t) \/ BeginStore(t) \/ EndStore(t) \/ PutCount(t)
    <3>1. OthersStay(t) /\ ~collided /\ Inside(t)
      BY <2>8 DEF BeginLoad, EndLoad, BeginStore, EndStore, PutCount, Inside, rest
    <3> QED
      BY <2>1, <3>1
  <2>9. CASE Puts(t)
    <3>1. ~collided /\ tpc[t] \in Body /\ loaded' = loaded
          /\ \A u \in Tools : u # t => tpc'[u] = tpc[u]
      BY <2>9, PutsEffect DEF rest
    <3>2. \A u \in Tools : u # t => job'[u] = job[u]
      BY <2>9 DEF Puts, Wipe, PutHash, PutUntil, PutFlags, PutRule, OffFlags, OffUntil
    <3> QED
      BY <2>1, <3>1, <3>2 DEF Inside, Body
  <2>10. CASE Die(t)
    <3>1. OthersStay(t) /\ ~collided
      BY <2>10 DEF Die
    <3>2. CASE tpc[t] = "idle"
      <4>1. Quiet(t)
        BY <2>10, <3>1, <3>2 DEF Die, Quiet, Body
      <4> QED
        BY <2>3, <3>1, <4>1
    <3>3. CASE tpc[t] # "idle"
      BY <2>1, <2>10, <3>1, <3>3 DEF Die, Inside
    <3> QED
      BY <3>2, <3>3
  <2> QED
    BY <1>2, <2>4, <2>5, <2>6, <2>7, <2>8, <2>9, <2>10 DEF ToolStep, Starts, Puts
<1>3. CASE ~ \E t \in Tools : ToolStep(t)
  <2>1. UNCHANGED <<tpc, collided>>
    BY <1>3, ReadersEffect DEF Next, tools
  <2> QED
    BY <1>3, <2>1 DEF Alone, Inside
<1> QED
  BY <1>2, <1>3

\* The parity of seq, and the value about to be stored, survive every step.
LEMMA StepSeqInv ==
  ASSUME Alone, ~collided', TypeInv, SeqInv, HeaderInv, [Next]_vars
  PROVE  SeqInv'
<1>1. ASSUME NEW t \in Tools, ToolStep(t), Lone(t) PROVE SeqInv'
  <2>1. /\ \A u \in Tools : u # t =>
             tpc[u] \in {"closed", "idle"} /\ tpc'[u] = tpc[u]
        /\ seq \in Nat /\ tpc \in [Tools -> ToolStates] /\ loaded \in [Tools -> Nat]
        /\ broken \in BOOLEAN
    BY <1>1 DEF Lone, OthersStay, TypeInv, TypeOK
  <2>2. /\ Writing <=> tpc[t] \in Body
        /\ Writing' <=> tpc'[t] \in Body
    BY <2>1 DEF Writing, Body
  <2>3. ASSUME tpc'[t] \in {"beginStore", "endStore"} => loaded'[t] = seq',
               tpc'[t] \in {"stamp", "stampSize", "stampSeq"} => seq' = 0,
               ~broken' => ((seq' % 2 = 1) <=> tpc'[t] \in Body)
        PROVE  SeqInv'
    BY <2>1, <2>2, <2>3 DEF SeqInv, SeqFollows
  <2>4. /\ tpc[t] \in {"beginStore", "endStore"} => loaded[t] = seq
        /\ tpc[t] \in {"stamp", "stampSize", "stampSeq"} => seq = 0
        /\ ~broken => ((seq % 2 = 1) <=> tpc[t] \in Body)
    BY <2>2 DEF SeqInv, SeqFollows
  <2> USE <2>1, <2>3, <2>4 DEF ToolAt, rest, Body
  <2>5. CASE OpenTable(t)
    BY <2>5 DEF OpenTable
  <2>6. CASE ZeroFile(t)
    BY <2>6 DEF ZeroFile
  <2>7. CASE StampHeader(t) \/ StampSize(t) \/ StampSeq(t)
    BY <2>7 DEF StampHeader, StampSize, StampSeq
  <2>8. CASE CloseTable(t)
    BY <2>8 DEF CloseTable, file
  <2>9. CASE Starts(t)
    BY <2>9, StartsEffect DEF file
  <2>10. CASE BeginLoad(t)
    BY <2>10 DEF BeginLoad, file
  <2>11. CASE BeginStore(t)
    BY <2>11 DEF BeginStore
  <2>12. CASE EndLoad(t)
    BY <2>12 DEF EndLoad, file
  <2>13. CASE EndStore(t)
    BY <2>13 DEF EndStore
  <2>14. CASE Puts(t)
    BY <2>14, PutsEffect
  <2>15. CASE PutCount(t)
    BY <2>15 DEF PutCount
  <2>16. CASE Die(t)
    BY <2>16 DEF Die, file
  <2> QED
    BY <1>1, <2>5, <2>6, <2>7, <2>8, <2>9, <2>10, <2>11, <2>12, <2>13, <2>14, <2>15, <2>16
       DEF ToolStep, Starts, Puts
<1>2. CASE ~ \E t \in Tools : ToolStep(t)
  <2>1. UNCHANGED <<file, tools, stable, broken>>
    BY <1>2, ReadersEffect DEF Next
  <2> QED
    BY <2>1 DEF SeqInv, SeqFollows, Writing, file, tools
<1>3. ASSUME NEW t \in Tools, Quiet(t) PROVE SeqInv'
  <2>1. Writing' <=> Writing
    BY <1>3 DEF Quiet, OthersStay, Writing, Body
  <2> QED
    BY <1>3, <2>1 DEF Quiet, OthersStay, SeqInv, SeqFollows, file
<1> QED
  BY <1>1, <1>2, <1>3, StepAlone DEF TypeInv

\* The header is initialised once, before any worker maps the file.
LEMMA StepHeaderInv ==
  ASSUME Alone, ~collided', TypeInv, HeaderInv, [Next]_vars
  PROVE  HeaderInv'
<1>1. ASSUME NEW t \in Tools, ToolStep(t), Lone(t) PROVE HeaderInv'
  <2>1. /\ \A u \in Tools : u # t =>
             tpc[u] \in {"closed", "idle"} /\ tpc'[u] = tpc[u]
        /\ tpc \in [Tools -> ToolStates] /\ magic \in BOOLEAN /\ sized \in BOOLEAN
    BY <1>1 DEF Lone, OthersStay, TypeInv, TypeOK
  <2>2. ASSUME tpc'[t] # "closed" => sized', sized => sized',
               magic' => sized' /\ tpc'[t] \notin {"zero", "stamp"},
               ~magic' => ~magic /\ ~fits' /\ tpc'[t] \in {"closed", "zero", "stamp"},
               ~fits' => ~fits, wpc' = wpc
        PROVE  HeaderInv'
    BY <2>1, <2>2 DEF HeaderInv
  <2>3. /\ tpc[t] # "closed" => sized
        /\ magic => sized /\ tpc[t] \notin {"zero", "stamp"}
        /\ ~magic => ~fits /\ tpc[t] \in {"closed", "zero", "stamp"}
    BY DEF HeaderInv
  <2> USE <2>1, <2>2, <2>3 DEF ToolAt, wvars, Body
  <2>4. CASE OpenTable(t)
    BY <2>4 DEF OpenTable
  <2>5. CASE ZeroFile(t)
    BY <2>5 DEF ZeroFile
  <2>6. CASE StampHeader(t) \/ StampSize(t) \/ StampSeq(t)
    BY <2>6 DEF StampHeader, StampSize, StampSeq, HeaderInv
  <2>7. CASE CloseTable(t)
    BY <2>7 DEF CloseTable, file
  <2>8. CASE Starts(t)
    BY <2>8, StartsEffect DEF file
  <2>9. CASE BeginLoad(t) \/ EndLoad(t)
    BY <2>9 DEF BeginLoad, EndLoad, file
  <2>10. CASE BeginStore(t)
    BY <2>10 DEF BeginStore
  <2>11. CASE EndStore(t)
    BY <2>11 DEF EndStore
  <2>12. CASE Puts(t)
    BY <2>12, PutsEffect
  <2>13. CASE PutCount(t)
    BY <2>13 DEF PutCount
  <2>14. CASE Die(t)
    BY <2>14 DEF Die, file
  <2> QED
    BY <1>1, <2>4, <2>5, <2>6, <2>7, <2>8, <2>9, <2>10, <2>11, <2>12, <2>13, <2>14
       DEF ToolStep, Starts, Puts
<1>2. ASSUME NEW w \in Workers, WorkerStep(w) PROVE HeaderInv'
  <2>1. magic /\ fits
    BY <1>2 DEF WorkerStep, Map, StartLookup, Busy, LoadSeq, LoadCount, Pass, Candidate,
       CopyEntry, Accept, Answer, Torn, Retry, WorkerAt, HeaderInv
  <2>2. UNCHANGED <<file, tools, stable, broken>>
    BY <1>2, ReadersEffect
  <2> QED
    BY <2>1, <2>2 DEF HeaderInv, file, tools
<1>3. CASE Tick
  BY <1>3 DEF Tick, HeaderInv, file, tools, wvars
<1>4. CASE UNCHANGED vars
  BY <1>4 DEF HeaderInv, vars, file, tools, wvars
<1>5. ASSUME NEW t \in Tools, Quiet(t) PROVE HeaderInv'
  BY <1>5 DEF HeaderInv, Quiet, OthersStay, file, wvars
<1> QED
  BY <1>1, <1>2, <1>3, <1>4, <1>5, StepAlone DEF Next, TypeInv

\* Between writes, the table is the one the last write left.
LEMMA StepStableInv ==
  ASSUME Alone, ~collided', TypeInv, HeaderInv, StableInv, [Next]_vars
  PROVE  StableInv'
<1>1. ASSUME slots' = slots, count' = count PROVE InUse' = InUse
  BY <1>1 DEF InUse
<1>2. ASSUME NEW t \in Tools, ToolStep(t), Lone(t) PROVE StableInv'
  <2>1. /\ \A u \in Tools : u # t =>
             tpc[u] \in {"closed", "idle"} /\ tpc'[u] = tpc[u]
        /\ tpc \in [Tools -> ToolStates]
    BY <1>2 DEF Lone, OthersStay, TypeInv, TypeOK
  <2>2. /\ Writing <=> tpc[t] \in Body
        /\ Writing' <=> tpc'[t] \in Body
    BY <2>1 DEF Writing, Body
  <2>3. ASSUME UNCHANGED <<magic, count, slots, stable>>, broken => broken',
               tpc[t] \in Body => tpc'[t] \in Body \/ broken'
        PROVE  StableInv'
    BY <1>1, <2>2, <2>3 DEF StableInv
  <2>4. ASSUME stable' = InUse, count' = count, slots' = slots PROVE StableInv'
    BY <1>1, <2>4 DEF StableInv
  <2>5. ASSUME tpc'[t] \in Body PROVE StableInv'
    BY <2>2, <2>5 DEF StableInv
  <2> USE <2>1 DEF ToolAt, rest
  <2>6. CASE OpenTable(t) \/ CloseTable(t)
    BY <2>3, <2>6 DEF OpenTable, CloseTable, Body, file
  <2>7. CASE ZeroFile(t)
    BY <2>7 DEF ZeroFile, StableInv
  <2>8. CASE StampHeader(t) \/ StampSize(t) \/ StampSeq(t)
    BY <2>3, <2>4, <2>8 DEF StampHeader, StampSize, StampSeq, Body
  <2>9. CASE Starts(t)
    BY <2>3, <2>9, StartsEffect DEF Body, file
  <2>10. CASE BeginLoad(t) \/ EndLoad(t)
    BY <2>3, <2>10 DEF BeginLoad, EndLoad, Body, file
  <2>11. CASE BeginStore(t)
    BY <2>5, <2>11 DEF BeginStore, Body
  <2>12. CASE EndStore(t)
    BY <2>4, <2>12 DEF EndStore
  <2>13. CASE Puts(t)
    BY <2>5, <2>13, PutsEffect
  <2>14. CASE PutCount(t)
    BY <2>5, <2>14 DEF PutCount, Body
  <2>15. CASE Die(t)
    BY <2>3, <2>15 DEF Die, StableInv, file
  <2> QED
    BY <1>2, <2>6, <2>7, <2>8, <2>9, <2>10, <2>11, <2>12, <2>13, <2>14, <2>15
       DEF ToolStep, Starts, Puts
<1>3. CASE ~ \E t \in Tools : ToolStep(t)
  <2>1. UNCHANGED <<file, tools, stable, broken>>
    BY <1>3, ReadersEffect DEF Next
  <2> QED
    BY <1>1, <2>1 DEF StableInv, Writing, file, tools
<1>4. ASSUME NEW t \in Tools, Quiet(t) PROVE StableInv'
  <2>1. Writing' <=> Writing
    BY <1>4 DEF Quiet, OthersStay, Writing, Body
  <2> QED
    BY <1>1, <1>4, <2>1 DEF Quiet, StableInv, file
<1> QED
  BY <1>2, <1>3, <1>4, StepAlone DEF TypeInv

-----------------------------------------------------------------------------
(* The scan of a worker.                                                   *)

\* In the table in use, what is live is live in a slot that the count covers.
LEMMA LiveInUse ==
  ASSUME TypeOK, NEW s, NEW n \in Time
  PROVE  /\ Live(InUse, s, n) \subseteq 1 .. count
         /\ \A i \in 1 .. count : i \in Live(InUse, s, n) <=>
              slots[i].site = s /\ slots[i].active /\ slots[i].until > n
<1>1. count \in 0 .. MaxEntries
  BY DEF TypeOK
<1>2. \A i \in 1 .. MaxEntries : InUse[i] = IF i <= count THEN slots[i] ELSE ZeroEntry
  BY DEF InUse
<1>3. ZeroEntry.active = FALSE
  BY DEF ZeroEntry
<1> QED
  BY <1>1, <1>2, <1>3, TableAssumption DEF Live

\* The first live slot is the one the table answers with.
LEMMA FirstLive ==
  ASSUME TypeOK, NEW s, NEW n \in Time, NEW i \in Live(InUse, s, n),
         \A j \in Live(InUse, s, n) : i <= j
  PROVE  RuleOf(InUse, s, n) = slots[i].rule
<1>1. i \in 1 .. count /\ count \in 0 .. MaxEntries
  BY LiveInUse DEF TypeOK
<1>2. Live(InUse, s, n) \in SUBSET Nat
  BY LiveInUse
<1>3. Min(Live(InUse, s, n)) = i
  <2>1. Min(Live(InUse, s, n)) \in Live(InUse, s, n) /\ Min(Live(InUse, s, n)) <= i
    BY <1>2, MinOf
  <2> QED
    BY <1>1, <1>2, <2>1
<1>4. InUse[i] = slots[i]
  BY <1>1, TableAssumption DEF InUse
<1> QED
  BY <1>3, <1>4 DEF RuleOf

\* A slot that is not live takes the scan one slot on, and the last one to its end.
LEMMA NotLive ==
  ASSUME TypeOK, NEW s, NEW n \in Time, NEW a \in 1 .. count,
         \A j \in Live(InUse, s, n) : a <= j,
         a \notin Live(InUse, s, n)
  PROVE  /\ \A j \in Live(InUse, s, n) : a + 1 <= j
         /\ a = count => RuleOf(InUse, s, n) = NoRule
<1>1. count \in Nat /\ Live(InUse, s, n) \subseteq 1 .. count
  BY LiveInUse, TableAssumption DEF TypeOK
<1>2. \A j \in Live(InUse, s, n) : a + 1 <= j
  BY <1>1
<1>3. a = count => Live(InUse, s, n) = {}
  BY <1>1, <1>2
<1> QED
  BY <1>2, <1>3 DEF RuleOf

\* What a tool does cannot spoil a scan that will be accepted: it moves seq on, or it
\* does not touch the table, or seq is odd meanwhile.
LEMMA ToolScanInv ==
  ASSUME TypeInv, SeqInv, HeaderInv, ScanInv, NEW t \in Tools, ToolStep(t)
  PROVE  ScanInv'
<1>1. ASSUME wpc' = wpc, look' = look PROVE (\A w \in Workers : ScanOK(w)') => ScanInv'
  BY DEF ScanInv
<1>2. /\ seq \in Nat /\ tpc \in [Tools -> ToolStates] /\ broken \in BOOLEAN
      /\ \A w \in Workers : look[w].seq \in Nat
      /\ \A w \in Workers : ScanOK(w)
      /\ tpc[t] \in Body => Writing
  BY DEF TypeInv, TypeOK, Lookup, ScanInv, Writing
<1>3. ASSUME UNCHANGED <<seq, count, slots, wpc, look>>, broken => broken'
      PROVE  ScanInv'
  <2>1. InUse' = InUse
    BY <1>3 DEF InUse
  <2>2. ASSUME NEW w \in Workers PROVE ScanOK(w)'
    BY <1>2, <1>3, <2>1 DEF ScanOK, Agrees
  <2> QED
    BY <2>2 DEF ScanInv
<1>4. ASSUME seq' = seq + 1, UNCHANGED <<wpc, look>> PROVE ScanInv'
  <2>1. ASSUME NEW w \in Workers PROVE ScanOK(w)'
    BY <1>2, <1>4 DEF ScanOK
  <2> QED
    BY <2>1 DEF ScanInv
<1>5. ASSUME tpc[t] \in Body, UNCHANGED <<seq, broken, wpc, look>> PROVE ScanInv'
  <2>1. broken \/ seq % 2 = 1
    BY <1>2, <1>5 DEF SeqInv, SeqFollows
  <2>2. ASSUME NEW w \in Workers PROVE ScanOK(w)'
    BY <1>2, <1>5, <2>1 DEF ScanOK
  <2> QED
    BY <2>2 DEF ScanInv
<1>6. ASSUME tpc[t] = "zero", wpc' = wpc PROVE ScanInv'
  <2>1. \A w \in Workers : wpc[w] = "unmapped"
    BY <1>6 DEF HeaderInv, TypeInv, TypeOK
  <2> QED
    BY <1>6, <2>1 DEF ScanInv, ScanOK
<1> USE DEF ToolAt, wvars, rest
<1>7. CASE OpenTable(t) \/ CloseTable(t)
  BY <1>3, <1>7 DEF OpenTable, CloseTable, file
<1>8. CASE ZeroFile(t)
  BY <1>6, <1>8 DEF ZeroFile
<1>16. CASE StampHeader(t) \/ StampSize(t) \/ StampSeq(t)
  BY <1>3, <1>16 DEF StampHeader, StampSize, StampSeq, SeqInv
<1>9. CASE Starts(t)
  BY <1>3, <1>9, StartsEffect DEF file
<1>10. CASE BeginLoad(t) \/ EndLoad(t)
  BY <1>3, <1>10 DEF BeginLoad, EndLoad, file
<1>11. CASE BeginStore(t)
  BY <1>4, <1>11 DEF BeginStore, SeqInv
<1>12. CASE EndStore(t)
  BY <1>4, <1>12 DEF EndStore, SeqInv
<1>13. CASE Puts(t)
  BY <1>5, <1>13, PutsEffect
<1>14. CASE PutCount(t)
  BY <1>5, <1>14 DEF PutCount, Body
<1>15. CASE Die(t)
  BY <1>3, <1>15 DEF Die, file
<1> QED
  BY <1>7, <1>8, <1>9, <1>10, <1>11, <1>12, <1>13, <1>14, <1>15, <1>16 DEF ToolStep, Starts, Puts

\* A worker that scans undisturbed finds what the table says.
LEMMA WorkerScanInv ==
  ASSUME TypeInv, SeqInv, HeaderInv, StableInv, ScanInv,
         NEW w \in Workers, WorkerStep(w)
  PROVE  ScanInv'
<1>1. /\ look[w] \in Lookup /\ look[w].now \in Time /\ look[w].seq \in Nat
      /\ seq \in Nat /\ count \in 0 .. MaxEntries /\ broken \in BOOLEAN
      /\ wpc \in [Workers -> WorkerStates] /\ look \in [Workers -> Lookup]
  BY DEF TypeInv, TypeOK, Lookup
<1>2. UNCHANGED <<seq, count, slots, broken>> /\ InUse' = InUse
  <2>1. UNCHANGED <<file, tools, stable, broken>>
    BY ReadersEffect
  <2> QED
    BY <2>1 DEF file, InUse
<1>3. \A v \in Workers : v # w => wpc'[v] = wpc[v] /\ look'[v] = look[v]
  BY <1>1 DEF WorkerStep, Map, StartLookup, Busy, LoadSeq, LoadCount, Pass, Candidate,
     CopyEntry, Accept, Answer, Torn, Retry, WorkerAt
<1>4. ASSUME ScanOK(w)' PROVE ScanInv'
  <2>1. ASSUME NEW v \in Workers, v # w PROVE ScanOK(v)'
    <3>1. wpc'[v] = wpc[v] /\ look'[v] = look[v] /\ ScanOK(v)
      BY <1>3, <2>1 DEF ScanInv
    <3> QED
      BY <1>2, <3>1 DEF ScanOK, Agrees
  <2> QED
    BY <1>4, <2>1 DEF ScanInv
<1>5. ScanOK(w)
  BY DEF ScanInv
<1> USE <1>1 DEF WorkerAt
<1>6. ASSUME Map(w) PROVE ScanOK(w)'
  <2>1. wpc'[w] = "out"
    BY <1>6 DEF Map
  <2> QED
    BY <2>1 DEF ScanOK
<1>7. ASSUME NEW s \in Sites, StartLookup(w, s) PROVE ScanOK(w)'
  <2>1. wpc'[w] = "seq" /\ look'[w].found = NoRule
    BY <1>7 DEF StartLookup, Attempt
  <2> QED
    BY <2>1 DEF ScanOK
<1>8. ASSUME NEW from, Retry(w, from) PROVE ScanOK(w)'
  <2>1. wpc'[w] \in {"seq", "gaveUp"} /\ look'[w].found = NoRule
    BY <1>8 DEF Retry, Attempt, NoLookup
  <2> QED
    BY <2>1 DEF ScanOK
<1>9. ASSUME LoadSeq(w) PROVE ScanOK(w)'
  <2> DEFINE d == RuleOf(stable, look[w].site, look[w].now)
  <2>1. /\ wpc[w] = "seq" /\ wpc'[w] = "count" /\ seq % 2 = 0
        /\ look' = [look EXCEPT ![w] = [look[w] EXCEPT !.seq = seq, !.due = d]]
    BY <1>9 DEF LoadSeq
  <2>2. d \in Rule
    BY RuleOfTyped DEF TypeInv, TypeOK
  <2>3. ~broken => stable = InUse
    <3>1. magic /\ ~(seq % 2 = 1)
      BY <2>1 DEF HeaderInv, TypeInv, TypeOK
    <3> QED
      BY <3>1 DEF SeqInv, SeqFollows, StableInv
  <2>4. ~broken => d = RuleOf(InUse, look[w].site, look[w].now)
    BY <2>3
  <2> HIDE DEF d
  <2>5. look'[w] = [site |-> look[w].site, now |-> look[w].now, try |-> look[w].try, seq |-> seq,
                    count |-> look[w].count, at |-> look[w].at, found |-> look[w].found, due |-> d]
    BY <2>1, <2>2, StampFields
  <2> QED
    BY <1>2, <1>5, <2>1, <2>4, <2>5 DEF ScanOK, Agrees
<1>10. ASSUME LoadCount(w) PROVE ScanOK(w)'
  <2>1. /\ wpc[w] = "count" /\ wpc'[w] = (IF count = 0 THEN "verify" ELSE "compare")
        /\ look' = [look EXCEPT ![w] = [look[w] EXCEPT !.count = count, !.at = 1]]
    BY <1>10 DEF LoadCount
  <2>2. 1 \in 0 .. MaxEntries + 1
    BY TableAssumption
  <2>3. look'[w] = [site |-> look[w].site, now |-> look[w].now, try |-> look[w].try, seq |-> look[w].seq,
                    count |-> count, at |-> 1, found |-> look[w].found, due |-> look[w].due]
    BY ZenonT(30), <2>1, <2>2, CountFields
  <2>4. /\ \A i \in Live(InUse, look[w].site, look[w].now) : 1 <= i
        /\ count = 0 => RuleOf(InUse, look[w].site, look[w].now) = NoRule
    <3>1. Live(InUse, look[w].site, look[w].now) \subseteq 1 .. count
      BY LiveInUse DEF TypeInv
    <3>2. count = 0 => Live(InUse, look[w].site, look[w].now) = {}
      BY <3>1
    <3> QED
      BY <3>1, <3>2 DEF RuleOf
  <2> QED
    BY <1>2, <1>5, <2>1, <2>3, <2>4 DEF ScanOK, Agrees
<1>11. ASSUME Candidate(w) PROVE ScanOK(w)'
  <2>1. /\ wpc[w] = "compare" /\ wpc'[w] = "copy" /\ look' = look
        /\ slots[look[w].at].site = look[w].site
    BY <1>11 DEF Candidate
  <2> QED
    BY <1>2, <1>5, <2>1 DEF ScanOK, Agrees
<1> DEFINE a == look[w].at
           n == look[w].now
           st == look[w].site
           quiet == ~broken /\ look[w].seq = seq
<1>12. ASSUME wpc[w] \in {"compare", "copy"}
       PROVE  /\ look[w].seq <= seq /\ look[w].seq % 2 = 0 /\ a \in 1 .. look[w].count
              /\ quiet => /\ look[w].count = count /\ look[w].found = NoRule
                          /\ look[w].due = RuleOf(InUse, st, n)
                          /\ \A i \in Live(InUse, st, n) : a <= i
  BY <1>5, <1>12 DEF ScanOK, Agrees, TypeInv, LookInv
<1>13. ASSUME wpc[w] \in {"compare", "copy"}, wpc'[w] = Onward(w),
              look'[w].site = st, look'[w].now = n, look'[w].seq = look[w].seq,
              look'[w].count = look[w].count, look'[w].due = look[w].due, look'[w].at = a + 1,
              quiet => look'[w].found = NoRule /\ a \notin Live(InUse, st, n)
       PROVE  ScanOK(w)'
  <2>1. wpc'[w] = (IF a < look[w].count THEN "compare" ELSE "verify")
    BY <1>13 DEF Onward
  <2>2. /\ look[w].seq <= seq /\ look[w].seq % 2 = 0 /\ a \in 1 .. look[w].count
    BY <1>12, <1>13
  <2>3. ASSUME quiet PROVE Agrees(w)'
    <3>1. /\ look[w].count = count /\ look[w].due = RuleOf(InUse, st, n) /\ a \in 1 .. count
          /\ \A i \in Live(InUse, st, n) : a <= i
      BY <1>12, <1>13, <2>3
    <3>2. /\ \A i \in Live(InUse, st, n) : a + 1 <= i
          /\ a = count => RuleOf(InUse, st, n) = NoRule
      BY <1>13, <2>3, <3>1, NotLive DEF TypeInv
    <3>3. wpc'[w] = "verify" => a = count
      BY <2>1, <3>1
    <3>4. wpc'[w] \in {"compare", "verify"}
      BY <2>1
    <3> QED
      BY <1>2, <1>13, <2>3, <3>1, <3>2, <3>3, <3>4 DEF Agrees
  <2> QED
    BY <1>2, <1>13, <2>1, <2>2, <2>3 DEF ScanOK
<1>14. ASSUME Pass(w) PROVE ScanOK(w)'
  <2>1. /\ wpc[w] = "compare" /\ wpc'[w] = Onward(w)
        /\ slots[a].site # st \/ slots[a].until = 0
        /\ look'[w] = [look[w] EXCEPT !.at = a + 1]
    BY <1>14 DEF Pass
  <2>2. /\ look'[w].site = st /\ look'[w].now = n /\ look'[w].seq = look[w].seq
        /\ look'[w].count = look[w].count /\ look'[w].due = look[w].due
        /\ look'[w].at = a + 1 /\ look'[w].found = look[w].found
    BY <2>1 DEF Lookup
  <2>3. quiet => a \notin Live(InUse, st, n)
    <3>1. quiet => a \in 1 .. count
      BY <1>12, <2>1
    <3>2. ~(0 > n)
      BY DEF Time
    <3> QED
      BY <2>1, <3>1, <3>2, LiveInUse DEF TypeInv
  <2> QED
    BY <1>12, <1>13, <2>1, <2>2, <2>3
<1>15. ASSUME CopyEntry(w) PROVE ScanOK(w)'
  <2> DEFINE live == slots[a].active /\ slots[a].until > n
             f == IF live THEN slots[a].rule ELSE NoRule
  <2>1. /\ wpc[w] = "copy" /\ wpc'[w] = (IF live THEN "verify" ELSE Onward(w))
        /\ look' = [look EXCEPT ![w] = [look[w] EXCEPT !.at = a + 1, !.found = f]]
    BY <1>15 DEF CopyEntry
  <2>2. a + 1 \in 0 .. MaxEntries + 1 /\ f \in Rule
    <3>1. a \in 1 .. MaxEntries
      BY <1>12, <2>1, TableAssumption DEF Lookup
    <3>2. slots[a].rule \in Rule /\ NoRule \in Rule
      BY <3>1, TableAssumption DEF TypeInv, TypeOK, Entry, Rule, NoRule
    <3>3. a + 1 \in 0 .. MaxEntries + 1
      BY <3>1, TableAssumption
    <3> QED
      BY <3>2, <3>3
  <2>3. quiet => (live <=> a \in Live(InUse, st, n))
    <3>1. quiet => a \in 1 .. count /\ slots[a].site = st
      BY <1>5, <1>12, <2>1 DEF ScanOK, Agrees
    <3> QED
      BY <3>1, LiveInUse DEF TypeInv
  <2> HIDE DEF f, live
  <2>4. look'[w] = [site |-> st, now |-> n, try |-> look[w].try, seq |-> look[w].seq,
                    count |-> look[w].count, at |-> a + 1, found |-> f, due |-> look[w].due]
    BY ZenonT(30), <2>1, <2>2, FoundFields
  <2>5. CASE ~live
    <3>1. f = NoRule
      BY <2>5 DEF f
    <3> QED
      BY <1>13, <2>1, <2>3, <2>4, <2>5, <3>1
  <2>6. CASE live
    <3>1. quiet => look[w].due = RuleOf(InUse, st, n) /\ RuleOf(InUse, st, n) = slots[a].rule
      BY <1>12, <2>1, <2>3, <2>6, FirstLive DEF TypeInv
    <3>2. f = slots[a].rule
      BY <2>6 DEF f
    <3>3. wpc'[w] = "verify" /\ look[w].seq <= seq /\ look[w].seq % 2 = 0
      BY <1>12, <2>1, <2>6
    <3> QED
      BY <1>2, <2>4, <3>1, <3>2, <3>3 DEF ScanOK, Agrees
  <2> QED
    BY <2>5, <2>6
<1>16. ASSUME Accept(w) PROVE ScanOK(w)'
  <2>1. wpc'[w] = "answered"
    BY <1>16 DEF Accept, Answer
  <2> QED
    BY <2>1 DEF ScanOK
<1> QED
  BY <1>4, <1>6, <1>7, <1>8, <1>9, <1>10, <1>11, <1>14, <1>15, <1>16 DEF WorkerStep, Busy, Torn

\* What a worker was told stays what the table said.
LEMMA StepAnswers ==
  ASSUME ~collided, TypeInv, ScanInv, AnswersStable, [Next]_vars
  PROVE  AnswersStable'
<1>1. \A w \in Workers : look[w] \in Lookup
  BY DEF TypeInv, TypeOK
<1>2. /\ wpc \in [Workers -> WorkerStates] /\ look \in [Workers -> Lookup] /\ broken \in BOOLEAN
  BY DEF TypeInv, TypeOK
<1>3. ASSUME UNCHANGED <<wpc, look>>, broken => broken' PROVE AnswersStable'
  BY <1>3 DEF AnswersStable
<1>4. ASSUME NEW t \in Tools, ToolStep(t) PROVE AnswersStable'
  <2>1. UNCHANGED <<wpc, look>> /\ (broken => broken')
    BY <1>4, <1>2, StartsEffect, PutsEffect DEF ToolStep, Starts, Puts, OpenTable, ZeroFile,
       StampHeader, StampSize, StampSeq, CloseTable, BeginLoad, BeginStore, EndLoad, EndStore, PutCount, Die, wvars, rest
  <2> QED
    BY <1>3, <2>1
<1>5. ASSUME NEW w \in Workers, WorkerStep(w) PROVE AnswersStable'
  <2>1. broken' = broken
    BY <1>5, ReadersEffect
  <2>2. ASSUME NEW v \in Workers, wpc'[v] = "answered", ~broken
        PROVE  look'[v].found = look'[v].due
    <3>1. CASE Accept(w)
      <4>1. CASE v = w
        <5>1. look[w].found = look[w].due
          BY <3>1, <2>2 DEF Accept, Answer, WorkerAt, ScanInv, ScanOK, Agrees
        <5>2. look'[w] = Returned(look[w].found, look[w].due)
          BY <1>2, <3>1 DEF Accept, Answer
        <5> QED
          BY <4>1, <5>1, <5>2 DEF Returned
      <4>2. CASE v # w
        BY <1>2, <2>2, <3>1, <4>2 DEF Accept, Answer, WorkerAt, AnswersStable
      <4> QED
        BY <4>1, <4>2
    <3>2. CASE ~Accept(w)
      <4>1. v # w /\ wpc'[v] = wpc[v] /\ look'[v] = look[v]
        BY <1>2, <1>5, <2>2, <3>2 DEF WorkerStep, Map, StartLookup, Busy, LoadSeq, LoadCount,
           Pass, Candidate, CopyEntry, Torn, Retry, WorkerAt, Onward
      <4> QED
        BY <2>2, <4>1 DEF AnswersStable
    <3> QED
      BY <3>1, <3>2
  <2> QED
    BY <2>1, <2>2 DEF AnswersStable
<1>6. CASE Tick \/ UNCHANGED vars
  BY <1>3, <1>6 DEF Tick, vars, wvars, rest
<1> QED
  BY <1>4, <1>5, <1>6 DEF Next

-----------------------------------------------------------------------------
(* One slot per site.                                                      *)

\* Set picks a slot such that no other is of its site.
LEMMA SetSlotAlone ==
  ASSUME TypeOK, OneSlotPerSite, ~collided, NEW s \in Sites
  PROVE  \A i \in 1 .. count : i # SetSlot(s) => slots[i].site # s
<1>1. CASE OfSite(s) = {}
  BY <1>1 DEF OfSite
<1>2. CASE OfSite(s) # {}
  <2>1. Min(OfSite(s)) \in OfSite(s)
    <3>1. OfSite(s) \in SUBSET Nat
      BY DEF OfSite, TypeOK
    <3> QED
      BY <1>2, <3>1, MinOf
  <2>2. SetSlot(s) = Min(OfSite(s))
    BY <1>2 DEF SetSlot
  <2> QED
    BY <2>1, <2>2, TableAssumption DEF OfSite, OneSlotPerSite
<1> QED
  BY <1>1, <1>2

\* A store that leaves every site where it is.
LEMMA SitesKept ==
  ASSUME TypeOK, NEW i, NEW e, slots' = [slots EXCEPT ![i] = e],
         i \in 1 .. MaxEntries => e.site = slots[i].site
  PROVE  \A k \in 1 .. MaxEntries : slots'[k].site = slots[k].site
BY DEF TypeOK

\* While one tool at a time writes, every step keeps the slots apart.
LEMMA StepOneSlotInv ==
  ASSUME OneSlotInv, ~collided', [Next]_vars
  PROVE  SlotInv' /\ OneSlotPerSite'
<1> USE DEF OneSlotInv
<1>0. ~collided
  BY StepAlone DEF TypeInv
<1>1. ASSUME NEW t \in Tools, ToolStep(t), Lone(t) PROVE SlotInv' /\ OneSlotPerSite'
  <2> DEFINE k == job[t].slot
             site == job[t].entry.site
  <2>1. /\ \A u \in Tools : u # t => tpc'[u] \in {"closed", "idle"}
        /\ tpc \in [Tools -> ToolStates] /\ job \in [Tools -> Job] /\ job[t] \in Job
        /\ k \in 0 .. MaxEntries /\ count \in 0 .. MaxEntries
        /\ slots \in [1 .. MaxEntries -> Entry]
    BY <1>1 DEF Lone, OthersStay, TypeInv, TypeOK, Job
  <2>2. ASSUME tpc'[t] \notin Setting,
               ~(tpc'[t] \in {"beginLoad", "beginStore"} /\ job'[t].off = {})
        PROVE  SlotInv'
    BY <2>1, <2>2 DEF SlotInv, Setting
  <2>3. ASSUME count' = count, \A i \in 1 .. MaxEntries : slots'[i].site = slots[i].site
        PROVE  OneSlotPerSite'
    BY <1>0, <2>1, <2>3, TableAssumption DEF OneSlotPerSite
  <2>4. ASSUME tpc[t] \in Setting
        PROVE  /\ k \in 1 .. count + 1 /\ k \in 1 .. MaxEntries
               /\ job[t].count = IF k > count THEN k ELSE count
               /\ \A i \in 1 .. count : i # k => slots[i].site # site
               /\ tpc[t] \in Setting \ {"wipe", "hash"} => slots[k].site = site
    BY <2>1, <2>4, TableAssumption DEF SlotInv
  <2>5. ASSUME tpc[t] \in Setting, tpc'[t] \in Setting, job' = job, count' = count,
               \A i \in 1 .. MaxEntries : i # k => slots'[i] = slots[i],
               tpc'[t] \notin {"wipe", "hash"} => slots'[k].site = site
        PROVE  SlotInv'
    <3>1. \A i \in 1 .. count : i # k => slots'[i].site # site
      BY <2>1, <2>4, <2>5, TableAssumption
    <3>2. \A u \in Tools : u # t => tpc'[u] \notin Setting \cup {"beginLoad", "beginStore"}
      BY <2>1 DEF Setting
    <3> QED
      BY <2>1, <2>4, <2>5, <3>1, <3>2 DEF SlotInv
  <2> USE DEF ToolAt
  <2>6. CASE OpenTable(t) \/ CloseTable(t) \/ StampHeader(t) \/ StampSize(t) \/ StampSeq(t)
    <3>1. /\ tpc'[t] \in {"idle", "zero", "closed", "stampSize", "stampSeq"}
          /\ count' = count /\ slots' = slots
      BY <2>1, <2>6 DEF OpenTable, CloseTable, StampHeader, StampSize, StampSeq, file
    <3> QED
      BY <2>2, <2>3, <3>1 DEF Setting
  <2>7. CASE ZeroFile(t)
    <3>1. tpc'[t] = "stamp" /\ count' = 0
      BY <2>1, <2>7 DEF ZeroFile
    <3> QED
      BY <2>2, <3>1 DEF Setting, OneSlotPerSite
  <2>8. ASSUME NEW s \in Sites, NEW until \in Untils, Set(t, s, until)
        PROVE  SlotInv' /\ OneSlotPerSite'
    <3>1. /\ tpc'[t] = "beginLoad" /\ job'[t] = SetJob(s, until)
          /\ count' = count /\ slots' = slots
      BY <2>1, <2>8 DEF Set, StartWrite, file
    <3>2. SetSlot(s) \in 1 .. count + 1 /\ \A i \in 1 .. count : i # SetSlot(s) => slots[i].site # s
      BY <1>0, SetSlotTyped, SetSlotAlone DEF TypeInv
    <3>3. SlotInv'
      BY <2>1, <3>1, <3>2 DEF SlotInv, SetJob, Setting
    <3> QED
      BY <2>3, <3>1, <3>3
  <2>9. ASSUME (\E s \in Sites : Clear(t, s)) \/ Expire(t)
        PROVE  SlotInv' /\ OneSlotPerSite'
    <3>0. ASSUME NEW s, NEW off, off # {}, StartWrite(t, OffJob(s, off))
          PROVE  /\ tpc'[t] = "beginLoad" /\ job'[t].off # {}
                 /\ count' = count /\ slots' = slots
      BY <2>1, <3>0 DEF StartWrite, OffJob, file
    <3>1. /\ tpc'[t] = "beginLoad" /\ job'[t].off # {}
          /\ count' = count /\ slots' = slots
      <4>1. CASE Expire(t)
        BY <3>0, <4>1 DEF Expire
      <4>2. ASSUME NEW s \in Sites, Clear(t, s)
            PROVE  \E m : StartWrite(t, OffJob(s, {m}))
        BY <4>2 DEF Clear
      <4> QED
        BY <2>9, <3>0, <4>1, <4>2
    <3> QED
      BY <2>2, <2>3, <3>1 DEF Setting
  <2>10. CASE BeginLoad(t) \/ BeginStore(t)
    <3>1. /\ tpc[t] \in {"beginLoad", "beginStore"} /\ job' = job
          /\ tpc'[t] = IF tpc[t] = "beginLoad" THEN "beginStore"
                       ELSE IF job[t].off = {} THEN "wipe" ELSE "offFlags"
          /\ count' = count /\ slots' = slots
      BY <2>1, <2>10 DEF BeginLoad, BeginStore, file
    <3>2. SlotInv'
      BY <2>1, <3>1 DEF SlotInv, Setting
    <3> QED
      BY <2>3, <3>1, <3>2
  <2>11. CASE EndLoad(t) \/ EndStore(t) \/ Die(t)
    <3>1. tpc'[t] \in {"endStore", "idle", "closed"} /\ count' = count /\ slots' = slots
      BY <2>1, <2>11 DEF EndLoad, EndStore, Die, file
    <3> QED
      BY <2>2, <2>3, <3>1 DEF Setting
  <2>12. CASE Wipe(t)
    <3>1. tpc[t] = "wipe" /\ tpc'[t] = "hash" /\ job' = job /\ count' = count
          /\ slots' = [slots EXCEPT ![k] = ZeroEntry]
      BY <2>1, <2>12 DEF Wipe, Put
    <3>2. SlotInv'
      BY <2>1, <2>5, <3>1 DEF Setting
    <3>3. \A i \in 1 .. MaxEntries : slots'[i].site = IF i = k THEN NoSite ELSE slots[i].site
      BY <2>1, <3>1 DEF ZeroEntry
    <3>4. OneSlotPerSite'
      BY <1>0, <2>1, <3>1, <3>3, TableAssumption DEF OneSlotPerSite
    <3> QED
      BY <3>2, <3>4
  <2>13. CASE PutHash(t)
    <3>1. tpc[t] = "hash" /\ tpc'[t] = "until" /\ job' = job /\ count' = count
          /\ slots' = [slots EXCEPT ![k] = [slots[k] EXCEPT !.site = site]]
      BY <2>1, <2>13 DEF PutHash, Put
    <3>2. k \in 1 .. MaxEntries /\ \A i \in 1 .. count : i # k => slots[i].site # site
      BY <2>4, <3>1 DEF Setting
    <3>3. \A i \in 1 .. MaxEntries : slots'[i].site = IF i = k THEN site ELSE slots[i].site
      BY <2>1, <3>1, <3>2 DEF Entry
    <3>4. SlotInv'
      BY <2>1, <2>5, <3>1, <3>2, <3>3 DEF Setting
    <3>5. OneSlotPerSite'
      BY <1>0, <2>1, <3>1, <3>2, <3>3, TableAssumption DEF OneSlotPerSite
    <3> QED
      BY <3>4, <3>5
  <2>14. CASE PutUntil(t) \/ PutFlags(t) \/ PutRule(t)
    <3>1. /\ tpc[t] \in {"until", "flags", "rule"} /\ tpc'[t] \in {"flags", "rule", "count"}
          /\ job' = job /\ count' = count
      BY <2>1, <2>14 DEF PutUntil, PutFlags, PutRule, Put
    <3>2. PICK e : slots' = [slots EXCEPT ![k] = e] /\ (k \in 1 .. MaxEntries => e.site = slots[k].site)
      BY <2>1, <2>14 DEF PutUntil, PutFlags, PutRule, Put, Entry
    <3>3. \A i \in 1 .. MaxEntries : slots'[i].site = slots[i].site /\ (i # k => slots'[i] = slots[i])
      BY <2>1, <3>2, SitesKept DEF TypeInv
    <3>4. k \in 1 .. MaxEntries /\ slots[k].site = site
      BY <2>4, <3>1 DEF Setting
    <3>5. SlotInv'
      BY <2>5, <3>1, <3>3, <3>4 DEF Setting
    <3> QED
      BY <2>3, <3>1, <3>3, <3>5
  <2>15. CASE PutCount(t)
    <3>1. tpc[t] = "count" /\ tpc'[t] = "endLoad" /\ count' = job[t].count /\ slots' = slots
      BY <2>1, <2>15 DEF PutCount
    <3>2. /\ k \in 1 .. count + 1 /\ count' = (IF k > count THEN k ELSE count)
          /\ slots[k].site = site /\ \A i \in 1 .. count : i # k => slots[i].site # site
      BY <2>4, <3>1 DEF Setting
    <3>3. OneSlotPerSite'
      BY <1>0, <2>1, <3>1, <3>2 DEF OneSlotPerSite
    <3>4. SlotInv'
      BY <2>2, <3>1 DEF Setting
    <3> QED
      BY <3>3, <3>4
  <2>16. CASE OffFlags(t) \/ OffUntil(t)
    <3>1. tpc'[t] \in {"offFlags", "offUntil", "endLoad"} /\ count' = count
      BY <2>1, <2>16 DEF OffFlags, OffUntil, Put
    <3>2. PICK i, e : slots' = [slots EXCEPT ![i] = e] /\ (i \in 1 .. MaxEntries => e.site = slots[i].site)
      BY <2>1, <2>16 DEF OffFlags, OffUntil, Put, Entry
    <3>3. \A n \in 1 .. MaxEntries : slots'[n].site = slots[n].site
      BY <3>2, SitesKept DEF TypeInv
    <3> QED
      BY <2>2, <2>3, <3>1, <3>3 DEF Setting
  <2> QED
    BY <1>1, <2>6, <2>7, <2>8, <2>9, <2>10, <2>11, <2>12, <2>13, <2>14, <2>15, <2>16 DEF ToolStep
<1>2. CASE ~ \E t \in Tools : ToolStep(t)
  <2>1. UNCHANGED <<file, tools, stable, broken>>
    BY <1>2, ReadersEffect DEF Next
  <2> QED
    BY <1>0, <2>1 DEF SlotInv, OneSlotPerSite, file, tools
<1>3. ASSUME NEW t \in Tools, Quiet(t) PROVE SlotInv' /\ OneSlotPerSite'
  BY <1>0, <1>3 DEF Quiet, OthersStay, SlotInv, OneSlotPerSite, Setting, file
<1> QED
  BY <1>1, <1>2, <1>3, StepAlone DEF TypeInv

-----------------------------------------------------------------------------
(* Rules of other sites.                                                   *)

\* An entry is seen through the count.
LEMMA InUseAt ==
  ASSUME TypeOK, NEW i \in 1 .. MaxEntries
  PROVE  /\ InUse[i] = IF i <= count THEN slots[i] ELSE ZeroEntry
         /\ InUse'[i] = IF i <= count' THEN slots'[i] ELSE ZeroEntry
BY DEF InUse

\* Tables that differ only in entries without a rule for other sites agree on those.
LEMMA SameRule ==
  ASSUME TypeOK, NEW A \in [1 .. MaxEntries -> Entry], NEW B \in [1 .. MaxEntries -> Entry],
         NEW x, NEW s \in Sites, s # x,
         \A i \in 1 .. MaxEntries : A[i] = B[i] \/ (Gone(A[i], x, now) /\ Gone(B[i], x, now))
  PROVE  RuleOf(A, s, now) = RuleOf(B, s, now)
<1>1. now \in Nat /\ \A e \in Entry : e.until \in Nat
  BY TableAssumption DEF TypeOK, Time, Entry
<1>2. \A e \in Entry : Gone(e, x, now) => ~(e.site = s /\ e.active /\ e.until > now)
  BY <1>1 DEF Gone
<1>3. \A i \in 1 .. MaxEntries : i \in Live(A, s, now) <=> i \in Live(B, s, now)
  <2> SUFFICES ASSUME NEW i \in 1 .. MaxEntries
               PROVE  i \in Live(A, s, now) <=> i \in Live(B, s, now)
    OBVIOUS
  <2>1. A[i] \in Entry /\ B[i] \in Entry
    OBVIOUS
  <2>2. CASE A[i] = B[i]
    BY <2>2 DEF Live
  <2>3. CASE Gone(A[i], x, now) /\ Gone(B[i], x, now)
    BY <1>2, <2>1, <2>3 DEF Live
  <2> QED
    BY <2>2, <2>3
<1>4. Live(A, s, now) = Live(B, s, now)
  BY <1>3 DEF Live
<1>5. CASE Live(A, s, now) # {}
  <2> DEFINE m == Min(Live(A, s, now))
  <2>1. Live(A, s, now) \in SUBSET Nat
    BY TableAssumption DEF Live
  <2>2. m \in Live(A, s, now)
    BY <1>5, <2>1, MinOf
  <2>3. m \in 1 .. MaxEntries /\ A[m] \in Entry /\ ~Gone(A[m], x, now)
    BY <1>2, <2>2 DEF Live
  <2>4. A[m] = B[m]
    BY <2>3
  <2> QED
    BY <1>4, <1>5, <2>4 DEF RuleOf
<1> QED
  BY <1>4, <1>5 DEF RuleOf

\* The slot of a Set has no rule for another site.
LEMMA SetSlotGone ==
  ASSUME TypeOK, NEW s, SetSlot(s) <= count
  PROVE  Gone(slots[SetSlot(s)], s, now)
<1>1. OfSite(s) \in SUBSET Nat /\ Reusable \in SUBSET Nat /\ count \in Nat /\ now \in Nat
  BY TableAssumption DEF OfSite, Reusable, Expired, TypeOK, Time
<1>2. CASE OfSite(s) # {}
  BY <1>1, <1>2, MinOf DEF SetSlot, OfSite, Gone
<1>3. CASE OfSite(s) = {} /\ Reusable # {}
  <2>1. SetSlot(s) \in Reusable
    BY <1>1, <1>3, MinOf DEF SetSlot
  <2> QED
    BY <1>1, <2>1 DEF Reusable, Expired, Gone
<1>4. CASE OfSite(s) = {} /\ Reusable = {}
  BY <1>1, <1>4 DEF SetSlot
<1> QED
  BY <1>2, <1>3, <1>4

\* A store into a slot that the tool may take, of an entry without a rule for other sites.
LEMMA PutKeepsRules ==
  ASSUME TypeOK, RuleInv, NEW t \in Tools, Lone(t), tpc[t] \in Body \cap Storing, magic,
         NEW i \in Targets(t), NEW e, slots' = [slots EXCEPT ![i] = e],
         i \in 1 .. MaxEntries => Gone(e, job[t].entry.site, now),
         tpc'[t] \in Body, UNCHANGED <<magic, count, stable, now>>,
         job'[t].entry = job[t].entry,
         tpc'[t] \in Storing => Targets(t)' \subseteq Targets(t),
         tpc'[t] \in Setting => job'[t].off = {},
         tpc'[t] \in {"offFlags", "offUntil"} => job'[t].off # {}
  PROVE  RuleInv'
<1> DEFINE site == job[t].entry.site
<1>1. /\ \A u \in Tools : u # t => tpc'[u] \notin Body \cup Storing
      /\ slots \in [1 .. MaxEntries -> Entry] /\ count \in 0 .. MaxEntries
  BY DEF Lone, OthersStay, Body, Storing, Setting, TypeOK
<1>2. \A n \in 1 .. MaxEntries :
        /\ slots'[n] = IF n = i THEN e ELSE slots[n]
        /\ Gone(slots'[n], site, now') <=> Gone(slots'[n], site, now)
        /\ Gone(stable'[n], site, now') <=> Gone(stable[n], site, now)
  BY <1>1 DEF Gone
<1>3. ASSUME NEW n \in 1 .. MaxEntries
      PROVE  \/ InUse'[n] = stable'[n]
             \/ Gone(InUse'[n], site, now') /\ Gone(stable'[n], site, now')
  <2>1. /\ InUse[n] = IF n <= count THEN slots[n] ELSE ZeroEntry
        /\ InUse'[n] = IF n <= count THEN slots'[n] ELSE ZeroEntry
    BY InUseAt
  <2>2. InUse[n] = stable[n] \/ (Gone(InUse[n], site, now) /\ Gone(stable[n], site, now))
    BY DEF RuleInv
  <2>3. CASE n # i \/ n > count
    <3>1. InUse'[n] = InUse[n]
      BY <1>1, <1>2, <2>1, <2>3
    <3> QED
      BY <2>2, <3>1 DEF Gone
  <2>4. CASE n = i /\ n <= count
    <3>1. InUse'[n] = e /\ Gone(e, site, now)
      BY <1>2, <2>1, <2>4
    <3>2. Gone(slots[n], site, now) /\ InUse[n] = slots[n]
      BY <2>1, <2>4 DEF RuleInv
    <3>3. Gone(stable[n], site, now)
      BY <2>2, <3>2
    <3> QED
      BY <3>1, <3>3 DEF Gone
  <2> QED
    BY <1>1, <2>3, <2>4
<1>4. ASSUME tpc'[t] \in Storing, NEW n \in Targets(t)' \cap (1 .. count')
      PROVE  Gone(slots'[n], site, now')
  <2>1. n \in Targets(t) /\ n \in 1 .. count /\ n \in 1 .. MaxEntries
    BY <1>1, <1>4, TableAssumption
  <2>2. Gone(slots[n], site, now)
    BY <2>1 DEF RuleInv
  <2> QED
    BY <1>2, <2>1, <2>2
<1>5. Writing' /\ site' = site
  BY DEF Writing
<1>6. ASSUME NEW u \in Tools, u # t
      PROVE  tpc'[u] \notin Setting \cup {"offFlags", "offUntil"} \cup Body \cup Storing
  BY <1>1, <1>6 DEF Storing
<1> QED
  BY <1>3, <1>4, <1>5, <1>6 DEF RuleInv

\* Every step of the tools, one at a time, and of the workers and the clock.
LEMMA StepRuleInv ==
  ASSUME OneSlotInv, ~collided', HeaderInv, RuleInv, [Next]_vars
  PROVE  RuleInv'
<1> USE DEF OneSlotInv
<1>0. TypeOK /\ TypeOK'
  BY StepTypeInv DEF TypeInv
<1>1. ASSUME NEW t \in Tools, ToolStep(t), Lone(t) PROVE RuleInv'
  <2> DEFINE k == job[t].slot
             site == job[t].entry.site
  <2>0. \A u \in Tools : u # t =>
          /\ tpc[u] \notin Body /\ tpc'[u] \notin Body \cup Storing \cup Setting
          /\ tpc'[u] \notin {"offFlags", "offUntil"}
    BY <1>1 DEF Lone, OthersStay, Body, Storing, Setting
  <2>1. /\ tpc \in [Tools -> ToolStates] /\ job \in [Tools -> Job] /\ job[t] \in Job
        /\ count \in 0 .. MaxEntries /\ slots \in [1 .. MaxEntries -> Entry]
        /\ now \in Nat
        /\ Writing <=> tpc[t] \in Body
        /\ Writing' <=> tpc'[t] \in Body
    BY TableAssumption, <1>0, <2>0 DEF TypeOK, Writing, Time
  <2>2. ASSUME slots' = slots, count' = count PROVE InUse' = InUse
    BY <2>2 DEF InUse
  <2>3. ASSUME slots' = slots, count' = count, magic' = magic \/ magic', now' = now,
               tpc'[t] \notin Body \cup Storing,
               stable' = InUse \/ (stable' = stable /\ tpc[t] \notin Body)
        PROVE  RuleInv'
    BY <2>0, <2>1, <2>2, <2>3 DEF RuleInv, Storing
  <2>4. ASSUME UNCHANGED <<slots, count, magic, now, stable>>,
               tpc[t] \notin Body, tpc'[t] \in {"beginLoad", "beginStore"},
               \A i \in Targets(t)' \cap (1 .. count) : Gone(slots[i], job'[t].entry.site, now)
        PROVE  RuleInv'
    <3>1. \A i \in Targets(t)' \cap (1 .. count) : Gone(slots'[i], job'[t].entry.site, now')
      BY <2>4 DEF Gone
    <3> QED
      BY <2>0, <2>1, <2>2, <2>4, <3>1 DEF RuleInv, Body, Setting
  <2>5. tpc[t] \in Body \cup Storing => magic
    BY <2>1 DEF HeaderInv, Body, Storing, Setting
  <2> USE DEF ToolAt, rest, file
  <2>6. CASE OpenTable(t) \/ CloseTable(t)
    <3>1. tpc[t] \in {"closed", "idle"} /\ tpc'[t] \in {"idle", "zero", "closed"}
          /\ UNCHANGED <<slots, count, magic, now, stable>>
      BY <2>1, <2>6 DEF OpenTable, CloseTable
    <3> QED
      BY <2>3, <3>1 DEF Body, Storing, Setting
  <2>7. CASE ZeroFile(t)
    <3>1. /\ tpc[t] = "zero" /\ tpc'[t] = "stamp" /\ ~magic' /\ ~magic
          /\ slots' = ZeroTable /\ count' = 0 /\ stable' = stable
      BY <2>1, <2>7 DEF ZeroFile, HeaderInv
    <3>2. InUse' = ZeroTable
      BY <3>1, TableAssumption DEF InUse, ZeroTable
    <3>3. stable = ZeroTable
      BY <2>1, <3>1 DEF RuleInv, Body
    <3> QED
      BY <2>0, <2>1, <3>1, <3>2, <3>3 DEF RuleInv, Body, Storing, Setting
  <2>8. CASE StampHeader(t) \/ StampSize(t) \/ StampSeq(t)
    <3>1. /\ tpc[t] \in {"stamp", "stampSize", "stampSeq"} /\ tpc'[t] \in {"stampSize", "stampSeq", "idle"}
          /\ magic' = magic \/ magic'
          /\ slots' = slots /\ count' = count /\ now' = now
          /\ stable' = InUse \/ stable' = stable
      BY <2>1, <2>8 DEF StampHeader, StampSize, StampSeq
    <3> QED
      BY <2>3, <3>1 DEF Body, Storing, Setting
  <2>9. ASSUME NEW s \in Sites, NEW until \in Untils, Set(t, s, until) PROVE RuleInv'
    <3>1. /\ tpc[t] = "idle" /\ tpc'[t] = "beginLoad" /\ job'[t] = SetJob(s, until)
          /\ UNCHANGED <<slots, count, magic, now, stable>>
      BY <2>1, <2>9 DEF Set, StartWrite
    <3>2. Targets(t)' = {SetSlot(s)} /\ job'[t].entry.site = s
      BY <3>1 DEF Targets, SetJob
    <3>3. SetSlot(s) \in 1 .. count => Gone(slots[SetSlot(s)], s, now)
      BY <1>0, SetSlotGone
    <3> QED
      BY <2>4, <3>1, <3>2, <3>3 DEF Body
  <2>10. ASSUME NEW s, NEW off, off # {}, StartWrite(t, OffJob(s, off)),
                \A i \in off : i \in 1 .. count => Gone(slots[i], s, now)
         PROVE  RuleInv'
    <3>1. /\ tpc[t] = "idle" /\ tpc'[t] = "beginLoad" /\ job'[t] = OffJob(s, off)
          /\ UNCHANGED <<slots, count, magic, now, stable>>
      BY <2>1, <2>10 DEF StartWrite
    <3>2. Targets(t)' = off /\ job'[t].entry.site = s
      BY <2>10, <3>1 DEF Targets, OffJob
    <3> QED
      BY <2>4, <2>10, <3>1, <3>2 DEF Body
  <2>11. ASSUME NEW s \in Sites, Clear(t, s) PROVE RuleInv'
    <3> DEFINE live == {i \in OfSite(s) : slots[i].until # 0}
    <3>1. live # {} /\ StartWrite(t, OffJob(s, {Min(live)}))
      BY <2>11 DEF Clear
    <3>2. Min(live) \in live
      <4>1. live \in SUBSET Nat
        BY DEF OfSite
      <4> QED
        BY <3>1, <4>1, MinOf
    <3>3. \A i \in {Min(live)} : i \in 1 .. count => Gone(slots[i], s, now)
      BY <3>2 DEF OfSite, Gone
    <3> HIDE DEF live
    <3> QED
      BY <2>10, <3>1, <3>3
  <2>12. CASE Expire(t)
    BY <2>10, <2>12 DEF Expire, Expired, Gone
  <2>13. CASE BeginLoad(t)
    <3>1. /\ tpc[t] = "beginLoad" /\ tpc'[t] = "beginStore" /\ job' = job
          /\ UNCHANGED <<slots, count, magic, now, stable>>
      BY <2>1, <2>13 DEF BeginLoad
    <3>2. Targets(t)' = Targets(t)
      BY <3>1 DEF Targets
    <3> QED
      BY <2>1, <2>4, <3>1, <3>2 DEF RuleInv, Body, Storing
  <2>14. CASE BeginStore(t)
    <3>1. /\ tpc[t] = "beginStore" /\ job' = job
          /\ tpc'[t] = IF job[t].off = {} THEN "wipe" ELSE "offFlags"
          /\ UNCHANGED <<slots, count, magic, now, stable>>
      BY <2>1, <2>14 DEF BeginStore
    <3>2. Targets(t)' = Targets(t) /\ InUse' = InUse /\ InUse = stable
      BY <2>1, <2>2, <3>1 DEF Targets, RuleInv, Body
    <3>3. \A i \in Targets(t)' \cap (1 .. count') : Gone(slots'[i], site, now')
      BY <3>1, <3>2 DEF RuleInv, Storing, Gone
    <3> QED
      BY <2>0, <2>1, <2>5, <3>1, <3>2, <3>3 DEF RuleInv, Body, Storing, Setting
  <2>15. CASE EndLoad(t)
    <3>1. /\ tpc[t] = "endLoad" /\ tpc'[t] = "endStore" /\ job' = job
          /\ UNCHANGED <<slots, count, magic, now, stable>>
      BY <2>1, <2>15 DEF EndLoad
    <3>2. InUse' = InUse
      BY <2>2, <3>1
    <3> QED
      BY <2>0, <2>1, <3>1, <3>2 DEF RuleInv, Body, Storing, Setting
  <2>16. CASE EndStore(t)
    <3>1. tpc'[t] = "idle" /\ magic' = magic /\ slots' = slots /\ count' = count
          /\ stable' = InUse /\ now' = now
      BY <2>1, <2>16 DEF EndStore
    <3> QED
      BY <2>3, <3>1 DEF Body, Storing, Setting
  <2>17. CASE Die(t)
    <3>1. tpc'[t] = "closed" /\ magic' = magic /\ slots' = slots /\ count' = count
          /\ (stable' = InUse \/ (stable' = stable /\ tpc[t] \notin Body)) /\ now' = now
      BY <2>1, <2>17 DEF Die
    <3> QED
      BY <2>3, <3>1 DEF Body, Storing, Setting
  <2>18. ASSUME tpc[t] \in Setting, NEW e, NEW to \in Setting, Put(t, k, tpc[t], to, e), job' = job,
                k \in 1 .. MaxEntries => Gone(e, site, now)
         PROVE  RuleInv'
    <3>1. /\ tpc'[t] = to /\ slots' = [slots EXCEPT ![k] = e]
          /\ UNCHANGED <<magic, count, stable, now>>
      BY <2>1, <2>18 DEF Put
    <3>2. job[t].off = {} /\ k \in Targets(t) /\ Targets(t)' = Targets(t)
      BY <2>18 DEF RuleInv, Targets
    <3>3. tpc[t] \in Body \cap Storing /\ to \in Body /\ magic
      BY <2>5, <2>18 DEF Body, Storing, Setting
    <3> QED
      BY <1>0, <1>1, <2>18, <3>1, <3>2, <3>3, PutKeepsRules DEF Setting
  <2>19. CASE Wipe(t)
    <3>1. Gone(ZeroEntry, site, now)
      BY DEF Gone, ZeroEntry
    <3> QED
      BY <2>1, <2>18, <2>19, <3>1 DEF Wipe, Put, Setting
  <2>20. CASE PutHash(t)
    <3>1. k \in 1 .. MaxEntries => Gone([slots[k] EXCEPT !.site = site], site, now)
      BY <2>1 DEF Gone, Entry
    <3> QED
      BY <2>1, <2>18, <2>20, <3>1 DEF PutHash, Put, Setting
  <2>21. CASE PutUntil(t) \/ PutFlags(t) \/ PutRule(t)
    <3>1. tpc[t] \in {"until", "flags", "rule"}
      BY <2>21 DEF PutUntil, PutFlags, PutRule, Put
    <3>2. k \in 1 .. MaxEntries => slots[k] \in Entry /\ slots[k].site = site
      BY <2>1, <3>1 DEF SlotInv, Setting
    <3>3. ASSUME NEW e, NEW to \in {"flags", "rule", "count"},
                 Put(t, k, tpc[t], to, e), job' = job,
                 k \in 1 .. MaxEntries => e.site = slots[k].site
          PROVE  RuleInv'
      <4>1. k \in 1 .. MaxEntries => Gone(e, site, now)
        BY <3>2, <3>3 DEF Gone
      <4>2. tpc[t] \in Setting /\ to \in Setting
        BY <3>1 DEF Setting
      <4> QED
        BY <2>18, <3>3, <4>1, <4>2
    <3>4. CASE PutUntil(t)
      <4> DEFINE e == [slots[k] EXCEPT !.until = job[t].entry.until]
      <4>1. tpc[t] = "until" /\ Put(t, k, tpc[t], "flags", e) /\ job' = job
        BY <3>4 DEF PutUntil, Put, ToolAt
      <4>2. k \in 1 .. MaxEntries => e.site = slots[k].site
        BY <3>2 DEF Entry
      <4> HIDE DEF e
      <4> QED
        BY <3>3, <4>1, <4>2
    <3>5. CASE PutFlags(t)
      <4> DEFINE e == [slots[k] EXCEPT !.active = TRUE]
      <4>1. tpc[t] = "flags" /\ Put(t, k, tpc[t], "rule", e) /\ job' = job
        BY <3>5 DEF PutFlags, Put, ToolAt
      <4>2. k \in 1 .. MaxEntries => e.site = slots[k].site
        BY <3>2 DEF Entry
      <4> HIDE DEF e
      <4> QED
        BY <3>3, <4>1, <4>2
    <3>6. CASE PutRule(t)
      <4> DEFINE e == [slots[k] EXCEPT !.rule = job[t].entry.rule]
      <4>1. tpc[t] = "rule" /\ Put(t, k, tpc[t], "count", e) /\ job' = job
        BY <3>6 DEF PutRule, Put, ToolAt
      <4>2. k \in 1 .. MaxEntries => e.site = slots[k].site
        BY <3>2 DEF Entry
      <4> HIDE DEF e
      <4> QED
        BY <3>3, <4>1, <4>2
    <3> QED
      BY <2>21, <3>4, <3>5, <3>6
  <2>22. CASE PutCount(t)
    <3>1. /\ tpc[t] = "count" /\ tpc'[t] = "endLoad" /\ count' = job[t].count /\ job' = job
          /\ UNCHANGED <<slots, magic, now, stable>>
      BY <2>1, <2>22 DEF PutCount
    <3>2. /\ k \in 1 .. count + 1 /\ count' = (IF k > count THEN k ELSE count)
          /\ slots[k].site = site
      BY <3>1 DEF SlotInv, Setting
    <3>3. ASSUME NEW i \in 1 .. MaxEntries
          PROVE  \/ InUse'[i] = stable'[i]
                 \/ Gone(InUse'[i], site, now') /\ Gone(stable'[i], site, now')
      <4>1. /\ InUse[i] = IF i <= count THEN slots[i] ELSE ZeroEntry
            /\ InUse'[i] = IF i <= count' THEN slots'[i] ELSE ZeroEntry
        BY <1>0, InUseAt
      <4>2. InUse[i] = stable[i] \/ (Gone(InUse[i], site, now) /\ Gone(stable[i], site, now))
        BY <3>1 DEF RuleInv, Body
      <4>3. CASE InUse'[i] = InUse[i]
        BY <3>1, <4>2, <4>3 DEF Gone
      <4>4. CASE InUse'[i] # InUse[i]
        <5>1. i = k /\ InUse[i] = ZeroEntry /\ InUse'[i] = slots[k]
          BY <2>1, <3>1, <3>2, <4>1, <4>4
        <5>2. Gone(ZeroEntry, site, now) /\ Gone(slots[k], site, now)
          BY <3>2 DEF Gone, ZeroEntry
        <5> QED
          BY <3>1, <4>2, <5>1, <5>2 DEF Gone
      <4> QED
        BY <4>3, <4>4
    <3> QED
      BY <2>0, <2>1, <2>5, <3>1, <3>3 DEF RuleInv, Body, Storing, Setting
  <2>23. CASE OffFlags(t) \/ OffUntil(t)
    <3> DEFINE i == Min(job[t].off)
    <3>1. tpc[t] \in {"offFlags", "offUntil"} /\ job[t].off # {} /\ magic
      BY <2>5, <2>23 DEF OffFlags, OffUntil, Put, RuleInv, Body
    <3>2. i \in Targets(t)
      <4>1. job[t].off \in SUBSET Nat
        BY <2>1 DEF Job
      <4> QED
        BY <3>1, <4>1, MinOf DEF Targets
    <3>3. PICK e : /\ slots' = [slots EXCEPT ![i] = e]
                   /\ i \in 1 .. MaxEntries => Gone(e, site, now)
      BY <2>1, <2>23 DEF OffFlags, OffUntil, Put, Gone, Entry
    <3>4. /\ UNCHANGED <<magic, count, stable, now>>
          /\ tpc'[t] \in {"offFlags", "offUntil", "endLoad"}
          /\ job'[t].entry = job[t].entry /\ job'[t].off \subseteq job[t].off
          /\ tpc'[t] # "endLoad" => job'[t].off # {}
      <4>1. CASE OffFlags(t)
        BY <2>1, <3>1, <4>1 DEF OffFlags, Put
      <4>2. CASE OffUntil(t)
        <5>1. job'[t] = [job[t] EXCEPT !.off = @ \ {i}]
          BY <2>1, <4>2 DEF OffUntil
        <5>2. job'[t].entry = job[t].entry /\ job'[t].off = job[t].off \ {i}
          BY <2>1, <5>1 DEF Job
        <5>3. tpc'[t] = (IF job[t].off = {i} THEN "endLoad" ELSE "offFlags")
              /\ UNCHANGED <<magic, count, stable, now>>
          BY <2>1, <4>2 DEF OffUntil, Put
        <5> QED
          BY <3>1, <5>2, <5>3
      <4> QED
        BY <2>23, <4>1, <4>2
    <3>5. tpc'[t] \in Storing => Targets(t)' \subseteq Targets(t)
      BY <3>1, <3>4 DEF Targets, Storing, Setting
    <3> HIDE DEF i
    <3> QED
      BY <1>0, <1>1, <3>1, <3>2, <3>3, <3>4, <3>5, PutKeepsRules DEF Body, Storing, Setting
  <2> QED
    BY <1>1, <2>6, <2>7, <2>8, <2>9, <2>11, <2>12, <2>13, <2>14, <2>15, <2>16, <2>17, <2>19,
       <2>20, <2>21, <2>22, <2>23 DEF ToolStep
<1>2. CASE ~ \E t \in Tools : ToolStep(t)
  <2>1. UNCHANGED <<file, tools, stable>> /\ (now' = now \/ now' = now + 1) /\ now \in Nat
    <3>1. now' = now \/ now' = now + 1
      BY <1>2 DEF Next, WorkerStep, Map, StartLookup, Busy, LoadSeq, LoadCount, Pass, Candidate,
                  CopyEntry, Accept, Torn, Retry, Answer, WorkerAt, Tick, rest, vars
    <3> QED
      BY <1>0, <1>2, <3>1, ReadersEffect, TableAssumption DEF Next, TypeOK, Time
  <2>2. \A e \in Entry : \A s : Gone(e, s, now) => Gone(e, s, now')
    BY <2>1, TableAssumption DEF Gone, Entry, Time
  <2>3. InUse' = InUse /\ (Writing' <=> Writing)
    BY <2>1 DEF InUse, Writing, file, tools
  <2>4. InUse \in [1 .. MaxEntries -> Entry] /\ stable \in [1 .. MaxEntries -> Entry]
        /\ slots \in [1 .. MaxEntries -> Entry] /\ count \in 0 .. MaxEntries
    BY <1>0, InUseTyped DEF TypeOK
  <2>5. UNCHANGED <<magic, slots, count, tpc, job, stable>>
    BY <2>1 DEF file, tools
  <2>6. \A t \in Tools : Targets(t)' = Targets(t)
    BY <2>5 DEF Targets
  <2> QED
    BY <2>2, <2>3, <2>4, <2>5, <2>6, TableAssumption DEF RuleInv
<1>3. ASSUME NEW t \in Tools, Quiet(t) PROVE RuleInv'
  <2>1. UNCHANGED <<magic, slots, count, stable, now>> /\ InUse' = InUse
    BY <1>3 DEF Quiet, file, InUse
  <2>2. Writing' <=> Writing
    BY <1>3 DEF Quiet, OthersStay, Writing, Body
  <2>3. tpc'[t] \notin Setting \cup {"offFlags", "offUntil"} \cup Body \cup Storing
    BY <1>3 DEF Quiet, Setting, Body, Storing
  <2>4. \A u \in Tools : u # t => tpc'[u] = tpc[u] /\ job'[u] = job[u] /\ Targets(u)' = Targets(u)
    BY <1>3 DEF Quiet, OthersStay, Targets
  <2>5. \A e, x : Gone(e, x, now)' <=> Gone(e, x, now)
    BY <2>1 DEF Gone
  <2> QED
    BY <2>1, <2>2, <2>3, <2>4, <2>5 DEF RuleInv, Gone
<1> QED
  BY <1>1, <1>2, <1>3, StepAlone DEF TypeInv

\* Only what is done for a site changes its rule.
LEMMA StepKeepsRules ==
  ASSUME Alone, ~collided', TypeOK, TypeOK', RuleInv, [Next]_vars, NEW s \in Sites,
         RuleOf(stable', s, now) # RuleOf(stable, s, now)
  PROVE  \E t \in Tools : job[t].entry.site = s /\ job'[t] = NoJob
<1>1. stable' # stable
  OBVIOUS
<1>2. PICK t \in Tools : ToolStep(t)
  <2> SUFFICES ASSUME ~ \E t \in Tools : ToolStep(t) PROVE FALSE
    OBVIOUS
  <2> QED
    BY <1>1, ReadersEffect DEF Next
<1>0. Lone(t)
  BY <1>1, <1>2, StepAlone DEF Quiet
<1>3. stable' = InUse /\ (tpc[t] \notin Body \/ job'[t] = NoJob)
  <2>1. EndStore(t) \/ Die(t) \/ StampHeader(t)
    BY <1>1, <1>2 DEF ToolStep, OpenTable, ZeroFile, CloseTable, Set, Clear, Expire, StartWrite,
                      BeginLoad, BeginStore, EndLoad, Wipe, PutHash, StampSize, StampSeq, PutUntil, PutFlags, PutRule,
                      PutCount, OffFlags, OffUntil, Put, rest
  <2>2. job \in [Tools -> Job]
    BY DEF TypeOK
  <2> QED
    BY <1>1, <2>1, <2>2 DEF EndStore, Die, StampHeader, ToolAt, Body
<1>4. tpc[t] \in Body
  <2> SUFFICES ASSUME tpc[t] \notin Body PROVE FALSE
    OBVIOUS
  <2>1. ~Writing
    BY <1>0 DEF Lone, Writing, Body
  <2> QED
    BY <1>1, <1>3, <2>1 DEF RuleInv
<1>5. \A i \in 1 .. MaxEntries :
        \/ InUse[i] = stable[i]
        \/ Gone(InUse[i], job[t].entry.site, now) /\ Gone(stable[i], job[t].entry.site, now)
  BY <1>4 DEF RuleInv
<1>6. job[t].entry.site = s
  <2> SUFFICES ASSUME s # job[t].entry.site PROVE FALSE
    OBVIOUS
  <2>1. InUse \in [1 .. MaxEntries -> Entry] /\ stable \in [1 .. MaxEntries -> Entry]
    BY InUseTyped DEF TypeOK
  <2>2. RuleOf(InUse, s, now) = RuleOf(stable, s, now)
    BY <1>5, <2>1, SameRule
  <2> QED
    BY <1>3, <2>2
<1> QED
  BY <1>3, <1>4, <1>6

-----------------------------------------------------------------------------
(* The theorems.                                                           *)

LEMMA InitIInv == Init => IInv
<1> SUFFICES ASSUME Init PROVE IInv
  OBVIOUS
<1>1. TypeInv
  BY InitTypeInv
<1> USE DEF Init
<1>2. ~Writing
  BY DEF Writing, Body
<1>3. SeqInv
  BY <1>2 DEF SeqInv, SeqFollows
<1>4. HeaderInv
  BY DEF HeaderInv
<1>5. StableInv
  <2>1. InUse = ZeroTable
    BY TableAssumption DEF InUse, ZeroTable
  <2> QED
    BY <2>1 DEF StableInv
<1>6. ScanInv /\ AnswersStable
  BY DEF ScanInv, ScanOK, AnswersStable
<1>7. Alone
  BY DEF Alone, Inside
<1> QED
  BY <1>1, <1>3, <1>4, <1>5, <1>6, <1>7 DEF IInv, SeqlockInv

\* A collision is never taken back.
LEMMA CollidedStays ==
  ASSUME TypeOK, [Next]_vars, ~collided'
  PROVE  ~collided
<1>1. ASSUME NEW t \in Tools, ToolStep(t) PROVE ~collided
  BY <1>1, StartsEffect, PutsEffect DEF ToolStep, Starts, Puts, OpenTable, ZeroFile,
     StampHeader, StampSize, StampSeq, CloseTable, BeginLoad, BeginStore, EndLoad, EndStore, PutCount, Die, rest
<1> QED
  BY <1>1, ReadersEffect DEF Next

LEMMA StepIInv == IInv /\ [Next]_vars => IInv'
<1> SUFFICES ASSUME IInv, [Next]_vars PROVE IInv'
  OBVIOUS
<1> USE DEF IInv, SeqlockInv
<1>1. TypeInv'
  BY StepTypeInv
<1> SUFFICES ASSUME ~collided' PROVE SeqlockInv' /\ AnswersStable'
  BY <1>1 DEF AnswersStable
<1>0. ~collided /\ Alone /\ SeqInv /\ HeaderInv /\ StableInv /\ ScanInv
  BY CollidedStays DEF TypeInv
<1>2. Alone' /\ SeqInv' /\ HeaderInv' /\ StableInv'
  BY <1>0, StepAlone, StepSeqInv, StepHeaderInv, StepStableInv DEF TypeInv
<1> USE <1>0
<1>3. ScanInv'
  <2>1. ASSUME NEW t \in Tools, ToolStep(t) PROVE ScanInv'
    BY <2>1, ToolScanInv
  <2>2. ASSUME NEW w \in Workers, WorkerStep(w) PROVE ScanInv'
    BY <2>2, WorkerScanInv
  <2>3. CASE Tick \/ UNCHANGED vars
    <3>1. UNCHANGED <<seq, count, slots, broken, wpc, look>>
      BY <2>3 DEF Tick, vars, file, wvars, rest
    <3>2. InUse' = InUse
      BY <3>1 DEF InUse
    <3>3. ASSUME NEW w \in Workers PROVE ScanOK(w)'
      <4>1. ScanOK(w)
        BY DEF ScanInv
      <4> QED
        BY <3>1, <3>2, <4>1 DEF ScanOK, Agrees
    <3> QED
      BY <3>3 DEF ScanInv
  <2> QED
    BY <2>1, <2>2, <2>3 DEF Next
<1>4. AnswersStable'
  BY StepAnswers
<1> QED
  BY <1>1, <1>2, <1>3, <1>4

\* For any number of writing processes, however often each is killed and restarted, seq is
\* odd exactly while one of them is inside a write (control_table.go, beginWrite and
\* endWrite), until one dies inside a write or two are inside an operation at once.
THEOREM SeqTruthful == Spec => []SeqTellsWriting
<1>1. IInv /\ [Next]_vars => IInv'
  BY StepIInv
<1>2. IInv => SeqTellsWriting
  BY DEF IInv, SeqlockInv, SeqInv, SeqTellsWriting
<1> QED
  BY InitIInv, <1>1, <1>2, PTL DEF Spec

\* And what phpray_control_lookup returns, match or none, is what the table said when
\* the last write before its scan was complete, for any number of workers, sites and
\* slots and however the table is rewritten under the scan, until two tools collide.
THEOREM AnswersCorrect == Spec => []AnswersStable
<1>1. IInv /\ [Next]_vars => IInv'
  BY StepIInv
<1>2. IInv => AnswersStable
  BY DEF IInv
<1> QED
  BY InitIInv, <1>1, <1>2, PTL DEF Spec

\* The seqlock keeps both its promises for any number of writing processes, for as long as
\* no two of them are inside an operation at once and none died inside a write.
THEOREM SeqlockCorrect == Spec => []SeqlockSound
<1>1. SeqTellsWriting /\ AnswersStable => SeqlockSound
  BY DEF SeqlockSound
<1> QED
  BY <1>1, SeqTruthful, AnswersCorrect, PTL

\* A site never has two slots, whichever processes write, however slots are reused and
\* wherever a process is killed, also between the entry and the count, until two of them
\* are inside an operation at once.
THEOREM SlotsDistinct == Spec => []OneSlotPerSite
<1> DEFINE Inv == TypeInv /\ (~collided => OneSlotInv)
<1>1. Init => Inv
  BY InitTypeInv DEF OneSlotInv, SlotInv, OneSlotPerSite, Alone, Inside, Init, Setting
<1>2. Inv /\ [Next]_vars => Inv'
  <2> SUFFICES ASSUME Inv, [Next]_vars PROVE Inv'
    OBVIOUS
  <2>1. TypeInv'
    BY StepTypeInv
  <2>2. ASSUME ~collided' PROVE OneSlotInv'
    <3>1. OneSlotInv
      BY <2>2, CollidedStays DEF TypeInv
    <3> QED
      BY <2>1, <2>2, <3>1, StepAlone, StepOneSlotInv DEF OneSlotInv, TypeInv
  <2> QED
    BY <2>1, <2>2
<1>3. Inv => OneSlotPerSite
  BY DEF OneSlotInv, OneSlotPerSite
<1> QED
  BY <1>1, <1>2, <1>3, PTL DEF Spec

\* A rule stays until its own site is set or cleared or its time comes: Set for another
\* site by any process, Expire, the reuse of slots and a death anywhere leave it alone, until
\* two processes are inside an operation at once (control_table.go, Set, Clear, Expire).
THEOREM RulesStay == Spec => RulesKept
<1> DEFINE Good == OneSlotInv /\ HeaderInv /\ RuleInv
           Inv == TypeInv /\ (~collided => Good)
<1>1. Init => Inv
  <2> SUFFICES ASSUME Init PROVE TypeInv /\ Good
    OBVIOUS
  <2>1. OneSlotInv
    BY InitTypeInv DEF OneSlotInv, SlotInv, OneSlotPerSite, Alone, Inside, Init, Setting
  <2>2. HeaderInv
    BY DEF HeaderInv, Init
  <2>3. InUse = ZeroTable
    BY TableAssumption DEF InUse, ZeroTable, Init
  <2>4. RuleInv
    BY <2>3 DEF RuleInv, Init, Body, Storing, Setting
  <2> QED
    BY <2>1, <2>2, <2>4, InitTypeInv
<1>2. Inv /\ [Next]_vars => Inv'
  <2> SUFFICES ASSUME Inv, [Next]_vars PROVE Inv'
    OBVIOUS
  <2>1. TypeInv'
    BY StepTypeInv
  <2>2. ASSUME ~collided' PROVE Good'
    <3>1. Good /\ Alone
      BY <2>2, CollidedStays DEF TypeInv, OneSlotInv
    <3>2. Alone'
      BY <2>2, <3>1, StepAlone DEF TypeInv
    <3>3. SlotInv' /\ OneSlotPerSite'
      BY <2>2, <3>1, StepOneSlotInv
    <3>4. HeaderInv'
      BY <2>2, <3>1, StepHeaderInv
    <3>5. RuleInv'
      BY <2>2, <3>1, StepRuleInv
    <3> QED
      BY <2>1, <3>2, <3>3, <3>4, <3>5 DEF OneSlotInv
  <2> QED
    BY <2>1, <2>2
<1>3. Inv /\ [Next]_vars =>
        [\A s \in Sites :
           /\ ~collided'
           /\ RuleOf(stable, s, now) # NoRule
           /\ RuleOf(stable', s, now) # RuleOf(stable, s, now)
           => \E t \in Tools : job[t].entry.site = s /\ job'[t] = NoJob]_vars
  <2> SUFFICES ASSUME Inv, [Next]_vars, ~collided', NEW s \in Sites,
                      RuleOf(stable', s, now) # RuleOf(stable, s, now)
               PROVE  \E t \in Tools : job[t].entry.site = s /\ job'[t] = NoJob
    OBVIOUS
  <2>1. TypeOK /\ TypeOK' /\ Alone /\ RuleInv
    BY <1>2, CollidedStays DEF TypeInv, OneSlotInv
  <2> QED
    BY <2>1, StepKeepsRules
<1> QED
  BY <1>1, <1>2, <1>3, PTL DEF Spec, RulesKept

=============================================================================
