----------------------------- MODULE BackendProofs -----------------------------
(***************************************************************************)
(* Proofs about the collector behind its batch (Backend): the upgrade of   *)
(* the database, the live stream, the minutes, the alerts and the readers, *)
(* for all sets of columns, clients, hosts, rules and requests, and every  *)
(* bound.                                                                  *)
(***************************************************************************)
EXTENDS Backend, SequenceTheorems, FiniteSetTheorems, WellFoundedInduction, TLAPS

-----------------------------------------------------------------------------
(* The inductive invariant.                                                *)

\* From the second phase on the columns are there, from the third the indexes.
SchemaInv ==
  /\ opener # "failed"
  /\ opener \in {"indexes", "migrations", "open"} => columns = Columns
  /\ opener \in {"migrations", "open"} => indexes = Indexed

\* A client is offered once; until it is registered nothing is sent to it, and its
\* goroutines start after that.
ClientInv(c) ==
  /\ conn[c] = "none" <=> reader[c] = "none"
  /\ reader[c] \in {"none", "register"} =>
       c \notin hubClients /\ ~closed[c] /\ queue[c] = << >> /\ heard[c] = << >>
  /\ reader[c] \in {"none", "register", "start"} => writer[c] = "none"
  /\ c \in hubClients => ~closed[c]

\* The sequence s is what t has behind its first k elements, or the beginning of it.
Follows(s, t, k) ==
  /\ k + Len(s) <= Len(t)
  /\ \A i \in 1 .. Len(s) : s[i] = t[k + i]

\* What is on the connection and what is in the channel continue each other; a client that is
\* written to and has not been dropped lacks nothing.
StreamInv(c) ==
  LET written == joined[c] + Len(heard[c])
  IN /\ Follows(heard[c], taken, joined[c])
     /\ writer[c] # "done" =>
          /\ Follows(queue[c], taken, written)
          /\ c \in hubClients => written + Len(queue[c]) = Len(taken)

HubInv ==
  /\ HubTypeOK
  /\ broadcast \in Seq(Nat) /\ taken \in Seq(Nat)
  /\ queue \in [Clients -> Seq(Nat)] /\ heard \in [Clients -> Seq(Nat)]
  /\ joined \in [Clients -> Nat]
  /\ ~panicked
  /\ \A c \in Clients : ClientInv(c) /\ StreamInv(c)

Row == [id : Nat \ {0}, ref : Nat, minute : Nat \ {0}, host : Hosts, dur : Nat, err : BOOLEAN,
        s500 : BOOLEAN, n1 : BOOLEAN, tables : SUBSET Tables]
Waiting == [host : Hosts, dur : Nat, err : BOOLEAN, s500 : BOOLEAN, n1 : BOOLEAN,
            tables : SUBSET Tables, ref : Nat, minute : Nat \ {0}]
Seen == [rule : Rules, host : Hosts, at : Nat \ {0}]
Phases == {"idle", "hosts", "p95", "rules", "alerts", "cap", "purge", "purgeagg"}

\* The value of a row of aggregates_1m is left open: that it is right is RowsInv.
IsRollup(r) ==
  /\ r.minute \in Nat /\ r.host \in Hosts
  /\ r = [minute |-> r.minute, host |-> r.host, count |-> r.count, errs |-> r.errs,
          max |-> r.max, p95 |-> r.p95]

TablesTyped ==
  /\ traces \subseteq Row /\ IsFiniteSet(traces) /\ lastId \in Nat
  /\ children \subseteq [table : Tables, trace : Nat, ref : Nat]
  /\ \A r \in rollups : IsRollup(r)
  /\ alerts \subseteq [id : Nat, rule : Rules, host : Hosts, at : Nat \ {0}]
  /\ IsFiniteSet(alerts)

WorkTyped ==
  /\ part \in Parts
  /\ now \in Nat \ {0} /\ received \in Nat /\ faults \in Nat /\ lastAgg \in Nat
  /\ batch \subseteq Waiting
  /\ owed \subseteq Seen

AggTyped ==
  agg \in [pc : Phases, minute : Nat, hosts : SUBSET Hosts, rules : SUBSET Rules,
           events : SUBSET Seen, pass : 0 .. Passes]

ViewTyped ==
  view \in [pc : {"idle", "detail", "diag"}, rows : SUBSET Row,
            todo : SUBSET [table : Tables, trace : Nat],
            got : SUBSET [table : Tables, trace : Nat, ref : Nat],
            failed : SUBSET [table : Tables, trace : Nat]]

StoreTyped == TablesTyped /\ WorkTyped /\ AggTyped /\ ViewTyped

\* An id is given once.
IdInv ==
  /\ \A t \in traces \union view.rows : t.id <= lastId
  /\ \A k \in children : k.trace <= lastId
  /\ \A s, t \in traces : s.id = t.id => s = t

\* Details are of the trace whose id they have, and all of them are there and stay.
DetailInv ==
  /\ \A t \in traces \union view.rows :
       /\ \A k \in children : k.trace = t.id => k.ref = t.ref
       /\ \A b \in t.tables : \E k \in children : k.trace = t.id /\ k.table = b
  /\ view.got \subseteq children
  /\ \A t \in view.rows : \A b \in t.tables :
       (view.pc = "diag" => b # "marks") /\ Read(t, b) \notin view.todo \union view.failed
         => \E k \in view.got : k.trace = t.id /\ k.table = b

\* A minute has one row for each of its hosts and none for others.
KeyInv ==
  /\ \A r, q \in rollups : r.minute = q.minute /\ r.host = q.host => r = q
  /\ \A r \in rollups : OfMinute(r.minute, r.host) # {}
  /\ part # "minutes" => rollups = {} /\ lastAgg = NoMinute

HasRows(m) == \A h \in HostsOf(m) : \E r \in rollups : r.minute = m /\ r.host = h

\* While Aggregate1m runs, its minute is not the last one that was done; the hosts it has
\* not come to are those whose row may lack its p95.
RowsInv ==
  /\ AggregateTellsStored
  /\ agg.pc \in {"hosts", "p95"} =>
       /\ lastAgg < agg.minute
       /\ agg.minute \notin stale => HasRows(agg.minute)
  /\ agg.pc = "p95" /\ faults = 0 /\ agg.minute \notin stale =>
       \A r \in rollups : r.minute = agg.minute /\ r.host \notin agg.hosts =>
         r.p95 = P95(OfMinute(r.minute, r.host))

\* In a check each rule is looked at once, so that no two events of one rule and host wait to
\* be stored, and no alert of them is stored in between.
AlertInv ==
  /\ AlertsSpaced
  /\ \A a \in alerts : a.id <= Cardinality(alerts) /\ a.at <= now
  /\ \A e \in agg.events : \A a \in AlertsOf(e.rule, e.host) :
       e.at >= a.at + e.rule.cooldown \/ [rule |-> e.rule, host |-> e.host] \in blind
  /\ agg.events \subseteq owed
  /\ \A o \in owed : \A e \in agg.events : o.rule = e.rule /\ o.host = e.host => o = e
  /\ \A o \in owed : o.at <= now
  /\ agg.pc = "rules" => \A o \in owed : o.rule \notin agg.rules
  /\ agg.pc \notin {"rules", "alerts"} => agg.events = {}

IInv ==
  /\ SchemaTypeOK /\ SchemaInv
  /\ HubInv
  /\ StoreTyped
  /\ IdInv /\ DetailInv
  /\ KeyInv /\ RowsInv
  /\ AlertInv

-----------------------------------------------------------------------------
(* The upgrade of the database.                                            *)

LEMMA SchemaStep ==
  ASSUME SchemaTypeOK, SchemaInv, [SchemaNext]_schemaVars
  PROVE  SchemaTypeOK' /\ SchemaInv'
<1> USE SchemaAssumption DEF SchemaTypeOK, SchemaInv
<1>1. CASE OpenStorage
  BY <1>1 DEF OpenStorage
<1>2. CASE ColumnsDone
  BY <1>2 DEF ColumnsDone, TablesDone
<1>3. CASE IndexesDone
  BY <1>3 DEF IndexesDone
<1>4. CASE PrepareStatements
  BY <1>4 DEF PrepareStatements
<1>5. CASE CloseStorage
  BY <1>5 DEF CloseStorage
<1>6. ASSUME NEW c \in Columns, AddColumn(c)
      PROVE  SchemaTypeOK' /\ SchemaInv'
  BY <1>6 DEF AddColumn
<1>7. ASSUME NEW c \in Columns, CreateIndex(c)
      PROVE  SchemaTypeOK' /\ SchemaInv'
  BY <1>7 DEF CreateIndex
<1>8. ASSUME NEW c \in Columns, Migrate(c)
      PROVE  SchemaTypeOK' /\ SchemaInv'
  BY <1>8 DEF Migrate
<1>9. CASE UNCHANGED schemaVars
  BY <1>9 DEF schemaVars
<1> QED
  BY <1>1, <1>2, <1>3, <1>4, <1>5, <1>6, <1>7, <1>8, <1>9 DEF SchemaNext

-----------------------------------------------------------------------------
(* Sequences that continue each other.                                     *)

LEMMA FollowsEmpty ==
  ASSUME NEW t \in Seq(Nat)
  PROVE  Follows(<< >>, t, Len(t))
BY DEF Follows

LEMMA FollowsLonger ==
  ASSUME NEW s \in Seq(Nat), NEW t \in Seq(Nat), NEW k \in Nat, NEW m \in Nat, Follows(s, t, k)
  PROVE  Follows(s, Append(t, m), k)
<1>1. k + Len(s) <= Len(Append(t, m))
  BY DEF Follows
<1>2. ASSUME NEW i \in 1 .. Len(s)
      PROVE  s[i] = Append(t, m)[k + i]
  <2>1. k + i \in 1 .. Len(t)
    BY DEF Follows
  <2> QED
    BY <2>1 DEF Follows
<1> QED
  BY <1>1, <1>2 DEF Follows

LEMMA FollowsBoth ==
  ASSUME NEW s \in Seq(Nat), NEW t \in Seq(Nat), NEW k \in Nat, NEW m \in Nat,
         Follows(s, t, k), k + Len(s) = Len(t)
  PROVE  /\ Follows(Append(s, m), Append(t, m), k)
         /\ k + Len(Append(s, m)) = Len(Append(t, m))
<1> DEFINE u == Append(s, m)  v == Append(t, m)
<1>1. PICK a \in Nat : a = Len(s)
  OBVIOUS
<1>2. PICK b \in Nat : b = Len(t)
  OBVIOUS
<1>3. /\ u \in Seq(Nat) /\ Len(u) = a + 1 /\ u[a + 1] = m /\ \A i \in 1 .. a : u[i] = s[i]
      /\ v \in Seq(Nat) /\ Len(v) = b + 1 /\ v[b + 1] = m /\ \A i \in 1 .. b : v[i] = t[i]
  BY <1>1, <1>2
<1> HIDE DEF u, v
<1>4. ASSUME NEW i \in 1 .. a + 1
      PROVE  u[i] = v[k + i]
  <2>1. CASE i = a + 1
    BY <1>1, <1>2, <1>3, <2>1
  <2>2. CASE i # a + 1
    <3>1. i \in 1 .. a /\ k + i \in 1 .. b
      BY SMTT(30), <1>1, <1>2, <2>2
    <3> QED
      BY <1>1, <1>3, <3>1 DEF Follows
  <2> QED
    BY <2>1, <2>2
<1>5. k + Len(u) = Len(v)
  <2>1. k + a = b
    BY <1>1, <1>2
  <2> QED
    BY <1>3, <2>1
<1>6. Follows(u, v, k)
  BY <1>1, <1>2, <1>3, <1>4, <1>5 DEF Follows
<1> QED
  BY <1>5, <1>6 DEF u, v

LEMMA FollowsTail ==
  ASSUME NEW q \in Seq(Nat), NEW t \in Seq(Nat), NEW k \in Nat, Follows(q, t, k), q # << >>
  PROVE  Follows(Tail(q), t, k + 1) /\ t[k + 1] = Head(q)
<1>1. PICK b \in Nat : b = Len(q)
  OBVIOUS
<1>2. /\ Len(Tail(q)) = b - 1 /\ b >= 1 /\ Head(q) = q[1]
      /\ \A i \in 1 .. b - 1 : Tail(q)[i] = q[i + 1]
  BY <1>1
<1>3. k + b <= Len(t) /\ \A i \in 1 .. b : q[i] = t[k + i]
  BY <1>1 DEF Follows
<1>4. (k + 1) + (b - 1) <= Len(t)
  BY <1>1, <1>2, <1>3
<1>5. ASSUME NEW i \in 1 .. b - 1
      PROVE  Tail(q)[i] = t[(k + 1) + i]
  <2>1. q[i + 1] = t[k + (i + 1)] /\ k + (i + 1) = (k + 1) + i
    BY <1>1, <1>3
  <2> QED
    BY <1>2, <2>1
<1> QED
  BY <1>1, <1>2, <1>3, <1>4, <1>5 DEF Follows

LEMMA OneMoves == \A k, b \in Nat : (k + 1) + (b - 1) = k + b
OBVIOUS

LEMMA FollowsAppend ==
  ASSUME NEW h \in Seq(Nat), NEW t \in Seq(Nat), NEW j \in Nat, NEW m \in Nat, Follows(h, t, j),
         j + Len(h) + 1 <= Len(t), t[j + Len(h) + 1] = m
  PROVE  Follows(Append(h, m), t, j)
<1>1. PICK a \in Nat : a = Len(h)
  OBVIOUS
<1>2. /\ Len(Append(h, m)) = a + 1 /\ Append(h, m)[a + 1] = m
      /\ \A i \in 1 .. a : Append(h, m)[i] = h[i]
  BY <1>1
<1>3. j + (a + 1) <= Len(t)
  BY <1>1
<1>4. ASSUME NEW i \in 1 .. a + 1
      PROVE  Append(h, m)[i] = t[j + i]
  <2>1. CASE i = a + 1
    <3>1. j + a + 1 = j + i
      BY <1>1, <2>1
    <3> QED
      BY <1>1, <1>2, <2>1, <3>1
  <2>2. CASE i # a + 1
    <3>1. i \in 1 .. a
      BY <1>1, <2>2
    <3> QED
      BY <1>1, <1>2, <3>1 DEF Follows
  <2> QED
    BY <2>1, <2>2
<1> QED
  BY <1>2, <1>3, <1>4 DEF Follows

\* What follows the first j of t begins what is left of t, and two sequences that reach its end
\* are what is left of it.
LEMMA FollowsRest ==
  ASSUME NEW h \in Seq(Nat), NEW q \in Seq(Nat), NEW t \in Seq(Nat), NEW j \in Nat,
         Follows(h, t, j)
  PROVE  LET left == SubSeq(t, j + 1, Len(t))
         IN /\ IsPrefix(h, left)
            /\ Follows(q, t, j + Len(h)) /\ j + Len(h) + Len(q) = Len(t) => h \o q = left
<1> DEFINE left == SubSeq(t, j + 1, Len(t))
<1>1. PICK a \in Nat : a = Len(h)
  OBVIOUS
<1>2. PICK b \in Nat : b = Len(q)
  OBVIOUS
<1>3. PICK n \in Nat : n = Len(t)
  OBVIOUS
<1>4. j + a <= n /\ \A i \in 1 .. a : h[i] = t[j + i]
  BY <1>1, <1>3 DEF Follows
<1>5. /\ left \in Seq(Nat) /\ Len(left) = n - j
      /\ \A i \in 1 .. n - j : left[i] = t[j + i]
  <2>1. Len(left) = n - j
    BY <1>3, <1>4
  <2>2. \A i \in 1 .. n - j : left[i] = t[j + i]
    BY <1>3, <1>4
  <2>3. left \in Seq(Nat)
    BY <1>3, <1>4
  <2> QED
    BY <2>1, <2>2, <2>3
<1> HIDE DEF left
<1>6. IsPrefix(h, left)
  <2>1. a <= Len(left) /\ \A i \in 1 .. a : h[i] = left[i]
    BY <1>4, <1>5
  <2>2. SubSeq(h, 1, a) = SubSeq(left, 1, a)
    BY <1>1, <1>5, <2>1
  <2> QED
    BY <1>1, <2>1, <2>2 DEF IsPrefix
<1>7. ASSUME Follows(q, t, j + a), j + a + b = n
      PROVE  h \o q = left
  <2>1. \A i \in 1 .. b : q[i] = t[j + a + i]
    BY <1>2, <1>7 DEF Follows
  <2>2. /\ h \o q \in Seq(Nat) /\ Len(h \o q) = a + b
        /\ \A i \in 1 .. a : (h \o q)[i] = h[i]
        /\ \A i \in a + 1 .. a + b : (h \o q)[i] = q[i - a]
    BY <1>1, <1>2
  <2>3. ASSUME NEW i \in 1 .. a + b
        PROVE  (h \o q)[i] = left[i]
    <3>1. left[i] = t[j + i]
      BY <1>4, <1>5, <1>7
    <3>2. CASE i <= a
      BY <1>4, <2>2, <3>1, <3>2
    <3>3. CASE i > a
      <4>1. i - a \in 1 .. b /\ j + a + (i - a) = j + i /\ i \in a + 1 .. a + b
        BY <3>3
      <4> QED
        BY <2>1, <2>2, <3>1, <4>1
    <3>4. i <= a \/ i > a
      BY <1>1, <1>2
    <3> QED
      BY <3>2, <3>3, <3>4
  <2>4. Len(left) = a + b
    <3>1. n - j = a + b
      BY <1>1, <1>2, <1>3, <1>7
    <3> QED
      BY <1>5, <3>1
  <2> QED
    BY <1>5, <2>2, <2>3, <2>4, SeqEqual
<1> QED
  BY <1>1, <1>2, <1>3, <1>6, <1>7 DEF left

-----------------------------------------------------------------------------
(* The live stream.                                                        *)

\* What the invariant says of one client is about these variables only.
LEMMA ClientSame ==
  ASSUME NEW c \in Clients, StreamInv(c), HubInv,
         queue'[c] = queue[c], heard'[c] = heard[c], joined'[c] = joined[c], taken' = taken,
         writer'[c] # "done" => writer[c] # "done",
         c \in hubClients' => c \in hubClients
  PROVE  StreamInv(c)'
BY DEF StreamInv

\* Broadcast only appends to the channel of the hub, if at all.
LEMMA BroadcastStep ==
  ASSUME NEW t \in Nat, HubInv, Broadcast(t)
  PROVE  HubInv'
<1> USE HubAssumption DEF HubInv, HubTypeOK
<1>1. broadcast' \in Seq(Nat) /\ Len(broadcast') <= BroadcastSlots
  BY DEF Broadcast
<1>2. \A c \in Clients : ClientInv(c)' /\ StreamInv(c)'
  BY DEF Broadcast, pumpVars, ClientInv, StreamInv
<1> QED
  BY <1>1, <1>2 DEF Broadcast, pumpVars

LEMMA RegisterStep ==
  ASSUME NEW c \in Clients, HubInv, Register(c)
  PROVE  HubInv'
<1>1. HubTypeOK'
  BY DEF Register, HubInv, HubTypeOK
<1>2. joined' \in [Clients -> Nat]
  BY DEF Register, HubInv
<1>3. ASSUME NEW d \in Clients
      PROVE  ClientInv(d)' /\ StreamInv(d)'
  <2>1. ClientInv(d) /\ StreamInv(d)
    BY DEF HubInv
  <2>2. CASE d = c
    <3>1. joined'[c] = Len(taken) /\ heard'[c] = << >> /\ queue'[c] = << >>
      BY <2>1, <2>2 DEF Register, HubInv, ClientInv
    <3>2. taken' = taken /\ taken \in Seq(Nat)
      BY DEF Register, HubInv
    <3>3. Follows(<< >>, taken, Len(taken)) /\ Len(taken) + Len(<< >>) = Len(taken)
      BY <3>2, FollowsEmpty
    <3>4. StreamInv(c)'
      BY <3>1, <3>2, <3>3 DEF StreamInv
    <3> QED
      BY <2>1, <2>2, <3>4 DEF Register, HubInv, HubTypeOK, ClientInv
  <2>3. CASE d # c
    <3>1. StreamInv(d)'
      BY <2>1, <2>3, ClientSame DEF Register, HubInv
    <3> QED
      BY <2>1, <2>3, <3>1 DEF Register, HubInv, HubTypeOK, ClientInv
  <2> QED
    BY <2>2, <2>3
<1> QED
  BY <1>1, <1>2, <1>3 DEF Register, HubInv

LEMMA UnregisterStep ==
  ASSUME NEW c \in Clients, HubInv, Unregister(c)
  PROVE  HubInv'
<1>1. HubTypeOK'
  BY DEF Unregister, Close, HubInv, HubTypeOK
<1>2. ~panicked'
  BY DEF Unregister, Close, Leaving, HubInv, ClientInv
<1>3. ASSUME NEW d \in Clients
      PROVE  ClientInv(d)' /\ StreamInv(d)'
  <2>1. ClientInv(d) /\ StreamInv(d)
    BY DEF HubInv
  <2>2. StreamInv(d)'
    BY <2>1, ClientSame DEF Unregister
  <2> QED
    BY <2>1, <2>2 DEF Unregister, Close, Leaving, HubInv, HubTypeOK, ClientInv
<1> QED
  BY <1>1, <1>2, <1>3 DEF Unregister, HubInv

LEMMA DeliverStep ==
  ASSUME HubInv, Deliver
  PROVE  HubInv'
<1> USE HubAssumption
<1>1. PICK m \in Nat : m = Head(broadcast)
  BY DEF Deliver, HubInv
<1>2. broadcast' \in Seq(Nat) /\ Len(broadcast') <= BroadcastSlots
  BY DEF Deliver, HubInv, HubTypeOK
<1>3. CASE hubClients = {}
  <2>1. UNCHANGED <<hubClients, queue, closed, taken, panicked, pumpVars, joined, heard>>
    BY <1>3 DEF Deliver
  <2>2. ASSUME NEW c \in Clients
        PROVE  ClientInv(c)' /\ StreamInv(c)'
    BY <2>1 DEF pumpVars, HubInv, ClientInv, StreamInv
  <2> QED
    BY <1>2, <2>1, <2>2 DEF pumpVars, HubInv, HubTypeOK
<1>4. CASE hubClients # {}
  <2>1. taken' = Append(taken, m) /\ taken \in Seq(Nat) /\ taken' \in Seq(Nat)
    <3>1. taken' = Append(taken, m) /\ taken \in Seq(Nat)
      BY <1>1, <1>4 DEF Deliver, HubInv
    <3> QED
      BY <3>1
  <2>2. hubClients' = hubClients \ Slow /\ Close(Slow) /\ UNCHANGED <<pumpVars, joined, heard>>
    BY <1>4 DEF Deliver
  <2>3. ASSUME NEW c \in Clients
        PROVE  /\ queue[c] \in Seq(Nat)
               /\ queue'[c] = IF c \in hubClients /\ ~Full(c)
                              THEN Append(queue[c], m) ELSE queue[c]
               /\ queue'[c] \in Seq(Nat) /\ Len(queue'[c]) <= SendSlots
    <3>1. queue'[c] = IF c \in hubClients /\ ~Full(c) THEN Append(queue[c], m) ELSE queue[c]
      BY <1>1, <1>4 DEF Deliver
    <3>2. queue[c] \in Seq(Nat) /\ Len(queue[c]) <= SendSlots
      BY DEF HubInv, HubTypeOK
    <3>3. CASE c \in hubClients /\ ~Full(c)
      BY <3>1, <3>2, <3>3 DEF Full
    <3>4. CASE ~(c \in hubClients /\ ~Full(c))
      BY <3>1, <3>2, <3>4
    <3> QED
      BY <3>1, <3>2, <3>3, <3>4
  <2>4. queue' \in [Clients -> Seq(Nat)]
    BY <1>4, <2>3 DEF Deliver
  <2>5. HubTypeOK'
    BY <1>2, <2>2, <2>3 DEF Close, pumpVars, HubInv, HubTypeOK
  <2>6. ~panicked'
    BY <2>2 DEF Close, Slow, HubInv, HubTypeOK, ClientInv
  <2>7. ASSUME NEW c \in Clients
        PROVE  ClientInv(c)'
    BY <2>2, <2>3 DEF Close, Slow, pumpVars, HubInv, HubTypeOK, ClientInv
  <2>8. ASSUME NEW c \in Clients
        PROVE  StreamInv(c)'
    <3>1. /\ joined'[c] = joined[c] /\ heard'[c] = heard[c] /\ writer'[c] = writer[c]
          /\ joined[c] \in Nat /\ heard[c] \in Seq(Nat) /\ StreamInv(c)
      BY <2>2 DEF pumpVars, HubInv
    <3>2. Follows(heard[c], taken', joined[c])
      BY <2>1, <3>1, FollowsLonger DEF StreamInv
    <3>3. PICK w \in Nat : w = joined[c] + Len(heard[c])
      BY <3>1
    <3>4. ASSUME writer[c] # "done"
          PROVE  /\ Follows(queue'[c], taken', w)
                 /\ c \in hubClients' => w + Len(queue'[c]) = Len(taken')
      <4>1. Follows(queue[c], taken, w) /\ (c \in hubClients => w + Len(queue[c]) = Len(taken))
        BY <3>1, <3>3, <3>4 DEF StreamInv
      <4>2. CASE c \in hubClients /\ ~Full(c)
        <5>1. c \in hubClients /\ queue[c] \in Seq(Nat) /\ queue'[c] = Append(queue[c], m)
          BY <2>3, <4>2
        <5>2. w + Len(queue[c]) = Len(taken)
          BY <4>1, <5>1
        <5> QED
          BY <1>1, <2>1, <3>3, <4>1, <5>1, <5>2, FollowsBoth
      <4>3. CASE ~(c \in hubClients /\ ~Full(c))
        <5>1. c \notin hubClients'
          BY <2>2, <4>3 DEF Slow
        <5> QED
          BY <2>1, <2>3, <4>1, <4>3, <5>1, FollowsLonger
      <4> QED
        BY <4>2, <4>3
    <3> QED
      BY <3>1, <3>2, <3>3, <3>4 DEF StreamInv
  <2> QED
    BY <1>2, <2>1, <2>2, <2>4, <2>5, <2>6, <2>7, <2>8 DEF HubInv
<1> QED
  BY <1>3, <1>4

\* The steps of connections that leave the channels, what was heard and the hub as they are.
LEMMA QuietSteps ==
  ASSUME NEW c \in Clients, HubInv,
         Connect(c) \/ StartPumps(c) \/ PeerGone(c) \/ ReadFails(c)
  PROVE  HubInv'
<1>1. UNCHANGED <<hubClients, broadcast, queue, closed, taken, joined, heard, panicked>>
  BY DEF Connect, StartPumps, PeerGone, ReadFails
<1>2. HubTypeOK'
  BY <1>1 DEF Connect, StartPumps, PeerGone, ReadFails, HubInv, HubTypeOK
<1>3. ASSUME NEW d \in Clients
      PROVE  StreamInv(d)'
  <2>1. writer'[d] # "done" => writer[d] # "done"
    <3>1. CASE StartPumps(c)
      <4>1. writer[c] = "none"
        BY <3>1 DEF StartPumps, HubInv, ClientInv
      <4> QED
        BY <3>1, <4>1 DEF StartPumps, HubInv, HubTypeOK
    <3>2. CASE Connect(c) \/ PeerGone(c) \/ ReadFails(c)
      BY <3>2 DEF Connect, PeerGone, ReadFails
    <3> QED
      BY <3>1, <3>2
  <2> QED
    BY <1>1, <2>1, ClientSame DEF HubInv
<1>4. ASSUME NEW d \in Clients
      PROVE  ClientInv(d)'
  <2>1. ClientInv(d) /\ ClientInv(c) /\ HubTypeOK
    BY DEF HubInv
  <2>2. CASE Connect(c)
    BY <1>1, <2>1, <2>2 DEF Connect, HubTypeOK, ClientInv
  <2>3. CASE StartPumps(c)
    BY <1>1, <2>1, <2>3 DEF StartPumps, HubTypeOK, ClientInv
  <2>4. CASE PeerGone(c)
    BY <1>1, <2>1, <2>4 DEF PeerGone, HubTypeOK, ClientInv
  <2>5. CASE ReadFails(c)
    BY <1>1, <2>1, <2>5 DEF ReadFails, HubTypeOK, ClientInv
  <2> QED
    BY <2>2, <2>3, <2>4, <2>5
<1> QED
  BY <1>1, <1>2, <1>3, <1>4 DEF HubInv

\* What leaves the front of the channel is what comes next on the connection.
LEMMA WriteMessageStep ==
  ASSUME NEW c \in Clients, HubInv, WriteMessage(c)
  PROVE  HubInv'
<1>1. /\ queue[c] \in Seq(Nat) /\ queue[c] # << >> /\ heard[c] \in Seq(Nat)
      /\ joined[c] \in Nat /\ taken \in Seq(Nat)
      /\ writer[c] # "done" /\ StreamInv(c) /\ ClientInv(c)
  BY DEF WriteMessage, HubInv
<1>2. /\ queue'[c] = Tail(queue[c])
      /\ heard'[c] = Append(heard[c], Head(queue[c]))
      /\ \A d \in Clients \ {c} : queue'[d] = queue[d] /\ heard'[d] = heard[d]
  BY DEF WriteMessage, HubInv
<1>3. /\ queue'[c] \in Seq(Nat) /\ Len(queue'[c]) <= Len(queue[c])
      /\ heard'[c] \in Seq(Nat)
  BY <1>1, <1>2
<1>4. UNCHANGED <<hubClients, broadcast, closed, conn, peer, reader, writer, taken, joined,
                  panicked>>
  BY DEF WriteMessage, pumpVars
<1>5. queue' \in [Clients -> Seq(Nat)] /\ heard' \in [Clients -> Seq(Nat)]
  BY <1>2, <1>3 DEF WriteMessage, HubInv
<1>6. HubTypeOK'
  <2>1. \A d \in Clients : Len(queue'[d]) <= SendSlots
    <3>1. /\ \A d \in Clients : Len(queue[d]) <= SendSlots
          /\ Len(queue[c]) \in Nat /\ Len(queue'[c]) \in Nat
      BY <1>1, <1>3 DEF HubInv, HubTypeOK
    <3>2. Len(queue'[c]) <= SendSlots
      BY <1>3, <3>1, HubAssumption
    <3> QED
      BY <1>2, <3>1, <3>2
  <2> QED
    BY <1>4, <2>1 DEF HubInv, HubTypeOK
<1>7. ASSUME NEW d \in Clients
      PROVE  ClientInv(d)'
  <2>1. d = c => reader[c] \notin {"none", "register"}
    BY <1>1 DEF ClientInv, WriteMessage
  <2> QED
    BY <1>2, <1>4, <2>1 DEF HubInv, ClientInv
<1>8. ASSUME NEW d \in Clients
      PROVE  StreamInv(d)'
  <2>1. CASE d # c
    BY <1>2, <1>4, <2>1, ClientSame DEF HubInv
  <2>2. CASE d = c
    <3>1. /\ Follows(heard[c], taken, joined[c])
          /\ Follows(queue[c], taken, joined[c] + Len(heard[c]))
          /\ c \in hubClients => joined[c] + Len(heard[c]) + Len(queue[c]) = Len(taken)
      BY <1>1 DEF StreamInv
    <3>2. /\ Follows(heard'[c], taken, joined[c])
          /\ Follows(queue'[c], taken, joined[c] + Len(heard'[c]))
          /\ joined[c] + Len(heard'[c]) + Len(queue'[c])
               = joined[c] + Len(heard[c]) + Len(queue[c])
      <4>1. PICK m \in Nat : m = Head(queue[c])
        BY <1>1
      <4>2. /\ joined[c] \in Nat /\ Len(heard[c]) \in Nat /\ Len(queue[c]) \in Nat
            /\ Len(taken) \in Nat
        BY <1>1
      <4>3. PICK k \in Nat : k = joined[c] + Len(heard[c])
        BY <4>2
      <4>4. Follows(Tail(queue[c]), taken, k + 1) /\ taken[k + 1] = m
        BY SMTT(30), <1>1, <3>1, <4>1, <4>3, FollowsTail
      <4>5. Len(queue[c]) >= 1 /\ Len(Tail(queue[c])) = Len(queue[c]) - 1
        BY <1>1
      <4>6. k + 1 <= Len(taken)
        BY <3>1, <4>2, <4>3, <4>5 DEF Follows
      <4>7. Follows(Append(heard[c], m), taken, joined[c])
        BY <1>1, <3>1, <4>1, <4>3, <4>4, <4>6, FollowsAppend
      <4>8. Len(Append(heard[c], m)) = Len(heard[c]) + 1
        BY <1>1, <4>1
      <4>9. joined[c] + (Len(heard[c]) + 1) = k + 1
        BY <4>2, <4>3
      <4>10. (k + 1) + (Len(queue[c]) - 1) = k + Len(queue[c])
        BY <4>2, OneMoves
      <4> QED
        BY <1>2, <4>1, <4>3, <4>4, <4>5, <4>7, <4>8, <4>9, <4>10
    <3> QED
      BY <1>4, <2>2, <3>1, <3>2 DEF StreamInv
  <2> QED
    BY <2>1, <2>2
<1> QED
  BY <1>4, <1>5, <1>6, <1>7, <1>8 DEF HubInv

\* A writer that ends is the last to read the channel.
LEMMA WriterEnds ==
  ASSUME NEW c \in Clients, HubInv, WriteFails(c) \/ ChannelClosed(c)
  PROVE  HubInv'
<1>1. /\ writer[c] = "write" /\ writer' = [writer EXCEPT ![c] = "done"]
      /\ conn' = [conn EXCEPT ![c] = "closed"]
      /\ UNCHANGED <<hubClients, broadcast, closed, peer, reader, taken, joined, heard, panicked>>
  BY DEF WriteFails, ChannelClosed
<1>2. ASSUME NEW d \in Clients
      PROVE  /\ queue'[d] \in Seq(Nat) /\ Len(queue'[d]) <= SendSlots
             /\ d # c => queue'[d] = queue[d]
             /\ queue[d] = << >> => queue'[d] = << >>
  <2>1. queue[d] \in Seq(Nat) /\ Len(queue[d]) <= SendSlots
    BY DEF HubInv, HubTypeOK
  <2>2. queue'[d] = queue[d] \/ (queue[d] # << >> /\ d = c /\ queue'[d] = Tail(queue[d]))
    BY DEF WriteFails, ChannelClosed, HubInv
  <2>3. CASE queue'[d] = queue[d]
    BY <2>1, <2>3
  <2>4. CASE queue[d] # << >> /\ d = c /\ queue'[d] = Tail(queue[d])
    BY <2>1, <2>4, HubAssumption
  <2> QED
    BY <2>2, <2>3, <2>4
<1>3. queue' \in [Clients -> Seq(Nat)]
  BY <1>2 DEF WriteFails, ChannelClosed, HubInv
<1>4. HubTypeOK'
  BY <1>1, <1>2 DEF HubInv, HubTypeOK
<1>5. ASSUME NEW d \in Clients
      PROVE  ClientInv(d)'
  <2>1. ClientInv(d) /\ d \in DOMAIN conn /\ d \in DOMAIN writer
    BY DEF HubInv, HubTypeOK
  <2> QED
    BY <1>1, <1>2, <2>1 DEF ClientInv
<1>6. ASSUME NEW d \in Clients
      PROVE  StreamInv(d)'
  <2>1. StreamInv(d) /\ writer \in [Clients -> {"none", "write", "done"}]
    BY DEF HubInv, HubTypeOK
  <2>2. CASE d = c
    <3>1. writer'[c] = "done"
      BY <1>1, <2>1
    <3> QED
      BY <1>1, <2>1, <2>2, <3>1 DEF StreamInv
  <2>3. CASE d # c
    <3>1. writer'[d] = writer[d]
      BY <1>1, <2>1, <2>3
    <3> QED
      BY <1>1, <1>2, <2>1, <2>3, <3>1, ClientSame
  <2> QED
    BY <2>2, <2>3
<1> QED
  BY <1>1, <1>3, <1>4, <1>5, <1>6 DEF HubInv

LEMMA HubStep ==
  ASSUME HubInv, HubNext \/ UNCHANGED hubVars
  PROVE  HubInv'
<1>1. CASE Deliver
  BY <1>1, DeliverStep
<1>2. ASSUME NEW c \in Clients, Register(c) \/ Unregister(c)
      PROVE  HubInv'
  BY <1>2, RegisterStep, UnregisterStep
<1>3. ASSUME NEW c \in Clients,
             Connect(c) \/ StartPumps(c) \/ PeerGone(c) \/ ReadPump(c) \/ WritePump(c)
      PROVE  HubInv'
  BY <1>3, QuietSteps, WriteMessageStep, WriterEnds DEF ReadPump, WritePump
<1>4. CASE UNCHANGED hubVars
  BY <1>4 DEF hubVars, HubInv, HubTypeOK, ClientInv, StreamInv
<1> QED
  BY <1>1, <1>2, <1>3, <1>4 DEF HubNext, Hub

\* What the invariant says of single traces is what is promised of sequences.
LEMMA StreamFollows == HubInv => StreamContiguous
<1> SUFFICES ASSUME HubInv, NEW c \in Clients
             PROVE  /\ IsPrefix(heard[c], Since(c))
                    /\ c \in hubClients /\ writer[c] # "done" => heard[c] \o queue[c] = Since(c)
                    /\ c \in hubClients => ~closed[c]
  BY DEF HubInv, StreamContiguous
<1>1. /\ StreamInv(c) /\ ClientInv(c)
      /\ heard[c] \in Seq(Nat) /\ queue[c] \in Seq(Nat) /\ taken \in Seq(Nat)
      /\ joined[c] \in Nat
  BY DEF HubInv
<1>2. Follows(heard[c], taken, joined[c])
  BY <1>1 DEF StreamInv
<1>3. /\ IsPrefix(heard[c], Since(c))
      /\ (Follows(queue[c], taken, joined[c] + Len(heard[c]))
           /\ joined[c] + Len(heard[c]) + Len(queue[c]) = Len(taken))
             => heard[c] \o queue[c] = Since(c)
  BY <1>1, <1>2, FollowsRest DEF Since
<1> QED
  BY <1>1, <1>3 DEF StreamInv, ClientInv

-----------------------------------------------------------------------------
(* Types of the tables and of the goroutines.                              *)

LEMMA NewIdIsLargest ==
  ASSUME NEW n \in Nat
  PROVE  Max({n, n + 1}) = n + 1
<1>1. \A x \in {n, n + 1} : n + 1 >= x
  OBVIOUS
<1>2. \A y \in {n, n + 1} : (\A x \in {n, n + 1} : y >= x) => y = n + 1
  OBVIOUS
<1> QED
  BY <1>1, <1>2 DEF Max

\* What StoreTrace puts into the tables.
NewRow(t) == [id |-> lastId + 1, ref |-> t.ref, minute |-> t.minute, host |-> t.host,
              dur |-> t.dur, err |-> t.err, s500 |-> t.s500, n1 |-> t.n1, tables |-> t.tables]
NewChildren(t) == {[table |-> b, trace |-> lastId + 1, ref |-> t.ref] : b \in t.tables}

LEMMA StoreAdds ==
  ASSUME TablesTyped, WorkTyped, NEW t \in batch, StoreTrace(t)
  PROVE  /\ NewRow(t) \in Row
         /\ traces' = traces \union {NewRow(t)}
         /\ children' = children \union NewChildren(t)
         /\ NewChildren(t) \subseteq [table : Tables, trace : Nat, ref : Nat]
         /\ lastId' = lastId + 1
         /\ UNCHANGED <<rollups, alerts>>
<1>1. t \in Waiting /\ lastId \in Nat
  BY DEF TablesTyped, WorkTyped
<1>2. NewRow(t) \in Row
  BY <1>1 DEF NewRow, Row, Waiting
<1>3. NewChildren(t) \subseteq [table : Tables, trace : Nat, ref : Nat]
  BY <1>1 DEF NewChildren, Waiting
<1>4. lastId' = lastId + 1
  BY <1>1, NewIdIsLargest DEF StoreTrace, NextId
<1> QED
  BY <1>2, <1>3, <1>4 DEF StoreTrace, NextId, NewRow, NewChildren

LEMMA ReceiveTyped ==
  ASSUME StoreTyped, Receive
  PROVE  StoreTyped'
<1>1. PICK q \in Requests[part] : batch' = batch \union {Noted(q)}
  BY DEF Receive
<1>2. q \in [host : Hosts, dur : Nat, err : BOOLEAN, s500 : BOOLEAN, n1 : BOOLEAN,
             tables : SUBSET Tables]
  BY <1>1, BackendAssumption DEF StoreTyped, WorkTyped
<1>3. Noted(q) \in Waiting
  BY <1>2 DEF StoreTyped, WorkTyped, Waiting, Noted
<1>4. /\ received' = received + 1
      /\ UNCHANGED <<part, now, lastAgg, agg, faults, view, owed, storeVars>>
  BY DEF Receive, aggVars, histVars
<1>5. WorkTyped'
  BY <1>1, <1>3, <1>4 DEF StoreTyped, WorkTyped
<1> QED
  BY <1>4, <1>5 DEF StoreTyped, TablesTyped, IsRollup, AggTyped, ViewTyped, storeVars

LEMMA TracesTyped ==
  ASSUME StoreTyped, Store \/ StoreFails
  PROVE  StoreTyped'
<1>1. UNCHANGED <<part, now, received, agg, lastAgg, view, owed>>
  BY DEF Store, StoreFails, aggVars, histVars
<1>2. WorkTyped'
  BY <1>1 DEF Store, StoreFails, Fault, StoreTyped, WorkTyped
<1>3. CASE Store
  <2>1. PICK t \in batch : StoreTrace(t)
    BY <1>3 DEF Store
  <2>2. traces' \subseteq Row /\ IsFiniteSet(traces')
    BY <2>1, StoreAdds, FS_AddElement DEF StoreTyped, TablesTyped
  <2>3. children' \subseteq [table : Tables, trace : Nat, ref : Nat]
    BY <2>1, StoreAdds DEF StoreTyped, TablesTyped
  <2>4. lastId' \in Nat /\ UNCHANGED <<rollups, alerts>>
    BY <2>1, StoreAdds DEF StoreTyped, TablesTyped
  <2>5. TablesTyped'
    BY <2>2, <2>3, <2>4 DEF StoreTyped, TablesTyped, IsRollup
  <2> QED
    BY <1>1, <1>2, <2>5 DEF StoreTyped, AggTyped, ViewTyped
<1>4. CASE StoreFails
  BY <1>1, <1>2, <1>4 DEF StoreFails, storeVars, StoreTyped, TablesTyped, IsRollup, AggTyped,
                          ViewTyped
<1> QED
  BY <1>3, <1>4

\* The tables as they are when no statement changes them, or only the minutes or the alerts.
LEMMA TablesSame ==
  ASSUME TablesTyped, UNCHANGED <<traces, children, lastId>>,
         \/ UNCHANGED <<rollups, alerts>>
         \/ (\A r \in rollups' : IsRollup(r)) /\ UNCHANGED alerts
  PROVE  TablesTyped'
BY DEF TablesTyped, IsRollup

LEMMA MinuteTyped ==
  ASSUME StoreTyped, Minute
  PROVE  StoreTyped'
<1>1. /\ UNCHANGED <<part, now, received, batch, view, traces, children, lastId>>
      /\ faults' \in Nat /\ lastAgg' \in Nat
  <2> USE DEF Minute, Aggregate, ReadHosts, HostP95, HostP95Fails, Aggregated, AggregationFails,
              EvaluateRule, MetricsFail, CooldownFails, RulesDone, Alert, AlertFails, AlertsDone
  <2>1. UNCHANGED <<part, now, received, batch, view>>
    BY DEF rest, workVars
  <2>2. UNCHANGED <<traces, children, lastId>>
    BY DEF storeVars, InsertRollups, SetP95, StoreAlert, Others
  <2>3. faults' \in {faults, faults + 1}
    BY DEF Fault
  <2>4. lastAgg' \in {lastAgg, agg.minute}
    OBVIOUS
  <2>5. faults \in Nat /\ lastAgg \in Nat /\ agg.minute \in Nat
    BY DEF StoreTyped, WorkTyped, AggTyped
  <2> HIDE DEF Minute
  <2>6. faults' \in Nat /\ lastAgg' \in Nat
    BY <2>3, <2>4, <2>5
  <2> QED
    BY <2>1, <2>2, <2>6
<1>2. AggTyped'
  <2>1. CASE Aggregate
    <3>1. Due \in Nat
      BY DEF Due, StoreTyped, WorkTyped
    <3> QED
      BY <2>1, <3>1 DEF Aggregate, StoreTyped, AggTyped, Phases
  <2>2. CASE ReadHosts
    <3>1. HostsOf(agg.minute) \subseteq Hosts
      BY DEF HostsOf, StoreTyped, TablesTyped, Row
    <3> QED
      BY <2>2, <3>1 DEF ReadHosts, StoreTyped, AggTyped, Phases
  <2>3. CASE HostP95 \/ HostP95Fails \/ MetricsFail \/ RulesDone
    BY <2>3 DEF HostP95, HostP95Fails, MetricsFail, RulesDone, StoreTyped, AggTyped, Phases
  <2>4. CASE Aggregated
    BY <2>4 DEF Aggregated, StoreTyped, AggTyped, Phases
  <2>5. CASE AggregationFails \/ AlertsDone
    BY <2>5 DEF AggregationFails, AlertsDone, AggTyped, Phases, Idle, NoMinute, Passes
  <2>6. CASE EvaluateRule \/ CooldownFails
    <3>1. \A r \in Rules, h \in Hosts : Event(r, h) \in Seen
      BY DEF Event, Seen, StoreTyped, WorkTyped
    <3>2. CASE EvaluateRule
      <4>1. PICK r \in agg.rules :
              agg' = [agg EXCEPT !.rules = @ \ {r}, !.events = @ \union
                        {Event(r, h) : h \in {g \in Breached(r) : ~Cooling(r, g)}}]
        BY <3>2 DEF EvaluateRule
      <4>2. {Event(r, h) : h \in {g \in Breached(r) : ~Cooling(r, g)}} \subseteq Seen
        BY <3>1, <4>1 DEF Breached, StoreTyped, AggTyped
      <4> QED
        BY <4>1, <4>2 DEF StoreTyped, AggTyped
    <3>3. CASE CooldownFails
      <4>1. PICK r \in agg.rules :
              agg' = [agg EXCEPT !.rules = @ \ {r},
                        !.events = @ \union {Event(r, h) : h \in Breached(r)}]
        BY <3>3 DEF CooldownFails
      <4>2. {Event(r, h) : h \in Breached(r)} \subseteq Seen
        BY <3>1, <4>1 DEF Breached, StoreTyped, AggTyped
      <4> QED
        BY <4>1, <4>2 DEF StoreTyped, AggTyped
    <3> QED
      BY <2>6, <3>2, <3>3
  <2>7. CASE Alert
    BY <2>7 DEF Alert, StoreTyped, AggTyped
  <2>8. CASE AlertFails
    BY <2>8 DEF AlertFails, StoreTyped, AggTyped
  <2> QED
    BY <2>1, <2>2, <2>3, <2>4, <2>5, <2>6, <2>7, <2>8 DEF Minute
<1>3. owed' \subseteq Seen
  <2>1. CASE EvaluateRule \/ CooldownFails
    <3>1. \A r \in Rules, h \in Hosts : Event(r, h) \in Seen
      BY DEF Event, Seen, StoreTyped, WorkTyped
    <3>2. PICK r \in agg.rules : owed' = owed \union {Event(r, h) : h \in Breached(r)}
      BY <2>1 DEF EvaluateRule, CooldownFails
    <3> QED
      BY <3>1, <3>2 DEF Breached, StoreTyped, AggTyped, WorkTyped
  <2>2. owed' \subseteq owed \/ EvaluateRule \/ CooldownFails
    BY DEF Minute, Aggregate, ReadHosts, HostP95, HostP95Fails, Aggregated, AggregationFails,
           MetricsFail, RulesDone, Alert, AlertFails, AlertsDone, rest, histVars
  <2> QED
    BY <2>1, <2>2 DEF StoreTyped, WorkTyped
<1>4. TablesTyped'
  <2>1. CASE Aggregate
    <3>1. Due \in Nat /\ HostsOf(Due) \subseteq Hosts
      BY DEF Due, HostsOf, StoreTyped, TablesTyped, WorkTyped, Row
    <3>2. \A h \in HostsOf(Due) : IsRollup(Rollup(Due, h, OfMinute(Due, h)))
      BY <3>1 DEF Rollup, IsRollup
    <3>3. (\A r \in rollups' : IsRollup(r)) /\ UNCHANGED alerts
      BY <2>1, <3>2 DEF Aggregate, InsertRollups, Others, StoreTyped, TablesTyped
    <3> QED
      BY <1>1, <3>3, TablesSame DEF StoreTyped
  <2>2. CASE HostP95
    <3>1. PICK h \in agg.hosts : SetP95(agg.minute, h)
      BY <2>2 DEF HostP95
    <3>2. \A r \in rollups : \A p : IsRollup(r) => IsRollup([r EXCEPT !.p95 = p])
      BY DEF IsRollup
    <3>3. (\A r \in rollups' : IsRollup(r)) /\ UNCHANGED alerts
      BY <3>1, <3>2 DEF SetP95, Others, StoreTyped, TablesTyped
    <3> QED
      BY <1>1, <3>3, TablesSame DEF StoreTyped
  <2>3. CASE Alert
    <3>1. PICK e \in agg.events : StoreAlert(e)
      BY <2>3 DEF Alert
    <3>2. e \in Seen
      BY <3>1 DEF StoreTyped, AggTyped
    <3>3. Cardinality(alerts) \in Nat
      BY FS_CardinalityType DEF StoreTyped, TablesTyped
    <3>4. /\ alerts' \subseteq [id : Nat, rule : Rules, host : Hosts, at : Nat \ {0}]
          /\ rollups' = rollups
      BY <3>1, <3>2, <3>3 DEF StoreAlert, Seen, StoreTyped, TablesTyped
    <3>5. IsFiniteSet(alerts')
      BY <3>1, FS_AddElement DEF StoreAlert, StoreTyped, TablesTyped
    <3> QED
      BY <1>1, <3>4, <3>5 DEF StoreTyped, TablesTyped, IsRollup
  <2>4. UNCHANGED <<rollups, alerts>> \/ Aggregate \/ HostP95 \/ Alert
    BY DEF Minute, ReadHosts, HostP95Fails, Aggregated, AggregationFails, EvaluateRule,
           MetricsFail, CooldownFails, RulesDone, AlertFails, AlertsDone, storeVars
  <2> QED
    BY <1>1, <2>1, <2>2, <2>3, <2>4, TablesSame DEF StoreTyped
<1> QED
  BY <1>1, <1>2, <1>3, <1>4 DEF StoreTyped, WorkTyped, ViewTyped

LEMMA RetainerTyped ==
  ASSUME StoreTyped, Retainer
  PROVE  StoreTyped'
<1> USE DEF Retainer, Retain, CapPass, CapDone, Purge, PurgeAggregates, PurgeFails
<1>1. UNCHANGED <<part, now, received, batch, view, children, lastId, alerts, owed, lastAgg>>
  BY DEF rest, workVars, histVars, storeVars, DeleteTraces, DeleteRollups, Others
<1>2. faults' \in Nat
  BY DEF Fault, StoreTyped, WorkTyped
<1>3. traces' \subseteq traces /\ rollups' \subseteq rollups
  BY DEF rest, workVars, storeVars, DeleteTraces, DeleteRollups, Others
<1>4. TablesTyped'
  <2>1. IsFiniteSet(traces')
    BY <1>3, FS_Subset DEF StoreTyped, TablesTyped
  <2> QED
    BY <1>1, <1>3, <2>1 DEF StoreTyped, TablesTyped, IsRollup
<1>5. AggTyped'
  <2>1. Idle \in [pc : Phases, minute : Nat, hosts : SUBSET Hosts, rules : SUBSET Rules,
                  events : SUBSET Seen, pass : 0 .. Passes]
    BY DEF Idle, NoMinute, Phases, Passes
  <2>2. AfterCap \in [pc : Phases, minute : Nat, hosts : SUBSET Hosts, rules : SUBSET Rules,
                      events : SUBSET Seen, pass : 0 .. Passes]
    BY <2>1 DEF AfterCap, StoreTyped, AggTyped, Phases
  <2>3. CASE Retain
    BY <2>3 DEF StoreTyped, AggTyped, Phases
  <2>4. CASE CapPass
    <3>1. agg.pass < Passes => agg.pass + 1 \in 0 .. Passes
      BY DEF StoreTyped, AggTyped, Passes
    <3> QED
      BY <2>2, <2>4, <3>1 DEF StoreTyped, AggTyped
  <2>5. CASE CapDone
    BY <2>2, <2>5 DEF AggTyped
  <2>6. CASE Purge
    BY <2>6 DEF StoreTyped, AggTyped, Phases
  <2>7. CASE PurgeAggregates \/ PurgeFails
    BY <2>1, <2>7 DEF AggTyped
  <2> QED
    BY <2>3, <2>4, <2>5, <2>6, <2>7
<1> QED
  BY <1>1, <1>2, <1>4, <1>5 DEF StoreTyped, WorkTyped, ViewTyped

LEMMA ReadersTyped ==
  ASSUME StoreTyped, View
  PROVE  StoreTyped'
<1>1. UNCHANGED <<part, now, received, batch, agg, lastAgg, owed, storeVars>>
  BY DEF View, OpenDetail, OpenDiag, ReadTable, ReadTableFails, Answer, free, beside, workVars,
         aggVars, histVars
<1>2. faults' \in {faults, faults + 1}
  BY DEF View, OpenDetail, OpenDiag, ReadTable, ReadTableFails, Answer, free, Fault
<1>3. ViewTyped'
  <2>1. \A S : S \subseteq traces => S \subseteq Row
    BY DEF StoreTyped, TablesTyped
  <2>2. \A S : \A names : S \subseteq traces =>
          Reads(S, names) \subseteq [table : Tables, trace : Nat]
    BY <2>1 DEF Reads, Read, Row
  <2>3. CASE OpenDetail
    <3>1. PICK t \in traces :
            view' = [pc |-> "detail", rows |-> {t}, todo |-> Reads({t}, DetailTables), got |-> {},
                     failed |-> {}]
      BY <2>3 DEF OpenDetail
    <3> QED
      BY <2>1, <2>2, <3>1 DEF ViewTyped
  <2>4. CASE OpenDiag
    BY <2>1, <2>2, <2>4 DEF OpenDiag, ViewTyped
  <2>5. CASE ReadTable
    <3>1. PICK r \in view.todo :
            view' = [view EXCEPT !.todo = @ \ {r}, !.got = @ \union RowsOf(r)]
      BY <2>5 DEF ReadTable
    <3> QED
      BY <3>1 DEF StoreTyped, TablesTyped, ViewTyped, RowsOf
  <2>7. CASE ReadTableFails
    <3>1. PICK r \in view.todo : \E some \in SUBSET RowsOf(r) :
            view' = [view EXCEPT !.todo = @ \ {r}, !.got = @ \union some,
                                 !.failed = @ \union {r}]
      BY <2>7 DEF ReadTableFails
    <3>2. PICK some \in SUBSET RowsOf(r) :
            view' = [view EXCEPT !.todo = @ \ {r}, !.got = @ \union some,
                                 !.failed = @ \union {r}]
      BY <3>1
    <3>3. some \subseteq [table : Tables, trace : Nat, ref : Nat]
      BY <3>2 DEF StoreTyped, TablesTyped, RowsOf
    <3>4. r \in [table : Tables, trace : Nat]
      BY DEF StoreTyped, ViewTyped
    <3> QED
      BY <3>2, <3>3, <3>4 DEF StoreTyped, ViewTyped
  <2>6. CASE Answer
    BY <2>6 DEF Answer, NoView, ViewTyped
  <2> QED
    BY <2>3, <2>4, <2>5, <2>6, <2>7 DEF View
<1> QED
  BY <1>1, <1>2, <1>3 DEF StoreTyped, TablesTyped, WorkTyped, AggTyped, storeVars, IsRollup

LEMMA OthersTyped ==
  ASSUME StoreTyped, NextMinute \/ Restart \/ Upgrade \/ Stream \/ UNCHANGED vars
  PROVE  StoreTyped'
<1> USE DEF NextMinute, Restart, Upgrade, Stream, vars, workVars, aggVars, histVars
<1>1. TablesTyped'
  BY DEF StoreTyped, TablesTyped, storeVars, IsRollup
<1>2. WorkTyped'
  <2>1. now' \in {now, now + 1} /\ faults' \in {faults, faults + 1} /\ lastAgg' \in {lastAgg, 0}
    BY DEF Fault, NoMinute
  <2>2. UNCHANGED <<part, received>> /\ batch' \subseteq batch /\ owed' \subseteq owed
    OBVIOUS
  <2> QED
    BY <2>1, <2>2 DEF StoreTyped, WorkTyped
<1>3. AggTyped'
  BY DEF StoreTyped, AggTyped, Idle, NoMinute, Phases, Passes
<1>4. ViewTyped'
  BY DEF StoreTyped, ViewTyped, NoView
<1> QED
  BY <1>1, <1>2, <1>3, <1>4 DEF StoreTyped

LEMMA StepTyped ==
  ASSUME StoreTyped, [Next]_vars
  PROVE  StoreTyped'
BY ReceiveTyped, TracesTyped, MinuteTyped, RetainerTyped, ReadersTyped, OthersTyped DEF Next

-----------------------------------------------------------------------------
(* Traces and their details.                                               *)

\* Statements that insert no trace: some may be deleted, and a view starts from what is there.
LEMMA IdsKept ==
  ASSUME IdInv, traces' \subseteq traces, view'.rows \subseteq traces \union view.rows,
         UNCHANGED <<children, lastId>>
  PROVE  IdInv'
BY DEF IdInv

LEMMA DetailsKept ==
  ASSUME DetailInv, traces' \subseteq traces, view' \in {view, NoView}, UNCHANGED children
  PROVE  DetailInv'
<1>1. CASE view' = view
  BY <1>1 DEF DetailInv
<1>2. CASE view' = NoView
  BY <1>2 DEF DetailInv, NoView
<1> QED
  BY <1>1, <1>2

LEMMA StoreIds ==
  ASSUME StoreTyped, IdInv, DetailInv, Store
  PROVE  IdInv' /\ DetailInv'
<1>1. PICK t \in batch : StoreTrace(t)
  BY DEF Store
<1> DEFINE new == NewRow(t)
<1>2. /\ traces' = traces \union {new} /\ children' = children \union NewChildren(t)
      /\ lastId' = lastId + 1 /\ view' = view /\ lastId \in Nat
      /\ traces \subseteq Row /\ view.rows \subseteq Row
  BY <1>1, StoreAdds DEF StoreTyped, TablesTyped, ViewTyped, Store
<1>3. new.id = lastId + 1 /\ new.ref = t.ref /\ new.tables = t.tables
  BY DEF NewRow
<1>4. \A k \in NewChildren(t) : k.trace = lastId + 1 /\ k.ref = t.ref
  BY DEF NewChildren
<1>5. ASSUME NEW b \in t.tables
      PROVE  \E k \in NewChildren(t) : k.trace = lastId + 1 /\ k.table = b
  <2> DEFINE k == [table |-> b, trace |-> lastId + 1, ref |-> t.ref]
  <2>1. k \in NewChildren(t) /\ k.trace = lastId + 1 /\ k.table = b
    BY DEF NewChildren
  <2> QED
    BY <2>1
<1>6. /\ \A s \in traces \union view.rows : s.id \in Nat /\ s.id < lastId + 1
      /\ \A k \in children : k.trace \in Nat /\ k.trace < lastId + 1
  BY <1>2 DEF Row, IdInv, StoreTyped, TablesTyped
<1> HIDE DEF new
<1>7. IdInv'
  BY <1>2, <1>3, <1>4, <1>6 DEF IdInv
<1>8. ASSUME NEW s \in traces' \union view'.rows
      PROVE  /\ \A k \in children' : k.trace = s.id => k.ref = s.ref
             /\ \A b \in s.tables : \E k \in children' : k.trace = s.id /\ k.table = b
  <2>1. CASE s = new
    BY <1>2, <1>3, <1>4, <1>5, <1>6, <2>1
  <2>2. CASE s \in traces \union view.rows
    BY <1>2, <1>4, <1>6, <2>2 DEF DetailInv
  <2> QED
    BY <1>2, <2>1, <2>2
<1>9. DetailInv'
  BY <1>2, <1>8 DEF DetailInv
<1> QED
  BY <1>7, <1>9

LEMMA ViewIds ==
  ASSUME StoreTyped, IdInv, DetailInv, View
  PROVE  IdInv' /\ DetailInv'
<1>1. UNCHANGED <<traces, children, lastId>>
  BY DEF View, OpenDetail, OpenDiag, ReadTable, ReadTableFails, Answer, free, beside, storeVars
<1>2. traces \subseteq Row /\ \A t \in traces \union view.rows : t.tables \subseteq DetailTables
  BY StoreAssumption DEF StoreTyped, TablesTyped, ViewTyped, Row, DetailTables
<1>3. \A S : \A names : \A t \in S : \A b \in names \cap Tables : Read(t, b) \in Reads(S, names)
  BY DEF Reads
<1>4. \A t \in traces : t.tables \subseteq Tables
  BY <1>2 DEF Row
<1>5. CASE OpenDetail
  <2>1. PICK t \in traces :
          view' = [pc |-> "detail", rows |-> {t}, todo |-> Reads({t}, DetailTables), got |-> {},
                   failed |-> {}]
    BY <1>5 DEF OpenDetail
  <2>2. \A b \in t.tables : Read(t, b) \in view'.todo
    BY <1>2, <1>3, <1>4, <2>1
  <2>3. view'.rows = {t} /\ view'.got = {}
    BY <2>1
  <2>4. DetailInv'
    BY <1>1, <2>2, <2>3 DEF DetailInv
  <2> QED
    BY <1>1, <2>3, <2>4, IdsKept
<1>6. CASE OpenDiag
  <2>1. view' = [pc |-> "diag", rows |-> traces, got |-> {}, failed |-> {},
                 todo |-> Reads({t \in traces : t.tables # {}}, DiagTables)]
    BY <1>6 DEF OpenDiag
  <2>2. \A t \in traces : \A b \in t.tables : b # "marks" => Read(t, b) \in view'.todo
    BY <1>2, <1>3, <1>4, <2>1 DEF DiagTables
  <2>3. view'.rows = traces /\ view'.got = {} /\ view'.pc = "diag"
    BY <2>1
  <2>4. DetailInv'
    BY <1>1, <2>2, <2>3 DEF DetailInv
  <2> QED
    BY <1>1, <2>3, <2>4, IdsKept
<1>7. CASE ReadTable \/ ReadTableFails
  <2>1. PICK r \in view.todo : \E some \in SUBSET RowsOf(r) :
          \/ view' = [view EXCEPT !.todo = @ \ {r}, !.got = @ \union RowsOf(r)]
          \/ view' = [view EXCEPT !.todo = @ \ {r}, !.got = @ \union some,
                                  !.failed = @ \union {r}]
    BY <1>7 DEF ReadTable, ReadTableFails
  <2>2. /\ view'.rows = view.rows /\ view'.pc = view.pc /\ view'.todo = view.todo \ {r}
        /\ view.got \subseteq view'.got /\ view'.got \subseteq view.got \union RowsOf(r)
        /\ view.failed \subseteq view'.failed
        /\ r \in view'.failed \/ RowsOf(r) \subseteq view'.got
    BY <2>1 DEF StoreTyped, ViewTyped
  <2>3. ASSUME NEW t \in view.rows, NEW b \in t.tables, view.pc = "diag" => b # "marks",
               Read(t, b) \notin view'.todo \union view'.failed
        PROVE  \E k \in view'.got : k.trace = t.id /\ k.table = b
    <3>1. CASE Read(t, b) = r
      <4>1. r.table = b /\ r.trace = t.id
        BY <3>1 DEF Read
      <4>2. \E k \in children : k.trace = t.id /\ k.table = b
        BY DEF DetailInv
      <4>3. RowsOf(r) \subseteq view'.got
        BY <2>2, <2>3, <3>1
      <4> QED
        BY <4>1, <4>2, <4>3 DEF RowsOf
    <3>2. CASE Read(t, b) # r
      <4>1. Read(t, b) \notin view.todo \union view.failed
        BY <2>2, <2>3, <3>2
      <4> QED
        BY <2>2, <2>3, <4>1 DEF DetailInv
    <3> QED
      BY <3>1, <3>2
  <2>4. view'.got \subseteq children
    BY <2>2 DEF DetailInv, RowsOf
  <2>5. DetailInv'
    BY <1>1, <2>2, <2>3, <2>4 DEF DetailInv
  <2> QED
    BY <1>1, <2>2, <2>5, IdsKept
<1>8. CASE Answer
  BY <1>1, <1>8, IdsKept, DetailsKept DEF Answer, NoView
<1> QED
  BY <1>5, <1>6, <1>7, <1>8 DEF View

\* The steps that leave the rows of traces and details, and the readers, as they are.
LEMMA OtherIds ==
  ASSUME IdInv, DetailInv,
         \/ Receive \/ StoreFails \/ Minute \/ Retainer \/ NextMinute \/ Restart \/ Upgrade
         \/ Stream \/ UNCHANGED vars
  PROVE  IdInv' /\ DetailInv'
<1>1. UNCHANGED <<children, lastId>>
  BY DEF Receive, StoreFails, Minute, Retainer, NextMinute, Restart, Upgrade, Stream, vars,
         Aggregate, ReadHosts, HostP95, HostP95Fails, Aggregated, AggregationFails, EvaluateRule,
         MetricsFail, CooldownFails, RulesDone, Alert, AlertFails, AlertsDone, Retain, CapPass,
         CapDone, Purge, PurgeAggregates, PurgeFails, storeVars, InsertRollups, SetP95,
         StoreAlert, Others, DeleteTraces, DeleteRollups
<1>2. traces' \subseteq traces
  BY DEF Receive, StoreFails, Minute, Retainer, NextMinute, Restart, Upgrade, Stream, vars,
         Aggregate, ReadHosts, HostP95, HostP95Fails, Aggregated, AggregationFails, EvaluateRule,
         MetricsFail, CooldownFails, RulesDone, Alert, AlertFails, AlertsDone, Retain, CapPass,
         CapDone, Purge, PurgeAggregates, PurgeFails, storeVars, InsertRollups, SetP95,
         StoreAlert, Others, DeleteTraces, DeleteRollups
<1>3. view' \in {view, NoView}
  BY DEF Receive, StoreFails, Minute, Retainer, NextMinute, Restart, Upgrade, Stream, vars,
         Aggregate, ReadHosts, HostP95, HostP95Fails, Aggregated, AggregationFails, EvaluateRule,
         MetricsFail, CooldownFails, RulesDone, Alert, AlertFails, AlertsDone, Retain, CapPass,
         CapDone, Purge, PurgeAggregates, PurgeFails, rest
<1>4. IdInv'
  <2>1. NoView.rows = {}
    BY DEF NoView
  <2>2. view'.rows \subseteq view.rows
    BY <1>3, <2>1
  <2> QED
    BY <1>1, <1>2, <2>2, IdsKept
<1> QED
  BY <1>1, <1>2, <1>3, <1>4, DetailsKept

LEMMA StepIds ==
  ASSUME StoreTyped, IdInv, DetailInv, [Next]_vars
  PROVE  IdInv' /\ DetailInv'
BY StoreIds, ViewIds, OtherIds DEF Next

LEMMA DetailsFollow == DetailInv => DetailTruthful
BY DEF DetailInv, DetailTruthful

-----------------------------------------------------------------------------
(* Minutes.                                                                *)

\* A host is one of the minute when a trace of it is, and minute 0 has none.
LEMMA HostsHaveTraces ==
  ASSUME NEW m, NEW h
  PROVE  h \in HostsOf(m) <=> OfMinute(m, h) # {}
BY DEF HostsOf, OfMinute

LEMMA NoMinuteEmpty ==
  ASSUME TablesTyped
  PROVE  HostsOf(NoMinute) = {}
BY DEF TablesTyped, Row, HostsOf, NoMinute

\* The statements on the minutes keep what they do not name.
LEMMA MinuteOfSameTraces ==
  ASSUME UNCHANGED traces
  PROVE  \A m, h : HostsOf(m)' = HostsOf(m) /\ OfMinute(m, h)' = OfMinute(m, h)
BY DEF HostsOf, OfMinute

\* Steps outside Aggregate1m that leave the traces and the minutes as they are; a statement
\* that fails takes away what was promised of p95 only.
LEMMA RowsKept ==
  ASSUME KeyInv, RowsInv, faults \in Nat, faults' \in {faults, faults + 1},
         UNCHANGED <<part, traces, rollups, stale, lastAgg>>,
         agg' = agg \/ agg'.pc \notin {"hosts", "p95"}
  PROVE  KeyInv' /\ RowsInv'
<1>1. \A m, h : HostsOf(m)' = HostsOf(m) /\ OfMinute(m, h)' = OfMinute(m, h)
  BY MinuteOfSameTraces
<1>2. KeyInv'
  BY <1>1 DEF KeyInv, NoMinute
<1>3. faults' = 0 => faults = 0
  OBVIOUS
<1>4. \A r : Told(r) => Told(r)'
  BY <1>1, <1>3 DEF Told
<1>5. \A m : HasRows(m) => HasRows(m)'
  BY <1>1 DEF HasRows
<1>6. AggregateTellsStored'
  BY <1>1, <1>4 DEF RowsInv, AggregateTellsStored
<1>7. CASE agg' = agg
  BY <1>1, <1>2, <1>3, <1>5, <1>6, <1>7 DEF RowsInv, HasRows
<1>8. CASE agg'.pc \notin {"hosts", "p95"}
  BY <1>2, <1>6, <1>8 DEF RowsInv
<1> QED
  BY <1>2, <1>7, <1>8

LEMMA StoreRows ==
  ASSUME StoreTyped, KeyInv, RowsInv, Store
  PROVE  KeyInv' /\ RowsInv'
<1>1. PICK t \in batch : StoreTrace(t) /\ stale' = stale \union {t.minute}
  BY DEF Store
<1>2. /\ traces' = traces \union {NewRow(t)}
      /\ UNCHANGED <<part, rollups, lastAgg, agg, faults>>
  BY <1>1, StoreAdds DEF StoreTyped, Store, aggVars
<1>3. NewRow(t).minute = t.minute
  BY DEF NewRow
<1>4. \A m, h : m \notin stale' => HostsOf(m)' = HostsOf(m) /\ OfMinute(m, h)' = OfMinute(m, h)
  BY <1>1, <1>2, <1>3 DEF HostsOf, OfMinute
<1>5. \A m, h : OfMinute(m, h) \subseteq OfMinute(m, h)'
  BY <1>2 DEF OfMinute
<1>6. KeyInv'
  BY <1>2, <1>5 DEF KeyInv, NoMinute
<1>7. \A r : r.minute \notin stale' /\ Told(r) => Told(r)'
  BY <1>2, <1>4 DEF Told
<1>8. \A m : m \notin stale' /\ HasRows(m) => HasRows(m)'
  BY <1>2, <1>4 DEF HasRows
<1>9. AggregateTellsStored'
  BY <1>1, <1>2, <1>4, <1>7 DEF RowsInv, AggregateTellsStored
<1>10. stale \subseteq stale'
  BY <1>1
<1>11. RowsInv'
  BY <1>2, <1>4, <1>8, <1>9, <1>10 DEF RowsInv
<1> QED
  BY <1>6, <1>11

LEMMA AggregateRows ==
  ASSUME StoreTyped, KeyInv, RowsInv, part = "minutes", Aggregate
  PROVE  KeyInv' /\ RowsInv'
<1>1. PICK m \in Nat : m = Due
  BY DEF Due, StoreTyped, WorkTyped
<1>2. /\ rollups' = {r \in rollups : r.minute # m \/ r.host \notin HostsOf(m)}
                      \union {Rollup(m, h, OfMinute(m, h)) : h \in HostsOf(m)}
      /\ stale' = stale \ {m} /\ agg'.pc = "hosts" /\ agg'.minute = m
      /\ lastAgg < m /\ lastAgg \in Nat /\ UNCHANGED <<part, traces, lastAgg, faults>>
  <2>1. agg' = [agg EXCEPT !.pc = "hosts", !.minute = m]
    BY <1>1 DEF Aggregate
  <2>2. agg'.pc = "hosts" /\ agg'.minute = m
    BY <2>1 DEF StoreTyped, AggTyped
  <2>3. lastAgg \in Nat /\ lastAgg < m
    BY <1>1 DEF Aggregate, StoreTyped, WorkTyped
  <2> QED
    BY <1>1, <2>2, <2>3 DEF Aggregate, InsertRollups, Others, rest
<1>3. \A k, h : HostsOf(k)' = HostsOf(k) /\ OfMinute(k, h)' = OfMinute(k, h)
  BY <1>2, MinuteOfSameTraces
<1>4. \A r \in rollups : r.host \in HostsOf(r.minute)
  BY HostsHaveTraces DEF KeyInv
\* A row after the statement is an old one of another minute or the new one of a host.
<1>5. ASSUME NEW r \in rollups'
      PROVE  (r \in rollups /\ r.minute # m)
               \/ (r.host \in HostsOf(m) /\ r = Rollup(m, r.host, OfMinute(m, r.host)))
  <2>1. \A h : Rollup(m, h, OfMinute(m, h)).host = h
    BY DEF Rollup
  <2> QED
    BY <1>2, <1>4, <2>1
<1>6. \A h \in HostsOf(m) : Rollup(m, h, OfMinute(m, h)) \in rollups'
  BY <1>2
<1>7. \A r \in rollups : r.minute # m => r \in rollups'
  BY <1>2
<1>8. \A h, S : /\ Rollup(m, h, S).minute = m /\ Rollup(m, h, S).host = h
                /\ Rollup(m, h, S).p95 = 0
                /\ [Rollup(m, h, S) EXCEPT !.p95 = 0] = Rollup(m, h, S)
  BY DEF Rollup
<1>9. ASSUME NEW h \in HostsOf(m), NEW r, r = Rollup(m, h, OfMinute(m, h))
      PROVE  Told(r)'
  <2>1. OfMinute(m, h) # {}
    BY HostsHaveTraces
  <2>2. /\ r.minute = m /\ r.host = h /\ r.p95 = 0 /\ [r EXCEPT !.p95 = 0] = r
    BY <1>8, <1>9
  <2> QED
    BY <1>2, <1>3, <1>9, <2>1, <2>2 DEF Told
<1>10. \A r : Told(r) => Told(r)'
  BY <1>2, <1>3 DEF Told
<1>11. KeyInv'
  <2>1. \A r, q \in rollups' : r.minute = q.minute /\ r.host = q.host => r = q
    BY <1>5, <1>8 DEF KeyInv
  <2>2. ASSUME NEW r \in rollups'
        PROVE  OfMinute(r.minute, r.host)' # {}
    <3>1. r.host \in HostsOf(r.minute)
      BY <1>4, <1>5, <1>8
    <3> QED
      BY <1>3, <3>1, HostsHaveTraces
  <2> QED
    BY <1>2, <2>1, <2>2 DEF KeyInv
<1>12. ASSUME NEW r \in rollups', r.minute \notin stale'
       PROVE  Told(r)'
  <2>1. CASE r \in rollups /\ r.minute # m
    BY <1>2, <1>10, <1>12, <2>1 DEF RowsInv, AggregateTellsStored
  <2>2. CASE r.host \in HostsOf(m) /\ r = Rollup(m, r.host, OfMinute(m, r.host))
    BY <1>9, <2>2
  <2> QED
    BY <1>5, <2>1, <2>2
<1>13. ASSUME lastAgg' \notin stale', NEW h \in HostsOf(lastAgg)'
       PROVE  \E r \in rollups' : r.minute = lastAgg' /\ r.host = h
  <2>1. h \in HostsOf(lastAgg) /\ lastAgg \notin stale
    BY <1>2, <1>3, <1>13 DEF HostsOf
  <2>2. PICK r \in rollups : r.minute = lastAgg /\ r.host = h
    BY <2>1 DEF RowsInv, AggregateTellsStored
  <2>3. r \in rollups'
    BY <1>2, <1>7, <2>2
  <2> QED
    BY <1>2, <2>2, <2>3
<1>14. \A h \in HostsOf(m) : \E r \in rollups' : r.minute = m /\ r.host = h
  BY <1>6, <1>8
<1>15. \A h \in HostsOf(agg.minute)' : \E r \in rollups' : r.minute = agg'.minute /\ r.host = h
  BY <1>2, <1>14 DEF HostsOf
<1>16. AggregateTellsStored'
  BY <1>12, <1>13 DEF AggregateTellsStored
<1>17. HasRows(agg.minute)'
  BY <1>15 DEF HasRows
<1>18. lastAgg' < agg'.minute /\ agg'.pc # "p95"
  BY <1>2
<1> QED
  BY <1>11, <1>16, <1>17, <1>18 DEF RowsInv

LEMMA ReadHostsRows ==
  ASSUME StoreTyped, KeyInv, RowsInv, ReadHosts
  PROVE  KeyInv' /\ RowsInv'
<1>1. /\ UNCHANGED <<part, traces, rollups, stale, lastAgg, faults>>
      /\ agg'.pc = "p95" /\ agg'.minute = agg.minute /\ agg'.hosts = HostsOf(agg.minute)
      /\ agg.pc = "hosts"
  BY DEF ReadHosts, rest, storeVars, histVars, StoreTyped, AggTyped
<1>2. \A m, h : HostsOf(m)' = HostsOf(m) /\ OfMinute(m, h)' = OfMinute(m, h)
  BY <1>1, MinuteOfSameTraces
<1>3. KeyInv'
  BY <1>1, <1>2 DEF KeyInv
<1>4. \A r : Told(r) => Told(r)'
  BY <1>1, <1>2 DEF Told
<1>5. AggregateTellsStored'
  BY <1>1, <1>2, <1>4 DEF RowsInv, AggregateTellsStored
<1>6. \A m : HasRows(m) => HasRows(m)'
  BY <1>1, <1>2 DEF HasRows
<1>7. \A r \in rollups : r.host \in HostsOf(r.minute)
  BY HostsHaveTraces DEF KeyInv
<1> QED
  BY <1>1, <1>3, <1>5, <1>6, <1>7 DEF RowsInv

LEMMA HostP95Rows ==
  ASSUME StoreTyped, KeyInv, RowsInv, part = "minutes", HostP95
  PROVE  KeyInv' /\ RowsInv'
<1>1. PICK h \in agg.hosts : SetP95(agg.minute, h) /\ agg' = [agg EXCEPT !.hosts = @ \ {h}]
  BY DEF HostP95
<1>2. PICK m \in Nat : m = agg.minute
  BY DEF StoreTyped, AggTyped
<1>3. PICK S : S = OfMinute(m, h)
  OBVIOUS
<1> DEFINE Row95(r) == IF r.minute = m /\ r.host = h /\ S # {} THEN [r EXCEPT !.p95 = P95(S)]
                       ELSE r
<1>4. /\ rollups' = {Row95(r) : r \in rollups}
      /\ UNCHANGED <<part, traces, stale, lastAgg, faults>>
      /\ agg'.pc = "p95" /\ agg'.minute = m /\ agg'.hosts = agg.hosts \ {h}
      /\ agg.pc = "p95"
  <2>1. agg'.pc = "p95" /\ agg'.minute = m /\ agg'.hosts = agg.hosts \ {h} /\ agg.pc = "p95"
    BY <1>1, <1>2 DEF HostP95, StoreTyped, AggTyped
  <2> QED
    BY <1>1, <1>2, <1>3, <2>1 DEF HostP95, SetP95, Others, rest, histVars
\* The row q is what the statement makes of r.
<1> DEFINE Becomes(r, q) ==
      /\ q.minute = r.minute /\ q.host = r.host /\ [q EXCEPT !.p95 = 0] = [r EXCEPT !.p95 = 0]
      /\ IF r.minute = m /\ r.host = h /\ S # {} THEN q.p95 = P95(S) ELSE q = r
<1>5. ASSUME NEW r \in rollups
      PROVE  Row95(r) \in rollups' /\ Becomes(r, Row95(r))
  <2>1. IsRollup(r)
    BY DEF StoreTyped, TablesTyped
  <2>2. CASE r.minute = m /\ r.host = h /\ S # {}
    BY <1>4, <2>1, <2>2 DEF IsRollup
  <2>3. CASE ~(r.minute = m /\ r.host = h /\ S # {})
    BY <1>4, <2>3
  <2> QED
    BY <2>2, <2>3
<1>6. ASSUME NEW q \in rollups'
      PROVE  \E r \in rollups : q = Row95(r) /\ Becomes(r, q)
  <2>1. PICK r \in rollups : q = Row95(r)
    BY <1>4
  <2> QED
    BY <1>5, <2>1
<1> HIDE DEF Row95
<1>7. \A k, g : HostsOf(k)' = HostsOf(k) /\ OfMinute(k, g)' = OfMinute(k, g)
  BY <1>4, MinuteOfSameTraces
<1>8. KeyInv'
  <2>1. ASSUME NEW q \in rollups', NEW u \in rollups', q.minute = u.minute, q.host = u.host
        PROVE  q = u
    <3>1. PICK r \in rollups : q = Row95(r) /\ Becomes(r, q)
      BY <1>6
    <3>2. PICK v \in rollups : u = Row95(v) /\ Becomes(v, u)
      BY <1>6
    <3>3. r = v
      BY <2>1, <3>1, <3>2 DEF KeyInv
    <3> QED
      BY <3>1, <3>2, <3>3
  <2>2. \A q \in rollups' : OfMinute(q.minute, q.host)' # {}
    BY ZenonT(30), <1>6, <1>7 DEF KeyInv
  <2> QED
    BY <1>4, <2>1, <2>2 DEF KeyInv
<1>9. ASSUME NEW k, HasRows(k), NEW g \in HostsOf(k)
      PROVE  \E q \in rollups' : q.minute = k /\ q.host = g
  <2>1. PICK r \in rollups : r.minute = k /\ r.host = g
    BY <1>9 DEF HasRows
  <2> QED
    BY <1>5, <2>1
<1>10. lastAgg \in Nat /\ lastAgg < m
  BY <1>2, <1>4 DEF RowsInv, StoreTyped, WorkTyped
<1>11. ASSUME NEW r \in rollups, NEW q, Told(r), Becomes(r, q)
       PROVE  Told(q)'
  <2>1. q.p95 \in {r.p95, P95(OfMinute(r.minute, r.host))}
    BY <1>3, <1>11
  <2>2. r.minute = lastAgg => q.p95 = r.p95
    BY <1>10, <1>11
  <2> QED
    BY <1>4, <1>7, <1>11, <2>1, <2>2 DEF Told
<1>12. ASSUME NEW q \in rollups', q.minute \notin stale'
       PROVE  Told(q)'
  BY <1>4, <1>6, <1>11, <1>12 DEF RowsInv, AggregateTellsStored
<1>13. ASSUME lastAgg' \notin stale', NEW g \in HostsOf(lastAgg)'
       PROVE  \E q \in rollups' : q.minute = lastAgg' /\ q.host = g
  <2>1. g \in HostsOf(lastAgg) /\ HasRows(lastAgg)
    BY <1>4, <1>13 DEF HostsOf, HasRows, RowsInv, AggregateTellsStored
  <2> QED
    BY <1>4, <1>9, <2>1
<1>14. AggregateTellsStored'
  BY <1>12, <1>13 DEF AggregateTellsStored
<1>15. ASSUME faults = 0, m \notin stale, NEW q \in rollups', q.minute = m,
              q.host \notin agg.hosts \ {h}
       PROVE  q.p95 = P95(OfMinute(m, q.host))
  <2>1. PICK r \in rollups : Becomes(r, q)
    BY <1>6
  <2>2. CASE q.host = h
    <3>1. S # {}
      BY <1>3, <1>15, <2>1, <2>2 DEF KeyInv
    <3> QED
      BY <1>3, <1>15, <2>1, <2>2, <3>1
  <2>3. CASE q.host # h
    <3>1. q = r
      BY <2>1, <2>3
    <3> QED
      BY <1>2, <1>4, <1>15, <2>3, <3>1 DEF RowsInv
  <2> QED
    BY <2>2, <2>3
<1>16. m \notin stale' =>
         \A g \in HostsOf(agg.minute)' : \E q \in rollups' : q.minute = m /\ q.host = g
  <2>1. m \notin stale => HasRows(m)
    BY <1>2, <1>4 DEF RowsInv
  <2>2. HostsOf(agg.minute)' = HostsOf(m)
    BY <1>4 DEF HostsOf
  <2> QED
    BY <1>4, <1>9, <2>1, <2>2
<1> HIDE DEF Becomes
<1>17. agg'.pc \in {"hosts", "p95"} =>
         /\ lastAgg' < agg'.minute
         /\ agg'.minute \notin stale' => HasRows(agg.minute)'
  BY <1>4, <1>10, <1>16 DEF HasRows
<1>18. agg'.pc = "p95" /\ faults' = 0 /\ agg'.minute \notin stale' =>
         \A r \in rollups' : r.minute = agg'.minute /\ r.host \notin agg'.hosts =>
           r.p95 = P95(OfMinute(r.minute, r.host)')
  BY <1>4, <1>7, <1>15
<1> QED
  BY <1>8, <1>14, <1>17, <1>18 DEF RowsInv

LEMMA HostP95FailsRows ==
  ASSUME StoreTyped, KeyInv, RowsInv, HostP95Fails
  PROVE  KeyInv' /\ RowsInv'
<1>1. /\ UNCHANGED <<part, traces, rollups, stale, lastAgg>>
      /\ agg'.pc = "p95" /\ agg'.minute = agg.minute /\ agg.pc = "p95"
      /\ faults' = faults + 1 /\ faults \in Nat
  BY DEF HostP95Fails, Fault, rest, storeVars, histVars, StoreTyped, WorkTyped, AggTyped
<1>2. \A m, h : HostsOf(m)' = HostsOf(m) /\ OfMinute(m, h)' = OfMinute(m, h)
  BY <1>1, MinuteOfSameTraces
<1>3. KeyInv'
  BY <1>1, <1>2 DEF KeyInv
<1>4. faults' # 0
  BY <1>1
<1>5. \A r : Told(r) => Told(r)'
  BY <1>1, <1>2, <1>4 DEF Told
<1>6. AggregateTellsStored'
  BY <1>1, <1>2, <1>5 DEF RowsInv, AggregateTellsStored
<1>7. \A m : HasRows(m) => HasRows(m)'
  BY <1>1, <1>2 DEF HasRows
<1> QED
  BY <1>1, <1>3, <1>4, <1>6, <1>7 DEF RowsInv

LEMMA AggregatedRows ==
  ASSUME StoreTyped, KeyInv, RowsInv, part = "minutes", Aggregated
  PROVE  KeyInv' /\ RowsInv'
<1>1. /\ UNCHANGED <<part, traces, rollups, stale, faults>>
      /\ agg'.pc = "rules" /\ lastAgg' = agg.minute /\ agg.pc = "p95" /\ agg.hosts = {}
  BY DEF Aggregated, rest, storeVars, StoreTyped, AggTyped
<1>2. \A m, h : HostsOf(m)' = HostsOf(m) /\ OfMinute(m, h)' = OfMinute(m, h)
  BY <1>1, MinuteOfSameTraces
<1>3. KeyInv'
  BY <1>1, <1>2 DEF KeyInv
<1>4. ASSUME NEW r \in rollups, r.minute \notin stale
      PROVE  Told(r)'
  <2>1. Told(r)
    BY <1>4 DEF RowsInv, AggregateTellsStored
  <2>2. r.minute = agg.minute /\ faults = 0 => r.p95 = P95(OfMinute(r.minute, r.host))
    BY <1>1, <1>4 DEF RowsInv
  <2> QED
    BY <1>1, <1>2, <2>1, <2>2 DEF Told
<1>5. agg.minute \notin stale => HasRows(agg.minute)
  BY <1>1 DEF RowsInv
<1>6. AggregateTellsStored'
  BY <1>1, <1>2, <1>4, <1>5 DEF AggregateTellsStored, HasRows
<1> QED
  BY <1>1, <1>3, <1>6 DEF RowsInv

\* The retention only runs where no minute is aggregated.
LEMMA RetainerRows ==
  ASSUME StoreTyped, StoreTyped', KeyInv, RowsInv, part # "minutes", Retainer
  PROVE  KeyInv' /\ RowsInv'
<1> USE DEF Retainer, Retain, CapPass, CapDone, Purge, PurgeAggregates, PurgeFails
<1>1. UNCHANGED <<part, lastAgg>>
  BY DEF rest, workVars
<1>2. rollups = {} /\ lastAgg = NoMinute
  BY DEF KeyInv
<1>3. rollups' \subseteq rollups
  BY DEF rest, workVars, storeVars, DeleteTraces, DeleteRollups, Others
<1>4. AfterCap.pc \notin {"hosts", "p95"} \/ AfterCap.pc = agg.pc
  BY DEF AfterCap, Idle, StoreTyped, AggTyped
<1>5. agg'.pc \notin {"hosts", "p95"}
  BY <1>4 DEF Idle, StoreTyped, AggTyped
<1> HIDE DEF Retainer
<1>6. HostsOf(NoMinute)' = {}
  BY NoMinuteEmpty DEF StoreTyped, TablesTyped, Row, HostsOf, NoMinute
<1>7. rollups' = {} /\ lastAgg' = NoMinute /\ part' # "minutes"
  BY <1>1, <1>2, <1>3
<1>8. KeyInv'
  BY <1>7 DEF KeyInv
<1>9. AggregateTellsStored'
  BY <1>6, <1>7 DEF AggregateTellsStored
<1> QED
  BY <1>5, <1>8, <1>9 DEF RowsInv

LEMMA RestartRows ==
  ASSUME StoreTyped, KeyInv, RowsInv, Restart
  PROVE  KeyInv' /\ RowsInv'
<1>1. /\ UNCHANGED <<part, traces, rollups, stale>>
      /\ agg' = Idle /\ lastAgg' = NoMinute /\ faults' = faults + 1 /\ faults \in Nat
  BY DEF Restart, Fault, storeVars, StoreTyped, WorkTyped
<1>2. \A m, h : HostsOf(m)' = HostsOf(m) /\ OfMinute(m, h)' = OfMinute(m, h)
  BY <1>1, MinuteOfSameTraces
<1>3. KeyInv'
  BY <1>1, <1>2 DEF KeyInv, NoMinute
<1>4. faults' # 0
  BY <1>1
<1>5. \A r : Told(r) => Told(r)'
  BY <1>1, <1>2, <1>4 DEF Told
<1>6. HostsOf(NoMinute) = {}
  BY NoMinuteEmpty DEF StoreTyped
<1>7. HostsOf(lastAgg)' = {}
  BY <1>1, <1>6 DEF HostsOf
<1>8. AggregateTellsStored'
  BY <1>1, <1>5, <1>7 DEF RowsInv, AggregateTellsStored
<1> QED
  BY <1>1, <1>3, <1>8 DEF RowsInv, Idle

\* Every step, in the part of it that touches the minutes.
LEMMA MinuteRows ==
  ASSUME StoreTyped, KeyInv, RowsInv, part = "minutes", Minute
  PROVE  KeyInv' /\ RowsInv'
<1>1. CASE Aggregate \/ ReadHosts \/ HostP95 \/ HostP95Fails \/ Aggregated
  BY <1>1, AggregateRows, ReadHostsRows, HostP95Rows, HostP95FailsRows, AggregatedRows
<1>2. CASE AggregationFails
  BY <1>2, RowsKept DEF AggregationFails, Fault, Idle, rest, storeVars, histVars, StoreTyped,
                        WorkTyped
<1>3. CASE EvaluateRule \/ MetricsFail \/ CooldownFails \/ RulesDone \/ Alert \/ AlertFails
             \/ AlertsDone
  <2> USE DEF EvaluateRule, MetricsFail, CooldownFails, RulesDone, Alert, AlertFails, AlertsDone
  <2>1. UNCHANGED <<part, traces, rollups, stale, lastAgg>>
    BY <1>3 DEF rest, storeVars, histVars, StoreAlert
  <2>2. faults' \in {faults, faults + 1} /\ faults \in Nat
    BY <1>3 DEF Fault, StoreTyped, WorkTyped
  <2>3. agg'.pc \notin {"hosts", "p95"}
    <3>1. agg.pc \notin {"hosts", "p95"}
      BY <1>3
    <3>2. agg'.pc \in {agg.pc, "alerts"} \/ agg' = Idle
      BY <1>3 DEF StoreTyped, AggTyped
    <3> QED
      BY <3>1, <3>2 DEF Idle
  <2> QED
    BY <2>1, <2>2, <2>3, RowsKept
<1> QED
  BY <1>1, <1>2, <1>3 DEF Minute

LEMMA OtherRows ==
  ASSUME StoreTyped, KeyInv, RowsInv,
         \/ Receive \/ StoreFails \/ View \/ NextMinute \/ Upgrade \/ Stream \/ UNCHANGED vars
  PROVE  KeyInv' /\ RowsInv'
<1>1. /\ UNCHANGED <<part, traces, rollups, stale, lastAgg, agg>>
      /\ faults' \in {faults, faults + 1}
  BY DEF Receive, StoreFails, View, NextMinute, Upgrade, Stream, vars, OpenDetail, OpenDiag,
         ReadTable, ReadTableFails, Answer, Fault, free, beside, storeVars, histVars, aggVars
<1> QED
  BY <1>1, RowsKept DEF StoreTyped, WorkTyped

LEMMA StepRows ==
  ASSUME StoreTyped, StoreTyped', KeyInv, RowsInv, [Next]_vars
  PROVE  KeyInv' /\ RowsInv'
BY StoreRows, MinuteRows, RetainerRows, RestartRows, OtherRows DEF Next

-----------------------------------------------------------------------------
(* Alerts.                                                                 *)

\* A set of numbers that has a bound and is not empty has a largest element.
LEMMA LargestExists ==
  ASSUME NEW T \in SUBSET Nat, T # {}, NEW n \in Nat, \A t \in T : t <= n
  PROVE  Max(T) \in T /\ \A t \in T : t <= Max(T)
<1> DEFINE Above == {u \in Nat : \A t \in T : t <= u}
<1>1. n \in Above
  OBVIOUS
<1>2. PICK u \in Above : \A v \in Above : ~(<<v, u>> \in OpToRel(<, Nat))
  BY <1>1, NatLessThanWellFounded, WFMin
<1>3. \A v \in Above : ~(v < u)
  BY <1>2 DEF OpToRel
<1>4. u \in T
  <2> SUFFICES ASSUME u \notin T
               PROVE  FALSE
    OBVIOUS
  <2>1. \A t \in T : t < u
    OBVIOUS
  <2>2. u # 0
    <3>1. PICK t : t \in T
      OBVIOUS
    <3> QED
      BY <2>1, <3>1
  <2>3. u - 1 \in Above
    BY <2>1, <2>2
  <2> QED
    BY <1>3, <2>2, <2>3
<1>5. \A t \in T : u >= t
  OBVIOUS
<1>6. \E x \in T : \A y \in T : x >= y
  BY <1>4, <1>5
<1>7. Max(T) \in T /\ \A y \in T : Max(T) >= y
  BY <1>6 DEF Max
<1> QED
  BY <1>7

\* The last alert is one of them, unless there is none.
LEMMA LastAlert ==
  ASSUME StoreTyped, AlertInv, NEW r, NEW h
  PROVE  LET last == LastAlertTime(r, h)
         IN /\ last \in Nat
            /\ last > 0 => \E a \in AlertsOf(r, h) : a.at = last
            /\ \A a \in AlertsOf(r, h) : a.at <= last
<1> DEFINE T == {0} \union {a.at : a \in AlertsOf(r, h)}
<1>1. AlertsOf(r, h) \subseteq alerts
  BY DEF AlertsOf
<1>2. \A a \in alerts : a.at \in Nat /\ a.at <= now
  BY DEF StoreTyped, TablesTyped, AlertInv
<1>3. now \in Nat
  BY DEF StoreTyped, WorkTyped
<1>4. T \in SUBSET Nat /\ T # {} /\ \A t \in T : t <= now
  BY <1>1, <1>2, <1>3
<1>5. Max(T) \in T /\ \A t \in T : t <= Max(T)
  BY <1>3, <1>4, LargestExists
<1>6. Max(T) > 0 => \E a \in AlertsOf(r, h) : a.at = Max(T)
  BY <1>5
<1>7. \A a \in AlertsOf(r, h) : a.at <= Max(T)
  BY <1>5
<1>8. LastAlertTime(r, h) = Max(T) /\ Max(T) \in Nat
  BY <1>4, <1>5 DEF LastAlertTime
<1> QED
  BY <1>6, <1>7, <1>8

\* Steps that neither look at a rule nor store an alert.
LEMMA AlertsKept ==
  ASSUME AlertInv, now \in Nat, now' \in {now, now + 1}, UNCHANGED <<alerts, blind, owed>>,
         StoreTyped,
         \/ agg' = agg
         \/ /\ agg'.events = agg.events
            /\ agg'.pc # "rules"
            /\ agg'.pc = "alerts" \/ agg.events = {}
  PROVE  AlertInv'
<1>1. \A r, h : AlertsOf(r, h)' = AlertsOf(r, h)
  BY DEF AlertsOf
<1>2. agg'.events = agg.events
  OBVIOUS
<1>3. AlertsSpaced'
  BY <1>1, <1>2 DEF AlertInv, AlertsSpaced
<1>4. \A a \in alerts : a.id <= Cardinality(alerts) /\ a.at <= now'
  BY DEF AlertInv, StoreTyped, TablesTyped
<1>5. \A o \in owed : o.at <= now'
  BY DEF AlertInv, StoreTyped, WorkTyped, Seen
<1>6. /\ agg'.pc = "rules" => \A o \in owed : o.rule \notin agg'.rules
      /\ agg'.pc \notin {"rules", "alerts"} => agg'.events = {}
  BY DEF AlertInv
<1> QED
  BY <1>1, <1>2, <1>3, <1>4, <1>5, <1>6 DEF AlertInv

\* A rule is looked at: the events are those of it that are not within the cooldown, or all of
\* them when the last alert could not be read.
LEMMA RuleStep ==
  ASSUME StoreTyped, StoreTyped', AlertInv, EvaluateRule \/ CooldownFails
  PROVE  AlertInv'
<1>1. PICK r \in agg.rules, H \in SUBSET Hosts :
        /\ H \subseteq Breached(r)
        /\ agg' = [agg EXCEPT !.rules = @ \ {r}, !.events = @ \union {Event(r, h) : h \in H}]
        /\ owed' = owed \union {Event(r, h) : h \in Breached(r)}
        /\ UNCHANGED <<alerts, now>> /\ agg.pc = "rules" /\ blind \subseteq blind'
        /\ \A h \in Breached(r) \ H : Cooling(r, h)
        /\ \A h \in H : ~Cooling(r, h) \/ [rule |-> r, host |-> h] \in blind'
  <2>1. CASE EvaluateRule
    <3>1. PICK r \in agg.rules :
            /\ agg' = [agg EXCEPT !.rules = @ \ {r}, !.events = @ \union
                         {Event(r, h) : h \in {g \in Breached(r) : ~Cooling(r, g)}}]
            /\ owed' = owed \union {Event(r, h) : h \in Breached(r)}
      BY <2>1 DEF EvaluateRule
    <3>2. UNCHANGED <<alerts, now, blind>> /\ agg.pc = "rules"
      BY <2>1 DEF EvaluateRule, rest, storeVars
    <3> DEFINE H == {g \in Breached(r) : ~Cooling(r, g)}
    <3>3. /\ H \subseteq Breached(r) /\ Breached(r) \subseteq Hosts
          /\ \A h \in Breached(r) \ H : Cooling(r, h)
      BY DEF Breached
    <3>4. \A h \in H : ~Cooling(r, h)
      OBVIOUS
    <3> HIDE DEF H
    <3>5. agg' = [agg EXCEPT !.rules = @ \ {r}, !.events = @ \union {Event(r, h) : h \in H}]
      BY <3>1 DEF H
    <3> QED
      BY <3>1, <3>2, <3>3, <3>4, <3>5
  <2>2. CASE CooldownFails
    <3>1. PICK r \in agg.rules :
            /\ agg' = [agg EXCEPT !.rules = @ \ {r},
                         !.events = @ \union {Event(r, h) : h \in Breached(r)}]
            /\ blind' = blind \union {[rule |-> r, host |-> h] : h \in Breached(r)}
            /\ owed' = owed \union {Event(r, h) : h \in Breached(r)}
      BY <2>2 DEF CooldownFails
    <3>2. UNCHANGED <<alerts, now>> /\ agg.pc = "rules"
      BY <2>2 DEF CooldownFails, rest, storeVars
    <3>3. blind \subseteq blind' /\ \A h \in Breached(r) : [rule |-> r, host |-> h] \in blind'
      BY <3>1
    <3>4. /\ Breached(r) \subseteq Breached(r) /\ Breached(r) \subseteq Hosts
          /\ \A h \in Breached(r) \ Breached(r) : Cooling(r, h)
      BY DEF Breached
    <3> QED
      BY <3>1, <3>2, <3>3, <3>4
  <2> QED
    BY <2>1, <2>2
<1>2. /\ agg'.events = agg.events \union {Event(r, h) : h \in H}
      /\ agg'.rules = agg.rules \ {r} /\ agg'.pc = "rules"
  BY <1>1 DEF StoreTyped, AggTyped
<1>3. /\ \A h : Event(r, h).rule = r /\ Event(r, h).host = h /\ Event(r, h).at = now
      /\ \A e \in agg'.events : e \in agg.events \/ \E h \in H : e = Event(r, h)
      /\ \A o \in owed' : o \in owed \/ \E h \in Breached(r) : o = Event(r, h)
      /\ \A h \in H : Event(r, h) \in agg'.events
  BY <1>1, <1>2 DEF Event
<1>4. /\ now \in Nat /\ r \in Rules /\ r.cooldown \in Nat \ {0}
      /\ \A q \in Rules : q.cooldown \in Nat
  BY <1>1, StoreAssumption DEF StoreTyped, WorkTyped, AggTyped
<1>5. /\ \A q, h : AlertsOf(q, h)' = AlertsOf(q, h)
      /\ \A q, h : AlertsOf(q, h) \subseteq alerts
      /\ \A a \in alerts : a.at \in Nat /\ a.at <= now /\ a.rule \in Rules
      /\ \A q, h : \A a \in AlertsOf(q, h) : a.rule = q /\ a.host = h
  BY <1>1 DEF AlertsOf, AlertInv, StoreTyped, TablesTyped
\* A host that is cooling has an alert that is younger than the cooldown.
<1>6. ASSUME NEW h \in Breached(r) \ H
      PROVE  \E a \in AlertsOf(r, h) : now < a.at + r.cooldown
  <2>1. /\ LastAlertTime(r, h) \in Nat /\ LastAlertTime(r, h) > 0
        /\ now - LastAlertTime(r, h) < r.cooldown
    BY <1>1, <1>6, LastAlert DEF Cooling
  <2>2. PICK a \in AlertsOf(r, h) : a.at = LastAlertTime(r, h)
    BY <2>1, LastAlert
  <2>3. now < a.at + r.cooldown
    BY <1>4, <2>1, <2>2
  <2> QED
    BY <2>2, <2>3
\* The alerts of a host that is not cooling are older.
<1>7. ASSUME NEW h \in H, NEW a \in AlertsOf(r, h)
      PROVE  now >= a.at + r.cooldown \/ [rule |-> r, host |-> h] \in blind'
  <2>1. CASE ~Cooling(r, h)
    <3>1. LastAlertTime(r, h) \in Nat /\ a.at <= LastAlertTime(r, h)
      BY LastAlert
    <3>2. a.at \in Nat \ {0}
      BY <1>5 DEF StoreTyped, TablesTyped
    <3>3. now - LastAlertTime(r, h) >= r.cooldown
      BY <1>4, <2>1, <3>1, <3>2 DEF Cooling
    <3> QED
      BY <1>4, <3>1, <3>2, <3>3
  <2> QED
    BY <1>1, <2>1
<1>8. AlertsSpaced'
  <2>1. ASSUME NEW a \in alerts', NEW b \in alerts', a.id < b.id, a.rule = b.rule,
               a.host = b.host
        PROVE  b.at >= a.at + a.rule.cooldown \/ [rule |-> a.rule, host |-> a.host] \in blind'
    BY <1>1, <2>1 DEF AlertInv, AlertsSpaced
  <2>2. ASSUME NEW o \in owed'
        PROVE  \E a \in AlertsOf(o.rule, o.host)' \union agg'.events :
                 a.rule = o.rule /\ a.host = o.host /\ o.at < a.at + o.rule.cooldown
    <3>1. CASE o \in owed
      BY <1>2, <1>5, <3>1 DEF AlertInv, AlertsSpaced
    <3>2. ASSUME NEW h \in H, o = Event(r, h)
          PROVE  \E a \in agg'.events :
                   a.rule = o.rule /\ a.host = o.host /\ o.at < a.at + o.rule.cooldown
      BY <1>3, <1>4, <3>2
    <3>3. ASSUME NEW h \in Breached(r) \ H, o = Event(r, h)
          PROVE  \E a \in AlertsOf(o.rule, o.host)' :
                   a.rule = o.rule /\ a.host = o.host /\ o.at < a.at + o.rule.cooldown
      <4>1. PICK a \in AlertsOf(r, h) : now < a.at + r.cooldown
        BY <1>6
      <4> QED
        BY <1>3, <1>5, <3>3, <4>1
    <3> QED
      BY <1>3, <3>1, <3>2, <3>3
  <2> QED
    BY <2>1, <2>2 DEF AlertsSpaced
<1>9. ASSUME NEW e \in agg'.events, NEW a \in AlertsOf(e.rule, e.host)'
      PROVE  e.at >= a.at + e.rule.cooldown \/ [rule |-> e.rule, host |-> e.host] \in blind'
  <2>1. CASE e \in agg.events
    BY <1>1, <1>5, <2>1 DEF AlertInv
  <2>2. ASSUME NEW h \in H, e = Event(r, h)
        PROVE  e.at >= a.at + e.rule.cooldown \/ [rule |-> e.rule, host |-> e.host] \in blind'
    BY <1>3, <1>5, <1>7, <2>2
  <2> QED
    BY <1>3, <2>1, <2>2
<1>10. agg'.events \subseteq owed'
  BY <1>1, <1>2 DEF AlertInv
<1>11. ASSUME NEW o \in owed', NEW e \in agg'.events, o.rule = e.rule, o.host = e.host
       PROVE  o = e
  <2>1. \A q \in owed : q.rule # r
    BY <1>1 DEF AlertInv
  <2>2. CASE e \in agg.events
    BY <1>3, <1>11, <2>1, <2>2 DEF AlertInv
  <2>3. ASSUME NEW h \in H, e = Event(r, h)
        PROVE  o = e
    BY <1>3, <1>11, <2>1, <2>3
  <2> QED
    BY <1>3, <2>2, <2>3
<1>12. \A o \in owed' : o.at <= now'
  BY <1>1, <1>3, <1>4 DEF AlertInv
<1>13. \A o \in owed' : o.rule \notin agg'.rules
  BY <1>1, <1>2, <1>3 DEF AlertInv
<1>14. \A a \in alerts' : a.id <= Cardinality(alerts') /\ a.at <= now'
  BY <1>1 DEF AlertInv
<1> QED
  BY <1>2, <1>8, <1>9, <1>10, <1>11, <1>12, <1>13, <1>14 DEF AlertInv

\* An alert is stored: those of its rule and host that are there are a cooldown older.
LEMMA AlertStep ==
  ASSUME StoreTyped, StoreTyped', AlertInv, Alert
  PROVE  AlertInv'
<1>1. PICK e \in agg.events : StoreAlert(e) /\ agg' = [agg EXCEPT !.events = @ \ {e}]
  BY DEF Alert
<1>2. PICK n \in Nat : n = Cardinality(alerts)
  BY FS_CardinalityType DEF StoreTyped, TablesTyped
<1>3. PICK new : new = [id |-> n + 1, rule |-> e.rule, host |-> e.host, at |-> e.at]
  OBVIOUS
<1>4. /\ alerts' = alerts \union {new} /\ UNCHANGED <<now, blind, owed>>
      /\ agg'.events = agg.events \ {e} /\ agg'.pc = "alerts" /\ agg.pc = "alerts"
  BY <1>1, <1>2, <1>3 DEF Alert, StoreAlert, rest, histVars, StoreTyped, AggTyped
<1>5. new.id = n + 1 /\ new.rule = e.rule /\ new.host = e.host /\ new.at = e.at
  BY <1>3
<1>6. /\ \A a \in alerts : a.id \in Nat /\ a.id <= n /\ a.at <= now
      /\ e \in owed /\ e.at <= now
  BY <1>1, <1>2 DEF AlertInv, StoreTyped, TablesTyped
<1>7. Cardinality(alerts') = n + 1
  <2>1. new \notin alerts
    BY <1>5, <1>6
  <2>2. Cardinality(alerts \union {new}) = n + 1
    BY <1>2, <2>1, FS_AddElement DEF StoreTyped, TablesTyped
  <2> QED
    BY <1>4, <2>2
<1>8. \A r, h : AlertsOf(r, h)' = IF r = e.rule /\ h = e.host THEN AlertsOf(r, h) \union {new}
                                  ELSE AlertsOf(r, h)
  BY <1>4, <1>5 DEF AlertsOf
<1>9. ASSUME NEW a \in alerts', NEW b \in alerts', a.id < b.id, a.rule = b.rule, a.host = b.host
      PROVE  b.at >= a.at + a.rule.cooldown \/ [rule |-> a.rule, host |-> a.host] \in blind'
  <2>1. CASE a \in alerts /\ b \in alerts
    BY <1>4, <1>9, <2>1 DEF AlertInv, AlertsSpaced
  <2>2. CASE a \in alerts /\ b = new
    <3>1. a \in AlertsOf(e.rule, e.host)
      BY <1>5, <1>9, <2>2 DEF AlertsOf
    <3> QED
      BY <1>4, <1>5, <1>9, <2>2, <3>1 DEF AlertInv
  <2>3. CASE a = new
    BY <1>2, <1>4, <1>5, <1>6, <1>9, <2>3
  <2> QED
    BY <1>4, <2>1, <2>2, <2>3
<1>10. ASSUME NEW o \in owed'
       PROVE  \E a \in AlertsOf(o.rule, o.host)' \union agg'.events :
                a.rule = o.rule /\ a.host = o.host /\ o.at < a.at + o.rule.cooldown
  <2>1. PICK a \in AlertsOf(o.rule, o.host) \union agg.events :
          a.rule = o.rule /\ a.host = o.host /\ o.at < a.at + o.rule.cooldown
    BY <1>4, <1>10 DEF AlertInv, AlertsSpaced
  <2>2. CASE a = e
    <3>1. new \in AlertsOf(o.rule, o.host)'
      BY <1>8, <2>1, <2>2
    <3> QED
      BY <1>5, <2>1, <2>2, <3>1
  <2>3. CASE a # e
    <3>1. a \in AlertsOf(o.rule, o.host)' \union agg'.events
      BY <1>4, <1>8, <2>1, <2>3
    <3> QED
      BY <2>1, <3>1
  <2> QED
    BY <2>2, <2>3
<1>11. AlertsSpaced'
  BY <1>9, <1>10 DEF AlertsSpaced
<1>12. ASSUME NEW d \in agg'.events, NEW a \in AlertsOf(d.rule, d.host)'
       PROVE  d.at >= a.at + d.rule.cooldown \/ [rule |-> d.rule, host |-> d.host] \in blind'
  <2>1. d \in agg.events /\ d # e
    BY <1>4
  <2>2. ~(d.rule = e.rule /\ d.host = e.host)
    BY <1>6, <2>1 DEF AlertInv
  <2>3. a \in AlertsOf(d.rule, d.host)
    BY <1>8, <1>12, <2>2
  <2> QED
    BY <1>4, <2>1, <2>3 DEF AlertInv
<1>13. \A a \in alerts' : a.id <= Cardinality(alerts') /\ a.at <= now'
  BY <1>2, <1>4, <1>5, <1>6, <1>7
<1>14. /\ agg'.events \subseteq owed'
       /\ \A o \in owed' : \A d \in agg'.events : o.rule = d.rule /\ o.host = d.host => o = d
       /\ \A o \in owed' : o.at <= now'
  BY <1>4 DEF AlertInv
<1> QED
  BY <1>4, <1>11, <1>12, <1>13, <1>14 DEF AlertInv

LEMMA AlertFailsStep ==
  ASSUME StoreTyped, AlertInv, AlertFails
  PROVE  AlertInv'
<1>1. PICK e \in agg.events : agg' = [agg EXCEPT !.events = @ \ {e}] /\ owed' = owed \ {e}
  BY DEF AlertFails
<1>2. /\ agg'.events = agg.events \ {e} /\ agg'.pc = "alerts" /\ agg.pc = "alerts"
      /\ UNCHANGED <<now, blind, alerts>>
  BY <1>1 DEF AlertFails, rest, storeVars, StoreTyped, AggTyped
<1>3. \A r, h : AlertsOf(r, h)' = AlertsOf(r, h)
  BY <1>2 DEF AlertsOf
<1>4. ASSUME NEW o \in owed'
      PROVE  \E a \in AlertsOf(o.rule, o.host)' \union agg'.events :
               a.rule = o.rule /\ a.host = o.host /\ o.at < a.at + o.rule.cooldown
  <2>1. PICK a \in AlertsOf(o.rule, o.host) \union agg.events :
          a.rule = o.rule /\ a.host = o.host /\ o.at < a.at + o.rule.cooldown
    BY <1>1, <1>4 DEF AlertInv, AlertsSpaced
  <2>2. a = e => a \in AlertsOf(o.rule, o.host)
    BY <1>1, <1>4, <2>1 DEF AlertInv
  <2> QED
    BY <1>2, <1>3, <2>1, <2>2
<1>5. AlertsSpaced'
  BY <1>2, <1>4 DEF AlertInv, AlertsSpaced
<1> QED
  BY <1>1, <1>2, <1>3, <1>5 DEF AlertInv

\* No alert is awaited: a check of the rules begins, or the process starts again.
LEMMA NothingOwed ==
  ASSUME StoreTyped, AlertInv, owed' = {}, agg'.events = {}, UNCHANGED <<now, blind, alerts>>
  PROVE  AlertInv'
BY DEF AlertInv, AlertsSpaced

LEMMA MinuteAlerts ==
  ASSUME StoreTyped, StoreTyped', AlertInv, Minute
  PROVE  AlertInv'
<1>1. CASE EvaluateRule \/ CooldownFails
  BY <1>1, RuleStep
<1>2. CASE Alert
  BY <1>2, AlertStep
<1>3. CASE AlertFails
  BY <1>3, AlertFailsStep
<1>4. CASE Aggregated
  <2>1. agg.events = {}
    BY <1>4 DEF Aggregated, AlertInv
  <2>2. owed' = {} /\ agg'.events = {} /\ UNCHANGED <<now, blind, alerts>>
    BY <1>4, <2>1 DEF Aggregated, rest, storeVars, StoreTyped, AggTyped
  <2> QED
    BY <2>2, NothingOwed
<1>5. CASE Aggregate \/ ReadHosts \/ HostP95 \/ HostP95Fails
  <2> USE DEF Aggregate, ReadHosts, HostP95, HostP95Fails
  <2>1. UNCHANGED <<now, alerts, blind, owed>>
    BY <1>5 DEF rest, storeVars, histVars, InsertRollups, SetP95, Others
  <2>2. /\ agg'.events = agg.events /\ agg'.pc \in {"hosts", "p95"}
        /\ agg.pc \in {"idle", "hosts", "p95"}
    BY <1>5 DEF StoreTyped, AggTyped
  <2>3. agg.events = {}
    BY <2>2 DEF AlertInv
  <2> QED
    BY <2>1, <2>2, <2>3, AlertsKept DEF StoreTyped, WorkTyped
<1>6. CASE AggregationFails \/ AlertsDone
  <2> USE DEF AggregationFails, AlertsDone
  <2>1. UNCHANGED <<now, alerts, blind, owed>>
    BY <1>6 DEF rest, storeVars, histVars
  <2>2. agg.events = {}
    BY <1>6 DEF AlertInv
  <2>3. agg'.events = {} /\ agg'.pc = "idle"
    BY <1>6 DEF Idle
  <2> QED
    BY <2>1, <2>2, <2>3, AlertsKept DEF StoreTyped, WorkTyped
<1>7. CASE RulesDone
  <2>1. UNCHANGED <<now, alerts, blind, owed>>
    BY <1>7 DEF RulesDone, rest, storeVars, histVars
  <2>2. agg'.events = agg.events /\ agg'.pc = "alerts"
    BY <1>7 DEF RulesDone, StoreTyped, AggTyped
  <2> QED
    BY <2>1, <2>2, AlertsKept DEF StoreTyped, WorkTyped
<1>8. CASE MetricsFail
  <2>1. UNCHANGED <<now, alerts, blind, owed>>
    BY <1>8 DEF MetricsFail, rest, storeVars, histVars
  <2>2. /\ agg'.events = agg.events /\ agg'.rules \subseteq agg.rules
        /\ agg'.pc = "rules" /\ agg.pc = "rules"
    BY <1>8 DEF MetricsFail, StoreTyped, AggTyped
  <2>3. \A r, h : AlertsOf(r, h)' = AlertsOf(r, h)
    BY <2>1 DEF AlertsOf
  <2>4. AlertsSpaced'
    BY <2>1, <2>2, <2>3 DEF AlertInv, AlertsSpaced
  <2> QED
    BY <2>1, <2>2, <2>3, <2>4 DEF AlertInv
<1> QED
  BY <1>1, <1>2, <1>3, <1>4, <1>5, <1>6, <1>7, <1>8 DEF Minute

LEMMA OtherAlerts ==
  ASSUME StoreTyped, AlertInv,
         \/ Receive \/ Store \/ StoreFails \/ Retainer \/ View \/ NextMinute \/ Restart \/ Upgrade
         \/ Stream \/ UNCHANGED vars
  PROVE  AlertInv'
<1>1. CASE Restart
  BY <1>1, NothingOwed DEF Restart, Idle, storeVars
<1>2. CASE Retainer
  <2> USE DEF Retainer, Retain, CapPass, CapDone, Purge, PurgeAggregates, PurgeFails
  <2>1. UNCHANGED <<now, alerts, blind, owed>>
    BY <1>2 DEF rest, storeVars, histVars, DeleteTraces, DeleteRollups, Others
  <2>2. agg.events = {} /\ agg.pc \notin {"rules", "alerts"}
    BY <1>2 DEF AlertInv
  <2>3. AfterCap.events = {} /\ AfterCap.pc \in {"idle", "purge"}
    BY <2>2 DEF AfterCap, Idle, StoreTyped, AggTyped
  <2>4. agg'.events = {} /\ agg'.pc # "rules"
    BY <1>2, <2>2, <2>3 DEF Idle, StoreTyped, AggTyped
  <2> HIDE DEF Retainer
  <2> QED
    BY <2>1, <2>2, <2>4, AlertsKept DEF StoreTyped, WorkTyped
<1>3. CASE \/ Receive \/ Store \/ StoreFails \/ View \/ NextMinute \/ Upgrade \/ Stream
           \/ UNCHANGED vars
  <2>1. UNCHANGED <<alerts, blind, owed, agg>> /\ now' \in {now, now + 1}
    BY <1>3 DEF Receive, Store, StoreTrace, StoreFails, View, NextMinute, Upgrade, Stream, vars,
                OpenDetail, OpenDiag, ReadTable, ReadTableFails, Answer, free, beside, storeVars,
                histVars, aggVars
  <2> QED
    BY <2>1, AlertsKept DEF StoreTyped, WorkTyped
<1> QED
  BY <1>1, <1>2, <1>3

LEMMA StepAlerts ==
  ASSUME StoreTyped, StoreTyped', AlertInv, [Next]_vars
  PROVE  AlertInv'
BY MinuteAlerts, OtherAlerts DEF Next

-----------------------------------------------------------------------------
(* The invariant, from the first state on.                                 *)

LEMMA InitIInv == Init => IInv
<1> SUFFICES ASSUME Init
             PROVE  IInv
  OBVIOUS
<1> USE DEF Init
<1>1. SchemaTypeOK /\ SchemaInv
  BY SchemaAssumption DEF OldFile, NewFile, SchemaTypeOK, SchemaInv
<1>2. HubInv
  <2> USE DEF NoClients
  <2>1. HubTypeOK
    BY HubAssumption DEF HubTypeOK
  <2>2. ASSUME NEW c \in Clients
        PROVE  ClientInv(c) /\ StreamInv(c)
    BY DEF ClientInv, StreamInv, Follows
  <2> QED
    BY <2>1, <2>2 DEF HubInv
<1>3. StoreTyped
  <2>1. TablesTyped
    BY FS_EmptySet DEF EmptyStore, TablesTyped
  <2>2. WorkTyped
    BY DEF WorkTyped, NoMinute
  <2>3. AggTyped
    BY DEF AggTyped, Idle, NoMinute, Phases, Passes
  <2>4. ViewTyped
    BY DEF ViewTyped, NoView
  <2> QED
    BY <2>1, <2>2, <2>3, <2>4 DEF StoreTyped
<1>4. IdInv /\ DetailInv
  BY DEF EmptyStore, IdInv, DetailInv, NoView
<1>5. KeyInv /\ RowsInv
  BY DEF EmptyStore, KeyInv, RowsInv, AggregateTellsStored, HostsOf, Idle
<1>6. AlertInv
  BY DEF EmptyStore, AlertInv, AlertsSpaced, Idle
<1> QED
  BY <1>1, <1>2, <1>3, <1>4, <1>5, <1>6 DEF IInv

\* The steps of the collector, seen by the schema and by the stream.
LEMMA StepSchema ==
  ASSUME [Next]_vars
  PROVE  [SchemaNext]_schemaVars
BY DEF Next, Upgrade, Stream, Receive, Store, StoreFails, Minute, Retainer, View, NextMinute,
       Restart, vars, free, rest, Aggregate, ReadHosts, HostP95, HostP95Fails, Aggregated,
       AggregationFails, EvaluateRule, MetricsFail, CooldownFails, RulesDone, Alert, AlertFails,
       AlertsDone, Retain, CapPass, CapDone, Purge, PurgeAggregates, PurgeFails, OpenDetail,
       OpenDiag, ReadTable, ReadTableFails, Answer, beside

LEMMA StepHub ==
  ASSUME StoreTyped, HubInv, [Next]_vars
  PROVE  HubInv'
<1>1. CASE Receive
  <2>1. received + 1 \in Nat /\ Broadcast(received + 1)
    BY <1>1 DEF Receive, StoreTyped, WorkTyped
  <2> QED
    BY <2>1, BroadcastStep
<1>2. CASE ~Receive
  <2>1. HubNext \/ UNCHANGED hubVars
    BY <1>2
       DEF Next, Upgrade, Stream, Store, StoreFails, Minute, Retainer, View, NextMinute,
           Restart, vars, free, rest, Aggregate, ReadHosts, HostP95, HostP95Fails, Aggregated,
           AggregationFails, EvaluateRule, MetricsFail, CooldownFails, RulesDone, Alert,
           AlertFails, AlertsDone, Retain, CapPass, CapDone, Purge, PurgeAggregates, PurgeFails,
           OpenDetail, OpenDiag, ReadTable, ReadTableFails, Answer, beside
  <2> QED
    BY <2>1, HubStep
<1> QED
  BY <1>1, <1>2

LEMMA StepIInv ==
  ASSUME IInv, [Next]_vars
  PROVE  IInv'
<1>1. StoreTyped'
  BY StepTyped DEF IInv
<1>2. SchemaTypeOK' /\ SchemaInv'
  BY StepSchema, SchemaStep DEF IInv
<1>3. HubInv'
  BY StepHub DEF IInv
<1>4. IdInv' /\ DetailInv'
  BY StepIds DEF IInv
<1>5. KeyInv' /\ RowsInv'
  BY <1>1, StepRows DEF IInv
<1>6. AlertInv'
  BY <1>1, StepAlerts DEF IInv
<1> QED
  BY <1>1, <1>2, <1>3, <1>4, <1>5, <1>6 DEF IInv

LEMMA IInvAlways == Spec => []IInv
<1>1. Init => IInv
  BY InitIInv
<1>2. IInv /\ [Next]_vars => IInv'
  BY StepIInv
<1> QED
  BY <1>1, <1>2, PTL DEF Spec

-----------------------------------------------------------------------------
(* Theorems.                                                               *)

\* An id is the key of the table.
LEMMA AsManyIdsAsTraces ==
  ASSUME IsFiniteSet(traces), IdInv
  PROVE  Cardinality({t.id : t \in traces}) = Cardinality(traces)
<1> DEFINE ids == {t.id : t \in traces}
           f == [t \in traces |-> t.id]
<1>1. f \in Surjection(traces, ids)
  <2>1. f \in [traces -> ids]
    OBVIOUS
  <2>2. \A i \in ids : \E t \in traces : f[t] = i
    OBVIOUS
  <2> QED
    BY <2>1, <2>2 DEF Surjection
<1>2. f \in Injection(traces, ids)
  BY <1>1 DEF Surjection, Injection, IsInjective, IdInv
<1> HIDE DEF f
<1> QED
  BY <1>1, <1>2, FS_Surjection

LEMMA TypesFollow == IInv => TypeOK
<1> SUFFICES ASSUME IInv
             PROVE  TypeOK
  OBVIOUS
<1>1. SchemaTypeOK /\ HubTypeOK
  BY DEF IInv, HubInv
<1>2. Cardinality({t.id : t \in traces}) = Cardinality(traces)
  BY AsManyIdsAsTraces DEF IInv, StoreTyped, TablesTyped
<1>3. \A t \in traces : t.id \in 1 .. lastId
  BY DEF IInv, StoreTyped, TablesTyped, Row, IdInv
<1>4. /\ agg.pc \in {"idle", "hosts", "p95", "rules", "alerts", "cap", "purge", "purgeagg"}
      /\ agg.hosts \subseteq Hosts /\ agg.rules \subseteq Rules /\ agg.pass \in 0 .. Passes
  BY DEF IInv, StoreTyped, AggTyped, Phases
<1>5. \A r, q \in rollups : r.minute = q.minute /\ r.host = q.host => r = q
  BY DEF IInv, KeyInv
<1> QED
  BY <1>1, <1>2, <1>3, <1>4, <1>5 DEF TypeOK

\* Type correctness of the collector's goroutines, tables and channels: an id is given to one
\* trace, a minute has one row per host, and no channel holds more than its capacity.
THEOREM TypeCorrect == Spec => []TypeOK
BY IInvAlways, TypesFollow, PTL

\* OpenStorage brings the file of any earlier collector up to the schema, whatever it lacks and
\* wherever earlier starts died in it (storage.go, migrate.go).
THEOREM UpgradesComplete == Spec => []UpgradeCompletes
<1>1. IInv => UpgradeCompletes
  BY DEF IInv, SchemaInv, UpgradeCompletes
<1> QED
  BY <1>1, IInvAlways, PTL

\* The hub of the live stream closes no channel twice, and what a client hears has no gap, for
\* all clients and sizes of the channels (websocket.go).
THEOREM StreamsContiguous == Spec => []StreamContiguous
<1>1. IInv => StreamContiguous
  BY StreamFollows DEF IInv
<1> QED
  BY <1>1, IInvAlways, PTL

\* The rows of aggregates_1m tell of what is stored, for all hosts and requests, wherever traces
\* come in between the statements of Aggregate1m, statements fail or the process is started
\* again (daemon.go, storage.go).
THEOREM MinutesTell == Spec => []AggregateTellsStored
<1>1. IInv => AggregateTellsStored
  BY DEF IInv, RowsInv
<1> QED
  BY <1>1, IInvAlways, PTL

\* The cooldown of every rule is kept and no host beyond a value goes without its alert,
\* wherever a restart or a statement that fails comes in between (alerts.go, daemon.go).
THEOREM AlertsKeepCooldown == Spec => []AlertsSpaced
<1>1. IInv => AlertsSpaced
  BY DEF IInv, AlertInv
<1> QED
  BY <1>1, IInvAlways, PTL

\* A trace is shown with its own details, and all of them of every table whose statement did
\* not fail, whatever the retention deletes and the workers store between the statements of
\* the handler (api.go, diagnostics.go).
THEOREM DetailsTrue == Spec => []DetailTruthful
<1>1. IInv => DetailTruthful
  BY DetailsFollow DEF IInv
<1> QED
  BY <1>1, IInvAlways, PTL

\* Minutes and details: what the collector tells of stored traces is so.
THEOREM StoreTells == Spec => []StoreTruthful
<1>1. AggregateTellsStored /\ DetailTruthful => StoreTruthful
  BY DEF StoreTruthful
<1> QED
  BY <1>1, MinutesTell, DetailsTrue, PTL

=============================================================================
