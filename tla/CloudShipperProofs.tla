-------------------------- MODULE CloudShipperProofs --------------------------
(***************************************************************************)
(* Proofs about the shipper, for all limits of the buffer and sizes of     *)
(* batches, all sequences of answers and faults, crashes and restarts.     *)
(*                                                                         *)
(* That a request is counted once needs that it is counted in one record,  *)
(* wherever that is (InOnePlace), that what was not asked of the console   *)
(* was not counted (CountedOK), and that ids are new (IdsOK).  That no     *)
(* trace is thought sent which the console took for a duplicate needs what *)
(* it has under an id it knows (HeardOK), and what a merged request stands *)
(* for (RequestOK).  The accounts are sums over the directory and over the *)
(* stack of halves, so each step moves records from one sum to another     *)
(* (Moves).                                                                *)
(***************************************************************************)
EXTENDS CloudShipper, Recursion, SequenceTheorems, FunctionTheorems

\* No two records of a body speak of the same trace.
Apart(body) == \A i, j \in DOMAIN body : i # j => body[i] \cap body[j] = {}

\* What the console has taken of a batch.
Heard(kind, body) ==
  \A t \in Covered(body) : IF kind = "traces" THEN t \in arrived ELSE counted[t] > 0

\* Where the sender stands, and what it has in hand there.
ControlOK ==
  /\ pc \in {"idle", "flush", "replay", "remove"} => todo = <<>>
  /\ pc = "send" => todo # <<>>
  /\ pc \in {"wait", "store"} /\ req.files = <<>> =>
       todo # <<>> /\ Head(todo).kind = req.kind /\ Head(todo).body = req.body
  /\ pc = "wait" /\ req.files # <<>> => todo = <<>> /\ job = "replay"
  /\ pc = "store" => req.files = <<>>
  /\ pc \notin {"wait", "store", "remove"} => req = NoBatch
  /\ pc = "remove" => req.verdict \in {"ok", "large", "refused"}
  /\ pc \in {"replay", "remove"} => job = "replay"
  /\ pc = "flush" => job = "traces"
  /\ phase = "final" => job # "replay" /\ (pc = "idle" => job = "aggregates")
  /\ \A k \in DOMAIN todo : todo[k].body # <<>>
  /\ \A id \in DOMAIN disk : disk[id].body # <<>>

\* A collector that is not running has no memory.
DownOK ==
  phase = "down" =>
    /\ pc = "idle" /\ pending = <<>> /\ InMinutes = {} /\ ~plan
    /\ sent = 0 /\ dropped = 0 /\ trimmed = 0

\* An id is drawn once, and what is new bears a new one.
IdsOK ==
  /\ \A id \in DOMAIN disk \cup known \cup {req.id} : id <= ids
  /\ \A k, l \in DOMAIN list : list[k] = list[l] => k = l
  /\ pc \in {"wait", "store"} /\ req.files = <<>> => req.id \notin DOMAIN disk
  /\ pc = "wait" /\ req.files = <<>> => req.id \notin known

\* The files a request stands for.
RequestOK ==
  /\ \A k, l \in DOMAIN req.files : req.files[k] = req.files[l] => k = l
  /\ \A f \in Range(req.files) :
       f \in OfKind(disk, req.kind) /\ Covered(disk[f].body) \subseteq Covered(req.body)
  /\ pc = "wait" /\ req.files # <<>> =>
       /\ Len(req.body) = Weight(disk, Range(req.files))
       /\ req.kind = "aggregates" \/ req.id \in known \cup DOMAIN disk =>
            req.files = <<req.id>> /\ req.body = disk[req.id].body

\* The console has a batch under its id, whole.
HeardOK ==
  /\ \A id \in known \cap DOMAIN disk : Heard(disk[id].kind, disk[id].body)
  /\ pc = "store" /\ req.id \in known => Heard(req.kind, req.body)
  /\ pc = "remove" /\ req.verdict = "ok" => Heard(req.kind, req.body)

\* A trace is counted in one record, wherever that is.
InOnePlace ==
  /\ \A m, n \in Minutes : m # n => minutes[m] \cap minutes[n] = {}
  /\ \A k \in DOMAIN todo : todo[k].kind = "aggregates" => Apart(todo[k].body)
  /\ \A k, l \in DOMAIN todo :
       k # l /\ todo[k].kind = "aggregates" /\ todo[l].kind = "aggregates" =>
         Covered(todo[k].body) \cap Covered(todo[l].body) = {}
  /\ \A id \in OfKind(disk, "aggregates") : Apart(disk[id].body)
  /\ \A i, j \in OfKind(disk, "aggregates") :
       i # j => Covered(disk[i].body) \cap Covered(disk[j].body) = {}
  /\ InMinutes \cap CoveredIn(todo, "aggregates") = {}
  /\ InMinutes \cap CoveredIn(disk, "aggregates") = {}
  /\ CoveredIn(todo, "aggregates") \cap CoveredIn(disk, "aggregates") = {}
  /\ InMinutes \cup CoveredIn(todo, "aggregates") \cup CoveredIn(disk, "aggregates")
       \subseteq 1 .. observed

\* What the console has not been asked to count, it has not counted.
CountedOK ==
  /\ AggregatesOnce
  /\ \A t \in Traces : counted[t] > 0 => t <= observed
  /\ \A t \in InMinutes : counted[t] = 0
  /\ \A k \in DOMAIN todo :
       todo[k].kind = "aggregates" /\ ~(k = 1 /\ pc = "store" /\ req.id \in known) =>
         \A t \in Covered(todo[k].body) : counted[t] = 0
  /\ \A id \in OfKind(disk, "aggregates") \ known : \A t \in Covered(disk[id].body) : counted[t] = 0

\* What is in memory when the last flush is over came after it.
LateOK ==
  /\ late \subseteq 1 .. observed
  /\ phase = "final" /\ job = "aggregates" => Range(pending) \cup InMinutes \subseteq late

ShipperInv ==
  /\ TypeOK /\ ControlOK /\ DownOK /\ IdsOK /\ RequestOK /\ HeardOK
  /\ InOnePlace /\ CountedOK /\ LateOK /\ NothingLost /\ Accounted

-----------------------------------------------------------------------------
(* Sequences made of sets, and sequences put together                       *)

\* A finite set of naturals can be put in order.
LEMMA OrderExists ==
  ASSUME NEW S \in SUBSET Nat, IsFiniteSet(S)
  PROVE  \E n \in Nat : \E q \in [1 .. n -> S] :
           /\ \A i, j \in 1 .. n : i < j => q[i] < q[j]
           /\ \A x \in S : \E i \in 1 .. n : q[i] = x
<1> DEFINE Ordered(s, n, q) ==
             /\ \A i, j \in 1 .. n : i < j => q[i] < q[j]
             /\ \A x \in s : \E i \in 1 .. n : q[i] = x
           T == {s \in SUBSET S : ~ \E n \in Nat : \E q \in [1 .. n -> s] : Ordered(s, n, q)}
<1> SUFFICES ASSUME T # {} PROVE FALSE
  OBVIOUS
<1>1. T \subseteq FiniteSubsetsOf(S)
  BY FS_Subset DEF FiniteSubsetsOf
<1>2. PICK m \in T : \A u \in T : u \subseteq m => u = m
  <2> HIDE DEF T
  <2> QED
    BY <1>1, LeastSet
<1>3. m \in SUBSET S /\ ~ \E n \in Nat : \E q \in [1 .. n -> m] : Ordered(m, n, q)
  OBVIOUS
<1>4. m # {}
  <2> SUFFICES ASSUME m = {} PROVE FALSE
    OBVIOUS
  <2>1. [i \in 1 .. 0 |-> 0] \in [1 .. 0 -> m] /\ Ordered(m, 0, [i \in 1 .. 0 |-> 0])
    OBVIOUS
  <2> QED
    BY <1>3, <2>1
<1>5. PICK x \in m : \A y \in m : y <= x
  <2>1. m \in SUBSET Int /\ IsFiniteSet(m)
    <3>1. IsFiniteSet(m)
      BY <1>3, FS_Subset
    <3> QED
      BY <1>3, <3>1
  <2> QED
    BY <1>4, <2>1, GreatestInt
<1> DEFINE r == m \ {x}
<1>6a. PICK n \in Nat : \E q \in [1 .. n -> r] : Ordered(r, n, q)
  <2>1. r \in SUBSET S /\ r \subseteq m /\ r # m
    BY <1>3
  <2> QED
    BY <1>2, <2>1
<1>6. PICK q \in [1 .. n -> r] : Ordered(r, n, q)
  BY <1>6a
<1> DEFINE p == [i \in 1 .. n + 1 |-> IF i = n + 1 THEN x ELSE q[i]]
<1>7. p \in [1 .. n + 1 -> m]
  <2> SUFFICES ASSUME NEW i \in 1 .. n + 1 PROVE p[i] \in m
    OBVIOUS
  <2>1. i # n + 1 => i \in 1 .. n
    OBVIOUS
  <2> QED
    BY <2>1
<1>8. \A i, j \in 1 .. n + 1 : i < j => p[i] < p[j]
  <2> SUFFICES ASSUME NEW i \in 1 .. n + 1, NEW j \in 1 .. n + 1, i < j PROVE p[i] < p[j]
    OBVIOUS
  <2>1. i \in 1 .. n /\ p[i] = q[i] /\ q[i] \in r
    OBVIOUS
  <2>2. CASE j = n + 1
    <3>1. p[j] = x /\ q[i] <= x /\ q[i] # x /\ q[i] \in Nat /\ x \in Nat
      BY <1>3, <1>5, <2>1, <2>2
    <3> QED
      BY <2>1, <3>1
  <2>3. CASE j # n + 1
    <3>1. j \in 1 .. n /\ p[j] = q[j]
      BY <2>3
    <3> QED
      BY <1>6, <2>1, <3>1
  <2> QED
    BY <2>2, <2>3
<1>9. \A y \in m : \E i \in 1 .. n + 1 : p[i] = y
  <2> TAKE y \in m
  <2>1. CASE y = x
    BY <2>1
  <2>2. CASE y # x
    <3>1. PICK i \in 1 .. n : q[i] = y
      BY <1>6, <2>2
    <3>2. i \in 1 .. n + 1 /\ p[i] = y
      BY <3>1
    <3> QED
      BY <3>2
  <2> QED
    BY <2>1, <2>2
<1> HIDE DEF p
<1> QED
  BY <1>3, <1>7, <1>8, <1>9

\* InOrder has every member of the set, once.
LEMMA OrderParts ==
  ASSUME NEW S \in SUBSET Nat, IsFiniteSet(S)
  PROVE  /\ InOrder(S) \in Seq(S) /\ Len(InOrder(S)) = Cardinality(S)
         /\ Range(InOrder(S)) = S
         /\ \A i, j \in DOMAIN InOrder(S) : InOrder(S)[i] = InOrder(S)[j] => i = j
         /\ InOrder(S) = <<>> <=> S = {}
<1>1a. PICK n \in Nat : \E q \in [1 .. n -> S] :
        /\ \A i, j \in 1 .. n : i < j => q[i] < q[j]
        /\ \A x \in S : \E i \in 1 .. n : q[i] = x
  BY OrderExists
<1>1. PICK q \in [1 .. n -> S] :
        /\ \A i, j \in 1 .. n : i < j => q[i] < q[j]
        /\ \A x \in S : \E i \in 1 .. n : q[i] = x
  BY <1>1a
<1>2. \A i, j \in 1 .. n : q[i] = q[j] => i = j
  <2> SUFFICES ASSUME NEW i \in 1 .. n, NEW j \in 1 .. n, q[i] = q[j], i # j PROVE FALSE
    OBVIOUS
  <2>1. i < j \/ j < i
    OBVIOUS
  <2>2. q[i] \in Nat
    OBVIOUS
  <2> QED
    BY <1>1, <2>1, <2>2
<1>3. n = Cardinality(S)
  <2>1. q \in Bijection(1 .. n, S)
    BY <1>1, <1>2, Fun_IsBij, Fun_IsInj, Fun_IsSurj
  <2>2. ExistsBijection(1 .. n, S)
    BY <2>1 DEF ExistsBijection
  <2>3. IsFiniteSet(1 .. n) /\ Cardinality(1 .. n) = n
    BY FS_Interval
  <2> QED
    BY <2>2, <2>3, FS_Bijection
<1> DEFINE r == InOrder(S)
<1>4. r \in [1 .. n -> S] /\ \A i, j \in 1 .. n : i < j => r[i] < r[j]
  <2>1. q \in [1 .. Cardinality(S) -> S] /\ \A i, j \in DOMAIN q : i < j => q[i] < q[j]
    BY <1>1, <1>3
  <2>2. r \in [1 .. Cardinality(S) -> S] /\ \A i, j \in DOMAIN r : i < j => r[i] < r[j]
    BY <2>1 DEF InOrder
  <2> QED
    BY <1>3, <2>2
<1> HIDE DEF r
<1>5. \A i, j \in 1 .. n : r[i] = r[j] => i = j
  <2> SUFFICES ASSUME NEW i \in 1 .. n, NEW j \in 1 .. n, r[i] = r[j], i # j PROVE FALSE
    OBVIOUS
  <2>1. i < j \/ j < i
    OBVIOUS
  <2>2. r[i] \in Nat
    BY <1>4
  <2> QED
    BY <1>4, <2>1, <2>2
<1>6. Range(r) = S
  <2>1. r \in Injection(1 .. n, S)
    BY <1>4, <1>5, Fun_IsInj
  <2>2. r \in Bijection(1 .. n, Range(r))
    BY <2>1, Fun_InjMeansBijImage
  <2>3. IsFiniteSet(1 .. n) /\ Cardinality(1 .. n) = n
    BY FS_Interval
  <2>4. ExistsBijection(1 .. n, Range(r))
    BY <2>2 DEF ExistsBijection
  <2>5. IsFiniteSet(Range(r)) /\ Cardinality(Range(r)) = n
    BY <2>3, <2>4, FS_Bijection
  <2>6. Range(r) \subseteq S
    BY <1>4 DEF Range
  <2> QED
    BY <1>3, <2>5, <2>6, FS_Subset
<1>7. r \in Seq(S) /\ Len(r) = n /\ DOMAIN r = 1 .. n
  BY <1>4
<1>8. r = <<>> <=> S = {}
  <2>1. n = 0 <=> S = {}
    BY <1>3, FS_EmptySet
  <2>2. r = <<>> <=> n = 0
    BY <1>7, EmptySeq
  <2> QED
    BY <2>1, <2>2
<1> QED
  BY <1>3, <1>5, <1>6, <1>7, <1>8 DEF r

\* FlattenSeq puts together what the sequences have, and nothing else.
LEMMA FlattenParts ==
  ASSUME NEW S, NEW q \in Seq(Seq(S)), q # <<>>
  PROVE  /\ FlattenSeq(q) \in Seq(S)
         /\ Len(FlattenSeq(q)) = SumFunctionOnSet([k \in DOMAIN q |-> Len(q[k])], DOMAIN q)
         /\ Range(FlattenSeq(q)) = UNION {Range(q[k]) : k \in DOMAIN q}
         /\ Len(q) = 1 => FlattenSeq(q) = q[1]
<1> DEFINE n == Len(q)
           w == [k \in DOMAIN q |-> Len(q[k])]
           Flat(h, m) == h = [i \in 1 .. m |-> IF i = 1 THEN q[i] ELSE h[i - 1] \o q[i]]
           Parts(s, i) == /\ s \in Seq(S)
                          /\ Len(s) = SumFunctionOnSet(w, 1 .. i)
                          /\ Range(s) = UNION {Range(q[k]) : k \in 1 .. i}
<1>1. n \in Nat \ {0} /\ DOMAIN q = 1 .. n /\ \A i \in 1 .. n : q[i] \in Seq(S)
  BY EmptySeq
<1>2. \A i \in 1 .. n : w[i] = Len(q[i]) /\ w[i] \in Int
  BY <1>1
<1> HIDE DEF n, w
<1>3. \E h : Flat(h, n)
  <2> DEFINE T == {m \in 1 .. n : ~ \E h : Flat(h, m)}
  <2> SUFFICES ASSUME T # {} PROVE FALSE
    <3>1. n \in 1 .. n
      BY <1>1
    <3> HIDE DEF Flat
    <3> QED
      BY <3>1
  <2>1. T \in SUBSET Nat
    <3>1. 1 .. n \subseteq Nat
      BY <1>1
    <3> HIDE DEF Flat
    <3> QED
      BY <3>1
  <2>2. PICK m \in T : \A k \in T : m <= k
    <3> HIDE DEF T
    <3> QED
      BY <2>1, LeastNat
  <2>3. m \in 1 .. n /\ ~ \E h : Flat(h, m)
    OBVIOUS
  <2>4. CASE m = 1
    <3> DEFINE g == [i \in 1 .. 1 |-> q[1]]
    <3>1. Flat(g, m)
      BY <2>4
    <3> QED
      BY <2>3, <3>1
  <2>5. CASE m # 1
    <3>1. m - 1 \in 1 .. n /\ ~(m <= m - 1)
      BY <1>1, <2>3, <2>5
    <3>2. PICK h : Flat(h, m - 1)
      BY <2>2, <3>1
    <3> DEFINE g == [i \in 1 .. m |-> IF i = m THEN h[m - 1] \o q[m] ELSE h[i]]
    <3>3. \A i \in 1 .. m : g[i] = IF i = 1 THEN q[i] ELSE g[i - 1] \o q[i]
      <4> TAKE i \in 1 .. m
      <4>1. CASE i = m
        <5>1. g[m] = h[m - 1] \o q[m] /\ g[m - 1] = h[m - 1]
          BY <1>1, <2>3, <2>5, <3>1
        <5> QED
          BY <2>5, <4>1, <5>1
      <4>2. CASE i # m
        <5>1. i \in 1 .. m - 1 /\ g[i] = h[i]
          BY <1>1, <2>3, <4>2
        <5>2. i # 1 => g[i - 1] = h[i - 1]
          BY <1>1, <2>3, <5>1
        <5>3. h[i] = IF i = 1 THEN q[i] ELSE h[i - 1] \o q[i]
          BY <3>2, <5>1
        <5> QED
          BY <5>1, <5>2, <5>3
      <4> QED
        BY <4>1, <4>2
    <3>4. Flat(g, m)
      <4>1. g = [i \in 1 .. m |-> g[i]]
        OBVIOUS
      <4> HIDE DEF g
      <4> QED
        BY <3>3, <4>1
    <3> QED
      BY <2>3, <3>4
  <2> QED
    BY <2>4, <2>5
<1> DEFINE f == CHOOSE h : Flat(h, n)
<1>4. Flat(f, n)
  BY <1>3
<1>5. FlattenSeq(q) = f[n]
  BY <1>1 DEF FlattenSeq, n
<1> HIDE DEF f
<1>6. \A i \in 1 .. n : f[i] = IF i = 1 THEN q[i] ELSE f[i - 1] \o q[i]
  BY <1>4
<1> HIDE DEF Flat
<1>7. Parts(f[1], 1)
  <2>1. 1 \in 1 .. n /\ 1 .. 1 = {1} /\ {1} \ {1} = {}
    BY <1>1
  <2>2. f[1] = q[1] /\ q[1] \in Seq(S)
    BY <1>1, <1>6, <2>1
  <2>3. SumFunctionOnSet(w, {1}) = w[1] + SumFunctionOnSet(w, {1} \ {1})
    <3>1. IsFiniteSet({1}) /\ \A x \in {1} : w[x] \in Int
      BY <1>2, <2>1, FS_Singleton
    <3> QED
      BY <3>1, SumSplit
  <2>4. SumFunctionOnSet(w, 1 .. 1) = Len(q[1])
    <3>1. SumFunctionOnSet(w, {1} \ {1}) = 0
      BY <2>1, SumEmpty
    <3>2. w[1] = Len(q[1]) /\ w[1] \in Int
      BY <1>2, <2>1
    <3> QED
      BY <2>1, <2>3, <3>1, <3>2
  <2>5. UNION {Range(q[k]) : k \in 1 .. 1} = Range(q[1])
    BY <2>1
  <2> QED
    BY <2>2, <2>4, <2>5
<1>8. ASSUME NEW i \in 2 .. n, Parts(f[i - 1], i - 1) PROVE Parts(f[i], i)
  <2>1. i \in 1 .. n /\ i # 1 /\ i - 1 \in Nat /\ i \in 1 .. i /\ (1 .. i) \ {i} = 1 .. i - 1
        /\ 1 .. i = (1 .. i - 1) \cup {i}
    BY <1>1
  <2>2. f[i] = f[i - 1] \o q[i] /\ q[i] \in Seq(S) /\ f[i - 1] \in Seq(S)
    BY <1>1, <1>6, <1>8, <2>1
  <2>3. f[i] \in Seq(S) /\ Len(f[i]) = Len(f[i - 1]) + Len(q[i])
    BY <2>2
  <2>4. Range(f[i]) = Range(f[i - 1]) \cup Range(q[i])
    <3> DEFINE a == f[i - 1]
               b == q[i]
    <3>1. a \in Seq(S) /\ b \in Seq(S) /\ f[i] = a \o b
      BY <2>2
    <3> HIDE DEF a, b
    <3> QED
      BY <3>1, RangeConcatenation DEF a, b
  <2>5. SumFunctionOnSet(w, 1 .. i) = w[i] + SumFunctionOnSet(w, 1 .. i - 1)
    <3>1. IsFiniteSet(1 .. i)
      BY <2>1, FS_Interval
    <3>2. \A x \in 1 .. i : w[x] \in Int
      <4>1. 1 .. i \subseteq 1 .. n
        BY <1>1
      <4> QED
        BY <1>2, <4>1
    <3>3. SumFunctionOnSet(w, 1 .. i) = w[i] + SumFunctionOnSet(w, (1 .. i) \ {i})
      BY <2>1, <3>1, <3>2, SumSplit
    <3> QED
      BY <2>1, <3>3
  <2>6. Len(f[i]) = SumFunctionOnSet(w, 1 .. i)
    <3>1. Len(f[i - 1]) = SumFunctionOnSet(w, 1 .. i - 1) /\ Len(f[i - 1]) \in Nat
      BY <1>8, <2>2
    <3> QED
      BY <1>2, <2>1, <2>2, <2>3, <2>5, <3>1
  <2>7. UNION {Range(q[k]) : k \in 1 .. i} =
          (UNION {Range(q[k]) : k \in 1 .. i - 1}) \cup Range(q[i])
    BY <2>1
  <2>8. Range(f[i - 1]) = UNION {Range(q[k]) : k \in 1 .. i - 1}
    BY <1>8
  <2> QED
    BY <2>3, <2>4, <2>6, <2>7, <2>8
<1> DEFINE T == {i \in 1 .. n : ~Parts(f[i], i)}
<1>9. ASSUME T # {} PROVE FALSE
  <2>1. T \in SUBSET Nat
    BY <1>1
  <2>2. PICK m \in T : \A k \in T : m <= k
    <3> HIDE DEF T
    <3> QED
      BY <1>9, <2>1, LeastNat
  <2>3. m \in 1 .. n /\ ~Parts(f[m], m)
    OBVIOUS
  <2> HIDE DEF Parts
  <2>4. m # 1
    BY <1>7, <2>3
  <2>5. m \in 2 .. n /\ m - 1 \in 1 .. n /\ ~(m <= m - 1)
    BY <1>1, <2>3, <2>4
  <2>6. Parts(f[m - 1], m - 1)
    BY <2>2, <2>5
  <2> QED
    BY <1>8, <2>3, <2>5, <2>6
<1>10. Parts(f[n], n)
  <2>1. n \in 1 .. n
    BY <1>1
  <2> HIDE DEF Parts
  <2> QED
    BY <1>9, <2>1
<1>11. n = 1 => FlattenSeq(q) = q[1]
  <2>1. f[1] = q[1]
    BY <1>1, <1>6
  <2> QED
    BY <1>5, <2>1
<1> QED
  BY <1>1, <1>5, <1>10, <1>11 DEF w, n

-----------------------------------------------------------------------------
(* Bodies and batches                                                       *)

\* A directory, or a sequence of batches.
Batches(files) ==
  /\ IsFiniteSet(DOMAIN files)
  /\ \A id \in DOMAIN files : files[id] \in File

\* The weight of some files, and of a part of them.
LEMMA WeightParts ==
  ASSUME NEW files, Batches(files), NEW some \in SUBSET DOMAIN files
  PROVE  /\ Weight(files, some) \in Nat
         /\ \A e \in some : Weight(files, some)
                              = Len(files[e].body) + Weight(files, some \ {e})
         /\ \A part \in SUBSET some :
              Weight(files, some) = Weight(files, part) + Weight(files, some \ part)
         /\ Weight(files, {}) = 0
<1> DEFINE w == [id \in DOMAIN files |-> Len(files[id].body)]
<1>1. \A id \in DOMAIN files : w[id] = Len(files[id].body) /\ w[id] \in Nat
  BY DEF Batches, File, Bodies
<1>2. IsFiniteSet(some)
  BY FS_Subset DEF Batches
<1>3. \A set : Weight(files, set) = SumFunctionOnSet(w, set)
  BY DEF Weight
<1> HIDE DEF w
<1>4. \A x \in some : w[x] \in Int /\ w[x] \in Nat
  BY <1>1
<1>5. Weight(files, some) \in Nat
  BY <1>2, <1>3, <1>4, SumNatural
<1>6. ASSUME NEW e \in some
      PROVE  Weight(files, some) = Len(files[e].body) + Weight(files, some \ {e})
  <2>1. SumFunctionOnSet(w, some) = w[e] + SumFunctionOnSet(w, some \ {e})
    BY <1>2, <1>4, SumSplit
  <2> QED
    BY <1>1, <1>3, <2>1
<1>7. ASSUME NEW part \in SUBSET some
      PROVE  Weight(files, some) = Weight(files, part) + Weight(files, some \ part)
  BY <1>2, <1>3, <1>4, SumUnion
<1>8. Weight(files, {}) = 0
  BY <1>3, SumEmpty
<1> QED
  BY <1>5, <1>6, <1>7, <1>8

\* Files of the same bodies weigh the same.
LEMMA WeightSame ==
  ASSUME NEW files, Batches(files), NEW others, NEW some \in SUBSET DOMAIN files,
         some \subseteq DOMAIN others, \A id \in some : others[id].body = files[id].body
  PROVE  Weight(others, some) = Weight(files, some)
<1> DEFINE w == [id \in DOMAIN files |-> Len(files[id].body)]
           v == [id \in DOMAIN others |-> Len(others[id].body)]
<1>1. \A id \in some : w[id] \in Int /\ v[id] = w[id]
  BY DEF Batches, File, Bodies
<1>2. IsFiniteSet(some)
  BY FS_Subset DEF Batches
<1>3. Weight(files, some) = SumFunctionOnSet(w, some)
      /\ Weight(others, some) = SumFunctionOnSet(v, some)
  BY DEF Weight
<1> HIDE DEF w, v
<1> QED
  BY <1>1, <1>2, <1>3, SumSame

\* A sequence of batches is its head and its tail.
LEMMA HeadAndTail ==
  ASSUME NEW s \in Seq(File), s # <<>>
  PROVE  /\ Batches(s) /\ Head(s) \in File /\ Tail(s) \in Seq(File) /\ Batches(Tail(s))
         /\ Head(s) = s[1] /\ 1 \in DOMAIN s
         /\ \A k \in DOMAIN Tail(s) : k + 1 \in DOMAIN s /\ Tail(s)[k] = s[k + 1]
         /\ \A k \in DOMAIN s : k # 1 => k - 1 \in DOMAIN Tail(s) /\ s[k] = Tail(s)[k - 1]
         /\ \A kind : CoveredIn(s, kind) =
              (IF Head(s).kind = kind THEN Covered(Head(s).body) ELSE {})
                \cup CoveredIn(Tail(s), kind)
         /\ TraceRecords(s) =
              (IF Head(s).kind = "traces" THEN Len(Head(s).body) ELSE 0) + TraceRecords(Tail(s))
         /\ TraceRecords(Tail(s)) \in Nat
<1> DEFINE t == Tail(s)
           n == Len(s)
<1>1. /\ n \in Nat \ {0} /\ DOMAIN s = 1 .. n /\ Head(s) = s[1]
      /\ t \in Seq(File) /\ Len(t) = n - 1 /\ DOMAIN t = 1 .. n - 1
      /\ \A k \in 1 .. n - 1 : t[k] = s[k + 1]
  BY EmptySeq
<1>2. Batches(s) /\ Batches(t) /\ s[1] \in File
  <2>1. IsFiniteSet(1 .. n) /\ IsFiniteSet(1 .. n - 1)
    BY <1>1, FS_Interval
  <2> QED
    BY <1>1, <2>1 DEF Batches
<1> HIDE DEF t, n
<1>3. \A k \in DOMAIN t : k + 1 \in DOMAIN s /\ k + 1 # 1 /\ t[k] = s[k + 1]
  BY <1>1
<1>4. \A k \in DOMAIN s : k # 1 => k - 1 \in DOMAIN t /\ s[k] = t[k - 1]
  <2> TAKE k \in DOMAIN s
  <2> HAVE k # 1
  <2>1. k - 1 \in 1 .. n - 1 /\ (k - 1) + 1 = k
    BY <1>1
  <2> QED
    BY <1>1, <2>1
<1>5. ASSUME NEW kind
      PROVE  OfKind(s, kind) \ {1} = {k + 1 : k \in OfKind(t, kind)}
  <2>1. ASSUME NEW k \in OfKind(s, kind), k # 1
        PROVE  k - 1 \in OfKind(t, kind) /\ (k - 1) + 1 = k
    BY <1>1, <1>4, <2>1 DEF OfKind
  <2>2. ASSUME NEW k \in OfKind(t, kind)
        PROVE  k + 1 \in OfKind(s, kind) /\ k + 1 # 1
    BY <1>3 DEF OfKind
  <2> QED
    BY <2>1, <2>2
<1>6. ASSUME NEW kind
      PROVE  CoveredIn(s, kind) =
               (IF s[1].kind = kind THEN Covered(s[1].body) ELSE {}) \cup CoveredIn(t, kind)
  <2>1. ASSUME NEW k \in OfKind(s, kind) \ {1}
        PROVE  k - 1 \in OfKind(t, kind) /\ s[k].body = t[k - 1].body
    BY <1>4 DEF OfKind
  <2>2. ASSUME NEW k \in OfKind(t, kind)
        PROVE  k + 1 \in OfKind(s, kind) /\ s[k + 1].body = t[k].body
    BY <1>3 DEF OfKind
  <2>3. 1 \in OfKind(s, kind) <=> s[1].kind = kind
    BY <1>1 DEF OfKind
  <2> QED
    BY <2>1, <2>2, <2>3 DEF CoveredIn, CoveredBy
<1>7. Weight(s, OfKind(s, "traces") \ {1}) = Weight(t, OfKind(t, "traces"))
  <2> DEFINE w == [k \in DOMAIN s |-> Len(s[k].body)]
             v == [k \in DOMAIN t |-> Len(t[k].body)]
             S == OfKind(t, "traces")
             b == [k \in DOMAIN t |-> k + 1]
  <2>1. IsFiniteSet(S) /\ S \subseteq DOMAIN t
    BY <1>2, FS_Subset DEF Batches, OfKind
  <2>2. \A k \in S : b[k] = k + 1 /\ v[k] \in Int /\ w[b[k]] = v[k]
    BY <1>2, <1>3, <2>1 DEF Batches, File, Bodies
  <2>3. \A x, y \in S : b[x] = b[y] => x = y
    BY <1>1, <2>1
  <2>4. {b[k] : k \in S} = OfKind(s, "traces") \ {1}
    <3>1. OfKind(s, "traces") \ {1} = {k + 1 : k \in S}
      BY <1>5
    <3>2. \A k \in S : b[k] = k + 1
      BY <2>2
    <3> HIDE DEF b, S
    <3> QED
      BY <3>1, <3>2
  <2>5. /\ Weight(s, OfKind(s, "traces") \ {1}) = SumFunctionOnSet(w, {b[k] : k \in S})
        /\ Weight(t, S) = SumFunctionOnSet(v, S)
    BY <2>4 DEF Weight
  <2> HIDE DEF w, v, S, b
  <2>6. SumFunctionOnSet(w, {b[k] : k \in S}) = SumFunctionOnSet(v, S)
    BY <2>1, <2>2, <2>3, SumMapped
  <2> QED
    BY <2>5, <2>6 DEF S
<1>8. TraceRecords(s) = (IF s[1].kind = "traces" THEN Len(s[1].body) ELSE 0) + TraceRecords(t)
      /\ TraceRecords(t) \in Nat
  <2>1. OfKind(s, "traces") \in SUBSET DOMAIN s /\ OfKind(t, "traces") \in SUBSET DOMAIN t
    BY DEF OfKind
  <2>2. Weight(t, OfKind(t, "traces")) \in Nat
    BY <1>2, <2>1, WeightParts
  <2>3. CASE s[1].kind = "traces"
    <3> DEFINE some == OfKind(s, "traces")
    <3>1. 1 \in some
      BY <1>1, <2>3 DEF OfKind
    <3>1a. some \in SUBSET DOMAIN s
      BY <2>1
    <3> HIDE DEF some
    <3>2b. Batches(s)
      BY <1>2
    <3>2c. \A e \in some : Weight(s, some) = Len(s[e].body) + Weight(s, some \ {e})
      BY <3>1a, <3>2b, WeightParts, Zenon
    <3>2a. Weight(s, some) = Len(s[1].body) + Weight(s, some \ {1})
      BY <3>1, <3>2c, Zenon
    <3>2. Weight(s, OfKind(s, "traces"))
            = Len(s[1].body) + Weight(s, OfKind(s, "traces") \ {1})
      BY <3>2a DEF some
    <3> QED
      BY <1>7, <2>2, <2>3, <3>2 DEF TraceRecords
  <2>4. CASE s[1].kind # "traces"
    <3>1. OfKind(s, "traces") \ {1} = OfKind(s, "traces")
      BY <2>4 DEF OfKind
    <3>2. TraceRecords(s) = TraceRecords(t) /\ TraceRecords(t) \in Nat
      BY <1>7, <2>2, <3>1 DEF TraceRecords
    <3> QED
      BY <2>4, <3>2
  <2> QED
    BY <2>3, <2>4
<1> QED
  BY <1>1, <1>2, <1>3, <1>4, <1>6, <1>8 DEF t

\* The halves of a batch in front of others: nothing is lost, doubled or empty.
Halved(new, kind, body, rest) ==
  /\ new \in Seq(File) /\ new # <<>>
  /\ \A k : CoveredIn(new, k) = (IF kind = k THEN Covered(body) ELSE {})
                                  \cup CoveredIn(rest, k)
  /\ TraceRecords(new) =
       (IF kind = "traces" THEN Len(body) ELSE 0) + TraceRecords(rest)
  /\ 1 \in DOMAIN new /\ 2 \in DOMAIN new
  /\ new[1].kind = kind /\ new[2].kind = kind
  /\ new[1].body # <<>> /\ new[2].body # <<>>
  /\ Covered(new[1].body) \cup Covered(new[2].body) = Covered(body)
  /\ Apart(body) => /\ Apart(new[1].body) /\ Apart(new[2].body)
                    /\ Covered(new[1].body) \cap Covered(new[2].body) = {}
  /\ \A k \in DOMAIN new :
       k \in {1, 2} \/ (k - 2 \in DOMAIN rest /\ new[k] = rest[k - 2])

\* What the halves of a batch are.
LEMMA HalvesParts ==
  ASSUME NEW kind \in Kinds, NEW body \in Bodies, Len(body) > 1, NEW rest \in Seq(File),
         NEW new, new = Halves(kind, body) \o rest
  PROVE  Halved(new, kind, body, rest)
<1> DEFINE n == Len(body)
           h == n \div 2
           a == SubSeq(body, 1, h)
           b == SubSeq(body, h + 1, n)
           x == [kind |-> kind, body |-> a]
           y == [kind |-> kind, body |-> b]
<1>1. n \in Nat /\ n > 1 /\ h \in 1 .. n - 1 /\ DOMAIN body = 1 .. n
      /\ \A i \in 1 .. n : body[i] \in SUBSET Traces
  BY DEF Bodies
<1>2. /\ a \in Bodies /\ Len(a) = h /\ DOMAIN a = 1 .. h
      /\ \A i \in 1 .. h : a[i] = body[i]
  BY <1>1 DEF Bodies
<1>3. /\ b \in Bodies /\ Len(b) = n - h /\ DOMAIN b = 1 .. n - h
      /\ \A i \in 1 .. n - h : b[i] = body[h + i]
  <2>1. b = SubSeq(body, h + 1, n)
    OBVIOUS
  <2> HIDE DEF b, n, h
  <2>2. n \in Int /\ h \in Int /\ h + 1 \in Int /\ h + 1 <= n
        /\ \A i \in h + 1 .. n : body[i] \in SUBSET Traces
    BY <1>1
  <2>3. /\ b \in Seq(SUBSET Traces)
        /\ Len(b) = IF h + 1 <= n THEN (n - (h + 1)) + 1 ELSE 0
        /\ \A i \in 1 .. (n - (h + 1)) + 1 : b[i] = body[((h + 1) + i) - 1]
    BY <2>1, <2>2, SubSeqProperties
  <2>4. (n - (h + 1)) + 1 = n - h /\ Len(b) = n - h
    BY <2>2, <2>3
  <2>5. \A i \in 1 .. n - h : i \in Int /\ ((h + 1) + i) - 1 = h + i
    BY <2>2
  <2>6. \A i \in 1 .. n - h : b[i] = body[h + i]
    BY <2>3, <2>4, <2>5
  <2>7. DOMAIN b = 1 .. n - h
    <3>1. \A q \in Seq(SUBSET Traces) : DOMAIN q = 1 .. Len(q)
      OBVIOUS
    <3> QED
      BY <2>3, <2>4, <3>1
  <2> QED
    BY <2>3, <2>4, <2>6, <2>7 DEF Bodies
<1>4. Halves(kind, body) = <<x, y>>
  BY DEF Halves
<1>5. x \in File /\ y \in File
  BY <1>2, <1>3 DEF File
<1> HIDE DEF n, h, a, b
<1>6. a # <<>> /\ b # <<>>
  <2>1. Len(a) # 0 /\ Len(b) # 0
    BY <1>1, <1>2, <1>3
  <2> QED
    BY <2>1, EmptySeq
<1>7. Covered(a) \cup Covered(b) = Covered(body)
  <2>1. ASSUME NEW i \in 1 .. n
        PROVE  (\E j \in DOMAIN a : a[j] = body[i]) \/ (\E j \in DOMAIN b : b[j] = body[i])
    <3>1. CASE i <= h
      <4>1. i \in DOMAIN a /\ a[i] = body[i]
        BY <1>1, <1>2, <3>1
      <4> QED
        BY <4>1
    <3>2. CASE ~(i <= h)
      <4>1. i - h \in 1 .. n - h /\ h + (i - h) = i
        BY <1>1, <3>2
      <4>2. b[i - h] = body[i]
        BY <1>3, <4>1
      <4> QED
        BY <1>3, <4>1, <4>2
    <3> QED
      BY <3>1, <3>2
  <2>2. \A j \in DOMAIN a : j \in 1 .. n /\ a[j] = body[j]
    BY <1>1, <1>2
  <2>3. \A j \in DOMAIN b : h + j \in 1 .. n /\ b[j] = body[h + j]
    BY <1>1, <1>3
  <2>4. \A t : (\E j \in DOMAIN a : t \in a[j]) \/ (\E j \in DOMAIN b : t \in b[j])
                 <=> \E i \in 1 .. n : t \in body[i]
    <3> QED
      BY <2>1, <2>2, <2>3
  <2> QED
    BY <1>1, <2>4 DEF Covered
<1>8. ASSUME Apart(body)
      PROVE  Apart(a) /\ Apart(b) /\ Covered(a) \cap Covered(b) = {}
  <2>1. \A i, j \in 1 .. n : i # j => body[i] \cap body[j] = {}
    BY <1>1, <1>8 DEF Apart
  <2>2. \A j \in DOMAIN a : j \in 1 .. n /\ a[j] = body[j] /\ j <= h
    BY <1>1, <1>2
  <2>3. \A j \in DOMAIN b : h + j \in 1 .. n /\ b[j] = body[h + j] /\ h + j > h /\ j \in Nat
    BY <1>1, <1>3
  <2>4. Apart(a)
    BY <2>1, <2>2 DEF Apart
  <2>5. Apart(b)
    <3> SUFFICES ASSUME NEW i \in DOMAIN b, NEW j \in DOMAIN b, i # j
                 PROVE  b[i] \cap b[j] = {}
      BY DEF Apart
    <3>1. h + i # h + j
      BY <1>1, <2>3
    <3> QED
      BY <2>1, <2>3, <3>1
  <2>6. \A i \in DOMAIN a, j \in DOMAIN b : a[i] \cap b[j] = {}
    <3> TAKE i \in DOMAIN a, j \in DOMAIN b
    <3>1. i # h + j
      BY <1>1, <2>2, <2>3
    <3> QED
      BY <2>1, <2>2, <2>3, <3>1
  <2>7. Covered(a) \cap Covered(b) = {}
    BY <2>6 DEF Covered
  <2> QED
    BY <2>4, <2>5, <2>7
<1>9. /\ new \in Seq(File) /\ Len(new) = Len(rest) + 2 /\ new[1] = x /\ new[2] = y
      /\ \A k \in 3 .. Len(new) : k - 2 \in 1 .. Len(rest) /\ new[k] = rest[k - 2]
      /\ Len(rest) \in Nat /\ DOMAIN rest = 1 .. Len(rest) /\ DOMAIN new = 1 .. Len(new)
  <2>1. <<x, y>> \in Seq(File)
    BY <1>5
  <2> HIDE DEF x, y
  <2> QED
    BY <1>4, <2>1
<1>10. new # <<>> /\ 1 \in DOMAIN new /\ 2 \in DOMAIN new
  BY <1>9
<1> DEFINE u == Tail(new)
<1>11. u \in Seq(File) /\ u # <<>> /\ Head(u) = y /\ Head(new) = x /\ Tail(u) = rest
  <2>1. u \in Seq(File) /\ Len(u) = Len(rest) + 1 /\ \A k \in 1 .. Len(u) : u[k] = new[k + 1]
    BY <1>9, <1>10
  <2>2. u # <<>> /\ Head(u) = u[1] /\ u[1] = new[2]
    <3>1. Len(u) # 0 /\ 1 \in 1 .. Len(u) /\ 1 + 1 = 2
      BY <1>9, <2>1
    <3> HIDE DEF u
    <3>2. u # <<>> /\ Head(u) = u[1]
      BY <2>1, <3>1, EmptySeq
    <3> QED
      BY <2>1, <3>1, <3>2
  <2>3. Tail(u) = rest
    <3>1. Tail(u) \in Seq(File) /\ Len(Tail(u)) = Len(rest)
          /\ \A k \in 1 .. Len(rest) : Tail(u)[k] = u[k + 1] /\ u[k + 1] = new[k + 2]
      BY <1>9, <2>1, <2>2
    <3>2. \A k \in 1 .. Len(rest) : new[k + 2] = rest[k]
      <4> TAKE k \in 1 .. Len(rest)
      <4>1. k + 2 \in 3 .. Len(new) /\ (k + 2) - 2 = k
        BY <1>9
      <4> QED
        BY <1>9, <4>1
    <3>3. \A k \in 1 .. Len(rest) : Tail(u)[k] = rest[k]
      BY <3>1, <3>2
    <3> QED
      BY <1>9, <3>1, <3>3, SeqEqual
  <2>4. Head(new) = new[1]
    BY <1>9, <1>10
  <2> HIDE DEF u, x, y
  <2> QED
    BY <1>9, <2>1, <2>2, <2>3, <2>4
<1> HIDE DEF u
<1>12. \A k : CoveredIn(new, k) = (IF kind = k THEN Covered(body) ELSE {})
                                    \cup CoveredIn(rest, k)
  <2> TAKE k
  <2>1. CoveredIn(new, k) =
          (IF Head(new).kind = k THEN Covered(Head(new).body) ELSE {}) \cup CoveredIn(u, k)
    BY <1>9, <1>10, HeadAndTail DEF u
  <2>2. CoveredIn(u, k) =
          (IF Head(u).kind = k THEN Covered(Head(u).body) ELSE {}) \cup CoveredIn(Tail(u), k)
    BY <1>11, HeadAndTail
  <2>3. /\ Head(new).kind = kind /\ Head(new).body = a
        /\ Head(u).kind = kind /\ Head(u).body = b
    <3>1. x.kind = kind /\ x.body = a /\ y.kind = kind /\ y.body = b
      OBVIOUS
    <3>2. Head(new) = x /\ Head(u) = y
      BY <1>11
    <3> HIDE DEF x, y
    <3> QED
      BY <3>1, <3>2
  <2> QED
    BY <1>7, <1>11, <2>1, <2>2, <2>3
<1>13. TraceRecords(new) = (IF kind = "traces" THEN Len(body) ELSE 0) + TraceRecords(rest)
  <2>1. TraceRecords(new) = (IF x.kind = "traces" THEN Len(x.body) ELSE 0) + TraceRecords(u)
    BY <1>9, <1>10, <1>11, HeadAndTail DEF u
  <2>2. TraceRecords(u) = (IF y.kind = "traces" THEN Len(y.body) ELSE 0) + TraceRecords(rest)
        /\ TraceRecords(rest) \in Nat
    BY <1>11, HeadAndTail
  <2>3. Len(a) = h /\ Len(b) = n - h
    BY <1>2, <1>3
  <2> HIDE DEF n, h
  <2>4. CASE kind = "traces"
    BY <1>1, <2>1, <2>2, <2>3, <2>4 DEF n
  <2>5. CASE kind # "traces"
    BY <2>1, <2>2, <2>5
  <2> QED
    BY <2>4, <2>5
<1>14. \A k \in DOMAIN new : k \in {1, 2} \/ (k - 2 \in DOMAIN rest /\ new[k] = rest[k - 2])
  <2> TAKE k \in DOMAIN new
  <2>1. k \in {1, 2} \/ k \in 3 .. Len(new)
    BY <1>9
  <2> QED
    BY <1>9, <2>1
<1>15. new[1].kind = kind /\ new[2].kind = kind /\ new[1].body = a /\ new[2].body = b
  BY <1>9
<1> HIDE DEF x, y
<1> QED
  BY <1>6, <1>7, <1>8, <1>9, <1>10, <1>12, <1>13, <1>14, <1>15 DEF Halved

\* What a body speaks of are traces.
LEMMA CoveredTyped ==
  /\ \A body \in Bodies : Covered(body) \subseteq Traces /\ IsFiniteSet(DOMAIN body)
  /\ \A files, kind : Batches(files) => CoveredIn(files, kind) \subseteq Traces
<1>1. ASSUME NEW body \in Bodies PROVE Covered(body) \subseteq Traces /\ IsFiniteSet(DOMAIN body)
  <2>1. Len(body) \in Nat /\ DOMAIN body = 1 .. Len(body)
        /\ \A i \in DOMAIN body : body[i] \in SUBSET Traces
    BY DEF Bodies
  <2>2. IsFiniteSet(1 .. Len(body))
    BY <2>1, FS_Interval
  <2> QED
    BY <2>1, <2>2 DEF Covered
<1>2. ASSUME NEW files, NEW kind, Batches(files) PROVE CoveredIn(files, kind) \subseteq Traces
  <2>1. \A id \in DOMAIN files : files[id].body \in Bodies
    BY <1>2 DEF Batches, File
  <2> QED
    BY <1>1, <2>1 DEF CoveredIn, CoveredBy, OfKind
<1> QED
  BY <1>1, <1>2

\* Files that are gone take their records along, and the others are what they were.
LeftOver(files, gone, kept) ==
  /\ DOMAIN kept = DOMAIN files \ gone
  /\ \A id \in DOMAIN kept : kept[id] = files[id]
  /\ kept \in [DOMAIN kept -> File]
  /\ Batches(kept)
  /\ \A kind : OfKind(kept, kind) = OfKind(files, kind) \ gone
  /\ \A kind : CoveredIn(files, kind) = CoveredIn(kept, kind)
       \cup CoveredBy(files, OfKind(files, kind) \cap gone)
  /\ TraceRecords(files) = TraceRecords(kept)
       + Weight(files, OfKind(files, "traces") \cap gone)
  /\ TraceRecords(kept) \in Nat

\* What is left when some files are removed.
LEMMA WithoutParts ==
  ASSUME NEW files, Batches(files), NEW gone, NEW kept, kept = Without(files, gone)
  PROVE  LeftOver(files, gone, kept)
<1>1. /\ DOMAIN kept = DOMAIN files \ gone
      /\ \A id \in DOMAIN kept : kept[id] = files[id]
      /\ kept = [id \in DOMAIN files \ gone |-> files[id]]
  BY DEF Without, Restrict
<1>2. Batches(kept)
  <2>1. IsFiniteSet(DOMAIN kept)
    BY <1>1, FS_Subset DEF Batches
  <2> QED
    BY <1>1, <2>1 DEF Batches
<1>3. kept \in [DOMAIN kept -> File]
  BY <1>1 DEF Batches
<1>4. \A kind : OfKind(kept, kind) = OfKind(files, kind) \ gone
  BY <1>1 DEF OfKind
<1>5. ASSUME NEW kind
      PROVE  CoveredIn(files, kind) = CoveredIn(kept, kind)
               \cup CoveredBy(files, OfKind(files, kind) \cap gone)
  <2>1. \A id \in OfKind(kept, kind) : kept[id] = files[id]
    BY <1>1 DEF OfKind
  <2> QED
    BY <1>4, <2>1 DEF CoveredIn, CoveredBy
<1>6. TraceRecords(files) = TraceRecords(kept)
        + Weight(files, OfKind(files, "traces") \cap gone)
  <2> DEFINE S == OfKind(files, "traces")
             P == S \cap gone
  <2>1. S \in SUBSET DOMAIN files /\ P \in SUBSET S /\ S \ P = S \ gone
        /\ S \ gone \subseteq DOMAIN kept /\ S \ gone \subseteq DOMAIN files
    BY <1>1 DEF OfKind
  <2>2. Weight(files, S) = Weight(files, P) + Weight(files, S \ P)
    BY <2>1, WeightParts
  <2>3. Weight(kept, S \ gone) = Weight(files, S \ gone)
    BY <1>1, <2>1, WeightSame
  <2>4. Weight(files, P) \in Nat /\ Weight(files, S \ P) \in Nat
    <3>1. P \in SUBSET DOMAIN files /\ S \ P \in SUBSET DOMAIN files
      BY <2>1
    <3> QED
      BY <3>1, WeightParts
  <2>5. TraceRecords(kept) = Weight(kept, S \ gone) /\ TraceRecords(files) = Weight(files, S)
    BY <1>4 DEF TraceRecords
  <2>6. TraceRecords(files) = TraceRecords(kept) + Weight(files, P)
    <3> HIDE DEF S, P
    <3> QED
      <4>1. Weight(files, S \ P) = Weight(files, S \ gone)
        BY <2>1
      <4> QED
        BY <2>2, <2>3, <2>4, <2>5, <4>1
  <2> QED
    BY <2>6
<1>7. TraceRecords(kept) \in Nat
  <2>1. OfKind(kept, "traces") \in SUBSET DOMAIN kept
    BY DEF OfKind
  <2> QED
    BY <1>2, <2>1, WeightParts DEF TraceRecords
<1> QED
  BY <1>1, <1>2, <1>3, <1>4, <1>5, <1>6, <1>7 DEF LeftOver

\* Storing a batch: it is on disk, or it or older batches of traces are known to be gone.
Buffered(after, kind, id, body) ==
  /\ DOMAIN after.kept \subseteq DOMAIN disk \cup {id} /\ Batches(after.kept)
  /\ after.kept \in [DOMAIN after.kept -> File]
  /\ \A j \in DOMAIN after.kept :
       after.kept[j] = IF j = id THEN [kind |-> kind, body |-> body] ELSE disk[j]
  /\ OfKind(after.kept, "aggregates") =
       OfKind(disk, "aggregates") \cup (IF kind = "aggregates" THEN {id} ELSE {})
  /\ CoveredIn(after.kept, "aggregates") =
       CoveredIn(disk, "aggregates")
         \cup (IF kind = "aggregates" THEN Covered(body) ELSE {})
  /\ CoveredIn(disk, "traces") \cup (IF kind = "traces" THEN Covered(body) ELSE {})
       \subseteq after.gone \cup CoveredIn(after.kept, "traces")
  /\ after.gone \subseteq Traces /\ after.count \in Nat
  /\ TraceRecords(after.kept) \in Nat
  /\ TraceRecords(after.kept) + after.count =
       TraceRecords(disk) + (IF kind = "traces" THEN Len(body) ELSE 0)

\* What Store leaves on disk.
LEMMA StoredParts ==
  ASSUME Batches(disk), NEW kind \in Kinds, NEW id \in Nat, id \notin DOMAIN disk,
         NEW body \in Bodies, NEW after, after = Stored(kind, id, body)
  PROVE  Buffered(after, kind, id, body)
<1> DEFINE files == [j \in DOMAIN disk \cup {id} |->
                       IF j = id THEN [kind |-> kind, body |-> body] ELSE disk[j]]
           gone == {j \in DOMAIN files :
                      /\ files[j].kind = "traces"
                      /\ Weight(files, {k \in DOMAIN files :
                                          files[k].kind # "traces" \/ k >= j}) > BufferMax}
<1>1. after = Remaining(files, gone)
  BY DEF Stored, Trim
<1>2. /\ DOMAIN files = DOMAIN disk \cup {id}
      /\ files[id] = [kind |-> kind, body |-> body]
      /\ \A j \in DOMAIN disk : files[j] = disk[j]
      /\ \A j \in DOMAIN files :
           files[j] = IF j = id THEN [kind |-> kind, body |-> body] ELSE disk[j]
  OBVIOUS
<1>3. gone \subseteq OfKind(files, "traces")
  BY DEF OfKind
<1> HIDE DEF files, gone
<1>4. /\ after.kept = Without(files, gone)
      /\ after.gone = CoveredBy(files, gone)
      /\ after.count = Weight(files, gone)
  BY <1>1 DEF Remaining
<1>5. Batches(files)
  <2>1. IsFiniteSet(DOMAIN files)
    BY <1>2, FS_AddElement DEF Batches
  <2>2. [kind |-> kind, body |-> body] \in File
    BY DEF File
  <2> QED
    BY <1>2, <2>1, <2>2 DEF Batches
<1> DEFINE kept == after.kept
<1> HIDE DEF kept
<1>6. LeftOver(files, gone, kept)
  BY <1>4, <1>5, WithoutParts DEF kept
<1>7. ASSUME NEW k
      PROVE  /\ OfKind(files, k) = OfKind(disk, k) \cup (IF kind = k THEN {id} ELSE {})
             /\ CoveredIn(files, k) = CoveredIn(disk, k)
                                        \cup (IF kind = k THEN Covered(body) ELSE {})
  <2>1. OfKind(files, k) = OfKind(disk, k) \cup (IF kind = k THEN {id} ELSE {})
    BY <1>2 DEF OfKind
  <2>2. \A j \in OfKind(disk, k) : files[j].body = disk[j].body
    BY <1>2 DEF OfKind
  <2>3. files[id].body = body
    BY <1>2
  <2> QED
    BY <2>1, <2>2, <2>3 DEF CoveredIn, CoveredBy
<1>8. TraceRecords(files) = TraceRecords(disk) + (IF kind = "traces" THEN Len(body) ELSE 0)
  <2> DEFINE D == OfKind(disk, "traces")
  <2>1. D \in SUBSET DOMAIN disk /\ D \subseteq DOMAIN files /\ D \in SUBSET DOMAIN files
        /\ id \notin D /\ \A j \in D : files[j].body = disk[j].body
    BY <1>2 DEF OfKind
  <2>2. Weight(files, D) = Weight(disk, D) /\ Weight(disk, D) \in Nat
    <3> HIDE DEF D
    <3> QED
      BY <2>1, WeightSame, WeightParts
  <2>3. CASE kind = "traces"
    <3>1. OfKind(files, "traces") = D \cup {id} /\ (D \cup {id}) \ {id} = D
      BY <1>7, <2>1, <2>3
    <3>2. D \cup {id} \in SUBSET DOMAIN files
      BY <1>2, <2>1
    <3> HIDE DEF D
    <3>3. Weight(files, D \cup {id}) = Len(files[id].body) + Weight(files, (D \cup {id}) \ {id})
      BY <1>5, <3>2, WeightParts
    <3>4. files[id].body = body
      BY <1>2
    <3>5. Len(body) \in Nat
      BY DEF Bodies
    <3>6. TraceRecords(files) = Weight(files, D \cup {id}) /\ TraceRecords(disk) = Weight(disk, D)
      BY <3>1 DEF TraceRecords, D
    <3>7. TraceRecords(files) = TraceRecords(disk) + Len(body)
      <4>1. Weight(files, (D \cup {id}) \ {id}) = Weight(files, D)
        BY <3>1
      <4> QED
        BY <2>2, <3>3, <3>4, <3>5, <3>6, <4>1
    <3> QED
      BY <2>3, <3>7
  <2>4. CASE kind # "traces"
    <3>1. OfKind(files, "traces") = D
      BY <1>7, <2>4
    <3>2. TraceRecords(files) = TraceRecords(disk) /\ TraceRecords(disk) \in Nat
      BY <2>2, <3>1 DEF TraceRecords
    <3> QED
      BY <2>4, <3>2
  <2> QED
    BY <2>3, <2>4
<1>9. OfKind(files, "aggregates") \cap gone = {} /\ OfKind(files, "traces") \cap gone = gone
  BY <1>3 DEF OfKind
<1>10. after.gone \subseteq Traces
  <2>1. \A j \in gone : files[j].body \in Bodies
    BY <1>3, <1>5 DEF Batches, File, OfKind
  <2> QED
    BY <1>4, <2>1, CoveredTyped DEF CoveredBy
<1>11. after.count \in Nat
  <2>1. gone \in SUBSET DOMAIN files
    BY <1>3 DEF OfKind
  <2> QED
    BY <1>4, <1>5, <2>1, WeightParts
<1>12. CoveredIn(kept, "aggregates") = CoveredIn(files, "aggregates")
       /\ OfKind(kept, "aggregates") = OfKind(files, "aggregates")
  <2>1. CoveredBy(files, OfKind(files, "aggregates") \cap gone) = {}
    BY <1>9 DEF CoveredBy
  <2>2. CoveredIn(kept, "aggregates") = CoveredIn(files, "aggregates")
    BY <1>6, <2>1 DEF LeftOver
  <2>3. OfKind(kept, "aggregates") = OfKind(files, "aggregates") \ gone
    BY <1>6 DEF LeftOver
  <2> QED
    BY <1>9, <2>2, <2>3
<1>13. CoveredIn(files, "traces") = CoveredIn(kept, "traces") \cup after.gone
  BY <1>4, <1>6, <1>9 DEF LeftOver
<1>14. TraceRecords(files) = TraceRecords(kept) + after.count
  BY <1>4, <1>6, <1>9 DEF LeftOver
<1>15. /\ DOMAIN kept \subseteq DOMAIN disk \cup {id}
       /\ \A j \in DOMAIN kept :
            kept[j] = IF j = id THEN [kind |-> kind, body |-> body] ELSE disk[j]
  BY <1>2, <1>6 DEF LeftOver
<1> QED
  BY <1>6, <1>7, <1>8, <1>10, <1>11, <1>12, <1>13, <1>14, <1>15 DEF kept, LeftOver, Buffered

\* No files, no records.
LEMMA EmptyParts ==
  /\ \A kind : CoveredIn(<<>>, kind) = {}
  /\ TraceRecords(<<>>) = 0
  /\ Covered(<<>>) = {}
<1>1. \A kind : OfKind(<<>>, kind) = {}
  BY DEF OfKind
<1>2. Batches(<<>>)
  BY FS_EmptySet DEF Batches
<1>3. TraceRecords(<<>>) = 0
  BY <1>1, <1>2, WeightParts DEF TraceRecords
<1> QED
  BY <1>1, <1>3 DEF CoveredIn, CoveredBy, Covered

\* The directory is one of batches.
LEMMA DiskBatches ==
  ASSUME TypeOK
  PROVE  /\ Batches(disk) /\ TraceRecords(disk) \in Nat
         /\ \A id \in DOMAIN disk : id \in Nat /\ disk[id] \in File /\ disk[id].body \in Bodies
<1>1. Batches(disk) /\ \A id \in DOMAIN disk : id \in Nat /\ disk[id] \in File
  BY DEF TypeOK, BufferTypeOK, Batches
<1>2. OfKind(disk, "traces") \in SUBSET DOMAIN disk
  BY DEF OfKind
<1> QED
  BY <1>1, <1>2, WeightParts DEF TraceRecords, File

\* So is what the sender has still to send.
LEMMA SeqBatches ==
  ASSUME NEW s \in Seq(File)
  PROVE  Batches(s) /\ TraceRecords(s) \in Nat
<1>1. IsFiniteSet(1 .. Len(s)) /\ DOMAIN s = 1 .. Len(s)
  BY FS_Interval
<1>2. Batches(s)
  BY <1>1 DEF Batches
<1>3. OfKind(s, "traces") \in SUBSET DOMAIN s
  BY DEF OfKind
<1> QED
  BY <1>2, <1>3, WeightParts DEF TraceRecords

\* The records of a request whose files are removed, less those in files that are left.
Removing ==
  IF pc = "remove" /\ req.kind = "traces" THEN Len(req.body) - Weight(disk, Range(req.files)) ELSE 0

\* What is held, as a sum.
LEMMA HeldSum ==
  /\ Held = Len(pending) + TraceRecords(todo) + TraceRecords(disk) + Removing
  /\ Held' = Len(pending') + TraceRecords(todo') + TraceRecords(disk') + Removing'
BY DEF Held, Removing

\* What is held is counted in naturals.
LEMMA HeldParts ==
  ASSUME ShipperInv
  PROVE  /\ Len(pending) \in Nat /\ TraceRecords(todo) \in Nat /\ TraceRecords(disk) \in Nat
         /\ Len(req.body) \in Nat /\ Weight(disk, Range(req.files)) \in Nat
         /\ sent \in Nat /\ dropped \in Nat /\ trimmed \in Nat /\ entered \in Nat
         /\ Held \in Int /\ Removing \in Int
<1>1. TypeOK
  BY DEF ShipperInv
<1>2. Range(req.files) \in SUBSET DOMAIN disk
  BY DEF ShipperInv, RequestOK, OfKind
<1>3. Weight(disk, Range(req.files)) \in Nat /\ TraceRecords(disk) \in Nat
  BY <1>1, <1>2, DiskBatches, WeightParts
<1>4. TraceRecords(todo) \in Nat
  BY <1>1, SeqBatches DEF TypeOK
<1>5. Len(pending) \in Nat /\ Len(req.body) \in Nat
  BY <1>1 DEF TypeOK, Bodies
<1>6. Removing \in Int
  BY <1>3, <1>5 DEF Removing
<1>7. Held \in Int
  BY <1>3, <1>4, <1>5, <1>6, HeldSum
<1> QED
  BY <1>1, <1>3, <1>4, <1>5, <1>6, <1>7 DEF TypeOK, BufferTypeOK

\* The accounts are kept by what moves records from one place to another.
LEMMA AccountsKept ==
  ASSUME ShipperInv, TypeOK', phase # "down", plan => plan',
         NEW more \in Int, Held' = Held + more,
         \/ (sent' + dropped' + trimmed' + more) - entered' = (sent + dropped + trimmed) - entered
         \/ /\ plan'
            /\ (sent' + dropped' + trimmed' + more) - entered'
                 <= (sent + dropped + trimmed) - entered
  PROVE  Accounted'
<1>1. /\ sent \in Nat /\ dropped \in Nat /\ trimmed \in Nat /\ entered \in Nat
      /\ sent' \in Nat /\ dropped' \in Nat /\ trimmed' \in Nat /\ entered' \in Nat
  BY DEF ShipperInv, TypeOK, BufferTypeOK
<1>2. Held \in Int
  BY HeldParts
<1>3. /\ sent + dropped + trimmed + Held <= entered
      /\ plan \/ sent + dropped + trimmed + Held = entered
  BY DEF ShipperInv, Accounted
<1>4. phase' # "down" =>
        /\ sent' + dropped' + trimmed' + Held' <= entered'
        /\ plan' \/ sent' + dropped' + trimmed' + Held' = entered'
  <2> DEFINE a == sent + dropped + trimmed
             b == sent' + dropped' + trimmed'
             h == Held
             e == entered
             f == entered'
  <2>1. a \in Int /\ b \in Int /\ h \in Int /\ e \in Int /\ f \in Int
    BY <1>1, <1>2
  <2>2. /\ a + h <= e
        /\ plan \/ a + h = e
        /\ (b + more) - f = a - e \/ (plan' /\ (b + more) - f <= a - e)
        /\ Held' = h + more
    BY <1>3
  <2> HIDE DEF a, b, h, e, f
  <2>3. b + (h + more) <= f /\ (plan' \/ b + (h + more) = f)
    <3>1. CASE (b + more) - f = a - e
      <4>1. (b + (h + more)) - f = (a + h) - e
        BY <2>1, <3>1
      <4>2. b + (h + more) <= f
        BY <2>1, <2>2, <4>1
      <4>3. a + h = e => b + (h + more) = f
        BY <2>1, <4>1
      <4> QED
        BY <2>2, <4>2, <4>3
    <3>2. CASE plan' /\ (b + more) - f <= a - e
      BY <2>1, <2>2, <3>2
    <3> QED
      BY <2>2, <3>1, <3>2
  <2> QED
    BY <2>2, <2>3 DEF b, f
<1> QED
  BY <1>4 DEF Accounted

\* What a step adds to what is pending, still to send, on disk or being removed, and to the
\* counters.
Moves(a, b, c, d, u, v, w, e) ==
  /\ Len(pending') = Len(pending) + a /\ TraceRecords(todo') = TraceRecords(todo) + b
  /\ TraceRecords(disk') = TraceRecords(disk) + c /\ Removing' = Removing + d
  /\ sent' = sent + u /\ dropped' = dropped + v /\ trimmed' = trimmed + w
  /\ entered' = entered + e

\* What stays moves by nothing.
LEMMA Still ==
  ASSUME ShipperInv
  PROVE  /\ Len(pending) = Len(pending) + 0 /\ TraceRecords(todo) = TraceRecords(todo) + 0
         /\ TraceRecords(disk) = TraceRecords(disk) + 0
         /\ sent = sent + 0 /\ dropped = dropped + 0 /\ trimmed = trimmed + 0
         /\ entered = entered + 0
BY HeldParts

\* A step that touches nothing that is counted moves by nothing.
LEMMA NothingMoves ==
  ASSUME ShipperInv, Removing' = Removing,
         UNCHANGED <<pending, todo, disk, sent, dropped, trimmed, entered>>
  PROVE  Moves(0, 0, 0, 0, 0, 0, 0, 0)
<1>1. Removing \in Int
  BY HeldParts, Zenon
<1>2. Removing' = Removing + 0
  BY <1>1
<1>3. Len(pending') = Len(pending) /\ TraceRecords(todo') = TraceRecords(todo)
      /\ TraceRecords(disk') = TraceRecords(disk)
  OBVIOUS
<1> QED
  BY <1>2, <1>3, Still, Zenon DEF Moves

\* The accounts balance.
LEMMA MovesKept ==
  ASSUME ShipperInv, TypeOK', phase # "down", plan => plan',
         NEW a \in Int, NEW b \in Int, NEW c \in Int, NEW d \in Int,
         NEW u \in Int, NEW v \in Int, NEW w \in Int, NEW e \in Int, Moves(a, b, c, d, u, v, w, e),
         a + b + c + d + u + v + w = e \/ (plan' /\ a + b + c + d + u + v + w <= e)
  PROVE  Accounted'
<1>1. Held' = Held + (a + b + c + d)
  <2> DEFINE x == Len(pending)
             y == TraceRecords(todo)
             z == TraceRecords(disk)
             r == Removing
  <2>1. x \in Int /\ y \in Int /\ z \in Int /\ r \in Int
    BY HeldParts
  <2>2. Held = x + y + z + r /\ Held' = (x + a) + (y + b) + (z + c) + (r + d)
    BY HeldSum DEF Moves
  <2> HIDE DEF x, y, z, r
  <2> QED
    BY <2>1, <2>2
<1> DEFINE n == a + b + c + d
<1>2. n \in Int
  OBVIOUS
<1>3. sent \in Int /\ dropped \in Int /\ trimmed \in Int /\ entered \in Int
      /\ sent' = sent + u /\ dropped' = dropped + v /\ trimmed' = trimmed + w
      /\ entered' = entered + e
  BY HeldParts DEF Moves
<1>4. n + u + v + w = e \/ (plan' /\ n + u + v + w <= e)
  OBVIOUS
<1>5. Held' = Held + n
  BY <1>1
<1> HIDE DEF n
<1>6. \/ (sent' + dropped' + trimmed' + n) - entered' = (sent + dropped + trimmed) - entered
      \/ /\ plan'
         /\ (sent' + dropped' + trimmed' + n) - entered' <= (sent + dropped + trimmed) - entered
  <2>1. CASE n + u + v + w = e
    BY <1>2, <1>3, <2>1
  <2>2. CASE plan' /\ n + u + v + w <= e
    BY <1>2, <1>3, <2>2
  <2> QED
    BY <1>4, <2>1, <2>2
<1> QED
  BY <1>2, <1>5, <1>6, AccountsKept

-----------------------------------------------------------------------------
(* What a step leaves alone                                                 *)

ProcTyped ==
  /\ phase \in {"down", "run", "stopping", "final"}
  /\ lives \in 0 .. MaxLives /\ faults \in 0 .. MaxFaults /\ clock \in Minutes
  /\ auth \in BOOLEAN /\ plan \in BOOLEAN /\ backing \in BOOLEAN

IntakeTyped ==
  /\ observed \in 0 .. MaxTraces
  /\ pending \in Seq(Traces)
  /\ minutes \in [Minutes -> SUBSET Traces]
  /\ entered \in Nat
  /\ late \subseteq Traces

SendTyped ==
  /\ pc \in {"idle", "flush", "send", "wait", "store", "replay", "remove"}
  /\ job \in {"traces", "aggregates", "replay"}
  /\ todo \in Seq(File)
  /\ req \in [kind : Kinds, id : Nat, body : Bodies, files : Seq(Nat),
              verdict : {"none", "ok", "large", "refused", "later"}]
  /\ list \in Seq(Nat)
  /\ ids \in Nat

ConsoleTyped == known \subseteq Nat /\ arrived \subseteq Traces /\ counted \in [Traces -> Nat]

LossTyped == forgone \subseteq Traces /\ missing \in [Traces -> Reasons]

\* The types are those of the groups of variables, and a group that is left alone keeps its.
LEMMA TypeFrames ==
  ASSUME TypeOK
  PROVE  /\ ProcTyped /\ IntakeTyped /\ SendTyped /\ ConsoleTyped /\ LossTyped /\ BufferTypeOK
         /\ UNCHANGED <<procVars, faults, clock, flagVars>> => ProcTyped'
         /\ UNCHANGED intakeVars => IntakeTyped'
         /\ UNCHANGED sendVars => SendTyped'
         /\ UNCHANGED consoleVars => ConsoleTyped'
         /\ UNCHANGED lossVars => LossTyped'
         /\ UNCHANGED bufferVars => BufferTypeOK'
         /\ UNCHANGED countVars => sent' \in Nat /\ dropped' \in Nat
         /\ ProcTyped' /\ IntakeTyped' /\ SendTyped' /\ ConsoleTyped' /\ LossTyped'
              /\ BufferTypeOK' /\ sent' \in Nat /\ dropped' \in Nat => TypeOK'
<1>1. ProcTyped /\ IntakeTyped /\ SendTyped /\ ConsoleTyped /\ LossTyped /\ BufferTypeOK
      /\ sent \in Nat /\ dropped \in Nat
  BY DEF TypeOK, ProcTyped, IntakeTyped, SendTyped, ConsoleTyped, LossTyped
<1>2. UNCHANGED <<procVars, faults, clock, flagVars>> => ProcTyped'
  BY <1>1 DEF ProcTyped, procVars, flagVars
<1>3. UNCHANGED intakeVars => IntakeTyped'
  BY <1>1 DEF IntakeTyped, intakeVars
<1>4. UNCHANGED sendVars => SendTyped'
  BY <1>1 DEF SendTyped, sendVars
<1>5. UNCHANGED consoleVars => ConsoleTyped'
  BY <1>1 DEF ConsoleTyped, consoleVars
<1>6. UNCHANGED lossVars => LossTyped'
  BY <1>1 DEF LossTyped, lossVars
<1>7. UNCHANGED bufferVars => BufferTypeOK'
  BY <1>1 DEF BufferTypeOK, bufferVars
<1>8. UNCHANGED countVars => sent' \in Nat /\ dropped' \in Nat
  BY <1>1 DEF countVars
<1>9. ProcTyped' /\ IntakeTyped' /\ SendTyped' /\ ConsoleTyped' /\ LossTyped'
        /\ BufferTypeOK' /\ sent' \in Nat /\ dropped' \in Nat => TypeOK'
  BY DEF TypeOK, ProcTyped, IntakeTyped, SendTyped, ConsoleTyped, LossTyped
<1> QED
  BY <1>1, <1>2, <1>3, <1>4, <1>5, <1>6, <1>7, <1>8, <1>9

\* A part of the invariant that speaks of nothing a step changes is kept.
LEMMA Frames ==
  ASSUME ShipperInv
  PROVE  /\ UNCHANGED <<pc, todo, req, job, phase, disk>> => ControlOK'
         /\ (phase' # "down"
              \/ UNCHANGED <<phase, pc, pending, minutes, plan, sent, dropped, trimmed>>)
              => DownOK'
         /\ UNCHANGED <<disk, known, req, ids, list>> /\ (pc' = pc \/ pc' \notin {"wait", "store"})
              => IdsOK'
         /\ UNCHANGED <<req, disk, known>> /\ (pc' = pc \/ pc' # "wait") => RequestOK'
         /\ req'.files = <<>> => RequestOK'
         /\ UNCHANGED <<known, disk, arrived, counted>>
              /\ (UNCHANGED <<pc, req>> \/ pc' \notin {"store", "remove"}) => HeardOK'
         /\ UNCHANGED <<minutes, todo, disk, observed>> => InOnePlace'
         /\ UNCHANGED <<counted, observed, minutes, todo, known, disk>>
              /\ (UNCHANGED <<pc, req>> \/ pc # "store") => CountedOK'
         /\ UNCHANGED <<late, observed>>
              /\ (UNCHANGED <<phase, job, pending, minutes>>
                    \/ phase' # "final" \/ job' # "aggregates")
              => LateOK'
         /\ UNCHANGED <<observed, counted, missing, todo, pending, minutes, disk, arrived, forgone>>
              /\ (UNCHANGED <<pc, req>> \/ pc # "remove") => NothingLost'
         /\ UNCHANGED <<sent, dropped, trimmed, pending, todo, disk, entered, plan>>
              /\ (phase' = phase \/ phase # "down")
              /\ (UNCHANGED <<pc, req>> \/ (pc # "remove" /\ pc' # "remove")) => Accounted'
<1>1. UNCHANGED <<pc, todo, req, job, phase, disk>> => ControlOK'
  BY DEF ShipperInv, ControlOK
<1>2. (phase' # "down" \/ UNCHANGED <<phase, pc, pending, minutes, plan, sent, dropped, trimmed>>)
        => DownOK'
  BY DEF ShipperInv, DownOK, InMinutes
<1>3. UNCHANGED <<disk, known, req, ids, list>> /\ (pc' = pc \/ pc' \notin {"wait", "store"})
        => IdsOK'
  BY DEF ShipperInv, IdsOK
<1>4. UNCHANGED <<req, disk, known>> /\ (pc' = pc \/ pc' # "wait") => RequestOK'
  BY DEF ShipperInv, RequestOK
<1>5. req'.files = <<>> => RequestOK'
  BY DEF ShipperInv, RequestOK, Range
<1>6. UNCHANGED <<known, disk, arrived, counted>>
        /\ (UNCHANGED <<pc, req>> \/ pc' \notin {"store", "remove"}) => HeardOK'
  BY DEF ShipperInv, HeardOK, Heard
<1>7. UNCHANGED <<minutes, todo, disk, observed>> => InOnePlace'
  BY DEF ShipperInv, InOnePlace, InMinutes
<1>8. UNCHANGED <<counted, observed, minutes, todo, known, disk>>
        /\ (UNCHANGED <<pc, req>> \/ pc # "store") => CountedOK'
  BY DEF ShipperInv, CountedOK, InMinutes, AggregatesOnce
<1>9. UNCHANGED <<late, observed>>
        /\ (UNCHANGED <<phase, job, pending, minutes>> \/ phase' # "final" \/ job' # "aggregates")
        => LateOK'
  BY DEF ShipperInv, LateOK, InMinutes
<1>10. UNCHANGED <<observed, counted, missing, todo, pending, minutes, disk, arrived, forgone>>
         /\ (UNCHANGED <<pc, req>> \/ pc # "remove") => NothingLost'
  <2> SUFFICES ASSUME UNCHANGED <<observed, counted, missing, todo, pending, minutes, disk,
                                  arrived, forgone>>,
                      UNCHANGED <<pc, req>> \/ pc # "remove"
               PROVE  NothingLost'
    OBVIOUS
  <2>1. ASSUME NEW kind PROVE InMemory(kind) \subseteq InMemory(kind)'
    BY DEF InMemory, InMinutes
  <2>2. AggregatesKept'
    BY <2>1 DEF ShipperInv, NothingLost, AggregatesKept
  <2>3. TracesKept'
    BY <2>1 DEF ShipperInv, NothingLost, TracesKept
  <2> QED
    BY <2>2, <2>3 DEF NothingLost
<1>11. UNCHANGED <<sent, dropped, trimmed, pending, todo, disk, entered, plan>>
         /\ (phase' = phase \/ phase # "down")
         /\ (UNCHANGED <<pc, req>> \/ (pc # "remove" /\ pc' # "remove")) => Accounted'
  BY DEF ShipperInv, Accounted, Held
<1> QED
  BY <1>1, <1>2, <1>3, <1>4, <1>5, <1>6, <1>7, <1>8, <1>9, <1>10, <1>11

\* A minute passes.
LEMMA ClockTickKeeps ==
  ASSUME ShipperInv, ClockTick
  PROVE  ShipperInv'
<1> USE DEF procVars, flagVars, intakeVars, sendVars, countVars, consoleVars, lossVars, bufferVars
<1>1. TypeOK'
  <2>1. TypeOK
    BY DEF ShipperInv
  <2>2. UNCHANGED intakeVars
        /\ UNCHANGED sendVars
        /\ UNCHANGED consoleVars
        /\ UNCHANGED lossVars
        /\ UNCHANGED bufferVars
        /\ UNCHANGED countVars
    BY DEF ClockTick
  <2>3. ProcTyped'
    BY <2>1, ShipperAssumption, TypeFrames DEF Minutes, ClockTick, ProcTyped, procVars, flagVars
  <2> QED
    BY <2>1, <2>2, <2>3, TypeFrames
<1>2. ControlOK'
  BY DEF ShipperInv, ClockTick, ControlOK
<1>3. DownOK' /\ IdsOK' /\ RequestOK' /\ HeardOK' /\ InOnePlace' /\ CountedOK'
  BY Frames DEF ClockTick
<1>4. LateOK' /\ NothingLost' /\ Accounted'
  BY Frames DEF ClockTick
<1> QED
  BY <1>1, <1>2, <1>3, <1>4 DEF ShipperInv

\* The back-off is over.
LEMMA BackoffOverKeeps ==
  ASSUME ShipperInv, BackoffOver
  PROVE  ShipperInv'
<1> USE DEF procVars, flagVars, intakeVars, sendVars, countVars, consoleVars, lossVars, bufferVars
<1>1. TypeOK'
  <2>1. TypeOK
    BY DEF ShipperInv
  <2>2. UNCHANGED intakeVars
        /\ UNCHANGED sendVars
        /\ UNCHANGED consoleVars
        /\ UNCHANGED lossVars
        /\ UNCHANGED bufferVars
        /\ UNCHANGED countVars
    BY DEF BackoffOver
  <2>3. ProcTyped'
    BY <2>1, TypeFrames DEF BackoffOver, ProcTyped, procVars, flagVars
  <2> QED
    BY <2>1, <2>2, <2>3, TypeFrames
<1>2. ControlOK'
  BY DEF ShipperInv, BackoffOver, ControlOK
<1>3. DownOK' /\ IdsOK' /\ RequestOK' /\ HeardOK' /\ InOnePlace' /\ CountedOK'
  BY Frames DEF BackoffOver
<1>4. LateOK' /\ NothingLost' /\ Accounted'
  BY Frames DEF BackoffOver
<1> QED
  BY <1>1, <1>2, <1>3, <1>4 DEF ShipperInv

\* done is closed.
LEMMA StopKeeps ==
  ASSUME ShipperInv, Stop
  PROVE  ShipperInv'
<1> USE DEF procVars, flagVars, intakeVars, sendVars, countVars, consoleVars, lossVars, bufferVars
<1>1. TypeOK'
  <2>1. TypeOK
    BY DEF ShipperInv
  <2>2. UNCHANGED intakeVars
        /\ UNCHANGED sendVars
        /\ UNCHANGED consoleVars
        /\ UNCHANGED lossVars
        /\ UNCHANGED bufferVars
        /\ UNCHANGED countVars
    BY DEF Stop
  <2>3. ProcTyped'
    BY <2>1, TypeFrames DEF Stop, ProcTyped, procVars, flagVars
  <2> QED
    BY <2>1, <2>2, <2>3, TypeFrames
<1>2. ControlOK'
  BY DEF ShipperInv, Stop, ControlOK
<1>3. DownOK' /\ IdsOK' /\ RequestOK' /\ HeardOK' /\ InOnePlace' /\ CountedOK'
  BY Frames DEF Stop
<1>4. LateOK' /\ NothingLost' /\ Accounted'
  BY Frames DEF Stop
<1> QED
  BY <1>1, <1>2, <1>3, <1>4 DEF ShipperInv

\* The sender begins to flush traces.
LEMMA TraceTickKeeps ==
  ASSUME ShipperInv, TraceTick
  PROVE  ShipperInv'
<1> USE DEF procVars, flagVars, intakeVars, sendVars, countVars, consoleVars, lossVars, bufferVars
<1>1. TypeOK'
  <2>1. TypeOK
    BY DEF ShipperInv
  <2>2. UNCHANGED <<procVars, faults, clock, flagVars>>
        /\ UNCHANGED intakeVars
        /\ UNCHANGED consoleVars
        /\ UNCHANGED lossVars
        /\ UNCHANGED bufferVars
        /\ UNCHANGED countVars
    BY DEF TraceTick, flushing
  <2>3. SendTyped'
    BY <2>1, TypeFrames DEF TraceTick, flushing, SendTyped, sendVars
  <2> QED
    BY <2>1, <2>2, <2>3, TypeFrames
<1>2. ControlOK'
  BY DEF ShipperInv, TraceTick, flushing, ControlOK
<1>3. DownOK' /\ IdsOK' /\ RequestOK' /\ HeardOK' /\ InOnePlace' /\ CountedOK'
  BY Frames DEF TraceTick, flushing
<1>4. LateOK' /\ NothingLost' /\ Accounted'
  BY Frames DEF TraceTick, flushing
<1> QED
  BY <1>1, <1>2, <1>3, <1>4 DEF ShipperInv

\* The list of files is at its end.
LEMMA ReplayDoneKeeps ==
  ASSUME ShipperInv, ReplayDone
  PROVE  ShipperInv'
<1> USE DEF procVars, flagVars, intakeVars, sendVars, countVars, consoleVars, lossVars, bufferVars
<1>1. TypeOK'
  <2>1. TypeOK
    BY DEF ShipperInv
  <2>2. UNCHANGED <<procVars, faults, clock, flagVars>>
        /\ UNCHANGED intakeVars
        /\ UNCHANGED consoleVars
        /\ UNCHANGED lossVars
        /\ UNCHANGED bufferVars
        /\ UNCHANGED countVars
    BY DEF ReplayDone, replaying
  <2>3. SendTyped'
    BY <2>1, TypeFrames DEF ReplayDone, replaying, SendTyped, sendVars
  <2> QED
    BY <2>1, <2>2, <2>3, TypeFrames
<1>2. ControlOK'
  BY DEF ShipperInv, ReplayDone, replaying, ControlOK
<1>3a. phase # "down" /\ phase' = phase
  BY DEF ShipperInv, DownOK, ReplayDone, replaying, procVars
<1>3. DownOK' /\ IdsOK' /\ RequestOK' /\ HeardOK' /\ InOnePlace' /\ CountedOK'
  BY <1>3a, Frames DEF ReplayDone, replaying
<1>4. LateOK' /\ NothingLost' /\ Accounted'
  BY Frames DEF ReplayDone, replaying
<1> QED
  BY <1>1, <1>2, <1>3, <1>4 DEF ShipperInv

\* The main goroutine takes over from the sender.
LEMMA LastFlushKeeps ==
  ASSUME ShipperInv, LastFlush
  PROVE  ShipperInv'
<1> USE DEF procVars, flagVars, intakeVars, sendVars, countVars, consoleVars, lossVars, bufferVars
<1>1. TypeOK'
  <2>1. TypeOK
    BY DEF ShipperInv
  <2>2. UNCHANGED intakeVars
        /\ UNCHANGED consoleVars
        /\ UNCHANGED lossVars
        /\ UNCHANGED bufferVars
        /\ UNCHANGED countVars
    BY DEF LastFlush
  <2>3. ProcTyped'
    BY <2>1, TypeFrames DEF LastFlush, ProcTyped, procVars, flagVars
  <2>4. SendTyped'
    BY <2>1, TypeFrames DEF LastFlush, SendTyped, sendVars
  <2> QED
    BY <2>1, <2>2, <2>3, <2>4, TypeFrames
<1>2. ControlOK'
  BY DEF ShipperInv, LastFlush, ControlOK
<1>3. DownOK' /\ IdsOK' /\ RequestOK' /\ HeardOK' /\ InOnePlace' /\ CountedOK'
  BY Frames DEF LastFlush
<1>4. LateOK' /\ NothingLost' /\ Accounted'
  BY Frames DEF LastFlush
<1> QED
  BY <1>1, <1>2, <1>3, <1>4 DEF ShipperInv

\* A process begins with what is on its disk.
LEMMA LaunchKeeps ==
  ASSUME ShipperInv, Launch
  PROVE  ShipperInv'
<1> USE DEF procVars, flagVars, intakeVars, sendVars, countVars, consoleVars, lossVars, bufferVars
<1>1. TypeOK'
  <2>1. TypeOK
    BY DEF ShipperInv
  <2>2. UNCHANGED sendVars
        /\ UNCHANGED consoleVars
        /\ UNCHANGED lossVars
        /\ UNCHANGED bufferVars
        /\ UNCHANGED countVars
    BY DEF Launch
  <2>3. ProcTyped'
    BY <2>1, ShipperAssumption, TypeFrames DEF Launch, ProcTyped, procVars, flagVars
  <2>4. IntakeTyped'
    <3>1. TraceRecords(disk) \in Nat
      BY <2>1, DiskBatches
    <3> QED
      BY <2>1, <3>1, TypeFrames DEF Launch, IntakeTyped, intakeVars
  <2> QED
    BY <2>1, <2>2, <2>3, <2>4, TypeFrames
<1>2. ControlOK'
  BY DEF ShipperInv, Launch, ControlOK
<1>3. DownOK' /\ IdsOK' /\ RequestOK' /\ HeardOK' /\ InOnePlace' /\ CountedOK'
  BY Frames DEF Launch
<1>4. LateOK' /\ NothingLost'
  BY Frames DEF Launch
<1>5. Accounted'
  <2>1. /\ sent = 0 /\ dropped = 0 /\ trimmed = 0 /\ pending = <<>> /\ pc = "idle" /\ todo = <<>>
        /\ UNCHANGED <<sent, dropped, trimmed, pending, pc, todo, disk, plan>>
        /\ entered' = TraceRecords(disk)
    BY DEF ShipperInv, DownOK, ControlOK, Launch
  <2>2. TraceRecords(disk) \in Nat
    BY DiskBatches DEF ShipperInv
  <2>3. Held' = TraceRecords(disk)
    BY <2>1, <2>2, EmptyParts DEF Held
  <2> QED
    BY <2>1, <2>2, <2>3 DEF Accounted
<1> QED
  BY <1>1, <1>2, <1>3, <1>4, <1>5 DEF ShipperInv

\* The sender lists the buffer.
LEMMA ReplayTickKeeps ==
  ASSUME ShipperInv, ReplayTick
  PROVE  ShipperInv'
<1> USE DEF procVars, flagVars, intakeVars, sendVars, countVars, consoleVars, lossVars, bufferVars
<1>1. TypeOK /\ phase \in {"run", "stopping"} /\ pc = "idle" /\ pc' = "replay" /\ job' = "replay"
      /\ list' = InOrder(DOMAIN disk) /\ req = NoBatch /\ todo = <<>>
      /\ UNCHANGED <<procVars, faults, clock, intakeVars, flagVars, todo, req, ids, countVars,
                     consoleVars, lossVars, bufferVars>>
  BY DEF ShipperInv, ReplayTick, ControlOK
<1>2. /\ list' \in Seq(Nat)
      /\ \A k, l \in DOMAIN list' : list'[k] = list'[l] => k = l
  <2>1. DOMAIN disk \in SUBSET Nat /\ IsFiniteSet(DOMAIN disk)
    BY <1>1 DEF TypeOK, BufferTypeOK
  <2>2. InOrder(DOMAIN disk) \in Seq(DOMAIN disk)
        /\ \A k, l \in DOMAIN InOrder(DOMAIN disk) :
             InOrder(DOMAIN disk)[k] = InOrder(DOMAIN disk)[l] => k = l
    BY <2>1, OrderParts
  <2> QED
    BY <1>1, <2>1, <2>2
<1>3. TypeOK'
  <2>1. SendTyped'
    BY <1>1, <1>2, TypeFrames DEF SendTyped
  <2>2. UNCHANGED <<procVars, faults, clock, flagVars>> /\ UNCHANGED intakeVars
        /\ UNCHANGED consoleVars /\ UNCHANGED lossVars /\ UNCHANGED bufferVars
        /\ UNCHANGED countVars
    BY <1>1
  <2> QED
    BY <1>1, <2>1, <2>2, TypeFrames
<1>4. ControlOK'
  BY <1>1 DEF ShipperInv, ControlOK
<1>5. IdsOK'
  BY <1>1, <1>2 DEF ShipperInv, IdsOK
<1>6. DownOK' /\ RequestOK' /\ HeardOK' /\ InOnePlace' /\ CountedOK'
  BY <1>1, Frames
<1>7. LateOK' /\ NothingLost' /\ Accounted'
  BY <1>1, Frames
<1> QED
  BY <1>3, <1>4, <1>5, <1>6, <1>7 DEF ShipperInv

\* A batch gets an id of its own, which neither the console nor the disk has.
LEMMA SendKeeps ==
  ASSUME ShipperInv, Send
  PROVE  ShipperInv'
<1> USE DEF procVars, flagVars, intakeVars, sendVars, countVars, consoleVars, lossVars, bufferVars
<1>1. /\ TypeOK /\ pc = "send" /\ pc' \in {"wait", "store"} /\ ids' = ids + 1
      /\ todo # <<>>
      /\ req' = [NoBatch EXCEPT !.kind = Head(todo).kind, !.id = ids + 1,
                                !.body = Head(todo).body]
      /\ UNCHANGED <<procVars, faults, clock, intakeVars, flagVars, job, todo, list, countVars,
                     consoleVars, lossVars, bufferVars>>
  BY DEF ShipperInv, Send, ControlOK, Deliver, NoBatch
<1>2. /\ Head(todo) \in File
      /\ req'.kind = Head(todo).kind /\ req'.body = Head(todo).body /\ req'.id = ids + 1
      /\ req'.files = <<>> /\ req'.verdict = "none"
  <2>1. Head(todo) \in File
    BY <1>1, HeadAndTail DEF TypeOK
  <2> QED
    BY <1>1, <2>1 DEF NoBatch
<1>3. TypeOK'
  <2>1. SendTyped'
    <3>1. /\ ids \in Nat /\ <<>> \in Seq(Nat)
          /\ Head(todo).kind \in Kinds /\ Head(todo).body \in Bodies
      BY <1>1, <1>2 DEF TypeOK, File
    <3> QED
      <4>1. /\ NoBatch.files = <<>> /\ NoBatch.verdict = "none"
            /\ req' = [kind |-> Head(todo).kind, id |-> ids + 1, body |-> Head(todo).body,
                       files |-> <<>>, verdict |-> "none"]
        BY <1>1 DEF NoBatch
      <4>2. req' \in [kind : Kinds, id : Nat, body : Bodies, files : Seq(Nat),
                      verdict : {"none", "ok", "large", "refused", "later"}]
        BY <3>1, <4>1
      <4> QED
        BY <1>1, <3>1, <4>2, TypeFrames DEF SendTyped
  <2>2. UNCHANGED <<procVars, faults, clock, flagVars>> /\ UNCHANGED intakeVars
        /\ UNCHANGED consoleVars /\ UNCHANGED lossVars /\ UNCHANGED bufferVars
        /\ UNCHANGED countVars
    BY <1>1
  <2> QED
    BY <1>1, <2>1, <2>2, TypeFrames
<1>4. ControlOK'
  BY <1>1, <1>2 DEF ShipperInv, ControlOK
<1>5. IdsOK'
  <2>1. \A id \in DOMAIN disk \cup known : id <= ids /\ id \in Nat
    BY <1>1 DEF ShipperInv, IdsOK, TypeOK, BufferTypeOK
  <2>2. ids \in Nat
    BY <1>1 DEF TypeOK
  <2>3. req'.id \notin DOMAIN disk /\ req'.id \notin known
    BY <1>2, <2>1, <2>2
  <2> QED
    BY <1>1, <1>2, <2>1, <2>2, <2>3 DEF ShipperInv, IdsOK
<1>6. HeardOK'
  <2>1. req'.id \notin known
    <3>1. \A id \in known : id <= ids /\ id \in Nat
      BY <1>1 DEF ShipperInv, IdsOK, TypeOK
    <3>2. ids \in Nat
      BY <1>1 DEF TypeOK
    <3> QED
      BY <1>2, <3>1, <3>2
  <2> QED
    BY <1>1, <1>2, <2>1 DEF ShipperInv, HeardOK, Heard
<1>7. DownOK' /\ RequestOK' /\ InOnePlace' /\ CountedOK'
  <2>1. phase' # "down"
    BY <1>1 DEF ShipperInv, DownOK
  <2> QED
    BY <1>1, <1>2, <2>1, Frames
<1>8. LateOK' /\ NothingLost' /\ Accounted'
  BY <1>1, Frames
<1> QED
  BY <1>3, <1>4, <1>5, <1>6, <1>7, <1>8 DEF ShipperInv

\* A trace is counted, and kept to be sent or given up.
LEMMA ObserveKeeps ==
  ASSUME ShipperInv, NEW m \in Minutes, NEW ship \in BOOLEAN, Observe(m, ship)
  PROVE  ShipperInv'
<1> USE DEF procVars, flagVars, intakeVars, sendVars, countVars, consoleVars, lossVars, bufferVars
<1> DEFINE new == observed + 1
<1>1. /\ TypeOK /\ phase # "down" /\ observed < MaxTraces /\ observed' = new
      /\ minutes' = [minutes EXCEPT ![m] = minutes[m] \cup {new}]
      /\ late' = IF phase = "final" THEN late \cup {new} ELSE late
      /\ \/ pending' = Append(pending, new) /\ entered' = entered + 1 /\ forgone' = forgone
         \/ UNCHANGED <<pending, entered>> /\ forgone' = forgone \cup {new}
      /\ UNCHANGED <<procVars, faults, clock, flagVars, sendVars, countVars, consoleVars,
                     missing, bufferVars>>
  BY DEF ShipperInv, Observe
<1>2. observed \in Nat /\ new \in Traces /\ new \in Nat /\ new \notin 1 .. observed
      /\ 1 .. new = (1 .. observed) \cup {new} /\ new <= MaxTraces
  <2>1. observed \in Nat /\ MaxTraces \in Nat /\ observed < MaxTraces
    BY <1>1, BufferAssumption DEF TypeOK
  <2> QED
    BY <2>1 DEF Traces
<1> HIDE DEF new
<1>3. TypeOK'
  <2>1. IntakeTyped'
    <3>1. observed' \in 0 .. MaxTraces
      BY <1>1, <1>2, BufferAssumption
    <3> QED
      <4>1. pending' \in Seq(Traces) /\ entered' \in Nat
        <5>1. pending \in Seq(Traces) /\ entered \in Nat
          BY <1>1 DEF TypeOK
        <5>2. Append(pending, new) \in Seq(Traces)
          BY <1>2, <5>1
        <5> QED
          BY <1>1, <5>1, <5>2
      <4>2. minutes' \in [Minutes -> SUBSET Traces]
        BY <1>1, <1>2, TypeFrames DEF IntakeTyped
      <4>3. late' \subseteq Traces
        BY <1>1, <1>2, TypeFrames DEF IntakeTyped
      <4> QED
        BY <3>1, <4>1, <4>2, <4>3 DEF IntakeTyped
  <2>2. LossTyped'
    BY <1>1, <1>2, TypeFrames DEF LossTyped
  <2>3. UNCHANGED <<procVars, faults, clock, flagVars>> /\ UNCHANGED sendVars
        /\ UNCHANGED consoleVars /\ UNCHANGED bufferVars /\ UNCHANGED countVars
    BY <1>1
  <2> QED
    BY <1>1, <2>1, <2>2, <2>3, TypeFrames
<1>4. minutes \in [Minutes -> SUBSET Traces] /\ pending \in Seq(Traces)
  BY <1>1 DEF TypeOK
<1>5. /\ minutes'[m] = minutes[m] \cup {new}
      /\ \A n \in Minutes : n # m => minutes'[n] = minutes[n]
      /\ InMinutes' = InMinutes \cup {new}
  <2>1. minutes'[m] = minutes[m] \cup {new} /\ \A n \in Minutes : n # m => minutes'[n] = minutes[n]
    BY <1>1, <1>4
  <2> QED
    BY <2>1 DEF InMinutes
<1>6. InMinutes \cup CoveredIn(todo, "aggregates") \cup CoveredIn(disk, "aggregates")
        \subseteq 1 .. observed
  BY DEF ShipperInv, InOnePlace
<1>7. InOnePlace'
  <2>1. new \notin InMinutes /\ new \notin CoveredIn(todo, "aggregates")
        /\ new \notin CoveredIn(disk, "aggregates")
    BY <1>2, <1>6
  <2>2. \A k, n \in Minutes : k # n => minutes'[k] \cap minutes'[n] = {}
    <3>1. \A n \in Minutes : new \notin minutes[n]
      BY <2>1 DEF InMinutes
    <3> QED
      BY <1>5, <3>1 DEF ShipperInv, InOnePlace
  <2>3. /\ InMinutes' \cap CoveredIn(todo', "aggregates") = {}
        /\ InMinutes' \cap CoveredIn(disk', "aggregates") = {}
        /\ InMinutes' \cup CoveredIn(todo', "aggregates") \cup CoveredIn(disk', "aggregates")
             \subseteq 1 .. observed'
    BY <1>1, <1>2, <1>5, <2>1 DEF ShipperInv, InOnePlace
  <2> QED
    BY <1>1, <2>2, <2>3 DEF ShipperInv, InOnePlace
<1>8. counted[new] = 0
  <2>1. counted[new] \in Nat /\ ~(new <= observed)
    BY <1>1, <1>2 DEF TypeOK, new
  <2>2. counted[new] > 0 => new <= observed
    BY <1>2 DEF ShipperInv, CountedOK
  <2> QED
    BY <2>1, <2>2
<1>9. CountedOK'
  <2>1. \A t \in Traces : counted[t] > 0 => t <= new
    BY <1>1, <1>2 DEF ShipperInv, CountedOK, Traces
  <2> QED
    BY <1>1, <1>5, <1>8, <2>1 DEF ShipperInv, CountedOK, AggregatesOnce
<1>10. /\ Range(pending) \subseteq Range(pending')
       /\ Range(pending') \subseteq Range(pending) \cup {new}
       /\ new \in Range(pending') \cup forgone'
  <2>1. CASE pending' = Append(pending, new)
    BY <1>4, <2>1 DEF Range
  <2>2. CASE pending' = pending /\ forgone' = forgone \cup {new}
    BY <2>2
  <2> QED
    BY <1>1, <2>1, <2>2
<1>11. LateOK'
  BY <1>1, <1>2, <1>5, <1>10 DEF ShipperInv, LateOK
<1>12. NothingLost'
  <2>1. ASSUME NEW kind PROVE InMemory(kind) \subseteq InMemory(kind)'
    BY <1>1, <1>5, <1>10 DEF InMemory
  <2>2. new \in InMemory("aggregates")' /\ new \in forgone' \cup InMemory("traces")'
    BY <1>5, <1>10 DEF InMemory
  <2>3. AggregatesKept'
    BY <1>1, <1>2, <2>1, <2>2 DEF ShipperInv, NothingLost, AggregatesKept
  <2>4. TracesKept'
    BY <1>1, <1>2, <2>1, <2>2 DEF ShipperInv, NothingLost, TracesKept
  <2> QED
    BY <2>3, <2>4 DEF NothingLost
<1>13. Accounted'
  <2> DEFINE more == entered' - entered
  <2>1. more \in Int /\ Len(pending') = Len(pending) + more /\ entered' = entered + more
    <3>1. entered \in Nat /\ Len(pending) \in Nat
      BY HeldParts, Zenon
    <3>2. \/ entered' = entered + 1 /\ Len(pending') = Len(pending) + 1
          \/ entered' = entered /\ Len(pending') = Len(pending)
      BY <1>1, <1>4
    <3> QED
      BY <3>1, <3>2
  <2>2. Removing' = Removing
    BY <1>1 DEF Removing
  <2> HIDE DEF more
  <2>2a. Removing \in Int
    BY HeldParts, Zenon
  <2>2b. Removing' = Removing + 0
    BY <2>2, <2>2a
  <2>2c. /\ TraceRecords(todo') = TraceRecords(todo) /\ TraceRecords(disk') = TraceRecords(disk)
         /\ sent' = sent /\ dropped' = dropped /\ trimmed' = trimmed
    BY <1>1
  <2>3. Moves(more, 0, 0, 0, 0, 0, 0, more)
    BY <2>1, <2>2b, <2>2c, Still, Zenon DEF Moves
  <2>4. more + 0 + 0 + 0 + 0 + 0 + 0 = more /\ phase # "down" /\ TypeOK' /\ (plan => plan')
        /\ 0 \in Int
    BY <1>1, <1>3, <2>1
  <2> QED
    BY <2>1, <2>3, <2>4, MovesKept, Zenon
<1>14. ControlOK' /\ DownOK' /\ IdsOK' /\ RequestOK' /\ HeardOK'
  BY <1>1, Frames
<1> QED
  BY <1>3, <1>7, <1>9, <1>11, <1>12, <1>13, <1>14 DEF ShipperInv

\* One batch.
LEMMA OneBatch ==
  ASSUME NEW b \in File
  PROVE  /\ <<b>> \in Seq(File) /\ DOMAIN <<b>> = {1} /\ <<b>>[1] = b /\ <<b>> # <<>>
         /\ \A kind : CoveredIn(<<b>>, kind) = IF b.kind = kind THEN Covered(b.body) ELSE {}
         /\ TraceRecords(<<b>>) = IF b.kind = "traces" THEN Len(b.body) ELSE 0
<1> DEFINE s == <<b>>
<1>1. s \in Seq(File) /\ s # <<>> /\ DOMAIN s = {1} /\ s[1] = b /\ Head(s) = b /\ Tail(s) = <<>>
  OBVIOUS
<1>2. Len(b.body) \in Nat
  BY DEF File, Bodies
<1> HIDE DEF s
<1>3. /\ \A kind : CoveredIn(s, kind) =
           (IF Head(s).kind = kind THEN Covered(Head(s).body) ELSE {}) \cup CoveredIn(Tail(s), kind)
      /\ TraceRecords(s) =
           (IF Head(s).kind = "traces" THEN Len(Head(s).body) ELSE 0) + TraceRecords(Tail(s))
  BY <1>1, HeadAndTail
<1>4. \A kind : CoveredIn(s, kind) = IF b.kind = kind THEN Covered(b.body) ELSE {}
  BY <1>1, <1>3, EmptyParts
<1>5. TraceRecords(s) = IF b.kind = "traces" THEN Len(b.body) ELSE 0
  <2>1. TraceRecords(Tail(s)) = 0
    BY <1>1, EmptyParts
  <2>2. TraceRecords(s) = (IF b.kind = "traces" THEN Len(b.body) ELSE 0) + 0
    BY <1>1, <1>3, <2>1
  <2> QED
    BY <1>2, <2>2
<1> QED
  BY <1>1, <1>4, <1>5 DEF s

\* Pending traces become a batch.
LEMMA NextBatchKeeps ==
  ASSUME ShipperInv, NextBatch
  PROVE  ShipperInv'
<1> USE DEF procVars, flagVars, intakeVars, sendVars, countVars, consoleVars, lossVars, bufferVars
<1> DEFINE n == IF Len(pending) <= BatchMax THEN Len(pending) ELSE BatchMax
           body == [k \in 1 .. n |-> {pending[k]}]
           b == [kind |-> "traces", body |-> body]
<1>1. /\ TypeOK /\ pc = "flush" /\ pending # <<>> /\ pc' = "send" /\ todo' = <<b>>
      /\ pending' = SubSeq(pending, n + 1, Len(pending))
      /\ todo = <<>> /\ req = NoBatch /\ job = "traces" /\ phase # "down"
      /\ UNCHANGED <<procVars, faults, clock, observed, entered, late, flagVars, req, list, ids,
                     countVars, consoleVars, lossVars, bufferVars, job, minutes>>
  BY DEF ShipperInv, NextBatch, ControlOK, DownOK, flushing
<1>2. /\ pending \in Seq(Traces) /\ Len(pending) \in Nat \ {0} /\ n \in 1 .. Len(pending)
      /\ n \in Nat
  <2>1. pending \in Seq(Traces) /\ Len(pending) \in Nat
    BY <1>1 DEF TypeOK
  <2>2. Len(pending) # 0
    BY <1>1, <2>1, EmptySeq
  <2> QED
    BY <2>1, <2>2, ShipperAssumption
<1> HIDE DEF n
<1>3. /\ pending' \in Seq(Traces) /\ Len(pending') = Len(pending) - n
      /\ \A k \in 1 .. Len(pending) - n : pending'[k] = pending[n + k]
  BY <1>1, <1>2
<1>4. body \in Bodies /\ Len(body) = n /\ body # <<>> /\ DOMAIN body = 1 .. n
  <2>1. \A k \in 1 .. n : {pending[k]} \in SUBSET Traces
    BY <1>2
  <2>2. body \in Seq(SUBSET Traces) /\ Len(body) = n /\ DOMAIN body = 1 .. n
    BY <1>2, <2>1
  <2>3. body # <<>>
    BY <1>2, <2>2, EmptySeq
  <2> QED
    BY <2>2, <2>3 DEF Bodies
<1>5. Range(pending) = Covered(body) \cup Range(pending')
  <2>1. \A k \in 1 .. n : body[k] = {pending[k]}
    OBVIOUS
  <2> HIDE DEF body
  <2>2. Covered(body) = {pending[k] : k \in 1 .. n}
    BY <1>4, <2>1 DEF Covered
  <2>3. Range(pending) = {pending[k] : k \in 1 .. Len(pending)}
    BY <1>2 DEF Range
  <2>4. Range(pending') = {pending'[k] : k \in 1 .. Len(pending) - n}
    BY <1>2, <1>3 DEF Range
  <2>5. \A k \in 1 .. Len(pending) :
          k \in 1 .. n \/ (k - n \in 1 .. Len(pending) - n /\ pending'[k - n] = pending[k])
    BY <1>2, <1>3
  <2>6. \A k \in 1 .. Len(pending) - n : n + k \in 1 .. Len(pending) /\ pending'[k] = pending[n + k]
    BY <1>2, <1>3
  <2>7. 1 .. n \subseteq 1 .. Len(pending)
    BY <1>2
  <2> QED
    BY <2>2, <2>3, <2>4, <2>5, <2>6, <2>7
<1> HIDE DEF body
<1>6. b \in File /\ b.kind = "traces" /\ b.body = body
  BY <1>4 DEF File, Kinds
<1> HIDE DEF b
<1>7. /\ todo' \in Seq(File) /\ DOMAIN todo' = {1} /\ todo'[1] = b /\ todo' # <<>>
      /\ CoveredIn(todo', "traces") = Covered(body) /\ CoveredIn(todo', "aggregates") = {}
      /\ TraceRecords(todo') = n
  BY <1>1, <1>4, <1>6, OneBatch
<1>8. TypeOK'
  <2>1. SendTyped'
    BY <1>1, <1>7, TypeFrames DEF SendTyped
  <2>2. IntakeTyped'
    BY <1>1, <1>3, TypeFrames DEF IntakeTyped
  <2>3. UNCHANGED <<procVars, faults, clock, flagVars>> /\ UNCHANGED lossVars
        /\ UNCHANGED consoleVars /\ UNCHANGED bufferVars /\ UNCHANGED countVars
    BY <1>1
  <2> QED
    BY <1>1, <2>1, <2>2, <2>3, TypeFrames
<1>9. ControlOK'
  BY <1>1, <1>4, <1>6, <1>7 DEF ShipperInv, ControlOK
<1>10. DownOK' /\ IdsOK' /\ RequestOK' /\ HeardOK' /\ LateOK'
  <2>1. IdsOK' /\ RequestOK' /\ HeardOK'
    BY <1>1, Frames
  <2>2. DownOK'
    BY <1>1, Frames
  <2>3. LateOK'
    BY <1>1, Frames
  <2> QED
    BY <2>1, <2>2, <2>3
<1>11. /\ CoveredIn(todo, "aggregates") = {} /\ CoveredIn(todo, "traces") = {}
       /\ TraceRecords(todo) = 0
       /\ InMinutes' = InMinutes
  BY <1>1, EmptyParts DEF InMinutes
<1>12. InOnePlace'
  BY <1>1, <1>6, <1>7, <1>11 DEF ShipperInv, InOnePlace
<1>13. CountedOK'
  BY <1>1, <1>6, <1>7, <1>11 DEF ShipperInv, CountedOK, AggregatesOnce
<1>14. NothingLost'
  <2>1. InMemory("traces")' = InMemory("traces") /\ InMemory("aggregates")' = InMemory("aggregates")
    BY <1>1, <1>5, <1>7, <1>11 DEF InMemory
  <2>2. AggregatesKept'
    BY <1>1, <2>1 DEF ShipperInv, NothingLost, AggregatesKept
  <2>3. TracesKept'
    BY <1>1, <2>1 DEF ShipperInv, NothingLost, TracesKept
  <2> QED
    BY <2>2, <2>3 DEF NothingLost
<1>15. Accounted'
  <2> DEFINE m == 0 - n
  <2>1. m \in Int /\ n \in Int /\ m + n = 0 /\ Len(pending') = Len(pending) + m
    <3>1. n \in Nat /\ Len(pending) \in Nat /\ Len(pending') = Len(pending) - n
      BY <1>2, <1>3
    <3> QED
      BY <3>1
  <2>1a. TraceRecords(todo') = TraceRecords(todo) + n
    BY <1>2, <1>7, <1>11
  <2>2. Removing' = Removing
    BY <1>1 DEF Removing
  <2> HIDE DEF m
  <2>2a. Removing \in Int
    BY HeldParts, Zenon
  <2>2b. Removing' = Removing + 0
    BY <2>2, <2>2a
  <2>2c. /\ TraceRecords(disk') = TraceRecords(disk) /\ entered' = entered
         /\ sent' = sent /\ dropped' = dropped /\ trimmed' = trimmed
    BY <1>1
  <2>3. Moves(m, n, 0, 0, 0, 0, 0, 0)
    BY <2>1, <2>1a, <2>2b, <2>2c, Still, Zenon DEF Moves
  <2>4. m + n + 0 + 0 + 0 + 0 + 0 = 0 /\ phase # "down" /\ TypeOK' /\ (plan => plan')
        /\ 0 \in Int
    BY <1>1, <1>8, <2>1
  <2> QED
    BY <2>1, <2>3, <2>4, MovesKept, Zenon
<1> QED
  BY <1>8, <1>9, <1>10, <1>12, <1>13, <1>14, <1>15 DEF ShipperInv

\* What flushAggregates takes is in no minute any more, each minute a record.
LEMMA TakeMinutesKeeps ==
  ASSUME ShipperInv, NEW which \in SUBSET Minutes, TakeMinutes(which),
         \/ pc = "idle" /\ phase \in {"run", "stopping"}
         \/ pc = "flush" /\ phase = "final" /\ pending = <<>> /\ which = Minutes
  PROVE  ShipperInv'
<1> USE DEF procVars, flagVars, intakeVars, sendVars, countVars, consoleVars, lossVars, bufferVars
<1> DEFINE some == {m \in which : minutes[m] # {}}
           order == InOrder(some)
           body == [k \in 1 .. Len(order) |-> minutes[order[k]]]
           b == [kind |-> "aggregates", body |-> body]
           taken == UNION {minutes[m] : m \in which}
<1>1. /\ TypeOK
      /\ \/ order = <<>> /\ pc' = "idle" /\ todo' = todo
         \/ order # <<>> /\ pc' = "send" /\ todo' = <<b>>
      /\ minutes' = [m \in Minutes |-> IF m \in which THEN {} ELSE minutes[m]]
      /\ job' = "aggregates"
      /\ UNCHANGED <<procVars, faults, clock, observed, entered, late, flagVars, req, list, ids,
                     countVars, consoleVars, lossVars, bufferVars, pending>>
  BY DEF ShipperInv, TakeMinutes, flushing
<1>2. todo = <<>> /\ req = NoBatch /\ phase # "down"
  BY DEF ShipperInv, ControlOK, DownOK
<1>3. some \in SUBSET Nat /\ IsFiniteSet(some)
  <2>1. IsFiniteSet(Minutes) /\ Minutes \in SUBSET Nat
    BY ShipperAssumption, FS_Interval DEF Minutes
  <2>2. some \in SUBSET Minutes
    OBVIOUS
  <2> HIDE DEF some
  <2> QED
    BY <2>1, <2>2, FS_Subset
<1>4. /\ order \in Seq(some) /\ Range(order) = some
      /\ \A i, j \in DOMAIN order : order[i] = order[j] => i = j
  <2> HIDE DEF some
  <2> QED
    BY <1>3, OrderParts
<1> HIDE DEF order
<1>5. minutes \in [Minutes -> SUBSET Traces]
  BY <1>1 DEF TypeOK
<1>6. body \in Bodies /\ DOMAIN body = DOMAIN order /\ (order # <<>> => body # <<>>)
      /\ \A k \in DOMAIN order : body[k] = minutes[order[k]] /\ order[k] \in which
  <2>1. Len(order) \in Nat /\ DOMAIN order = 1 .. Len(order)
        /\ \A k \in DOMAIN order : order[k] \in some
    BY <1>4
  <2>2. body \in Seq(SUBSET Traces) /\ Len(body) = Len(order) /\ DOMAIN body = 1 .. Len(order)
    BY <1>5, <2>1
  <2> QED
    BY <2>1, <2>2, EmptySeq DEF Bodies
<1> HIDE DEF body
<1>7. Covered(body) = taken
  <2>1. \A m \in which : minutes[m] # {} => \E k \in DOMAIN order : order[k] = m
    BY <1>4 DEF Range
  <2> QED
    BY <1>6, <2>1 DEF Covered
<1>8. Apart(body)
  <2>1. \A m, n \in Minutes : m # n => minutes[m] \cap minutes[n] = {}
    BY DEF ShipperInv, InOnePlace
  <2> QED
    BY <1>4, <1>6, <2>1 DEF Apart
<1>9. /\ InMinutes = InMinutes' \cup taken /\ InMinutes' \cap taken = {}
      /\ \A m, n \in Minutes : m # n => minutes'[m] \cap minutes'[n] = {}
      /\ which = Minutes => InMinutes' = {}
  <2>1. \A m, n \in Minutes : m # n => minutes[m] \cap minutes[n] = {}
    BY DEF ShipperInv, InOnePlace
  <2>2. \A m \in Minutes : minutes'[m] = IF m \in which THEN {} ELSE minutes[m]
    BY <1>1
  <2> QED
    BY <2>1, <2>2 DEF InMinutes
<1>10. b \in File /\ b.kind = "aggregates" /\ b.body = body
  BY <1>6 DEF File, Kinds
<1> HIDE DEF b
<1>11. /\ CoveredIn(todo, "aggregates") = {} /\ CoveredIn(todo, "traces") = {}
       /\ TraceRecords(todo) = 0
  BY <1>2, EmptyParts
<1>12. order = <<>> => taken = {}
  <2>1. order = <<>> => Range(order) = {}
    BY DEF Range
  <2> QED
    BY <1>4, <2>1
<1> HIDE DEF some, taken
<1>13. /\ todo' \in Seq(File) /\ CoveredIn(todo', "traces") = {}
       /\ CoveredIn(todo', "aggregates") = taken /\ TraceRecords(todo') = 0
       /\ \A k \in DOMAIN todo' : k = 1 /\ todo'[k] = b
       /\ order # <<>> => todo' # <<>>
  <2>1. CASE order = <<>>
    <3>1. todo' = <<>> /\ DOMAIN todo' = {} /\ todo' \in Seq(File)
      BY <1>1, <1>2, <2>1
    <3>2. CoveredIn(todo', "traces") = {} /\ CoveredIn(todo', "aggregates") = {}
          /\ TraceRecords(todo') = 0
      BY <3>1, EmptyParts
    <3> QED
      BY <1>12, <2>1, <3>1, <3>2
  <2>2. CASE order # <<>>
    BY <1>1, <1>7, <1>10, <2>2, OneBatch
  <2> QED
    BY <2>1, <2>2
<1>14. TypeOK'
  <2>1. SendTyped'
    BY <1>1, <1>13, TypeFrames DEF SendTyped
  <2>2. IntakeTyped'
    <3>1. minutes' \in [Minutes -> SUBSET Traces]
      BY <1>1, <1>5
    <3> QED
      BY <1>1, <3>1, TypeFrames DEF IntakeTyped
  <2>3. UNCHANGED <<procVars, faults, clock, flagVars>> /\ UNCHANGED lossVars
        /\ UNCHANGED consoleVars /\ UNCHANGED bufferVars /\ UNCHANGED countVars
    BY <1>1
  <2> QED
    BY <1>1, <2>1, <2>2, <2>3, TypeFrames
<1>15. ControlOK'
  <2>1. \A k \in DOMAIN todo' : todo'[k].body # <<>>
    <3>1. CASE order = <<>>
      BY <1>1, <1>2, <3>1
    <3>2. CASE order # <<>>
      BY <1>6, <1>10, <1>13, <3>2
    <3> QED
      BY <3>1, <3>2
  <2>2. pc' = "idle" => todo' = <<>>
    BY <1>1, <1>2
  <2> QED
    BY <1>1, <1>2, <1>13, <2>1, <2>2 DEF ShipperInv, ControlOK
<1>16. DownOK' /\ IdsOK' /\ RequestOK' /\ HeardOK'
  BY <1>1, <1>2, Frames
<1>17. InOnePlace'
  <2>1. \A k \in DOMAIN todo' : Apart(todo'[k].body)
    BY <1>8, <1>10, <1>13
  <2> QED
    BY <1>1, <1>9, <1>11, <1>13, <2>1 DEF ShipperInv, InOnePlace
<1>18. CountedOK'
  <2>1. \A t \in taken : counted[t] = 0
    BY <1>9 DEF ShipperInv, CountedOK
  <2> QED
    BY <1>1, <1>7, <1>9, <1>10, <1>13, <2>1 DEF ShipperInv, CountedOK, AggregatesOnce
<1>19. LateOK'
  <2>1. phase = "final" => Range(pending) = {} /\ InMinutes' = {}
    BY <1>9 DEF Range
  <2> QED
    BY <1>1, <2>1 DEF ShipperInv, LateOK
<1>20. NothingLost'
  <2>1. InMemory("traces")' = InMemory("traces") /\ InMemory("aggregates")' = InMemory("aggregates")
    BY <1>1, <1>2, <1>9, <1>11, <1>13 DEF InMemory, NoBatch, Covered
  <2>2. AggregatesKept'
    BY <1>1, <2>1 DEF ShipperInv, NothingLost, AggregatesKept
  <2>3. TracesKept'
    BY <1>1, <2>1 DEF ShipperInv, NothingLost, TracesKept
  <2> QED
    BY <2>2, <2>3 DEF NothingLost
<1>21. Accounted'
  <2>1. Removing' = Removing
    BY <1>1 DEF Removing
  <2>2. Held' = Held + 0
    BY <1>1, <1>11, <1>13, <2>1, HeldParts, HeldSum
  <2> QED
    BY <1>1, <1>2, <1>14, <2>2, HeldParts, AccountsKept
<1> QED
  BY <1>14, <1>15, <1>16, <1>17, <1>18, <1>19, <1>20, <1>21 DEF ShipperInv

\* No trace is pending.
LEMMA FlushDoneKeeps ==
  ASSUME ShipperInv, FlushDone
  PROVE  ShipperInv'
<1> USE DEF procVars, flagVars, intakeVars, sendVars, countVars, consoleVars, lossVars, bufferVars
<1>1. CASE phase = "final"
  BY <1>1, TakeMinutesKeeps DEF FlushDone
<1>2. CASE phase # "final"
  <2>1. /\ TypeOK /\ pc = "flush" /\ pc' = "idle" /\ phase # "down" /\ req = NoBatch
        /\ UNCHANGED <<procVars, faults, clock, intakeVars, flagVars, job, todo, req, list, ids,
                       countVars, consoleVars, lossVars, bufferVars>>
    BY <1>2 DEF FlushDone, flushing, ShipperInv, ControlOK, DownOK
  <2>2. TypeOK'
    <3>1. SendTyped'
      BY <2>1, TypeFrames DEF SendTyped
    <3>2. UNCHANGED <<procVars, faults, clock, flagVars>> /\ UNCHANGED intakeVars
          /\ UNCHANGED consoleVars /\ UNCHANGED lossVars /\ UNCHANGED bufferVars
          /\ UNCHANGED countVars
      BY <2>1
    <3> QED
      BY <2>1, <3>1, <3>2, TypeFrames
  <2>3. ControlOK'
    BY <1>2, <2>1 DEF ShipperInv, ControlOK
  <2>4. DownOK' /\ IdsOK' /\ RequestOK' /\ HeardOK' /\ InOnePlace' /\ CountedOK'
    BY <2>1, Frames
  <2>5. LateOK' /\ NothingLost' /\ Accounted'
    BY <1>2, <2>1, Frames
  <2> QED
    BY <2>2, <2>3, <2>4, <2>5 DEF ShipperInv
<1> QED
  BY <1>1, <1>2

\* Minutes that are over become a batch.
LEMMA AggTickKeeps ==
  ASSUME ShipperInv, AggTick
  PROVE  ShipperInv'
<1>1. Closed \in SUBSET Minutes
  BY DEF Closed
<1> QED
  BY <1>1, TakeMinutesKeeps DEF AggTick

-----------------------------------------------------------------------------
(* A batch that is not from the buffer                                      *)

\* Where a trace may be counted, besides the batches of q: nowhere.
OneRecordEach(q) ==
  /\ \A k \in DOMAIN q : q[k].kind = "aggregates" => Apart(q[k].body)
  /\ \A k, l \in DOMAIN q :
       k # l /\ q[k].kind = "aggregates" /\ q[l].kind = "aggregates" =>
         Covered(q[k].body) \cap Covered(q[l].body) = {}
  /\ InMinutes \cap CoveredIn(q, "aggregates") = {}
  /\ CoveredIn(q, "aggregates") \cap CoveredIn(disk, "aggregates") = {}
  /\ CoveredIn(q, "aggregates") \subseteq 1 .. observed

Uncounted(q) ==
  \A k \in DOMAIN q : q[k].kind = "aggregates" => \A t \in Covered(q[k].body) : counted[t] = 0

\* What the sender has in hand and what it has still to send.
LEMMA InHand ==
  ASSUME ShipperInv, pc \in {"wait", "store"}, req.files = <<>>,
         NEW rest, rest = Tail(todo)
  PROVE  /\ rest \in Seq(File) /\ req.kind \in Kinds /\ req.body \in Bodies /\ req.body # <<>>
         /\ \A k \in DOMAIN rest : rest[k].body # <<>>
         /\ \A kind : CoveredIn(todo, kind) =
              (IF req.kind = kind THEN Covered(req.body) ELSE {}) \cup CoveredIn(rest, kind)
         /\ TraceRecords(todo) =
              (IF req.kind = "traces" THEN Len(req.body) ELSE 0) + TraceRecords(rest)
         /\ TraceRecords(rest) \in Nat
         /\ OneRecordEach(rest) /\ Uncounted(rest)
         /\ req.kind = "aggregates" =>
              /\ Apart(req.body)
              /\ Covered(req.body) \cap CoveredIn(rest, "aggregates") = {}
              /\ Covered(req.body) \cap InMinutes = {}
              /\ Covered(req.body) \cap CoveredIn(disk, "aggregates") = {}
              /\ Covered(req.body) \subseteq 1 .. observed
              /\ ~(pc = "store" /\ req.id \in known) => \A t \in Covered(req.body) : counted[t] = 0
<1>1. /\ todo \in Seq(File) /\ todo # <<>> /\ Head(todo).kind = req.kind
      /\ Head(todo).body = req.body /\ req.kind \in Kinds /\ req.body \in Bodies
      /\ \A k \in DOMAIN todo : todo[k].body # <<>>
  BY DEF ShipperInv, ControlOK, TypeOK
<1>2. /\ rest \in Seq(File)
      /\ Head(todo) = todo[1] /\ 1 \in DOMAIN todo
      /\ \A k \in DOMAIN rest : k + 1 \in DOMAIN todo /\ rest[k] = todo[k + 1]
      /\ \A kind : CoveredIn(todo, kind) =
           (IF Head(todo).kind = kind THEN Covered(Head(todo).body) ELSE {})
             \cup CoveredIn(rest, kind)
      /\ TraceRecords(todo) =
           (IF Head(todo).kind = "traces" THEN Len(Head(todo).body) ELSE 0) + TraceRecords(rest)
      /\ TraceRecords(rest) \in Nat
  BY <1>1, HeadAndTail
<1>3. \A k, l \in DOMAIN rest : k + 1 # 1 /\ (k # l => k + 1 # l + 1)
  BY <1>2
<1>4. todo[1].kind = req.kind /\ todo[1].body = req.body
  BY <1>1, <1>2
<1>5. OneRecordEach(todo)
  BY DEF ShipperInv, InOnePlace, OneRecordEach
<1>6. OneRecordEach(rest)
  <2>1. \A k \in DOMAIN rest : rest[k].kind = "aggregates" => Apart(rest[k].body)
    BY <1>2, <1>5 DEF OneRecordEach
  <2>2. \A k, l \in DOMAIN rest :
          k # l /\ rest[k].kind = "aggregates" /\ rest[l].kind = "aggregates" =>
            Covered(rest[k].body) \cap Covered(rest[l].body) = {}
    <3> TAKE k, l \in DOMAIN rest
    <3> HAVE k # l /\ rest[k].kind = "aggregates" /\ rest[l].kind = "aggregates"
    <3>1. /\ k + 1 \in DOMAIN todo /\ l + 1 \in DOMAIN todo /\ k + 1 # l + 1
          /\ rest[k] = todo[k + 1] /\ rest[l] = todo[l + 1]
      BY <1>2, <1>3
    <3> QED
      BY <1>5, <3>1 DEF OneRecordEach
  <2>3. CoveredIn(rest, "aggregates") \subseteq CoveredIn(todo, "aggregates")
    BY <1>2
  <2> QED
    BY <1>5, <2>1, <2>2, <2>3 DEF OneRecordEach
<1>7. Uncounted(rest)
  BY <1>2, <1>3 DEF ShipperInv, CountedOK, Uncounted
<1>8. ASSUME req.kind = "aggregates"
      PROVE  /\ Apart(req.body)
             /\ Covered(req.body) \cap CoveredIn(rest, "aggregates") = {}
             /\ Covered(req.body) \subseteq CoveredIn(todo, "aggregates")
             /\ ~(pc = "store" /\ req.id \in known) => \A t \in Covered(req.body) : counted[t] = 0
  <2>1. Apart(req.body)
    BY <1>2, <1>4, <1>5, <1>8 DEF OneRecordEach
  <2>2. \A k \in DOMAIN rest :
          rest[k].kind = "aggregates" => Covered(req.body) \cap Covered(rest[k].body) = {}
    <3> TAKE k \in DOMAIN rest
    <3> HAVE rest[k].kind = "aggregates"
    <3>1. k + 1 \in DOMAIN todo /\ 1 \in DOMAIN todo /\ 1 # k + 1 /\ rest[k] = todo[k + 1]
      BY <1>2, <1>3
    <3>2. Covered(todo[1].body) \cap Covered(todo[k + 1].body) = {}
      BY <1>4, <1>5, <1>8, <3>1 DEF OneRecordEach
    <3> QED
      BY <1>4, <3>1, <3>2
  <2>3. Covered(req.body) \cap CoveredIn(rest, "aggregates") = {}
    BY <2>2 DEF CoveredIn, CoveredBy, OfKind
  <2>4. Covered(req.body) \subseteq CoveredIn(todo, "aggregates")
    BY <1>1, <1>2, <1>8
  <2>5. ~(pc = "store" /\ req.id \in known) => \A t \in Covered(req.body) : counted[t] = 0
    BY <1>2, <1>4, <1>8 DEF ShipperInv, CountedOK
  <2> QED
    BY <2>1, <2>3, <2>4, <2>5
<1>9. req.kind = "aggregates" =>
        /\ Covered(req.body) \cap InMinutes = {}
        /\ Covered(req.body) \cap CoveredIn(disk, "aggregates") = {}
        /\ Covered(req.body) \subseteq 1 .. observed
  BY <1>5, <1>8 DEF OneRecordEach
<1>10. \A k \in DOMAIN rest : rest[k].body # <<>>
  BY <1>1, <1>2
<1>11. /\ \A kind : CoveredIn(todo, kind) =
            (IF req.kind = kind THEN Covered(req.body) ELSE {}) \cup CoveredIn(rest, kind)
       /\ TraceRecords(todo) =
            (IF req.kind = "traces" THEN Len(req.body) ELSE 0) + TraceRecords(rest)
  BY <1>1, <1>2
<1>12. req.body # <<>>
  BY <1>1, <1>2, <1>4
<1> QED
  BY <1>1, <1>2, <1>6, <1>7, <1>8, <1>9, <1>10, <1>11, <1>12

\* Nothing is lost by a step that leaves it in some place, or records why it does not.
LEMMA LossStep ==
  ASSUME ShipperInv, observed' = observed,
         \A t \in Traces : /\ counted[t] > 0 => counted'[t] > 0
                           /\ missing[t] # "no" => missing'[t] # "no",
         arrived \subseteq arrived', forgone \subseteq forgone',
         \A t \in Traces :
           t \in InMemory("aggregates") \cup CoveredIn(disk, "aggregates") =>
             \/ counted'[t] > 0 \/ missing'[t] # "no"
             \/ t \in InMemory("aggregates")' \cup CoveredIn(disk', "aggregates"),
         \A t \in Traces :
           t \in InMemory("traces") \cup CoveredIn(disk, "traces") =>
             t \in arrived' \cup forgone' \cup InMemory("traces")' \cup CoveredIn(disk', "traces")
  PROVE  NothingLost'
<1>1. 1 .. observed \subseteq Traces
  BY BufferAssumption DEF ShipperInv, TypeOK, Traces
<1>2. AggregatesKept'
  BY <1>1 DEF ShipperInv, NothingLost, AggregatesKept
<1>3. TracesKept'
  BY <1>1 DEF ShipperInv, NothingLost, TracesKept
<1> QED
  BY <1>2, <1>3 DEF NothingLost

\* What the console has taken once it answered.
HeardNext(kind, body) ==
  \A t \in Covered(body) : IF kind = "traces" THEN t \in arrived' ELSE counted'[t] > 0

\* The request and the console: what the batch counts it has not been asked before, or it has
\* the batch already.
LEMMA ConsoleStep ==
  ASSUME ShipperInv, pc = "wait", ConsoleTakes \/ UNCHANGED consoleVars
  PROVE  /\ ConsoleTyped'
         /\ arrived \subseteq arrived' /\ known \subseteq known'
         /\ \A t \in Traces : counted[t] > 0 => counted'[t] > 0
         /\ \A t \in Traces : counted'[t] <= 1 /\ (counted'[t] > 0 => t <= observed)
         /\ \A t \in Traces : counted'[t] = counted[t]
              \/ (req.kind = "aggregates" /\ t \in Covered(req.body))
         /\ UNCHANGED consoleVars \/ (req.id \notin known /\ known' = known \cup {req.id})
         /\ ConsoleTakes => HeardNext(req.kind, req.body) /\ req.id \in known'
<1> USE DEF consoleVars
<1> DEFINE fresh(t) == Cardinality({k \in 1 .. Len(req.body) : t \in req.body[k]})
<1>1. /\ TypeOK /\ ConsoleTyped /\ req.kind \in Kinds /\ req.body \in Bodies /\ req.id \in Nat
      /\ Covered(req.body) \subseteq Traces
      /\ DOMAIN req.body = 1 .. Len(req.body) /\ Len(req.body) \in Nat
  <2>1. TypeOK /\ req.kind \in Kinds /\ req.body \in Bodies /\ req.id \in Nat
    BY DEF ShipperInv, TypeOK
  <2>2. DOMAIN req.body = 1 .. Len(req.body) /\ Len(req.body) \in Nat
    BY <2>1 DEF Bodies
  <2> QED
    BY <2>1, <2>2, CoveredTyped, TypeFrames
<1>2. ASSUME req.files # <<>>, req.kind = "aggregates" \/ req.id \in known
      PROVE  /\ req.id \in OfKind(disk, req.kind) /\ req.body = disk[req.id].body
  <2>1. req.files = <<req.id>> /\ req.body = disk[req.id].body
    BY <1>2 DEF ShipperInv, RequestOK
  <2>2. req.id \in Range(req.files)
    BY <2>1 DEF Range
  <2> QED
    BY <2>1, <2>2 DEF ShipperInv, RequestOK
<1>3. ASSUME req.kind = "aggregates"
      PROVE  /\ Apart(req.body) /\ Covered(req.body) \subseteq 1 .. observed
             /\ req.id \notin known => \A t \in Covered(req.body) : counted[t] = 0
  <2>1. CASE req.files = <<>>
    BY <1>3, <2>1, InHand
  <2>2. CASE req.files # <<>>
    <3>1. req.id \in OfKind(disk, "aggregates") /\ req.body = disk[req.id].body
      BY <1>2, <1>3, <2>2
    <3>2. Covered(req.body) \subseteq CoveredIn(disk, "aggregates")
      BY <3>1 DEF CoveredIn, CoveredBy
    <3>3. CoveredIn(disk, "aggregates") \subseteq 1 .. observed
      BY DEF ShipperInv, InOnePlace
    <3>4. Apart(req.body)
      BY <3>1 DEF ShipperInv, InOnePlace
    <3>5. req.id \notin known => \A t \in Covered(req.body) : counted[t] = 0
      BY <3>1 DEF ShipperInv, CountedOK
    <3> QED
      BY <3>2, <3>3, <3>4, <3>5
  <2> QED
    BY <2>1, <2>2
<1>4. ASSUME NEW t \in Traces, req.kind = "aggregates"
      PROVE  /\ t \in Covered(req.body) => fresh(t) = 1
             /\ t \notin Covered(req.body) => fresh(t) = 0
  <2> DEFINE K == {k \in 1 .. Len(req.body) : t \in req.body[k]}
  <2>1. CASE t \in Covered(req.body)
    <3>1. PICK k \in DOMAIN req.body : t \in req.body[k]
      BY <2>1 DEF Covered
    <3>2. K = {k}
      BY <1>1, <1>3, <1>4, <3>1 DEF Apart
    <3> QED
      BY <2>1, <3>2, FS_Singleton
  <2>2. CASE t \notin Covered(req.body)
    <3>1. K = {}
      BY <1>1, <2>2 DEF Covered
    <3> QED
      BY <2>2, <3>1, FS_EmptySet
  <2> QED
    BY <2>1, <2>2
<1> HIDE DEF fresh
<1>5. \A t \in Traces : counted[t] \in Nat /\ counted[t] <= 1 /\ (counted[t] > 0 => t <= observed)
  BY <1>1 DEF TypeOK, ShipperInv, CountedOK, AggregatesOnce
<1>6. CASE UNCHANGED consoleVars /\ ~ConsoleTakes
  BY <1>1, <1>5, <1>6, TypeFrames
<1>7. CASE ConsoleTakes /\ req.id \in known
  <2>1. UNCHANGED consoleVars
    BY <1>7 DEF ConsoleTakes
  <2>2. Heard(req.kind, req.body)
    <3>1. req.files # <<>>
      BY <1>7 DEF ShipperInv, IdsOK
    <3>2. req.id \in OfKind(disk, req.kind) /\ req.body = disk[req.id].body
      BY <1>2, <1>7, <3>1
    <3> QED
      BY <1>7, <3>2 DEF ShipperInv, HeardOK, OfKind
  <2>3. HeardNext(req.kind, req.body)
    BY <2>1, <2>2 DEF Heard, HeardNext
  <2> QED
    BY <1>1, <1>5, <1>7, <2>1, <2>3, TypeFrames
<1>8. CASE ConsoleTakes /\ req.id \notin known /\ req.kind = "traces"
  <2>1. /\ known' = known \cup {req.id} /\ arrived' = arrived \cup Covered(req.body)
        /\ counted' = counted
    BY <1>8 DEF ConsoleTakes
  <2>2. ConsoleTyped'
    BY <1>1, <2>1 DEF ConsoleTyped
  <2>3. HeardNext(req.kind, req.body)
    BY <1>8, <2>1 DEF HeardNext
  <2> QED
    BY <1>1, <1>5, <1>8, <2>1, <2>2, <2>3
<1>9. CASE ConsoleTakes /\ req.id \notin known /\ req.kind = "aggregates"
  <2>1. /\ known' = known \cup {req.id} /\ arrived' = arrived
        /\ counted' = [t \in Traces |-> counted[t] + fresh(t)]
    BY <1>9 DEF ConsoleTakes, fresh
  <2>2. ASSUME NEW t \in Traces
        PROVE  /\ counted'[t] \in Nat /\ counted'[t] <= 1
               /\ counted'[t] = IF t \in Covered(req.body) THEN 1 ELSE counted[t]
    BY <1>3, <1>4, <1>5, <1>9, <2>1, <2>2
  <2>3. ConsoleTyped'
    <3>1. counted' \in [Traces -> Nat]
      BY <2>1, <2>2
    <3> QED
      BY <1>1, <2>1, <3>1 DEF ConsoleTyped
  <2>4. \A t \in Traces : counted'[t] > 0 => t <= observed
    BY <1>3, <1>5, <1>9, <2>2
  <2>5. HeardNext(req.kind, req.body)
    BY <1>1, <1>9, <2>2 DEF HeardNext
  <2> QED
    BY <1>1, <1>5, <1>9, <2>1, <2>2, <2>3, <2>4, <2>5
<1> QED
  BY <1>1, <1>6, <1>7, <1>8, <1>9 DEF Kinds

\* What the console may have done does not disturb what else is to be counted.
LEMMA CountedStep ==
  ASSUME ShipperInv, pc = "wait", ConsoleTakes \/ UNCHANGED consoleVars
  PROVE  /\ \A t \in InMinutes : counted'[t] = 0
         /\ \A id \in OfKind(disk, "aggregates") \ known' :
              \A t \in Covered(disk[id].body) : counted'[t] = 0
         /\ \A rest : req.files = <<>> /\ rest = Tail(todo) =>
              \A k \in DOMAIN rest : rest[k].kind = "aggregates" =>
                \A t \in Covered(rest[k].body) : counted'[t] = 0
<1>1. /\ \A t \in Traces : counted'[t] = counted[t]
           \/ (req.kind = "aggregates" /\ t \in Covered(req.body))
      /\ known \subseteq known'
      /\ UNCHANGED consoleVars \/ (req.id \notin known /\ known' = known \cup {req.id})
  BY ConsoleStep
<1>2. /\ InMinutes \subseteq Traces /\ CoveredIn(disk, "aggregates") \subseteq Traces
      /\ \A id \in OfKind(disk, "aggregates") :
           Covered(disk[id].body) \subseteq CoveredIn(disk, "aggregates")
  <2>1. InMinutes \subseteq Traces
    BY DEF InMinutes, ShipperInv, TypeOK
  <2>2. TypeOK
    BY DEF ShipperInv
  <2> QED
    BY <2>1, <2>2, DiskBatches, CoveredTyped DEF CoveredIn, CoveredBy
<1>3. CASE req.files = <<>>
  <2> DEFINE rest == Tail(todo)
  <2>1. req.kind = "aggregates" =>
          /\ Covered(req.body) \cap CoveredIn(rest, "aggregates") = {}
          /\ Covered(req.body) \cap InMinutes = {}
          /\ Covered(req.body) \cap CoveredIn(disk, "aggregates") = {}
    BY <1>3, InHand
  <2>2. rest \in Seq(File) /\ Uncounted(rest)
    BY <1>3, InHand
  <2> HIDE DEF rest
  <2>3. \A t \in InMinutes : counted'[t] = 0
    BY <1>1, <1>2, <2>1 DEF ShipperInv, CountedOK
  <2>4. \A id \in OfKind(disk, "aggregates") \ known' :
          \A t \in Covered(disk[id].body) : counted'[t] = 0
    BY <1>1, <1>2, <2>1 DEF ShipperInv, CountedOK
  <2>5. ASSUME NEW k \in DOMAIN rest, rest[k].kind = "aggregates",
               NEW t \in Covered(rest[k].body)
        PROVE  counted'[t] = 0
    <3>1. Batches(rest)
      BY <2>2, SeqBatches
    <3>2. CoveredIn(rest, "aggregates") \subseteq Traces
      BY <3>1, CoveredTyped
    <3>3. t \in CoveredIn(rest, "aggregates")
      BY <2>5 DEF CoveredIn, CoveredBy, OfKind
    <3>4. counted[t] = 0
      BY <2>2, <2>5 DEF Uncounted
    <3> QED
      BY <1>1, <2>1, <3>2, <3>3, <3>4
  <2> QED
    BY <2>3, <2>4, <2>5 DEF rest
<1>4. CASE req.files # <<>>
  <2>1. ASSUME req.kind = "aggregates"
        PROVE  req.id \in OfKind(disk, "aggregates") /\ req.body = disk[req.id].body
    <3>1. req.files = <<req.id>> /\ req.body = disk[req.id].body
      BY <1>4, <2>1 DEF ShipperInv, RequestOK
    <3>2. req.id \in Range(req.files)
      BY <3>1 DEF Range
    <3> QED
      BY <2>1, <3>1, <3>2 DEF ShipperInv, RequestOK
  <2>2. \A t \in InMinutes : counted'[t] = 0
    <3>1. InMinutes \cap CoveredIn(disk, "aggregates") = {}
      BY DEF ShipperInv, InOnePlace
    <3> QED
      BY <1>1, <1>2, <2>1, <3>1 DEF ShipperInv, CountedOK
  <2>3. ASSUME NEW id \in OfKind(disk, "aggregates") \ known', NEW t \in Covered(disk[id].body)
        PROVE  counted'[t] = 0
    <3>1. counted[t] = 0 /\ t \in Traces /\ id \notin known
      BY <1>1, <1>2, <2>3 DEF ShipperInv, CountedOK
    <3>2. CASE UNCHANGED consoleVars
      BY <3>1, <3>2 DEF consoleVars
    <3>3. CASE known' = known \cup {req.id}
      <4>1. id # req.id
        BY <2>3, <3>3
      <4>2. req.kind = "aggregates" => t \notin Covered(req.body)
        BY <2>1, <2>3, <4>1 DEF ShipperInv, InOnePlace
      <4> QED
        BY <1>1, <3>1, <4>2
    <3> QED
      BY <1>1, <3>2, <3>3
  <2> QED
    BY <1>4, <2>2, <2>3
<1> QED
  BY <1>3, <1>4

\* Files the console knows, it has heard.
LEMMA HeardStep ==
  ASSUME ShipperInv, pc = "wait", ConsoleTakes \/ UNCHANGED consoleVars
  PROVE  \A id \in known' \cap DOMAIN disk : HeardNext(disk[id].kind, disk[id].body)
<1> SUFFICES ASSUME NEW id \in known' \cap DOMAIN disk
             PROVE  HeardNext(disk[id].kind, disk[id].body)
  OBVIOUS
<1>1. Covered(disk[id].body) \subseteq Traces
  <2>1. TypeOK
    BY DEF ShipperInv
  <2> QED
    BY <2>1, DiskBatches, CoveredTyped
<1>2. CASE id \in known
  <2>1. Heard(disk[id].kind, disk[id].body)
    BY <1>2 DEF ShipperInv, HeardOK
  <2>2. arrived \subseteq arrived' /\ \A t \in Traces : counted[t] > 0 => counted'[t] > 0
    BY ConsoleStep
  <2> QED
    BY <1>1, <2>1, <2>2 DEF Heard, HeardNext
<1>3. CASE id \notin known
  <2>1. ~UNCHANGED consoleVars
    BY <1>3 DEF consoleVars
  <2>2. id = req.id /\ HeardNext(req.kind, req.body)
    BY <1>3, <2>1, ConsoleStep
  <2>3. req.files # <<>>
    BY <2>2 DEF ShipperInv, IdsOK
  <2>4. req.files = <<req.id>> /\ req.body = disk[req.id].body
    BY <2>2, <2>3 DEF ShipperInv, RequestOK
  <2>5. req.id \in Range(req.files)
    BY <2>4 DEF Range
  <2>6. disk[req.id].kind = req.kind
    BY <2>5 DEF ShipperInv, RequestOK, OfKind
  <2> QED
    BY <2>2, <2>4, <2>6
<1> QED
  BY <1>2, <1>3

\* sendTraces or sendAggregates went on with the rest.
LEMMA Proceeds ==
  ASSUME ShipperInv, pc \in {"wait", "store"}, req.files = <<>>,
         NEW rest \in Seq(File), \A k \in DOMAIN rest : rest[k].body # <<>>, Proceed(rest),
         UNCHANGED <<procVars, intakeVars, job, list, ids>>,
         ProcTyped', ConsoleTyped', LossTyped', BufferTypeOK', sent' \in Nat, dropped' \in Nat,
         \A id \in DOMAIN disk' : disk'[id].body # <<>>,
         DOMAIN disk' \subseteq DOMAIN disk \cup {req.id}, known' \subseteq known \cup {req.id}
  PROVE  /\ TypeOK' /\ ControlOK' /\ DownOK' /\ IdsOK' /\ RequestOK' /\ LateOK'
         /\ pc' \notin {"wait", "store", "remove"} /\ phase # "down"
         /\ todo' = rest /\ req' = NoBatch /\ Removing' = Removing + 0
<1> USE DEF procVars, flagVars, intakeVars, sendVars, countVars, consoleVars, lossVars, bufferVars
<1>1. TypeOK /\ phase # "down" /\ Removing = 0
  BY DEF ShipperInv, DownOK, Removing
<1>2. /\ todo' = rest /\ req' = NoBatch
      /\ pc' \in {"send", "flush", "idle", "replay"}
      /\ pc' = "send" <=> rest # <<>>
      /\ pc' = "flush" => job = "traces"
      /\ pc' = "idle" => job = "aggregates"
      /\ pc' = "replay" => job = "replay"
  BY <1>1 DEF Proceed, TypeOK
<1>3. NoBatch.files = <<>> /\ NoBatch.id = 0
      /\ NoBatch \in [kind : Kinds, id : Nat, body : Bodies, files : Seq(Nat),
                      verdict : {"none", "ok", "large", "refused", "later"}]
  BY DEF NoBatch, Kinds, Bodies
<1>4. TypeOK'
  <2>1. SendTyped'
    BY <1>1, <1>2, <1>3, TypeFrames DEF SendTyped
  <2>2. UNCHANGED intakeVars
    OBVIOUS
  <2> QED
    BY <1>1, <2>1, <2>2, TypeFrames
<1>5. ControlOK'
  BY <1>2 DEF ShipperInv, ControlOK
<1>6. IdsOK'
  <2>1. ids \in Nat /\ req.id <= ids
    BY <1>1 DEF ShipperInv, IdsOK, TypeOK
  <2> QED
    BY <1>2, <1>3, <2>1 DEF ShipperInv, IdsOK
<1>7. DownOK' /\ RequestOK'
  BY <1>1, <1>2, <1>3, Frames
<1>8. LateOK'
  BY Frames
<1>9. Removing' = 0
  BY <1>2 DEF Removing
<1> QED
  BY <1>1, <1>2, <1>4, <1>5, <1>6, <1>7, <1>8, <1>9

\* The console answered, or nothing came.
Answered(verdict) ==
  /\ pc = "wait"
  /\ verdict \in {"ok", "large", "refused", "later"}
  /\ Return(verdict)
  /\ ConsoleTakes \/ UNCHANGED consoleVars
  /\ verdict = "ok" => ConsoleTakes
  /\ verdict \in {"large", "refused"} => UNCHANGED consoleVars
  /\ plan => plan'
  /\ ProcTyped'

\* Each answer is one of four verdicts.
LEMMA AnswerShape ==
  ASSUME ShipperInv, Answer
  PROVE  \E verdict : Answered(verdict)
<1> USE DEF procVars, flagVars, consoleVars
<1>1. ProcTyped
  BY TypeFrames DEF ShipperInv
<1>2. \A verdict : Return(verdict) => UNCHANGED <<phase, lives, clock>>
  BY DEF Return
<1>3. \A kind : Fault(kind) => faults' \in 0 .. MaxFaults
  BY <1>1, ShipperAssumption DEF Fault, ProcTyped
<1>4. CASE Accepted
  <2>1. Answered("ok")
    BY <1>1, <1>2, <1>4 DEF Accepted, Answered, ProcTyped
  <2> QED
    BY <2>1
<1>5. CASE AnswerLost
  <2>1. Answered("later")
    BY <1>1, <1>2, <1>3, <1>5 DEF AnswerLost, Answered, ProcTyped
  <2> QED
    BY <2>1
<1>6. CASE Failed
  <2>1. Answered("later")
    BY <1>1, <1>2, <1>3, <1>6 DEF Failed, Answered, ProcTyped
  <2> QED
    BY <2>1
<1>7. CASE Unauthorized
  <2>1. Answered("later")
    BY <1>1, <1>2, <1>3, <1>7 DEF Unauthorized, Answered, ProcTyped
  <2> QED
    BY <2>1
<1>8. CASE PlanExhausted
  <2>1. Answered("refused") \/ Answered("later")
    BY <1>1, <1>2, <1>3, <1>8 DEF PlanExhausted, Answered, ProcTyped
  <2> QED
    BY <2>1
<1>9. CASE TooLarge
  <2>1. Answered("large")
    BY <1>1, <1>2, <1>3, <1>9 DEF TooLarge, Answered, ProcTyped
  <2> QED
    BY <2>1
<1>10. CASE Rejected
  <2>1. Answered("refused")
    BY <1>1, <1>2, <1>3, <1>10 DEF Rejected, Answered, ProcTyped
  <2> QED
    BY <2>1
<1> QED
  BY <1>4, <1>5, <1>6, <1>7, <1>8, <1>9, <1>10 DEF Answer

\* What an answer leaves alone, and what it leaves of the batch that was sent.
LEMMA AnswerFrame ==
  ASSUME ShipperInv, NEW verdict, Answered(verdict)
  PROVE  /\ UNCHANGED <<procVars, clock, intakeVars, job, ids, bufferVars>>
         /\ pc = "wait" /\ ConsoleTyped' /\ known' \subseteq known \cup {req.id}
         /\ BufferTypeOK' /\ ProcTyped' /\ phase # "down" /\ Removing = 0
         /\ LossTyped /\ sent \in Nat /\ dropped \in Nat
         /\ req.body \in Bodies /\ Len(req.body) \in Nat /\ Covered(req.body) \subseteq Traces
         /\ \A id \in DOMAIN disk : disk[id].body # <<>>
         /\ req.files = <<>> => AfterSend(verdict) /\ list' = list
         /\ req.files # <<>> => AfterReplay(verdict)
         /\ TypeOK
<1>1. TypeOK /\ pc = "wait" /\ phase # "down" /\ Removing = 0 /\ LossTyped
  BY TypeFrames DEF ShipperInv, DownOK, Answered, Removing
<1>2. /\ UNCHANGED <<procVars, clock, intakeVars, job, ids, bufferVars>>
      /\ req.files = <<>> => AfterSend(verdict) /\ list' = list
      /\ req.files # <<>> => AfterReplay(verdict)
  BY DEF Answered, Return
<1>3. ConsoleTyped' /\ known' \subseteq known \cup {req.id}
  <2>1. ConsoleTakes \/ UNCHANGED consoleVars
    BY DEF Answered
  <2>2. ConsoleTyped' /\ (UNCHANGED consoleVars \/ known' = known \cup {req.id})
    BY <1>1, <2>1, ConsoleStep
  <2> QED
    BY <2>2 DEF consoleVars
<1>4. BufferTypeOK' /\ ProcTyped'
  BY <1>1, <1>2, TypeFrames DEF Answered
<1>5. req.body \in Bodies /\ Len(req.body) \in Nat /\ Covered(req.body) \subseteq Traces
  <2>1. req.body \in Bodies
    BY <1>1 DEF TypeOK
  <2>2. Len(req.body) \in Nat
    BY <2>1 DEF Bodies
  <2> QED
    BY <2>1, <2>2, CoveredTyped
<1>6. sent \in Nat /\ dropped \in Nat /\ \A id \in DOMAIN disk : disk[id].body # <<>>
  BY <1>1 DEF TypeOK, ShipperInv, ControlOK
<1> QED
  BY <1>1, <1>2, <1>3, <1>4, <1>5, <1>6

\* The batch is done with, or split, after an answer.
LEMMA AnswerProceeds ==
  ASSUME ShipperInv, NEW verdict, Answered(verdict), req.files = <<>>,
         NEW rest \in Seq(File), \A k \in DOMAIN rest : rest[k].body # <<>>, Proceed(rest),
         LossTyped', sent' \in Nat, dropped' \in Nat,
         OneRecordEach(rest),
         \A k \in DOMAIN rest : rest[k].kind = "aggregates" =>
           \A t \in Covered(rest[k].body) : counted'[t] = 0
  PROVE  /\ TypeOK' /\ ControlOK' /\ DownOK' /\ IdsOK' /\ RequestOK' /\ LateOK'
         /\ HeardOK' /\ InOnePlace' /\ CountedOK'
         /\ todo' = rest /\ Removing' = Removing + 0
         /\ \A kind : InMemory(kind) = CoveredIn(todo, kind)
                        \cup (IF kind = "traces" THEN Range(pending) ELSE InMinutes)
         /\ \A kind : InMemory(kind)' = CoveredIn(rest, kind)
                        \cup (IF kind = "traces" THEN Range(pending) ELSE InMinutes)
<1>1. /\ UNCHANGED <<procVars, clock, intakeVars, job, ids, bufferVars, list>>
      /\ pc = "wait" /\ ConsoleTyped' /\ known' \subseteq known \cup {req.id}
      /\ BufferTypeOK' /\ ProcTyped'
      /\ ConsoleTakes \/ UNCHANGED consoleVars
  BY AnswerFrame DEF Answered
<1>2. /\ disk' = disk /\ UNCHANGED <<procVars, intakeVars, job, list, ids>>
      /\ \A id \in DOMAIN disk' : disk'[id].body # <<>>
      /\ DOMAIN disk' \subseteq DOMAIN disk \cup {req.id}
  BY <1>1 DEF bufferVars, ShipperInv, ControlOK
<1>3. /\ TypeOK' /\ ControlOK' /\ DownOK' /\ IdsOK' /\ RequestOK' /\ LateOK'
      /\ pc' \notin {"wait", "store", "remove"} /\ phase # "down"
      /\ todo' = rest /\ req' = NoBatch /\ Removing' = Removing + 0
  BY <1>1, <1>2, Proceeds
<1>4. HeardOK'
  <2>1. \A id \in known' \cap DOMAIN disk : HeardNext(disk[id].kind, disk[id].body)
    BY <1>1, HeardStep
  <2> QED
    BY <1>2, <1>3, <2>1 DEF HeardOK, Heard, HeardNext
<1>5. minutes' = minutes /\ observed' = observed /\ InMinutes' = InMinutes /\ pending' = pending
  BY <1>1 DEF intakeVars, InMinutes
<1>6. InOnePlace'
  BY <1>2, <1>3, <1>5 DEF ShipperInv, InOnePlace, OneRecordEach
<1>7. CountedOK'
  <2>1. /\ \A t \in InMinutes : counted'[t] = 0
        /\ \A id \in OfKind(disk, "aggregates") \ known' :
              \A t \in Covered(disk[id].body) : counted'[t] = 0
    BY <1>1, CountedStep
  <2>2. \A t \in Traces : counted'[t] <= 1 /\ (counted'[t] > 0 => t <= observed)
    BY <1>1, ConsoleStep
  <2> QED
    BY <1>2, <1>3, <1>5, <2>1, <2>2 DEF CountedOK, AggregatesOnce
<1>8. \A kind : InMemory(kind) = CoveredIn(todo, kind)
        \cup (IF kind = "traces" THEN Range(pending) ELSE InMinutes)
  BY <1>1 DEF InMemory
<1>9. \A kind : InMemory(kind)' = CoveredIn(rest, kind)
        \cup (IF kind = "traces" THEN Range(pending) ELSE InMinutes)
  BY <1>3, <1>5 DEF InMemory
<1> QED
  BY <1>3, <1>4, <1>6, <1>7, <1>8, <1>9

\* An accepted batch.
LEMMA SentKeeps ==
  ASSUME ShipperInv, Answered("ok"), req.files = <<>>
  PROVE  ShipperInv'
<1> USE DEF lossVars, countVars, intakeVars, bufferVars
<1> DEFINE rest == Tail(todo)
           aggs == req.kind = "aggregates"
<1>1. /\ rest \in Seq(File) /\ \A k \in DOMAIN rest : rest[k].body # <<>>
      /\ req.kind \in Kinds /\ OneRecordEach(rest)
      /\ \A kind : CoveredIn(todo, kind) =
              (IF req.kind = kind THEN Covered(req.body) ELSE {}) \cup CoveredIn(rest, kind)
      /\ TraceRecords(todo) =
           (IF req.kind = "traces" THEN Len(req.body) ELSE 0) + TraceRecords(rest)
      /\ TraceRecords(rest) \in Nat
  BY InHand DEF Answered
<1>2. /\ ConsoleTakes /\ (plan => plan')
      /\ \A k \in DOMAIN rest : rest[k].kind = "aggregates" =>
           \A t \in Covered(rest[k].body) : counted'[t] = 0
  BY CountedStep DEF Answered
<1>3. /\ Proceed(rest) /\ sent' = IF aggs THEN sent ELSE sent + Len(req.body)
      /\ UNCHANGED <<dropped, lossVars>>
  BY AnswerFrame DEF AfterSend
<1>4. LossTyped' /\ sent' \in Nat /\ dropped' \in Nat /\ Len(req.body) \in Nat
      /\ Covered(req.body) \subseteq Traces
  BY <1>3, AnswerFrame, TypeFrames DEF ShipperInv
<1> HIDE DEF rest
<1>5. /\ TypeOK' /\ ControlOK' /\ DownOK' /\ IdsOK' /\ RequestOK' /\ LateOK'
      /\ HeardOK' /\ InOnePlace' /\ CountedOK'
      /\ todo' = rest /\ Removing' = Removing + 0
      /\ \A kind : InMemory(kind) = CoveredIn(todo, kind)
                        \cup (IF kind = "traces" THEN Range(pending) ELSE InMinutes)
      /\ \A kind : InMemory(kind)' = CoveredIn(rest, kind)
                        \cup (IF kind = "traces" THEN Range(pending) ELSE InMinutes)
  BY <1>1, <1>2, <1>3, <1>4, AnswerProceeds
<1>6. /\ HeardNext(req.kind, req.body) /\ arrived \subseteq arrived'
      /\ \A t \in Traces : counted[t] > 0 => counted'[t] > 0
      /\ UNCHANGED <<observed, pending, disk, entered, trimmed>>
  BY <1>2, ConsoleStep, AnswerFrame DEF Answered
<1>7. NothingLost'
  <2>1. \A t \in Traces :
          t \in InMemory("aggregates") \cup CoveredIn(disk, "aggregates") =>
            counted'[t] > 0 \/ t \in InMemory("aggregates")' \cup CoveredIn(disk', "aggregates")
    BY <1>1, <1>5, <1>6 DEF HeardNext
  <2>2. \A t \in Traces :
          t \in InMemory("traces") \cup CoveredIn(disk, "traces") =>
            t \in arrived' \cup InMemory("traces")' \cup CoveredIn(disk', "traces")
    BY <1>1, <1>5, <1>6 DEF HeardNext
  <2> QED
    BY <1>3, <1>6, <2>1, <2>2, LossStep
<1>8. Accounted'
  <2> DEFINE n == IF req.kind = "traces" THEN Len(req.body) ELSE 0
             m == 0 - n
  <2>1. n \in Int /\ m \in Int /\ m + n = 0 /\ sent' = sent + n
    BY <1>1, <1>3, <1>4, HeldParts DEF Kinds
  <2>2. TraceRecords(todo') = TraceRecords(rest) /\ TraceRecords(todo) = n + TraceRecords(rest)
    BY <1>1, <1>5
  <2> HIDE DEF n, m
  <2>3. TraceRecords(todo') = TraceRecords(todo) + m
    <3>1. TraceRecords(rest) \in Nat
      BY <1>1
    <3> QED
      BY <2>1, <2>2, <3>1
  <2>4. Moves(0, m, 0, 0, n, 0, 0, 0)
    BY <1>3, <1>5, <1>6, <2>1, <2>3, Still DEF Moves
  <2>5. 0 + m + 0 + 0 + n + 0 + 0 = 0 /\ phase # "down" /\ TypeOK' /\ (plan => plan')
    BY <1>2, <1>5, <2>1, AnswerFrame
  <2> QED
    BY <2>1, <2>4, <2>5, MovesKept
<1> QED
  BY <1>5, <1>7, <1>8 DEF ShipperInv

\* A batch of several records that is too large.
LEMMA SplitKeeps ==
  ASSUME ShipperInv, Answered("large"), req.files = <<>>, Len(req.body) > 1,
         Proceed(Halves(req.kind, req.body) \o Tail(todo)), UNCHANGED <<countVars, lossVars>>
  PROVE  ShipperInv'
<1> USE DEF lossVars, countVars, intakeVars, bufferVars, consoleVars
<1> DEFINE rest == Tail(todo)
           new  == Halves(req.kind, req.body) \o rest
<1>1. /\ rest \in Seq(File) /\ \A k \in DOMAIN rest : rest[k].body # <<>>
      /\ req.kind \in Kinds /\ req.body \in Bodies /\ OneRecordEach(rest) /\ Uncounted(rest)
      /\ \A kind : CoveredIn(todo, kind) =
              (IF req.kind = kind THEN Covered(req.body) ELSE {}) \cup CoveredIn(rest, kind)
      /\ TraceRecords(todo) =
           (IF req.kind = "traces" THEN Len(req.body) ELSE 0) + TraceRecords(rest)
      /\ TraceRecords(rest) \in Nat
      /\ req.kind = "aggregates" =>
              /\ Apart(req.body)
              /\ Covered(req.body) \cap CoveredIn(rest, "aggregates") = {}
              /\ Covered(req.body) \cap InMinutes = {}
              /\ Covered(req.body) \cap CoveredIn(disk, "aggregates") = {}
              /\ Covered(req.body) \subseteq 1 .. observed
              /\ \A t \in Covered(req.body) : counted[t] = 0
  BY InHand DEF Answered
<1>2. Proceed(new) /\ UNCHANGED consoleVars /\ (plan => plan')
  BY DEF Answered
<1> HIDE DEF rest, new
<1>3. /\ new \in Seq(File) /\ new # <<>>
      /\ \A k : CoveredIn(new, k) = (IF req.kind = k THEN Covered(req.body) ELSE {})
                                         \cup CoveredIn(rest, k)
      /\ TraceRecords(new) =
              (IF req.kind = "traces" THEN Len(req.body) ELSE 0) + TraceRecords(rest)
      /\ 1 \in DOMAIN new /\ 2 \in DOMAIN new
      /\ new[1].kind = req.kind /\ new[2].kind = req.kind
      /\ new[1].body # <<>> /\ new[2].body # <<>>
      /\ Covered(new[1].body) \cup Covered(new[2].body) = Covered(req.body)
      /\ Apart(req.body) => /\ Apart(new[1].body) /\ Apart(new[2].body)
                            /\ Covered(new[1].body) \cap Covered(new[2].body) = {}
      /\ \A k \in DOMAIN new :
              k \in {1, 2} \/ (k - 2 \in DOMAIN rest /\ new[k] = rest[k - 2])
  <2>1. new = Halves(req.kind, req.body) \o rest
    BY DEF new
  <2>2. Halved(new, req.kind, req.body, rest)
    BY <1>1, <2>1, HalvesParts
  <2> QED
    BY <2>2 DEF Halved
<1>4. \A k \in DOMAIN new : new[k].body # <<>>
  BY <1>1, <1>3
<1>5. \A k \in DOMAIN rest :
        rest[k].kind = "aggregates" => Covered(rest[k].body) \subseteq CoveredIn(rest, "aggregates")
  BY DEF CoveredIn, CoveredBy, OfKind
<1>6. OneRecordEach(new)
  <2>1. \A k \in DOMAIN new : new[k].kind = "aggregates" => Apart(new[k].body)
    BY <1>1, <1>3 DEF OneRecordEach
  <2>2. ASSUME NEW k \in DOMAIN new, NEW l \in DOMAIN new, k # l,
               new[k].kind = "aggregates", new[l].kind = "aggregates"
        PROVE  Covered(new[k].body) \cap Covered(new[l].body) = {}
    <3>1. CASE k \in {1, 2} /\ l \in {1, 2}
      BY <1>1, <1>3, <2>2, <3>1
    <3>2. CASE k \in {1, 2} /\ l \notin {1, 2}
      <4>1. Covered(new[l].body) \subseteq CoveredIn(rest, "aggregates")
        BY <1>3, <1>5, <2>2, <3>2
      <4>2. Covered(new[k].body) \subseteq Covered(req.body) /\ req.kind = "aggregates"
        BY <1>3, <2>2, <3>2
      <4> QED
        BY <1>1, <4>1, <4>2
    <3>3. CASE k \notin {1, 2} /\ l \in {1, 2}
      <4>1. Covered(new[k].body) \subseteq CoveredIn(rest, "aggregates")
        BY <1>3, <1>5, <2>2, <3>3
      <4>2. Covered(new[l].body) \subseteq Covered(req.body) /\ req.kind = "aggregates"
        BY <1>3, <2>2, <3>3
      <4> QED
        BY <1>1, <4>1, <4>2
    <3>4. CASE k \notin {1, 2} /\ l \notin {1, 2}
      <4>1. /\ k - 2 \in DOMAIN rest /\ new[k] = rest[k - 2]
            /\ l - 2 \in DOMAIN rest /\ new[l] = rest[l - 2]
        BY <1>3, <3>4
      <4>2. k - 2 # l - 2
        <5>1. k \in Nat /\ l \in Nat
          BY <1>3
        <5> QED
          BY <2>2, <5>1
      <4> QED
        BY <1>1, <2>2, <4>1, <4>2 DEF OneRecordEach
    <3> QED
      BY <3>1, <3>2, <3>3, <3>4
  <2>3. /\ InMinutes \cap CoveredIn(new, "aggregates") = {}
        /\ CoveredIn(new, "aggregates") \cap CoveredIn(disk, "aggregates") = {}
        /\ CoveredIn(new, "aggregates") \subseteq 1 .. observed
    BY <1>1, <1>3 DEF OneRecordEach
  <2> QED
    BY <2>1, <2>2, <2>3 DEF OneRecordEach
<1>7. \A k \in DOMAIN new : new[k].kind = "aggregates" =>
        \A t \in Covered(new[k].body) : counted'[t] = 0
  <2>1. counted' = counted
    BY <1>2 DEF consoleVars
  <2>2. ASSUME NEW k \in DOMAIN new, new[k].kind = "aggregates", NEW t \in Covered(new[k].body)
        PROVE  counted[t] = 0
    <3>1. CASE k \in {1, 2}
      <4>1. req.kind = "aggregates" /\ t \in Covered(req.body)
        BY <1>3, <2>2, <3>1
      <4> QED
        BY <1>1, <4>1
    <3>2. CASE k \notin {1, 2}
      <4>1. k - 2 \in DOMAIN rest /\ new[k] = rest[k - 2]
        BY <1>3, <3>2
      <4> QED
        BY <1>1, <2>2, <4>1 DEF Uncounted
    <3> QED
      BY <3>1, <3>2
  <2> QED
    BY <2>1, <2>2
<1>8. LossTyped' /\ sent' \in Nat /\ dropped' \in Nat
  BY AnswerFrame, TypeFrames DEF ShipperInv
<1>9. /\ TypeOK' /\ ControlOK' /\ DownOK' /\ IdsOK' /\ RequestOK' /\ LateOK'
      /\ HeardOK' /\ InOnePlace' /\ CountedOK'
      /\ todo' = new /\ Removing' = Removing + 0
      /\ \A kind : InMemory(kind) = CoveredIn(todo, kind)
                        \cup (IF kind = "traces" THEN Range(pending) ELSE InMinutes)
      /\ \A kind : InMemory(kind)' = CoveredIn(new, kind)
                        \cup (IF kind = "traces" THEN Range(pending) ELSE InMinutes)
  BY <1>2, <1>3, <1>4, <1>6, <1>7, <1>8, AnswerProceeds
<1>10. UNCHANGED <<observed, pending, disk, entered, trimmed>> /\ phase # "down"
  BY AnswerFrame
<1>11. NothingLost'
  <2>1. \A kind : InMemory(kind)' = InMemory(kind)
    BY <1>1, <1>3, <1>9
  <2> QED
    BY <1>2, <1>10, <2>1, LossStep
<1>12. Accounted'
  <2>1. TraceRecords(todo') = TraceRecords(todo)
    BY <1>1, <1>3, <1>9
  <2>1a. UNCHANGED <<pending, disk, sent, dropped, trimmed, entered>>
    BY <1>2, <1>10 DEF consoleVars
  <2>1b. /\ Len(pending') = Len(pending) /\ TraceRecords(disk') = TraceRecords(disk)
         /\ sent' = sent /\ dropped' = dropped /\ trimmed' = trimmed /\ entered' = entered
    BY <2>1a
  <2>1c. Removing' = Removing + 0
    BY <1>9
  <2>2. Moves(0, 0, 0, 0, 0, 0, 0, 0)
    BY <2>1, <2>1b, <2>1c, Still, Zenon DEF Moves
  <2>3. TypeOK' /\ phase # "down" /\ (plan => plan') /\ 0 \in Int
        /\ 0 + 0 + 0 + 0 + 0 + 0 + 0 = 0
    BY <1>9, <1>10 DEF Answered
  <2> QED
    BY <2>2, <2>3, MovesKept, Zenon
<1> QED
  BY <1>9, <1>11, <1>12 DEF ShipperInv

\* A batch given up: refused traces are counted and forgone, refused minutes are noted.
LEMMA RefusedKeeps ==
  ASSUME ShipperInv, NEW verdict \in {"large", "refused"}, Answered(verdict), req.files = <<>>,
         Proceed(Tail(todo)), sent' = sent,
         \/ /\ req.kind = "traces" /\ dropped' = dropped + Len(req.body)
            /\ GiveUp(req.body) /\ UNCHANGED missing
         \/ /\ req.kind = "aggregates" /\ dropped' = dropped
            /\ Miss(req.body, "rejected") /\ UNCHANGED forgone
  PROVE  ShipperInv'
<1> USE DEF lossVars, countVars, intakeVars, bufferVars, consoleVars
<1> DEFINE rest == Tail(todo)
<1>1. /\ rest \in Seq(File) /\ \A k \in DOMAIN rest : rest[k].body # <<>>
      /\ req.kind \in Kinds /\ OneRecordEach(rest)
      /\ \A kind : CoveredIn(todo, kind) =
              (IF req.kind = kind THEN Covered(req.body) ELSE {}) \cup CoveredIn(rest, kind)
      /\ TraceRecords(todo) =
           (IF req.kind = "traces" THEN Len(req.body) ELSE 0) + TraceRecords(rest)
      /\ TraceRecords(rest) \in Nat
  BY InHand DEF Answered
<1>2. /\ UNCHANGED consoleVars /\ (plan => plan') /\ Proceed(rest)
      /\ \A k \in DOMAIN rest : rest[k].kind = "aggregates" =>
           \A t \in Covered(rest[k].body) : counted'[t] = 0
  BY CountedStep DEF Answered
<1>3. /\ Len(req.body) \in Nat /\ Covered(req.body) \subseteq Traces /\ LossTyped
      /\ sent \in Nat /\ dropped \in Nat
      /\ UNCHANGED <<observed, pending, disk, entered, trimmed>> /\ phase # "down"
  BY AnswerFrame
<1>4. LossTyped' /\ sent' \in Nat /\ dropped' \in Nat
  BY <1>3 DEF LossTyped, GiveUp, Miss, Reasons
<1> HIDE DEF rest
<1>5. /\ TypeOK' /\ ControlOK' /\ DownOK' /\ IdsOK' /\ RequestOK' /\ LateOK'
      /\ HeardOK' /\ InOnePlace' /\ CountedOK'
      /\ todo' = rest /\ Removing' = Removing + 0
      /\ \A kind : InMemory(kind) = CoveredIn(todo, kind)
                        \cup (IF kind = "traces" THEN Range(pending) ELSE InMinutes)
      /\ \A kind : InMemory(kind)' = CoveredIn(rest, kind)
                        \cup (IF kind = "traces" THEN Range(pending) ELSE InMinutes)
  BY <1>1, <1>2, <1>4, AnswerProceeds
<1>6. NothingLost'
  <2>1. /\ forgone \subseteq forgone'
        /\ \A t \in Traces : missing[t] # "no" => missing'[t] # "no"
        /\ req.kind = "traces" => Covered(req.body) \subseteq forgone'
        /\ req.kind = "aggregates" => \A t \in Covered(req.body) : missing'[t] # "no"
    BY <1>3 DEF GiveUp, Miss
  <2>2. \A t \in Traces :
          t \in InMemory("aggregates") \cup CoveredIn(disk, "aggregates") =>
            missing'[t] # "no" \/ t \in InMemory("aggregates")' \cup CoveredIn(disk', "aggregates")
    BY <1>1, <1>3, <1>5, <2>1
  <2>3. \A t \in Traces :
          t \in InMemory("traces") \cup CoveredIn(disk, "traces") =>
            t \in forgone' \cup InMemory("traces")' \cup CoveredIn(disk', "traces")
    BY <1>1, <1>3, <1>5, <2>1
  <2> QED
    BY <1>2, <1>3, <2>1, <2>2, <2>3, LossStep
<1>7. Accounted'
  <2> DEFINE n == IF req.kind = "traces" THEN Len(req.body) ELSE 0
             m == 0 - n
  <2>1. n \in Int /\ m \in Int /\ m + n = 0 /\ dropped' = dropped + n
    BY <1>1, <1>3, HeldParts DEF Kinds
  <2>2. TraceRecords(todo') = TraceRecords(rest) /\ TraceRecords(todo) = n + TraceRecords(rest)
    BY <1>1, <1>5
  <2> HIDE DEF n, m
  <2>3. TraceRecords(todo') = TraceRecords(todo) + m
    <3>1. TraceRecords(rest) \in Nat
      BY <1>1
    <3> QED
      BY <2>1, <2>2, <3>1
  <2>4. Moves(0, m, 0, 0, 0, n, 0, 0)
    BY <1>3, <1>5, <2>1, <2>3, Still DEF Moves
  <2>5. 0 + m + 0 + 0 + 0 + n + 0 = 0 /\ phase # "down" /\ TypeOK' /\ (plan => plan') /\ 0 \in Int
    BY <1>2, <1>3, <1>5, <2>1
  <2> QED
    BY <2>1, <2>4, <2>5, MovesKept, Zenon
<1> QED
  BY <1>5, <1>6, <1>7 DEF ShipperInv

\* A batch to be buffered.
LEMMA ToStoreKeeps ==
  ASSUME ShipperInv, NEW verdict, Answered(verdict), req.files = <<>>,
         pc' = "store", UNCHANGED <<todo, req, countVars, lossVars>>
  PROVE  ShipperInv'
<1> USE DEF lossVars, countVars, intakeVars, bufferVars, procVars
<1>1. /\ pc = "wait" /\ TypeOK /\ UNCHANGED <<phase, intakeVars, job, ids, disk, trimmed, list>>
      /\ ConsoleTyped' /\ BufferTypeOK' /\ ProcTyped' /\ phase # "down"
      /\ ConsoleTakes \/ UNCHANGED consoleVars
      /\ (plan => plan')
  BY AnswerFrame DEF Answered
<1>2. TypeOK'
  <2>1. SendTyped'
    BY <1>1, TypeFrames DEF SendTyped
  <2>2. UNCHANGED lossVars /\ UNCHANGED intakeVars /\ UNCHANGED countVars
    BY <1>1
  <2> QED
    BY <1>1, <2>1, <2>2, TypeFrames
<1>3. ControlOK'
  BY <1>1 DEF ShipperInv, ControlOK
<1>4. IdsOK'
  <2>1. known' \subseteq known \cup {req.id}
    BY AnswerFrame
  <2> QED
    BY <1>1, <2>1 DEF ShipperInv, IdsOK
<1>5. DownOK' /\ RequestOK' /\ InOnePlace' /\ LateOK'
  BY <1>1, Frames
<1>6. /\ arrived \subseteq arrived' /\ known \subseteq known'
      /\ \A t \in Traces : counted[t] > 0 => counted'[t] > 0
      /\ \A t \in Traces : counted'[t] <= 1 /\ (counted'[t] > 0 => t <= observed)
      /\ \A t \in Traces : counted'[t] = counted[t]
              \/ (req.kind = "aggregates" /\ t \in Covered(req.body))
      /\ UNCHANGED consoleVars \/ (req.id \notin known /\ known' = known \cup {req.id})
      /\ ConsoleTakes => HeardNext(req.kind, req.body) /\ req.id \in known'
  BY <1>1, ConsoleStep
<1>7. HeardOK'
  <2>1. \A id \in known' \cap DOMAIN disk : HeardNext(disk[id].kind, disk[id].body)
    BY <1>1, HeardStep
  <2>2. req.id \in known' => HeardNext(req.kind, req.body)
    <3>1. req.id \notin known
      BY <1>1 DEF ShipperInv, IdsOK
    <3> QED
      BY <1>1, <1>6, <3>1 DEF consoleVars
  <2> QED
    BY <1>1, <2>1, <2>2 DEF HeardOK, Heard, HeardNext
<1>8. CountedOK'
  <2>1. /\ \A t \in InMinutes : counted'[t] = 0
        /\ \A id \in OfKind(disk, "aggregates") \ known' :
              \A t \in Covered(disk[id].body) : counted'[t] = 0
    BY <1>1, CountedStep
  <2> DEFINE rest == Tail(todo)
  <2>2. \A k \in DOMAIN rest : rest[k].kind = "aggregates" =>
          \A t \in Covered(rest[k].body) : counted'[t] = 0
    BY <1>1, CountedStep
  <2>3. \A k \in DOMAIN todo : k # 1 => k - 1 \in DOMAIN rest /\ todo[k] = rest[k - 1]
    <3>1. todo \in Seq(File) /\ todo # <<>>
      BY <1>1 DEF TypeOK, ShipperInv, ControlOK
    <3> QED
      BY <3>1, HeadAndTail
  <2>4. ASSUME todo[1].kind = "aggregates", req.id \notin known'
        PROVE  \A t \in Covered(todo[1].body) : counted'[t] = 0
    <3>1. UNCHANGED consoleVars
      BY <1>6, <2>4
    <3>2. 1 \in DOMAIN todo
      <4>1. todo \in Seq(File) /\ todo # <<>>
        BY <1>1 DEF TypeOK, ShipperInv, ControlOK
      <4> QED
        BY <4>1, HeadAndTail
    <3> QED
      BY <1>1, <2>4, <3>1, <3>2 DEF ShipperInv, CountedOK, consoleVars
  <2> HIDE DEF rest
  <2>5. \A k \in DOMAIN todo :
          todo[k].kind = "aggregates" /\ ~(k = 1 /\ req.id \in known') =>
            \A t \in Covered(todo[k].body) : counted'[t] = 0
    <3> TAKE k \in DOMAIN todo
    <3>1. CASE k = 1
      BY <2>4, <3>1
    <3>2. CASE k # 1
      <4>1. k - 1 \in DOMAIN rest /\ todo[k] = rest[k - 1]
        BY <2>3, <3>2
      <4> QED
        BY <2>2, <4>1
    <3> QED
      BY <3>1, <3>2
  <2>6. InMinutes' = InMinutes
    BY <1>1 DEF InMinutes
  <2> QED
    BY <1>1, <1>6, <2>1, <2>5, <2>6 DEF CountedOK, AggregatesOnce
<1>9. NothingLost'
  <2>1. \A kind : InMemory(kind)' = InMemory(kind)
    BY <1>1 DEF InMemory, InMinutes
  <2> QED
    BY <1>1, <1>6, <2>1, LossStep
<1>10. Accounted'
  <2>1. Removing' = Removing
    BY <1>1 DEF Removing
  <2>1b. UNCHANGED <<pending, todo, disk, sent, dropped, trimmed, entered>>
    BY <1>1
  <2>2. Moves(0, 0, 0, 0, 0, 0, 0, 0)
    BY <1>1, <2>1, <2>1b, NothingMoves
  <2>3. 0 + 0 + 0 + 0 + 0 + 0 + 0 = 0 /\ 0 \in Int
    OBVIOUS
  <2> QED
    BY <1>1, <1>2, <2>2, <2>3, MovesKept, Zenon
<1> QED
  BY <1>2, <1>3, <1>4, <1>5, <1>7, <1>8, <1>9, <1>10 DEF ShipperInv

\* A request for files: kept as they are for later, or to be removed.
LEMMA AfterReplayKeeps ==
  ASSUME ShipperInv, NEW verdict, Answered(verdict), req.files # <<>>
  PROVE  ShipperInv'
<1> USE DEF lossVars, countVars, intakeVars, bufferVars, procVars
<1>1. /\ pc = "wait" /\ TypeOK /\ UNCHANGED <<phase, intakeVars, job, ids, disk, trimmed>>
      /\ ConsoleTyped' /\ BufferTypeOK' /\ ProcTyped' /\ phase # "down" /\ Removing = 0
      /\ ConsoleTakes \/ UNCHANGED consoleVars
      /\ (plan => plan') /\ UNCHANGED <<todo, countVars, lossVars>>
      /\ verdict \in {"ok", "large", "refused", "later"}
      /\ verdict = "ok" => ConsoleTakes
      /\ \/ pc' = "idle" /\ req' = NoBatch /\ list' = <<>>
         \/ /\ pc' = "remove" /\ verdict # "later" /\ list' = list
            /\ req' = [req EXCEPT !.verdict = verdict]
  BY AnswerFrame DEF Answered, AfterReplay
<1>2. todo = <<>> /\ job = "replay" /\ phase # "final"
  BY <1>1 DEF ShipperInv, ControlOK
<1>3. req \in [kind : Kinds, id : Nat, body : Bodies, files : Seq(Nat),
               verdict : {"none", "ok", "large", "refused", "later"}] /\ list \in Seq(Nat)
      /\ ids \in Nat
  BY <1>1 DEF TypeOK
<1>4. /\ NoBatch.files = <<>> /\ NoBatch.id = 0
      /\ NoBatch \in [kind : Kinds, id : Nat, body : Bodies, files : Seq(Nat),
                      verdict : {"none", "ok", "large", "refused", "later"}]
  BY DEF NoBatch, Kinds, Bodies
<1>5. pc' = "remove" => /\ req'.kind = req.kind /\ req'.id = req.id /\ req'.body = req.body
                        /\ req'.files = req.files /\ req'.verdict = verdict
  BY <1>1, <1>3
<1>6. TypeOK'
  <2>1. SendTyped'
    <3>1. req' \in [kind : Kinds, id : Nat, body : Bodies, files : Seq(Nat),
                    verdict : {"none", "ok", "large", "refused", "later"}]
      BY <1>1, <1>3, <1>4
    <3>2. list' \in Seq(Nat)
      <4>1. <<>> \in Seq(Nat)
        OBVIOUS
      <4>2. list' = <<>> \/ list' = list
        BY <1>1
      <4> QED
        BY <1>3, <4>1, <4>2
    <3> QED
      BY <1>1, <3>1, <3>2, TypeFrames DEF SendTyped
  <2>2. UNCHANGED lossVars /\ UNCHANGED intakeVars /\ UNCHANGED countVars
    BY <1>1
  <2> QED
    BY <1>1, <2>1, <2>2, TypeFrames
<1>7. ControlOK'
  BY <1>1, <1>2, <1>5 DEF ShipperInv, ControlOK
<1>8. IdsOK'
  <2>1. known' \subseteq known \cup {req.id} /\ req.id <= ids /\ req'.id <= ids
    <3>1. known' \subseteq known \cup {req.id}
      BY AnswerFrame
    <3>2. req.id <= ids
      BY DEF ShipperInv, IdsOK
    <3>3. req' = NoBatch => req'.id <= ids
      BY <1>3, <1>4
    <3> QED
      BY <1>1, <1>5, <3>1, <3>2, <3>3
  <2>2. \A k, l \in DOMAIN list' : list'[k] = list'[l] => k = l
    BY <1>1 DEF ShipperInv, IdsOK
  <2> QED
    BY <1>1, <2>1, <2>2 DEF ShipperInv, IdsOK
<1>9. RequestOK'
  <2>1. CASE pc' = "idle"
    BY <1>1, <1>4, <2>1, Frames
  <2>2. CASE pc' = "remove"
    BY <1>1, <1>5, <2>2 DEF ShipperInv, RequestOK
  <2> QED
    BY <1>1, <2>1, <2>2
<1>10. DownOK' /\ InOnePlace' /\ LateOK'
  BY <1>1, Frames
<1>11. /\ arrived \subseteq arrived' /\ known \subseteq known'
       /\ \A t \in Traces : counted[t] > 0 => counted'[t] > 0
       /\ \A t \in Traces : counted'[t] <= 1 /\ (counted'[t] > 0 => t <= observed)
       /\ ConsoleTakes => HeardNext(req.kind, req.body)
  BY <1>1, ConsoleStep
<1>12. HeardOK'
  <2>1. \A id \in known' \cap DOMAIN disk : HeardNext(disk[id].kind, disk[id].body)
    BY <1>1, HeardStep
  <2> QED
    BY <1>1, <1>5, <1>11, <2>1 DEF HeardOK, Heard, HeardNext
<1>13. CountedOK'
  <2>1. /\ \A t \in InMinutes : counted'[t] = 0
        /\ \A id \in OfKind(disk, "aggregates") \ known' :
              \A t \in Covered(disk[id].body) : counted'[t] = 0
    BY <1>1, CountedStep
  <2>2. InMinutes' = InMinutes
    BY <1>1 DEF InMinutes
  <2>3. DOMAIN todo' = {}
    BY <1>1, <1>2
  <2> QED
    BY <1>1, <1>11, <2>1, <2>2, <2>3 DEF CountedOK, AggregatesOnce
<1>14. NothingLost'
  <2>1. \A kind : InMemory(kind) \subseteq InMemory(kind)'
    BY <1>1 DEF InMemory, InMinutes
  <2> QED
    BY <1>1, <1>11, <2>1, LossStep
<1>15. Accounted'
  <2>1. Removing' = 0
    <3>1. Len(req.body) = Weight(disk, Range(req.files)) /\ Len(req.body) \in Nat
      BY <1>1, HeldParts DEF ShipperInv, RequestOK
    <3>2. CASE pc' = "idle"
      BY <3>2 DEF Removing
    <3>3. CASE pc' = "remove"
      <4>1. Len(req'.body) - Weight(disk', Range(req'.files)) = 0
        BY <1>1, <1>5, <3>1, <3>3
      <4> QED
        BY <4>1 DEF Removing
    <3> QED
      BY <1>1, <3>2, <3>3
  <2>1b. UNCHANGED <<pending, todo, disk, sent, dropped, trimmed, entered>>
    BY <1>1
  <2>2. Moves(0, 0, 0, 0, 0, 0, 0, 0)
    BY <1>1, <2>1, <2>1b, NothingMoves
  <2>3. 0 + 0 + 0 + 0 + 0 + 0 + 0 = 0 /\ 0 \in Int
    OBVIOUS
  <2> QED
    BY <1>1, <1>6, <2>2, <2>3, MovesKept, Zenon
<1> QED
  BY <1>6, <1>7, <1>8, <1>9, <1>10, <1>12, <1>13, <1>14, <1>15 DEF ShipperInv

\* The console answers a request, or it does not.
LEMMA AnswerKeeps ==
  ASSUME ShipperInv, Answer
  PROVE  ShipperInv'
<1>1. PICK verdict : Answered(verdict)
  BY AnswerShape
<1>2. CASE req.files # <<>>
  BY <1>1, <1>2, AfterReplayKeeps
<1>3. CASE req.files = <<>>
  <2>1. AfterSend(verdict) /\ verdict \in {"ok", "large", "refused", "later"}
        /\ req.kind \in Kinds /\ Len(req.body) \in Nat
    BY <1>1, <1>3, AnswerFrame DEF Answered, TypeOK
  <2>2. CASE verdict = "ok"
    BY <1>1, <1>3, <2>2, SentKeeps
  <2>3. CASE verdict = "large" /\ Len(req.body) > 1
    <3>1. Proceed(Halves(req.kind, req.body) \o Tail(todo)) /\ UNCHANGED <<countVars, lossVars>>
      BY <2>1, <2>3 DEF AfterSend
    <3> QED
      BY <1>1, <1>3, <2>3, <3>1, SplitKeeps
  <2>4. CASE pc' = "store" /\ UNCHANGED <<todo, req, countVars, lossVars>>
    BY <1>1, <1>3, <2>4, ToStoreKeeps
  <2>5. CASE /\ Proceed(Tail(todo)) /\ sent' = sent /\ verdict \in {"large", "refused"}
             /\ \/ /\ req.kind = "traces" /\ dropped' = dropped + Len(req.body)
                   /\ GiveUp(req.body) /\ UNCHANGED missing
                \/ /\ req.kind = "aggregates" /\ dropped' = dropped
                   /\ Miss(req.body, "rejected") /\ UNCHANGED forgone
    BY <1>1, <1>3, <2>5, RefusedKeeps
  <2> QED
    BY <2>1, <2>2, <2>3, <2>4, <2>5 DEF AfterSend, Kinds, countVars
<1> QED
  BY <1>2, <1>3

-----------------------------------------------------------------------------
(* The buffer                                                               *)

\* A batch is stored under its id, and the limit of the buffer kept.
LEMMA KeepKeeps ==
  ASSUME ShipperInv, Keep
  PROVE  ShipperInv'
<1> USE DEF lossVars, countVars, bufferVars, consoleVars
<1> DEFINE rest == Tail(todo)
           after == Stored(req.kind, req.id, req.body)
<1>1. /\ pc = "store" /\ TypeOK /\ req.files = <<>> /\ req.id \in Nat /\ req.id \notin DOMAIN disk
      /\ disk' = after.kept /\ forgone' = forgone \cup after.gone
      /\ dropped' = IF req.kind = "traces" THEN dropped + trimmed + after.count ELSE dropped
      /\ trimmed' = IF req.kind = "traces" THEN 0 ELSE trimmed + after.count
      /\ Proceed(rest)
      /\ UNCHANGED <<procVars, clock, intakeVars, flagVars, job, list, ids, sent, consoleVars,
                     faults, missing>>
  BY DEF ShipperInv, Keep, ControlOK, IdsOK, TypeOK, stored
<1>2. /\ rest \in Seq(File) /\ req.kind \in Kinds /\ req.body \in Bodies /\ req.body # <<>>
      /\ \A k \in DOMAIN rest : rest[k].body # <<>>
      /\ \A kind : CoveredIn(todo, kind) =
              (IF req.kind = kind THEN Covered(req.body) ELSE {}) \cup CoveredIn(rest, kind)
      /\ TraceRecords(todo) =
              (IF req.kind = "traces" THEN Len(req.body) ELSE 0) + TraceRecords(rest)
      /\ TraceRecords(rest) \in Nat
      /\ OneRecordEach(rest) /\ Uncounted(rest)
      /\ req.kind = "aggregates" =>
              /\ Apart(req.body)
              /\ Covered(req.body) \cap CoveredIn(rest, "aggregates") = {}
              /\ Covered(req.body) \cap InMinutes = {}
              /\ Covered(req.body) \cap CoveredIn(disk, "aggregates") = {}
              /\ Covered(req.body) \subseteq 1 .. observed
              /\ req.id \notin known => \A t \in Covered(req.body) : counted[t] = 0
  BY <1>1, InHand
<1>3. Buffered(after, req.kind, req.id, req.body)
  <2>1. Batches(disk)
    BY <1>1, DiskBatches
  <2> HIDE DEF rest
  <2> QED
    BY <1>1, <1>2, <2>1, StoredParts
<1> HIDE DEF rest, after
<1>4. /\ DOMAIN disk' \subseteq DOMAIN disk \cup {req.id} /\ Batches(disk')
      /\ disk' \in [DOMAIN disk' -> File]
      /\ \A j \in DOMAIN disk' :
           disk'[j] = IF j = req.id THEN [kind |-> req.kind, body |-> req.body] ELSE disk[j]
      /\ OfKind(disk', "aggregates") =
           OfKind(disk, "aggregates") \cup (IF req.kind = "aggregates" THEN {req.id} ELSE {})
      /\ CoveredIn(disk', "aggregates") =
           CoveredIn(disk, "aggregates")
             \cup (IF req.kind = "aggregates" THEN Covered(req.body) ELSE {})
      /\ CoveredIn(disk, "traces") \cup (IF req.kind = "traces" THEN Covered(req.body) ELSE {})
           \subseteq forgone' \cup CoveredIn(disk', "traces")
      /\ forgone \subseteq forgone' /\ after.gone \subseteq Traces /\ after.count \in Nat
      /\ TraceRecords(disk') \in Nat
      /\ TraceRecords(disk') + after.count =
           TraceRecords(disk) + (IF req.kind = "traces" THEN Len(req.body) ELSE 0)
  BY <1>1, <1>3 DEF Buffered
<1>5. BufferTypeOK'
  <2>1. DOMAIN disk' \subseteq Nat /\ IsFiniteSet(DOMAIN disk')
    BY <1>1, <1>4 DEF TypeOK, BufferTypeOK, Batches
  <2>2. trimmed' \in Nat
    <3>1. trimmed \in Nat /\ after.count \in Nat
      BY <1>1, <1>4 DEF TypeOK, BufferTypeOK
    <3>2. trimmed' = 0 \/ trimmed' = trimmed + after.count
      BY <1>1
    <3> QED
      BY <3>1, <3>2
  <2> QED
    BY <1>4, <2>1, <2>2 DEF BufferTypeOK
<1>6. LossTyped'
  BY <1>1, <1>4, TypeFrames DEF LossTyped
<1>7. sent' \in Nat /\ dropped' \in Nat
  <2>1. sent \in Nat /\ dropped \in Nat /\ trimmed \in Nat /\ after.count \in Nat
    BY <1>1, <1>4 DEF TypeOK, BufferTypeOK
  <2>2. sent' = sent /\ (dropped' = dropped \/ dropped' = dropped + trimmed + after.count)
    BY <1>1
  <2> QED
    BY <2>1, <2>2
<1>8. /\ TypeOK' /\ ControlOK' /\ DownOK' /\ IdsOK' /\ RequestOK' /\ LateOK'
      /\ pc' \notin {"wait", "store", "remove"} /\ phase # "down"
      /\ todo' = rest /\ req' = NoBatch /\ Removing' = Removing + 0
  <2>1. ProcTyped' /\ ConsoleTyped'
    BY <1>1, TypeFrames
  <2>2. \A id \in DOMAIN disk' : disk'[id].body # <<>>
    BY <1>2, <1>4 DEF ShipperInv, ControlOK
  <2>3. known' \subseteq known \cup {req.id}
    BY <1>1
  <2>4. UNCHANGED <<procVars, intakeVars, job, list, ids>>
    BY <1>1
  <2> QED
    BY <1>1, <1>2, <1>4, <1>5, <1>6, <1>7, <2>1, <2>2, <2>3, <2>4, Proceeds
<1>9. minutes' = minutes /\ observed' = observed /\ InMinutes' = InMinutes /\ pending' = pending
      /\ entered' = entered
  BY <1>1 DEF intakeVars, InMinutes
<1>10. HeardOK'
  <2>1. ASSUME NEW id \in known' \cap DOMAIN disk' PROVE Heard(disk'[id].kind, disk'[id].body)
    <3>1. CASE id = req.id
      BY <1>1, <1>4, <2>1, <3>1 DEF ShipperInv, HeardOK
    <3>2. CASE id # req.id
      BY <1>1, <1>4, <2>1, <3>2 DEF ShipperInv, HeardOK
    <3> QED
      BY <3>1, <3>2
  <2> QED
    BY <1>1, <1>8, <2>1 DEF HeardOK, Heard
<1>11. /\ \A id \in OfKind(disk, "aggregates") : id \in DOMAIN disk' /\ id # req.id
                                                   /\ disk'[id] = disk[id]
       /\ req.kind = "aggregates" => disk'[req.id].body = req.body
       /\ \A id \in OfKind(disk, "aggregates") :
            Covered(disk[id].body) \subseteq CoveredIn(disk, "aggregates")
  <2>1. \A id \in OfKind(disk, "aggregates") :
          id \in OfKind(disk', "aggregates") /\ id \in DOMAIN disk
    BY <1>4 DEF OfKind
  <2>2. OfKind(disk', "aggregates") \subseteq DOMAIN disk'
    BY DEF OfKind
  <2>3. req.kind = "aggregates" => req.id \in DOMAIN disk'
    BY <1>4, <2>2
  <2> QED
    BY <1>1, <1>4, <2>1, <2>2, <2>3 DEF CoveredIn, CoveredBy
<1>12. InOnePlace'
  <2>1. \A id \in OfKind(disk', "aggregates") : Apart(disk'[id].body)
    BY <1>2, <1>4, <1>11 DEF ShipperInv, InOnePlace
  <2>2. ASSUME NEW i \in OfKind(disk', "aggregates"), NEW j \in OfKind(disk', "aggregates"), i # j
        PROVE  Covered(disk'[i].body) \cap Covered(disk'[j].body) = {}
    <3>1. CASE i \in OfKind(disk, "aggregates") /\ j \in OfKind(disk, "aggregates")
      BY <1>11, <2>2, <3>1 DEF ShipperInv, InOnePlace
    <3>2. CASE i = req.id /\ j \in OfKind(disk, "aggregates") /\ req.kind = "aggregates"
      BY <1>2, <1>11, <3>2
    <3>3. CASE j = req.id /\ i \in OfKind(disk, "aggregates") /\ req.kind = "aggregates"
      BY <1>2, <1>11, <3>3
    <3> QED
      BY <1>4, <2>2, <3>1, <3>2, <3>3
  <2>3. /\ InMinutes \cap CoveredIn(disk', "aggregates") = {}
        /\ CoveredIn(rest, "aggregates") \cap CoveredIn(disk', "aggregates") = {}
        /\ InMinutes \cup CoveredIn(rest, "aggregates") \cup CoveredIn(disk', "aggregates")
             \subseteq 1 .. observed
    BY <1>2, <1>4 DEF ShipperInv, InOnePlace, OneRecordEach
  <2> QED
    BY <1>2, <1>8, <1>9, <2>1, <2>2, <2>3 DEF ShipperInv, InOnePlace, OneRecordEach
<1>13. CountedOK'
  <2>1. \A id \in OfKind(disk', "aggregates") \ known' :
          \A t \in Covered(disk'[id].body) : counted[t] = 0
    BY <1>1, <1>2, <1>4, <1>11 DEF ShipperInv, CountedOK
  <2> QED
    BY <1>1, <1>2, <1>8, <1>9, <2>1 DEF ShipperInv, CountedOK, AggregatesOnce, Uncounted
<1>14. NothingLost'
  <2>1. /\ \A kind : InMemory(kind) = CoveredIn(todo, kind)
                        \cup (IF kind = "traces" THEN Range(pending) ELSE InMinutes)
        /\ \A kind : InMemory(kind)' = CoveredIn(rest, kind)
                        \cup (IF kind = "traces" THEN Range(pending) ELSE InMinutes)
    BY <1>1, <1>8, <1>9 DEF InMemory
  <2>2. \A t \in Traces :
          t \in InMemory("aggregates") \cup CoveredIn(disk, "aggregates") =>
            t \in InMemory("aggregates")' \cup CoveredIn(disk', "aggregates")
    BY <1>2, <1>4, <2>1
  <2>3. \A t \in Traces :
          t \in InMemory("traces") \cup CoveredIn(disk, "traces") =>
            t \in forgone' \cup InMemory("traces")' \cup CoveredIn(disk', "traces")
    BY <1>2, <1>4, <2>1
  <2> QED
    BY <1>1, <1>4, <1>9, <2>2, <2>3, LossStep
<1>15. Accounted'
  <2> DEFINE n == IF req.kind = "traces" THEN Len(req.body) ELSE 0
             b == 0 - n
             g == after.count
             c == n - g
             v == dropped' - dropped
             w == trimmed' - trimmed
             D == TraceRecords(disk)
             R == TraceRecords(rest)
  <2>1. n \in Int /\ g \in Int /\ D \in Int /\ R \in Int
        /\ TraceRecords(disk') \in Int /\ TraceRecords(disk') + g = D + n
        /\ TraceRecords(todo') = R /\ TraceRecords(todo) = n + R
    <3>1. Len(req.body) \in Nat
      BY <1>2 DEF Bodies
    <3>2. D \in Nat
      BY HeldParts
    <3>3. TraceRecords(todo') = R /\ TraceRecords(todo) = n + R /\ R \in Nat
      BY <1>2, <1>8
    <3>4. g \in Nat /\ TraceRecords(disk') \in Nat /\ TraceRecords(disk') + g = D + n
      BY <1>4
    <3> QED
      BY <3>1, <3>2, <3>3, <3>4
  <2>2. /\ dropped \in Int /\ trimmed \in Int
        /\ \/ dropped' = dropped + trimmed + g /\ trimmed' = 0
           \/ dropped' = dropped /\ trimmed' = trimmed + g
    BY <1>1, HeldParts
  <2>3. b \in Int /\ c \in Int /\ v \in Int /\ w \in Int /\ v + w = g
    <3> HIDE DEF n, g
    <3> QED
      BY <2>1, <2>2
  <2>4. TraceRecords(todo') = TraceRecords(todo) + b /\ TraceRecords(disk') = TraceRecords(disk) + c
        /\ dropped' = dropped + v /\ trimmed' = trimmed + w
    <3> HIDE DEF n, g, R
    <3> QED
      BY <2>1, <2>2
  <2>5. 0 + b + c + 0 + 0 + v + w = 0
    <3> HIDE DEF n, g, v, w
    <3> QED
      BY <2>1, <2>3
  <2> HIDE DEF n, b, g, c, v, w, D, R
  <2>6. Moves(0, b, c, 0, 0, v, w, 0)
    BY <1>1, <1>8, <1>9, <2>4, Still DEF Moves
  <2>7. phase # "down" /\ TypeOK' /\ (plan => plan') /\ 0 \in Int
    BY <1>1, <1>8 DEF flagVars
  <2> QED
    BY <2>3, <2>5, <2>6, <2>7, MovesKept, Zenon
<1> QED
  BY <1>8, <1>10, <1>12, <1>13, <1>14, <1>15 DEF ShipperInv

\* A batch that cannot be stored is given up.
LEMMA KeepFailsKeeps ==
  ASSUME ShipperInv, KeepFails
  PROVE  ShipperInv'
<1> USE DEF lossVars, countVars, bufferVars, consoleVars
<1> DEFINE rest == Tail(todo)
<1>1. /\ pc = "store" /\ TypeOK /\ req.files = <<>>
      /\ faults' \in 0 .. MaxFaults /\ Proceed(rest)
      /\ \/ /\ req.kind = "traces" /\ dropped' = dropped + Len(req.body)
            /\ GiveUp(req.body) /\ UNCHANGED missing
         \/ /\ req.kind = "aggregates" /\ dropped' = dropped
            /\ Miss(req.body, "disk") /\ UNCHANGED forgone
      /\ UNCHANGED <<procVars, clock, intakeVars, flagVars, job, list, ids, sent, consoleVars,
                     bufferVars>>
  BY ShipperAssumption DEF ShipperInv, KeepFails, Fault, ControlOK, TypeOK, Kinds, stored
<1>2. /\ rest \in Seq(File) /\ req.kind \in Kinds /\ req.body \in Bodies
      /\ \A k \in DOMAIN rest : rest[k].body # <<>>
      /\ \A kind : CoveredIn(todo, kind) =
              (IF req.kind = kind THEN Covered(req.body) ELSE {}) \cup CoveredIn(rest, kind)
      /\ TraceRecords(todo) =
              (IF req.kind = "traces" THEN Len(req.body) ELSE 0) + TraceRecords(rest)
      /\ TraceRecords(rest) \in Nat
      /\ OneRecordEach(rest) /\ Uncounted(rest)
  BY <1>1, InHand
<1>3. Len(req.body) \in Nat /\ Covered(req.body) \subseteq Traces
  BY <1>2, CoveredTyped DEF Bodies
<1>4. LossTyped' /\ sent' \in Nat /\ dropped' \in Nat
  BY <1>1, <1>3 DEF LossTyped, GiveUp, Miss, Reasons, TypeOK
<1> HIDE DEF rest
<1>5. /\ TypeOK' /\ ControlOK' /\ DownOK' /\ IdsOK' /\ RequestOK' /\ LateOK'
      /\ pc' \notin {"wait", "store", "remove"} /\ phase # "down"
      /\ todo' = rest /\ req' = NoBatch /\ Removing' = Removing + 0
  <2>1. ProcTyped' /\ ConsoleTyped' /\ BufferTypeOK'
    BY <1>1, TypeFrames DEF ProcTyped, procVars, flagVars
  <2>2. \A id \in DOMAIN disk' : disk'[id].body # <<>>
    BY <1>1 DEF ShipperInv, ControlOK
  <2>3. known' \subseteq known \cup {req.id} /\ DOMAIN disk' \subseteq DOMAIN disk \cup {req.id}
    BY <1>1
  <2>4. UNCHANGED <<procVars, intakeVars, job, list, ids>>
    BY <1>1
  <2> QED
    BY <1>1, <1>2, <1>4, <2>1, <2>2, <2>3, <2>4, Proceeds
<1>6. minutes' = minutes /\ observed' = observed /\ InMinutes' = InMinutes /\ pending' = pending
      /\ entered' = entered
  BY <1>1 DEF intakeVars, InMinutes
<1>7. HeardOK'
  BY <1>1, <1>5, Frames
<1>8. InOnePlace'
  BY <1>1, <1>2, <1>5, <1>6 DEF ShipperInv, InOnePlace, OneRecordEach
<1>9. CountedOK'
  BY <1>1, <1>2, <1>5, <1>6 DEF ShipperInv, CountedOK, AggregatesOnce, Uncounted
<1>10. NothingLost'
  <2>1. /\ forgone \subseteq forgone'
        /\ \A t \in Traces : missing[t] # "no" => missing'[t] # "no"
        /\ req.kind = "traces" => Covered(req.body) \subseteq forgone'
        /\ req.kind = "aggregates" => \A t \in Covered(req.body) : missing'[t] # "no"
    BY <1>1, <1>3 DEF GiveUp, Miss
  <2>2. /\ \A kind : InMemory(kind) = CoveredIn(todo, kind)
                        \cup (IF kind = "traces" THEN Range(pending) ELSE InMinutes)
        /\ \A kind : InMemory(kind)' = CoveredIn(rest, kind)
                        \cup (IF kind = "traces" THEN Range(pending) ELSE InMinutes)
    BY <1>1, <1>5, <1>6 DEF InMemory
  <2>3. \A t \in Traces :
          t \in InMemory("aggregates") \cup CoveredIn(disk, "aggregates") =>
            missing'[t] # "no" \/ t \in InMemory("aggregates")' \cup CoveredIn(disk', "aggregates")
    BY <1>1, <1>2, <1>3, <2>1, <2>2
  <2>4. \A t \in Traces :
          t \in InMemory("traces") \cup CoveredIn(disk, "traces") =>
            t \in forgone' \cup InMemory("traces")' \cup CoveredIn(disk', "traces")
    BY <1>1, <1>2, <1>3, <2>1, <2>2
  <2> QED
    BY <1>1, <1>6, <2>1, <2>3, <2>4, LossStep
<1>11. Accounted'
  <2> DEFINE n == IF req.kind = "traces" THEN Len(req.body) ELSE 0
             m == 0 - n
  <2>1. n \in Int /\ m \in Int /\ m + n = 0 /\ dropped' = dropped + n
    BY <1>1, <1>3, HeldParts DEF Kinds
  <2>2. TraceRecords(todo') = TraceRecords(rest) /\ TraceRecords(todo) = n + TraceRecords(rest)
    BY <1>2, <1>5
  <2> HIDE DEF n, m
  <2>3. TraceRecords(todo') = TraceRecords(todo) + m
    <3>1. TraceRecords(rest) \in Nat
      BY <1>2
    <3> QED
      BY <2>1, <2>2, <3>1
  <2>4. Moves(0, m, 0, 0, 0, n, 0, 0)
    BY <1>1, <1>5, <1>6, <2>1, <2>3, Still DEF Moves
  <2>5. 0 + m + 0 + 0 + 0 + n + 0 = 0 /\ phase # "down" /\ TypeOK' /\ (plan => plan') /\ 0 \in Int
    BY <1>1, <1>5, <2>1 DEF flagVars
  <2> QED
    BY <2>1, <2>4, <2>5, MovesKept, Zenon
<1> QED
  BY <1>5, <1>7, <1>8, <1>9, <1>10, <1>11 DEF ShipperInv

-----------------------------------------------------------------------------
(* A file is removed                                                        *)

\* What stays the same when replayBuffer removes a file.
Removes(id) ==
  /\ pc \in {"replay", "remove"} /\ disk' = Removed(id) /\ trimmed' = trimmed
  /\ req' = [req EXCEPT !.files = req'.files] /\ (pc = "replay" => req' = req)
  /\ UNCHANGED <<pc, todo, minutes, pending, observed, late, ids, phase, job>>
  /\ UNCHANGED consoleVars
  /\ list' \in {list, Tail(list)}

\* The file and its records are gone, and nothing else is.
LEMMA RemovedParts ==
  ASSUME ShipperInv, NEW id \in Nat, Removes(id), list # <<>> \/ list' = list
  PROVE  /\ BufferTypeOK' /\ ControlOK' /\ DownOK' /\ IdsOK' /\ HeardOK' /\ InOnePlace'
         /\ CountedOK' /\ LateOK' /\ phase # "down" /\ list' \in Seq(Nat)
         /\ LeftOver(disk, {id}, disk')
         /\ id \notin DOMAIN disk => disk' = disk /\ TraceRecords(disk') = TraceRecords(disk)
         /\ id \in OfKind(disk, "traces") =>
              TraceRecords(disk) = TraceRecords(disk') + Len(disk[id].body)
         /\ id \in OfKind(disk, "aggregates") => TraceRecords(disk) = TraceRecords(disk')
         /\ \A kind : CoveredIn(disk, kind) \subseteq CoveredIn(disk', kind)
              \cup (IF id \in OfKind(disk, kind) THEN Covered(disk[id].body) ELSE {})
<1> USE DEF consoleVars
<1>1. /\ TypeOK /\ pc \in {"replay", "remove"} /\ trimmed' = trimmed /\ phase # "down"
      /\ req'.id = req.id /\ req'.kind = req.kind /\ req'.body = req.body
      /\ req'.verdict = req.verdict /\ (pc = "replay" => req = NoBatch)
  BY DEF ShipperInv, DownOK, ControlOK, Removes, TypeOK
<1>2. Batches(disk) /\ disk' = Without(disk, {id})
  BY <1>1, DiskBatches DEF Removes, Removed
<1>3. LeftOver(disk, {id}, disk')
  BY <1>2, WithoutParts
<1>4. /\ DOMAIN disk' = DOMAIN disk \ {id}
      /\ \A j \in DOMAIN disk' : disk'[j] = disk[j]
      /\ disk' \in [DOMAIN disk' -> File] /\ Batches(disk')
      /\ \A kind : OfKind(disk', kind) = OfKind(disk, kind) \ {id}
      /\ \A kind : CoveredIn(disk, kind) = CoveredIn(disk', kind)
           \cup CoveredBy(disk, OfKind(disk, kind) \cap {id})
      /\ TraceRecords(disk) = TraceRecords(disk') + Weight(disk, OfKind(disk, "traces") \cap {id})
      /\ TraceRecords(disk') \in Nat
  BY <1>3 DEF LeftOver
<1>5. BufferTypeOK'
  BY <1>1, <1>4 DEF TypeOK, BufferTypeOK, Batches
<1>6. \A kind : CoveredIn(disk, kind) \subseteq CoveredIn(disk', kind)
        \cup (IF id \in OfKind(disk, kind) THEN Covered(disk[id].body) ELSE {})
  BY <1>4 DEF CoveredBy
<1>7. /\ \A kind : CoveredIn(disk', kind) \subseteq CoveredIn(disk, kind)
      /\ \A j \in OfKind(disk', "aggregates") :
           j \in OfKind(disk, "aggregates") /\ disk'[j] = disk[j]
  BY <1>4 DEF OfKind
<1>8. InMinutes' = InMinutes
  BY DEF Removes, InMinutes
<1>9. InOnePlace'
  <2>1. InOnePlace
    BY DEF ShipperInv
  <2>2. /\ \A j \in OfKind(disk', "aggregates") : Apart(disk'[j].body)
        /\ \A i, j \in OfKind(disk', "aggregates") :
             i # j => Covered(disk'[i].body) \cap Covered(disk'[j].body) = {}
    BY <1>7, <2>1 DEF InOnePlace
  <2>3. /\ InMinutes \cap CoveredIn(disk', "aggregates") = {}
        /\ CoveredIn(todo, "aggregates") \cap CoveredIn(disk', "aggregates") = {}
        /\ InMinutes \cup CoveredIn(todo, "aggregates") \cup CoveredIn(disk', "aggregates")
             \subseteq 1 .. observed
    BY <1>7, <2>1 DEF InOnePlace
  <2> QED
    BY <1>8, <2>1, <2>2, <2>3 DEF InOnePlace, Removes
<1>10. CountedOK'
  <2>1. CountedOK /\ pc # "store" /\ pc' # "store"
    BY <1>1 DEF ShipperInv, Removes
  <2>2. \A j \in OfKind(disk', "aggregates") \ known :
          \A t \in Covered(disk'[j].body) : counted[t] = 0
    BY <1>7, <2>1 DEF CountedOK
  <2> QED
    BY <1>8, <2>1, <2>2 DEF CountedOK, AggregatesOnce, Removes
<1>11. ControlOK'
  <2>1. /\ ControlOK /\ \A j \in DOMAIN disk' : disk'[j].body # <<>>
        /\ UNCHANGED <<pc, todo, job, phase>> /\ pc \in {"replay", "remove"}
        /\ pc = "replay" => req' = NoBatch
    BY <1>1, <1>4 DEF ShipperInv, ControlOK, Removes
  <2> QED
    BY <1>1, <2>1 DEF ControlOK
<1>12. list' \in Seq(Nat) /\ \A k, l \in DOMAIN list' : list'[k] = list'[l] => k = l
  <2>1. list \in Seq(Nat) /\ \A k, l \in DOMAIN list : list[k] = list[l] => k = l
    BY <1>1 DEF ShipperInv, IdsOK, TypeOK
  <2>2. CASE list' = list
    BY <2>1, <2>2
  <2>3. CASE list' = Tail(list) /\ list # <<>>
    <3>1. /\ Tail(list) \in Seq(Nat)
          /\ \A k \in DOMAIN Tail(list) : k + 1 \in DOMAIN list /\ Tail(list)[k] = list[k + 1]
                                                              /\ k \in Int
      BY <2>1, <2>3
    <3> QED
      BY <2>1, <2>3, <3>1
  <2> QED
    BY <2>2, <2>3 DEF Removes
<1>13. IdsOK'
  BY <1>1, <1>4, <1>12 DEF ShipperInv, IdsOK, Removes
<1>14. HeardOK'
  <2>1. HeardOK /\ UNCHANGED <<pc, known, arrived, counted>>
        /\ \A j \in known \cap DOMAIN disk' : j \in known \cap DOMAIN disk /\ disk'[j] = disk[j]
    BY <1>4 DEF ShipperInv, Removes
  <2> QED
    BY <1>1, <2>1 DEF HeardOK, Heard
<1>15. DownOK' /\ LateOK'
  <2>1. UNCHANGED <<late, observed>> /\ UNCHANGED <<phase, job, pending, minutes>>
    BY DEF Removes
  <2> QED
    BY <1>1, <2>1, Frames
<1>16. ASSUME id \notin DOMAIN disk PROVE disk' = disk
  <2>1. disk = [j \in DOMAIN disk |-> disk[j]] /\ disk' = [j \in DOMAIN disk' |-> disk'[j]]
    BY <1>1, <1>4 DEF TypeOK, BufferTypeOK
  <2>2. DOMAIN disk' = DOMAIN disk
    BY <1>4, <1>16
  <2> QED
    BY <1>4, <2>1, <2>2
<1>17. ASSUME id \in OfKind(disk, "traces")
       PROVE  TraceRecords(disk) = TraceRecords(disk') + Len(disk[id].body)
  <2>1. OfKind(disk, "traces") \cap {id} = {id} /\ {id} \ {id} = {} /\ {id} \in SUBSET DOMAIN disk
    BY <1>17 DEF OfKind
  <2>2. Weight(disk, {id}) = Len(disk[id].body) + Weight(disk, {id} \ {id}) /\ Weight(disk, {}) = 0
    BY <1>2, <2>1, WeightParts
  <2>3. Len(disk[id].body) \in Nat
    BY <1>1, <2>1, DiskBatches DEF Bodies
  <2>4. Weight(disk, OfKind(disk, "traces") \cap {id}) = Len(disk[id].body)
    <3>1. Weight(disk, {id}) = Len(disk[id].body) + 0
      BY <2>1, <2>2
    <3> QED
      BY <2>1, <2>3, <3>1
  <2> QED
    BY <1>4, <2>4
<1>18. ASSUME id \in OfKind(disk, "aggregates") PROVE TraceRecords(disk) = TraceRecords(disk')
  <2>1. OfKind(disk, "traces") \cap {id} = {}
    BY <1>18 DEF OfKind
  <2>2. Weight(disk, OfKind(disk, "traces") \cap {id}) = 0
    BY <1>2, <2>1, WeightParts
  <2> QED
    BY <1>4, <2>2
<1> QED
  BY <1>1, <1>3, <1>5, <1>6, <1>9, <1>10, <1>11, <1>12, <1>13, <1>14, <1>15, <1>16, <1>17, <1>18

\* One file of a request that is settled: what was in it is still in the request.
LEMMA RemoveFileKeeps ==
  ASSUME ShipperInv, RemoveFile
  PROVE  ShipperInv'
<1> USE DEF procVars, flagVars, intakeVars, sendVars, countVars, consoleVars, lossVars
<1> DEFINE f == Head(req.files)
           left == Tail(req.files)
<1>1. /\ TypeOK /\ pc = "remove" /\ req.files # <<>> /\ req.files \in Seq(Nat)
      /\ disk' = Removed(f) /\ req' = [req EXCEPT !.files = left]
      /\ UNCHANGED <<procVars, faults, clock, intakeVars, flagVars, job, todo, consoleVars,
                     pc, list, ids, countVars, lossVars, trimmed>>
  BY DEF ShipperInv, RemoveFile, replaying, TypeOK
<1>2. /\ f \in Nat /\ left \in Seq(Nat) /\ f \in Range(req.files) /\ f \notin Range(left)
      /\ Range(left) = Range(req.files) \ {f}
      /\ \A k, l \in DOMAIN left : left[k] = left[l] => k = l
  <2>1. \A k, l \in DOMAIN req.files : req.files[k] = req.files[l] => k = l
    BY DEF ShipperInv, RequestOK
  <2> DEFINE q == req.files
  <2>2. q \in Seq(Nat) /\ q # <<>> /\ f = Head(q) /\ left = Tail(q)
        /\ \A k, l \in DOMAIN q : q[k] = q[l] => k = l
    BY <1>1, <2>1
  <2> HIDE DEF q, f, left
  <2>3. /\ f = q[1] /\ 1 \in DOMAIN q /\ f \in Nat /\ left \in Seq(Nat)
        /\ \A k \in DOMAIN left : k + 1 \in DOMAIN q /\ k + 1 # 1 /\ left[k] = q[k + 1] /\ k \in Int
        /\ \A k \in DOMAIN q : k # 1 => k - 1 \in DOMAIN left /\ q[k] = left[k - 1]
    <3>1. DOMAIN q = 1 .. Len(q) /\ Len(q) \in Nat /\ Len(q) # 0 /\ Len(left) = Len(q) - 1
          /\ left \in Seq(Nat) /\ \A k \in 1 .. Len(q) - 1 : left[k] = q[k + 1]
      BY <2>2
    <3> QED
      BY <2>2, <3>1
  <2>4. f \in Range(q) /\ f \notin Range(left)
    BY <2>2, <2>3 DEF Range
  <2>5. Range(left) = Range(q) \ {f}
    <3>1. Range(left) \subseteq Range(q) \ {f}
      BY <2>3, <2>4 DEF Range
    <3>2. ASSUME NEW x \in Range(q), x # f PROVE x \in Range(left)
      <4>1. PICK k \in DOMAIN q : q[k] = x
        BY <3>2 DEF Range
      <4>2. k - 1 \in DOMAIN left /\ left[k - 1] = x
        BY <2>3, <3>2, <4>1
      <4> QED
        BY <4>2 DEF Range
    <3> QED
      BY <3>1, <3>2
  <2>6. \A k, l \in DOMAIN left : left[k] = left[l] => k = l
    BY <2>2, <2>3
  <2> QED
    BY <2>3, <2>4, <2>5, <2>6 DEF q
<1> HIDE DEF f, left
<1>3. /\ req'.files = left /\ req'.kind = req.kind /\ req'.body = req.body
      /\ req'.verdict = req.verdict /\ req'.id = req.id
  BY <1>1 DEF TypeOK
<1>4. Removes(f)
  <2>1. req' = [req EXCEPT !.files = req'.files]
    BY <1>1, <1>3
  <2> QED
    BY <1>1, <2>1 DEF Removes
<1>5. f \in OfKind(disk, req.kind) /\ Covered(disk[f].body) \subseteq Covered(req.body)
      /\ f \in DOMAIN disk /\ req.kind \in Kinds
  BY <1>1, <1>2 DEF ShipperInv, RequestOK, TypeOK, OfKind
<1>6. /\ BufferTypeOK' /\ ControlOK' /\ DownOK' /\ IdsOK' /\ HeardOK' /\ InOnePlace'
      /\ CountedOK' /\ LateOK' /\ phase # "down"
      /\ LeftOver(disk, {f}, disk')
      /\ f \in OfKind(disk, "traces") =>
              TraceRecords(disk) = TraceRecords(disk') + Len(disk[f].body)
      /\ f \in OfKind(disk, "aggregates") => TraceRecords(disk) = TraceRecords(disk')
      /\ \A kind : CoveredIn(disk, kind) \subseteq CoveredIn(disk', kind)
              \cup (IF f \in OfKind(disk, kind) THEN Covered(disk[f].body) ELSE {})
  BY <1>1, <1>2, <1>4, RemovedParts
<1>7. TypeOK'
  <2>1. SendTyped'
    <3>1. req' = [kind |-> req.kind, id |-> req.id, body |-> req.body, files |-> left,
                  verdict |-> req.verdict]
      BY <1>1 DEF TypeOK
    <3>2. req' \in [kind : Kinds, id : Nat, body : Bodies, files : Seq(Nat),
                    verdict : {"none", "ok", "large", "refused", "later"}]
      BY <1>1, <1>2, <3>1 DEF TypeOK
    <3> QED
      BY <1>1, <3>2, TypeFrames DEF SendTyped
  <2>2. UNCHANGED <<procVars, faults, clock, flagVars>> /\ UNCHANGED intakeVars
        /\ UNCHANGED consoleVars /\ UNCHANGED lossVars /\ UNCHANGED countVars
    BY <1>1
  <2> QED
    BY <1>1, <1>6, <2>1, <2>2, TypeFrames
<1>8. \A g \in Range(left) : g \in OfKind(disk', req.kind) /\ disk'[g] = disk[g]
        /\ g \in Range(req.files) /\ g \in DOMAIN disk /\ g \in DOMAIN disk'
  BY <1>2, <1>6 DEF LeftOver, ShipperInv, RequestOK, OfKind
<1>9. RequestOK'
  BY <1>1, <1>2, <1>3, <1>8 DEF ShipperInv, RequestOK
<1>10. NothingLost'
  <2>1. \A kind : InMemory(kind)' = InMemory(kind)
    BY <1>1, <1>3 DEF InMemory, InMinutes
  <2>2. \A kind : req.kind = kind => Covered(req.body) \subseteq InMemory(kind)
    BY <1>1 DEF InMemory
  <2>3. \A kind : CoveredIn(disk, kind) \subseteq CoveredIn(disk', kind) \cup InMemory(kind)
    <3>1. \A kind : f \in OfKind(disk, kind) => req.kind = kind
      BY <1>5 DEF OfKind
    <3> QED
      BY <1>5, <1>6, <2>2, <3>1
  <2> QED
    BY <1>1, <2>1, <2>3, LossStep
<1>11. Accounted'
  <2> DEFINE n == IF req.kind = "traces" THEN Len(disk[f].body) ELSE 0
             c == 0 - n
  <2>1. Batches(disk) /\ Len(disk[f].body) \in Nat /\ Range(req.files) \in SUBSET DOMAIN disk
    <3>1. Range(req.files) \subseteq DOMAIN disk
      BY DEF ShipperInv, RequestOK, OfKind
    <3> QED
      BY <1>1, <1>5, <3>1, DiskBatches DEF Bodies
  <2>2. Weight(disk, Range(req.files)) = Len(disk[f].body) + Weight(disk, Range(left))
    BY <1>2, <2>1, WeightParts
  <2>3. Weight(disk', Range(left)) = Weight(disk, Range(left))
    <3>1. Range(left) \in SUBSET DOMAIN disk /\ Range(left) \subseteq DOMAIN disk'
          /\ \A g \in Range(left) : disk'[g].body = disk[g].body
      BY <1>8
    <3> QED
      BY <2>1, <3>1, WeightSame
  <2>4. n \in Int /\ c \in Int /\ 0 + 0 + c + n + 0 + 0 + 0 = 0
    BY <2>1
  <2>5. Removing' = Removing + n
    <3>1. Len(req.body) \in Int /\ Weight(disk, Range(left)) \in Int
      <4>1. Range(left) \in SUBSET DOMAIN disk
        BY <1>2, <2>1
      <4> QED
        BY <2>1, <4>1, WeightParts, HeldParts
    <3> DEFINE y == Weight(disk, Range(left))
               z == Len(disk[f].body)
    <3>2. y \in Int /\ z \in Int /\ Weight(disk, Range(req.files)) = z + y
          /\ Weight(disk', Range(left)) = y
      BY <2>1, <2>2, <2>3, <3>1
    <3>3. Removing = (IF req.kind = "traces" THEN Len(req.body) - (z + y) ELSE 0)
          /\ Removing' = (IF req.kind = "traces" THEN Len(req.body) - y ELSE 0)
      BY <1>1, <1>3, <3>2 DEF Removing
    <3> HIDE DEF y, z
    <3>4. CASE req.kind = "traces"
      <4>1. n = z
        BY <3>4 DEF z
      <4> HIDE DEF n
      <4> QED
        BY <3>1, <3>2, <3>3, <3>4, <4>1
    <3>5. CASE req.kind # "traces"
      BY <3>3, <3>5
    <3> QED
      BY <3>4, <3>5
  <2>6. TraceRecords(disk') = TraceRecords(disk) + c
    <3>1. TraceRecords(disk) \in Int /\ TraceRecords(disk') \in Int
      BY <1>6, HeldParts DEF LeftOver
    <3>2. TraceRecords(disk) = TraceRecords(disk') + n
      BY <1>5, <1>6, <3>1 DEF Kinds
    <3> HIDE DEF n
    <3> QED
      BY <2>4, <3>1, <3>2
  <2> HIDE DEF n, c
  <2>7. Moves(0, 0, c, n, 0, 0, 0, 0)
    BY <1>1, <2>5, <2>6, Still DEF Moves
  <2>8. phase # "down" /\ TypeOK' /\ (plan => plan') /\ 0 \in Int
    BY <1>1, <1>6, <1>7
  <2> QED
    BY <2>4, <2>7, <2>8, MovesKept, Zenon
<1> QED
  BY <1>6, <1>7, <1>9, <1>10, <1>11 DEF ShipperInv

\* A file that is not wanted any more: what was in it is given up, and counts as one.
LEMMA ReplayDiscardsKeeps ==
  ASSUME ShipperInv, ReplayDiscards
  PROVE  ShipperInv'
<1> USE DEF procVars, flagVars, intakeVars, sendVars, countVars, consoleVars, lossVars
<1> DEFINE f == Head(list)
<1>1. /\ TypeOK /\ pc = "replay" /\ list # <<>> /\ list \in Seq(Nat) /\ f \in Nat
      /\ f \in OfKind(disk, "traces") /\ f \in DOMAIN disk /\ plan
      /\ disk' = Removed(f) /\ dropped' = dropped + 1 /\ list' = Tail(list)
      /\ forgone' = forgone \cup Covered(disk[f].body)
      /\ UNCHANGED <<procVars, faults, clock, intakeVars, flagVars, job, todo, consoleVars,
                     pc, req, ids, sent, missing, trimmed>>
  BY DEF ShipperInv, ReplayDiscards, replaying, TypeOK, GiveUp, OfKind
<1> HIDE DEF f
<1>2. Removes(f)
  <2>1. req' = [req EXCEPT !.files = req'.files]
    BY <1>1 DEF TypeOK
  <2> QED
    BY <1>1, <2>1 DEF Removes
<1>3. /\ BufferTypeOK' /\ ControlOK' /\ DownOK' /\ IdsOK' /\ HeardOK' /\ InOnePlace'
      /\ CountedOK' /\ LateOK' /\ phase # "down" /\ list' \in Seq(Nat)
      /\ LeftOver(disk, {f}, disk')
      /\ TraceRecords(disk) = TraceRecords(disk') + Len(disk[f].body)
      /\ \A kind : CoveredIn(disk, kind) \subseteq CoveredIn(disk', kind)
              \cup (IF f \in OfKind(disk, kind) THEN Covered(disk[f].body) ELSE {})
  BY <1>1, <1>2, RemovedParts
<1>4. disk[f].body \in Bodies /\ Covered(disk[f].body) \subseteq Traces
      /\ Len(disk[f].body) \in Nat /\ Len(disk[f].body) # 0
  <2>1. disk[f].body \in Bodies /\ disk[f].body # <<>>
    BY <1>1, DiskBatches DEF ShipperInv, ControlOK
  <2> QED
    BY <2>1, CoveredTyped DEF Bodies
<1>5. TypeOK'
  <2>1. SendTyped'
    BY <1>1, <1>3, TypeFrames DEF SendTyped
  <2>2. LossTyped' /\ dropped' \in Nat /\ sent' \in Nat
    BY <1>1, <1>4 DEF TypeOK, LossTyped
  <2>3. UNCHANGED <<procVars, faults, clock, flagVars>> /\ UNCHANGED intakeVars
        /\ UNCHANGED consoleVars
    BY <1>1
  <2> QED
    BY <1>1, <1>3, <2>1, <2>2, <2>3, TypeFrames
<1>6. RequestOK' /\ req.files = <<>>
  <2>1. req.files = <<>>
    BY <1>1 DEF ShipperInv, ControlOK, NoBatch
  <2> QED
    BY <1>1, <2>1, Frames
<1>7. NothingLost'
  <2>1. \A kind : InMemory(kind)' = InMemory(kind)
    BY <1>1 DEF InMemory, InMinutes
  <2>2. CoveredIn(disk, "traces") \subseteq CoveredIn(disk', "traces") \cup forgone'
    BY <1>1, <1>3
  <2>3. CoveredIn(disk, "aggregates") \subseteq CoveredIn(disk', "aggregates")
    <3>1. f \notin OfKind(disk, "aggregates")
      BY <1>1 DEF OfKind
    <3> QED
      BY <1>3, <3>1
  <2> QED
    BY <1>1, <2>1, <2>2, <2>3, LossStep
<1>8. Accounted'
  <2> DEFINE n == Len(disk[f].body)
             c == 0 - n
  <2>1. n \in Int /\ c \in Int /\ 0 + 0 + c + 0 + 0 + 1 + 0 <= 0 /\ 0 \in Int /\ 1 \in Int
    BY <1>4
  <2>2. TraceRecords(disk') = TraceRecords(disk) + c
    <3>1. TraceRecords(disk) \in Int /\ TraceRecords(disk') \in Int
          /\ TraceRecords(disk) = TraceRecords(disk') + n
      BY <1>3, HeldParts DEF LeftOver
    <3> HIDE DEF n
    <3> QED
      BY <2>1, <3>1
  <2> HIDE DEF n, c
  <2>3. Removing' = Removing + 0
    BY <1>1 DEF Removing
  <2>4. Moves(0, 0, c, 0, 0, 1, 0, 0)
    BY <1>1, <2>2, <2>3, Still DEF Moves
  <2>5. phase # "down" /\ TypeOK' /\ (plan => plan') /\ plan'
    BY <1>1, <1>3, <1>5
  <2> QED
    BY <2>1, <2>4, <2>5, MovesKept, Zenon
<1> QED
  BY <1>3, <1>5, <1>6, <1>7, <1>8 DEF ShipperInv

\* A file that is gone or cannot be read: what was in it is given up, and was never taken.
LEMMA ReplayUnreadableKeeps ==
  ASSUME ShipperInv, ReplayUnreadable
  PROVE  ShipperInv'
<1> USE DEF procVars, flagVars, intakeVars, sendVars, countVars, consoleVars, lossVars
<1> DEFINE f == Head(list)
<1>1. /\ TypeOK /\ pc = "replay" /\ list # <<>> /\ list \in Seq(Nat) /\ f \in Nat
      /\ disk' = Removed(f) /\ list' = Tail(list) /\ faults' \in 0 .. MaxFaults
      /\ \/ /\ f \in OfKind(disk, "traces")
            /\ forgone' = forgone \cup Covered(disk[f].body)
            /\ missing' = missing /\ entered' = entered - Len(disk[f].body)
         \/ /\ f \in OfKind(disk, "aggregates")
            /\ Miss(disk[f].body, "disk") /\ UNCHANGED <<forgone, entered>>
         \/ /\ f \notin DOMAIN disk
            /\ UNCHANGED <<lossVars, entered>>
      /\ UNCHANGED <<procVars, clock, observed, pending, minutes, late, flagVars, job, todo,
                     consoleVars, pc, req, ids, countVars, trimmed>>
  <2>1. TypeOK
    BY DEF ShipperInv
  <2>2. \A id \in DOMAIN disk : disk[id].kind \in Kinds
    BY <2>1, DiskBatches DEF File
  <2>3. list \in Seq(Nat) /\ list # <<>> /\ f \in Nat /\ faults \in 0 .. MaxFaults
    BY <2>1 DEF ReplayUnreadable, TypeOK
  <2>4. CASE f \in DOMAIN disk
    <3>1. disk[f].kind \in {"traces", "aggregates"}
      BY <2>2, <2>4 DEF Kinds
    <3>2. /\ Fault("disk")
          /\ IF disk[f].kind = "traces"
               THEN /\ GiveUp(disk[f].body) /\ UNCHANGED missing
                    /\ entered' = entered - Len(disk[f].body)
               ELSE Miss(disk[f].body, "disk") /\ UNCHANGED <<forgone, entered>>
      BY <2>4 DEF ReplayUnreadable
    <3>3. faults' \in 0 .. MaxFaults
      BY <2>3, <3>2, ShipperAssumption DEF Fault
    <3> HIDE DEF f
    <3>4. disk' = Removed(f) /\ list' = Tail(list)
          /\ UNCHANGED <<procVars, clock, observed, pending, minutes, late, flagVars, job, todo,
                         consoleVars, pc, req, ids, countVars, trimmed>>
          /\ pc = "replay"
      BY DEF ReplayUnreadable, f
    <3> QED
      BY <2>1, <2>3, <2>4, <3>1, <3>2, <3>3, <3>4 DEF GiveUp, OfKind
  <2>5. CASE f \notin DOMAIN disk
    BY <2>1, <2>3, <2>5 DEF ReplayUnreadable
  <2> QED
    BY <2>4, <2>5
<1> HIDE DEF f
<1>2. Removes(f)
  <2>1. req' = [req EXCEPT !.files = req'.files]
    BY <1>1 DEF TypeOK
  <2> QED
    BY <1>1, <2>1 DEF Removes
<1>3. /\ BufferTypeOK' /\ ControlOK' /\ DownOK' /\ IdsOK' /\ HeardOK' /\ InOnePlace'
      /\ CountedOK' /\ LateOK' /\ phase # "down" /\ list' \in Seq(Nat)
      /\ LeftOver(disk, {f}, disk')
      /\ f \notin DOMAIN disk => disk' = disk /\ TraceRecords(disk') = TraceRecords(disk)
      /\ f \in OfKind(disk, "traces") =>
              TraceRecords(disk) = TraceRecords(disk') + Len(disk[f].body)
      /\ f \in OfKind(disk, "aggregates") => TraceRecords(disk) = TraceRecords(disk')
      /\ \A kind : CoveredIn(disk, kind) \subseteq CoveredIn(disk', kind)
              \cup (IF f \in OfKind(disk, kind) THEN Covered(disk[f].body) ELSE {})
  BY <1>1, <1>2, RemovedParts
<1> DEFINE n == IF f \in OfKind(disk, "traces") THEN Len(disk[f].body) ELSE 0
<1>4. f \in DOMAIN disk => Covered(disk[f].body) \subseteq Traces /\ Len(disk[f].body) \in Nat
  <2>1. f \in DOMAIN disk => disk[f].body \in Bodies
    BY <1>1, DiskBatches
  <2>2. \A body \in Bodies : Len(body) \in Nat
    BY DEF Bodies
  <2> QED
    BY <2>1, <2>2, CoveredTyped
<1>5. n \in Nat /\ OfKind(disk, "traces") \subseteq DOMAIN disk
      /\ OfKind(disk, "aggregates") \subseteq DOMAIN disk
      /\ (f \in OfKind(disk, "traces") => f \notin OfKind(disk, "aggregates"))
  BY <1>4 DEF OfKind
<1>6. TraceRecords(disk) = TraceRecords(disk') + n /\ TraceRecords(disk) \in Nat
      /\ TraceRecords(disk') \in Nat
  <2>1. TraceRecords(disk) \in Nat /\ TraceRecords(disk') \in Nat
    BY <1>3, HeldParts DEF LeftOver
  <2>2. TraceRecords(disk) = TraceRecords(disk') + n
    BY <1>1, <1>3, <1>5, <2>1
  <2> QED
    BY <2>1, <2>2
<1>7. entered' = entered - n
  <2>1. entered \in Nat
    BY HeldParts
  <2>2. f \in OfKind(disk, "traces") => entered' = entered - Len(disk[f].body)
    BY <1>1, <1>5
  <2>3. f \notin OfKind(disk, "traces") => entered' = entered
    BY <1>1
  <2> QED
    BY <2>1, <2>2, <2>3
<1> HIDE DEF n
<1>8. entered' \in Nat
  <2>1. Removing = 0
    BY <1>1 DEF Removing
  <2> DEFINE x == sent + dropped + trimmed + Len(pending) + TraceRecords(todo)
  <2>2. /\ sent \in Nat /\ dropped \in Nat /\ trimmed \in Nat /\ entered \in Nat
        /\ Len(pending) \in Nat /\ TraceRecords(todo) \in Nat
    BY HeldParts, Zenon
  <2>3. x + TraceRecords(disk) <= entered /\ x \in Nat
    <3>1. sent + dropped + trimmed + Held <= entered
      BY <1>3 DEF ShipperInv, Accounted
    <3>2. Held = Len(pending) + TraceRecords(todo) + TraceRecords(disk) + 0
      BY <2>1, HeldSum
    <3> QED
      BY <1>6, <2>2, <3>1, <3>2
  <2> HIDE DEF x
  <2>4. n <= entered
    BY <1>5, <1>6, <2>2, <2>3
  <2> QED
    BY <1>5, <1>7, <2>2, <2>4
<1>9. LossTyped' /\ forgone \subseteq forgone'
      /\ (\A t \in Traces : missing[t] # "no" => missing'[t] # "no")
      /\ (f \in OfKind(disk, "traces") => Covered(disk[f].body) \subseteq forgone')
      /\ (f \in OfKind(disk, "aggregates") =>
           \A t \in Traces \cap Covered(disk[f].body) : missing'[t] # "no")
  <2>1. forgone \subseteq Traces /\ missing \in [Traces -> Reasons]
    BY <1>1 DEF TypeOK
  <2>2. CASE f \in OfKind(disk, "traces")
    BY <1>1, <1>4, <1>5, <2>1, <2>2 DEF LossTyped
  <2>3. CASE f \in OfKind(disk, "aggregates")
    <3>1. Miss(disk[f].body, "disk") /\ forgone' = forgone
      BY <1>1, <1>5, <2>3
    <3>2. missing' = [t \in Traces |-> IF t \in Covered(disk[f].body) THEN "disk" ELSE missing[t]]
      BY <3>1 DEF Miss
    <3> QED
      BY <1>5, <2>1, <2>3, <3>1, <3>2 DEF LossTyped, Reasons
  <2>4. CASE f \notin DOMAIN disk
    BY <1>1, <1>5, <2>1, <2>4 DEF LossTyped
  <2> QED
    BY <1>1, <2>2, <2>3, <2>4
<1>10. TypeOK'
  <2>1. SendTyped'
    BY <1>1, <1>3, TypeFrames DEF SendTyped
  <2>2. IntakeTyped' /\ ProcTyped'
    BY <1>1, <1>8, TypeFrames DEF IntakeTyped, ProcTyped
  <2>3. UNCHANGED countVars /\ UNCHANGED consoleVars
    BY <1>1
  <2> QED
    BY <1>1, <1>3, <1>9, <2>1, <2>2, <2>3, TypeFrames
<1>11. RequestOK' /\ req.files = <<>>
  <2>1. req.files = <<>>
    BY <1>1 DEF ShipperInv, ControlOK, NoBatch
  <2> QED
    BY <1>1, <2>1, Frames
<1>12. NothingLost'
  <2>1. \A kind : InMemory(kind)' = InMemory(kind)
    BY <1>1 DEF InMemory, InMinutes
  <2>2. CoveredIn(disk, "traces") \subseteq CoveredIn(disk', "traces") \cup forgone'
    BY <1>3, <1>9
  <2>3. \A t \in Traces : t \in CoveredIn(disk, "aggregates") =>
          t \in CoveredIn(disk', "aggregates") \/ missing'[t] # "no"
    BY <1>3, <1>9
  <2> QED
    BY <1>1, <1>9, <2>1, <2>2, <2>3, LossStep
<1>13. Accounted'
  <2> DEFINE c == 0 - n
  <2>1. c \in Int /\ 0 + 0 + c + 0 + 0 + 0 + 0 = c /\ 0 \in Int
    BY <1>5
  <2>2. TraceRecords(disk') = TraceRecords(disk) + c
    BY <1>5, <1>6
  <2>3. entered' = entered + c
    BY <1>5, <1>7, HeldParts
  <2> HIDE DEF c
  <2>4. Removing' = Removing + 0
    BY <1>1 DEF Removing
  <2>5. Moves(0, 0, c, 0, 0, 0, 0, c)
    BY <1>1, <2>2, <2>3, <2>4, Still DEF Moves
  <2>6. phase # "down" /\ TypeOK' /\ (plan => plan')
    BY <1>1, <1>3, <1>10
  <2> QED
    BY <2>1, <2>5, <2>6, MovesKept, Zenon
<1> QED
  BY <1>3, <1>10, <1>11, <1>12, <1>13 DEF ShipperInv

\* A body in halves.
JustHalved(new, kind, body) ==
  /\ new \in Seq(File) /\ new # <<>>
  /\ \A k : CoveredIn(new, k) = IF kind = k THEN Covered(body) ELSE {}
  /\ TraceRecords(new) = IF kind = "traces" THEN Len(body) ELSE 0
  /\ \A k \in DOMAIN new : new[k].kind = kind /\ new[k].body # <<>>

\* Those of Halves are that.
LEMMA JustHalves ==
  ASSUME NEW kind \in Kinds, NEW body \in Bodies, Len(body) > 1, NEW new,
         new = Halves(kind, body)
  PROVE  JustHalved(new, kind, body)
<1>1. <<>> \in Seq(File) /\ DOMAIN <<>> = {}
  OBVIOUS
<1>2. new = Halves(kind, body) \o <<>>
  BY DEF Halves
<1>3. Halved(new, kind, body, <<>>)
  BY <1>1, <1>2, HalvesParts
<1>4. Len(body) \in Int /\ TraceRecords(<<>>) = 0 /\ \A k : CoveredIn(<<>>, k) = {}
  BY EmptyParts DEF Bodies
<1>5. new \in Seq(File) /\ new # <<>>
  BY <1>3 DEF Halved
<1>6. \A k : CoveredIn(new, k) = IF kind = k THEN Covered(body) ELSE {}
  <2>1. \A k : CoveredIn(new, k) = (IF kind = k THEN Covered(body) ELSE {})
                                     \cup CoveredIn(<<>>, k)
    BY <1>3 DEF Halved
  <2> QED
    BY <1>4, <2>1
<1>7. TraceRecords(new) = IF kind = "traces" THEN Len(body) ELSE 0
  BY <1>3, <1>4 DEF Halved
<1>8. \A k \in DOMAIN new : new[k].kind = kind /\ new[k].body # <<>>
  BY <1>1, <1>3 DEF Halved
<1> QED
  BY <1>5, <1>6, <1>7, <1>8 DEF JustHalved

\* The files are gone and the request is settled: sent, split, dropped or missed.
LEMMA SettledKeeps ==
  ASSUME ShipperInv, Settled
  PROVE  ShipperInv'
<1> USE DEF procVars, flagVars, intakeVars, sendVars, countVars, consoleVars, lossVars, bufferVars
<1> DEFINE split == req.verdict = "large" /\ req.kind = "traces" /\ Len(req.body) > 1
           n == IF req.kind = "traces" THEN Len(req.body) ELSE 0
           b == IF split THEN n ELSE 0
           u == IF req.verdict = "ok" THEN n ELSE 0
           v == IF req.verdict = "ok" \/ split THEN 0 ELSE n
<1>1. /\ TypeOK /\ pc = "remove" /\ req.files = <<>> /\ todo = <<>> /\ job = "replay"
      /\ req' = NoBatch /\ req.kind \in Kinds /\ req.body \in Bodies
      /\ req.verdict \in {"ok", "large", "refused"}
      /\ phase # "down" /\ phase # "final"
      /\ UNCHANGED <<procVars, faults, clock, intakeVars, flagVars, job, consoleVars, list, ids,
                     bufferVars>>
  BY DEF ShipperInv, Settled, ControlOK, DownOK, TypeOK
<1>2. /\ todo' = IF split THEN Halves("traces", req.body) ELSE <<>>
      /\ pc' = IF split THEN "send" ELSE "replay"
  BY <1>1 DEF Settled, Kinds
<1>3. /\ req.verdict = "ok" \/ split => UNCHANGED lossVars
      /\ ~(req.verdict = "ok" \/ split) /\ req.kind = "traces" =>
           GiveUp(req.body) /\ UNCHANGED missing
      /\ ~(req.verdict = "ok" \/ split) /\ req.kind = "aggregates" =>
           /\ \E why \in Reasons \ {"no"} : Miss(req.body, why)
           /\ UNCHANGED forgone
  BY <1>1 DEF Settled, Kinds, Reasons
<1>4. Len(req.body) \in Nat /\ Covered(req.body) \subseteq Traces
  BY <1>1, CoveredTyped DEF Bodies
<1>5. sent' = sent + u /\ dropped' = dropped + v
  <2>1. sent \in Nat /\ dropped \in Nat
    BY <1>1 DEF TypeOK
  <2> QED
    BY <1>1, <1>4, <2>1 DEF Settled, Kinds
<1>6. n \in Nat /\ b \in Nat /\ u \in Nat /\ v \in Nat /\ b + u + v = n
  <2>1. n \in Nat
    BY <1>4
  <2>2. split => req.verdict # "ok"
    OBVIOUS
  <2> HIDE DEF n, split
  <2> QED
    BY <2>1, <2>2
<1>7. /\ todo' \in Seq(File)
      /\ \A k \in DOMAIN todo' : todo'[k].kind = "traces" /\ todo'[k].body # <<>>
      /\ \A kind : CoveredIn(todo', kind) =
           IF split /\ kind = "traces" THEN Covered(req.body) ELSE {}
      /\ TraceRecords(todo') = b
      /\ split => todo' # <<>>
      /\ ~split => todo' = <<>>
  <2>1. CASE split
    <3>1. "traces" \in Kinds /\ Len(req.body) > 1 /\ todo' = Halves("traces", req.body)
      BY <1>2, <2>1 DEF Kinds
    <3>2. /\ todo' \in Seq(File) /\ todo' # <<>>
          /\ \A k : CoveredIn(todo', k) = IF "traces" = k THEN Covered(req.body) ELSE {}
          /\ TraceRecords(todo') = Len(req.body)
          /\ \A k \in DOMAIN todo' : todo'[k].kind = "traces" /\ todo'[k].body # <<>>
      <4> DEFINE q == Halves("traces", req.body)
      <4>1. q = Halves("traces", req.body)
        OBVIOUS
      <4> HIDE DEF q
      <4>2. /\ q \in Seq(File) /\ q # <<>>
            /\ \A k : CoveredIn(q, k) = IF "traces" = k THEN Covered(req.body) ELSE {}
            /\ TraceRecords(q) = Len(req.body)
            /\ \A k \in DOMAIN q : q[k].kind = "traces" /\ q[k].body # <<>>
        <5>1. JustHalved(q, "traces", req.body)
          <6>1. req.body \in Bodies
            BY <1>1
          <6> QED
            BY <3>1, <4>1, <6>1, JustHalves
        <5> QED
          BY <5>1 DEF JustHalved
      <4> QED
        BY <3>1, <4>1, <4>2
    <3> QED
      BY <2>1, <3>2
  <2>2. CASE ~split
    <3>1. todo' = <<>> /\ todo' \in Seq(File) /\ DOMAIN todo' = {}
      BY <1>2, <2>2
    <3> QED
      BY <2>2, <3>1, EmptyParts
  <2> QED
    BY <2>1, <2>2
<1>8. NoBatch.files = <<>> /\ NoBatch.id = 0
      /\ NoBatch \in [kind : Kinds, id : Nat, body : Bodies, files : Seq(Nat),
                      verdict : {"none", "ok", "large", "refused", "later"}]
  BY DEF NoBatch, Kinds, Bodies
<1>9. LossTyped' /\ forgone \subseteq forgone'
      /\ (\A t \in Traces : missing[t] # "no" => missing'[t] # "no")
      /\ (~(req.verdict = "ok" \/ split) /\ req.kind = "traces" =>
            Covered(req.body) \subseteq forgone')
      /\ (~(req.verdict = "ok" \/ split) /\ req.kind = "aggregates" =>
            \A t \in Covered(req.body) : missing'[t] # "no")
  <2>1. forgone \subseteq Traces /\ missing \in [Traces -> Reasons]
    BY <1>1 DEF TypeOK
  <2> HIDE DEF split
  <2>2. CASE req.verdict = "ok" \/ split
    BY <1>3, <2>1, <2>2 DEF LossTyped
  <2>3. CASE ~(req.verdict = "ok" \/ split) /\ req.kind = "traces"
    BY <1>3, <1>4, <2>1, <2>3 DEF LossTyped, GiveUp
  <2>4. CASE ~(req.verdict = "ok" \/ split) /\ req.kind = "aggregates"
    <3>1. PICK why \in Reasons \ {"no"} : Miss(req.body, why)
      BY <1>3, <2>4
    <3>2. forgone' = forgone
      BY <1>3, <2>4
    <3> QED
      BY <1>4, <2>1, <2>4, <3>1, <3>2 DEF LossTyped, Miss
  <2> QED
    BY <1>1, <2>2, <2>3, <2>4 DEF Kinds
<1> HIDE DEF split, n, b, u, v
<1>10. TypeOK'
  <2>1. SendTyped'
    BY <1>1, <1>2, <1>7, <1>8, TypeFrames DEF SendTyped
  <2>2. sent' \in Nat /\ dropped' \in Nat
    BY <1>1, <1>5, <1>6 DEF TypeOK
  <2>3. UNCHANGED <<procVars, faults, clock, flagVars>> /\ UNCHANGED intakeVars
        /\ UNCHANGED consoleVars /\ UNCHANGED bufferVars
    BY <1>1
  <2> QED
    BY <1>1, <1>9, <2>1, <2>2, <2>3, TypeFrames
<1>11. ControlOK'
  BY <1>1, <1>2, <1>7, <1>8 DEF ShipperInv, ControlOK
<1>12. IdsOK'
  <2>1. ids \in Nat
    BY <1>1 DEF TypeOK
  <2> QED
    BY <1>1, <1>2, <1>8, <2>1 DEF ShipperInv, IdsOK
<1>13. DownOK' /\ RequestOK' /\ HeardOK' /\ LateOK'
  <2>1. pc' \notin {"store", "remove"}
    BY <1>2
  <2> QED
    BY <1>1, <1>8, <2>1, Frames
<1>14. CoveredIn(todo, "aggregates") = {} /\ CoveredIn(todo', "aggregates") = {}
       /\ CoveredIn(todo, "traces") = {} /\ InMinutes' = InMinutes
  BY <1>1, <1>7, EmptyParts DEF InMinutes
<1>15. InOnePlace'
  <2>1. InOnePlace
    BY DEF ShipperInv
  <2>2. \A k \in DOMAIN todo' : todo'[k].kind # "aggregates"
    BY <1>7
  <2> QED
    BY <1>1, <1>14, <2>1, <2>2 DEF InOnePlace
<1>16. CountedOK'
  <2>1. \A k \in DOMAIN todo' : todo'[k].kind # "aggregates"
    BY <1>7
  <2> QED
    BY <1>1, <1>14, <2>1 DEF ShipperInv, CountedOK, AggregatesOnce
<1>17. NothingLost'
  <2>1. /\ \A kind : InMemory(kind) = (IF req.kind = kind THEN Covered(req.body) ELSE {})
                        \cup (IF kind = "traces" THEN Range(pending) ELSE InMinutes)
        /\ \A kind : InMemory(kind)' = CoveredIn(todo', kind)
                        \cup (IF kind = "traces" THEN Range(pending) ELSE InMinutes)
    <3>1. pc' # "remove" /\ pending' = pending /\ InMinutes' = InMinutes
      BY <1>1, <1>2, <1>14
    <3>2. \A kind : CoveredIn(todo, kind) = {}
      BY <1>1, EmptyParts
    <3> QED
      BY <1>1, <3>1, <3>2 DEF InMemory
  <2>2. req.verdict = "ok" => Heard(req.kind, req.body)
    BY <1>1 DEF ShipperInv, HeardOK
  <2>3. \A t \in Traces : t \in Covered(req.body) /\ req.kind = "aggregates" =>
          counted[t] > 0 \/ missing'[t] # "no"
    <3>1. req.kind = "aggregates" => ~split
      BY DEF split
    <3> QED
      BY <1>9, <2>2, <3>1 DEF Heard
  <2>4. req.kind = "traces" =>
          Covered(req.body) \subseteq arrived \cup forgone' \cup CoveredIn(todo', "traces")
    <3>1. split => CoveredIn(todo', "traces") = Covered(req.body)
      BY <1>7
    <3> QED
      BY <1>9, <2>2, <3>1 DEF Heard
  <2>5. \A t \in Traces :
          t \in InMemory("aggregates") \cup CoveredIn(disk, "aggregates") =>
             \/ counted'[t] > 0 \/ missing'[t] # "no"
             \/ t \in InMemory("aggregates")' \cup CoveredIn(disk', "aggregates")
    BY <1>1, <2>1, <2>3
  <2>6. \A t \in Traces :
          t \in InMemory("traces") \cup CoveredIn(disk, "traces") =>
             t \in arrived' \cup forgone' \cup InMemory("traces")' \cup CoveredIn(disk', "traces")
    BY <1>1, <2>1, <2>4
  <2> QED
    BY <1>1, <1>9, <2>5, <2>6, LossStep
<1>18. Accounted'
  <2> DEFINE d == 0 - n
  <2>1. d \in Int /\ 0 + b + 0 + d + u + v + 0 = 0 /\ 0 \in Int
        /\ b \in Int /\ u \in Int /\ v \in Int
    BY <1>6
  <2>2. Removing' = Removing + d
    <3>1. Range(req.files) = {} /\ Weight(disk, {}) = 0
      <4>1. Batches(disk)
        BY <1>1, DiskBatches
      <4> QED
        BY <1>1, <4>1, WeightParts DEF Range
    <3>2. Removing = n
      <4>1. Weight(disk, Range(req.files)) = 0
        BY <3>1
      <4> QED
        BY <1>1, <1>4, <4>1 DEF Removing, n
    <3>3. Removing' = 0
      BY <1>2 DEF Removing
    <3> QED
      BY <1>6, <3>2, <3>3
  <2> HIDE DEF d
  <2>3. TraceRecords(todo') = TraceRecords(todo) + b
    BY <1>1, <1>6, <1>7, EmptyParts
  <2>4. Moves(0, b, 0, d, u, v, 0, 0)
    BY <1>1, <1>5, <2>2, <2>3, Still DEF Moves
  <2>5. phase # "down" /\ TypeOK' /\ (plan => plan')
    BY <1>1, <1>10
  <2> QED
    BY <2>1, <2>4, <2>5, MovesKept, Zenon
<1> QED
  BY <1>10, <1>11, <1>12, <1>13, <1>15, <1>16, <1>17, <1>18 DEF ShipperInv

-----------------------------------------------------------------------------
(* A request for files                                                      *)

\* The request that may be made of files: whole and each file once.
Requested(r, rest) ==
  /\ r \in [kind : Kinds, id : Nat, body : Bodies, files : Seq(Nat),
            verdict : {"none", "ok", "large", "refused", "later"}]
  /\ r.files # <<>> /\ rest \in Seq(Nat)
  /\ \A k, l \in DOMAIN r.files : r.files[k] = r.files[l] => k = l
  /\ \A k, l \in DOMAIN rest : rest[k] = rest[l] => k = l
  /\ \A f \in Range(r.files) :
       f \in OfKind(disk, r.kind) /\ Covered(disk[f].body) \subseteq Covered(r.body)
  /\ Len(r.body) = Weight(disk, Range(r.files))
  /\ r.kind = "aggregates" \/ r.id \in known \cup DOMAIN disk =>
       r.files = <<r.id>> /\ r.body = disk[r.id].body

\* Such a request is delivered, or the replay ends before it.
LEMMA DeliverKeeps ==
  ASSUME ShipperInv, pc = "replay", NEW r, NEW rest, Requested(r, rest), Deliver(r, rest),
         ids' \in Nat, ids <= ids', r.id <= ids',
         UNCHANGED <<replaying, countVars, lossVars, bufferVars>>
  PROVE  ShipperInv'
<1> USE DEF procVars, flagVars, intakeVars, sendVars, countVars, consoleVars, lossVars, bufferVars
<1>1. /\ TypeOK /\ todo = <<>> /\ job = "replay" /\ phase # "down"
      /\ UNCHANGED <<procVars, faults, clock, intakeVars, flagVars, job, todo, consoleVars,
                     countVars, lossVars, bufferVars>>
  BY DEF ShipperInv, ControlOK, DownOK, replaying
<1>2. \/ pc' = "wait" /\ req' = r /\ list' = rest
      \/ pc' = "idle" /\ req' = NoBatch /\ list' = <<>>
  BY DEF Deliver, Requested
<1>3. /\ NoBatch.files = <<>> /\ NoBatch.id = 0
      /\ NoBatch \in [kind : Kinds, id : Nat, body : Bodies, files : Seq(Nat),
                      verdict : {"none", "ok", "large", "refused", "later"}]
      /\ <<>> \in Seq(Nat)
  BY DEF NoBatch, Kinds, Bodies
<1>4. TypeOK'
  <2>1. SendTyped'
    BY <1>1, <1>2, <1>3, TypeFrames DEF SendTyped, Requested
  <2>2. UNCHANGED <<procVars, faults, clock, flagVars>> /\ UNCHANGED intakeVars
        /\ UNCHANGED consoleVars /\ UNCHANGED lossVars /\ UNCHANGED bufferVars
        /\ UNCHANGED countVars
    BY <1>1
  <2> QED
    BY <1>1, <2>1, <2>2, TypeFrames
<1>5. ControlOK'
  <2>1. CASE pc' = "wait" /\ req' = r
    BY <1>1, <2>1 DEF ShipperInv, ControlOK, Requested
  <2>2. CASE pc' = "idle" /\ req' = NoBatch
    BY <1>1, <2>2 DEF ShipperInv, ControlOK
  <2> QED
    BY <1>2, <2>1, <2>2
<1>6. IdsOK'
  <2>1. \A id \in DOMAIN disk \cup known : id <= ids'
    <3>1. \A id \in DOMAIN disk \cup known : id <= ids /\ id \in Nat /\ ids \in Nat
      BY <1>1 DEF ShipperInv, IdsOK, TypeOK, BufferTypeOK
    <3> QED
      BY <3>1
  <2>2. CASE pc' = "wait" /\ req' = r /\ list' = rest
    <3>1. /\ \A k, l \in DOMAIN rest : rest[k] = rest[l] => k = l
          /\ r.files # <<>>
      BY DEF Requested
    <3>2. \A id \in DOMAIN disk' \cup known' \cup {req'.id} : id <= ids'
      BY <1>1, <2>1, <2>2
    <3> QED
      BY <2>2, <3>1, <3>2 DEF IdsOK
  <2>3. CASE pc' = "idle" /\ req' = NoBatch /\ list' = <<>>
    <3>1. \A id \in DOMAIN disk' \cup known' \cup {req'.id} : id <= ids'
      BY <1>1, <1>3, <2>1, <2>3
    <3>2. DOMAIN list' = {}
      BY <2>3
    <3> QED
      BY <2>3, <3>1, <3>2 DEF IdsOK
  <2> QED
    BY <1>2, <2>2, <2>3
<1>7. RequestOK'
  <2>1. CASE req' = r
    BY <1>1, <2>1 DEF RequestOK, Requested
  <2>2. CASE req' = NoBatch
    BY <1>3, <2>2, Frames
  <2> QED
    BY <1>2, <2>1, <2>2
<1>8. DownOK' /\ HeardOK' /\ InOnePlace' /\ CountedOK'
  BY <1>1, <1>2, Frames
<1>9. LateOK' /\ NothingLost' /\ Accounted'
  BY <1>1, <1>2, Frames
<1> QED
  BY <1>4, <1>5, <1>6, <1>7, <1>8, <1>9 DEF ShipperInv

\* A list of files in two parts, each of which has a file once.
Parted(q, n, front, rest) ==
  /\ front \in Seq(Nat) /\ front # <<>> /\ Len(front) = n /\ DOMAIN front = 1 .. n
  /\ \A k \in 1 .. n : front[k] = q[k] /\ k \in DOMAIN q
  /\ \A k, l \in DOMAIN front : front[k] = front[l] => k = l
  /\ rest \in Seq(Nat) /\ \A k, l \in DOMAIN rest : rest[k] = rest[l] => k = l

\* The first n files of the list, and the others.
LEMMA ListTail ==
  ASSUME NEW q \in Seq(Nat), \A k, l \in DOMAIN q : q[k] = q[l] => k = l,
         NEW n \in 1 .. Len(q), NEW front, front = SubSeq(q, 1, n),
         NEW rest, rest = SubSeq(q, n + 1, Len(q))
  PROVE  Parted(q, n, front, rest)
<1>1. Len(q) \in Nat /\ DOMAIN q = 1 .. Len(q)
  OBVIOUS
<1>2. /\ front \in Seq(Nat) /\ Len(front) = n /\ DOMAIN front = 1 .. n
      /\ \A k \in 1 .. n : front[k] = q[k] /\ k \in DOMAIN q
  BY <1>1
<1>3. /\ rest \in Seq(Nat) /\ Len(rest) = Len(q) - n /\ DOMAIN rest = 1 .. Len(q) - n
      /\ \A k \in 1 .. Len(q) - n : rest[k] = q[k + n]
  <2> DEFINE m == Len(q)
  <2>1. m \in Int /\ n + 1 \in Int /\ n \in Int /\ n <= m /\ \A i \in n + 1 .. m : q[i] \in Nat
    BY <1>1
  <2> HIDE DEF m
  <2>2. /\ SubSeq(q, n + 1, m) \in Seq(Nat)
        /\ Len(SubSeq(q, n + 1, m)) = IF n + 1 <= m THEN (m - (n + 1)) + 1 ELSE 0
        /\ \A i \in 1 .. (m - (n + 1)) + 1 : SubSeq(q, n + 1, m)[i] = q[((n + 1) + i) - 1]
    BY <2>1, SubSeqProperties
  <2>3. rest = SubSeq(q, n + 1, m)
    BY DEF m
  <2>4. Len(rest) = m - n /\ (m - (n + 1)) + 1 = m - n
    BY <2>1, <2>2, <2>3
  <2>5. \A i \in 1 .. m - n : i \in Int /\ ((n + 1) + i) - 1 = i + n
    BY <2>1
  <2>6. \A i \in 1 .. m - n : rest[i] = q[i + n]
    BY <2>2, <2>3, <2>4, <2>5
  <2>7. rest \in Seq(Nat)
    BY <2>2, <2>3
  <2>8. DOMAIN rest = 1 .. m - n
    <3>1. \A s \in Seq(Nat) : DOMAIN s = 1 .. Len(s)
      OBVIOUS
    <3> QED
      BY <2>4, <2>7, <3>1
  <2> QED
    BY <2>4, <2>6, <2>7, <2>8 DEF m
<1>4. \A k \in DOMAIN rest : k + n \in DOMAIN q /\ rest[k] = q[k + n] /\ k \in Int
  <2> TAKE k \in DOMAIN rest
  <2>1. k \in 1 .. Len(q) - n /\ rest[k] = q[k + n]
    BY <1>3
  <2> QED
    BY <1>1, <2>1
<1>5. \A k, l \in DOMAIN rest : rest[k] = rest[l] => k = l
  <2> SUFFICES ASSUME NEW k \in DOMAIN rest, NEW l \in DOMAIN rest, rest[k] = rest[l]
               PROVE  k = l
    OBVIOUS
  <2>1. k + n = l + n /\ k \in Int /\ l \in Int
    BY <1>4
  <2> QED
    BY <2>1
<1>6. front # <<>>
  <2>1. n # 0 /\ Len(<<>>) = 0
    BY <1>1
  <2> QED
    BY <1>2, <2>1
<1>7. ASSUME NEW k \in DOMAIN front, NEW l \in DOMAIN front, front[k] = front[l] PROVE k = l
  <2>1. k \in DOMAIN q /\ l \in DOMAIN q /\ q[k] = q[l]
    BY <1>2, <1>7
  <2> QED
    BY <2>1
<1> QED
  BY <1>2, <1>3, <1>5, <1>6, <1>7 DEF Parted

\* A file of aggregates is sent on its own, under its id.
LEMMA ReplayAggregatesKeeps ==
  ASSUME ShipperInv, ReplayAggregates
  PROVE  ShipperInv'
<1> DEFINE f == Head(list)
           r == [kind |-> "aggregates", id |-> f, files |-> <<f>>, verdict |-> "none",
                 body |-> disk[f].body]
           rest == Tail(list)
<1>1. /\ TypeOK /\ pc = "replay" /\ list # <<>> /\ list \in Seq(Nat) /\ f \in Nat
      /\ f \in OfKind(disk, "aggregates") /\ f \in DOMAIN disk
      /\ Deliver(r, rest) /\ ids' = ids /\ UNCHANGED <<replaying, countVars, lossVars, bufferVars>>
  BY DEF ShipperInv, ReplayAggregates, TypeOK, OfKind
<1>2. disk[f].body \in Bodies /\ f <= ids /\ ids \in Nat
  BY <1>1, DiskBatches DEF ShipperInv, IdsOK, TypeOK
<1>3. rest \in Seq(Nat) /\ \A k, l \in DOMAIN rest : rest[k] = rest[l] => k = l
  <2>1. \A k, l \in DOMAIN list : list[k] = list[l] => k = l
    BY DEF ShipperInv, IdsOK
  <2>2. /\ rest \in Seq(Nat)
        /\ \A k \in DOMAIN rest : k + 1 \in DOMAIN list /\ rest[k] = list[k + 1] /\ k \in Int
    BY <1>1
  <2> HIDE DEF rest
  <2> QED
    BY <2>1, <2>2
<1>4. Weight(disk, {f}) = Len(disk[f].body)
  <2>1. {f} \in SUBSET DOMAIN disk /\ {f} \ {f} = {} /\ Batches(disk)
    BY <1>1, DiskBatches
  <2>2. Len(disk[f].body) \in Nat
    BY <1>2 DEF Bodies
  <2> HIDE DEF f
  <2>3. Weight(disk, {f}) = Len(disk[f].body) + Weight(disk, {f} \ {f}) /\ Weight(disk, {}) = 0
    BY <2>1, WeightParts
  <2>4. Weight(disk, {f}) = Len(disk[f].body) + 0
    BY <2>1, <2>3
  <2> QED
    BY <2>2, <2>4
<1> HIDE DEF f, rest
<1>5. Requested(r, rest)
  <2>1. <<f>> \in Seq(Nat) /\ DOMAIN <<f>> = {1} /\ Range(<<f>>) = {f} /\ <<f>> # <<>>
    BY <1>1 DEF Range
  <2>2. r \in [kind : Kinds, id : Nat, body : Bodies, files : Seq(Nat),
               verdict : {"none", "ok", "large", "refused", "later"}]
    BY <1>1, <1>2, <2>1 DEF Kinds
  <2>3. r.files = <<f>> /\ r.kind = "aggregates" /\ r.id = f /\ r.body = disk[f].body
    OBVIOUS
  <2> HIDE DEF r
  <2>4. \A g \in Range(r.files) :
          g \in OfKind(disk, r.kind) /\ Covered(disk[g].body) \subseteq Covered(r.body)
    BY <1>1, <2>1, <2>3
  <2>5. Len(r.body) = Weight(disk, Range(r.files))
    BY <1>4, <2>1, <2>3
  <2>6. \A k, l \in DOMAIN r.files : r.files[k] = r.files[l] => k = l
    BY <2>1, <2>3
  <2> QED
    BY <1>3, <2>1, <2>2, <2>3, <2>4, <2>5, <2>6 DEF Requested
<1>6. r.id = f /\ ids' \in Nat /\ ids <= ids' /\ f <= ids'
  BY <1>1, <1>2
<1> HIDE DEF r
<1> QED
  BY <1>1, <1>5, <1>6, DeliverKeeps

\* How many files go into one request: some, and traces.
LEMMA TogetherParts ==
  ASSUME list \in Seq(Nat), list # <<>>, Head(list) \in OfKind(disk, "traces")
  PROVE  /\ Together \in 1 .. Len(list)
         /\ \A k \in 1 .. Together : list[k] \in OfKind(disk, "traces")
<1> DEFINE S == {n \in 1 .. Len(list) :
                   \/ n = 1
                   \/ /\ \A k \in 2 .. n : list[k] \in OfKind(disk, "traces")
                      /\ Weight(disk, {list[k] : k \in 1 .. n}) <= BatchMax}
<1>1. Len(list) \in Nat \ {0} /\ Head(list) = list[1]
  BY EmptySeq
<1>2. S \subseteq 1 .. Len(list) /\ 1 \in S
  BY <1>1
<1>3. IsFiniteSet(S) /\ S \in SUBSET Int
  <2>1. IsFiniteSet(1 .. Len(list)) /\ 1 .. Len(list) \subseteq Int
    BY <1>1, FS_Interval
  <2> HIDE DEF S
  <2> QED
    BY <1>2, <2>1, FS_Subset
<1>4. Together = Max(S)
  BY DEF Together
<1>5. Together \in S
  <2> HIDE DEF S
  <2>1. PICK m \in S : \A k \in S : k <= m
    BY <1>2, <1>3, GreatestInt
  <2>2. \A k \in S : m >= k
    BY <1>3, <2>1
  <2> QED
    BY <1>4, <2>1, <2>2 DEF Max
<1>6. \A k \in 1 .. Together : list[k] \in OfKind(disk, "traces")
  <2> TAKE k \in 1 .. Together
  <2>1. Together \in 1 .. Len(list)
    BY <1>2, <1>5
  <2>2. k = 1 \/ k \in 2 .. Together
    BY <2>1
  <2>3. Together = 1 \/ \A j \in 2 .. Together : list[j] \in OfKind(disk, "traces")
    BY <1>5
  <2> QED
    BY <1>1, <2>1, <2>2, <2>3
<1> QED
  BY <1>2, <1>5, <1>6

\* The body of files that are merged has all of each, and no more.
Merged(files, body) ==
  /\ body \in Bodies
  /\ Len(body) = Weight(disk, Range(files))
  /\ \A f \in Range(files) : Covered(disk[f].body) \subseteq Covered(body)
  /\ Len(files) = 1 => body = disk[files[1]].body

\* What coalesceTraces puts together.
LEMMA MergedParts ==
  ASSUME TypeOK, NEW files \in Seq(Nat), files # <<>>, Range(files) \subseteq DOMAIN disk,
         \A k, l \in DOMAIN files : files[k] = files[l] => k = l,
         NEW body, body = FlattenSeq([k \in 1 .. Len(files) |-> disk[files[k]].body])
  PROVE  Merged(files, body)
<1> DEFINE n == Len(files)
           q == [k \in 1 .. n |-> disk[files[k]].body]
<1>1. /\ n \in Nat \ {0} /\ DOMAIN files = 1 .. n
      /\ \A k \in 1 .. n : files[k] \in DOMAIN disk /\ files[k] \in Range(files)
  BY EmptySeq DEF Range
<1>2. \A id \in DOMAIN disk : disk[id].body \in Bodies
  BY DiskBatches
<1>3. q \in Seq(Seq(SUBSET Traces)) /\ q # <<>> /\ Len(q) = n /\ DOMAIN q = 1 .. n
  BY <1>1, <1>2 DEF Bodies
<1>4. body = FlattenSeq(q)
  OBVIOUS
<1>5. \A k \in 1 .. n : q[k] = disk[files[k]].body
  OBVIOUS
<1> HIDE DEF q, n
<1>6. /\ body \in Seq(SUBSET Traces)
      /\ Len(body) = SumFunctionOnSet([k \in DOMAIN q |-> Len(q[k])], DOMAIN q)
      /\ Range(body) = UNION {Range(q[k]) : k \in DOMAIN q}
      /\ Len(q) = 1 => body = q[1]
  <2> DEFINE S == SUBSET Traces
  <2>1. q \in Seq(Seq(S)) /\ q # <<>>
    BY <1>3
  <2> HIDE DEF S
  <2>2. /\ FlattenSeq(q) \in Seq(S)
        /\ Len(FlattenSeq(q)) = SumFunctionOnSet([k \in DOMAIN q |-> Len(q[k])], DOMAIN q)
        /\ Range(FlattenSeq(q)) = UNION {Range(q[k]) : k \in DOMAIN q}
        /\ Len(q) = 1 => FlattenSeq(q) = q[1]
    BY <2>1, FlattenParts, Zenon
  <2> QED
    BY <1>4, <2>2, Zenon DEF S
<1>7. Len(body) = Weight(disk, Range(files))
  <2> DEFINE g == [k \in DOMAIN q |-> Len(q[k])]
             v == [id \in DOMAIN disk |-> Len(disk[id].body)]
             S == 1 .. n
  <2>1. \A k \in S : g[k] \in Int /\ v[files[k]] = g[k]
    <3> TAKE k \in S
    <3>1. g[k] = Len(q[k]) /\ v[files[k]] = Len(disk[files[k]].body) /\ q[k] = disk[files[k]].body
      BY <1>1, <1>3, <1>5
    <3>2. Len(q[k]) \in Nat
      BY <1>1, <1>2, <1>5 DEF Bodies
    <3> QED
      BY <3>1, <3>2
  <2>2. IsFiniteSet(S) /\ \A x, y \in S : files[x] = files[y] => x = y
    <3>1. IsFiniteSet(S)
      BY <1>1, FS_Interval
    <3>2. DOMAIN files = S
      BY <1>1
    <3> QED
      BY <3>1, <3>2
  <2>3. {files[k] : k \in S} = Range(files)
    BY <1>1 DEF Range
  <2>4. Len(body) = SumFunctionOnSet(g, S)
    BY <1>3, <1>6
  <2>5. Weight(disk, Range(files)) = SumFunctionOnSet(v, Range(files))
    BY DEF Weight
  <2> HIDE DEF g, v, S
  <2>6. SumFunctionOnSet(v, {files[k] : k \in S}) = SumFunctionOnSet(g, S)
    BY <2>1, <2>2, SumMapped
  <2> QED
    BY <2>3, <2>4, <2>5, <2>6
<1>8. ASSUME NEW f \in Range(files) PROVE Covered(disk[f].body) \subseteq Covered(body)
  <2>1. PICK k \in 1 .. n : files[k] = f
    BY <1>1 DEF Range
  <2>2. Range(q[k]) \subseteq Range(body)
    BY <1>3, <1>6
  <2>3. \A b \in Bodies : Covered(b) = UNION Range(b)
    BY DEF Covered, Range
  <2>4. q[k] \in Bodies /\ body \in Bodies /\ q[k] = disk[f].body
    BY <1>1, <1>2, <1>5, <1>6, <2>1 DEF Bodies
  <2> QED
    BY <2>2, <2>3, <2>4
<1>9. n = 1 => body = disk[files[1]].body
  BY <1>1, <1>3, <1>5, <1>6
<1> QED
  BY <1>6, <1>7, <1>8, <1>9 DEF Merged, Bodies, n

\* Files of traces are sent as one: under the id of a single file, else under a new one.
LEMMA ReplayTracesKeeps ==
  ASSUME ShipperInv, ReplayTraces
  PROVE  ShipperInv'
<1> DEFINE n == Together
           files == SubSeq(list, 1, n)
           rest == SubSeq(list, n + 1, Len(list))
           body == FlattenSeq([k \in 1 .. n |-> disk[files[k]].body])
           id == IF n = 1 THEN Head(list) ELSE ids + 1
           r == [kind |-> "traces", id |-> id, files |-> files, verdict |-> "none",
                 body |-> body]
<1>1. /\ TypeOK /\ pc = "replay" /\ list # <<>> /\ list \in Seq(Nat)
      /\ Head(list) \in OfKind(disk, "traces")
      /\ Deliver(r, rest) /\ ids' = (IF n = 1 THEN ids ELSE ids + 1)
      /\ UNCHANGED <<replaying, countVars, lossVars, bufferVars>>
  BY DEF ShipperInv, ReplayTraces, TypeOK
<1>2. n \in 1 .. Len(list) /\ \A k \in 1 .. n : list[k] \in OfKind(disk, "traces")
  BY <1>1, TogetherParts
<1>3. \A k, l \in DOMAIN list : list[k] = list[l] => k = l
  BY DEF ShipperInv, IdsOK
<1> HIDE DEF n
<1>4. /\ files \in Seq(Nat) /\ files # <<>> /\ Len(files) = n /\ DOMAIN files = 1 .. n
      /\ \A k \in 1 .. n : files[k] = list[k] /\ k \in DOMAIN list
      /\ \A k, l \in DOMAIN files : files[k] = files[l] => k = l
      /\ rest \in Seq(Nat) /\ \A k, l \in DOMAIN rest : rest[k] = rest[l] => k = l
  <2> DEFINE front == files
             end == rest
  <2>1. front = SubSeq(list, 1, n) /\ end = SubSeq(list, n + 1, Len(list))
    OBVIOUS
  <2> HIDE DEF front, end
  <2>2. Parted(list, n, front, end)
    BY <1>1, <1>2, <1>3, <2>1, ListTail
  <2> QED
    BY <2>2 DEF front, end, Parted
<1>5. body = FlattenSeq([k \in 1 .. Len(files) |-> disk[files[k]].body])
  BY <1>4
<1> HIDE DEF files, rest, body
<1>6. Range(files) \subseteq OfKind(disk, "traces") /\ Range(files) \subseteq DOMAIN disk
  BY <1>2, <1>4 DEF Range, OfKind
<1>7. Merged(files, body)
  BY <1>1, <1>4, <1>5, <1>6, MergedParts
<1>8. /\ ids \in Nat /\ \A j \in DOMAIN disk \cup known : j <= ids /\ j \in Nat
      /\ Head(list) = list[1] /\ Head(list) \in DOMAIN disk
  <2>1. ids \in Nat /\ known \subseteq Nat /\ DOMAIN disk \subseteq Nat
    BY <1>1 DEF TypeOK, BufferTypeOK
  <2>2. \A j \in DOMAIN disk \cup known : j <= ids
    BY DEF ShipperInv, IdsOK
  <2>3. Head(list) = list[1] /\ Head(list) \in DOMAIN disk
    BY <1>1 DEF OfKind
  <2> QED
    BY <2>1, <2>2, <2>3
<1>9. id \in Nat /\ id <= ids' /\ ids' \in Nat /\ ids <= ids'
  BY <1>1, <1>8
<1>10. id \in known \cup DOMAIN disk => n = 1 /\ id = files[1]
  <2>1. ids + 1 \notin known \cup DOMAIN disk
    BY <1>8
  <2> QED
    BY <1>2, <1>4, <1>8, <2>1
<1> HIDE DEF id
<1>11. Requested(r, rest)
  <2>1. body \in Bodies
    BY <1>7 DEF Merged
  <2>2. r \in [kind : Kinds, id : Nat, body : Bodies, files : Seq(Nat),
               verdict : {"none", "ok", "large", "refused", "later"}]
    BY <1>4, <1>9, <2>1 DEF Kinds
  <2>3. r.files = files /\ r.kind = "traces" /\ r.id = id /\ r.body = body
    OBVIOUS
  <2>4. id \in known \cup DOMAIN disk => files = <<id>> /\ body = disk[id].body
    <3>1. n = 1 /\ id = files[1] => files = <<id>>
      BY <1>4
    <3> QED
      BY <1>4, <1>7, <1>10, <3>1 DEF Merged
  <2> HIDE DEF r
  <2> QED
    BY <1>4, <1>6, <1>7, <2>2, <2>3, <2>4 DEF Requested, Merged
<1>12. r.id = id
  OBVIOUS
<1> HIDE DEF r
<1> QED
  BY <1>1, <1>9, <1>11, <1>12, DeliverKeeps

-----------------------------------------------------------------------------
(* The end of the process                                                   *)

\* The memory is gone and its losses are recorded.
LEMMA VanishKeeps ==
  ASSUME ShipperInv, Vanish, faults' \in 0 .. MaxFaults, LossTyped',
         forgone \subseteq forgone',
         \A t \in Traces : missing[t] # "no" => missing'[t] # "no",
         \A t \in Traces : t \in InMemory("aggregates") \ CoveredIn(disk, "aggregates") =>
           missing'[t] # "no",
         \A t \in Traces : t \in InMemory("traces") \ CoveredIn(disk, "traces") => t \in forgone'
  PROVE  ShipperInv'
<1> USE DEF procVars, flagVars, intakeVars, sendVars, countVars, consoleVars, lossVars, bufferVars
<1>1. /\ TypeOK /\ phase' = "down" /\ pending' = <<>> /\ entered' = 0 /\ late' = {}
      /\ minutes' = [m \in Minutes |-> {}]
      /\ auth' = FALSE /\ plan' = FALSE /\ backing' = FALSE
      /\ pc' = "idle" /\ job' = "traces" /\ todo' = <<>> /\ req' = NoBatch /\ list' = <<>>
      /\ sent' = 0 /\ dropped' = 0 /\ trimmed' = 0
      /\ UNCHANGED <<lives, clock, observed, ids, consoleVars, disk>>
  BY DEF ShipperInv, Vanish
<1>2. /\ NoBatch.files = <<>> /\ NoBatch.id = 0
      /\ NoBatch \in [kind : Kinds, id : Nat, body : Bodies, files : Seq(Nat),
                      verdict : {"none", "ok", "large", "refused", "later"}]
      /\ <<>> \in Seq(Nat) /\ <<>> \in Seq(File) /\ <<>> \in Seq(Traces) /\ DOMAIN <<>> = {}
  BY DEF NoBatch, Kinds, Bodies
<1>3. InMinutes' = {} /\ CoveredIn(todo', "aggregates") = {}
  BY <1>1, EmptyParts DEF InMinutes
<1>4. TypeOK'
  <2>1. ProcTyped'
    BY <1>1, TypeFrames DEF ProcTyped
  <2>2. IntakeTyped'
    BY <1>1, <1>2, TypeFrames DEF IntakeTyped
  <2>3. SendTyped'
    BY <1>1, <1>2, TypeFrames DEF SendTyped
  <2>4. BufferTypeOK'
    BY <1>1 DEF TypeOK, BufferTypeOK
  <2>5. UNCHANGED consoleVars /\ sent' \in Nat /\ dropped' \in Nat
    BY <1>1
  <2> QED
    BY <1>1, <2>1, <2>2, <2>3, <2>4, <2>5, TypeFrames
<1>5. ControlOK'
  BY <1>1, <1>2 DEF ShipperInv, ControlOK
<1>6. DownOK'
  BY <1>1, <1>3 DEF DownOK
<1>7. IdsOK'
  <2>1. ids \in Nat
    BY <1>1 DEF TypeOK
  <2> QED
    BY <1>1, <1>2, <2>1 DEF ShipperInv, IdsOK
<1>8. RequestOK' /\ HeardOK'
  BY <1>1, <1>2, Frames
<1>9. InOnePlace'
  BY <1>1, <1>2, <1>3 DEF ShipperInv, InOnePlace
<1>10. CountedOK'
  BY <1>1, <1>2, <1>3 DEF ShipperInv, CountedOK, AggregatesOnce
<1>11. LateOK' /\ Accounted'
  BY <1>1 DEF LateOK, Accounted
<1>12. NothingLost'
  <2>1. CoveredIn(disk', "aggregates") = CoveredIn(disk, "aggregates")
        /\ CoveredIn(disk', "traces") = CoveredIn(disk, "traces")
    BY <1>1
  <2> QED
    BY <1>1, <2>1, LossStep
<1> QED
  BY <1>4, <1>5, <1>6, <1>7, <1>8, <1>9, <1>10, <1>11, <1>12 DEF ShipperInv

\* What the process has in memory, and what one record speaks of.
LEMMA MemoryTyped ==
  ASSUME TypeOK
  PROVE  /\ InMemory("traces") \subseteq Traces
         /\ InMemory("aggregates") \subseteq Traces
         /\ \A some : Covered(<<some>>) = some
<1>1. Batches(todo) /\ req.body \in Bodies
  BY SeqBatches DEF TypeOK
<1>2. \A kind : CoveredIn(todo, kind) \subseteq Traces
  BY <1>1, CoveredTyped
<1>3. Covered(req.body) \subseteq Traces
  BY <1>1, CoveredTyped
<1>4. Range(pending) \subseteq Traces /\ InMinutes \subseteq Traces
  BY DEF TypeOK, Range, InMinutes
<1>5. ASSUME NEW some PROVE Covered(<<some>>) = some
  BY DEF Covered
<1> QED
  BY <1>2, <1>3, <1>4, <1>5 DEF InMemory

\* An orderly end: what is left came after the last flush began.
LEMMA ExitKeeps ==
  ASSUME ShipperInv, Exit
  PROVE  ShipperInv'
<1> DEFINE gone == {t \in late : missing[t] = "no"}
<1>1. /\ TypeOK /\ phase = "final" /\ pc = "idle" /\ Vanish /\ faults' = faults
      /\ forgone' = forgone \cup late
      /\ missing' = [t \in Traces |-> IF t \in gone THEN "ended" ELSE missing[t]]
  <2>1. TypeOK
    BY DEF ShipperInv
  <2>2. Covered(<<late>>) = late /\ Covered(<<gone>>) = gone
    BY <2>1, MemoryTyped
  <2> QED
    BY <2>1, <2>2 DEF Exit, GiveUp, Miss
<1>2. /\ late \subseteq Traces /\ forgone \subseteq Traces /\ missing \in [Traces -> Reasons]
      /\ faults \in 0 .. MaxFaults
  BY <1>1 DEF TypeOK
<1>3. LossTyped' /\ forgone \subseteq forgone'
      /\ \A t \in Traces : /\ missing[t] # "no" => missing'[t] # "no"
                           /\ t \in late => missing'[t] # "no"
  BY <1>1, <1>2 DEF LossTyped, Reasons
<1>4. todo = <<>> /\ job = "aggregates"
  BY <1>1 DEF ShipperInv, ControlOK
<1>5. InMemory("aggregates") \subseteq late /\ InMemory("traces") \subseteq late
  <2>1. Range(pending) \cup InMinutes \subseteq late
    BY <1>1, <1>4 DEF ShipperInv, LateOK
  <2>2. \A kind : CoveredIn(todo, kind) = {}
    BY <1>4, EmptyParts
  <2> QED
    BY <1>1, <2>1, <2>2 DEF InMemory
<1> QED
  BY <1>1, <1>2, <1>3, <1>5, VanishKeeps

\* A crash: what is lost is what was nowhere else.
LEMMA CrashKeeps ==
  ASSUME ShipperInv, Crash
  PROVE  ShipperInv'
<1> DEFINE a == InMemory("traces") \ CoveredIn(disk, "traces")
           b == InMemory("aggregates") \ CoveredIn(disk, "aggregates")
<1>1. TypeOK /\ a \subseteq Traces /\ b \subseteq Traces
      /\ Covered(<<a>>) = a /\ Covered(<<b>>) = b
  BY MemoryTyped DEF ShipperInv
<1>2. /\ Vanish /\ Fault("crash") /\ forgone' = forgone \cup a
      /\ missing' = [t \in Traces |-> IF t \in b THEN "ended" ELSE missing[t]]
  BY <1>1 DEF Crash, GiveUp, Miss
<1>3. forgone \subseteq Traces /\ missing \in [Traces -> Reasons] /\ faults \in 0 .. MaxFaults
  BY <1>1 DEF TypeOK
<1>4. faults' \in 0 .. MaxFaults
  BY <1>2, <1>3, ShipperAssumption DEF Fault
<1> HIDE DEF a, b
<1>5. LossTyped' /\ forgone \subseteq forgone' /\ a \subseteq forgone'
      /\ \A t \in Traces : /\ missing[t] # "no" => missing'[t] # "no"
                           /\ t \in b => missing'[t] # "no"
  BY <1>1, <1>2, <1>3 DEF LossTyped, Reasons
<1> QED
  BY <1>2, <1>4, <1>5, VanishKeeps DEF a, b

-----------------------------------------------------------------------------
(* The specification                                                        *)

\* A collector that was never started.
LEMMA InitKeeps ==
  ASSUME Init
  PROVE  ShipperInv
<1>1. /\ NoBatch.files = <<>> /\ NoBatch.id = 0
      /\ NoBatch \in [kind : Kinds, id : Nat, body : Bodies, files : Seq(Nat),
                      verdict : {"none", "ok", "large", "refused", "later"}]
      /\ <<>> \in Seq(Nat) /\ <<>> \in Seq(File) /\ <<>> \in Seq(Traces) /\ DOMAIN <<>> = {}
  BY DEF NoBatch, Kinds, Bodies
<1>2. InMinutes = {} /\ \A kind : CoveredIn(<<>>, kind) = {}
  BY EmptyParts DEF Init, InMinutes
<1>3. TypeOK
  <2>1. IsFiniteSet({}) /\ <<>> \in [{} -> File]
    BY FS_EmptySet
  <2>2. BufferTypeOK
    BY <1>1, <2>1 DEF Init, BufferInit, BufferTypeOK
  <2>3. 0 \in Minutes /\ 0 \in 0 .. MaxLives /\ 0 \in 0 .. MaxFaults /\ 0 \in 0 .. MaxTraces
    BY ShipperAssumption, BufferAssumption DEF Minutes
  <2> QED
    BY <1>1, <2>2, <2>3 DEF Init, TypeOK, Reasons
<1>4. ControlOK /\ DownOK /\ RequestOK /\ HeardOK /\ LateOK /\ Accounted
  BY <1>1, <1>2 DEF Init, BufferInit, ControlOK, DownOK, RequestOK, HeardOK, LateOK, Accounted,
                    Range
<1>5. IdsOK
  BY <1>1 DEF Init, BufferInit, IdsOK
<1>6. InOnePlace
  BY <1>1, <1>2 DEF Init, BufferInit, InOnePlace, OfKind
<1>7. CountedOK
  BY <1>1, <1>2 DEF Init, BufferInit, CountedOK, AggregatesOnce, OfKind
<1>8. NothingLost
  <2>1. 1 .. observed = {}
    BY DEF Init
  <2> QED
    BY <2>1 DEF NothingLost, AggregatesKept, TracesKept
<1> QED
  BY <1>3, <1>4, <1>5, <1>6, <1>7, <1>8 DEF ShipperInv

\* A step that changes nothing.
LEMMA StutterKeeps ==
  ASSUME ShipperInv, UNCHANGED vars
  PROVE  ShipperInv'
<1> USE DEF vars, procVars, flagVars, intakeVars, sendVars, countVars, consoleVars, lossVars,
            bufferVars
<1>1. TypeOK'
  <2>1. TypeOK
    BY DEF ShipperInv
  <2>2. UNCHANGED <<procVars, faults, clock, flagVars>> /\ UNCHANGED intakeVars
        /\ UNCHANGED sendVars /\ UNCHANGED consoleVars /\ UNCHANGED lossVars
        /\ UNCHANGED bufferVars /\ UNCHANGED countVars
    OBVIOUS
  <2> QED
    BY <2>1, <2>2, TypeFrames
<1>2. ControlOK' /\ DownOK' /\ IdsOK' /\ RequestOK' /\ HeardOK'
  BY Frames
<1>3. InOnePlace' /\ CountedOK' /\ LateOK' /\ NothingLost' /\ Accounted'
  BY Frames
<1> QED
  BY <1>1, <1>2, <1>3 DEF ShipperInv

\* Every step keeps the invariant.
LEMMA StepKeeps ==
  ASSUME ShipperInv, [Next]_vars
  PROVE  ShipperInv'
<1>1. CASE UNCHANGED vars
  BY <1>1, StutterKeeps
<1>2. CASE ClockTick \/ BackoffOver
  BY <1>2, ClockTickKeeps, BackoffOverKeeps
<1>3. ASSUME NEW m \in Minutes \cap {clock - 1, clock}, NEW ship \in BOOLEAN, Observe(m, ship)
      PROVE  ShipperInv'
  BY <1>3, ObserveKeeps
<1>4. CASE TraceTick \/ AggTick \/ ReplayTick
  BY <1>4, TraceTickKeeps, AggTickKeeps, ReplayTickKeeps
<1>5. CASE Replay
  BY <1>5, ReplayTracesKeeps, ReplayAggregatesKeeps, ReplayDiscardsKeeps, ReplayDoneKeeps,
     RemoveFileKeeps, SettledKeeps DEF Replay
<1>6. CASE Sender
  BY <1>5, <1>6, SendKeeps, AnswerKeeps, KeepKeeps, NextBatchKeeps, FlushDoneKeeps DEF Sender
<1>7. CASE KeepFails \/ ReplayUnreadable
  BY <1>7, KeepFailsKeeps, ReplayUnreadableKeeps
<1>8. CASE Launch \/ Stop \/ LastFlush
  BY <1>8, LaunchKeeps, StopKeeps, LastFlushKeeps
<1>9. CASE Exit \/ Crash
  BY <1>9, ExitKeeps, CrashKeeps
<1> QED
  BY <1>1, <1>2, <1>3, <1>4, <1>6, <1>7, <1>8, <1>9 DEF Next

\* The invariant holds in every reachable state.
LEMMA Invariant == Spec => []ShipperInv
<1>1. Init => ShipperInv
  BY InitKeeps
<1>2. ShipperInv /\ [Next]_vars => ShipperInv'
  BY StepKeeps
<1> QED
  BY <1>1, <1>2, PTL DEF Spec

\* The shipper's types: in particular the counters never fall below zero, and a request is
\* one the code can make.
THEOREM ShipperTypes == Spec => []TypeOK
<1>1. ShipperInv => TypeOK
  BY DEF ShipperInv
<1> QED
  BY <1>1, Invariant, PTL

\* For every buffer limit, batch size and sequence of answers, faults and restarts, the counters
\* of `phpray status' account for every trace the process has taken to send.
THEOREM ShipperAccounts == Spec => []Accounted
<1>1. ShipperInv => Accounted
  BY DEF ShipperInv
<1> QED
  BY <1>1, Invariant, PTL

\* The console counts no request twice, and no trace and no minute is lost but in a way that is
\* recorded.
THEOREM ShipperDelivers == Spec => []DeliveredOnce
<1>1. ShipperInv => DeliveredOnce
  BY DEF ShipperInv, CountedOK, DeliveredOnce
<1> QED
  BY <1>1, Invariant, PTL

\* The account of the shipper and that of the console, together.
THEOREM ShipperExact == Spec => []ShippedOnce
<1>1. Accounted /\ DeliveredOnce => ShippedOnce
  BY DEF ShippedOnce
<1> QED
  BY <1>1, ShipperAccounts, ShipperDelivers, PTL

=============================================================================
