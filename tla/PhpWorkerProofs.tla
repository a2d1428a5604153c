---------------------------- MODULE PhpWorkerProofs ----------------------------
(***************************************************************************)
(* Proofs about a PHP process with the extension in it, for every number   *)
(* of processes, requests, crashes and resets, all limits, sizes of the    *)
(* cache and numbers of calls, whatever a script calls, loses in a         *)
(* generator or switches to in a fiber.  The invariants they rest on are   *)
(* in WorkerInvariants.                                                    *)
(*                                                                         *)
(* SickProcessInert is about one look at the health file; its proof needs  *)
(* what the file says of the crashes before, whatever handlers, starts and *)
(* resets were under way (HealthInv).  RightRing is about one attempt to   *)
(* attach; its proof needs that the time of the next attempt and that of   *)
(* the last failure keep step (RetryInv).                                  *)
(*                                                                         *)
(* That a profile is exact needs the accounts of the open frames (Ledger), *)
(* and that the frames the profiler has on its stack are, in order, those  *)
(* of the engine that were observed (MirrorOK): the engine says whose time *)
(* passes, the profiler charges it.  That the component is the right one   *)
(* needs that every entry of the cache tells its file's component and is   *)
(* reached by its probes (GoodCache), that the request's map leads to the  *)
(* component of that name (TableOf), and that an observed function keeps   *)
(* its slot (EngineOK); StageOK is when a profile begins and ends.         *)
(*                                                                         *)
(* TraceTellsRequest is about the end of a request.  Until then what the   *)
(* extension remembers is what the request did, but for the transfers that *)
(* are still tracked, and those are told once, by completing, closing or   *)
(* the flush at the end (RecordInv).  Then the record is chosen, written   *)
(* and read back: each section stands in the record where the sections     *)
(* before it end, each field in its section where the writer put it        *)
(* (RecordRead), and the statements of a line are the slowest (Slowest).   *)
(***************************************************************************)
EXTENDS WorkerInvariants, Recursion, SequenceTheorems

-----------------------------------------------------------------------------
(* What the health file shows.                                             *)

\* The crashes and the slots are finite.
LEMMA CrashesFinite ==
  /\ IsFiniteSet(Crashes) /\ IsFiniteSet(Slots)
  /\ \A S : S \subseteq Crashes => IsFiniteSet(S) /\ Cardinality(S) \in Nat
  /\ \A S : S \subseteq Slots => IsFiniteSet(S) /\ Cardinality(S) \in Nat
<1>1. MaxCrashes \in Nat /\ CrashSlots \in Nat
  BY HealthAssumption
<1>2. IsFiniteSet(Crashes) /\ IsFiniteSet(Slots)
  BY <1>1, FS_Interval DEF Crashes, Slots
<1> QED
  BY <1>2, FS_Subset, FS_CardinalityType

\* The file shows at least the crashes that must be counted.
LEMMA RecentAtLeastCertain ==
  ASSUME HealthInv
  PROVE  /\ CertainCrashes \in Nat /\ Recent(file.times) \in Nat
         /\ CertainCrashes <= Recent(file.times)
<1> DEFINE taken == Cardinality({k \in Crashes : dying[k].at # "none"})
           C == {k \in Crashes : Within(k) /\ log[k].fresh /\ k > taken - CrashSlots}
           R == {i \in Slots : file.times[i] > 0 /\ clock - file.times[i] <= Window}
           f == [k \in C |-> dying[k].slot]
<1>1. CertainCrashes = Cardinality(C) /\ Recent(file.times) = Cardinality(R)
  BY DEF CertainCrashes, Recent
<1>2. PICK n \in 0 .. MaxCrashes :
        /\ TakenUpTo(n)
        /\ file.slot <= n
        /\ \A k \in Crashes : log[k].fresh =>
             /\ resetting = 0 /\ k <= n /\ n - k < file.slot
             /\ dying[k].slot = (file.slot - (n - k + 1)) % CrashSlots
  BY DEF HealthInv, SlotsInv
<1>3. taken = n
  <2>1. {k \in Crashes : dying[k].at # "none"} = 1 .. n
    BY <1>2, HealthAssumption DEF TakenUpTo, Crashes
  <2>2. Cardinality(1 .. n) = IF 1 > n THEN 0 ELSE n - 1 + 1
    BY FS_Interval
  <2>3. taken = Cardinality(1 .. n)
    BY <2>1, Zenon
  <2> HIDE DEF taken
  <2> QED
    BY <2>2, <2>3
<1> HIDE DEF taken
<1>4. f \in [C -> R]
  <2> SUFFICES ASSUME NEW k \in C PROVE dying[k].slot \in R
    OBVIOUS
  <2>1. /\ dying[k].slot \in Slots /\ log[k].time \in Nat /\ clock \in Nat
        /\ file.times[dying[k].slot] \in Nat
    BY DEF HealthInv, HealthOK
  <2>2. log[k].time >= 1 /\ file.times[dying[k].slot] >= log[k].time
    BY DEF HealthInv, TimesInv, Within
  <2>3. clock - log[k].time <= Window
    BY DEF Within
  <2> QED
    BY <2>1, <2>2, <2>3, HealthAssumption
<1>5. ASSUME NEW j \in C, NEW k \in C, j < k PROVE dying[j].slot # dying[k].slot
  <2> DEFINE p == file.slot - (n - j + 1)
             q == file.slot - (n - k + 1)
  <2>1. j \in Nat /\ k \in Nat /\ n \in Nat /\ file.slot \in Nat /\ CrashSlots \in Nat \ {0}
    BY HealthAssumption DEF HealthInv, HealthOK, Crashes
  <2>2. j > n - CrashSlots /\ k <= n /\ n - j < file.slot /\ n - k < file.slot
    BY <1>2, <1>3
  <2>3. p \in Nat /\ q \in Nat /\ p < q /\ q < p + CrashSlots
    BY <1>5, <2>1, <2>2
  <2>4. dying[j].slot = p % CrashSlots /\ dying[k].slot = q % CrashSlots
    BY <1>2
  <2> HIDE DEF p, q
  <2> QED
    BY <2>1, <2>3, <2>4, RemaindersApart
<1>6. f \in Injection(C, R)
  <2>1. \A j, k \in C : f[j] = f[k] => j = k
    <3>1. \A j \in C : j \in Nat
      BY DEF Crashes
    <3> QED
      BY <1>5, <3>1
  <2> HIDE DEF f, C, R
  <2> QED
    BY <1>4, <2>1 DEF Injection, IsInjective
<1>7. IsFiniteSet(R) /\ Cardinality(R) \in Nat /\ Cardinality(C) \in Nat
  BY CrashesFinite
<1> HIDE DEF f, C, R
<1> QED
  BY <1>1, <1>6, <1>7, FS_Injection

\* The file shows no crash that has not happened.
LEMMA RecentAtMostPossible ==
  ASSUME HealthInv
  PROVE  PossibleCrashes \in Nat /\ Recent(file.times) <= PossibleCrashes
<1> DEFINE P == {k \in Crashes : Within(k)}
           R == {i \in Slots : file.times[i] > 0 /\ clock - file.times[i] <= Window}
           crash(i, k) ==
             dying[k].at = "over" /\ dying[k].slot = i /\ log[k].time = file.times[i]
           f == [i \in R |-> CHOOSE k \in Crashes : crash(i, k)]
<1>1. PossibleCrashes = Cardinality(P) /\ Recent(file.times) = Cardinality(R)
  BY DEF PossibleCrashes, Recent
<1>2. ASSUME NEW i \in R PROVE f[i] \in Crashes /\ crash(i, f[i])
  BY DEF HealthInv, TimesInv
<1>3. f \in [R -> P]
  BY <1>2 DEF Within
<1>4. \A i, j \in R : f[i] = f[j] => i = j
  BY <1>2
<1>5. IsFiniteSet(P) /\ Cardinality(P) \in Nat
  BY CrashesFinite
<1> HIDE DEF f, P, R
<1>6. f \in Injection(R, P)
  BY <1>3, <1>4 DEF Injection, IsInjective
<1> QED
  BY <1>1, <1>5, <1>6, FS_Injection

\* The types of the health file are kept.
LEMMA HealthTyped ==
  ASSUME HealthOK, HealthStep
  PROVE  HealthOK'
<1>1. /\ file.times \in [Slots -> Nat] /\ file.slot \in Nat /\ file.disabled \in BOOLEAN
      /\ clock \in Nat \ {0} /\ clock + 1 \in Nat \ {0}
  BY DEF HealthOK
<1>2. CASE Later
  BY <1>1, <1>2 DEF Later, HealthOK
<1>3. CASE CrashTakesSlot
  <2>1. PICK k \in Crashes :
          /\ dying' = [dying EXCEPT ![k] = [at |-> "store", slot |-> file.slot % CrashSlots]]
          /\ file' = [file EXCEPT !.slot = @ + 1]
          /\ log' = [log EXCEPT ![k].fresh = resetting = 0]
          /\ UNCHANGED <<clock, resetting, resets>>
    BY <1>3 DEF CrashTakesSlot
  <2>2. file.slot % CrashSlots \in Slots
    BY <1>1, HealthAssumption DEF Slots
  <2>3. file' \in [times : [Slots -> Nat], slot : Nat, disabled : BOOLEAN]
    <3>1. file \in [times : [Slots -> Nat], slot : Nat, disabled : BOOLEAN]
      BY DEF HealthOK
    <3>2. file' = [file EXCEPT !.slot = @ + 1] /\ file.slot + 1 \in Nat
      BY <1>1, <2>1
    <3> QED
      BY <3>1, <3>2
  <2>4. dying' \in [Crashes -> [at : {"none", "store", "over"}, slot : Slots]]
    BY <2>1, <2>2 DEF HealthOK
  <2>5. log' \in [Crashes -> [time : Nat, fresh : BOOLEAN]]
    <3>1. log \in [Crashes -> [time : Nat, fresh : BOOLEAN]]
      BY DEF HealthOK
    <3>2. log' = [log EXCEPT ![k].fresh = (resetting = 0)] /\ (resetting = 0) \in BOOLEAN
      BY <2>1
    <3> QED
      BY <3>1, <3>2
  <2> QED
    BY <2>1, <2>3, <2>4, <2>5 DEF HealthOK
<1>4. CASE CrashStores
  <2>1. PICK k \in Crashes :
          /\ dying' = [dying EXCEPT ![k].at = "over"]
          /\ file' = [file EXCEPT !.times[dying[k].slot] = clock]
          /\ log' = [log EXCEPT ![k].time = clock]
          /\ UNCHANGED <<clock, resetting, resets>>
    BY <1>4 DEF CrashStores
  <2>2. file' \in [times : [Slots -> Nat], slot : Nat, disabled : BOOLEAN]
    <3>1. /\ file \in [times : [Slots -> Nat], slot : Nat, disabled : BOOLEAN]
          /\ dying[k].slot \in Slots
      BY DEF HealthOK
    <3>2. file' = [file EXCEPT !.times = [file.times EXCEPT ![dying[k].slot] = clock]]
      BY <2>1
    <3>3. [file.times EXCEPT ![dying[k].slot] = clock] \in [Slots -> Nat]
      BY <1>1, <3>1
    <3> QED
      BY <3>1, <3>2, <3>3
  <2>3. dying' \in [Crashes -> [at : {"none", "store", "over"}, slot : Slots]]
    BY <2>1 DEF HealthOK
  <2>4. log' \in [Crashes -> [time : Nat, fresh : BOOLEAN]]
    BY <1>1, <2>1 DEF HealthOK
  <2> QED
    BY <2>1, <2>2, <2>3, <2>4 DEF HealthOK
<1>5. CASE HealthStart
  <2>1. TooMany \in BOOLEAN
    BY DEF TooMany
  <2> QED
    BY <1>1, <1>5, <2>1 DEF HealthStart, HealthOK
<1>6. CASE ResetBegin
  <2>1. log' \in [Crashes -> [time : Nat, fresh : BOOLEAN]]
    BY <1>6 DEF ResetBegin, HealthOK
  <2> QED
    BY <1>6, <2>1, HealthAssumption DEF ResetBegin, HealthOK
<1>7. CASE ResetStep
  <2>1. resetting' \in 0 .. 2 + CrashSlots
    <3>1. resetting \in 0 .. 2 + CrashSlots /\ CrashSlots \in Nat
      BY HealthAssumption DEF HealthOK
    <3>2. resetting' = IF resetting = 2 + CrashSlots THEN 0 ELSE resetting + 1
      BY <1>7 DEF ResetStep
    <3> QED
      BY <3>1, <3>2
  <2>2. file' \in [times : [Slots -> Nat], slot : Nat, disabled : BOOLEAN]
    BY <1>1, <1>7 DEF ResetStep, HealthOK
  <2> QED
    BY <1>7, <2>1, <2>2 DEF ResetStep, HealthOK
<1>8. CASE UNCHANGED healthVars
  BY <1>8 DEF healthVars, HealthOK
<1> QED
  BY <1>2, <1>3, <1>4, <1>5, <1>6, <1>7, <1>8 DEF HealthStep

\* Where the crashes took their slots stays known.
LEMMA SlotsKept ==
  ASSUME HealthInv, HealthStep
  PROVE  SlotsInv'
<1>1. PICK n \in 0 .. MaxCrashes :
        /\ TakenUpTo(n)
        /\ file.slot <= n
        /\ \A k \in Crashes : log[k].fresh =>
             /\ resetting = 0 /\ k <= n /\ n - k < file.slot
             /\ dying[k].slot = (file.slot - (n - k + 1)) % CrashSlots
  BY DEF HealthInv, SlotsInv
<1>2. file.slot \in Nat /\ n \in Nat /\ CrashSlots \in Nat \ {0} /\ MaxCrashes \in Nat
  BY HealthAssumption DEF HealthInv, HealthOK
<1>3. HealthOK
  BY DEF HealthInv
<1>4. ASSUME UNCHANGED <<dying, log, resetting>>, file.slot' = file.slot
      PROVE  SlotsInv'
  BY <1>1, <1>4 DEF SlotsInv, TakenUpTo
<1>5. CASE Later
  BY <1>4, <1>5 DEF Later
<1>6. CASE CrashTakesSlot
  <2>1. PICK k \in Crashes :
          /\ dying[k].at = "none" /\ \A j \in 1 .. k - 1 : dying[j].at # "none"
          /\ dying' = [dying EXCEPT ![k] = [at |-> "store", slot |-> file.slot % CrashSlots]]
          /\ file' = [file EXCEPT !.slot = @ + 1]
          /\ log' = [log EXCEPT ![k].fresh = resetting = 0]
          /\ UNCHANGED <<clock, resetting, resets>>
    BY <1>6 DEF CrashTakesSlot
  <2>2. k = n + 1 /\ k \in 1 .. MaxCrashes
    <3>1. k \in 1 .. MaxCrashes /\ ~(k <= n)
      BY <1>1, <2>1 DEF TakenUpTo, Crashes
    <3>2. k > n + 1 => n + 1 \in Crashes /\ dying[n + 1].at # "none"
      BY <1>2, <2>1, <3>1 DEF Crashes
    <3>3. k > n + 1 => n + 1 <= n
      BY <1>1, <3>2 DEF TakenUpTo
    <3> QED
      BY <1>2, <3>1, <3>3
  <2>3. file.slot' = file.slot + 1 /\ resetting' = resetting
    BY <1>3, <2>1 DEF HealthOK
  <2>4. /\ dying'[k].at = "store" /\ dying'[k].slot = file.slot % CrashSlots
        /\ \A j \in Crashes \ {k} : dying'[j] = dying[j]
    BY <1>3, <2>1 DEF HealthOK
  <2>5. /\ log'[k].fresh = (resetting = 0)
        /\ \A j \in Crashes \ {k} : log'[j].fresh = log[j].fresh
    BY <1>3, <2>1 DEF HealthOK
  <2>6. \A j \in Crashes : dying'[j].at # "none" <=> j <= n + 1
    <3> TAKE j \in Crashes
    <3>1. CASE j = k
      BY <2>2, <2>4, <3>1
    <3>2. CASE j # k
      BY <1>1, <1>2, <2>2, <2>4, <3>2 DEF TakenUpTo, Crashes
    <3> QED BY <3>1, <3>2
  <2>7. ASSUME NEW j \in Crashes, log'[j].fresh
        PROVE  /\ resetting' = 0 /\ j <= n + 1 /\ (n + 1) - j < file.slot'
               /\ dying'[j].slot = (file.slot' - ((n + 1) - j + 1)) % CrashSlots
    <3>1. CASE j = k
      <4>1. file.slot' - ((n + 1) - j + 1) = file.slot /\ (n + 1) - j = 0
        BY <1>2, <2>2, <2>3, <3>1
      <4>2. resetting = 0
        BY <2>5, <2>7, <3>1
      <4>3. j <= n + 1 /\ 0 < file.slot'
        BY <1>2, <2>2, <2>3, <3>1
      <4>4. dying'[j].slot = (file.slot' - ((n + 1) - j + 1)) % CrashSlots
        BY <2>4, <3>1, <4>1
      <4> QED
        BY <2>3, <4>1, <4>2, <4>3, <4>4
    <3>2. CASE j # k
      <4>1. /\ resetting = 0 /\ j <= n /\ n - j < file.slot
            /\ dying[j].slot = (file.slot - (n - j + 1)) % CrashSlots
        BY <1>1, <2>5, <2>7, <3>2
      <4>2. j \in Nat
        BY DEF Crashes
      <4>3. file.slot' - ((n + 1) - j + 1) = file.slot - (n - j + 1)
        BY <1>2, <2>3, <4>2
      <4> QED
        BY <1>2, <2>3, <2>4, <3>2, <4>1, <4>2, <4>3
    <3> QED BY <3>1, <3>2
  <2>8. n + 1 \in 0 .. MaxCrashes /\ file.slot' <= n + 1
    BY <1>1, <1>2, <2>2, <2>3
  <2> QED
    BY <2>6, <2>7, <2>8 DEF SlotsInv, TakenUpTo
<1>7. CASE CrashStores
  <2>1. PICK k \in Crashes :
          /\ dying[k].at = "store"
          /\ dying' = [dying EXCEPT ![k].at = "over"]
          /\ file' = [file EXCEPT !.times[dying[k].slot] = clock]
          /\ log' = [log EXCEPT ![k].time = clock]
          /\ UNCHANGED <<clock, resetting, resets>>
    BY <1>7 DEF CrashStores
  <2>2. file.slot' = file.slot /\ resetting' = resetting
    BY <1>3, <2>1 DEF HealthOK
  <2>3. \A j \in Crashes : /\ dying'[j].slot = dying[j].slot
                           /\ dying'[j].at # "none" <=> dying[j].at # "none"
                           /\ log'[j].fresh = log[j].fresh
    BY <1>3, <2>1 DEF HealthOK
  <2> QED
    BY <1>1, <2>2, <2>3 DEF SlotsInv, TakenUpTo
<1>8. CASE HealthStart
  <2>1. file.slot' = file.slot
    BY <1>3, <1>8 DEF HealthStart, HealthOK
  <2> QED
    BY <1>4, <1>8, <2>1 DEF HealthStart
<1>9. CASE ResetBegin
  <2>1. \A k \in Crashes : ~log'[k].fresh
    BY <1>3, <1>9 DEF ResetBegin, HealthOK
  <2> QED
    BY <1>1, <1>9, <2>1 DEF ResetBegin, SlotsInv, TakenUpTo
<1>10. CASE ResetStep
  <2>1. \A k \in Crashes : ~log'[k].fresh
    BY <1>1, <1>10 DEF ResetStep
  <2>2. file.slot' \in {0, file.slot}
    BY <1>3, <1>10 DEF ResetStep, HealthOK
  <2>3. dying' = dying /\ file.slot' <= n
    BY <1>1, <1>2, <1>10, <2>2 DEF ResetStep
  <2> QED
    BY <1>1, <2>1, <2>3 DEF SlotsInv, TakenUpTo
<1>11. CASE UNCHANGED healthVars
  BY <1>4, <1>11 DEF healthVars
<1> QED
  BY <1>5, <1>6, <1>7, <1>8, <1>9, <1>10, <1>11 DEF HealthStep

\* The times in the file stay those of crashes, and none of them is lost without a reset.
LEMMA TimesKept ==
  ASSUME HealthInv, HealthStep
  PROVE  TimesInv'
<1> USE DEF HealthInv
<1>1. /\ HealthOK /\ HealthOK' /\ clock \in Nat \ {0} /\ file.times \in [Slots -> Nat]
      /\ \A k \in Crashes : log[k].time \in Nat /\ dying[k].slot \in Slots
  BY HealthTyped DEF HealthOK
<1>2. ASSUME UNCHANGED <<dying, log>>, file.times' = file.times, clock' \in Nat, clock <= clock'
      PROVE  TimesInv'
  <2>1. \A k \in Crashes : dying[k].at = "over" => log[k].time \in 1 .. clock'
    BY <1>1, <1>2 DEF TimesInv
  <2> QED
    BY <1>2, <2>1 DEF TimesInv
<1>3. CASE Later
  <2>1. clock' = clock + 1
    BY <1>3 DEF Later
  <2> QED
    BY <1>1, <1>2, <1>3, <2>1 DEF Later
<1>4. CASE CrashTakesSlot
  <2>1. PICK k \in Crashes :
          /\ dying[k].at = "none"
          /\ dying' = [dying EXCEPT ![k] = [at |-> "store", slot |-> file.slot % CrashSlots]]
          /\ file' = [file EXCEPT !.slot = @ + 1]
          /\ log' = [log EXCEPT ![k].fresh = resetting = 0]
          /\ UNCHANGED <<clock, resetting, resets>>
    BY <1>4 DEF CrashTakesSlot
  <2>2. file.times' = file.times
    BY <1>1, <2>1 DEF HealthOK
  <2>3. /\ dying'[k].at = "store"
        /\ \A j \in Crashes \ {k} : dying'[j] = dying[j] /\ log'[j] = log[j]
    BY <1>1, <2>1 DEF HealthOK
  <2>4. \A j \in Crashes : dying[j].at = "over" => j # k
    BY <2>1
  <2>5. \A j \in Crashes : dying'[j].at = "over" => dying[j].at = "over" /\ log'[j] = log[j]
    BY <2>3
  <2>6. \A i \in Slots : file.times'[i] > 0 =>
          \E j \in Crashes :
            dying'[j].at = "over" /\ dying'[j].slot = i /\ log'[j].time = file.times'[i]
    BY <2>2, <2>3, <2>4 DEF TimesInv
  <2> QED
    BY <2>1, <2>2, <2>3, <2>5, <2>6 DEF TimesInv
<1>5. CASE CrashStores
  <2>1. PICK k \in Crashes :
          /\ dying[k].at = "store"
          /\ dying' = [dying EXCEPT ![k].at = "over"]
          /\ file' = [file EXCEPT !.times[dying[k].slot] = clock]
          /\ log' = [log EXCEPT ![k].time = clock]
          /\ UNCHANGED <<clock, resetting, resets>>
    BY <1>5 DEF CrashStores
  <2>2. /\ file.times'[dying[k].slot] = clock
        /\ \A i \in Slots \ {dying[k].slot} : file.times'[i] = file.times[i]
    BY <1>1, <2>1 DEF HealthOK
  <2>3. /\ dying'[k].at = "over" /\ log'[k].time = clock
        /\ \A j \in Crashes : dying'[j].slot = dying[j].slot /\ log'[j].fresh = log[j].fresh
        /\ \A j \in Crashes \ {k} : dying'[j] = dying[j] /\ log'[j] = log[j]
    BY <1>1, <2>1 DEF HealthOK
  <2>4. ASSUME NEW j \in Crashes, dying'[j].at = "over" PROVE log'[j].time \in 1 .. clock
    BY <1>1, <2>3, <2>4 DEF TimesInv
  <2>5. ASSUME NEW j \in Crashes, dying'[j].at = "over", log'[j].fresh
        PROVE  file.times'[dying'[j].slot] >= log'[j].time
    <3>1. CASE dying[j].slot = dying[k].slot
      BY <1>1, <2>2, <2>3, <2>4, <2>5, <3>1
    <3>2. CASE dying[j].slot # dying[k].slot
      BY <1>1, <2>2, <2>3, <2>5, <3>2 DEF TimesInv
    <3> QED BY <3>1, <3>2
  <2>6. ASSUME NEW i \in Slots, file.times'[i] > 0
        PROVE  \E j \in Crashes :
                 dying'[j].at = "over" /\ dying'[j].slot = i /\ log'[j].time = file.times'[i]
    <3>1. CASE i = dying[k].slot
      BY <2>2, <2>3, <3>1
    <3>2. CASE i # dying[k].slot
      <4>1. PICK j \in Crashes :
              dying[j].at = "over" /\ dying[j].slot = i /\ log[j].time = file.times[i]
        BY <2>2, <2>6, <3>2 DEF TimesInv
      <4>2. j # k
        BY <2>1, <4>1
      <4> QED
        BY <2>2, <2>3, <3>2, <4>1, <4>2
    <3> QED BY <3>1, <3>2
  <2> QED
    BY <2>1, <2>4, <2>5, <2>6 DEF TimesInv
<1>6. CASE HealthStart
  <2>1. file.times' = file.times
    BY <1>1, <1>6 DEF HealthStart, HealthOK
  <2> QED
    BY <1>1, <1>2, <1>6, <2>1 DEF HealthStart
<1>7. CASE ResetBegin
  <2>1. \A k \in Crashes : log'[k].time = log[k].time /\ ~log'[k].fresh
    BY <1>1, <1>7 DEF ResetBegin, HealthOK
  <2>2. UNCHANGED <<file, clock, dying>>
    BY <1>7 DEF ResetBegin
  <2>3. \A k \in Crashes : dying[k].at = "over" => log'[k].time \in 1 .. clock
    BY <2>1 DEF TimesInv
  <2>4. \A i \in Slots : file.times[i] > 0 =>
          \E k \in Crashes :
            dying[k].at = "over" /\ dying[k].slot = i /\ log'[k].time = file.times[i]
    BY <2>1 DEF TimesInv
  <2> QED
    BY <2>1, <2>2, <2>3, <2>4 DEF TimesInv
<1>8. CASE ResetStep
  <2>1. \A k \in Crashes : ~log[k].fresh
    BY <1>8 DEF ResetStep, SlotsInv
  <2>2. UNCHANGED <<clock, dying, log>>
    BY <1>8 DEF ResetStep
  <2>3. \A i \in Slots : file.times'[i] \in {0, file.times[i]}
    <3>1. CASE resetting \in {1, 2}
      BY <1>1, <1>8, <3>1 DEF ResetStep, HealthOK
    <3>2. CASE resetting \notin {1, 2}
      BY <1>1, <1>8, <3>2 DEF ResetStep, HealthOK
    <3> QED BY <3>1, <3>2
  <2>4. \A i \in Slots : file.times'[i] > 0 => file.times'[i] = file.times[i]
    BY <1>1, <2>3
  <2>5. \A i \in Slots : file.times'[i] > 0 =>
          \E k \in Crashes :
            dying[k].at = "over" /\ dying[k].slot = i /\ log[k].time = file.times'[i]
    BY <2>4 DEF TimesInv
  <2>6. \A k \in Crashes : dying[k].at = "over" => log[k].time \in 1 .. clock
    BY DEF TimesInv
  <2> QED
    BY <2>1, <2>2, <2>5, <2>6 DEF TimesInv
<1>9. CASE UNCHANGED healthVars
  BY <1>1, <1>2, <1>9 DEF healthVars
<1> QED
  BY <1>3, <1>4, <1>5, <1>6, <1>7, <1>8, <1>9 DEF HealthStep

\* Every step of the module keeps what the health file is known to say.
LEMMA HealthKept ==
  ASSUME HealthInv, HealthStep
  PROVE  HealthInv'
BY HealthTyped, SlotsKept, TimesKept DEF HealthInv

-----------------------------------------------------------------------------
(* What a process knows of its start.                                      *)

\* What each step does to the health file.
LEMMA StepHealth ==
  ASSUME [Next]_vars
  PROVE  HealthStep
<1>1. CASE Spawn
  BY <1>1 DEF Spawn, HealthStep
<1>2. CASE Stop
  BY <1>2 DEF Stop, HealthStep
<1>3. CASE Die
  BY <1>3 DEF Die, HealthStep
<1>4. CASE Others
  BY <1>4 DEF Others, HealthStep
<1>5. CASE TimePasses
  BY <1>5 DEF TimePasses, HealthStep
<1>6. CASE Begin
  BY <1>6 DEF Begin, Rinit, HealthStep
<1>7. CASE Record
  BY <1>7 DEF Record, HealthStep
<1>8. CASE Run
  BY <1>8 DEF Run, HealthStep
<1>9. CASE End
  BY <1>9 DEF End, HealthStep
<1>10. CASE UNCHANGED vars
  BY <1>10 DEF vars, HealthStep
<1> QED
  BY <1>1, <1>2, <1>3, <1>4, <1>5, <1>6, <1>7, <1>8, <1>9, <1>10 DEF Next

-----------------------------------------------------------------------------
(* What a request remembers.                                               *)

\* Recording a call keeps an array within its limit.
LEMMA PutTyped ==
  ASSUME NEW max \in Nat, NEW first \in 1 .. max, max < Width,
         NEW l, ListOK(l, max), NEW item \in Entry
  PROVE  ListOK(Put(l, item, first, max), max)
<1> DEFINE a == Room(l, first, max)
           at == IF l.count >= max THEN 0 ELSE l.count + 1
           entry(i) == IF i = at THEN item ELSE IF i <= l.alloc THEN l.items[i] ELSE Blank
           items == [i \in 1 .. a |-> entry(i)]
<1>1. /\ l.count \in Nat /\ l.alloc \in Nat /\ l.items \in Seq(Entry) /\ l.total \in Nat
      /\ Len(l.items) = l.alloc /\ l.alloc <= max /\ item.dur \in Nat /\ Width \in Nat \ {0}
  <2>1. l \in Lists /\ Len(l.items) = l.alloc /\ l.alloc <= max
    BY DEF ListOK
  <2>2. item.dur \in Nat
    BY DEF Entry
  <2>3. Width \in Nat \ {0}
    BY RecorderAssumption
  <2> QED
    BY <2>1, <2>2, <2>3 DEF Lists
<1>2. a \in Nat /\ a <= max
  <2>1. Min({2 * l.alloc, max}) \in Nat /\ Min({2 * l.alloc, max}) <= max
    BY <1>1, MinOfTwo
  <2> QED
    BY <1>1, <2>1 DEF Room
<1>3. \A i \in 1 .. a : entry(i) \in Entry
  <2> TAKE i \in 1 .. a
  <2>1. Blank \in Entry
    BY DEF Blank, Entry
  <2>2. i <= l.alloc => l.items[i] \in Entry
    BY <1>1, <1>2, ElementOfSeq
  <2> QED BY <2>1, <2>2
<1> HIDE DEF a
<1>4. items \in Seq(Entry) /\ Len(items) = a
  BY <1>2, <1>3
<1>5. (l.count + 1) % Width \in Nat /\ (l.count + 1) % Width < Width
  BY <1>1
<1>6. l.total + item.dur \in Nat
  BY <1>1
<1>7. Put(l, item, first, max) =
        [count |-> (l.count + 1) % Width, alloc |-> a, items |-> items,
         total |-> l.total + item.dur]
  BY DEF Put, a
<1> HIDE DEF items
<1> QED
  BY <1>2, <1>4, <1>5, <1>6, <1>7 DEF ListOK, Lists

\* The parts of a request.
LEMMA RequestParts ==
  ASSUME NEW r, IsRequest(r)
  PROVE  /\ ListOK(r.q, QueriesMax) /\ ListOK(r.h, HttpMax) /\ r.on \in BOOLEAN
         /\ r.tracks \in [1 .. MultiMax -> Tracks]
         /\ r.marks \in Seq(Nat) /\ r.errors \in Seq(Nat) /\ r.files \in Nat /\ r.redis \in Nat
         /\ IsFiniteSet(ActiveTracks(r)) /\ ActiveTracks(r) \subseteq 1 .. MultiMax
         /\ r.tracked = Cardinality(ActiveTracks(r)) /\ r.tracked \in Nat
<1>1. r.tracks \in [1 .. MultiMax -> Tracks] /\ r.tracked = Cardinality(ActiveTracks(r))
  BY DEF IsRequest, Requests
<1>2. ActiveTracks(r) \subseteq 1 .. MultiMax
  BY <1>1 DEF ActiveTracks
<1>3. IsFiniteSet(ActiveTracks(r)) /\ Cardinality(ActiveTracks(r)) \in Nat
  <2>1. MultiMax \in Nat
    BY RecorderAssumption
  <2>2. IsFiniteSet(1 .. MultiMax)
    BY <2>1, FS_Interval
  <2> QED
    BY <1>2, <2>2, FS_Subset, FS_CardinalityType
<1> QED
  BY <1>1, <1>2, <1>3 DEF IsRequest, Requests

\* A request with another array, and with other tracks.
LEMMA QueriesPut ==
  ASSUME NEW r, IsRequest(r), NEW l, ListOK(l, QueriesMax), NEW q, q = [r EXCEPT !.q = l]
  PROVE  IsRequest(q) /\ q.on = r.on
<1>1. r \in Requests /\ r.tracked = Cardinality(ActiveTracks(r)) /\ ListOK(r.h, HttpMax)
  BY DEF IsRequest
<1>2. /\ q \in Requests /\ q.on = r.on /\ q.q = l /\ q.h = r.h /\ q.tracks = r.tracks
      /\ q.tracked = r.tracked
  BY <1>1 DEF Requests, ListOK
<1>3. ActiveTracks(q) = ActiveTracks(r)
  BY <1>2 DEF ActiveTracks
<1> QED
  BY <1>1, <1>2, <1>3 DEF IsRequest

\* A request with another list of calls is a request, with the same tracked transfers.
LEMMA HttpPut ==
  ASSUME NEW r, IsRequest(r), NEW l, ListOK(l, HttpMax), NEW q, q = [r EXCEPT !.h = l]
  PROVE  IsRequest(q) /\ q.on = r.on /\ q.tracks = r.tracks /\ q.tracked = r.tracked
<1>1. r \in Requests /\ r.tracked = Cardinality(ActiveTracks(r)) /\ ListOK(r.q, QueriesMax)
  BY DEF IsRequest
<1>2. /\ q \in Requests /\ q.on = r.on /\ q.h = l /\ q.q = r.q /\ q.tracks = r.tracks
      /\ q.tracked = r.tracked
  BY <1>1 DEF Requests, ListOK
<1>3. ActiveTracks(q) = ActiveTracks(r)
  BY <1>2 DEF ActiveTracks
<1> QED
  BY <1>1, <1>2, <1>3 DEF IsRequest

\* A request with other tracked transfers is a request.
LEMMA TracksPut ==
  ASSUME NEW r, IsRequest(r), NEW t, t \in [1 .. MultiMax -> Tracks],
         NEW n, n \in Nat, n = Cardinality(ActiveIn(t))
  PROVE  IsRequest(WithTracks(r, t, n)) /\ WithTracks(r, t, n).on = r.on
<1> DEFINE s == WithTracks(r, t, n)
<1>1. /\ s \in Requests /\ s.on = r.on /\ s.q = r.q /\ s.h = r.h /\ s.tracks = t
      /\ s.tracked = n
  BY DEF IsRequest, Requests, WithTracks
<1> HIDE DEF s
<1>2. ActiveTracks(s) = ActiveIn(t)
  BY <1>1 DEF ActiveTracks, ActiveIn
<1>3. IsRequest(s)
  BY <1>1, <1>2 DEF IsRequest
<1> QED
  BY <1>1, <1>3 DEF s

\* Recording a query or an HTTP call.
LEMMA RecordTyped ==
  ASSUME NEW r, IsRequest(r)
  PROVE  /\ \A sql \in Nat, dur \in Nat :
              /\ IsRequest(RecordQuery(r, sql, dur))
              /\ RecordQuery(r, sql, dur).on = r.on
         /\ \A url \in Nat :
              /\ IsRequest(RecordHttp(r, url))
              /\ RecordHttp(r, url).on = r.on
              /\ RecordHttp(r, url).tracks = r.tracks
              /\ RecordHttp(r, url).tracked = r.tracked
<1>1. /\ QueriesMax \in Nat /\ QueriesFirst \in 1 .. QueriesMax /\ QueriesMax < Width
      /\ HttpMax \in Nat /\ HttpFirst \in 1 .. HttpMax /\ HttpMax < Width
  BY RecorderAssumption
<1>2. ASSUME NEW sql \in Nat, NEW dur \in Nat
      PROVE  IsRequest(RecordQuery(r, sql, dur)) /\ RecordQuery(r, sql, dur).on = r.on
  <2> DEFINE item == [what |-> sql, dur |-> dur, bt |-> IF dur >= SlowQuery THEN 1 ELSE 0]
             l == Put(r.q, item, QueriesFirst, QueriesMax)
  <2>1. item \in Entry
    BY DEF Entry
  <2> HIDE DEF item
  <2>2. ListOK(l, QueriesMax)
    BY <1>1, <2>1, PutTyped DEF IsRequest
  <2>3. RecordQuery(r, sql, dur) = [r EXCEPT !.q = l]
    BY DEF RecordQuery, item
  <2> HIDE DEF l
  <2> QED
    BY <2>2, <2>3, QueriesPut
<1>3. ASSUME NEW url \in Nat
      PROVE  /\ IsRequest(RecordHttp(r, url)) /\ RecordHttp(r, url).on = r.on
             /\ RecordHttp(r, url).tracks = r.tracks /\ RecordHttp(r, url).tracked = r.tracked
  <2> DEFINE item == [what |-> url, dur |-> 1, bt |-> 0]
             l == Put(r.h, item, HttpFirst, HttpMax)
  <2>1. item \in Entry
    BY DEF Entry
  <2> HIDE DEF item
  <2>2. ListOK(l, HttpMax)
    BY <1>1, <2>1, PutTyped DEF IsRequest
  <2>3. RecordHttp(r, url) = [r EXCEPT !.h = l]
    BY DEF RecordHttp, item
  <2> HIDE DEF l
  <2> QED
    BY <2>2, <2>3, HttpPut
<1> QED
  BY <1>2, <1>3

\* The first of a set of tracks is one of them.
LEMMA FirstTrack ==
  ASSUME NEW S \in SUBSET Nat, S # {}
  PROVE  Min(S) \in S
<1>1. \E m \in S : \A k \in S : m <= k
  BY LeastNat
<1> QED
  BY <1>1 DEF Min

\* A track that is recorded is free again, and one more or one less is counted.
LEMMA CompleteTyped ==
  ASSUME NEW r, IsRequest(r), NEW h \in Handles, NEW again \in BOOLEAN, NEW url \in Nat
  PROVE  /\ IsRequest(Complete(r, h, again, url))
         /\ Complete(r, h, again, url).on = r.on
<1>1. CASE FindTracks(r, h) = {}
  BY <1>1 DEF Complete
<1>2. CASE FindTracks(r, h) # {}
  <2> DEFINE i == Min(FindTracks(r, h))
             named == IF again THEN url ELSE r.tracks[i].url
             q == RecordHttp(r, named)
             t == [r.tracks[i] EXCEPT !.active = FALSE, !.easy = 0]
             n == IF r.tracked > 0 THEN r.tracked - 1 ELSE 0
  <2>1. i \in FindTracks(r, h) /\ i \in 1 .. MultiMax /\ i \in ActiveTracks(r)
    <3>1. FindTracks(r, h) \subseteq ActiveTracks(r)
      BY DEF FindTracks, ActiveTracks
    <3>2. FindTracks(r, h) \in SUBSET Nat
      BY <3>1, RequestParts
    <3> QED
      BY <1>2, <3>1, <3>2, FirstTrack, RequestParts
  <2>2. r.tracks[i] \in Tracks
    BY <2>1, RequestParts
  <2>3. named \in Nat
    BY <2>2 DEF Tracks
  <2> HIDE DEF i, named
  <2>4. IsRequest(q) /\ q.on = r.on /\ q.tracks = r.tracks /\ q.tracked = r.tracked
    BY <2>3, RecordTyped
  <2> HIDE DEF q
  <2>5. t \in Tracks /\ ~t.active
    BY <2>2 DEF Tracks
  <2>6. Complete(r, h, again, url) =
          [q EXCEPT !.tracks = [r.tracks EXCEPT ![i] = t], !.tracked = n]
    BY <1>2, <2>4 DEF Complete, i, named, q
  <2> HIDE DEF t, n
  <2>7. [r.tracks EXCEPT ![i] = t] \in [1 .. MultiMax -> Tracks]
    BY <2>5, RequestParts
  <2>8. ActiveIn([r.tracks EXCEPT ![i] = t]) = ActiveTracks(r) \ {i}
    BY <2>1, <2>5, RequestParts DEF ActiveTracks, ActiveIn
  <2>9. Cardinality(ActiveTracks(r) \ {i}) = Cardinality(ActiveTracks(r)) - 1
    BY <2>1, FS_RemoveElement, RequestParts
  <2>10. Cardinality(ActiveTracks(r)) # 0
    BY <2>1, FS_EmptySet, RequestParts
  <2>11. n \in Nat /\ n = Cardinality(ActiveTracks(r) \ {i})
    BY <2>9, <2>10, RequestParts DEF n
  <2>12. n = Cardinality(ActiveIn([r.tracks EXCEPT ![i] = t]))
    BY <2>8, <2>11
  <2> DEFINE tracks == [r.tracks EXCEPT ![i] = t]
  <2>13. Complete(r, h, again, url) = WithTracks(q, tracks, n)
    BY <2>6 DEF WithTracks
  <2> HIDE DEF tracks
  <2>14. tracks \in [1 .. MultiMax -> Tracks]
    BY <2>7 DEF tracks
  <2>15. n = Cardinality(ActiveIn(tracks))
    BY <2>12 DEF tracks
  <2>16. IsRequest(WithTracks(q, tracks, n)) /\ WithTracks(q, tracks, n).on = q.on
    BY <2>4, <2>11, <2>14, <2>15, TracksPut
  <2> QED
    BY <2>4, <2>13, <2>16
<1> QED BY <1>1, <1>2

\* Tracking a transfer leaves a request, switched on or off as it was.
LEMMA TrackTyped ==
  ASSUME NEW r, IsRequest(r), NEW h \in Handles, NEW url \in Nat
  PROVE  IsRequest(Track(r, h, url)) /\ Track(r, h, url).on = r.on
<1> DEFINE free == {i \in DOMAIN r.tracks : ~r.tracks[i].active}
           i == Min(free)
           t == [active |-> TRUE, easy |-> h, url |-> url]
<1>1. CASE r.tracked >= MultiMax \/ free = {}
  <2>1. Track(r, h, url) = r
    BY <1>1 DEF Track
  <2> QED BY <2>1, RequestParts
<1>2. CASE ~(r.tracked >= MultiMax \/ free = {})
  <2>1. Track(r, h, url) =
          [r EXCEPT !.tracks = [r.tracks EXCEPT ![i] = t], !.tracked = r.tracked + 1]
    BY <1>2 DEF Track
  <2>2. i \in 1 .. MultiMax /\ i \notin ActiveTracks(r)
    <3>1. free \subseteq 1 .. MultiMax /\ free \in SUBSET Nat /\ free # {}
      <4>1. DOMAIN r.tracks = 1 .. MultiMax
        BY RequestParts
      <4> QED BY <1>2, <4>1
    <3>2. i \in free
      <4> HIDE DEF free
      <4> QED BY <3>1, FirstTrack
    <3> QED BY <3>1, <3>2 DEF ActiveTracks
  <2>3. t \in Tracks /\ t.active
    BY DEF Tracks
  <2> HIDE DEF t, i, free
  <2>4. [r.tracks EXCEPT ![i] = t] \in [1 .. MultiMax -> Tracks]
    BY <2>3, RequestParts
  <2>5. ActiveIn([r.tracks EXCEPT ![i] = t]) = ActiveTracks(r) \union {i}
    BY <2>2, <2>3, RequestParts DEF ActiveTracks, ActiveIn
  <2>6. r.tracked + 1 = Cardinality(ActiveTracks(r) \union {i}) /\ r.tracked + 1 \in Nat
    <3>1. IsFiniteSet(ActiveTracks(r)) /\ r.tracked = Cardinality(ActiveTracks(r)) /\ r.tracked \in Nat
      BY RequestParts
    <3>2. Cardinality(ActiveTracks(r) \union {i}) = Cardinality(ActiveTracks(r)) + 1
      BY <2>2, <3>1, FS_AddElement
    <3> QED BY <3>1, <3>2
  <2>7. r.tracked + 1 = Cardinality(ActiveIn([r.tracks EXCEPT ![i] = t]))
    BY <2>5, <2>6
  <2> DEFINE tracks == [r.tracks EXCEPT ![i] = t]
             n == r.tracked + 1
  <2>8. Track(r, h, url) = WithTracks(r, tracks, n)
    BY <2>1 DEF WithTracks
  <2>9. tracks \in [1 .. MultiMax -> Tracks] /\ n \in Nat /\ n = Cardinality(ActiveIn(tracks))
    BY <2>4, <2>6, <2>7
  <2> HIDE DEF tracks, n
  <2>10. IsRequest(WithTracks(r, tracks, n)) /\ WithTracks(r, tracks, n).on = r.on
    BY <2>9, TracksPut
  <2> QED
    BY <2>8, <2>10
<1> QED BY <1>1, <1>2

\* A request that has remembered nothing.
LEMMA EmptyRequest ==
  ASSUME NEW b \in BOOLEAN
  PROVE  /\ IsRequest(NoRequest) /\ ~NoRequest.on
         /\ IsRequest([NoRequest EXCEPT !.on = b]) /\ [NoRequest EXCEPT !.on = b].on = b
<1> DEFINE r == [NoRequest EXCEPT !.on = b]
<1>1. ListOK(EmptyList, QueriesMax) /\ ListOK(EmptyList, HttpMax) /\ EmptyList \in Lists
  BY RecorderAssumption DEF EmptyList, ListOK, Lists
<1>2. /\ r.on = b /\ r.q = EmptyList /\ r.h = EmptyList /\ r.tracked = 0
      /\ r.tracks = [i \in 1 .. MultiMax |-> NoTrack]
  BY DEF NoRequest
<1>3. NoTrack \in Tracks
  BY DEF NoTrack, Tracks
<1>4. NoRequest \in Requests /\ r \in Requests
  <2>1. NoRequest.tracks \in [1 .. MultiMax -> Tracks]
    BY <1>3 DEF NoRequest
  <2>2. NoRequest \in Requests
    <3>1. << >> \in Seq(Nat) /\ 0 \in Nat
      OBVIOUS
    <3> QED
      BY <1>1, <2>1, <3>1 DEF NoRequest, Requests
  <2> QED
    BY <2>2 DEF Requests
<1> HIDE DEF r
<1>5. ActiveTracks(r) = {}
  BY <1>2 DEF ActiveTracks, NoTrack
<1>6. IsRequest(r)
  BY <1>1, <1>2, <1>4, <1>5, FS_EmptySet DEF IsRequest
<1>7. /\ NoRequest.on = FALSE /\ NoRequest.q = EmptyList /\ NoRequest.h = EmptyList
      /\ NoRequest.tracked = 0 /\ NoRequest.tracks = [i \in 1 .. MultiMax |-> NoTrack]
  BY DEF NoRequest
<1>8. ActiveTracks(NoRequest) = {}
  BY <1>7 DEF ActiveTracks, NoTrack
<1>9. IsRequest(NoRequest)
  BY <1>1, <1>4, <1>7, <1>8, FS_EmptySet DEF IsRequest
<1> QED
  BY <1>2, <1>6, <1>7, <1>9 DEF r

\* A counter or a list of a request changes.
LEMMA FieldsPut ==
  ASSUME NEW r, IsRequest(r), NEW q \in Requests, q.q = r.q, q.h = r.h, q.tracks = r.tracks,
         q.tracked = r.tracked
  PROVE  IsRequest(q)
<1>1. ActiveTracks(q) = ActiveTracks(r)
  BY DEF ActiveTracks
<1> QED
  BY <1>1 DEF IsRequest

\* What a call of the script leaves.
LEMMA CallTyped ==
  ASSUME RecorderOK, Record
  PROVE  RecorderOK' /\ req'.on = req.on
<1> DEFINE Good == RecorderOK' /\ req'.on = req.on
<1>1. /\ IsRequest(req) /\ req \in Requests /\ req.on \in BOOLEAN /\ DidOK /\ EasyOK
      /\ Op \in Nat /\ did.ops \in Nat
  BY DEF RecorderOK, IsRequest, Requests, DidOK, Op
<1>2. ASSUME NEW s \in Statements, NEW d \in Durations, Query(s, d) PROVE Good
  <2>1. s \in Nat /\ d \in Nat
    BY RecorderAssumption
  <2>2. IsRequest(req') /\ req'.on = req.on
    BY <1>1, <1>2, <2>1, RecordTyped DEF Query
  <2>3. DidOK'
    <3>1. [what |-> s, dur |-> d] \in [what : Nat, dur : Nat]
      BY <2>1
    <3>2. Append(did.q, [what |-> s, dur |-> d]) \in Seq([what : Nat, dur : Nat])
      BY <1>1, <3>1, AppendProperties DEF DidOK
    <3> QED
      BY <1>1, <1>2, <3>2 DEF Query, DidOK
  <2>4. EasyOK'
    BY <1>1, <1>2 DEF Query, EasyOK
  <2> QED
    BY <2>2, <2>3, <2>4 DEF RecorderOK
<1>3. CASE HttpCall
  <2>1. IsRequest(req') /\ req'.on = req.on
    BY <1>1, <1>3, RecordTyped DEF HttpCall
  <2>2. DidOK'
    BY <1>1, <1>3 DEF HttpCall, DidOK
  <2>3. EasyOK'
    BY <1>1, <1>3 DEF HttpCall, EasyOK
  <2> QED
    BY <2>1, <2>2, <2>3 DEF RecorderOK
<1>4. ASSUME NEW h \in Handles, MultiAdd(h) PROVE Good
  <2>1. IsRequest(req') /\ req'.on = req.on
    BY <1>1, <1>4, TrackTyped DEF MultiAdd
  <2>2. DidOK'
    BY <1>1, <1>4 DEF MultiAdd, DidOK
  <2>3. EasyOK'
    BY <1>1, <1>4 DEF MultiAdd, EasyOK
  <2> QED
    BY <2>1, <2>2, <2>3 DEF RecorderOK
<1>5. ASSUME NEW h \in Handles, MultiInfoRead(h) PROVE Good
  <2>1. easy[h].url \in Nat
    BY <1>1 DEF EasyOK
  <2>2. IsRequest(req') /\ req'.on = req.on
    BY <1>1, <1>5, <2>1, CompleteTyped DEF MultiInfoRead
  <2>3. DidOK'
    BY <1>1, <1>5 DEF MultiInfoRead, DidOK
  <2>4. EasyOK'
    BY <1>1, <1>5 DEF MultiInfoRead, EasyOK
  <2> QED
    BY <2>2, <2>3, <2>4 DEF RecorderOK
<1>6. ASSUME NEW h \in Handles, MultiRemove(h) PROVE Good
  <2>1. IsRequest(req') /\ req'.on = req.on
    BY <1>1, <1>6, CompleteTyped DEF MultiRemove
  <2>2. DidOK'
    BY <1>1, <1>6 DEF MultiRemove, DidOK
  <2>3. EasyOK'
    BY <1>1, <1>6 DEF MultiRemove, EasyOK
  <2> QED
    BY <2>1, <2>2, <2>3 DEF RecorderOK
<1>7. CASE MultiClose
  <2>1. IsRequest(req') /\ req'.on = req.on
    BY <1>1, <1>7 DEF MultiClose
  <2>2. DidOK'
    <3>1. (did.closed \/ \E i \in DOMAIN req.tracks : req.tracks[i].active) \in BOOLEAN
      BY <1>1 DEF DidOK
    <3> QED
      BY <1>1, <1>7, <3>1 DEF MultiClose, DidOK
  <2>3. EasyOK'
    BY <1>1, <1>7 DEF MultiClose, EasyOK
  <2> QED
    BY <2>1, <2>2, <2>3 DEF RecorderOK
<1>8. CASE FileOp
  <2>1. (req.files + 1) % Width \in Nat
    <3>1. req.files \in Nat /\ Width \in Nat \ {0}
      BY <1>1, RecorderAssumption DEF Requests
    <3> QED
      BY <3>1
  <2>2. /\ req' \in Requests /\ req'.q = req.q /\ req'.h = req.h /\ req'.tracks = req.tracks
        /\ req'.tracked = req.tracked /\ req'.on = req.on
    BY <1>1, <1>8, <2>1 DEF FileOp, Requests
  <2>3. EasyOK'
    BY <1>1, <1>8 DEF FileOp, EasyOK
  <2>4. DidOK'
    <3>1. did.files + 1 \in Nat
      BY <1>1 DEF DidOK
    <3> QED
      BY <1>1, <1>8, <3>1 DEF FileOp, DidOK
  <2> QED
    BY <1>1, <2>2, <2>3, <2>4, FieldsPut DEF RecorderOK
<1>9. CASE RedisCall
  <2>1. (req.redis + 1) % Width \in Nat
    <3>1. req.redis \in Nat /\ Width \in Nat \ {0}
      BY <1>1, RecorderAssumption DEF Requests
    <3> QED
      BY <3>1
  <2>2. /\ req' \in Requests /\ req'.q = req.q /\ req'.h = req.h /\ req'.tracks = req.tracks
        /\ req'.tracked = req.tracked /\ req'.on = req.on
    BY <1>1, <1>9, <2>1 DEF RedisCall, Requests
  <2>3. EasyOK'
    BY <1>1, <1>9 DEF RedisCall, EasyOK
  <2>4. DidOK'
    <3>1. did.redis + 1 \in Nat
      BY <1>1 DEF DidOK
    <3> QED
      BY <1>1, <1>9, <3>1 DEF RedisCall, DidOK
  <2> QED
    BY <1>1, <2>2, <2>3, <2>4, FieldsPut DEF RecorderOK
<1>10. CASE UserMark
  <2>1. (IF Len(req.marks) >= MarksMax THEN req.marks ELSE Append(req.marks, Op)) \in Seq(Nat)
    BY <1>1 DEF Requests
  <2>2. /\ req' \in Requests /\ req'.q = req.q /\ req'.h = req.h /\ req'.tracks = req.tracks
        /\ req'.tracked = req.tracked /\ req'.on = req.on
    BY <1>1, <1>10, <2>1 DEF UserMark, Requests
  <2>3. EasyOK'
    BY <1>1, <1>10 DEF UserMark, EasyOK
  <2>4. DidOK'
    <3>1. Append(did.marks, Op) \in Seq(Nat)
      BY <1>1 DEF DidOK
    <3> QED
      BY <1>1, <1>10, <3>1 DEF UserMark, DidOK
  <2> QED
    BY <1>1, <2>2, <2>3, <2>4, FieldsPut DEF RecorderOK
<1>11. CASE PhpError
  <2>1. (IF Len(req.errors) < ErrorsMax THEN Append(req.errors, Op) ELSE req.errors) \in Seq(Nat)
    BY <1>1 DEF Requests
  <2>2. /\ req' \in Requests /\ req'.q = req.q /\ req'.h = req.h /\ req'.tracks = req.tracks
        /\ req'.tracked = req.tracked /\ req'.on = req.on
    BY <1>1, <1>11, <2>1 DEF PhpError, Requests
  <2>3. EasyOK'
    BY <1>1, <1>11 DEF PhpError, EasyOK
  <2>4. DidOK'
    <3>1. Append(did.errors, Op) \in Seq(Nat)
      BY <1>1 DEF DidOK
    <3> QED
      BY <1>1, <1>11, <3>1 DEF PhpError, DidOK
  <2> QED
    BY <1>1, <2>2, <2>3, <2>4, FieldsPut DEF RecorderOK
<1> QED
  BY <1>2, <1>3, <1>4, <1>5, <1>6, <1>7, <1>8, <1>9, <1>10, <1>11 DEF Record

\* Every step keeps the types of what a request remembers.
LEMMA RecorderKept ==
  ASSUME RecorderOK, [Next]_vars
  PROVE  RecorderOK'
<1>1. ASSUME UNCHANGED recVars PROVE RecorderOK'
  BY <1>1 DEF recVars, RecorderOK, DidOK, EasyOK
<1>2. ASSUME req' = NoRequest, UNCHANGED <<easy, did>> PROVE RecorderOK'
  <2>1. IsRequest(NoRequest)
    BY EmptyRequest
  <2> QED
    BY <1>2, <2>1 DEF RecorderOK, DidOK, EasyOK
<1>3. CASE Spawn \/ Stop \/ Others \/ TimePasses \/ Run \/ UNCHANGED vars
  BY <1>1, <1>3 DEF Spawn, Stop, Others, TimePasses, Run, vars
<1>4. CASE Die \/ End
  BY <1>2, <1>4 DEF Die, End
<1>5. CASE Begin
  <2>1. PICK set, user, chosen, mode, draw, entry : Rinit(set, user, chosen, mode, draw, entry)
    BY <1>5 DEF Begin
  <2> DEFINE traced == (IF set = "unset" THEN proc.enabled ELSE set = "on")
                         /\ HealthCheck /\ chosen
  <2>2. RecorderBegin(traced)
    BY <2>1 DEF Rinit
  <2>3. traced \in BOOLEAN
    OBVIOUS
  <2> HIDE DEF traced
  <2>4. IsRequest(req')
    BY <2>2, <2>3, EmptyRequest DEF RecorderBegin
  <2>5. DidOK'
    BY <2>2 DEF RecorderBegin, NothingDone, DidOK
  <2>6. EasyOK'
    BY <2>2 DEF RecorderBegin, EasyOK
  <2> QED
    BY <2>4, <2>5, <2>6 DEF RecorderOK
<1>6. CASE Record
  BY <1>6, CallTyped
<1> QED
  BY <1>3, <1>4, <1>5, <1>6 DEF Next

-----------------------------------------------------------------------------
(* The life of a process.                                                  *)

\* The parts of a process.
LEMMA ProcParts ==
  ASSUME NEW p, p \in Procs
  PROVE  /\ p.up \in BOOLEAN /\ p.enabled \in BOOLEAN /\ p.hooked \in BOOLEAN
         /\ p.out \in {"file", "shm", "both"} /\ p.ring \in Users \union {0}
         /\ p.retryAt \in Nat /\ p.failed \in Nat /\ p.certain \in Nat /\ p.possible \in Nat
         /\ 0 \notin Users
BY PhpWorkerAssumption DEF Procs

\* A process that is not there is one that is down.
LEMMA NoProcessTyped == NoProcess \in Procs /\ ~NoProcess.up
<1>1. 0 \in Nat
  OBVIOUS
<1> QED
  BY <1>1 DEF NoProcess, Procs

\* A process that starts: what it looks at, and what it knows.
LEMMA MinitTyped ==
  ASSUME HealthInv, NEW sick \in BOOLEAN
  PROVE  /\ Minit(sick) \in Procs
         /\ Minit(sick).up /\ Minit(sick).hooked = ~sick /\ Minit(sick).ring = 0
         /\ Minit(sick).retryAt = 0 /\ Minit(sick).failed = 0
         /\ Minit(sick).certain = CertainCrashes /\ Minit(sick).possible = PossibleCrashes
<1>1. CertainCrashes \in Nat /\ PossibleCrashes \in Nat
  BY RecentAtLeastCertain, RecentAtMostPossible
<1>2. (IF sick THEN "file" ELSE OutputMode) \in {"file", "shm", "both"}
  BY PhpWorkerAssumption
<1>3. NoProcess \in Procs
  BY NoProcessTyped
<1> QED
  BY <1>1, <1>2, <1>3 DEF Minit, NoProcess, Procs

\* What phpray_ring_current leaves: the ring of this user, or none.
LEMMA RingCurrentTyped ==
  ASSUME NEW p \in Procs, NEW user \in Users, NEW works \in BOOLEAN, clock \in Nat
  PROVE  LET q == RingCurrent(p, user, works)
         IN /\ q \in Procs /\ q.up = p.up /\ q.enabled = p.enabled /\ q.hooked = p.hooked
            /\ q.out = p.out /\ q.certain = p.certain /\ q.possible = p.possible
            /\ q.ring \in {0, user}
            /\ \/ q.ring \in {0, p.ring} /\ q.retryAt = p.retryAt /\ q.failed = p.failed
               \/ /\ p.retryAt = 0 \/ clock >= p.retryAt
                  /\ \/ q.retryAt = 0 /\ q.failed = p.failed
                     \/ q.retryAt = clock + RetrySec /\ q.failed = clock
<1>1. clock + RetrySec \in Nat /\ user \in Users \union {0}
  BY PhpWorkerAssumption
<1>2. p.ring \in Users \union {0} /\ p.retryAt \in Nat
  BY ProcParts
<1>3. CASE p.ring = user
  BY <1>2, <1>3 DEF RingCurrent
<1>4. CASE p.ring # user /\ p.retryAt > 0 /\ clock < p.retryAt
  BY <1>2, <1>4 DEF RingCurrent, Procs
<1>5. CASE p.ring # user /\ ~(p.retryAt > 0 /\ clock < p.retryAt) /\ works
  <2> DEFINE q == RingCurrent(p, user, works)
  <2>1. q = [p EXCEPT !.ring = user, !.retryAt = 0]
    BY <1>5 DEF RingCurrent
  <2> HIDE DEF q
  <2>2. /\ q \in Procs /\ q.up = p.up /\ q.enabled = p.enabled /\ q.hooked = p.hooked
        /\ q.out = p.out /\ q.certain = p.certain /\ q.possible = p.possible
        /\ q.ring = user /\ q.retryAt = 0 /\ q.failed = p.failed
    BY <1>1, <2>1 DEF Procs
  <2>3. p.retryAt = 0 \/ clock >= p.retryAt
    BY <1>2, <1>5
  <2> QED
    BY <2>2, <2>3 DEF q
<1>6. CASE p.ring # user /\ ~(p.retryAt > 0 /\ clock < p.retryAt) /\ ~works
  <2> DEFINE q == RingCurrent(p, user, works)
  <2>1. q = [[p EXCEPT !.ring = 0] EXCEPT !.retryAt = clock + RetrySec, !.failed = clock]
    BY <1>6 DEF RingCurrent
  <2> HIDE DEF q
  <2>2. /\ q \in Procs /\ q.up = p.up /\ q.enabled = p.enabled /\ q.hooked = p.hooked
        /\ q.out = p.out /\ q.certain = p.certain /\ q.possible = p.possible
        /\ q.ring = 0 /\ q.retryAt = clock + RetrySec /\ q.failed = clock
    BY <1>1, <2>1 DEF Procs
  <2>3. p.retryAt = 0 \/ clock >= p.retryAt
    BY <1>2, <1>6
  <2> QED
    BY <2>2, <2>3 DEF q
<1> QED
  BY <1>3, <1>4, <1>5, <1>6

\* Restoring a process changes nothing but what the reset is about.
LEMMA RestoredTyped ==
  ASSUME NEW p \in Procs
  PROVE  LET q == Restored(p)
         IN /\ q \in Procs /\ q.up = p.up /\ q.hooked = p.hooked /\ q.out = p.out
            /\ q.ring = p.ring /\ q.retryAt = p.retryAt /\ q.failed = p.failed
            /\ q.certain = p.certain /\ q.possible = p.possible
BY DEF Restored, Procs

\* What the process is after a request: the ring, what is known of it, and the rest as it was.
LEMMA EndProc ==
  ASSUME ProcOK, HealthOK, End
  PROVE  /\ proc' \in Procs /\ proc'.up = proc.up /\ proc'.hooked = proc.hooked
         /\ proc'.certain = proc.certain /\ proc'.possible = proc.possible
         /\ proc'.ring \in {0, proc.ring, serving}
         /\ \/ proc'.retryAt = proc.retryAt /\ proc'.failed = proc.failed
            \/ /\ proc.retryAt = 0 \/ clock >= proc.retryAt
               /\ \/ proc'.retryAt = 0 /\ proc'.failed = proc.failed
                  \/ proc'.retryAt = clock + RetrySec /\ proc'.failed = clock
<1>1. proc \in Procs /\ clock \in Nat
  BY DEF ProcOK, HealthOK
<1>2. CASE proc' = Restored(proc)
  BY <1>1, <1>2, RestoredTyped
<1>3. CASE \E works \in BOOLEAN : proc' = Restored(RingCurrent(proc, serving, works))
  <2>1. PICK works \in BOOLEAN : proc' = Restored(RingCurrent(proc, serving, works))
    BY <1>3
  <2>2. serving \in Users
    BY DEF End, ProcOK
  <2> DEFINE q == RingCurrent(proc, serving, works)
  <2>3. /\ q \in Procs /\ q.up = proc.up /\ q.hooked = proc.hooked
        /\ q.certain = proc.certain /\ q.possible = proc.possible
        /\ q.ring \in {0, proc.ring, serving}
        /\ \/ q.retryAt = proc.retryAt /\ q.failed = proc.failed
           \/ /\ proc.retryAt = 0 \/ clock >= proc.retryAt
              /\ \/ q.retryAt = 0 /\ q.failed = proc.failed
                 \/ q.retryAt = clock + RetrySec /\ q.failed = clock
    BY <1>1, <2>2, RingCurrentTyped
  <2>4. proc' = Restored(q)
    BY <2>1
  <2> HIDE DEF q
  <2> QED
    BY <2>3, <2>4, RestoredTyped
<1>4. \/ proc' = Restored(proc)
      \/ \E works \in BOOLEAN : proc' = Restored(RingCurrent(proc, serving, works))
  BY DEF End, Rshutdown
<1> QED
  BY <1>2, <1>3, <1>4

\* The types of the process are kept.
LEMMA ProcKept ==
  ASSUME ProcOK, HealthInv, RecorderOK, [Next]_vars
  PROVE  ProcOK'
<1>1. /\ proc \in Procs /\ serving \in Users \union {0} /\ override \in {"unset", "on", "off"}
      /\ forgiven \in BOOLEAN /\ req.on \in BOOLEAN
  BY RequestParts DEF ProcOK, RecorderOK
<1>2. CASE Spawn
  <2>1. TooMany \in BOOLEAN /\ (~Forked /\ TooMany) \in BOOLEAN
    BY DEF TooMany
  <2>2. Minit(~Forked /\ TooMany) \in Procs
    BY <2>1, MinitTyped
  <2>3. ~req.on /\ req' = req
    BY <1>2 DEF Spawn, ProcOK, recVars
  <2>4. forgiven' \in BOOLEAN
    BY <1>2, <2>1 DEF Spawn
  <2> QED
    BY <1>1, <1>2, <2>2, <2>3, <2>4 DEF Spawn, ProcOK
<1>3. CASE Stop
  <2>1. ~req.on /\ req' = req
    BY <1>3 DEF Stop, ProcOK, recVars
  <2> QED
    BY <1>1, <1>3, <2>1, NoProcessTyped DEF Stop, ProcOK
<1>4. CASE Die
  <2>1. ~req'.on
    BY <1>4, EmptyRequest DEF Die
  <2> QED
    BY <1>1, <1>4, <2>1, NoProcessTyped DEF Die, ProcOK
<1>5. CASE Others
  <2>1. forgiven' \in BOOLEAN
    BY <1>5 DEF Others
  <2>2. UNCHANGED <<req, proc, serving, override>>
    BY <1>5 DEF Others, recVars
  <2> QED
    BY <1>1, <2>1, <2>2 DEF ProcOK
<1>6. CASE TimePasses \/ Run \/ UNCHANGED vars
  <2>1. UNCHANGED <<req, proc, serving, override, forgiven>>
    BY <1>6 DEF TimePasses, Run, vars, recVars, ownVars
  <2> QED
    BY <1>1, <2>1 DEF ProcOK
<1>7. CASE Begin
  <2>1. PICK set \in {"unset", "on", "off"}, user \in Users, chosen, draw, entry \in BOOLEAN,
             mode \in {"off", "all", "sample", "url"} :
          Rinit(set, user, chosen, mode, draw, entry)
    BY <1>7 DEF Begin
  <2>2. (IF set = "unset" THEN proc.enabled ELSE set = "on") \in BOOLEAN
    BY <1>1, ProcParts
  <2>3. proc' \in Procs /\ proc'.up
    BY <1>1, <2>1, <2>2 DEF Rinit, Procs
  <2>4. serving' = user /\ override' = set /\ forgiven' = forgiven /\ user # 0
    BY <2>1, PhpWorkerAssumption DEF Rinit
  <2> QED
    BY <1>1, <2>3, <2>4 DEF ProcOK
<1>8. CASE Record
  <2>1. req'.on = req.on
    BY <1>8, CallTyped
  <2>2. UNCHANGED <<proc, serving, override, forgiven>>
    BY <1>8 DEF Record, ownVars
  <2> QED
    BY <1>1, <2>1, <2>2 DEF ProcOK
<1>9. CASE End
  <2>1. proc' \in Procs
    BY <1>9, EndProc DEF HealthInv
  <2>2. ~req'.on /\ serving' = 0 /\ override' = "unset" /\ forgiven' = forgiven
    BY <1>9, EmptyRequest DEF End
  <2> QED
    BY <1>1, <2>1, <2>2 DEF ProcOK
<1> QED
  BY <1>2, <1>3, <1>4, <1>5, <1>6, <1>7, <1>8, <1>9 DEF Next

\* What a process knows of its start stays true, also while others crash, start and reset.
LEMMA StartKept ==
  ASSUME StartInv, ProcOK, HealthInv, RecorderOK, [Next]_vars
  PROVE  StartInv'
<1>1. /\ proc \in Procs /\ forgiven \in BOOLEAN /\ file.disabled \in BOOLEAN
      /\ req.on \in BOOLEAN /\ Threshold \in Nat
  BY HealthAssumption, RequestParts DEF ProcOK, HealthInv, HealthOK, RecorderOK
<1>2. CASE Spawn
  <2> DEFINE sick == ~Forked /\ TooMany
  <2>1. sick \in BOOLEAN
    BY DEF TooMany
  <2>2. sick => file'.disabled
    BY <1>1, <1>2 DEF Spawn, HealthStart, HealthInv, HealthOK
  <2>3. TooMany <=> Recent(file.times) >= Threshold
    BY DEF TooMany
  <2>4. ~Forked /\ CertainCrashes >= Threshold => sick
    BY <1>1, <2>3, RecentAtLeastCertain
  <2>5. sick => PossibleCrashes >= Threshold
    BY <1>1, <2>3, RecentAtLeastCertain, RecentAtMostPossible
  <2>6. proc' = Minit(sick) /\ ~req'.on
    BY <1>2 DEF Spawn, ProcOK, recVars
  <2> HIDE DEF sick
  <2>7. proc'.hooked = ~sick /\ proc'.certain = CertainCrashes /\ proc'.possible = PossibleCrashes
    BY <2>1, <2>6, MinitTyped
  <2> QED
    BY <2>1, <2>2, <2>4, <2>5, <2>6, <2>7 DEF StartInv
<1>3. CASE Stop \/ Die
  <2>1. ~proc'.up
    BY <1>3, NoProcessTyped DEF Stop, Die
  <2> QED
    BY <2>1 DEF StartInv
<1>4. CASE Others
  <2>1. UNCHANGED <<req, proc>>
    BY <1>4 DEF Others, recVars
  <2>2. forgiven' = (forgiven \/ (file.disabled /\ ~file'.disabled))
    BY <1>4 DEF Others
  <2> QED
    BY <1>1, <2>1, <2>2 DEF StartInv
<1>5. CASE TimePasses
  <2>1. UNCHANGED <<req, proc, forgiven, file>>
    BY <1>5 DEF TimePasses, Later, recVars, ownVars
  <2> QED
    BY <2>1 DEF StartInv
<1>6. CASE Begin
  <2>1. PICK set, user, chosen, mode, draw, entry : Rinit(set, user, chosen, mode, draw, entry)
    BY <1>6 DEF Begin
  <2>2. /\ proc'.up = proc.up /\ proc'.hooked = proc.hooked
        /\ proc'.certain = proc.certain /\ proc'.possible = proc.possible
    BY <1>1, <2>1 DEF Rinit, Procs
  <2>3. UNCHANGED <<forgiven, file>>
    BY <2>1 DEF Rinit, healthVars
  <2> DEFINE traced == (IF set = "unset" THEN proc.enabled ELSE set = "on")
                         /\ HealthCheck /\ chosen
  <2>4. req' = [NoRequest EXCEPT !.on = traced]
    BY <2>1 DEF Rinit, RecorderBegin
  <2>5. req'.on = traced
    BY <2>4 DEF NoRequest
  <2>6. req'.on => ~file.disabled
    BY <2>5 DEF HealthCheck
  <2> HIDE DEF traced
  <2> QED
    BY <2>2, <2>3, <2>6 DEF StartInv
<1>7. CASE Record
  <2>1. req'.on = req.on
    BY <1>7, CallTyped
  <2>2. UNCHANGED <<proc, forgiven, file>>
    BY <1>7 DEF Record, healthVars, ownVars
  <2> QED
    BY <2>1, <2>2 DEF StartInv
<1>8. CASE Run \/ UNCHANGED vars
  <2>1. UNCHANGED <<req, proc, forgiven, file>>
    BY <1>8 DEF Run, vars, recVars, healthVars, ownVars
  <2> QED
    BY <2>1 DEF StartInv
<1>9. CASE End
  <2>1. /\ proc'.up = proc.up /\ proc'.hooked = proc.hooked
        /\ proc'.certain = proc.certain /\ proc'.possible = proc.possible
    BY <1>9, EndProc DEF HealthInv
  <2>2. ~req'.on /\ UNCHANGED <<forgiven, file>>
    BY <1>9, EmptyRequest DEF End, healthVars
  <2> QED
    BY <2>1, <2>2 DEF StartInv
<1> QED
  BY <1>2, <1>3, <1>4, <1>5, <1>6, <1>7, <1>8, <1>9 DEF Next

\* The next attempt to attach is a full wait after the last failure.
LEMMA RetryKept ==
  ASSUME RetryInv, ProcOK, HealthInv, [Next]_vars
  PROVE  RetryInv'
<1>1. /\ proc \in Procs /\ clock \in Nat \ {0} /\ RetrySec \in Nat \ {0}
      /\ proc.retryAt \in Nat /\ proc.failed \in Nat
  BY PhpWorkerAssumption, ProcParts DEF ProcOK, HealthInv, HealthOK
<1>2. clock' \in {clock, clock + 1}
  BY StepHealth
     DEF HealthStep, Later, CrashTakesSlot, CrashStores, HealthStart, ResetBegin, ResetStep,
         healthVars
<1>3. ASSUME proc'.retryAt = proc.retryAt, proc'.failed = proc.failed PROVE RetryInv'
  BY <1>1, <1>2, <1>3 DEF RetryInv
<1>4. ASSUME proc'.retryAt = 0, proc'.failed = 0 PROVE RetryInv'
  BY <1>4 DEF RetryInv
<1>5. CASE Spawn
  <2>1. (~Forked /\ TooMany) \in BOOLEAN
    BY DEF TooMany
  <2> QED
    BY <1>4, <1>5, <2>1, MinitTyped DEF Spawn
<1>6. CASE Stop \/ Die
  BY <1>4, <1>6 DEF Stop, Die, NoProcess
<1>7. CASE Others \/ TimePasses \/ Record \/ Run \/ UNCHANGED vars
  BY <1>3, <1>7 DEF Others, TimePasses, Record, Run, vars, ownVars
<1>8. CASE Begin
  <2>1. PICK set, user, chosen, mode, draw, entry : Rinit(set, user, chosen, mode, draw, entry)
    BY <1>8 DEF Begin
  <2> QED
    BY <1>1, <1>3, <2>1 DEF Rinit, Procs
<1>9. CASE End
  <2>1. clock' = clock
    BY <1>9 DEF End, healthVars
  <2>2. \/ proc'.retryAt = proc.retryAt /\ proc'.failed = proc.failed
        \/ /\ proc.retryAt = 0 \/ clock >= proc.retryAt
           /\ \/ proc'.retryAt = 0 /\ proc'.failed = proc.failed
              \/ proc'.retryAt = clock + RetrySec /\ proc'.failed = clock
    BY <1>9, EndProc DEF HealthInv
  <2> QED
    BY <1>1, <1>3, <2>1, <2>2 DEF RetryInv
<1> QED
  BY <1>5, <1>6, <1>7, <1>8, <1>9 DEF Next

\* A trace goes to the ring of its user, and attaching is not tried before its time.
LEMMA RightRingKept ==
  ASSUME RightRing, RetryInv, ProcOK, HealthInv, [Next]_vars
  PROVE  RightRing'
<1>1. ASSUME UNCHANGED last PROVE RightRing'
  BY <1>1 DEF RightRing
<1>2. CASE Spawn \/ Stop \/ Die \/ Others \/ TimePasses \/ Record \/ Run \/ UNCHANGED vars
  BY <1>1, <1>2 DEF Spawn, Stop, Die, Others, TimePasses, Record, Run, vars, ownVars
<1>3. CASE Begin
  <2>1. last' = NoTrace
    BY <1>3 DEF Begin, Rinit
  <2> QED
    BY <2>1 DEF RightRing, NoTrace
<1>4. CASE End
  <2>1. CASE UNCHANGED last
    BY <1>1, <2>1
  <2>2. CASE \E mode, speed, failed : \E works \in BOOLEAN : Rshutdown(mode, speed, failed, works)
    <3>1. PICK mode, speed, failed, works :
            works \in BOOLEAN /\ Rshutdown(mode, speed, failed, works)
      BY <2>2
    <3>2. /\ serving \in Users /\ proc \in Procs /\ clock \in Nat /\ RetrySec \in Nat \ {0}
          /\ proc.retryAt \in Nat /\ proc.failed \in Nat /\ 0 \notin Users
      BY <1>4, PhpWorkerAssumption, ProcParts DEF End, ProcOK, HealthInv, HealthOK
    <3> DEFINE q == IF proc.out \in {"shm", "both"} THEN RingCurrent(proc, serving, works)
                    ELSE proc
               early == /\ proc.failed > 0 /\ clock < proc.failed + RetrySec
                        /\ q.failed # proc.failed \/ q.ring \notin {0, proc.ring}
    <3>3. last'.to \in {0, q.ring} /\ last'.user = serving /\ last'.early = early
          /\ (last'.to # 0 => proc.out \in {"shm", "both"})
      BY <3>1 DEF Rshutdown
    <3>4. proc.out \in {"shm", "both"} =>
            /\ q.ring \in {0, serving}
            /\ \/ q.ring \in {0, proc.ring} /\ q.failed = proc.failed
               \/ proc.retryAt = 0 \/ clock >= proc.retryAt
      BY <3>1, <3>2, RingCurrentTyped
    <3>5. proc.out \notin {"shm", "both"} => q = proc
      OBVIOUS
    <3>6. ~early
      BY <3>2, <3>4, <3>5 DEF RetryInv
    <3> HIDE DEF q, early
    <3> QED
      BY <3>2, <3>3, <3>4, <3>6 DEF RightRing
  <2> QED
    BY <1>4, <2>1, <2>2 DEF End
<1> QED
  BY <1>2, <1>3, <1>4 DEF Next

-----------------------------------------------------------------------------
(* The theorems.                                                           *)

\* The first state has an empty health file.
LEMMA HealthStarts ==
  ASSUME Init
  PROVE  HealthInv
<1>1. HealthInit /\ CrashSlots \in Nat \ {0} /\ MaxCrashes \in Nat
  BY HealthAssumption DEF Init
<1>2. HealthOK
  BY <1>1 DEF HealthInit, HealthOK, Slots, Crashes
<1>3. SlotsInv
  <2>1. 0 \in 0 .. MaxCrashes /\ file.slot = 0
    BY <1>1 DEF HealthInit
  <2>2. \A k \in Crashes : dying[k].at = "none" /\ ~log[k].fresh /\ ~(k <= 0)
    BY <1>1 DEF HealthInit, Crashes
  <2>3. TakenUpTo(0)
    BY <2>2 DEF TakenUpTo
  <2> QED
    BY <2>1, <2>2, <2>3 DEF SlotsInv
<1>4. TimesInv
  BY <1>1 DEF HealthInit, TimesInv
<1> QED
  BY <1>2, <1>3, <1>4 DEF HealthInv

\* The first state has no process and no request.
LEMMA WorkerStarts ==
  ASSUME Init
  PROVE  WorkerInv /\ StartInv
<1>1. IsRequest(req) /\ ~req.on
  BY EmptyRequest DEF Init, RecorderInit
<1>2. DidOK
  BY DEF Init, RecorderInit, DidOK, NothingDone
<1>3. EasyOK
  BY DEF Init, RecorderInit, EasyOK
<1>4. proc = NoProcess /\ proc \in Procs /\ ~proc.up
  BY NoProcessTyped DEF Init
<1>5. ProcOK
  BY <1>1, <1>4 DEF Init, ProcOK
<1>6. RetryInv
  BY <1>4 DEF RetryInv, NoProcess
<1>7. RightRing
  BY DEF Init, RightRing, NoTrace
<1>8. StartInv
  BY <1>4 DEF StartInv
<1> QED
  BY <1>1, <1>2, <1>3, <1>5, <1>6, <1>7, <1>8, HealthStarts DEF WorkerInv, RecorderOK

\* Every step keeps the shape of the processes and of their requests.
LEMMA WorkerKept ==
  ASSUME WorkerInv, [Next]_vars
  PROVE  WorkerInv'
<1>1. HealthInv'
  BY StepHealth, HealthKept DEF WorkerInv
<1> QED
  BY <1>1, RecorderKept, ProcKept, RetryKept, RightRingKept DEF WorkerInv

\* A trace goes to the ring of the user its request ran as, also when the process changes users
\* between requests, and a directory that could not be attached is not tried again before
\* PHPRAY_RING_RETRY_SEC have passed (phpray_ring_current).
THEOREM TracesGoToTheirRing == Spec => []RightRing
<1>1. Init => WorkerInv
  BY WorkerStarts
<1>2. WorkerInv /\ [Next]_vars => WorkerInv'
  BY WorkerKept
<1>3. WorkerInv => RightRing
  BY DEF WorkerInv
<1> QED
  BY <1>1, <1>2, <1>3, PTL DEF Spec

\* Where each process loads the extension itself, one that finds too many recent crashes in the
\* health file does without hooks and no other does, and its requests are not traced as long as
\* nothing has cleared the flag: however the handlers of other processes, their starts and the
\* resets interleave with it (crash_recovery.c).  With forked processes it does not hold.
THEOREM SickProcessesAreInert ==
  ASSUME ~Forked
  PROVE  Spec => []SickProcessInert
<1>1. Init => WorkerInv /\ StartInv
  BY WorkerStarts
<1>2. WorkerInv /\ StartInv /\ [Next]_vars => (WorkerInv /\ StartInv)'
  BY WorkerKept, StartKept DEF WorkerInv
<1>3. WorkerInv /\ StartInv => SickProcessInert
  BY DEF StartInv, SickProcessInert
<1> QED
  BY <1>1, <1>2, <1>3, PTL DEF Spec

-----------------------------------------------------------------------------
(* Charging time.                                                          *)

\* The parts of a profile.
LEMMA ProfileParts ==
  ASSUME NEW p, Limits(p)
  PROVE  /\ p \in Profiles /\ p.comps \in Seq(Comps) /\ p.stack \in Seq(Recorded)
         /\ p.live \in BOOLEAN /\ p.given \in BOOLEAN /\ p.on \in BOOLEAN
         /\ p.pending \in BOOLEAN /\ p.overflow \in BOOLEAN
         /\ p.map \in [0 .. NamesMax - 1 -> 0 .. CompMax] /\ p.over \in Nat /\ p.busy \in Nat
         /\ \A c \in DOMAIN p.comps : p.comps[c] \in Comps
         /\ \A i \in DOMAIN p.stack :
              /\ p.stack[i] \in Recorded /\ p.stack[i].start \in Nat /\ p.stack[i].child \in Nat
              /\ p.stack[i].comp \in DOMAIN p.comps
         /\ Len(p.comps) \in Nat /\ Len(p.stack) \in Nat
         /\ DOMAIN p.comps = 1 .. Len(p.comps) /\ DOMAIN p.stack = 1 .. Len(p.stack)
<1>1. p \in Profiles
  BY DEF Limits
<1>2. p.comps \in Seq(Comps) /\ p.stack \in Seq(Recorded)
  BY <1>1 DEF Profiles
<1>3. \A c \in DOMAIN p.comps : p.comps[c] \in Comps
  BY <1>2
<1>4. \A i \in DOMAIN p.stack : p.stack[i] \in Recorded
  BY <1>2
<1>5. /\ Len(p.comps) \in Nat /\ Len(p.stack) \in Nat
      /\ DOMAIN p.comps = 1 .. Len(p.comps) /\ DOMAIN p.stack = 1 .. Len(p.stack)
  BY <1>2
<1>6. \A i \in DOMAIN p.stack :
        /\ p.stack[i].start \in Nat /\ p.stack[i].child \in Nat /\ p.stack[i].comp \in Nat \ {0}
  <2>1. CompMax \in Nat
    BY ProfilerAssumption
  <2> QED
    BY <1>4, <2>1 DEF Recorded
<1>7. \A i \in DOMAIN p.stack : p.stack[i].comp \in DOMAIN p.comps
  BY <1>5, <1>6 DEF Limits
<1> QED
  BY <1>1, <1>2, <1>3, <1>4, <1>5, <1>6, <1>7 DEF Profiles

\* The parts of a component.
LEMMA CompParts ==
  ASSUME NEW c \in Comps
  PROVE  /\ c.name \in Names /\ c.depth \in Nat /\ c.enter \in Nat /\ c.incl \in Nat
         /\ c.self \in Nat /\ c.wasOpen \in Nat /\ c.wasTop \in Nat
BY DEF Comps

\* Leaving a component keeps the types.
LEMMA LeaveTyped ==
  ASSUME NEW c \in Comps, NEW t \in Nat, Behind(c, t), NEW own \in Nat
  PROVE  LET d == Leave(c, t)
             e == [Leave(c, t) EXCEPT !.self = @ + own]
         IN /\ d \in Comps /\ Behind(d, t) /\ InclOf(d, t) = InclOf(c, t)
            /\ d.depth = (IF c.depth > 0 THEN c.depth - 1 ELSE 0)
            /\ d.name = c.name /\ d.self = c.self /\ d.wasOpen = c.wasOpen /\ d.wasTop = c.wasTop
            /\ e \in Comps /\ Behind(e, t) /\ InclOf(e, t) = InclOf(c, t)
            /\ e.depth = d.depth /\ e.name = c.name /\ e.self = c.self + own
            /\ e.wasOpen = c.wasOpen /\ e.wasTop = c.wasTop
<1> DEFINE m == IF c.depth > 0 THEN c.depth - 1 ELSE 0
           n == IF c.depth = 1 THEN c.incl + (t - c.enter) ELSE c.incl
           d == Leave(c, t)
           e == [d EXCEPT !.self = @ + own]
<1>1. /\ c.name \in Names /\ c.depth \in Nat /\ c.enter \in Nat /\ c.incl \in Nat
      /\ c.self \in Nat /\ c.wasOpen \in Nat /\ c.wasTop \in Nat
  BY CompParts
<1>2. m \in Nat /\ n \in Nat
  BY <1>1 DEF Behind
<1>3. d = [c EXCEPT !.depth = m, !.incl = n]
  BY DEF Leave
<1>4. /\ m > 0 => n <= c.enter /\ c.enter <= t
      /\ ~(m > 0) => n <= t
      /\ n + (IF m > 0 THEN t - c.enter ELSE 0) = c.incl + (IF c.depth > 0 THEN t - c.enter ELSE 0)
  BY <1>1 DEF Behind
<1> HIDE DEF m, n, d
<1>5. /\ d \in Comps /\ d.depth = m /\ d.incl = n /\ d.enter = c.enter
      /\ d.name = c.name /\ d.self = c.self /\ d.wasOpen = c.wasOpen /\ d.wasTop = c.wasTop
  BY <1>2, <1>3 DEF Comps
<1>6. d.self + own \in Nat
  BY <1>1, <1>5
<1>7. /\ e \in Comps /\ e.depth = m /\ e.incl = n /\ e.enter = c.enter
      /\ e.name = c.name /\ e.self = c.self + own /\ e.wasOpen = c.wasOpen /\ e.wasTop = c.wasTop
  BY <1>5, <1>6 DEF Comps
<1> HIDE DEF e
<1>8. Behind(d, t) /\ InclOf(d, t) = InclOf(c, t)
  BY <1>4, <1>5 DEF Behind, InclOf
<1>9. Behind(e, t) /\ InclOf(e, t) = InclOf(c, t)
  BY <1>4, <1>7 DEF Behind, InclOf
<1> QED
  BY <1>5, <1>7, <1>8, <1>9 DEF d, e, m

\* Popping frames keeps what each single Pop keeps: the result is in every set W that Pop does
\* not leave while more than k frames are left.
LEMMA PopToIn ==
  ASSUME NEW t, NEW p, NEW k \in Nat, NEW W, p \in W, k <= Len(p.stack),
         \A q \in W : Len(q.stack) \in Nat,
         \A q \in W : Len(q.stack) > k =>
           Pop(q, t) \in W /\ Len(Pop(q, t).stack) = Len(q.stack) - 1
  PROVE  PopTo(p, k, t) \in W /\ Len(PopTo(p, k, t).stack) = k
<1> DEFINE n == Len(p.stack) - k
           D == 1 .. n
           c == [u \in SUBSET D |-> Max(u)]
           f == [a \in W \X D |-> IF Len(a[1].stack) > k THEN Pop(a[1], t) ELSE a[1]]
           Step(h) == /\ h[{}] = p
                      /\ \A u \in SUBSET D : u # {} /\ Len(h[u \ {Max(u)}].stack) > k =>
                           h[u] = Pop(h[u \ {Max(u)}], t)
           Fold(h) == h = [u \in SUBSET D |-> IF u = {} THEN p ELSE Pop(h[u \ {Max(u)}], t)]
<1>1. /\ n \in Nat /\ IsFiniteSet(D) /\ Cardinality(D) = n
      /\ \A u \in SUBSET D : IsFiniteSet(u) /\ Cardinality(u) \in Nat /\ Cardinality(u) <= n
  <2>1. n \in Nat
    OBVIOUS
  <2>2. IsFiniteSet(D) /\ Cardinality(D) = n
    BY <2>1, UpTo
  <2> HIDE DEF D, n
  <2> QED
    BY <2>1, <2>2, FS_Subset, FS_CardinalityType
<1>2. \A u \in SUBSET D : u # {} =>
        Max(u) \in u /\ Cardinality(u \ {Max(u)}) = Cardinality(u) - 1 /\ u \ {Max(u)} \in SUBSET D
  <2> TAKE u \in SUBSET D
  <2> HAVE u # {}
  <2>1. u \subseteq Int /\ IsFiniteSet(u)
    BY <1>1
  <2>2. Max(u) \in u
    BY <2>1, MaxMember
  <2> QED
    BY <1>1, <2>2, FS_RemoveElement
<1> HIDE DEF c, f
<1>3. ASSUME NEW h, Step(h)
      PROVE  \A u \in SUBSET D : h[u] \in W /\ Len(h[u].stack) = Len(p.stack) - Cardinality(u)
  <2> DEFINE Good(u) == h[u] \in W /\ Len(h[u].stack) = Len(p.stack) - Cardinality(u)
             T == {u \in SUBSET D : ~Good(u)}
  <2>1. SUFFICES ASSUME T # {} PROVE FALSE
    OBVIOUS
  <2>2. T \subseteq FiniteSubsetsOf(D)
    BY <1>1 DEF FiniteSubsetsOf
  <2>3. PICK m \in T : \A u \in T : u \subseteq m => u = m
    <3> HIDE DEF T
    <3> QED
      BY <2>1, <2>2, LeastSet
  <2>4. CASE m = {}
    <3>1. Cardinality({}) = 0 /\ Len(p.stack) \in Nat
      BY FS_EmptySet
    <3> QED
      BY <1>3, <2>4, <3>1
  <2>5. CASE m # {}
    <3> DEFINE w == m \ {Max(m)}
    <3>1. m \in SUBSET D /\ w \in SUBSET D /\ w # m /\ w \subseteq m
          /\ Cardinality(w) = Cardinality(m) - 1 /\ Cardinality(m) \in Nat /\ Cardinality(m) <= n
      BY <1>1, <1>2, <2>5
    <3>2. Good(w)
      <4> HIDE DEF w, Good
      <4> QED
        BY <2>3, <3>1
    <3>3. Len(h[w].stack) > k
      <4>1. Len(p.stack) \in Nat /\ Cardinality(w) <= n - 1
        BY <3>1
      <4> QED
        BY <3>1, <3>2, <4>1
    <3>4. h[m] = Pop(h[w], t)
      BY <1>3, <2>5, <3>1, <3>3
    <3> HIDE DEF w
    <3>5. h[m] \in W /\ Len(h[m].stack) = Len(h[w].stack) - 1
      BY <3>2, <3>3, <3>4
    <3>6. Good(m)
      <4>1. Len(p.stack) \in Nat
        OBVIOUS
      <4> QED
        BY <3>1, <3>2, <3>5, <4>1
    <3> QED
      BY <2>3, <3>6
  <2> QED
    BY <2>4, <2>5
<1>4. \E h : Fold(h)
  <2>1. \A u \in SUBSET D : u # {} => c[u] \in u
    BY <1>2 DEF c
  <2>2. \A v \in W, x \in D :
          f[<<v, x>>] = (IF Len(v.stack) > k THEN Pop(v, t) ELSE v) /\ f[<<v, x>>] \in W
    BY DEF f
  <2>3. PICK g : Solves(g, D, W, p, c, f)
    <3> HIDE DEF D
    <3> QED
      BY <1>1, <2>1, <2>2, SetRecursion
  <2>4. g \in [SUBSET D -> W] /\ g[{}] = p
    BY <2>3 DEF Solves
  <2>5. \A u \in SUBSET D : u # {} =>
          /\ u \ {Max(u)} \in SUBSET D /\ g[u \ {Max(u)}] \in W
          /\ g[u] = IF Len(g[u \ {Max(u)}].stack) > k THEN Pop(g[u \ {Max(u)}], t)
                    ELSE g[u \ {Max(u)}]
    <3> TAKE u \in SUBSET D
    <3> HAVE u # {}
    <3>1. c[u] = Max(u) /\ Max(u) \in D
      BY <1>2 DEF c
    <3>2. u \ {Max(u)} \in SUBSET D /\ g[u \ {Max(u)}] \in W
      BY <1>2, <2>4
    <3>3. g[u] = f[<<g[u \ {Max(u)}], Max(u)>>]
      BY <2>3, <3>1 DEF Solves
    <3> HIDE DEF D
    <3> QED
      BY <2>2, <3>1, <3>2, <3>3
  <2>6. Step(g)
    BY <2>4, <2>5
  <2>7. \A u \in SUBSET D : Len(g[u].stack) = Len(p.stack) - Cardinality(u)
    <3> HIDE DEF Step
    <3> QED
      BY <1>3, <2>6
  <2>8. \A u \in SUBSET D : u # {} => g[u] = Pop(g[u \ {Max(u)}], t)
    <3> TAKE u \in SUBSET D
    <3> HAVE u # {}
    <3>1. /\ Cardinality(u \ {Max(u)}) = Cardinality(u) - 1 /\ u \ {Max(u)} \in SUBSET D
          /\ Cardinality(u) \in Nat /\ Cardinality(u) <= n /\ Len(p.stack) \in Nat
      BY <1>1, <1>2
    <3>2. Len(g[u \ {Max(u)}].stack) = Len(p.stack) - (Cardinality(u) - 1)
      BY <2>7, <3>1
    <3>3. Len(g[u \ {Max(u)}].stack) > k
      BY <3>1, <3>2
    <3> QED
      BY <2>5, <3>3
  <2>9. Fold(g)
    BY <2>4, <2>8
  <2> QED
    BY <2>9
<1> DEFINE h == CHOOSE x : Fold(x)
<1>5. Fold(h)
  <2> HIDE DEF Fold
  <2> QED
    BY <1>4
<1>6. PopTo(p, k, t) = h[D]
  <2>1. DOMAIN [i \in 1 .. n |-> i] = D
    OBVIOUS
  <2> QED
    BY <2>1 DEF PopTo, FoldLeft, MapThenFoldSet
<1> HIDE DEF h
<1>7. Step(h)
  <2> HIDE DEF D
  <2> QED
    BY <1>5
<1>8. h[D] \in W /\ Len(h[D].stack) = Len(p.stack) - n
  <2>1. D \in SUBSET D
    OBVIOUS
  <2> HIDE DEF Step, D
  <2> QED
    BY <1>1, <1>3, <1>7, <2>1
<1> QED
  BY <1>1, <1>6, <1>8

\* What the open frames add to an own time is an integer.
LEMMA StretchTyped ==
  ASSUME NEW p, Limits(p), NEW t \in Nat
  PROVE  /\ \A i \in DOMAIN p.stack : Stretch(p, t)[i] \in Int
         /\ \A c : /\ IsFiniteSet(Of(p, c)) /\ Of(p, c) \subseteq DOMAIN p.stack
                   /\ Cardinality(Of(p, c)) \in Nat
                   /\ OpenSelf(p, c, t) = SumFunctionOnSet(Stretch(p, t), Of(p, c))
                   /\ OpenSelf(p, c, t) \in Int
<1>1. \A i \in DOMAIN p.stack : Stretch(p, t)[i] \in Int
  BY ProfileParts DEF Stretch
<1>2. IsFiniteSet(DOMAIN p.stack)
  BY ProfileParts, UpTo
<1>3. ASSUME NEW c
      PROVE  /\ IsFiniteSet(Of(p, c)) /\ Of(p, c) \subseteq DOMAIN p.stack
             /\ OpenSelf(p, c, t) = SumFunctionOnSet(Stretch(p, t), Of(p, c))
  BY <1>2, FS_Subset DEF Of, OpenSelf, Stretch
<1>4. ASSUME NEW c PROVE OpenSelf(p, c, t) \in Int /\ Cardinality(Of(p, c)) \in Nat
  BY <1>1, <1>3, SumTyped, FS_CardinalityType
<1> QED
  BY <1>1, <1>3, <1>4

\* What popping the innermost frame changes.
LEMMA PopParts ==
  ASSUME NEW p, Limits(p), NEW t \in Nat, TimesOK(p, t), p.stack # <<>>
  PROVE  \E n, x, d : PopResult(p, Pop(p, t), t, n, x, d)
<1> DEFINE n == Len(p.stack)
           x == p.stack[n]
           d == t - x.start
           own == IF d > x.child THEN d - x.child ELSE 0
           below == Front(p.stack)
           comp == [Leave(p.comps[x.comp], t) EXCEPT !.self = @ + own]
           stack == IF n = 1 THEN below ELSE [below EXCEPT ![n - 1].child = @ + d]
           comps == [p.comps EXCEPT ![x.comp] = comp]
           q == Pop(p, t)
<1>1. /\ p.stack \in Seq(Recorded) /\ p.comps \in Seq(Comps) /\ n \in Nat \ {0}
      /\ DOMAIN p.stack = 1 .. n /\ DOMAIN p.comps = 1 .. Len(p.comps) /\ p \in Profiles
  BY ProfileParts
<1>2. /\ x \in Recorded /\ x.comp \in DOMAIN p.comps /\ x.start \in Nat /\ x.child \in Nat
  BY <1>1, ProfileParts
<1>3. x.start + x.child <= t
  BY <1>1 DEF TimesOK
<1>4. d \in Nat /\ d - x.child \in Nat /\ own = d - x.child
  BY <1>2, <1>3
<1>5. p.comps[x.comp] \in Comps /\ Behind(p.comps[x.comp], t)
  BY <1>1, <1>2 DEF TimesOK
<1>6. comp \in Comps
  BY <1>4, <1>5, LeaveTyped
<1>7. q = [p EXCEPT !.comps = comps, !.stack = stack]
  BY DEF Pop
<1> HIDE DEF q, comp
<1>8. comps \in Seq(Comps) /\ Len(comps) = Len(p.comps) /\ DOMAIN comps = DOMAIN p.comps
  BY <1>1, <1>2, <1>6
<1>9. /\ below \in Seq(Recorded) /\ Len(below) = n - 1
      /\ \A i \in 1 .. n - 1 : below[i] = p.stack[i] /\ below[i] \in Recorded
  BY <1>1 DEF Front
<1>10. /\ stack \in Seq(Recorded) /\ Len(stack) = n - 1
       /\ \A i \in 1 .. n - 1 :
            /\ stack[i].ed = p.stack[i].ed /\ stack[i].start = p.stack[i].start
            /\ stack[i].comp = p.stack[i].comp
            /\ stack[i].child = (IF i = n - 1 THEN p.stack[i].child + d ELSE p.stack[i].child)
  <2>1. CASE n = 1
    BY <1>9, <2>1
  <2>2. CASE n # 1
    <3> DEFINE y == [below[n - 1] EXCEPT !.child = @ + d]
    <3>1. below[n - 1] = p.stack[n - 1] /\ below[n - 1] \in Recorded /\ n - 1 \in 1 .. n - 1
      <4>1. n \in Nat \ {0} /\ n # 1
        BY <1>1, <2>2
      <4> HIDE DEF n, below
      <4>2. n - 1 \in 1 .. n - 1
        BY <4>1
      <4> QED
        BY <1>9, <4>2
    <3>2. p.stack[n - 1].child + d \in Nat
      <4>1. p.stack[n - 1].child \in Nat
        BY <3>1 DEF Recorded
      <4>2. d \in Nat
        BY <1>4
      <4> HIDE DEF d
      <4> QED
        BY <4>1, <4>2
    <3>3. /\ y \in Recorded /\ y.ed = p.stack[n - 1].ed /\ y.start = p.stack[n - 1].start
          /\ y.comp = p.stack[n - 1].comp /\ y.child = p.stack[n - 1].child + d
      BY <3>1, <3>2 DEF Recorded
    <3>4. stack = [below EXCEPT ![n - 1] = y]
      BY <2>2
    <3> HIDE DEF y, below, stack, d, x
    <3>5. stack \in Seq(Recorded) /\ Len(stack) = n - 1
      BY <1>9, <3>1, <3>3, <3>4
    <3>6. \A i \in 1 .. n - 1 : stack[i] = IF i = n - 1 THEN y ELSE p.stack[i]
      BY <1>9, <3>1, <3>4
    <3> QED
      BY <3>3, <3>5, <3>6
  <2> QED
    BY <2>1, <2>2
<1> HIDE DEF comps, stack
<1>11. q.comps = comps /\ q.stack = stack
  BY <1>1, <1>7 DEF Profiles
<1>12. q = [p EXCEPT !.comps = q.comps, !.stack = q.stack]
  BY <1>7, <1>11
<1>13. q.comps[x.comp] = [Leave(p.comps[x.comp], t) EXCEPT !.self = @ + (d - x.child)]
  BY <1>1, <1>2, <1>4, <1>11 DEF comps, comp
<1>14. \A c \in DOMAIN p.comps : c # x.comp => q.comps[c] = p.comps[c]
  BY <1>1, <1>11 DEF comps
<1>15. PopResult(p, q, t, n, x, d)
  BY <1>1, <1>2, <1>4, <1>8, <1>10, <1>11, <1>12, <1>13, <1>14 DEF PopResult
<1> QED
  BY <1>15 DEF q

\* The time a frame ran on is the time its child took.
LEMMA Charged ==
  ASSUME NEW a \in Nat, NEW b \in Nat, NEW c \in Nat, NEW d \in Nat
  PROVE  /\ (c + d) - a - (b + d) = c - a - b
         /\ a + b <= c => a + (b + d) <= c + d
OBVIOUS

\* Popping the innermost frame charges its time and nothing else.
LEMMA PopCloses ==
  ASSUME NEW p, Limits(p), NEW t \in Nat, TimesOK(p, t), p.stack # <<>>, p.over = 0
  PROVE  /\ Closed(p, Pop(p, t), t)
         /\ Len(Pop(p, t).stack) = Len(p.stack) - 1
         /\ \A c \in DOMAIN p.comps :
              Pop(p, t).comps[c].depth =
                LET depth == p.comps[c].depth
                IN IF c = p.stack[Len(p.stack)].comp /\ depth > 0 THEN depth - 1 ELSE depth
<1> DEFINE q == Pop(p, t)
<1>0. PICK n, x, d : PopResult(p, q, t, n, x, d)
  BY PopParts
<1> HIDE DEF q
<1>1. /\ n = Len(p.stack) /\ x = p.stack[n] /\ d = t - x.start
      /\ n \in Nat \ {0} /\ x.comp \in DOMAIN p.comps
      /\ x.start \in Nat /\ x.child \in Nat
      /\ d \in Nat /\ d - x.child \in Nat
      /\ DOMAIN q.comps = DOMAIN p.comps /\ Len(q.comps) = Len(p.comps)
      /\ q.comps \in Seq(Comps)
      /\ q.comps[x.comp] = [Leave(p.comps[x.comp], t) EXCEPT !.self = @ + (d - x.child)]
      /\ \A c \in DOMAIN p.comps : c # x.comp => q.comps[c] = p.comps[c]
      /\ q.stack \in Seq(Recorded) /\ Len(q.stack) = n - 1
      /\ \A i \in 1 .. n - 1 :
           /\ q.stack[i].ed = p.stack[i].ed /\ q.stack[i].start = p.stack[i].start
           /\ q.stack[i].comp = p.stack[i].comp
           /\ q.stack[i].child = (IF i = n - 1 THEN p.stack[i].child + d ELSE p.stack[i].child)
      /\ q = [p EXCEPT !.comps = q.comps, !.stack = q.stack]
  BY <1>0 DEF PopResult
<1>20. /\ n = Len(p.stack) /\ n \in Nat /\ n > 0 /\ n - 1 \in Nat /\ n \in 1 .. n
      /\ \A i \in 1 .. n - 1 : i \in 1 .. n /\ i + 1 \in 1 .. n /\ i # n /\ i \in Nat
                                  /\ (i # n - 1 => i + 1 \in 1 .. n - 1)
  <2>1. n = Len(p.stack) /\ n \in Nat \ {0}
    BY <1>0, Zenon DEF PopResult
  <2>2. n \in Nat /\ n > 0
    BY <2>1
  <2> QED
    BY <2>1, <2>2
<1>2. /\ p \in Profiles /\ DOMAIN p.comps = 1 .. Len(p.comps) /\ DOMAIN p.stack = 1 .. n
      /\ p.comps \in Seq(Comps) /\ \A c \in DOMAIN p.comps : p.comps[c] \in Comps
      /\ \A i \in 1 .. n : /\ p.stack[i].start \in Nat /\ p.stack[i].child \in Nat
                            /\ p.stack[i].comp \in 1 .. Len(p.comps)
  <2>1. /\ DOMAIN p.stack = 1 .. n
        /\ \A i \in DOMAIN p.stack : /\ p.stack[i].start \in Nat /\ p.stack[i].child \in Nat
                                     /\ p.stack[i].comp \in DOMAIN p.comps
    BY <1>20, ProfileParts
  <2> QED
    BY <2>1, ProfileParts
<1>3. /\ q \in Profiles /\ q.live = p.live /\ q.given = p.given /\ q.on = p.on
      /\ q.pending = p.pending /\ q.map = p.map /\ q.overflow = p.overflow /\ q.over = p.over
      /\ q.busy = p.busy
  <2> DEFINE comps == q.comps
             stack == q.stack
  <2>1. comps \in Seq(Comps) /\ stack \in Seq(Recorded)
        /\ q = [p EXCEPT !.comps = comps, !.stack = stack]
    BY <1>1
  <2> HIDE DEF comps, stack
  <2> QED
    BY <1>2, <2>1 DEF Profiles
<1>4. /\ DOMAIN q.stack = 1 .. n - 1 /\ Len(q.stack) = n - 1
      /\ \A i \in 1 .. n - 1 :
           /\ q.stack[i].ed = p.stack[i].ed /\ q.stack[i].start = p.stack[i].start
           /\ q.stack[i].comp = p.stack[i].comp
           /\ q.stack[i].child = (IF i = n - 1 THEN p.stack[i].child + d ELSE p.stack[i].child)
  <2>1. q.stack \in Seq(Recorded) /\ Len(q.stack) = n - 1
    BY <1>1
  <2>2. DOMAIN q.stack = 1 .. n - 1
    BY <1>20, <2>1
  <2> QED
    BY <1>1, <2>2
<1>21. x = p.stack[n] /\ x.start \in Nat /\ x.child \in Nat /\ d \in Nat /\ d = t - x.start
  BY <1>1
<1>22. x.start \in Nat /\ x.child \in Nat /\ d \in Nat /\ t \in Nat /\ d - x.child \in Int
  BY <1>21
<1>5. Limits(q)
  <2>1. Len(q.stack) <= StackMax /\ Len(q.comps) <= CompMax
    <3>1. Len(q.comps) = Len(p.comps)
      BY <1>0, Zenon DEF PopResult
    <3>2. Len(p.stack) <= StackMax /\ Len(p.comps) <= CompMax
      BY DEF Limits
    <3>3. StackMax \in Nat
      BY ProfilerAssumption
    <3>4. Len(q.stack) = n - 1
      BY <1>4
    <3> QED
      BY <1>20, <3>1, <3>2, <3>3, <3>4
  <2>2. \A i \in DOMAIN q.stack : q.stack[i].comp <= Len(q.comps)
    <3>1. Len(q.comps) = Len(p.comps)
      BY <1>1
    <3>2. ASSUME NEW i \in DOMAIN q.stack
          PROVE  q.stack[i].comp = p.stack[i].comp /\ p.stack[i].comp \in 1 .. Len(p.comps)
      BY <1>20, <1>2, <1>4
    <3>3. \A k \in 1 .. Len(p.comps) : k <= Len(p.comps)
      BY <1>2
    <3> QED
      BY <3>1, <3>2, <3>3
  <2>3. \A y \in DOMAIN q.map : q.map[y] <= Len(q.comps)
    BY <1>1, <1>3 DEF Limits
  <2>4. ~(q.over > 0)
    BY <1>3
  <2> QED
    BY <1>3, <2>1, <2>2, <2>3, <2>4 DEF Limits
<1> DEFINE old == p.comps[x.comp]
           new == q.comps[x.comp]
<1>6. old \in Comps /\ Behind(old, t)
  BY <1>1, <1>2 DEF TimesOK
<1>7. /\ Behind(new, t) /\ InclOf(new, t) = InclOf(old, t)
      /\ new.depth = (IF old.depth > 0 THEN old.depth - 1 ELSE 0)
      /\ new.name = old.name /\ new.self = old.self + (d - x.child)
      /\ new.wasOpen = old.wasOpen /\ new.wasTop = old.wasTop
  <2> DEFINE own == d - x.child
  <2>1. own \in Nat /\ new = [Leave(old, t) EXCEPT !.self = @ + own]
    BY <1>1
  <2> HIDE DEF own, new, old
  <2>2. /\ Behind(new, t) /\ InclOf(new, t) = InclOf(old, t)
        /\ new.depth = (IF old.depth > 0 THEN old.depth - 1 ELSE 0)
        /\ new.name = old.name /\ new.self = old.self + own
        /\ new.wasOpen = old.wasOpen /\ new.wasTop = old.wasTop
    BY <1>6, <2>1, LeaveTyped
  <2> QED
    BY <2>2 DEF own
<1>8. \A c \in DOMAIN p.comps :
        /\ Behind(q.comps[c], t)
        /\ q.comps[c].name = p.comps[c].name
        /\ q.comps[c].wasOpen = p.comps[c].wasOpen /\ q.comps[c].wasTop = p.comps[c].wasTop
        /\ InclOf(q.comps[c], t) = InclOf(p.comps[c], t)
        /\ q.comps[c].self = p.comps[c].self + (IF c = x.comp THEN d - x.child ELSE 0)
        /\ q.comps[c].depth = (IF c = x.comp /\ p.comps[c].depth > 0 THEN p.comps[c].depth - 1
                               ELSE p.comps[c].depth)
  <2> TAKE c \in DOMAIN p.comps
  <2>1. CASE c = x.comp
    BY <1>6, <1>7, <2>1, CompParts
  <2>2. CASE c # x.comp
    <3>1. q.comps[c] = p.comps[c] /\ p.comps[c] \in Comps /\ Behind(p.comps[c], t)
      BY <1>1, <1>2, <2>2 DEF TimesOK
    <3> QED
      BY <2>2, <3>1, CompParts
  <2> QED
    BY <2>1, <2>2
<1>9. TimesOK(q, t)
  <2>1. ASSUME NEW i \in DOMAIN q.stack
        PROVE  q.stack[i].start + q.stack[i].child <=
                 IF i = Len(q.stack) THEN t ELSE q.stack[i + 1].start
    <3>1. i \in 1 .. n - 1 /\ i \in 1 .. n /\ i + 1 \in 1 .. n /\ i # n /\ i \in Nat
      BY <1>20, <1>4
    <3>2. p.stack[i].start + p.stack[i].child <= p.stack[i + 1].start
      BY <1>20, <1>2, <3>1 DEF TimesOK
    <3>3. CASE i = n - 1
      <4>1. p.stack[i + 1] = x
        BY <1>20, <1>21, <3>3
      <4>2. q.stack[i].start + q.stack[i].child = p.stack[i].start + (p.stack[i].child + d)
        BY <1>4, <3>1, <3>3
      <4>3. p.stack[i].start \in Nat /\ p.stack[i].child \in Nat
        BY <1>2, <3>1
      <4>4. p.stack[i].start + p.stack[i].child <= x.start
        BY <3>2, <4>1
      <4>5. x.start + d = t
        BY <1>21
      <4>6. p.stack[i].start + (p.stack[i].child + d) <= t
        BY <1>22, <4>3, <4>4, <4>5, Charged
      <4>7. q.stack[i].start + q.stack[i].child <= t
        BY <4>2, <4>6
      <4> QED
        BY <1>4, <3>3, <4>7
    <3>4. CASE i # n - 1
      <4>1. i + 1 \in 1 .. n - 1
        BY <1>20, <3>1, <3>4
      <4>2. q.stack[i].start + q.stack[i].child = p.stack[i].start + p.stack[i].child
            /\ q.stack[i + 1].start = p.stack[i + 1].start
        BY <1>4, <3>1, <3>4, <4>1
      <4> QED
        BY <1>4, <3>2, <3>4, <4>2
    <3> QED
      BY <3>3, <3>4
  <2> QED
    BY <1>1, <1>8, <2>1 DEF TimesOK
<1>10. \A c : Of(q, c) = Of(p, c) \ {n} /\ (n \in Of(p, c) <=> c = x.comp)
  <2> TAKE c
  <2>1. Of(p, c) = {i \in 1 .. n : p.stack[i].comp = c}
    BY <1>2 DEF Of
  <2>2. Of(q, c) = {i \in 1 .. n - 1 : p.stack[i].comp = c}
    BY <1>4 DEF Of
  <2>3. 1 .. n - 1 = (1 .. n) \ {n}
    BY <1>20
  <2> QED
    BY <1>20, <1>21, <2>1, <2>2, <2>3
<1>11. ASSUME NEW c \in DOMAIN p.comps PROVE Own(q, c, t) = Own(p, c, t)
  <2>1. /\ \A i \in DOMAIN p.stack : Stretch(p, t)[i] \in Int
        /\ IsFiniteSet(Of(p, c)) /\ Of(p, c) \subseteq DOMAIN p.stack
        /\ OpenSelf(p, c, t) = SumFunctionOnSet(Stretch(p, t), Of(p, c))
        /\ OpenSelf(p, c, t) \in Int
    BY StretchTyped
  <2>2. /\ \A i \in DOMAIN q.stack : Stretch(q, t)[i] \in Int
        /\ OpenSelf(q, c, t) = SumFunctionOnSet(Stretch(q, t), Of(q, c))
        /\ OpenSelf(q, c, t) \in Int /\ IsFiniteSet(Of(q, c)) /\ Of(q, c) \subseteq DOMAIN q.stack
    BY <1>5, StretchTyped
  <2>3. \A i \in DOMAIN q.stack : Stretch(q, t)[i] = Stretch(p, t)[i]
    <3> TAKE i \in DOMAIN q.stack
    <3>1. i \in 1 .. n - 1 /\ i \in 1 .. n /\ i # n /\ i \in Nat
      BY <1>20, <1>4
    <3>2. Stretch(p, t)[i] = p.stack[i + 1].start - p.stack[i].start - p.stack[i].child
      BY <1>20, <1>2, <3>1 DEF Stretch
    <3>3. CASE i = n - 1
      <4>1. Stretch(q, t)[i] = t - q.stack[i].start - q.stack[i].child
        BY <1>4, <3>1, <3>3 DEF Stretch
      <4>2. q.stack[i].start = p.stack[i].start /\ q.stack[i].child = p.stack[i].child + d
        BY <1>4, <3>1, <3>3
      <4>3. p.stack[i + 1] = x /\ p.stack[i].start \in Nat /\ p.stack[i].child \in Nat
        <5>1. i + 1 = n
          BY <1>20, <3>1, <3>3
        <5> QED
          BY <1>21, <1>2, <3>1, <5>1
      <4>4. Stretch(p, t)[i] = x.start - p.stack[i].start - p.stack[i].child
        BY <3>2, <4>3
      <4>5. Stretch(q, t)[i] = t - p.stack[i].start - (p.stack[i].child + d)
        BY <4>1, <4>2
      <4>6. t = x.start + d
        BY <1>21
      <4>7. (x.start + d) - p.stack[i].start - (p.stack[i].child + d)
              = x.start - p.stack[i].start - p.stack[i].child
        <5> DEFINE a == p.stack[i].start
                   b == p.stack[i].child
                   e == x.start
        <5>1. a \in Nat /\ b \in Nat /\ e \in Nat /\ d \in Nat
          BY <1>22, <4>3
        <5> HIDE DEF a, b, e
        <5>2. (e + d) - a - (b + d) = e - a - b
          BY <5>1
        <5> QED
          BY <5>2 DEF a, b, e
      <4> QED
        BY <4>4, <4>5, <4>6, <4>7
    <3>4. CASE i # n - 1
      <4>1. i + 1 \in 1 .. n - 1
        BY <1>20, <3>1, <3>4
      <4>2. Stretch(q, t)[i] = q.stack[i + 1].start - q.stack[i].start - q.stack[i].child
        BY <1>4, <3>1, <3>4 DEF Stretch
      <4> QED
        BY <1>4, <3>1, <3>2, <3>4, <4>1, <4>2
    <3> QED
      BY <3>3, <3>4
  <2>4. SumFunctionOnSet(Stretch(q, t), Of(q, c)) = SumFunctionOnSet(Stretch(p, t), Of(q, c))
    BY <2>2, <2>3, SumSame
  <2>5. /\ p.comps[c].self \in Nat
        /\ q.comps[c].self = p.comps[c].self + (IF c = x.comp THEN d - x.child ELSE 0)
    BY <1>2, <1>8, CompParts
  <2>6. CASE c = x.comp
    <3>1. SumFunctionOnSet(Stretch(p, t), Of(p, c)) =
            Stretch(p, t)[n] + SumFunctionOnSet(Stretch(p, t), Of(p, c) \ {n})
      BY <1>10, <2>1, <2>6, SumSplit
    <3>2. Stretch(p, t)[n] = d - x.child
      <4>1. Stretch(p, t)[n] = t - x.start - x.child
        BY <1>20, <1>21, <1>2 DEF Stretch
      <4> QED
        BY <1>21, <4>1
    <3>3. Of(q, c) = Of(p, c) \ {n}
      BY <1>10
    <3>4. OpenSelf(p, c, t) = (d - x.child) + OpenSelf(q, c, t)
      BY <2>1, <2>2, <2>4, <3>1, <3>2, <3>3
    <3>5. /\ Own(p, c, t) = p.comps[c].self + OpenSelf(p, c, t)
          /\ Own(q, c, t) = q.comps[c].self + OpenSelf(q, c, t)
      BY DEF Own
    <3>6. q.comps[c].self = p.comps[c].self + (d - x.child)
      BY <2>5, <2>6
    <3> QED
      BY <1>22, <2>1, <2>2, <2>5, <3>4, <3>5, <3>6
  <2>7. CASE c # x.comp
    <3>1. Of(q, c) = Of(p, c)
      BY <1>10, <2>7
    <3>2. OpenSelf(p, c, t) = OpenSelf(q, c, t)
      BY <2>1, <2>2, <2>4, <3>1
    <3> QED
      BY <2>5, <2>7, <3>2 DEF Own
  <2> QED
    BY <2>6, <2>7
<1>12. ASSUME DepthsOK(p) PROVE DepthsOK(q)
  <2> SUFFICES ASSUME NEW c \in DOMAIN p.comps PROVE q.comps[c].depth = Cardinality(Of(q, c))
    BY <1>1 DEF DepthsOK
  <2>1. p.comps[c].depth = Cardinality(Of(p, c)) /\ IsFiniteSet(Of(p, c))
        /\ Cardinality(Of(p, c)) \in Nat
    BY <1>12, StretchTyped DEF DepthsOK
  <2>2. CASE c = x.comp
    <3>1. n \in Of(p, c) /\ Of(q, c) = Of(p, c) \ {n}
      BY <1>10, <2>2
    <3>2. Cardinality(Of(q, c)) = Cardinality(Of(p, c)) - 1 /\ Cardinality(Of(q, c)) \in Nat
      BY <2>1, <3>1, FS_RemoveElement, FS_CardinalityType, FS_Subset
    <3> QED
      BY <1>8, <2>1, <2>2, <3>2
  <2>3. CASE c # x.comp
    <3>1. Of(q, c) = Of(p, c)
      BY <1>10, <2>3
    <3> QED
      BY <1>8, <2>1, <2>3, <3>1
  <2> QED
    BY <2>2, <2>3
<1>13. Closed(p, q, t)
  <2>1. Len(q.stack) <= Len(p.stack)
        /\ \A i \in DOMAIN q.stack :
             q.stack[i].ed = p.stack[i].ed /\ q.stack[i].comp = p.stack[i].comp
    <3>1. Len(q.stack) = n - 1 /\ n = Len(p.stack) /\ n \in Nat
      BY <1>4, <1>20
    <3>2. Len(q.stack) <= Len(p.stack)
      BY <3>1
    <3>3. \A i \in DOMAIN q.stack :
            q.stack[i].ed = p.stack[i].ed /\ q.stack[i].comp = p.stack[i].comp
      BY <1>4
    <3> QED
      BY <3>2, <3>3
  <2> QED
    BY <1>1, <1>3, <1>5, <1>8, <1>9, <1>11, <1>12, <2>1 DEF Closed, Unwound
<1>14. Len(q.stack) = Len(p.stack) - 1
  BY <1>4, <1>20
<1>15. x = p.stack[Len(p.stack)]
  BY <1>20, <1>21
<1>16. \A c \in DOMAIN p.comps :
         q.comps[c].depth =
           LET depth == p.comps[c].depth
           IN IF c = p.stack[Len(p.stack)].comp /\ depth > 0 THEN depth - 1 ELSE depth
  BY <1>8, <1>15
<1> QED
  BY <1>13, <1>14, <1>16 DEF q

\* What closing keeps, closing more keeps.
LEMMA ClosedTransitive ==
  ASSUME NEW p, NEW q, NEW r, NEW t, Limits(p), Closed(p, q, t), Closed(q, r, t)
  PROVE  Closed(p, r, t)
<1>1. /\ DOMAIN q.comps = DOMAIN p.comps /\ Len(r.stack) <= Len(q.stack)
      /\ Len(q.stack) <= Len(p.stack) /\ Len(p.stack) \in Nat /\ Len(q.stack) \in Nat
      /\ Len(r.stack) \in Nat /\ DOMAIN q.stack = 1 .. Len(q.stack)
      /\ DOMAIN r.stack = 1 .. Len(r.stack)
  BY ProfileParts DEF Closed, Unwound
<1>2. DOMAIN r.stack \subseteq DOMAIN q.stack
  BY <1>1
<1>3. \A i \in DOMAIN r.stack : r.stack[i].ed = p.stack[i].ed /\ r.stack[i].comp = p.stack[i].comp
  BY <1>2 DEF Closed, Unwound
<1>4. \A c \in DOMAIN p.comps :
        /\ r.comps[c].name = p.comps[c].name
        /\ r.comps[c].wasOpen = p.comps[c].wasOpen /\ r.comps[c].wasTop = p.comps[c].wasTop
        /\ InclOf(r.comps[c], t) = InclOf(p.comps[c], t)
        /\ Own(r, c, t) = Own(p, c, t)
  BY <1>1 DEF Closed, Unwound
<1>5. Len(r.stack) <= Len(p.stack)
  BY <1>1
<1> QED
  BY <1>3, <1>4, <1>5 DEF Closed, Unwound

\* A profile is its own result of closing no frame.
LEMMA ClosedAtFirst ==
  ASSUME NEW p, NEW t, Limits(p), TimesOK(p, t)
  PROVE  Closed(p, p, t)
<1>1. Len(p.stack) \in Nat
  BY ProfileParts
<1> QED
  BY <1>1 DEF Closed, Unwound

\* What closing frames until k are left keeps.
LEMMA PopToCloses ==
  ASSUME NEW p, Limits(p), NEW t \in Nat, TimesOK(p, t), p.over = 0,
         NEW k \in Nat, k <= Len(p.stack)
  PROVE  /\ Closed(p, PopTo(p, k, t), t) /\ Len(PopTo(p, k, t).stack) = k
         /\ k + 1 = Len(p.stack) => PopTo(p, k, t) = Pop(p, t)
<1>1. ASSUME NEW q, Closed(p, q, t), Len(q.stack) > k
      PROVE  Closed(p, Pop(q, t), t) /\ Len(Pop(q, t).stack) = Len(q.stack) - 1
  <2>1. Limits(q) /\ TimesOK(q, t) /\ q.over = 0 /\ q.stack # <<>>
    BY <1>1 DEF Closed, Unwound
  <2>2. Closed(q, Pop(q, t), t) /\ Len(Pop(q, t).stack) = Len(q.stack) - 1
    BY <2>1, PopCloses
  <2> QED
    BY <1>1, <2>2, ClosedTransitive
<1> DEFINE W == {q \in Profiles : Closed(p, q, t)}
<1>2. p \in W
  BY ClosedAtFirst, ProfileParts
<1>3. \A q \in W : Len(q.stack) \in Nat
  BY ProfileParts DEF Closed, Unwound
<1>4. \A q \in W : Len(q.stack) > k =>
        Pop(q, t) \in W /\ Len(Pop(q, t).stack) = Len(q.stack) - 1
  <2> TAKE q \in W
  <2> HAVE Len(q.stack) > k
  <2>1. Closed(p, Pop(q, t), t) /\ Len(Pop(q, t).stack) = Len(q.stack) - 1
    BY <1>1
  <2>2. Pop(q, t) \in Profiles
    BY <2>1, ProfileParts DEF Closed, Unwound
  <2> QED
    BY <2>1, <2>2
<1>5. PopTo(p, k, t) \in W /\ Len(PopTo(p, k, t).stack) = k
  <2> HIDE DEF W
  <2> QED
    BY <1>2, <1>3, <1>4, PopToIn
<1>6. ASSUME k + 1 = Len(p.stack) PROVE PopTo(p, k, t) = Pop(p, t)
  <2> DEFINE V == {p, Pop(p, t)}
  <2>1. Len(p.stack) \in Nat /\ Len(p.stack) > k
    BY <1>6, ProfileParts
  <2>2. Len(Pop(p, t).stack) = Len(p.stack) - 1
    BY <1>1, <2>1, ClosedAtFirst
  <2>3. p \in V /\ \A q \in V : Len(q.stack) \in Nat
    BY <1>6, <2>1, <2>2
  <2>4. \A q \in V : Len(q.stack) > k => Pop(q, t) \in V /\ Len(Pop(q, t).stack) = Len(q.stack) - 1
    BY <1>6, <2>1, <2>2
  <2>5. PopTo(p, k, t) \in V /\ Len(PopTo(p, k, t).stack) = k
    <3> HIDE DEF V
    <3> QED
      BY <2>3, <2>4, PopToIn
  <2> QED
    BY <1>6, <2>1, <2>5
<1> QED
  BY <1>5, <1>6

\* A component that a frame enters.
LEMMA EnterComp ==
  ASSUME NEW a \in Comps, NEW t \in Nat, Behind(a, t)
  PROVE  LET b == [a EXCEPT !.depth = @ + 1, !.enter = IF a.depth = 0 THEN t ELSE @]
         IN /\ b \in Comps /\ Behind(b, t) /\ InclOf(b, t) = InclOf(a, t)
            /\ b.depth = a.depth + 1 /\ b.name = a.name /\ b.self = a.self
            /\ b.wasOpen = a.wasOpen /\ b.wasTop = a.wasTop
<1> DEFINE m == a.depth + 1
           n == IF a.depth = 0 THEN t ELSE a.enter
           b == [a EXCEPT !.depth = m, !.enter = n]
<1>1. a.depth \in Nat /\ a.enter \in Nat /\ a.incl \in Nat
  BY CompParts
<1>2. /\ m \in Nat /\ n \in Nat /\ m > 0 /\ a.incl <= n /\ n <= t
      /\ a.incl + (t - n) = a.incl + (IF a.depth > 0 THEN t - a.enter ELSE 0)
  BY <1>1 DEF Behind
<1> HIDE DEF m, n
<1>3. /\ b \in Comps /\ b.depth = m /\ b.enter = n /\ b.incl = a.incl /\ b.name = a.name
      /\ b.self = a.self /\ b.wasOpen = a.wasOpen /\ b.wasTop = a.wasTop
  BY <1>2 DEF Comps
<1> HIDE DEF b
<1>4. Behind(b, t) /\ InclOf(b, t) = InclOf(a, t)
  BY <1>2, <1>3 DEF Behind, InclOf
<1> QED
  BY <1>3, <1>4 DEF b, m, n

\* Entering a component charges nothing yet.
LEMMA EnterOpens ==
  ASSUME NEW p, Limits(p), NEW t \in Nat, TimesOK(p, t), NEW c \in DOMAIN p.comps,
         NEW ed \in 1 .. MaxCalls
  PROVE  Opened(p, Enter(p, ed, c, t), c, t) /\ OnStack(p, Enter(p, ed, c, t), ed, c)
<1> DEFINE a == p.comps[c]
           b == [a EXCEPT !.depth = @ + 1, !.enter = IF a.depth = 0 THEN t ELSE @]
           comps == [p.comps EXCEPT ![c] = b]
           x == [ed |-> ed, start |-> t, child |-> 0, comp |-> c]
           n == Len(p.stack)
           room == n + p.over < StackMax
           q == Enter(p, ed, c, t)
<1>1. /\ p \in Profiles /\ p.comps \in Seq(Comps) /\ p.stack \in Seq(Recorded) /\ p.over \in Nat
      /\ n \in Nat /\ Len(p.comps) \in Nat /\ DOMAIN p.comps = 1 .. Len(p.comps)
      /\ DOMAIN p.stack = 1 .. n /\ \A k \in DOMAIN p.comps : p.comps[k] \in Comps
  BY ProfileParts
<1>2. StackMax \in Nat /\ CompMax \in Nat
  BY ProfilerAssumption
<1>3. a \in Comps /\ Behind(a, t)
  BY <1>1 DEF TimesOK
<1>4. /\ b \in Comps /\ Behind(b, t) /\ InclOf(b, t) = InclOf(a, t)
      /\ b.depth = a.depth + 1 /\ b.name = a.name /\ b.self = a.self
      /\ b.wasOpen = a.wasOpen /\ b.wasTop = a.wasTop
  BY <1>3, EnterComp
<1>5. q = IF room THEN [[p EXCEPT !.comps = comps] EXCEPT !.stack = Append(@, x)]
          ELSE [[p EXCEPT !.comps = comps] EXCEPT !.over = @ + 1, !.overflow = TRUE]
  BY <1>1 DEF Enter, Profiles
<1>6. c \in 1 .. CompMax
  BY <1>1, <1>2 DEF Limits
<1>7. x \in Recorded
  BY <1>6 DEF Recorded
<1> HIDE DEF a, b, q
<1>8. /\ comps \in Seq(Comps) /\ Len(comps) = Len(p.comps) /\ DOMAIN comps = DOMAIN p.comps
      /\ \A k \in DOMAIN p.comps : comps[k] = IF k = c THEN b ELSE p.comps[k]
  BY <1>1, <1>4
<1> HIDE DEF comps
<1>9. DepthsOK(p) => \A k \in DOMAIN p.comps : p.comps[k].depth = Cardinality(Of(p, k))
  BY DEF DepthsOK
<1>10. \A k \in DOMAIN p.comps :
         /\ Behind(comps[k], t)
         /\ comps[k].name = p.comps[k].name /\ comps[k].self = p.comps[k].self
         /\ comps[k].wasOpen = p.comps[k].wasOpen /\ comps[k].wasTop = p.comps[k].wasTop
         /\ comps[k].depth = p.comps[k].depth + (IF k = c THEN 1 ELSE 0)
         /\ InclOf(comps[k], t) = InclOf(p.comps[k], t)
  <2> TAKE k \in DOMAIN p.comps
  <2>1. p.comps[k].depth \in Nat /\ Behind(p.comps[k], t)
    BY <1>1, CompParts DEF TimesOK
  <2>2. CASE k = c
    <3>1. comps[k] = b /\ a = p.comps[k]
      BY <1>8, <2>2 DEF a
    <3> QED
      BY <1>4, <2>2, <3>1
  <2>3. CASE k # c
    BY <1>8, <2>1, <2>3
  <2> QED
    BY <2>2, <2>3
<1>11. CASE room
  <2> DEFINE stack == Append(p.stack, x)
  <2>1. stack \in Seq(Recorded) /\ Len(stack) = n + 1 /\ DOMAIN stack = 1 .. n + 1
        /\ stack[n + 1] = x /\ \A i \in 1 .. n : stack[i] = p.stack[i]
    BY <1>1, <1>7
  <2>2. q = [p EXCEPT !.comps = comps, !.stack = stack]
    BY <1>1, <1>5, <1>11 DEF Profiles
  <2> HIDE DEF stack
  <2>3. /\ q \in Profiles /\ q.comps = comps /\ q.stack = stack /\ q.live = p.live
        /\ q.given = p.given /\ q.on = p.on /\ q.pending = p.pending /\ q.map = p.map
        /\ q.busy = p.busy /\ q.over = p.over /\ q.overflow = p.overflow
    BY <1>1, <1>8, <2>1, <2>2 DEF Profiles
  <2>4. Limits(q)
    <3>1. Len(stack) <= StackMax /\ ~(p.over > 0)
      BY <1>1, <1>2, <1>11, <2>1 DEF Limits
    <3>2. \A i \in DOMAIN stack : stack[i].comp <= Len(comps)
      <4> TAKE i \in DOMAIN stack
      <4>1. CASE i = n + 1
        BY <1>1, <1>8, <2>1, <4>1
      <4>2. CASE i # n + 1
        <5>1. i \in 1 .. n
          BY <1>1, <2>1, <4>2
        <5> QED
          BY <1>1, <1>8, <2>1, <5>1 DEF Limits
      <4> QED
        BY <4>1, <4>2
    <3> QED
      BY <1>8, <2>3, <3>1, <3>2 DEF Limits
  <2>5. TimesOK(q, t)
    <3>1. ASSUME NEW i \in DOMAIN stack
          PROVE  stack[i].start + stack[i].child <= IF i = Len(stack) THEN t ELSE stack[i + 1].start
      <4>1. CASE i = n + 1
        BY <2>1, <4>1
      <4>2. CASE i # n + 1
        <5>1. i \in 1 .. n /\ i \in Nat
          BY <1>1, <2>1, <4>2
        <5>2. p.stack[i].start + p.stack[i].child <= IF i = n THEN t ELSE p.stack[i + 1].start
          BY <1>1, <5>1 DEF TimesOK
        <5>3. CASE i = n
          <6>1. stack[i + 1].start = t
            BY <2>1, <5>3
          <6> QED
            BY <2>1, <4>2, <5>1, <5>2, <5>3, <6>1
        <5>4. CASE i # n
          <6>1. i + 1 \in 1 .. n
            BY <1>1, <5>1, <5>4
          <6> QED
            BY <2>1, <4>2, <5>1, <5>2, <5>4, <6>1
        <5> QED
          BY <5>3, <5>4
      <4> QED
        BY <4>1, <4>2
    <3> QED
      BY <1>8, <1>10, <2>3, <3>1 DEF TimesOK
  <2>6. \A k : Of(q, k) = (IF k = c THEN Of(p, k) \union {n + 1} ELSE Of(p, k))
    <3> TAKE k
    <3>1. Of(q, k) = {i \in 1 .. n + 1 : stack[i].comp = k}
      BY <2>1, <2>3 DEF Of
    <3>2. Of(p, k) = {i \in 1 .. n : p.stack[i].comp = k}
      BY <1>1 DEF Of
    <3>3. 1 .. n + 1 = (1 .. n) \union {n + 1} /\ n + 1 \notin 1 .. n
      BY <1>1
    <3> QED
      BY <2>1, <3>1, <3>2, <3>3
  <2>7. \A k : /\ n + 1 \notin Of(p, k) /\ IsFiniteSet(Of(p, k)) /\ Cardinality(Of(p, k)) \in Nat
    <3>1. n + 1 \notin DOMAIN p.stack
      BY <1>1
    <3> QED
      BY <3>1, StretchTyped
  <2>8. ASSUME NEW k \in DOMAIN p.comps PROVE Own(q, k, t) = Own(p, k, t)
    <3>1. /\ \A i \in DOMAIN p.stack : Stretch(p, t)[i] \in Int
          /\ IsFiniteSet(Of(p, k)) /\ Of(p, k) \subseteq DOMAIN p.stack
          /\ OpenSelf(p, k, t) = SumFunctionOnSet(Stretch(p, t), Of(p, k))
          /\ OpenSelf(p, k, t) \in Int
      BY StretchTyped
    <3>2. /\ \A i \in DOMAIN q.stack : Stretch(q, t)[i] \in Int
          /\ OpenSelf(q, k, t) = SumFunctionOnSet(Stretch(q, t), Of(q, k))
          /\ IsFiniteSet(Of(q, k)) /\ Of(q, k) \subseteq DOMAIN q.stack
      BY <2>4, StretchTyped
    <3>3. \A i \in 1 .. n : Stretch(q, t)[i] = Stretch(p, t)[i]
      <4> TAKE i \in 1 .. n
      <4>1. i \in DOMAIN q.stack /\ i # n + 1 /\ i + 1 \in Nat
        BY <1>1, <2>1, <2>3
      <4>2. Stretch(q, t)[i] = stack[i + 1].start - p.stack[i].start - p.stack[i].child
        BY <2>1, <2>3, <4>1 DEF Stretch
      <4>3. Stretch(p, t)[i] = (IF i = n THEN t ELSE p.stack[i + 1].start)
                                 - p.stack[i].start - p.stack[i].child
        BY <1>1 DEF Stretch
      <4>4. CASE i = n
        <5>1. stack[i + 1].start = t
          BY <2>1, <4>4
        <5> QED
          BY <4>2, <4>3, <4>4, <5>1
      <4>5. CASE i # n
        <5>1. i + 1 \in 1 .. n
          BY <1>1, <4>5
        <5>2. stack[i + 1].start = p.stack[i + 1].start
          BY <2>1, <5>1
        <5> QED
          BY <4>2, <4>3, <4>5, <5>2
      <4> QED
        BY <4>4, <4>5
    <3>4. SumFunctionOnSet(Stretch(q, t), Of(p, k)) = SumFunctionOnSet(Stretch(p, t), Of(p, k))
      BY <1>1, <3>1, <3>3, SumSame
    <3>5. OpenSelf(q, k, t) = OpenSelf(p, k, t)
      <4>1. CASE k = c
        <5>1. n + 1 \in Of(q, k) /\ Of(q, k) \ {n + 1} = Of(p, k)
          BY <2>6, <2>7, <4>1
        <5>2. SumFunctionOnSet(Stretch(q, t), Of(q, k)) =
                Stretch(q, t)[n + 1] + SumFunctionOnSet(Stretch(q, t), Of(q, k) \ {n + 1})
          BY <3>2, <5>1, SumSplit
        <5>3. Stretch(q, t)[n + 1] = 0
          <6>1. n + 1 \in DOMAIN stack
            BY <1>1, <2>1
          <6>2. Stretch(q, t)[n + 1] = t - t - 0
            BY <2>1, <2>3, <6>1 DEF Stretch
          <6> QED
            BY <6>2
        <5>4. OpenSelf(q, k, t) = 0 + OpenSelf(p, k, t)
          BY <3>1, <3>2, <3>4, <5>1, <5>2, <5>3
        <5>5. OpenSelf(p, k, t) \in Int
          BY <3>1
        <5> QED
          BY <5>4, <5>5
      <4>2. CASE k # c
        BY <2>6, <3>1, <3>2, <3>4, <4>2
      <4> QED
        BY <4>1, <4>2
    <3> QED
      BY <1>10, <2>3, <3>5 DEF Own
  <2>9. ASSUME DepthsOK(p) PROVE DepthsOK(q)
    <3> SUFFICES ASSUME NEW k \in DOMAIN p.comps PROVE comps[k].depth = Cardinality(Of(q, k))
      BY <1>8, <2>3 DEF DepthsOK
    <3>1. comps[k].depth = Cardinality(Of(p, k)) + (IF k = c THEN 1 ELSE 0)
      BY <1>9, <1>10, <2>9
    <3>2. CASE k = c
      <4>1. Cardinality(Of(p, k) \union {n + 1}) = Cardinality(Of(p, k)) + 1
        BY <2>7, FS_AddElement
      <4> QED
        BY <2>6, <3>1, <3>2, <4>1
    <3>3. CASE k # c
      <4>1. Of(q, k) = Of(p, k) /\ Cardinality(Of(p, k)) \in Nat
        BY <2>6, <2>7, <3>3
      <4> QED
        BY <3>1, <3>3, <4>1
    <3> QED
      BY <3>2, <3>3
  <2>10. Opened(p, q, c, t)
    BY <1>8, <1>10, <2>3, <2>4, <2>5, <2>8, <2>9 DEF Opened, Unwound
  <2>11. OnStack(p, q, ed, c)
    BY <1>11, <2>1, <2>3 DEF OnStack
  <2> QED
    BY <2>10, <2>11 DEF q
<1>12. CASE ~room
  <2>1. /\ q \in Profiles /\ q.comps = comps /\ q.stack = p.stack /\ q.live = p.live
        /\ q.given = p.given /\ q.on = p.on /\ q.pending = p.pending /\ q.map = p.map
        /\ q.busy = p.busy /\ q.over = p.over + 1 /\ q.overflow = TRUE
    <3>1. q = [[p EXCEPT !.comps = comps] EXCEPT !.over = @ + 1, !.overflow = TRUE]
      BY <1>5, <1>12
    <3>2. q = [p EXCEPT !.comps = comps, !.over = p.over + 1, !.overflow = TRUE]
      BY <1>1, <3>1 DEF Profiles
    <3>3. p.over + 1 \in Nat
      BY <1>1
    <3> QED
      BY <1>1, <1>8, <3>2, <3>3 DEF Profiles
  <2>2. Len(p.stack) = StackMax
    BY <1>1, <1>2, <1>12 DEF Limits
  <2>3. Limits(q)
    BY <1>8, <2>1, <2>2 DEF Limits
  <2>4. TimesOK(q, t)
    BY <1>8, <1>10, <2>1 DEF TimesOK
  <2>5. \A k \in DOMAIN p.comps : Own(q, k, t) = Own(p, k, t)
    BY <1>10, <2>1 DEF Own, OpenSelf
  <2>6. Opened(p, q, c, t)
    BY <1>8, <1>10, <2>1, <2>3, <2>4, <2>5 DEF Opened, Unwound
  <2>7. OnStack(p, q, ed, c)
    BY <1>12, <2>1 DEF OnStack
  <2> QED
    BY <2>6, <2>7 DEF q
<1> QED
  BY <1>11, <1>12

\* A frame beyond the stack is closed by its count alone.
LEMMA OverCloses ==
  ASSUME NEW p, Limits(p), NEW t \in Nat, TimesOK(p, t), p.over > 0, NEW c \in DOMAIN p.comps,
         NEW q, q = [p EXCEPT !.comps = [p.comps EXCEPT ![c] = Leave(p.comps[c], t)],
                              !.over = p.over - 1]
  PROVE  /\ Unwound(p, q, t) /\ q.overflow = p.overflow /\ q.over = p.over - 1
         /\ q.stack = p.stack /\ Lowered(p, q, c)
<1> DEFINE a == p.comps[c]
           b == Leave(a, t)
           comps == [p.comps EXCEPT ![c] = b]
<1>1. /\ p \in Profiles /\ p.comps \in Seq(Comps) /\ p.over \in Nat
      /\ Len(p.comps) \in Nat /\ DOMAIN p.comps = 1 .. Len(p.comps)
      /\ \A k \in DOMAIN p.comps : p.comps[k] \in Comps
  BY ProfileParts
<1>2. a \in Comps /\ Behind(a, t)
  BY <1>1 DEF TimesOK
<1>3. /\ b \in Comps /\ Behind(b, t) /\ InclOf(b, t) = InclOf(a, t)
      /\ b.depth = (IF a.depth > 0 THEN a.depth - 1 ELSE 0)
      /\ b.name = a.name /\ b.self = a.self /\ b.wasOpen = a.wasOpen /\ b.wasTop = a.wasTop
  <2>1. 0 \in Nat
    OBVIOUS
  <2> HIDE DEF a
  <2> QED
    BY <1>2, <2>1, LeaveTyped
<1>4. q = [p EXCEPT !.comps = comps, !.over = p.over - 1]
  OBVIOUS
<1> HIDE DEF a, b
<1>5. /\ comps \in Seq(Comps) /\ Len(comps) = Len(p.comps) /\ DOMAIN comps = DOMAIN p.comps
      /\ \A k \in DOMAIN p.comps : comps[k] = IF k = c THEN b ELSE p.comps[k]
  BY <1>1, <1>3
<1> HIDE DEF comps
<1>6. p.over - 1 \in Nat
  BY <1>1
<1>7. /\ q \in Profiles /\ q.comps = comps /\ q.stack = p.stack /\ q.live = p.live
      /\ q.given = p.given /\ q.on = p.on /\ q.pending = p.pending /\ q.map = p.map
      /\ q.busy = p.busy /\ q.over = p.over - 1 /\ q.overflow = p.overflow
  BY <1>1, <1>4, <1>5, <1>6 DEF Profiles
<1>8. \A k \in DOMAIN p.comps :
        /\ Behind(comps[k], t)
        /\ comps[k].name = p.comps[k].name /\ comps[k].self = p.comps[k].self
        /\ comps[k].wasOpen = p.comps[k].wasOpen /\ comps[k].wasTop = p.comps[k].wasTop
        /\ comps[k].depth = (LET depth == p.comps[k].depth
                             IN IF k = c /\ depth > 0 THEN depth - 1 ELSE depth)
        /\ InclOf(comps[k], t) = InclOf(p.comps[k], t)
  <2> TAKE k \in DOMAIN p.comps
  <2>1. p.comps[k].depth \in Nat /\ Behind(p.comps[k], t)
    BY <1>1, CompParts DEF TimesOK
  <2>2. CASE k = c
    <3>1. comps[k] = b /\ a = p.comps[k]
      BY <1>5, <2>2 DEF a
    <3> QED
      BY <1>3, <2>1, <2>2, <3>1
  <2>3. CASE k # c
    BY <1>5, <2>1, <2>3
  <2> QED
    BY <2>2, <2>3
<1>9. Limits(q)
  BY <1>5, <1>7 DEF Limits
<1>10. TimesOK(q, t)
  BY <1>5, <1>7, <1>8 DEF TimesOK
<1>11. \A k \in DOMAIN p.comps : Own(q, k, t) = Own(p, k, t)
  BY <1>7, <1>8 DEF Own, OpenSelf
<1>12. Unwound(p, q, t)
  BY <1>5, <1>7, <1>8, <1>9, <1>10, <1>11 DEF Unwound
<1> QED
  BY <1>7, <1>8, <1>12 DEF Lowered

\* The end of an observed frame closes it and what is above it.
LEMMA EndCloses ==
  ASSUME NEW p, Limits(p), NEW t \in Nat, TimesOK(p, t), NEW c \in DOMAIN p.comps, NEW ed
  PROVE  Ended(p, ObserverEnd(p, ed, c, t), ed, c, t)
<1> DEFINE n == Len(p.stack)
           q == ObserverEnd(p, ed, c, t)
           at == {i \in DOMAIN p.stack : p.stack[i].ed = ed}
<1> SUFFICES Ended(p, q, ed, c, t)
  OBVIOUS
<1>1. /\ n \in Nat /\ DOMAIN p.stack = 1 .. n /\ p.over \in Nat /\ p.stack \in Seq(Recorded)
      /\ DOMAIN p.comps = 1 .. Len(p.comps) /\ Len(p.comps) \in Nat
  BY ProfileParts
<1>2. c # 0
  BY <1>1
<1>3. CASE ~p.live \/ ~p.on \/ n + p.over = 0
  <2>1. q = p
    BY <1>3 DEF ObserverEnd
  <2>2. Unwound(p, p, t)
    BY ClosedAtFirst DEF Closed
  <2> HIDE DEF q
  <2> QED
    BY <1>1, <1>3, <2>1, <2>2 DEF Ended
<1>4. CASE p.live /\ p.on /\ p.over > 0
  <2>1. q = [p EXCEPT !.comps = [p.comps EXCEPT ![c] = Leave(p.comps[c], t)],
                      !.over = p.over - 1]
    BY <1>1, <1>2, <1>4 DEF ObserverEnd
  <2>2. /\ Unwound(p, q, t) /\ q.overflow = p.overflow /\ q.over = p.over - 1
        /\ q.stack = p.stack /\ Lowered(p, q, c)
    BY <1>4, <2>1, OverCloses
  <2>3. p.overflow
    BY <1>4 DEF Limits
  <2> HIDE DEF q
  <2> QED
    BY <1>1, <1>4, <2>2, <2>3 DEF Ended
<1>5. CASE p.live /\ p.on /\ p.over = 0 /\ n > 0
  <2>1. q = IF at = {} THEN p ELSE PopTo(p, Max(at) - 1, t)
    BY <1>1, <1>5 DEF ObserverEnd
  <2>2. CASE at = {}
    <3>1. Closed(p, q, t) /\ n \notin at /\ q = p
      BY <2>1, <2>2, ClosedAtFirst
    <3>2. n \in DOMAIN p.stack
      BY <1>1, <1>5
    <3>3. p.stack[n].ed # ed
      BY <3>1, <3>2
    <3> HIDE DEF q
    <3> QED
      BY <1>1, <1>5, <3>1, <3>3 DEF Closed, Ended
  <2>3. CASE at # {}
    <3> DEFINE m == Max(at)
    <3>1. at \subseteq 1 .. n /\ at \subseteq Int /\ IsFiniteSet(at)
      BY <1>1, UpTo, FS_Subset
    <3>2. m \in at /\ \A i \in at : i <= m
      BY <2>3, <3>1, MaxMember
    <3> HIDE DEF m
    <3>3. m \in 1 .. n /\ m - 1 \in Nat /\ m - 1 <= n
      BY <1>1, <3>1, <3>2
    <3>4. q = PopTo(p, m - 1, t)
      BY <2>1, <2>3 DEF m
    <3> HIDE DEF q
    <3>5. Closed(p, q, t) /\ (m - 1 + 1 = n => q = Pop(p, t))
      BY <1>5, <3>3, <3>4, PopToCloses
    <3>6. ASSUME p.stack[n].ed = ed
          PROVE  Len(q.stack) = n - 1 /\ Lowered(p, q, p.stack[n].comp)
      <4>1. n \in at
        BY <1>1, <1>5, <3>6
      <4>2. m = n
        BY <3>1, <3>2, <3>3, <4>1
      <4>3. q = Pop(p, t) /\ p.stack # <<>>
        BY <1>1, <1>5, <3>3, <3>5, <4>2
      <4> QED
        BY <1>5, <4>3, PopCloses DEF Lowered
    <3>7. Len(q.stack) <= n /\ q.over = p.over /\ Unwound(p, q, t) /\ q.overflow = p.overflow
          /\ (DepthsOK(p) => DepthsOK(q))
          /\ Len(q.stack) \in Nat /\ DOMAIN q.stack = 1 .. Len(q.stack)
          /\ \A i \in DOMAIN q.stack :
               q.stack[i].ed = p.stack[i].ed /\ q.stack[i].comp = p.stack[i].comp
      BY <3>5, ProfileParts DEF Closed, Unwound
    <3>8. ASSUME p.stack[n].ed = ed
          PROVE  \A i \in 1 .. n - 1 :
                   q.stack[i].ed = p.stack[i].ed /\ q.stack[i].comp = p.stack[i].comp
      <4>1. DOMAIN q.stack = 1 .. n - 1
        BY <3>6, <3>7, <3>8
      <4> QED
        BY <3>7, <4>1
    <3>9. ~(p.over > 0) /\ q.over = 0 /\ q.over <= p.over
      BY <1>5, <3>7
    <3> QED
      BY <1>5, <3>6, <3>7, <3>8, <3>9 DEF Ended
  <2> QED
    BY <2>2, <2>3
<1> QED
  BY <1>1, <1>3, <1>4, <1>5

-----------------------------------------------------------------------------
(* The ledger, frames and components.                                      *)

\* Opening and closing frames keeps the ledger.
LEMMA KeptLedger ==
  ASSUME NEW p, NEW q, NEW t \in Nat, NEW o, Ledger(p, t, o), Unwound(p, q, t),
         p.overflow => q.overflow, q.live /\ ~q.overflow => DepthsOK(q)
  PROVE  Ledger(q, t, o)
<1>1. Limits(p) /\ Limits(q) /\ TimesOK(q, t) /\ DOMAIN q.comps = DOMAIN p.comps
  BY ProfileParts DEF Ledger, Unwound
<1>2. /\ q.live = p.live /\ q.on = p.on /\ q.busy = p.busy
      /\ \A c \in DOMAIN p.comps :
           /\ q.comps[c].wasOpen = p.comps[c].wasOpen /\ q.comps[c].wasTop = p.comps[c].wasTop
           /\ InclOf(q.comps[c], t) = InclOf(p.comps[c], t)
           /\ Own(q, c, t) = Own(p, c, t)
  BY DEF Unwound
<1>3. [c \in DOMAIN q.comps |-> Own(q, c, t)] = [c \in DOMAIN p.comps |-> Own(p, c, t)]
  BY <1>1, <1>2
<1>4. ASSUME Accounts(p, t, o) PROVE Accounts(q, t, o)
  BY <1>1, <1>2, <1>3, <1>4 DEF Accounts
<1> QED
  BY <1>1, <1>2, <1>4 DEF Ledger

\* The time between opening and closing frames: everything that is open lasts longer.  s is the
\* components with a frame open, u the one whose frame is the innermost.
LEMMA NewCompTyped ==
  ASSUME NEW name \in Names, NEW t \in Nat
  PROVE  /\ NewComp(name) \in Comps /\ Behind(NewComp(name), t) /\ NewComp(name).name = name
         /\ NewComp(name).depth = 0 /\ InclOf(NewComp(name), t) = 0 /\ NewComp(name).self = 0
         /\ NewComp(name).wasOpen = 0 /\ NewComp(name).wasTop = 0
BY DEF NewComp, Comps, Behind, InclOf

\* A new component has no time.
LEMMA CompAdded ==
  ASSUME NEW p, NEW t \in Nat, NEW o, Ledger(p, t, o), NEW name \in Names,
         Len(p.comps) < CompMax, NEW x \in 0 .. NamesMax - 1,
         NEW q, q = [p EXCEPT !.comps = Append(p.comps, NewComp(name)),
                              !.map = [p.map EXCEPT ![x] = Len(p.comps) + 1]]
  PROVE  Added(p, q, name, x, t, o)
<1> DEFINE n == Len(p.comps)
           comps == Append(p.comps, NewComp(name))
           map == [p.map EXCEPT ![x] = n + 1]
<1>1. Limits(p) /\ TimesOK(p, t)
  BY DEF Ledger
<1>2. /\ p \in Profiles /\ p.comps \in Seq(Comps) /\ p.stack \in Seq(Recorded)
      /\ n \in Nat /\ DOMAIN p.comps = 1 .. n /\ Len(p.stack) \in Nat
      /\ DOMAIN p.stack = 1 .. Len(p.stack)
      /\ \A i \in DOMAIN p.stack : p.stack[i].comp \in DOMAIN p.comps
      /\ p.map \in [0 .. NamesMax - 1 -> 0 .. CompMax]
      /\ \A c \in DOMAIN p.comps : p.comps[c] \in Comps
  BY <1>1, ProfileParts
<1>3. /\ NewComp(name) \in Comps /\ Behind(NewComp(name), t)
      /\ NewComp(name).depth = 0 /\ InclOf(NewComp(name), t) = 0 /\ NewComp(name).self = 0
      /\ NewComp(name).wasOpen = 0 /\ NewComp(name).wasTop = 0
  BY NewCompTyped
<1>4. /\ comps \in Seq(Comps) /\ Len(comps) = n + 1 /\ comps[n + 1] = NewComp(name)
      /\ \A c \in 1 .. n : comps[c] = p.comps[c]
  BY <1>2, <1>3
<1>5. /\ DOMAIN comps = 1 .. n + 1 /\ 1 .. n + 1 = DOMAIN p.comps \union {n + 1}
      /\ n + 1 \notin DOMAIN p.comps
  BY <1>2, <1>4
<1>6. map \in [0 .. NamesMax - 1 -> 0 .. CompMax] /\ \A y \in 0 .. NamesMax - 1 : map[y] <= n + 1
  <2>1. n + 1 \in 0 .. CompMax
    BY <1>2, ProfilerAssumption
  <2>2. \A y \in 0 .. NamesMax - 1 : p.map[y] \in 0 .. CompMax /\ p.map[y] <= n
    BY <1>1, <1>2 DEF Limits
  <2>3. \A y \in 0 .. NamesMax - 1 : p.map[y] <= n + 1
    BY <1>2, <2>2
  <2> QED
    BY <1>2, <2>1, <2>3
<1>7. q = [p EXCEPT !.comps = comps, !.map = map]
  OBVIOUS
<1> HIDE DEF comps, map
<1>8. /\ q \in Profiles /\ q.comps = comps /\ q.stack = p.stack /\ q.live = p.live
      /\ q.given = p.given /\ q.on = p.on /\ q.pending = p.pending /\ q.map = map
      /\ q.busy = p.busy /\ q.over = p.over /\ q.overflow = p.overflow
  BY <1>2, <1>4, <1>6, <1>7 DEF Profiles
<1>9. Limits(q)
  <2>1. \A i \in DOMAIN p.stack : p.stack[i].comp <= n + 1
    BY <1>2
  <2>2. n + 1 <= CompMax
    BY <1>2, ProfilerAssumption
  <2>3. DOMAIN map = 0 .. NamesMax - 1
    BY <1>6
  <2> QED
    BY <1>1, <1>4, <1>6, <1>8, <2>1, <2>2, <2>3 DEF Limits
<1>10. TimesOK(q, t)
  <2>1. \A c \in DOMAIN p.comps : Behind(p.comps[c], t)
    BY <1>1 DEF TimesOK
  <2>2. \A c \in DOMAIN q.comps : c = n + 1 \/ (c \in 1 .. n /\ c \in DOMAIN p.comps)
    BY <1>2, <1>5, <1>8
  <2>3. \A c \in DOMAIN q.comps : Behind(q.comps[c], t)
    BY <1>3, <1>4, <1>8, <2>1, <2>2
  <2>4. \A i \in DOMAIN q.stack :
          q.stack[i].start + q.stack[i].child
            <= IF i = Len(q.stack) THEN t ELSE q.stack[i + 1].start
    BY <1>1, <1>8 DEF TimesOK
  <2> QED
    BY <2>3, <2>4 DEF TimesOK
<1>11. \A c : Of(q, c) = Of(p, c)
  BY <1>8 DEF Of
<1>12. Of(p, n + 1) = {}
  BY <1>2, <1>5 DEF Of
<1>13. \A c : OpenSelf(q, c, t) = OpenSelf(p, c, t)
  BY <1>8 DEF OpenSelf
<1>14. /\ \A c \in DOMAIN p.comps : Own(q, c, t) = Own(p, c, t) /\ Own(p, c, t) \in Int
       /\ Own(q, n + 1, t) = 0
  <2>0. OpenSelf(p, n + 1, t) = SumFunctionOnSet(Stretch(p, t), {})
    BY <1>1, <1>12, StretchTyped
  <2>1. OpenSelf(p, n + 1, t) = 0
    BY <2>0, SumEmpty
  <2>2. \A c \in DOMAIN p.comps : p.comps[c].self \in Nat /\ OpenSelf(p, c, t) \in Int
    BY <1>1, <1>2, CompParts, StretchTyped
  <2> QED
    BY <1>2, <1>3, <1>4, <1>8, <1>13, <2>1, <2>2 DEF Own
<1>15. SumFunction([c \in DOMAIN q.comps |-> Own(q, c, t)])
         = SumFunction([c \in DOMAIN p.comps |-> Own(p, c, t)])
  <2> DEFINE f == [c \in DOMAIN q.comps |-> Own(q, c, t)]
             g == [c \in DOMAIN p.comps |-> Own(p, c, t)]
             S == DOMAIN q.comps
  <2>1. S = DOMAIN p.comps \union {n + 1} /\ IsFiniteSet(S) /\ n + 1 \in S
    BY <1>2, <1>5, <1>8, UpTo
  <2>2. /\ \A c \in DOMAIN p.comps : f[c] = g[c] /\ f[c] \in Int
        /\ f[n + 1] = 0 /\ DOMAIN f = S /\ DOMAIN g = DOMAIN p.comps
    BY <1>14, <2>1
  <2> HIDE DEF f, g, S
  <2>3. \A c \in S : f[c] \in Int
    BY <2>1, <2>2
  <2>4. S \ {n + 1} = DOMAIN p.comps
    BY <1>5, <2>1
  <2>5. SumFunctionOnSet(f, S) = f[n + 1] + SumFunctionOnSet(f, DOMAIN p.comps)
    BY <2>1, <2>3, <2>4, SumSplit
  <2>6. IsFiniteSet(DOMAIN p.comps)
    BY <1>2, UpTo
  <2>7. /\ SumFunctionOnSet(f, DOMAIN p.comps) = SumFunctionOnSet(g, DOMAIN p.comps)
        /\ SumFunctionOnSet(f, DOMAIN p.comps) \in Int
    BY <2>2, <2>6, SumSame, SumTyped
  <2>8. SumFunctionOnSet(f, S) = SumFunctionOnSet(g, DOMAIN p.comps)
    BY <2>2, <2>5, <2>7
  <2>9. /\ SumFunction(f) = SumFunctionOnSet(f, S)
        /\ SumFunction(g) = SumFunctionOnSet(g, DOMAIN p.comps)
    BY <2>2 DEF SumFunction, SumFunctionOnSet
  <2> QED
    BY <2>8, <2>9 DEF f, g
<1>16. ASSUME Accounts(p, t, o) PROVE Accounts(q, t, o)
  <2> SUFFICES ASSUME o = 0, NEW c \in DOMAIN q.comps
               PROVE  /\ InclOf(q.comps[c], t) = q.comps[c].wasOpen
                      /\ q.comps[c].wasTop <= q.comps[c].wasOpen
                      /\ ~q.overflow => Own(q, c, t) = q.comps[c].wasTop
    BY <1>8, <1>15, <1>16 DEF Accounts
  <2>1. CASE c = n + 1
    BY <1>3, <1>4, <1>8, <1>14, <2>1
  <2>2. CASE c \in DOMAIN p.comps
    BY <1>2, <1>4, <1>8, <1>14, <1>16, <2>2 DEF Accounts
  <2> QED
    BY <1>5, <1>8, <2>1, <2>2
<1>17. ASSUME DepthsOK(p) PROVE DepthsOK(q)
  <2> SUFFICES ASSUME NEW c \in DOMAIN q.comps PROVE q.comps[c].depth = Cardinality(Of(q, c))
    BY DEF DepthsOK
  <2>1. CASE c = n + 1
    <3>1. Cardinality(Of(q, c)) = 0
      BY <1>11, <1>12, <2>1, FS_EmptySet
    <3> QED
      BY <1>3, <1>4, <1>8, <2>1, <3>1
  <2>2. CASE c \in DOMAIN p.comps
    <3>1. p.comps[c].depth = Cardinality(Of(p, c)) /\ q.comps[c] = p.comps[c]
      BY <1>2, <1>4, <1>8, <1>17, <2>2 DEF DepthsOK
    <3> QED
      BY <1>11, <3>1
  <2> QED
    BY <1>5, <1>8, <2>1, <2>2
<1>18. Ledger(q, t, o)
  BY <1>8, <1>9, <1>10, <1>16, <1>17 DEF Ledger
<1> QED
  BY <1>2, <1>4, <1>8, <1>18 DEF comps, map, Added

\* There is a component for every name, a new one only while there is room.
LEMMA RoomFor ==
  ASSUME NEW p, NEW t \in Nat, NEW o, Ledger(p, t, o), LastOther(p), NEW c,
         NEW x \in 0 .. NamesMax - 1, NameOf(c, x) \in Names
  PROVE  Roomed(p, CompForPidx(p, c, x), c, x, t, o)
<1> DEFINE q == CompForPidx(p, c, x)
           n == Len(p.comps)
<1> SUFFICES Roomed(p, q, c, x, t, o)
  OBVIOUS
<1>1. /\ Limits(p) /\ p \in Profiles /\ n \in Nat /\ DOMAIN p.comps = 1 .. n /\ n <= CompMax
      /\ p.map \in [0 .. NamesMax - 1 -> 0 .. CompMax] /\ CompMax \in Nat \ {0}
      /\ p.map[x] \in Nat /\ p.map[x] <= n /\ Len(p.stack) \in Nat /\ p.comps \in Seq(Comps)
  <2>1. Limits(p) /\ n <= CompMax /\ CompMax \in Nat \ {0}
    BY ProfilerAssumption DEF Ledger, Limits
  <2>2. p.map \in [0 .. NamesMax - 1 -> 0 .. CompMax]
    BY <2>1, ProfileParts
  <2>3. p.map[x] \in Nat /\ p.map[x] <= n
    <3>1. DOMAIN p.map = 0 .. NamesMax - 1 /\ p.map[x] \in 0 .. CompMax
      BY <2>2
    <3>2. p.map[x] <= n
      BY <2>1, <3>1 DEF Limits
    <3> QED
      BY <2>1, <3>1, <3>2
  <2> QED
    BY <2>1, <2>2, <2>3, ProfileParts
<1>2. CASE p.map[x] # 0
  <2>1. q = p /\ p.map[x] \in DOMAIN p.comps
    BY <1>1, <1>2 DEF CompForPidx
  <2> HIDE DEF q
  <2> QED
    BY <1>1, <1>2, <2>1 DEF Roomed
<1>3. ASSUME p.map[x] = 0, n < CompMax, NEW name \in Names,
             name = NameOf(c, x) \/ (name = Other /\ n + 1 = CompMax),
             n + 1 = CompMax => name = Other,
             q = [p EXCEPT !.comps = Append(p.comps, NewComp(name)),
                           !.map = [p.map EXCEPT ![x] = Len(p.comps) + 1]]
      PROVE  Roomed(p, q, c, x, t, o)
  <2> HIDE DEF q
  <2>1. /\ Ledger(q, t, o) /\ q.stack = p.stack /\ q.over = p.over /\ q.overflow = p.overflow
        /\ q.live = p.live /\ q.given = p.given /\ q.on = p.on /\ q.pending = p.pending
        /\ q.busy = p.busy /\ q.map = [p.map EXCEPT ![x] = n + 1]
        /\ Len(q.comps) = n + 1 /\ q.comps[n + 1] = NewComp(name)
        /\ \A k \in DOMAIN p.comps : q.comps[k] = p.comps[k]
    <3>1. Added(p, q, name, x, t, o)
      BY <1>3, CompAdded
    <3> QED
      BY <3>1 DEF Added
  <2>2. DOMAIN q.comps = 1 .. n + 1
    BY <2>1, ProfileParts DEF Ledger
  <2>3. NewComp(name).name = name /\ NewComp(name).depth = 0
    BY NewCompTyped
  <2>4. q.map[x] = n + 1 /\ \A y \in 0 .. NamesMax - 1 : y # x => q.map[y] = p.map[y]
    BY <1>1, <2>1
  <2>5. LastOther(q)
    BY <1>3, <2>1, <2>3 DEF LastOther
  <2>6. \A k \in DOMAIN q.comps : k \notin DOMAIN p.comps => q.comps[k].depth = 0
    BY <1>1, <2>1, <2>2, <2>3
  <2>7. n + 1 \in DOMAIN q.comps /\ n <= n + 1
    BY <1>1, <2>2
  <2>8. q.comps[q.map[x]].name = name
    BY <2>1, <2>3, <2>4
  <2> QED
    BY <1>3, <2>1, <2>4, <2>5, <2>6, <2>7, <2>8 DEF Roomed
<1>4. CASE p.map[x] = 0 /\ n < CompMax - 1
  <2>1. q = [p EXCEPT !.comps = Append(p.comps, NewComp(NameOf(c, x))),
                      !.map = [p.map EXCEPT ![x] = Len(p.comps) + 1]]
    BY <1>4 DEF CompForPidx
  <2>2. n < CompMax /\ n + 1 # CompMax
    BY <1>1, <1>4
  <2> HIDE DEF q, n
  <2> QED
    BY <1>3, <1>4, <2>1, <2>2
<1>5. CASE p.map[x] = 0 /\ n = CompMax - 1
  <2>1. CompMax = n + 1 /\ n < CompMax
    BY <1>1, <1>5
  <2>2. q = [p EXCEPT !.comps = Append(p.comps, NewComp(Other)),
                      !.map = [p.map EXCEPT ![x] = Len(p.comps) + 1]]
    <3>1. ~(n < CompMax - 1)
      BY <1>1, <1>5
    <3>2. q = [p EXCEPT !.comps = Append(p.comps, NewComp(Other)),
                        !.map = [p.map EXCEPT ![x] = CompMax]]
      BY <1>5, <3>1 DEF CompForPidx
    <3> HIDE DEF q
    <3> QED
      BY <2>1, <3>2
  <2>3. Other \in Names
    BY DEF Names
  <2> HIDE DEF q, n
  <2> QED
    BY <1>3, <1>5, <2>1, <2>2, <2>3
<1>6. CASE p.map[x] = 0 /\ n = CompMax
  <2> DEFINE map == [p.map EXCEPT ![x] = CompMax]
  <2>1. q = [p EXCEPT !.map = map]
    <3>1. ~(n < CompMax - 1) /\ n # CompMax - 1
      BY <1>1, <1>6
    <3>2. q = [p EXCEPT !.comps = p.comps, !.map = map]
      BY <1>6, <3>1 DEF CompForPidx
    <3> QED
      BY <1>1, <3>2 DEF Profiles
  <2>2. /\ map \in [0 .. NamesMax - 1 -> 0 .. CompMax] /\ map[x] = n
        /\ \A y \in 0 .. NamesMax - 1 : y # x => map[y] = p.map[y]
    <3>1. CompMax \in 0 .. CompMax
      BY <1>1
    <3> HIDE DEF n
    <3> QED
      BY <1>1, <1>6, <3>1
  <2> HIDE DEF q, map
  <2>3. /\ q \in Profiles /\ q.comps = p.comps /\ q.stack = p.stack /\ q.live = p.live
        /\ q.given = p.given /\ q.on = p.on /\ q.pending = p.pending /\ q.map = map
        /\ q.busy = p.busy /\ q.over = p.over /\ q.overflow = p.overflow
    BY <1>1, <2>1, <2>2 DEF Profiles
  <2>4. \A y \in DOMAIN map : map[y] <= n
    <3>1. DOMAIN map = 0 .. NamesMax - 1 /\ DOMAIN p.map = 0 .. NamesMax - 1
      BY <1>1, <2>2
    <3>2. \A y \in 0 .. NamesMax - 1 : p.map[y] <= n
      BY <1>1, <3>1 DEF Limits
    <3> HIDE DEF n
    <3> QED
      BY <1>1, <2>2, <3>1, <3>2
  <2>5. Limits(q)
    BY <1>1, <2>3, <2>4 DEF Limits
  <2>6. TimesOK(q, t)
    BY <2>3 DEF Ledger, TimesOK
  <2>7. \A k : Own(q, k, t) = Own(p, k, t)
    BY <2>3 DEF Own, OpenSelf
  <2>8. [k \in DOMAIN q.comps |-> Own(q, k, t)] = [k \in DOMAIN p.comps |-> Own(p, k, t)]
    BY <2>3, <2>7
  <2>9. Accounts(p, t, o) => Accounts(q, t, o)
    BY <2>3, <2>7, <2>8 DEF Accounts
  <2>10. DepthsOK(p) => DepthsOK(q)
    BY <2>3 DEF DepthsOK, Of
  <2>11. Ledger(q, t, o)
    BY <2>3, <2>5, <2>6, <2>9, <2>10 DEF Ledger
  <2>12. LastOther(q)
    BY <2>3 DEF LastOther
  <2>13. q.map[x] \in DOMAIN q.comps /\ q.comps[q.map[x]].name = Other /\ Len(q.comps) = CompMax
    BY <1>1, <1>6, <2>2, <2>3 DEF LastOther
  <2> QED
    BY <1>1, <1>6, <2>2, <2>3, <2>11, <2>12, <2>13 DEF Roomed
<1> QED
  BY <1>1, <1>2, <1>4, <1>5, <1>6

\* The seen frames when a frame is added.
LEMMA SeenAppend ==
  ASSUME NEW fs \in Seq(Frames), NEW x \in Frames
  PROVE  /\ IsFiniteSet(SeenIn(fs)) /\ Cardinality(SeenIn(fs)) \in Nat
         /\ SeenIn(fs) \subseteq 1 .. Len(fs) /\ Len(fs) + 1 \notin SeenIn(fs)
         /\ SeenIn(Append(fs, x)) = SeenIn(fs) \union (IF x.seen THEN {Len(fs) + 1} ELSE {})
         /\ Append(fs, x)[Len(fs) + 1] = x
         /\ \A i \in SeenIn(fs) :
              /\ Append(fs, x)[i] = fs[i] /\ Rank(Append(fs, x), i) = Rank(fs, i)
              /\ Rank(fs, i) \in 1 .. Cardinality(SeenIn(fs))
         /\ x.seen => /\ Cardinality(SeenIn(Append(fs, x))) = Cardinality(SeenIn(fs)) + 1
                      /\ Rank(Append(fs, x), Len(fs) + 1) = Cardinality(SeenIn(fs)) + 1
<1> DEFINE n == Len(fs)
           gs == Append(fs, x)
           S == SeenIn(fs)
           T == SeenIn(gs)
<1>1. /\ n \in Nat /\ DOMAIN fs = 1 .. n /\ gs \in Seq(Frames) /\ DOMAIN gs = 1 .. n + 1
      /\ gs[n + 1] = x /\ \A i \in 1 .. n : gs[i] = fs[i]
  OBVIOUS
<1> HIDE DEF n, gs
<1>2. S \subseteq 1 .. n /\ IsFiniteSet(S) /\ Cardinality(S) \in Nat /\ n + 1 \notin S
  <2>1. S \subseteq 1 .. n /\ n + 1 \notin S
    BY <1>1 DEF SeenIn
  <2>2. IsFiniteSet(S)
    BY <1>1, <2>1, UpTo, FS_Subset
  <2> QED
    BY <2>1, <2>2, FS_CardinalityType
<1>3. T = S \union (IF x.seen THEN {n + 1} ELSE {})
  <2>1. 1 .. n + 1 = (1 .. n) \union {n + 1} /\ n + 1 \notin 1 .. n
    BY <1>1
  <2> QED
    BY <1>1, <2>1 DEF SeenIn
<1>4. \A i \in S : /\ gs[i] = fs[i] /\ Rank(gs, i) = Rank(fs, i)
                   /\ Rank(fs, i) \in 1 .. Cardinality(S)
  <2> TAKE i \in S
  <2> DEFINE U == {j \in S : j <= i}
  <2>1. i \in 1 .. n /\ i \in Nat /\ ~(n + 1 <= i)
    BY <1>1, <1>2
  <2>2. {j \in T : j <= i} = U
    BY <1>3, <2>1
  <2>3. IsFiniteSet(U) /\ Cardinality(U) <= Cardinality(S) /\ Cardinality(U) \in Nat
    BY <1>2, FS_Subset, FS_CardinalityType
  <2>4. i \in U
    BY <2>1
  <2>5. Cardinality(U) # 0
    BY <2>3, <2>4, FS_EmptySet
  <2>6. Rank(gs, i) = Cardinality(U) /\ Rank(fs, i) = Cardinality(U)
    BY <2>2 DEF Rank
  <2> HIDE DEF U, S
  <2> QED
    BY <1>1, <1>2, <2>1, <2>3, <2>5, <2>6
<1>5. ASSUME x.seen
      PROVE  Cardinality(T) = Cardinality(S) + 1 /\ Rank(gs, n + 1) = Cardinality(S) + 1
  <2>1. T = S \union {n + 1}
    BY <1>3, <1>5
  <2>2. Cardinality(T) = Cardinality(S) + 1
    <3> HIDE DEF S, T
    <3> QED
      BY <1>2, <2>1, FS_AddElement
  <2>3. {j \in T : j <= n + 1} = T
    BY <1>1, <1>2, <2>1
  <2> QED
    BY <2>2, <2>3 DEF Rank
<1> QED
  BY <1>1, <1>2, <1>3, <1>4, <1>5 DEF n, gs

\* A fiber's frames without the innermost one.
LEMMA FramesFront ==
  ASSUME NEW fs \in Seq(Frames), fs # <<>>
  PROVE  /\ Front(fs) \in Seq(Frames) /\ Last(fs) \in Frames /\ Len(Front(fs)) = Len(fs) - 1
         /\ fs = Append(Front(fs), Last(fs))
         /\ \A i \in DOMAIN Front(fs) : Front(fs)[i] = fs[i]
<1> DEFINE n == Len(fs)
           gs == [i \in 1 .. n - 1 |-> fs[i]]
<1>1. n \in Nat /\ n > 0 /\ DOMAIN fs = 1 .. n
  OBVIOUS
<1>2. Front(fs) = gs
  BY <1>1 DEF Front, SubSeq
<1>3. gs \in Seq(Frames) /\ Len(gs) = n - 1 /\ DOMAIN gs = 1 .. n - 1
  <2>1. n - 1 \in Nat /\ \A i \in 1 .. n - 1 : fs[i] \in Frames
    BY <1>1
  <2> HIDE DEF n
  <2> QED
    BY <2>1
<1>4. Last(fs) = fs[n] /\ fs[n] \in Frames
  BY <1>1 DEF Last
<1>5. \A i \in 1 .. n - 1 : gs[i] = fs[i]
  OBVIOUS
<1> HIDE DEF gs
<1>6. fs = Append(gs, fs[n])
  <2> DEFINE hs == Append(gs, fs[n])
             m == n - 1
  <2>0. m \in Nat /\ m + 1 = n /\ Len(gs) = m /\ 1 .. n - 1 = 1 .. m
    BY <1>1, <1>3
  <2> HIDE DEF n, m
  <2>1. hs \in Seq(Frames) /\ Len(hs) = n /\ DOMAIN hs = 1 .. n /\ hs[n] = fs[n]
        /\ \A i \in 1 .. n - 1 : hs[i] = gs[i]
    BY <1>3, <1>4, <2>0
  <2> HIDE DEF hs
  <2>2. \A i \in 1 .. n : hs[i] = fs[i]
    BY <1>1, <1>5, <2>1
  <2>3. hs = fs
    <3> HIDE DEF n
    <3> QED
      BY <1>1, <2>1, <2>2
  <2> QED
    BY <2>3 DEF hs
<1> QED
  BY <1>2, <1>3, <1>4, <1>5, <1>6

\* What the mirror depends on.
LEMMA MirrorSame ==
  ASSUME NEW p, NEW q, NEW fs, NEW gs, NEW sl, NEW sm, Mirrors(p, fs, sl),
         SeenIn(gs) = SeenIn(fs),
         \A i \in SeenIn(fs) : gs[i].ed = fs[i].ed /\ sm[gs[i].file] = sl[fs[i].file],
         q.stack = p.stack, q.over = p.over,
         \A k \in DOMAIN q.comps :
           IF k \in DOMAIN p.comps THEN q.comps[k].depth = p.comps[k].depth
           ELSE q.comps[k].depth = 0 /\ \A i \in SeenIn(fs) : sl[fs[i].file] # k
  PROVE  Mirrors(q, gs, sm)
<1>1. \A i : Rank(gs, i) = Rank(fs, i)
  BY DEF Rank
<1>2. \A i \in SeenIn(gs) : Rank(gs, i) <= Len(q.stack) =>
        /\ q.stack[Rank(gs, i)].ed = gs[i].ed
        /\ q.stack[Rank(gs, i)].comp = sm[gs[i].file]
  BY <1>1 DEF Mirrors
<1>3. \A k \in DOMAIN q.comps :
        q.comps[k].depth = Cardinality(Under(gs, sm, k))
  <2> TAKE k \in DOMAIN q.comps
  <2>1. Under(gs, sm, k) = Under(fs, sl, k)
    BY DEF Under
  <2>2. CASE k \in DOMAIN p.comps
    BY <2>1, <2>2 DEF Mirrors
  <2>3. CASE k \notin DOMAIN p.comps
    <3>1. Under(fs, sl, k) = {}
      BY <2>3 DEF Under
    <3> QED
      BY <2>1, <2>3, <3>1, FS_EmptySet
  <2> QED
    BY <2>2, <2>3
<1>4. Len(q.stack) + q.over = Cardinality(SeenIn(gs))
  BY DEF Mirrors
<1> QED
  BY <1>2, <1>3, <1>4 DEF Mirrors

\* The seen frames of component c when a frame is added.
LEMMA CompAppend ==
  ASSUME NEW fs \in Seq(Frames), NEW x \in Frames, x.seen, NEW sl, NEW c
  PROVE  /\ Cardinality(Under(fs, sl, c)) \in Nat
         /\ Cardinality(Under(Append(fs, x), sl, c))
              = Cardinality(Under(fs, sl, c)) + (IF sl[x.file] = c THEN 1 ELSE 0)
<1> DEFINE n == Len(fs)
           gs == Append(fs, x)
           A == Under(fs, sl, c)
           B == Under(gs, sl, c)
<1>1. /\ IsFiniteSet(SeenIn(fs)) /\ n + 1 \notin SeenIn(fs)
      /\ SeenIn(gs) = SeenIn(fs) \union {n + 1} /\ gs[n + 1] = x
      /\ \A i \in SeenIn(fs) : gs[i] = fs[i]
  BY SeenAppend
<1> HIDE DEF n, gs
<1>2. IsFiniteSet(A) /\ Cardinality(A) \in Nat /\ n + 1 \notin A
  BY <1>1, FS_Subset, FS_CardinalityType DEF Under
<1>3. CASE sl[x.file] = c
  <2>1. B = A \union {n + 1}
    BY <1>1, <1>3 DEF Under
  <2> HIDE DEF A, B
  <2>2. Cardinality(B) = Cardinality(A) + 1
    BY <1>2, <2>1, FS_AddElement
  <2> QED
    BY <1>2, <1>3, <2>2 DEF A, B, gs
<1>4. CASE sl[x.file] # c
  <2>1. B = A
    BY <1>1, <1>4 DEF Under
  <2> QED
    BY <1>2, <1>4, <2>1 DEF gs
<1> QED
  BY <1>3, <1>4

\* The profile knows the seen frames also with one more.
LEMMA MirrorPush ==
  ASSUME NEW p, NEW q, NEW fs, NEW x, NEW sl, NEW c, Topped(p, q, fs, x, sl, c)
  PROVE  Mirrors(q, Append(fs, x), sl)
<1> SUFFICES ASSUME Limits(p), fs \in Seq(Frames), x \in Frames, x.seen,
                    Mirrors(p, fs, sl), c = sl[x.file], OnStack(p, q, x.ed, c),
                    DOMAIN q.comps = DOMAIN p.comps,
                    \A k \in DOMAIN p.comps :
                      q.comps[k].depth = p.comps[k].depth + (IF k = c THEN 1 ELSE 0)
             PROVE  Mirrors(q, Append(fs, x), sl)
  BY DEF Topped
<1> DEFINE gs == Append(fs, x)
           n == Len(fs)
           S == Cardinality(SeenIn(fs))
           m == Len(p.stack)
<1>1. /\ S \in Nat /\ SeenIn(fs) \subseteq 1 .. n /\ n + 1 \notin SeenIn(fs)
      /\ SeenIn(gs) = SeenIn(fs) \union {n + 1} /\ gs[n + 1] = x
      /\ \A i \in SeenIn(fs) :
           gs[i] = fs[i] /\ Rank(gs, i) = Rank(fs, i) /\ Rank(fs, i) \in 1 .. S
      /\ Cardinality(SeenIn(gs)) = S + 1 /\ Rank(gs, n + 1) = S + 1
  BY SeenAppend
<1>2. /\ m \in Nat /\ p.over \in Nat /\ DOMAIN p.stack = 1 .. m /\ m <= StackMax
      /\ p.over > 0 => m = StackMax
  BY ProfileParts DEF Limits
<1>3. m + p.over = S
  BY DEF Mirrors
<1>4. \A k \in DOMAIN q.comps : q.comps[k].depth = Cardinality(Under(gs, sl, k))
  <2> TAKE k \in DOMAIN q.comps
  <2>1. /\ Cardinality(Under(fs, sl, k)) \in Nat
        /\ Cardinality(Under(gs, sl, k)) = Cardinality(Under(fs, sl, k)) + (IF c = k THEN 1 ELSE 0)
    BY CompAppend
  <2>2. p.comps[k].depth = Cardinality(Under(fs, sl, k))
    BY DEF Mirrors
  <2>3. q.comps[k].depth = p.comps[k].depth + (IF k = c THEN 1 ELSE 0)
    OBVIOUS
  <2> QED
    BY <2>1, <2>2, <2>3
<1> HIDE DEF gs, n, S
<1>5. CASE m + p.over < StackMax
  <2>1. /\ q.over = p.over /\ Len(q.stack) = m + 1 /\ q.stack[m + 1].ed = x.ed
        /\ q.stack[m + 1].comp = c /\ \A i \in 1 .. m : q.stack[i] = p.stack[i]
    BY <1>5 DEF OnStack
  <2> HIDE DEF m
  <2>2. p.over = 0 /\ S = m
    BY <1>2, <1>3, <1>5
  <2>3. Len(q.stack) + q.over = S + 1
    BY <1>2, <2>1, <2>2
  <2>4. \A i \in SeenIn(gs) :
          /\ q.stack[Rank(gs, i)].ed = gs[i].ed
          /\ q.stack[Rank(gs, i)].comp = sl[gs[i].file]
    <3> TAKE i \in SeenIn(gs)
    <3>1. CASE i = n + 1
      BY <1>1, <2>1, <2>2, <3>1
    <3>2. CASE i \in SeenIn(fs)
      <4>1. Rank(fs, i) \in 1 .. m /\ Rank(fs, i) <= m /\ Rank(gs, i) = Rank(fs, i) /\ gs[i] = fs[i]
        BY <1>1, <1>2, <2>2, <3>2
      <4>2. p.stack[Rank(fs, i)].ed = fs[i].ed /\ p.stack[Rank(fs, i)].comp = sl[fs[i].file]
        BY <3>2, <4>1 DEF Mirrors, m
      <4> QED
        BY <2>1, <4>1, <4>2
    <3> QED
      BY <1>1, <3>1, <3>2
  <2> QED
    BY <1>1, <1>4, <2>3, <2>4 DEF Mirrors, gs
<1>6. CASE ~(m + p.over < StackMax)
  <2>1. q.over = p.over + 1 /\ q.stack = p.stack
    BY <1>6 DEF OnStack
  <2>2. Len(q.stack) + q.over = S + 1
    BY <1>2, <1>3, <2>1
  <2>3. \A i \in SeenIn(gs) : Rank(gs, i) <= Len(q.stack) =>
          /\ q.stack[Rank(gs, i)].ed = gs[i].ed
          /\ q.stack[Rank(gs, i)].comp = sl[gs[i].file]
    <3> TAKE i \in SeenIn(gs)
    <3> HAVE Rank(gs, i) <= Len(q.stack)
    <3>1. i # n + 1
      BY <1>1, <1>2, <1>3, <2>1
    <3>2. i \in SeenIn(fs)
      BY <1>1, <3>1
    <3>3. Rank(fs, i) <= Len(p.stack) /\ Rank(gs, i) = Rank(fs, i) /\ gs[i] = fs[i]
      BY <1>1, <2>1, <3>2
    <3> QED
      BY <2>1, <3>2, <3>3 DEF Mirrors
  <2> QED
    BY <1>1, <1>4, <2>2, <2>3 DEF Mirrors, gs
<1> QED
  BY <1>5, <1>6

\* The profile knows the seen frames also with one less.
LEMMA MirrorPop ==
  ASSUME NEW p, Limits(p), NEW q, Limits(q), NEW t, NEW fs \in Seq(Frames),
         NEW x \in Frames, x.seen,
         NEW sl, Mirrors(p, Append(fs, x), sl), p.live, p.on,
         Ended(p, q, x.ed, sl[x.file], t)
  PROVE  Mirrors(q, fs, sl)
<1> DEFINE gs == Append(fs, x)
           n == Len(fs)
           S == Cardinality(SeenIn(fs))
           m == Len(p.stack)
           c == sl[x.file]
<1>1. /\ S \in Nat /\ SeenIn(fs) \subseteq 1 .. n /\ n + 1 \notin SeenIn(fs)
      /\ SeenIn(gs) = SeenIn(fs) \union {n + 1} /\ gs[n + 1] = x
      /\ \A i \in SeenIn(fs) :
           gs[i] = fs[i] /\ Rank(gs, i) = Rank(fs, i) /\ Rank(fs, i) \in 1 .. S
      /\ Cardinality(SeenIn(gs)) = S + 1 /\ Rank(gs, n + 1) = S + 1
  BY SeenAppend
<1>2. /\ m \in Nat /\ p.over \in Nat /\ DOMAIN p.stack = 1 .. m /\ m <= StackMax
      /\ p.over > 0 => m = StackMax
  BY ProfileParts DEF Limits
<1>3. m + p.over = S + 1
  BY <1>1 DEF Mirrors
<1>4. /\ DOMAIN q.comps = DOMAIN p.comps /\ Len(q.stack) <= m /\ Len(q.stack) \in Nat
      /\ q.over \in Nat
  BY ProfileParts DEF Ended, Unwound
<1>5. ASSUME Lowered(p, q, c), NEW k \in DOMAIN q.comps
      PROVE  q.comps[k].depth = Cardinality(Under(fs, sl, k))
  <2>1. /\ Cardinality(Under(fs, sl, k)) \in Nat
        /\ Cardinality(Under(gs, sl, k)) = Cardinality(Under(fs, sl, k)) + (IF c = k THEN 1 ELSE 0)
    BY CompAppend
  <2>2. p.comps[k].depth = Cardinality(Under(gs, sl, k))
    BY <1>4, <1>5 DEF Mirrors
  <2>3. q.comps[k].depth = (IF k = c /\ p.comps[k].depth > 0 THEN p.comps[k].depth - 1
                            ELSE p.comps[k].depth)
    BY <1>4, <1>5 DEF Lowered
  <2> HIDE DEF c
  <2> QED
    BY <2>1, <2>2, <2>3
<1>6. \A i \in SeenIn(fs) : Rank(fs, i) <= m =>
        p.stack[Rank(fs, i)].ed = fs[i].ed /\ p.stack[Rank(fs, i)].comp = sl[fs[i].file]
  <2> TAKE i \in SeenIn(fs)
  <2>1. i \in SeenIn(gs) /\ Rank(gs, i) = Rank(fs, i) /\ gs[i] = fs[i]
    BY <1>1
  <2> QED
    BY <2>1 DEF Mirrors
<1>0. Mirrors(p, gs, sl)
  OBVIOUS
<1> HIDE DEF gs, n, S
<1>7. CASE p.over > 0
  <2>1. q.over = p.over - 1 /\ q.stack = p.stack /\ Lowered(p, q, c)
    BY <1>7 DEF Ended
  <2>2. Len(q.stack) + q.over = S
    <3>1. S \in Nat
      BY <1>1
    <3>2. Len(q.stack) = m /\ q.over = p.over - 1
      BY <2>1
    <3>3. m \in Nat /\ p.over \in Nat
      BY <1>2
    <3> HIDE DEF m
    <3> QED
      BY SMTT(40), <1>3, <3>1, <3>2, <3>3
  <2>3. \A i \in SeenIn(fs) : Rank(fs, i) <= Len(q.stack) =>
          q.stack[Rank(fs, i)].ed = fs[i].ed /\ q.stack[Rank(fs, i)].comp = sl[fs[i].file]
    BY <1>6, <2>1
  <2> QED
    BY <1>5, <2>1, <2>2, <2>3 DEF Mirrors, S
<1>8. CASE p.over = 0
  <2>1. m = S + 1 /\ m > 0
    BY <1>1, <1>2, <1>3, <1>8
  <2>2. p.stack[S + 1].ed = x.ed /\ p.stack[S + 1].comp = c
    <3>1. n + 1 \in SeenIn(gs) /\ Rank(gs, n + 1) <= Len(p.stack)
      BY <1>1, <1>2, <2>1
    <3>2. /\ p.stack[Rank(gs, n + 1)].ed = gs[n + 1].ed
          /\ p.stack[Rank(gs, n + 1)].comp = sl[gs[n + 1].file]
      BY <1>0, <3>1 DEF Mirrors
    <3>3. gs[n + 1] = x /\ Rank(gs, n + 1) = S + 1
      BY <1>1
    <3> QED
      BY <3>2, <3>3
  <2>3. /\ q.over = 0 /\ Len(q.stack) = m - 1 /\ Lowered(p, q, p.stack[m].comp)
        /\ \A i \in 1 .. m - 1 :
             q.stack[i].ed = p.stack[i].ed /\ q.stack[i].comp = p.stack[i].comp
    BY <1>8, <2>1, <2>2 DEF Ended
  <2> HIDE DEF m
  <2>4. m - 1 = S /\ Lowered(p, q, c) /\ Len(q.stack) = S
    BY <1>1, <2>1, <2>2, <2>3
  <2>5. \A i \in SeenIn(fs) :
          q.stack[Rank(fs, i)].ed = fs[i].ed /\ q.stack[Rank(fs, i)].comp = sl[fs[i].file]
    <3> TAKE i \in SeenIn(fs)
    <3>1. Rank(fs, i) \in 1 .. m - 1 /\ Rank(fs, i) <= m
      BY <1>1, <1>2, <2>1, <2>4
    <3> QED
      BY <1>6, <2>3, <3>1
  <2> QED
    BY <1>1, <1>5, <2>3, <2>4, <2>5 DEF Mirrors, S
<1> QED
  BY <1>2, <1>7, <1>8

\* The begin of an observed frame keeps the ledger.
LEMMA BeginOpens ==
  ASSUME NEW p, NEW t \in Nat, NEW o, Ledger(p, t, o), NEW c \in DOMAIN p.comps,
         NEW ed \in 1 .. MaxCalls, NEW match \in BOOLEAN, p.live, p.on \/ p.pending,
         p.pending => ~p.on
  PROVE  Begun(p, ObserverBegin(p, ed, c, t, match), ed, c, t, o, match)
<1> DEFINE d == IF p.pending THEN ProfileDecide(p, match) ELSE p
           q == ObserverBegin(p, ed, c, t, match)
<1>1. Limits(p) /\ TimesOK(p, t) /\ p \in Profiles /\ DOMAIN p.comps = 1 .. Len(p.comps)
      /\ p.on \in BOOLEAN /\ p.live \in BOOLEAN /\ p.pending \in BOOLEAN /\ Len(p.comps) \in Nat
      /\ c # 0
  BY ProfileParts DEF Ledger
<1>2. /\ d \in Profiles /\ d.comps = p.comps /\ d.stack = p.stack /\ d.over = p.over
      /\ d.overflow = p.overflow /\ d.given = p.given /\ d.map = p.map /\ d.busy = p.busy
      /\ ~d.pending /\ d.on = (IF p.pending THEN match ELSE TRUE) /\ d.live = d.on
      /\ d.live \in BOOLEAN
  BY <1>1 DEF ProfileDecide, Profiles
<1>3. q = IF d.on THEN Enter(d, ed, c, t) ELSE d
  BY <1>1, <1>2 DEF ObserverBegin
<1> HIDE DEF d, q
<1>4. Limits(d) /\ TimesOK(d, t)
  BY <1>1, <1>2 DEF Limits, TimesOK
<1>5. \A k : Own(d, k, t) = Own(p, k, t)
  BY <1>2 DEF Own, OpenSelf
<1>6. [k \in DOMAIN d.comps |-> Own(d, k, t)] = [k \in DOMAIN p.comps |-> Own(p, k, t)]
  BY <1>2, <1>5
<1>7. d.on => Accounts(d, t, o)
  BY <1>2, <1>5, <1>6 DEF Accounts, Ledger
<1>8. DepthsOK(p) => DepthsOK(d)
  BY <1>2 DEF DepthsOK, Of
<1>9. Ledger(d, t, o)
  BY <1>2, <1>4, <1>7, <1>8 DEF Ledger
<1>10. CASE ~d.on
  BY <1>2, <1>3, <1>9, <1>10 DEF Begun, q
<1>11. CASE d.on
  <2>1. q = Enter(d, ed, c, t)
    BY <1>3, <1>11
  <2>2. Opened(d, q, c, t) /\ OnStack(d, q, ed, c)
    BY <1>2, <1>4, <2>1, EnterOpens
  <2>3. OnStack(p, q, ed, c)
    BY <1>2, <2>2 DEF OnStack
  <2>4. d.overflow => q.overflow
    BY <2>2 DEF OnStack
  <2>5. q.live /\ ~q.overflow => DepthsOK(q)
    BY <1>2, <1>9, <1>11, <2>2, <2>4 DEF Opened, Ledger
  <2>6. Ledger(q, t, o)
    BY <1>9, <2>2, <2>4, <2>5, KeptLedger DEF Opened
  <2>7. /\ q.given = p.given /\ q.map = p.map /\ Len(q.comps) = Len(p.comps)
        /\ \A k \in DOMAIN p.comps : q.comps[k].name = p.comps[k].name
        /\ \A k \in DOMAIN p.comps :
             q.comps[k].depth = p.comps[k].depth + (IF k = c THEN 1 ELSE 0)
        /\ q.on = d.on /\ q.live = d.live /\ q.pending = d.pending
    BY <1>2, <2>2 DEF Opened, Unwound
  <2>8. Begun(p, q, ed, c, t, o, match)
    BY <1>2, <1>11, <2>3, <2>6, <2>7 DEF Begun
  <2> QED
    BY <2>8 DEF q
<1> QED
  BY <1>2, <1>10, <1>11

-----------------------------------------------------------------------------
(* The class cache.                                                        *)

\* The parts of a cache.
LEMMA CacheParts ==
  ASSUME NEW c \in Caches
  PROVE  /\ c.names \in Seq(Names) /\ Len(c.names) \in Nat
         /\ DOMAIN c.names = 1 .. Len(c.names)
         /\ c.slots \in [0 .. CacheSlots - 1 -> [file : Files \union {<<>>}, pidx : 0 .. NamesMax]]
         /\ NamesMax \in Nat \ {0} /\ CacheSlots \in Nat \ {0} /\ Probes \in 1 .. CacheSlots
<1>1. c.names \in Seq(Names)
  BY DEF Caches
<1> QED
  BY <1>1, ProfilerAssumption DEF Caches

\* What an entry tells stays true while the table of names grows.
LEMMA TellsOn ==
  ASSUME NEW c \in Caches, NEW d \in Caches, Grown(c, d), NEW x, NEW f, Tells(c, x, f)
  PROVE  Tells(d, x, f)
<1>1. /\ Len(c.names) \in Nat /\ Len(d.names) \in Nat /\ DOMAIN c.names = 1 .. Len(c.names)
      /\ NamesMax \in Nat
  BY CacheParts
<1>2. CASE Classify(f) = Unclassified
  BY <1>2 DEF Tells
<1>3. CASE x \in 0 .. Len(c.names) - 1 /\ c.names[x + 1] = Classify(f) /\ Classify(f) # Unclassified
  <2>1. x \in 0 .. Len(d.names) - 1 /\ x + 1 \in DOMAIN c.names
    BY <1>1, <1>3 DEF Grown
  <2> QED
    BY <1>3, <2>1 DEF Tells, Grown
<1>4. CASE x = NamesMax - 1 /\ Len(c.names) = NamesMax - 1 /\ Classify(f) # Unclassified
  <2>1. Len(d.names) = NamesMax - 1
    BY <1>1, <1>4 DEF Grown
  <2> QED
    BY <1>4, <2>1 DEF Tells
<1> QED
  BY <1>2, <1>3, <1>4 DEF Tells

\* What an answer of the cache says.
LEMMA ToldName ==
  ASSUME NEW c \in Caches, Len(c.names) < NamesMax, NEW x, NEW f \in Files, Tells(c, x, f)
  PROVE  /\ x = NonePidx <=> Classify(f) = Unclassified
         /\ x # NonePidx =>
              /\ x \in 0 .. NamesMax - 1 /\ NameOf(c, x) \in Names
              /\ x < Len(c.names) \/ (x = NamesMax - 1 /\ Len(c.names) = NamesMax - 1)
              /\ NameOf(c, x) = Classify(f) \/ (NameOf(c, x) = Other /\ Len(c.names) = NamesMax - 1)
<1>1. Len(c.names) \in Nat /\ NamesMax \in Nat \ {0} /\ Other \in Names /\ Classify(f) \in Names
  BY CacheParts DEF Names
<1>2. CASE Classify(f) = Unclassified
  BY <1>2 DEF Tells
<1>3. CASE x \in 0 .. Len(c.names) - 1 /\ c.names[x + 1] = Classify(f) /\ Classify(f) # Unclassified
  <2>1. x \in 0 .. NamesMax - 1 /\ x # NamesMax - 1 /\ x # NonePidx /\ x < Len(c.names)
    BY <1>1, <1>3 DEF NonePidx
  <2> QED
    BY <1>1, <1>3, <2>1 DEF NameOf
<1>4. CASE x = NamesMax - 1 /\ Len(c.names) = NamesMax - 1 /\ Classify(f) # Unclassified
  BY <1>1, <1>4 DEF NameOf, NonePidx
<1> QED
  BY <1>2, <1>3, <1>4 DEF Tells

\* A name is found in the table after it was looked for.
LEMMA Interned ==
  ASSUME NEW c \in Caches, Len(c.names) < NamesMax, NEW f \in Files, Classify(f) # Unclassified
  PROVE  LET d == Intern(c, Classify(f))
         IN /\ d \in Caches /\ d.slots = c.slots /\ Grown(c, d)
            /\ Tells(d, PidxOf(d, Classify(f)), f) /\ PidxOf(d, Classify(f)) \in 0 .. NamesMax
<1> DEFINE name == Classify(f)
           d == Intern(c, name)
           x == PidxOf(d, name)
<1>1. /\ c.names \in Seq(Names) /\ Len(c.names) \in Nat /\ DOMAIN c.names = 1 .. Len(c.names)
      /\ NamesMax \in Nat \ {0} /\ name \in Names
  BY CacheParts DEF Names
<1>2. /\ d \in Caches /\ d.slots = c.slots /\ Grown(c, d)
      /\ name \in Range(d.names) \/ Len(d.names) = NamesMax - 1
  <2>1. CASE name \in Range(c.names) \/ Len(c.names) = NamesMax - 1
    <3>1. d = c
      BY <2>1 DEF Intern
    <3> QED
      BY <1>1, <2>1, <3>1 DEF Grown
  <2>2. CASE ~(name \in Range(c.names) \/ Len(c.names) = NamesMax - 1)
    <3> DEFINE names == Append(c.names, name)
    <3>1. d = [c EXCEPT !.names = names]
      BY <2>2 DEF Intern
    <3>2. /\ names \in Seq(Names) /\ Len(names) = Len(c.names) + 1
          /\ names[Len(c.names) + 1] = name
          /\ DOMAIN names = 1 .. Len(c.names) + 1
          /\ \A i \in DOMAIN c.names : names[i] = c.names[i]
      BY <1>1
    <3> HIDE DEF names, d, name
    <3>3. d \in Caches /\ d.slots = c.slots /\ d.names = names
      BY <3>1, <3>2 DEF Caches
    <3>4. Len(c.names) + 1 \in DOMAIN names /\ Len(c.names) + 1 < NamesMax
      BY <1>1, <2>2, <3>2
    <3>5. name \in Range(d.names)
      BY <3>2, <3>3, <3>4 DEF Range
    <3> QED
      BY <1>1, <3>2, <3>3, <3>4, <3>5 DEF Grown
  <2> QED
    BY <2>1, <2>2
<1> HIDE DEF d
<1>3. Len(d.names) \in Nat /\ DOMAIN d.names = 1 .. Len(d.names) /\ Len(d.names) < NamesMax
  BY <1>2, CacheParts DEF Grown
<1>4. Tells(d, x, f) /\ x \in 0 .. NamesMax
  <2>1. CASE name \in Range(d.names)
    <3> DEFINE i == CHOOSE k \in DOMAIN d.names : d.names[k] = name
    <3>1. \E k \in DOMAIN d.names : d.names[k] = name
      BY <2>1 DEF Range
    <3>2. i \in DOMAIN d.names /\ d.names[i] = name
      BY <3>1
    <3>3. x = i - 1
      BY <2>1 DEF PidxOf
    <3> HIDE DEF i
    <3>4. x \in 0 .. Len(d.names) - 1 /\ x + 1 = i
      BY <1>3, <3>2, <3>3
    <3>5. x \in 0 .. NamesMax
      BY <1>1, <1>3, <3>4
    <3> QED
      BY <3>2, <3>4, <3>5 DEF Tells
  <2>2. CASE name \notin Range(d.names)
    <3>1. x = NamesMax - 1 /\ Len(d.names) = NamesMax - 1
      BY <1>2, <2>2 DEF PidxOf
    <3> QED
      BY <1>1, <3>1 DEF Tells
  <2> QED
    BY <2>1, <2>2
<1> QED
  BY <1>2, <1>4 DEF d

\* A probe is a slot of the cache.
LEMMA ProbeTyped ==
  ASSUME NEW f \in Files, NEW n \in 0 .. Probes - 1
  PROVE  Probe(f, n) \in 0 .. CacheSlots - 1
<1>1. Home[f] \in 0 .. CacheSlots - 1 /\ CacheSlots \in Nat \ {0} /\ n \in Nat
  BY ProfilerAssumption
<1> DEFINE h == Home[f]
<1> HIDE DEF h
<1>2. (h + n) % CacheSlots \in 0 .. CacheSlots - 1
  BY <1>1 DEF h
<1> QED
  BY <1>2 DEF Probe, h

\* An entry put into the cache leaves it good.
LEMMA Inserted ==
  ASSUME NEW c, GoodCache(c), NEW f \in Files, NEW x \in 0 .. NamesMax, Tells(c, x, f)
  PROVE  GoodCache(Insert(c, f, x)) /\ Insert(c, f, x).names = c.names
<1> DEFINE free == {n \in 0 .. Probes - 1 : c.slots[Probe(f, n)] = Unused}
           n == IF free = {} THEN 0 ELSE Min(free)
           j == Probe(f, n)
           e == [file |-> f, pidx |-> x]
           d == Insert(c, f, x)
           I == 0 .. CacheSlots - 1
<1>1. /\ c \in Caches /\ Len(c.names) < NamesMax /\ Probes \in Nat \ {0}
      /\ c.slots \in [I -> [file : Files \union {<<>>}, pidx : 0 .. NamesMax]]
  <2>1. Probes \in 1 .. CacheSlots /\ CacheSlots \in Nat
    BY ProfilerAssumption
  <2>2. Probes \in Nat \ {0}
    BY <2>1
  <2> QED
    BY <2>2, CacheParts DEF GoodCache
<1>2. /\ n \in 0 .. Probes - 1 /\ \A k \in 0 .. n : k # n => c.slots[Probe(f, k)] # Unused
  <2>1. CASE free = {}
    <3>1. n = 0
      BY <2>1
    <3> HIDE DEF n
    <3> QED
      BY <1>1, <3>1
  <2>2. CASE free # {}
    <3>1. free \subseteq Nat /\ n = Min(free)
      BY <2>2
    <3>2. n \in free /\ \A k \in free : n <= k
      BY <2>2, <3>1, MinMember
    <3> HIDE DEF n
    <3>3. n \in 0 .. Probes - 1 /\ n \in Nat
      BY <3>2
    <3>4. \A k \in 0 .. n : k # n => k \in 0 .. Probes - 1 /\ ~(n <= k)
      BY <1>1, <3>3
    <3> QED
      BY <3>2, <3>3, <3>4
  <2> QED
    BY <2>1, <2>2
<1>3. d = [c EXCEPT !.slots = [c.slots EXCEPT ![j] = e]]
  BY <1>1 DEF Insert, Caches
<1> HIDE DEF n, free, d
<1>4. j \in I
  BY <1>2, ProbeTyped
<1>5. /\ e # Unused /\ e \in [file : Files \union {<<>>}, pidx : 0 .. NamesMax] /\ e.file = f
      /\ e.pidx = x
  <2>1. f # <<>>
    BY ProfilerAssumption
  <2> QED
    BY <2>1 DEF Unused
<1> HIDE DEF e, j
<1>6. /\ d \in Caches /\ d.names = c.names /\ d.slots[j] = e
      /\ \A i \in I : i # j => d.slots[i] = c.slots[i]
  BY <1>1, <1>3, <1>4, <1>5 DEF Caches
<1>7. \A g \in Files, k \in 0 .. Probes - 1 :
        c.slots[Probe(g, k)] # Unused => d.slots[Probe(g, k)] # Unused
  BY <1>5, <1>6, ProbeTyped
<1>8. ASSUME NEW i \in I, d.slots[i] # Unused
      PROVE  /\ d.slots[i].file \in Files
             /\ Tells(d, d.slots[i].pidx, d.slots[i].file)
             /\ Reached(d, i)
  <2>1. CASE i = j
    <3>1. d.slots[i].file = f /\ d.slots[i].pidx = x
      BY <1>5, <1>6, <2>1
    <3>2. Tells(d, x, f)
      BY <1>6 DEF Tells
    <3>3. \A k \in 0 .. n : d.slots[Probe(f, k)] # Unused
      <4> TAKE k \in 0 .. n
      <4>1. k \in 0 .. Probes - 1
        BY <1>1, <1>2
      <4>2. CASE k = n
        BY <1>5, <1>6, <4>2 DEF j
      <4>3. CASE k # n
        BY <1>2, <1>7, <4>1, <4>3
      <4> QED
        BY <4>2, <4>3
    <3>4. Probe(f, n) = i
      BY <2>1 DEF j
    <3>5. Reached(d, i)
      BY <1>2, <3>1, <3>3, <3>4 DEF Reached
    <3> QED
      BY <3>1, <3>2, <3>5
  <2>2. CASE i # j
    <3>1. d.slots[i] = c.slots[i] /\ c.slots[i] # Unused
      BY <1>6, <1>8, <2>2
    <3>2. /\ c.slots[i].file \in Files /\ Tells(c, c.slots[i].pidx, c.slots[i].file)
          /\ Reached(c, i)
      BY <3>1 DEF GoodCache
    <3>3. PICK m \in 0 .. Probes - 1 :
            /\ Probe(c.slots[i].file, m) = i
            /\ \A k \in 0 .. m : c.slots[Probe(c.slots[i].file, k)] # Unused
      BY <3>2 DEF Reached
    <3>4. \A k \in 0 .. m : k \in 0 .. Probes - 1
      BY <1>1, <3>3
    <3>5. \A k \in 0 .. m : d.slots[Probe(c.slots[i].file, k)] # Unused
      BY <1>7, <3>2, <3>3, <3>4
    <3>6. Reached(d, i)
      BY <3>1, <3>3, <3>5 DEF Reached
    <3>7. Tells(d, c.slots[i].pidx, c.slots[i].file)
      BY <1>6, <3>2 DEF Tells
    <3> QED
      BY <3>1, <3>2, <3>6, <3>7
  <2> QED
    BY <2>1, <2>2
<1> QED
  BY <1>1, <1>6, <1>8 DEF GoodCache, d

\* A lookup keeps the cache good and answers what the path says.
LEMMA Looking ==
  ASSUME GoodCache(cc), NEW f \in Files
  PROVE  /\ GoodCache(Looked(f)) /\ Grown(cc, Looked(f))
         /\ Tells(Looked(f), PidxFor(f), f)
<1> DEFINE name == Classify(f)
           c == IF name = Unclassified THEN cc ELSE Intern(cc, name)
           x == IF name = Unclassified THEN NonePidx ELSE PidxOf(c, name)
<1>1. cc \in Caches /\ Len(cc.names) < NamesMax /\ Len(cc.names) \in Nat
  BY CacheParts DEF GoodCache
<1>2. Grown(cc, cc)
  BY <1>1 DEF Grown
<1>3. CASE Find(cc, f) # {}
  <2>1. Looked(f) = cc /\ PidxFor(f) \in Find(cc, f)
    BY <1>3 DEF Looked, PidxFor
  <2>2. PICK n \in 0 .. Probes - 1 :
          /\ PidxFor(f) = cc.slots[Probe(f, n)].pidx /\ cc.slots[Probe(f, n)].file = f
          /\ \A k \in 0 .. n : cc.slots[Probe(f, k)] # Unused
    BY <2>1 DEF Find
  <2>3. n \in 0 .. n /\ Probe(f, n) \in 0 .. CacheSlots - 1
    BY ProbeTyped
  <2>4. Tells(cc, PidxFor(f), f)
    BY <2>2, <2>3 DEF GoodCache
  <2> QED
    BY <1>2, <2>1, <2>4
<1>4. CASE Find(cc, f) = {}
  <2>1. c \in Caches /\ c.slots = cc.slots /\ Grown(cc, c) /\ Tells(c, x, f) /\ x \in 0 .. NamesMax
    <3>1. CASE name = Unclassified
      BY <1>1, <1>2, <3>1, ProfilerAssumption DEF Tells, NonePidx
    <3>2. CASE name # Unclassified
      BY <1>1, <3>2, Interned
    <3> QED
      BY <3>1, <3>2
  <2>2. Looked(f) = Insert(c, f, x)
    BY <1>4 DEF Looked
  <2>3. PidxFor(f) = IF name = Unclassified THEN NonePidx ELSE PidxOf(Looked(f), name)
    BY <1>4 DEF PidxFor
  <2> HIDE DEF c
  <2>4. GoodCache(c)
    <3>1. ASSUME NEW i \in 0 .. CacheSlots - 1, c.slots[i] # Unused
          PROVE  /\ c.slots[i].file \in Files
                 /\ Tells(c, c.slots[i].pidx, c.slots[i].file)
                 /\ Reached(c, i)
      <4>1. /\ cc.slots[i].file \in Files /\ Tells(cc, cc.slots[i].pidx, cc.slots[i].file)
            /\ Reached(cc, i)
        BY <2>1, <3>1 DEF GoodCache
      <4>2. Reached(c, i)
        BY <2>1, <4>1 DEF Reached
      <4> QED
        BY <1>1, <2>1, <4>1, <4>2, TellsOn
    <3>2. Len(c.names) < NamesMax
      BY <2>1 DEF Grown
    <3> QED
      BY <2>1, <3>1, <3>2 DEF GoodCache
  <2>5. GoodCache(Insert(c, f, x)) /\ Insert(c, f, x).names = c.names
    <3> HIDE DEF x
    <3> QED
      BY <2>1, <2>4, Inserted
  <2>6. GoodCache(Looked(f)) /\ Looked(f).names = c.names
    BY <2>2, <2>5
  <2>7. Grown(cc, Looked(f))
    BY <2>1, <2>6 DEF Grown
  <2>8. PidxFor(f) = x
    <3>1. PidxOf(Looked(f), name) = PidxOf(c, name)
      BY <2>6 DEF PidxOf
    <3> QED
      BY <2>3, <3>1
  <2>9. Tells(Looked(f), x, f)
    BY <2>1, <2>6 DEF Tells
  <2> QED
    BY <2>6, <2>7, <2>8, <2>9
<1> QED
  BY <1>3, <1>4

\* A good cache can be trusted.
LEMMA CacheTrusted ==
  ASSUME NEW c, GoodCache(c), NEW i \in DOMAIN c.slots, c.slots[i] # Unused
  PROVE  /\ IF c.slots[i].pidx = NonePidx THEN Classify(c.slots[i].file) = Unclassified
            ELSE NameOf(c, c.slots[i].pidx) \in {Classify(c.slots[i].file), Other}
         /\ Find(c, c.slots[i].file) # {}
<1> DEFINE f == c.slots[i].file
           x == c.slots[i].pidx
<1>1. c \in Caches /\ Len(c.names) < NamesMax /\ i \in 0 .. CacheSlots - 1
  BY CacheParts DEF GoodCache
<1>2. f \in Files /\ Tells(c, x, f) /\ Reached(c, i)
  BY <1>1 DEF GoodCache
<1>3. IF x = NonePidx THEN Classify(f) = Unclassified ELSE NameOf(c, x) \in {Classify(f), Other}
  <2> HIDE DEF f, x
  <2> QED
    BY <1>1, <1>2, ToldName
<1>4. PICK n \in 0 .. Probes - 1 :
        Probe(f, n) = i /\ \A k \in 0 .. n : c.slots[Probe(f, k)] # Unused
  BY <1>2 DEF Reached
<1>5. c.slots[Probe(f, n)].pidx \in Find(c, f)
  BY <1>4 DEF Find
<1> QED
  BY <1>3, <1>5

-----------------------------------------------------------------------------
(* The end of a request.                                                   *)

\* Placing one component makes the sorted ones one more.
LEMMA PlacedTyped ==
  ASSUME NEW V, NEW s \in Seq(V), NEW c \in V
  PROVE  Placed(s, c) \in Seq(V) /\ Len(Placed(s, c)) = Len(s) + 1
<1> DEFINE n == Len(s)
           A == {i \in DOMAIN s : s[i].incl >= c.incl}
           k == 1 + Cardinality(A)
           a == SubSeq(s, 1, k - 1)
           b == SubSeq(s, k, n)
<1>1. n \in Nat /\ DOMAIN s = 1 .. n
  OBVIOUS
<1>2. IsFiniteSet(1 .. n) /\ Cardinality(1 .. n) = n
  BY <1>1, UpTo
<1>3. Cardinality(A) \in Nat /\ Cardinality(A) <= n
  BY <1>1, <1>2, FS_Subset, FS_CardinalityType
<1> HIDE DEF n, A
<1>4. k \in 1 .. n + 1
  BY <1>1, <1>3
<1> HIDE DEF k
<1>5. a \in Seq(V) /\ Len(a) = k - 1
  <2>1. \A i \in 1 .. k - 1 : s[i] \in V
    BY <1>1, <1>4
  <2>2. a = [i \in 1 .. k - 1 |-> s[i]]
    BY <1>4 DEF SubSeq
  <2> QED
    BY <1>1, <1>4, <2>1, <2>2
<1>6. b \in Seq(V) /\ Len(b) = n - k + 1
  <2> DEFINE m == n - k + 1
  <2>1. m \in Nat
    BY <1>1, <1>4
  <2>2. \A i \in 1 .. m : s[i + k - 1] \in V
    BY <1>1, <1>4
  <2>3. b = [i \in 1 .. m |-> s[k + i - 1]]
    BY <1>1, <1>4 DEF SubSeq
  <2>4. \A i \in 1 .. m : s[k + i - 1] \in V
    <3> TAKE i \in 1 .. m
    <3>1. k + i - 1 = i + k - 1
      BY <1>4
    <3> HIDE DEF m
    <3> QED
      BY <2>2, <3>1
  <2> HIDE DEF m, b
  <2>5. b \in Seq(V) /\ Len(b) = m
    BY <2>1, <2>3, <2>4
  <2> QED
    BY <2>5 DEF m
<1> HIDE DEF a, b
<1>7. <<c>> \in Seq(V) /\ Len(<<c>>) = 1
  OBVIOUS
<1>8. a \o <<c>> \in Seq(V) /\ Len(a \o <<c>>) = k
  BY <1>4, <1>5, <1>7
<1>9. (a \o <<c>>) \o b \in Seq(V) /\ Len((a \o <<c>>) \o b) = n + 1
  <2> DEFINE d == a \o <<c>>
  <2> HIDE DEF d
  <2>1. d \o b \in Seq(V) /\ Len(d \o b) = Len(d) + Len(b)
    BY <1>6, <1>8 DEF d
  <2>2. Len(d) + Len(b) = n + 1
    <3>1. Len(d) = k /\ Len(b) = n - k + 1
      BY <1>6, <1>8 DEF d
    <3>2. n \in Nat /\ k \in Nat
      BY <1>1, <1>4
    <3> QED
      BY <3>1, <3>2
  <2> QED
    BY <2>1, <2>2 DEF d
<1>10. Placed(s, c) = (a \o <<c>>) \o b
  BY DEF Placed, InsertAt, a, b, k, A, n
<1> QED
  BY <1>9, <1>10 DEF n

\* Sorting keeps the number of components and every property each of them has.
LEMMA Sorted ==
  ASSUME NEW V, NEW comps \in Seq(V)
  PROVE  SortComponents(comps) \in Seq(V) /\ Len(SortComponents(comps)) = Len(comps)
<1> DEFINE n == Len(comps)
           D == 1 .. n
           W == Seq(V)
           c == [u \in SUBSET D |-> Max(u)]
           f == [a \in W \X D |-> Placed(a[1], comps[a[2]])]
           Fold(h) == h = [u \in SUBSET D |-> IF u = {} THEN <<>>
                                              ELSE Placed(h[u \ {Max(u)}], comps[Max(u)])]
<1>1. /\ n \in Nat /\ DOMAIN comps = D /\ \A x \in D : comps[x] \in V
      /\ IsFiniteSet(D) /\ Cardinality(D) = n
  <2>1. n \in Nat /\ DOMAIN comps = D /\ \A x \in D : comps[x] \in V
    OBVIOUS
  <2> QED
    BY <2>1, UpTo
<1>2. \A u \in SUBSET D : u # {} =>
        /\ Max(u) \in u /\ Cardinality(u \ {Max(u)}) = Cardinality(u) - 1
        /\ u \ {Max(u)} \in SUBSET D /\ Cardinality(u) \in Nat
  <2> TAKE u \in SUBSET D
  <2> HAVE u # {}
  <2>0. D \subseteq Int
    BY <1>1
  <2>1. u \subseteq Int /\ IsFiniteSet(u)
    <3> HIDE DEF D
    <3> QED
      BY <1>1, <2>0, FS_Subset
  <2>2. Max(u) \in u
    BY <2>1, MaxMember
  <2> QED
    BY <2>1, <2>2, FS_RemoveElement, FS_CardinalityType
<1>3. \A s \in W, x \in D :
        /\ Placed(s, comps[x]) \in W /\ Len(Placed(s, comps[x])) = Len(s) + 1
        /\ f[<<s, x>>] = Placed(s, comps[x])
  <2> TAKE s \in W, x \in D
  <2>1. comps[x] \in V
    BY <1>1
  <2> QED
    BY <2>1, PlacedTyped
<1> HIDE DEF D, f
<1>4. \A u \in SUBSET D : u # {} => c[u] = Max(u) /\ c[u] \in u
  BY <1>2
<1> HIDE DEF c
<1>5. PICK g : Solves(g, D, W, <<>>, c, f)
  <2>1. <<>> \in W
    OBVIOUS
  <2> HIDE DEF W
  <2> QED
    BY <1>1, <1>3, <1>4, <2>1, SetRecursion
<1>6. g \in [SUBSET D -> W] /\ g[{}] = <<>>
  BY <1>5 DEF Solves
<1>7. \A u \in SUBSET D : u # {} => g[u] = Placed(g[u \ {Max(u)}], comps[Max(u)])
  <2> TAKE u \in SUBSET D
  <2> HAVE u # {}
  <2>1. g[u] = f[<<g[u \ {Max(u)}], Max(u)>>]
    BY <1>4, <1>5 DEF Solves
  <2>2. g[u \ {Max(u)}] \in W /\ Max(u) \in D
    BY <1>2, <1>6
  <2> QED
    BY <1>3, <2>1, <2>2
<1>8. Fold(g)
  BY <1>6, <1>7
<1> DEFINE h == CHOOSE x : Fold(x)
<1>9. Fold(h)
  <2> HIDE DEF Fold
  <2> QED
    BY <1>8
<1> HIDE DEF h
<1>10. h[{}] = <<>> /\ \A u \in SUBSET D : u # {} => h[u] = Placed(h[u \ {Max(u)}], comps[Max(u)])
  BY <1>9
<1>11. SortComponents(comps) = h[D]
  <2>1. DOMAIN comps = D
    BY <1>1
  <2> QED
    BY <2>1 DEF SortComponents, FoldLeft, MapThenFoldSet, Placed, h
<1>12. \A u \in SUBSET D : h[u] \in W /\ Len(h[u]) = Cardinality(u)
  <2> DEFINE Good(u) == h[u] \in W /\ Len(h[u]) = Cardinality(u)
             T == {u \in SUBSET D : ~Good(u)}
  <2>1. SUFFICES ASSUME T # {} PROVE FALSE
    OBVIOUS
  <2>2. T \subseteq FiniteSubsetsOf(D)
    BY <1>1, FS_Subset DEF FiniteSubsetsOf
  <2>3. PICK m \in T : \A u \in T : u \subseteq m => u = m
    <3> HIDE DEF T
    <3> QED
      BY <2>1, <2>2, LeastSet
  <2>4. CASE m = {}
    <3>1. Cardinality({}) = 0 /\ <<>> \in W /\ Len(<<>>) = 0
      BY FS_EmptySet
    <3> QED
      BY <1>10, <2>4, <3>1
  <2>5. CASE m # {}
    <3> DEFINE w == m \ {Max(m)}
    <3>1. m \in SUBSET D /\ w \in SUBSET D /\ w # m /\ w \subseteq m /\ Max(m) \in D
          /\ Cardinality(w) = Cardinality(m) - 1 /\ Cardinality(m) \in Nat
      BY <1>2, <2>5
    <3>2. Good(w)
      <4> HIDE DEF w, Good
      <4> QED
        BY <2>3, <3>1
    <3>3. h[m] = Placed(h[w], comps[Max(m)])
      BY <1>10, <2>5, <3>1
    <3> HIDE DEF w
    <3>4. h[m] \in W /\ Len(h[m]) = Len(h[w]) + 1
      BY <1>3, <3>1, <3>2, <3>3
    <3>5. Good(m)
      BY <3>1, <3>2, <3>4
    <3> QED
      BY <3>5
  <2> QED
    BY <2>4, <2>5
<1>13. D \in SUBSET D
  OBVIOUS
<1> QED
  BY <1>1, <1>11, <1>12, <1>13

\* A component is closed at the end of the request.
LEMMA CompFinished ==
  ASSUME NEW c \in Comps, NEW t \in Nat, Behind(c, t)
  PROVE  Concluded(c, FinalOf(c, t), t)
<1> DEFINE n == IF c.depth > 0 THEN c.incl + (t - c.enter) ELSE c.incl
           m == IF c.self > n THEN n ELSE c.self
           d == [c EXCEPT !.incl = n, !.depth = 0]
           e == FinalOf(c, t)
<1>1. /\ c.name \in Names /\ c.depth \in Nat /\ c.enter \in Nat /\ c.incl \in Nat
      /\ c.self \in Nat /\ c.wasOpen \in Nat /\ c.wasTop \in Nat
  BY CompParts
<1>2. n \in Nat /\ n <= t /\ n = InclOf(c, t)
  BY <1>1 DEF Behind, InclOf
<1>3. e = [d EXCEPT !.self = IF d.self > d.incl THEN d.incl ELSE d.self]
  BY DEF FinalOf
<1> HIDE DEF n, e
<1>4. /\ d \in Comps /\ d.depth = 0 /\ d.incl = n /\ d.enter = c.enter
      /\ d.name = c.name /\ d.self = c.self /\ d.wasOpen = c.wasOpen /\ d.wasTop = c.wasTop
  <2>1. 0 \in Nat
    OBVIOUS
  <2> QED
    BY <1>2, <2>1 DEF Comps
<1> HIDE DEF d
<1>5. m \in Nat
  BY <1>1, <1>2
<1>6. e = [d EXCEPT !.self = m]
  <2> DEFINE g == IF d.self > d.incl THEN d.incl ELSE d.self
  <2>1. e = [d EXCEPT !.self = g]
    BY <1>3
  <2>2. g = m
    BY <1>4
  <2> HIDE DEF g, m
  <2> QED
    BY <2>1, <2>2
<1> HIDE DEF m
<1>7. /\ e \in Comps /\ e.depth = 0 /\ e.incl = n /\ e.name = c.name /\ e.self = m
      /\ e.wasOpen = c.wasOpen /\ e.wasTop = c.wasTop
  BY <1>4, <1>5, <1>6 DEF Comps
<1> QED
  BY <1>2, <1>7 DEF m, e, Concluded

\* The end of the request keeps the ledger.
LEMMA FinishCloses ==
  ASSUME NEW p, NEW t \in Nat, NEW o, Ledger(p, t, o)
  PROVE  Over(p, Finished(p, t), t, o)
<1> DEFINE s == [p EXCEPT !.over = 0]
           r == PopTo(s, 0, t)
           close(c) == [c EXCEPT !.incl = IF c.depth > 0 THEN @ + (t - c.enter) ELSE @, !.depth = 0]
           guard(c) == [c EXCEPT !.self = IF @ > c.incl THEN c.incl ELSE @]
           closed == [i \in DOMAIN r.comps |-> guard(close(r.comps[i]))]
           comps == SortComponents(closed)
           q == Finished(p, t)
           V == Final(t, o, p.overflow)
<1> SUFFICES Over(p, q, t, o)
  OBVIOUS
<1>1. /\ Limits(p) /\ TimesOK(p, t) /\ p \in Profiles /\ p.on \in BOOLEAN
      /\ Len(p.stack) \in Nat /\ Len(p.comps) \in Nat /\ DOMAIN p.comps = 1 .. Len(p.comps)
  BY ProfileParts DEF Ledger
<1>2. CASE ~p.on
  <2>1. q = [p EXCEPT !.live = FALSE]
    BY <1>2 DEF Finished
  <2> HIDE DEF q
  <2>2. /\ q \in Profiles /\ q.comps = p.comps /\ q.stack = p.stack /\ ~q.live
        /\ q.given = p.given /\ q.on = p.on /\ q.pending = p.pending /\ q.map = p.map
        /\ q.busy = p.busy /\ q.over = p.over /\ q.overflow = p.overflow
    BY <1>1, <2>1 DEF Profiles
  <2>3. Limits(q) /\ TimesOK(q, t)
    BY <1>1, <2>2 DEF Limits, TimesOK
  <2> QED
    BY <1>2, <2>2, <2>3 DEF Over, Ledger
<1>3. CASE p.on
  <2>1. /\ s \in Profiles /\ s.comps = p.comps /\ s.stack = p.stack /\ s.live = p.live
        /\ s.given = p.given /\ s.on = p.on /\ s.pending = p.pending /\ s.map = p.map
        /\ s.busy = p.busy /\ s.over = 0 /\ s.overflow = p.overflow
    BY <1>1 DEF Profiles
  <2>2. q = [r EXCEPT !.live = FALSE, !.comps = comps]
    BY <1>3 DEF Finished
  <2> HIDE DEF s, q
  <2>3. Limits(s) /\ TimesOK(s, t)
    <3>1. Limits(s)
      BY <1>1, <2>1 DEF Limits
    <3>2. TimesOK(s, t)
      BY <1>1, <2>1 DEF TimesOK
    <3> QED
      BY <3>1, <3>2
  <2>4. Closed(s, r, t) /\ Len(r.stack) = 0
    <3>1. 0 \in Nat /\ 0 <= Len(s.stack)
      BY <1>1, <2>1
    <3> QED
      BY <2>1, <2>3, <3>1, PopToCloses
  <2> HIDE DEF r
  <2>5. /\ Limits(r) /\ TimesOK(r, t) /\ r \in Profiles /\ r.stack = <<>>
        /\ r.given = p.given /\ r.on = p.on /\ r.pending = p.pending /\ r.map = p.map
        /\ r.over = 0 /\ r.overflow = p.overflow /\ Len(r.comps) = Len(p.comps)
        /\ DOMAIN r.comps = 1 .. Len(p.comps)
        /\ \A c \in DOMAIN p.comps :
             /\ r.comps[c] \in Comps /\ Behind(r.comps[c], t)
             /\ r.comps[c].wasOpen = p.comps[c].wasOpen /\ r.comps[c].wasTop = p.comps[c].wasTop
             /\ InclOf(r.comps[c], t) = InclOf(p.comps[c], t)
             /\ Own(r, c, t) = Own(p, c, t)
    <3>1. Limits(r) /\ TimesOK(r, t)
      BY <2>4 DEF Closed, Unwound
    <3>2. r.stack = <<>>
      BY <2>4, <3>1, ProfileParts
    <3>3. /\ r \in Profiles /\ DOMAIN r.comps = 1 .. Len(r.comps)
          /\ \A c \in DOMAIN r.comps : r.comps[c] \in Comps
      BY <3>1, ProfileParts
    <3>4. \A c : Own(s, c, t) = Own(p, c, t)
      BY <2>1 DEF Own, OpenSelf
    <3> QED
      BY <1>1, <2>1, <2>4, <3>1, <3>2, <3>3, <3>4 DEF Closed, Unwound, TimesOK
  <2>6. \A u, k : u.stack = <<>> => OpenSelf(u, k, t) = 0
    <3> TAKE u, k
    <3> HAVE u.stack = <<>>
    <3> DEFINE f == [i \in DOMAIN u.stack |->
                       (IF i = Len(u.stack) THEN t ELSE u.stack[i + 1].start) - u.stack[i].start
                         - u.stack[i].child]
    <3>1. {i \in DOMAIN u.stack : u.stack[i].comp = k} = {}
      OBVIOUS
    <3>2. OpenSelf(u, k, t) = SumFunctionOnSet(f, {})
      BY <3>1 DEF OpenSelf
    <3> HIDE DEF f
    <3> QED
      BY <3>2, SumEmpty
  <2>7. \A c \in DOMAIN p.comps : guard(close(r.comps[c])) \in V
    <3> TAKE c \in DOMAIN p.comps
    <3> DEFINE a == r.comps[c]
               e == guard(close(a))
    <3>1. /\ a \in Comps /\ Behind(a, t) /\ a.wasOpen = p.comps[c].wasOpen
          /\ a.wasTop = p.comps[c].wasTop /\ InclOf(a, t) = InclOf(p.comps[c], t)
      BY <2>5
    <3>2. a.self = Own(p, c, t)
      <4>1. Own(r, c, t) = Own(p, c, t) /\ OpenSelf(r, c, t) = 0 /\ a.self \in Nat
        BY <2>5, <2>6, <3>1, CompParts
      <4> QED
        BY <4>1 DEF Own
    <3>8. e = FinalOf(a, t)
      BY DEF FinalOf
    <3> HIDE DEF a, e
    <3>3. /\ e \in Comps /\ e.depth = 0 /\ e.incl = InclOf(a, t) /\ e.incl <= t
          /\ e.self = (IF a.self > e.incl THEN e.incl ELSE a.self)
          /\ e.wasOpen = a.wasOpen /\ e.wasTop = a.wasTop
      BY <3>1, <3>8, CompFinished DEF Concluded
    <3>4. /\ a.self \in Nat /\ e.incl \in Nat /\ e.self \in Nat /\ e.wasOpen \in Nat
          /\ e.wasTop \in Nat
      BY <3>1, <3>3, CompParts
    <3>5. e.self <= e.incl
      BY <3>3, <3>4
    <3>6. ASSUME o = 0
          PROVE  /\ e.incl = e.wasOpen /\ e.wasTop <= e.wasOpen
                 /\ ~p.overflow => e.self = e.wasTop
      <4>1. /\ InclOf(p.comps[c], t) = p.comps[c].wasOpen /\ p.comps[c].wasTop <= p.comps[c].wasOpen
            /\ ~p.overflow => Own(p, c, t) = p.comps[c].wasTop
        BY <1>3, <3>6 DEF Ledger, Accounts
      <4>2. e.incl = e.wasOpen /\ e.wasTop <= e.wasOpen
        BY <3>1, <3>3, <4>1
      <4>3. ~p.overflow => a.self = e.wasTop
        BY <3>1, <3>2, <3>3, <4>1
      <4> QED
        BY <3>3, <3>4, <4>2, <4>3
    <3>7. e \in V
      BY <3>3, <3>5, <3>6 DEF Final
    <3> QED
      BY <3>7 DEF e, a
  <2>8. closed \in Seq(V) /\ Len(closed) = Len(p.comps)
    <3>1. DOMAIN r.comps = 1 .. Len(p.comps) /\ DOMAIN p.comps = 1 .. Len(p.comps)
      BY <1>1, <2>5
    <3>2. \A i \in 1 .. Len(p.comps) : closed[i] \in V
      BY <2>7, <3>1
    <3>3. closed \in [1 .. Len(p.comps) -> V]
      BY <3>1, <3>2
    <3> HIDE DEF closed, V
    <3> QED
      BY <1>1, <3>3
  <2> HIDE DEF closed
  <2>9. comps \in Seq(V) /\ Len(comps) = Len(p.comps)
    BY <2>8, Sorted
  <2> HIDE DEF comps
  <2>10. /\ comps \in Seq(Comps) /\ DOMAIN comps = 1 .. Len(p.comps)
         /\ \A c \in DOMAIN comps : comps[c] \in V
    <3>1. V \subseteq Comps
      BY DEF Final
    <3>2. DOMAIN comps = 1 .. Len(comps) /\ \A c \in DOMAIN comps : comps[c] \in V
      BY <2>9
    <3>3. comps \in Seq(Comps)
      <4> HIDE DEF V
      <4> QED
        BY <2>9, <3>1
    <3> QED
      BY <2>9, <3>2, <3>3
  <2>11. /\ q \in Profiles /\ q.comps = comps /\ q.stack = <<>> /\ ~q.live
         /\ q.given = p.given /\ q.on = p.on /\ q.pending = p.pending /\ q.map = p.map
         /\ q.over = 0 /\ q.overflow = p.overflow
    BY <2>2, <2>5, <2>10 DEF Profiles
  <2>12. \A c \in DOMAIN comps :
           /\ comps[c].depth = 0 /\ comps[c].incl <= t /\ comps[c].self <= comps[c].incl
           /\ o = 0 => /\ comps[c].incl = comps[c].wasOpen /\ comps[c].wasTop <= comps[c].wasOpen
                       /\ ~p.overflow => comps[c].self = comps[c].wasTop
           /\ comps[c] \in Comps
    BY <2>10 DEF Final
  <2>13. Limits(q)
    <3>1. Len(q.comps) = Len(r.comps) /\ Len(q.stack) = 0 /\ DOMAIN q.stack = {} /\ StackMax \in Nat
      BY <2>5, <2>9, <2>11, ProfilerAssumption
    <3> QED
      BY <2>5, <2>11, <3>1 DEF Limits
  <2>14. TimesOK(q, t)
    <3>1. DOMAIN q.stack = {}
      BY <2>11
    <3>2. \A c \in DOMAIN q.comps : Behind(q.comps[c], t)
      BY <2>11, <2>12 DEF Behind
    <3> QED
      BY <3>1, <3>2 DEF TimesOK
  <2>15. Accounts(q, t, o)
    <3>1. ASSUME NEW c \in DOMAIN comps
          PROVE  Own(q, c, t) = comps[c].self /\ InclOf(comps[c], t) = comps[c].incl
      <4>1. OpenSelf(q, c, t) = 0 /\ comps[c].self \in Nat /\ comps[c].incl \in Nat
        BY <2>6, <2>11, <2>12, CompParts
      <4> QED
        BY <2>11, <2>12, <3>1, <4>1 DEF Own, InclOf
    <3> QED
      BY <2>11, <2>12, <3>1 DEF Accounts
  <2> QED
    BY <1>3, <2>9, <2>11, <2>12, <2>13, <2>14, <2>15 DEF Over, Ledger
<1> QED
  BY <1>1, <1>2, <1>3

-----------------------------------------------------------------------------
(* Time passes.                                                            *)

\* The own time of a component grows only on top of the stack.
LEMMA TickOwn ==
  ASSUME NEW p, Limits(p), NEW t \in Nat, NEW c \in DOMAIN p.comps
  PROVE  OpenSelf(p, c, t + 1) = OpenSelf(p, c, t) + (IF c = TopOf(p) THEN 1 ELSE 0)
<1> DEFINE n == Len(p.stack)
           f == Stretch(p, t)
           g == Stretch(p, t + 1)
           S == Of(p, c)
<1>1. /\ n \in Nat /\ DOMAIN p.stack = 1 .. n /\ DOMAIN p.comps = 1 .. Len(p.comps) /\ c # 0
      /\ \A i \in DOMAIN p.stack : p.stack[i].start \in Nat /\ p.stack[i].child \in Nat
  BY ProfileParts
<1>2. t + 1 \in Nat
  OBVIOUS
<1>3. /\ \A i \in DOMAIN p.stack : f[i] \in Int
      /\ IsFiniteSet(S) /\ S \subseteq DOMAIN p.stack
      /\ OpenSelf(p, c, t) = SumFunctionOnSet(f, S) /\ OpenSelf(p, c, t) \in Int
  BY StretchTyped
<1>4. OpenSelf(p, c, t + 1) = SumFunctionOnSet(g, S)
  BY <1>2, StretchTyped
<1>5. \A i \in DOMAIN p.stack : i # n => g[i] = f[i]
  BY DEF Stretch
<1>6. n \in DOMAIN p.stack => g[n] = f[n] + 1
  <2> SUFFICES ASSUME n \in DOMAIN p.stack PROVE g[n] = f[n] + 1
    OBVIOUS
  <2> DEFINE a == p.stack[n].start
             b == p.stack[n].child
  <2>1. a \in Nat /\ b \in Nat
    BY <1>1
  <2>2. f[n] = t - a - b /\ g[n] = (t + 1) - a - b
    BY DEF Stretch
  <2> HIDE DEF a, b, f, g
  <2> QED
    BY <2>1, <2>2
<1> HIDE DEF f, g
<1>7. CASE n \in DOMAIN p.stack /\ p.stack[n].comp = c
  <2>1. n \in S /\ TopOf(p) = c
    BY <1>1, <1>7 DEF Of, TopOf
  <2>2. /\ \A x \in S : f[x] \in Int
        /\ \A x \in S \ {n} : g[x] = f[x]
    BY <1>3, <1>5
  <2>3. g[n] = f[n] + 1
    BY <1>6, <1>7
  <2> HIDE DEF S
  <2>4. SumFunctionOnSet(g, S) = SumFunctionOnSet(f, S) + 1
    BY <1>3, <2>1, <2>2, <2>3, SumChanged
  <2> QED
    BY <1>3, <1>4, <2>1, <2>4
<1>8. CASE ~(n \in DOMAIN p.stack /\ p.stack[n].comp = c)
  <2>1. n \notin S /\ TopOf(p) # c
    <3>1. p.stack = <<>> \/ n \in DOMAIN p.stack
      BY <1>1, ProfileParts
    <3> QED
      BY <1>1, <1>8, <3>1 DEF Of, TopOf
  <2>2. \A x \in S : f[x] \in Int /\ g[x] = f[x]
    BY <1>3, <1>5, <2>1
  <2> HIDE DEF S
  <2>3. SumFunctionOnSet(f, S) = SumFunctionOnSet(g, S)
    BY <1>3, <2>2, SumSame
  <2> QED
    BY <1>3, <1>4, <2>1, <2>3
<1> QED
  BY <1>7, <1>8

\* What a tick changes in a profile.
LEMMA TickParts ==
  ASSUME NEW p, Limits(p), NEW s, NEW u
  PROVE  LET q == Ticked(p, s, u)
         IN /\ q \in Profiles /\ SameButUse(p, q)
            /\ q.busy = (IF p.stack = <<>> THEN p.busy ELSE p.busy + 1)
            /\ \A c \in DOMAIN p.comps :
                 /\ q.comps[c].wasOpen = p.comps[c].wasOpen + (IF c \in s THEN 1 ELSE 0)
                 /\ q.comps[c].wasTop = p.comps[c].wasTop + (IF c = u THEN 1 ELSE 0)
<1> DEFINE used(c) == [p.comps[c] EXCEPT !.wasOpen = IF c \in s THEN @ + 1 ELSE @,
                                         !.wasTop = IF c = u THEN @ + 1 ELSE @]
           comps == [c \in DOMAIN p.comps |-> used(c)]
           busy == IF p.stack = <<>> THEN p.busy ELSE p.busy + 1
           q == Ticked(p, s, u)
<1>1. /\ p \in Profiles /\ p.busy \in Nat /\ Len(p.comps) \in Nat
      /\ DOMAIN p.comps = 1 .. Len(p.comps) /\ p.comps \in Seq(Comps)
      /\ \A c \in DOMAIN p.comps : p.comps[c] \in Comps
  BY ProfileParts
<1>2. \A c \in DOMAIN p.comps :
        /\ used(c) \in Comps
        /\ used(c).name = p.comps[c].name /\ used(c).depth = p.comps[c].depth
        /\ used(c).enter = p.comps[c].enter
        /\ used(c).self = p.comps[c].self /\ used(c).incl = p.comps[c].incl
        /\ used(c).wasOpen = p.comps[c].wasOpen + (IF c \in s THEN 1 ELSE 0)
        /\ used(c).wasTop = p.comps[c].wasTop + (IF c = u THEN 1 ELSE 0)
  <2> TAKE c \in DOMAIN p.comps
  <2> DEFINE a == p.comps[c]
             m == IF c \in s THEN a.wasOpen + 1 ELSE a.wasOpen
             n == IF c = u THEN a.wasTop + 1 ELSE a.wasTop
  <2>1. a \in Comps /\ a.wasOpen \in Nat /\ a.wasTop \in Nat
    BY <1>1, CompParts
  <2>2. /\ m \in Nat /\ m = a.wasOpen + (IF c \in s THEN 1 ELSE 0)
        /\ n \in Nat /\ n = a.wasTop + (IF c = u THEN 1 ELSE 0)
    BY <2>1
  <2>3. used(c) = [a EXCEPT !.wasOpen = m, !.wasTop = n]
    OBVIOUS
  <2> HIDE DEF a, m, n, used
  <2>4. /\ used(c) \in Comps
        /\ used(c).name = a.name /\ used(c).depth = a.depth /\ used(c).enter = a.enter
        /\ used(c).self = a.self /\ used(c).incl = a.incl
        /\ used(c).wasOpen = m /\ used(c).wasTop = n
    BY <2>1, <2>2, <2>3 DEF Comps
  <2> QED
    BY <2>2, <2>4 DEF a
<1>3. q = [p EXCEPT !.busy = busy, !.comps = comps]
  BY DEF Ticked
<1> HIDE DEF used
<1>4. comps \in Seq(Comps) /\ Len(comps) = Len(p.comps) /\ DOMAIN comps = DOMAIN p.comps
  <2>1. comps \in [1 .. Len(p.comps) -> Comps]
    BY <1>1, <1>2
  <2> HIDE DEF comps
  <2> QED
    BY <1>1, <2>1
<1>5. \A c \in DOMAIN p.comps : comps[c] = used(c)
  OBVIOUS
<1>6. busy \in Nat
  BY <1>1
<1> HIDE DEF comps, q, busy
<1>7. /\ q \in Profiles /\ q.comps = comps /\ q.stack = p.stack /\ q.live = p.live
      /\ q.given = p.given /\ q.on = p.on /\ q.pending = p.pending /\ q.map = p.map
      /\ q.busy = busy /\ q.over = p.over /\ q.overflow = p.overflow
  BY <1>1, <1>3, <1>4, <1>6 DEF Profiles
<1> QED
  BY <1>2, <1>4, <1>5, <1>7 DEF SameButUse, q, busy

\* A tick keeps the ledger.
LEMMA TickLedger ==
  ASSUME NEW p, NEW t \in Nat, NEW o, Ledger(p, t, o), NEW s, NEW u,
         p.stack # <<>> => p.live,
         o = 0 /\ (p.on \/ p.live) =>
           /\ \A c \in DOMAIN p.comps : p.comps[c].depth > 0 <=> c \in s
           /\ u = 0 \/ u \in s
           /\ ~p.overflow => u = TopOf(p)
  PROVE  Ledger(Ticked(p, s, u), t + 1, o)
<1> DEFINE q == Ticked(p, s, u)
<1>1. Limits(p) /\ TimesOK(p, t)
  BY DEF Ledger
<1>2. /\ q \in Profiles /\ SameButUse(p, q)
      /\ q.busy = (IF p.stack = <<>> THEN p.busy ELSE p.busy + 1)
      /\ \A c \in DOMAIN p.comps :
           /\ q.comps[c].wasOpen = p.comps[c].wasOpen + (IF c \in s THEN 1 ELSE 0)
           /\ q.comps[c].wasTop = p.comps[c].wasTop + (IF c = u THEN 1 ELSE 0)
  BY <1>1, TickParts
<1> HIDE DEF q
<1>3. /\ p.comps \in Seq(Comps) /\ p.busy \in Nat /\ Len(p.comps) \in Nat
      /\ DOMAIN p.comps = 1 .. Len(p.comps) /\ Len(p.stack) \in Nat
      /\ DOMAIN p.stack = 1 .. Len(p.stack)
      /\ \A c \in DOMAIN p.comps :
           /\ p.comps[c].depth \in Nat /\ p.comps[c].enter \in Nat /\ p.comps[c].incl \in Nat
           /\ p.comps[c].self \in Nat /\ p.comps[c].wasOpen \in Nat /\ p.comps[c].wasTop \in Nat
      /\ \A i \in DOMAIN p.stack :
           /\ p.stack[i].start \in Nat /\ p.stack[i].child \in Nat
           /\ p.stack[i].comp \in DOMAIN p.comps
  BY <1>1, ProfileParts, CompParts
<1>4. Limits(q)
  BY <1>1, <1>2 DEF Limits, SameButUse
<1>5. TimesOK(q, t + 1)
  <2>1. \A c \in DOMAIN q.comps : Behind(q.comps[c], t + 1)
    <3> TAKE c \in DOMAIN q.comps
    <3>1. Behind(p.comps[c], t)
      BY <1>1, <1>2 DEF TimesOK, SameButUse
    <3> QED
      BY <1>2, <1>3, <3>1 DEF Behind, SameButUse
  <2>2. \A i \in DOMAIN p.stack :
          p.stack[i].start + p.stack[i].child
            <= IF i = Len(p.stack) THEN t + 1 ELSE p.stack[i + 1].start
    BY <1>1, <1>3 DEF TimesOK
  <2> QED
    BY <1>2, <2>1, <2>2 DEF TimesOK, SameButUse
<1>6. \A c \in DOMAIN p.comps :
        /\ Own(q, c, t + 1) = Own(p, c, t) + (IF c = TopOf(p) THEN 1 ELSE 0)
        /\ Own(p, c, t) \in Int
  <2> TAKE c \in DOMAIN p.comps
  <2>1. OpenSelf(q, c, t + 1) = OpenSelf(p, c, t + 1)
    BY <1>2 DEF OpenSelf, SameButUse
  <2>2. OpenSelf(p, c, t + 1) = OpenSelf(p, c, t) + (IF c = TopOf(p) THEN 1 ELSE 0)
    BY <1>1, TickOwn
  <2>3. OpenSelf(p, c, t) \in Int /\ p.comps[c].self \in Nat /\ q.comps[c].self = p.comps[c].self
    BY <1>1, <1>2, <1>3, StretchTyped DEF SameButUse
  <2> QED
    BY <2>1, <2>2, <2>3 DEF Own
<1>7. ASSUME p.live, ~p.overflow, Accounts(p, t, o)
      PROVE  SumFunction([c \in DOMAIN q.comps |-> Own(q, c, t + 1)]) = q.busy
  <2> DEFINE f == [c \in DOMAIN p.comps |-> Own(p, c, t)]
             g == [c \in DOMAIN q.comps |-> Own(q, c, t + 1)]
             S == DOMAIN p.comps
             m == TopOf(p)
  <2>1. IsFiniteSet(S) /\ DOMAIN f = S /\ DOMAIN g = S /\ \A c \in S : f[c] \in Int
    BY <1>2, <1>3, <1>6, UpTo DEF SameButUse
  <2>2. \A c \in S : g[c] = f[c] + (IF c = m THEN 1 ELSE 0)
    BY <1>2, <1>6 DEF SameButUse
  <2>3. SumFunction(f) = p.busy
    BY <1>7 DEF Accounts
  <2>4. SumFunctionOnSet(f, S) = p.busy /\ SumFunction(g) = SumFunctionOnSet(g, S)
    BY <2>1, <2>3 DEF SumFunction, SumFunctionOnSet
  <2> HIDE DEF f, g
  <2>5. CASE p.stack = <<>>
    <3>1. m \notin S
      BY <1>3, <2>5 DEF TopOf
    <3> HIDE DEF S, m
    <3>2. \A c \in S : f[c] \in Int /\ g[c] = f[c]
      BY <2>1, <2>2, <3>1
    <3>3. SumFunctionOnSet(f, S) = SumFunctionOnSet(g, S)
      BY <2>1, <3>2, SumSame
    <3> QED
      BY <1>2, <2>4, <2>5, <3>3 DEF g
  <2>6. CASE p.stack # <<>>
    <3>1. Len(p.stack) \in DOMAIN p.stack
      BY <1>1, <1>3, <2>6, ProfileParts
    <3>2. m \in S
      BY <1>3, <2>6, <3>1 DEF TopOf
    <3> HIDE DEF S, m
    <3>3. (\A c \in S \ {m} : g[c] = f[c]) /\ g[m] = f[m] + 1
      BY <2>1, <2>2, <3>2
    <3>4. SumFunctionOnSet(g, S) = SumFunctionOnSet(f, S) + 1
      BY <2>1, <3>2, <3>3, SumChanged
    <3> QED
      BY <1>2, <2>4, <2>6, <3>4 DEF g
  <2> QED
    BY <2>5, <2>6
<1>8. ASSUME p.on \/ p.live, Accounts(p, t, o), o = 0, NEW c \in DOMAIN p.comps
      PROVE  /\ InclOf(q.comps[c], t + 1) = q.comps[c].wasOpen
             /\ q.comps[c].wasTop <= q.comps[c].wasOpen
             /\ ~q.overflow => Own(q, c, t + 1) = q.comps[c].wasTop
  <2>1. /\ InclOf(p.comps[c], t) = p.comps[c].wasOpen /\ p.comps[c].wasTop <= p.comps[c].wasOpen
        /\ ~p.overflow => Own(p, c, t) = p.comps[c].wasTop
    BY <1>8 DEF Accounts
  <2>2. /\ p.comps[c].depth > 0 <=> c \in s
        /\ u = 0 \/ u \in s
        /\ ~p.overflow => u = TopOf(p)
    BY <1>8
  <2>3. c # 0
    BY <1>3
  <2>4. /\ q.comps[c].wasOpen = p.comps[c].wasOpen + (IF c \in s THEN 1 ELSE 0)
        /\ q.comps[c].wasTop = p.comps[c].wasTop + (IF c = u THEN 1 ELSE 0)
        /\ q.comps[c].depth = p.comps[c].depth /\ q.comps[c].enter = p.comps[c].enter
        /\ q.comps[c].incl = p.comps[c].incl
    BY <1>2 DEF SameButUse
  <2>5. InclOf(q.comps[c], t + 1) = q.comps[c].wasOpen
    <3>1. InclOf(q.comps[c], t + 1)
            = InclOf(p.comps[c], t) + (IF p.comps[c].depth > 0 THEN 1 ELSE 0)
      <4> DEFINE a == p.comps[c]
                 b == q.comps[c]
      <4>1. a.depth \in Nat /\ a.enter \in Nat /\ a.incl \in Nat
        BY <1>3
      <4>2. b.depth = a.depth /\ b.enter = a.enter /\ b.incl = a.incl
        BY <2>4
      <4> HIDE DEF a, b
      <4>3. InclOf(b, t + 1) = InclOf(a, t) + (IF a.depth > 0 THEN 1 ELSE 0)
        BY <4>1, <4>2 DEF InclOf
      <4> QED
        BY <4>3 DEF a, b
    <3> QED
      BY <2>1, <2>2, <2>4, <3>1
  <2>6. q.comps[c].wasTop <= q.comps[c].wasOpen
    BY <1>3, <2>1, <2>2, <2>3, <2>4
  <2>7. ~q.overflow => Own(q, c, t + 1) = q.comps[c].wasTop
    BY <1>2, <1>6, <2>1, <2>2, <2>4 DEF SameButUse
  <2> QED
    BY <2>5, <2>6, <2>7
<1>9. Accounts(p, t, o) /\ (p.on \/ p.live) => Accounts(q, t + 1, o)
  BY <1>2, <1>7, <1>8 DEF Accounts, SameButUse
<1>10. DepthsOK(p) => DepthsOK(q)
  <2>1. \A c : Of(q, c) = Of(p, c)
    BY <1>2 DEF Of, SameButUse
  <2> QED
    BY <1>2, <2>1 DEF DepthsOK, SameButUse
<1>11. Ledger(q, t + 1, o)
  BY <1>2, <1>4, <1>5, <1>9, <1>10 DEF Ledger, SameButUse
<1> QED
  BY <1>11 DEF q

-----------------------------------------------------------------------------
(* The steps of the engine.                                                *)

\* What the engine's part of the invariant says about the frames.
LEMMA EngineParts ==
  ASSUME EngineOK
  PROVE  /\ frames \in [Fibers -> Seq(Frames)] /\ running \in Fibers
         /\ frames[running] \in Seq(Frames)
         /\ frames["main"] \in Seq(Frames) /\ frames["fiber"] \in Seq(Frames)
         /\ now \in Nat /\ odd \in Nat /\ calls \in 0 .. MaxCalls
         /\ handlers \in [Files -> {"unset", "none", "both"}] /\ slot \in [Files -> 0 .. CompMax]
<1>1. "main" \in Fibers /\ "fiber" \in Fibers
  BY DEF Fibers
<1>2. frames \in [Fibers -> Seq(Frames)] /\ running \in Fibers
  BY DEF EngineOK
<1> QED
  BY <1>1, <1>2 DEF EngineOK

\* The innermost frame of the running fiber is gone.
LEMMA FramePopped ==
  ASSUME EngineOK, frames[running] # <<>>, frames' = [frames EXCEPT ![running] = Front(@)]
  PROVE  /\ frames' \in [Fibers -> Seq(Frames)]
         /\ Len(frames'["main"]) + Len(frames'["fiber"]) <= calls
         /\ \A b \in Fibers : \A i \in DOMAIN frames'[b] :
              i \in DOMAIN frames[b] /\ frames'[b][i] = frames[b][i]
         /\ Last(frames[running]) \in Frames
         /\ frames[running] = Append(Front(frames[running]), Last(frames[running]))
<1> DEFINE fs == frames[running]
           gs == Front(fs)
<1>1. frames \in [Fibers -> Seq(Frames)] /\ running \in Fibers /\ fs \in Seq(Frames) /\ fs # <<>>
  BY EngineParts
<1>2. /\ gs \in Seq(Frames) /\ Last(fs) \in Frames /\ Len(gs) = Len(fs) - 1
      /\ fs = Append(gs, Last(fs)) /\ \A i \in DOMAIN gs : gs[i] = fs[i]
  BY <1>1, FramesFront
<1>3. frames' = [frames EXCEPT ![running] = gs]
  OBVIOUS
<1> HIDE DEF gs
<1>4. /\ frames' \in [Fibers -> Seq(Frames)] /\ frames'[running] = gs
      /\ \A b \in Fibers : b # running => frames'[b] = frames[b]
  BY <1>1, <1>2, <1>3
<1>5. Len(fs) \in Nat /\ DOMAIN fs = 1 .. Len(fs) /\ DOMAIN gs = 1 .. Len(gs)
  BY <1>1, <1>2
<1>6. DOMAIN gs \subseteq DOMAIN fs
  <2> HIDE DEF fs
  <2> QED
    BY <1>2, <1>5
<1>7. \A b \in Fibers : \A i \in DOMAIN frames'[b] :
        i \in DOMAIN frames[b] /\ frames'[b][i] = frames[b][i]
  BY <1>2, <1>4, <1>6
<1>8. Len(frames'["main"]) + Len(frames'["fiber"]) <= calls
  <2>1. /\ Len(frames["main"]) \in Nat /\ Len(frames["fiber"]) \in Nat /\ calls \in Nat
        /\ Len(frames["main"]) + Len(frames["fiber"]) <= calls
    <3>1. /\ frames["main"] \in Seq(Frames) /\ frames["fiber"] \in Seq(Frames)
          /\ calls \in 0 .. MaxCalls
      BY EngineParts
    <3>2. Len(frames["main"]) \in Nat /\ Len(frames["fiber"]) \in Nat
      BY <3>1
    <3>3. calls \in Nat
      BY <3>1, ProfilerAssumption
    <3>4. Len(frames["main"]) + Len(frames["fiber"]) <= calls
      BY DEF EngineOK
    <3> QED
      BY <3>2, <3>3, <3>4
  <2> DEFINE m == Len(frames["main"])
             k == Len(frames["fiber"])
             g == Len(gs)
  <2>2. running = "main" \/ running = "fiber"
    BY <1>1 DEF Fibers
  <2>3. CASE running = "main"
    <3>1. frames'["main"] = gs /\ frames'["fiber"] = frames["fiber"] /\ fs = frames["main"]
      BY <1>4, <2>3 DEF Fibers
    <3> HIDE DEF fs
    <3>2. g = m - 1
      BY <1>2, <3>1
    <3>3. m \in Nat /\ k \in Nat /\ calls \in Nat /\ m + k <= calls
      BY <2>1
    <3> HIDE DEF m, k, g
    <3>4. g + k <= calls
      BY <3>2, <3>3
    <3> QED
      BY <3>1, <3>4 DEF g, k
  <2>4. CASE running = "fiber"
    <3>1. frames'["fiber"] = gs /\ frames'["main"] = frames["main"] /\ fs = frames["fiber"]
      BY <1>4, <2>4 DEF Fibers
    <3> HIDE DEF fs
    <3>2. g = k - 1
      BY <1>2, <3>1
    <3>3. m \in Nat /\ k \in Nat /\ calls \in Nat /\ m + k <= calls
      BY <2>1
    <3> HIDE DEF m, k, g
    <3>4. m + g <= calls
      BY <3>2, <3>3
    <3> QED
      BY <3>1, <3>4 DEF g, m
  <2> QED
    BY <2>2, <2>3, <2>4
<1> QED
  BY <1>2, <1>4, <1>7, <1>8 DEF gs

\* The table and the names do not depend on the times.
LEMMA TableSame ==
  ASSUME NEW c, NEW p, NEW q, NEW h, NEW sl, TableOf(c, p, h, sl), q.live => p.live,
         q.map = p.map, Len(q.comps) = Len(p.comps), DOMAIN q.comps = DOMAIN p.comps,
         p.live => \A x \in 0 .. NamesMax - 1 : p.map[x] # 0 => p.map[x] \in DOMAIN p.comps,
         p.live => CompMax \in DOMAIN p.comps \/ Len(p.comps) # CompMax,
         \A k \in DOMAIN p.comps : q.comps[k].name = p.comps[k].name
  PROVE  TableOf(c, q, h, sl)
<1>1. q.live => LastOther(q)
  BY DEF TableOf, LastOther
<1>2. \A f \in Files : h[f] = "both" =>
        /\ Classify(f) # Unclassified
        /\ q.live => sl[f] \in DOMAIN q.comps /\ Belongs(c, q, f, sl[f])
  BY DEF TableOf, Belongs
<1>3. q.live => \A x \in 0 .. NamesMax - 1 : q.map[x] # 0 =>
        /\ x < Len(c.names) \/ (x = NamesMax - 1 /\ Len(c.names) = NamesMax - 1)
        /\ \/ q.comps[q.map[x]].name = NameOf(c, x)
           \/ q.comps[q.map[x]].name = Other /\ Len(q.comps) = CompMax
  BY DEF TableOf
<1> QED
  BY <1>1, <1>2, <1>3 DEF TableOf

\* What TableSame asks of a profile within its limits.
LEMMA TableWithin ==
  ASSUME NEW p, Limits(p)
  PROVE  /\ \A x \in 0 .. NamesMax - 1 : p.map[x] # 0 => p.map[x] \in DOMAIN p.comps
         /\ CompMax \in DOMAIN p.comps \/ Len(p.comps) # CompMax
<1>1. /\ p.map \in [0 .. NamesMax - 1 -> 0 .. CompMax] /\ DOMAIN p.comps = 1 .. Len(p.comps)
      /\ Len(p.comps) \in Nat /\ CompMax \in Nat \ {0}
  BY ProfileParts, ProfilerAssumption
<1>2. \A x \in 0 .. NamesMax - 1 : p.map[x] \in Nat /\ p.map[x] <= Len(p.comps)
  <2> TAKE x \in 0 .. NamesMax - 1
  <2>1. x \in DOMAIN p.map /\ p.map[x] \in 0 .. CompMax
    BY <1>1
  <2>2. p.map[x] <= Len(p.comps)
    BY <2>1 DEF Limits
  <2> QED
    BY <2>1, <2>2
<1> QED
  BY <1>1, <1>2

\* The times the profile knows are the times the frames were open.
LEMMA TickSees ==
  ASSUME ProfilerInv, odd = 0, prof.live
  PROVE  /\ \A c \in DOMAIN prof.comps : prof.comps[c].depth > 0 <=> c \in OpenComps
         /\ TopComp = 0 \/ TopComp \in OpenComps
         /\ ~prof.overflow => TopComp = TopOf(prof)
<1> DEFINE fs == frames["main"]
           S == SeenIn(fs)
           m == Max(S)
<1>1. /\ running = "main" /\ frames["fiber"] = <<>> /\ Mirrors(prof, fs, slot)
      /\ fs \in Seq(Frames) /\ Limits(prof)
  BY EngineParts DEF ProfilerInv, MirrorOK, Ledger
<1>2. S \subseteq 1 .. Len(fs) /\ IsFiniteSet(S) /\ Cardinality(S) \in Nat
  <2>1. DOMAIN fs = 1 .. Len(fs) /\ Len(fs) \in Nat
    BY <1>1
  <2>2. S \subseteq 1 .. Len(fs)
    BY <2>1 DEF SeenIn
  <2> HIDE DEF S
  <2> QED
    BY <2>1, <2>2, UpTo, FS_Subset, FS_CardinalityType
<1>3. S # {} => m \in S /\ \A i \in S : i <= m
  <2>1. 1 .. Len(fs) \subseteq Int
    OBVIOUS
  <2> HIDE DEF S, fs
  <2> QED
    BY <1>2, <2>1, MaxMember
<1>4. OpenComps = {slot[fs[i].file] : i \in S}
  <2>1. UNION {Range(frames[b]) : b \in Fibers} = Range(fs)
    <3>1. Range(frames["fiber"]) = {}
      BY <1>1 DEF Range
    <3> QED
      BY <3>1 DEF Fibers
  <2>2. {x \in UNION {Range(frames[b]) : b \in Fibers} : x.seen} = {fs[i] : i \in S}
    <3>1. Range(fs) = {fs[i] : i \in DOMAIN fs}
      BY DEF Range
    <3> QED
      BY <2>1, <3>1 DEF SeenIn
  <2> HIDE DEF fs, S
  <2> QED
    BY <2>2 DEF OpenComps
<1>5. TopComp = IF S = {} THEN 0 ELSE slot[fs[m].file]
  BY <1>1 DEF TopComp, SeenIn
<1>6. ASSUME NEW c \in DOMAIN prof.comps PROVE prof.comps[c].depth > 0 <=> c \in OpenComps
  <2>1. prof.comps[c].depth = Cardinality(Under(fs, slot, c))
    BY <1>1 DEF Mirrors
  <2>2. IsFiniteSet(Under(fs, slot, c)) /\ Cardinality(Under(fs, slot, c)) \in Nat
    BY <1>2, FS_Subset, FS_CardinalityType DEF Under
  <2>3. c \in OpenComps <=> Under(fs, slot, c) # {}
    BY <1>4 DEF Under
  <2> QED
    BY <2>1, <2>2, <2>3, FS_EmptySet
<1>7. TopComp = 0 \/ TopComp \in OpenComps
  BY <1>3, <1>4, <1>5
<1>8. ASSUME ~prof.overflow PROVE TopComp = TopOf(prof)
  <2>1. prof.over = 0 /\ Len(prof.stack) \in Nat /\ Len(prof.stack) + prof.over = Cardinality(S)
    BY <1>1, <1>8, ProfileParts DEF Limits, Mirrors
  <2>2. CASE S = {}
    <3>1. Cardinality(S) = 0
      BY <2>2, FS_EmptySet
    <3>2. Len(prof.stack) = 0
      BY <2>1, <3>1
    <3>3. prof.stack = <<>>
      BY <1>1, <3>2, ProfileParts
    <3> QED
      BY <1>5, <2>2, <3>3 DEF TopOf
  <2>3. CASE S # {}
    <3>1. {j \in S : j <= m} = S
      BY <1>3, <2>3
    <3>2. Rank(fs, m) = Cardinality(S) /\ m \in S
      BY <1>3, <2>3, <3>1 DEF Rank
    <3>3. Cardinality(S) # 0
      BY <1>2, <2>3, FS_EmptySet
    <3> HIDE DEF m, S
    <3>4. Rank(fs, m) = Len(prof.stack) /\ prof.stack # <<>>
      BY <2>1, <3>2, <3>3
    <3>5. prof.stack[Len(prof.stack)].comp = slot[fs[m].file]
      BY <1>1, <2>1, <3>2, <3>4 DEF Mirrors, S
    <3> QED
      BY <1>5, <2>3, <3>4, <3>5 DEF TopOf
  <2> QED
    BY <2>2, <2>3
<1> QED
  BY <1>6, <1>7, <1>8

-----------------------------------------------------------------------------
(* The engine's frames.                                                    *)

\* A sequence shows no more addresses than it has frames.
LEMMA EdsOf ==
  ASSUME NEW fs \in Seq(Frames)
  PROVE  /\ IsFiniteSet({fs[i].ed : i \in DOMAIN fs})
         /\ Cardinality({fs[i].ed : i \in DOMAIN fs}) \in Nat
         /\ Cardinality({fs[i].ed : i \in DOMAIN fs}) <= Len(fs)
<1> DEFINE S == {fs[i].ed : i \in DOMAIN fs}
           g == [i \in DOMAIN fs |-> fs[i].ed]
<1>1. g \in Surjection(DOMAIN fs, S)
  BY DEF Surjection
<1>2. DOMAIN fs = 1 .. Len(fs) /\ Len(fs) \in Nat
  OBVIOUS
<1>3. IsFiniteSet(DOMAIN fs) /\ Cardinality(DOMAIN fs) = Len(fs)
  BY <1>2, UpTo
<1> HIDE DEF S, g
<1>4. IsFiniteSet(S) /\ Cardinality(S) <= Len(fs)
  BY <1>1, <1>3, FS_Surjection
<1> QED
  BY <1>4, FS_CardinalityType DEF S

\* There is an address for the next frame.
LEMMA FreeIsFree ==
  ASSUME EngineOK, calls < MaxCalls
  PROVE  FreeEd \in 1 .. MaxCalls
<1> DEFINE A == {frames["main"][i].ed : i \in DOMAIN frames["main"]}
           B == {frames["fiber"][i].ed : i \in DOMAIN frames["fiber"]}
           U == {fr.ed : fr \in UNION {Range(frames[b]) : b \in Fibers}}
<1>1. /\ frames["main"] \in Seq(Frames) /\ frames["fiber"] \in Seq(Frames)
      /\ Len(frames["main"]) + Len(frames["fiber"]) <= calls
  BY EngineParts DEF EngineOK
<1>2. /\ IsFiniteSet(A) /\ Cardinality(A) \in Nat /\ Cardinality(A) <= Len(frames["main"])
      /\ IsFiniteSet(B) /\ Cardinality(B) \in Nat /\ Cardinality(B) <= Len(frames["fiber"])
  BY <1>1, EdsOf
<1>3. U = A \union B
  BY DEF Range, Fibers
<1> HIDE DEF A, B
<1>4. IsFiniteSet(A \union B) /\ Cardinality(A \union B) <= Cardinality(A) + Cardinality(B)
  <2>1. Cardinality(A \cap B) \in Nat
    BY <1>2, FS_Subset, FS_CardinalityType
  <2>2. IsFiniteSet(A \union B)
        /\ Cardinality(A \union B) = Cardinality(A) + Cardinality(B) - Cardinality(A \cap B)
    BY <1>2, FS_Union
  <2> QED
    BY <1>2, <2>1, <2>2
<1>5. Len(frames["main"]) \in Nat /\ Len(frames["fiber"]) \in Nat
  BY <1>1
<1>6. calls \in Nat /\ MaxCalls \in Nat
  BY EngineParts, ProfilerAssumption
<1>7. Cardinality(A \union B) \in Nat
  BY <1>4, FS_CardinalityType
<1>8. Cardinality(A \union B) < MaxCalls
  <2> DEFINE m == Len(frames["main"])
             k == Len(frames["fiber"])
             a == Cardinality(A)
             b == Cardinality(B)
             u == Cardinality(A \union B)
  <2>1. m \in Nat /\ k \in Nat /\ m + k <= calls /\ a <= m /\ b <= k /\ a \in Nat /\ b \in Nat
    BY <1>1, <1>2, <1>5
  <2>2. u <= a + b /\ u \in Nat
    BY <1>4, <1>7
  <2> HIDE DEF m, k, a, b, u
  <2>3. u < MaxCalls
    BY <1>6, <2>1, <2>2
  <2> QED
    BY <2>3 DEF u
<1>9. (1 .. MaxCalls) \ (A \union B) # {}
  <2> SUFFICES ASSUME 1 .. MaxCalls \subseteq A \union B PROVE FALSE
    OBVIOUS
  <2>1. /\ Cardinality(1 .. MaxCalls) = MaxCalls
        /\ Cardinality(1 .. MaxCalls) <= Cardinality(A \union B)
    BY <1>4, <1>6, UpTo, FS_Subset
  <2> QED
    BY <1>6, <1>7, <1>8, <2>1
<1>10. (1 .. MaxCalls) \ (A \union B) \subseteq Nat
  OBVIOUS
<1>11. FreeEd = Min((1 .. MaxCalls) \ U)
  BY DEF FreeEd
<1> HIDE DEF U
<1> QED
  BY <1>3, <1>9, <1>10, <1>11, MinMember

-----------------------------------------------------------------------------
(* What a request begins with.                                             *)

\* A profile nothing was charged to balances.
LEMMA UntouchedBalances ==
  ASSUME NEW p \in Profiles, Untouched(p), NEW t \in Nat, NEW o
  PROVE  Ledger(p, t, o) /\ LastOther(p) /\ \A x \in 0 .. NamesMax - 1 : p.map[x] = 0
<1>1. Len(p.comps) = 0 /\ DOMAIN p.comps = {} /\ Len(p.stack) = 0 /\ DOMAIN p.stack = {}
  BY DEF Untouched
<1>2. CompMax \in Nat \ {0} /\ StackMax \in Nat \ {0} /\ NamesMax \in Nat \ {0}
  BY ProfilerAssumption
<1>3. \A x \in 0 .. NamesMax - 1 : p.map[x] = 0
  BY DEF Untouched
<1>4. DOMAIN p.map = 0 .. NamesMax - 1
  BY DEF Untouched
<1>5. Limits(p)
  <2>1. p.over = 0
    BY DEF Untouched
  <2>2. Len(p.comps) <= CompMax /\ Len(p.stack) <= StackMax /\ ~(p.over > 0)
    BY <1>1, <1>2, <2>1
  <2>3. \A x \in DOMAIN p.map : p.map[x] <= Len(p.comps)
    BY <1>1, <1>3, <1>4
  <2> QED
    BY <1>1, <2>2, <2>3 DEF Limits
<1>6. TimesOK(p, t)
  BY <1>1 DEF TimesOK
<1>7. DepthsOK(p)
  BY <1>1 DEF DepthsOK
<1>8. SumFunction([c \in DOMAIN p.comps |-> Own(p, c, t)]) = p.busy
  <2>1. [c \in DOMAIN p.comps |-> Own(p, c, t)] = [c \in {} |-> Own(p, c, t)]
    BY <1>1
  <2>2. p.busy = 0
    BY DEF Untouched
  <2> QED
    BY <2>1, <2>2, SumEmpty DEF SumFunction
<1>9. Accounts(p, t, o)
  BY <1>1, <1>8 DEF Accounts
<1>10. LastOther(p)
  BY <1>1, <1>2 DEF LastOther
<1> QED
  BY <1>3, <1>5, <1>6, <1>7, <1>9, <1>10 DEF Ledger

\* Nothing is charged without a profile.
LEMMA NoProfileUntouched == NoProfile \in Profiles /\ Untouched(NoProfile) /\ ~NoProfile.live
                        /\ ~NoProfile.on /\ ~NoProfile.pending /\ ~NoProfile.given
<1>1. 0 \in 0 .. CompMax
  BY ProfilerAssumption
<1>2. <<>> \in Seq(Comps) /\ <<>> \in Seq(Recorded)
  OBVIOUS
<1> QED
  BY <1>1, <1>2 DEF NoProfile, Profiles, Untouched

\* An empty cache is a good one.
LEMMA NoCacheGood == GoodCache(NoCache)
<1>1. NoCache \in Caches
  <2>1. NamesMax \in 0 .. NamesMax
    BY ProfilerAssumption
  <2>2. <<>> \in Seq(Names)
    OBVIOUS
  <2> QED
    BY <2>1, <2>2 DEF NoCache, Caches, Unused, NonePidx
<1>2. Len(NoCache.names) < NamesMax
  BY ProfilerAssumption DEF NoCache
<1>3. \A i \in 0 .. CacheSlots - 1 : NoCache.slots[i] = Unused
  BY DEF NoCache
<1> QED
  BY <1>1, <1>2, <1>3 DEF GoodCache

-----------------------------------------------------------------------------
(* The life of a profile.                                                  *)

\* A step that leaves the profiler alone.
LEMMA LeftAlone ==
  ASSUME ProfilerInv, UNCHANGED profVars, serving' = serving, req'.on = req.on
  PROVE  ProfilerInv'
<1>1. /\ cc' = cc /\ prof' = prof /\ handlers' = handlers /\ slot' = slot /\ frames' = frames
      /\ running' = running /\ now' = now /\ calls' = calls /\ odd' = odd
  BY DEF profVars
<1>2. Ledger(prof, now, odd)' /\ GoodCache(cc)' /\ TableOf(cc, prof, handlers, slot)'
  BY <1>1 DEF ProfilerInv
<1>3. StageOK'
  BY <1>1 DEF ProfilerInv, StageOK
<1>4. EngineOK'
  BY <1>1 DEF ProfilerInv, EngineOK
<1>5. MirrorOK'
  BY <1>1 DEF ProfilerInv, MirrorOK
<1> QED
  BY <1>2, <1>3, <1>4, <1>5 DEF ProfilerInv

\* The part of the engine when nothing in it changes.
LEMMA EngineSame ==
  ASSUME EngineOK, UNCHANGED <<handlers, slot, frames, running, now, calls, odd>>,
         serving' = 0 \/ (prof' = prof /\ serving' = serving), prof'.pending => prof.pending
  PROVE  EngineOK'
<1>1. /\ handlers' = handlers /\ slot' = slot /\ frames' = frames
      /\ running' = running /\ now' = now /\ calls' = calls /\ odd' = odd
  OBVIOUS
<1>2. CASE serving' = 0
  BY <1>1, <1>2 DEF EngineOK
<1>3. CASE prof' = prof /\ serving' = serving
  <2>1. /\ handlers' \in [Files -> {"unset", "none", "both"}] /\ slot' \in [Files -> 0 .. CompMax]
        /\ frames' \in [Fibers -> Seq(Frames)] /\ running' \in Fibers
        /\ now' \in Nat /\ calls' \in 0 .. MaxCalls /\ odd' \in Nat
        /\ Len(frames'["main"]) + Len(frames'["fiber"]) <= calls'
    BY <1>1 DEF EngineOK
  <2>2. prof'.pending => \A f \in Files : handlers'[f] # "both"
    BY <1>1, <1>3 DEF EngineOK
  <2>3. serving' # 0 => \A b \in Fibers : \A i \in DOMAIN frames'[b] :
          LET x == frames'[b][i]
          IN /\ handlers'[x.file] # "unset"
             /\ x.seen => prof'.on /\ handlers'[x.file] = "both"
             /\ prof'.on /\ handlers'[x.file] = "both" => x.seen
    BY <1>1, <1>3 DEF EngineOK
  <2> QED
    BY <2>1, <2>2, <2>3 DEF EngineOK
<1> QED
  BY <1>2, <1>3

\* Without a profile only the engine and the cache are left.
LEMMA NothingLive ==
  ASSUME ProfilerInv, prof' \in Profiles, Untouched(prof') \/ prof' = prof, ~prof'.live, StageOK',
         UNCHANGED <<handlers, slot, frames, running, now, calls, odd>>, GoodCache(cc'),
         serving' = 0 \/ (prof' = prof /\ serving' = serving), prof'.pending => prof.pending
  PROVE  ProfilerInv'
<1>1. /\ handlers' = handlers /\ slot' = slot /\ frames' = frames
      /\ running' = running /\ now' = now /\ calls' = calls /\ odd' = odd
  OBVIOUS
<1>2. Ledger(prof, now, odd)'
  <2>1. CASE prof' = prof
    BY <1>1, <2>1 DEF ProfilerInv
  <2>2. CASE Untouched(prof')
    <3>1. now \in Nat
      BY EngineParts DEF ProfilerInv
    <3> QED
      BY <1>1, <2>2, <3>1, UntouchedBalances
  <2> QED
    BY <2>1, <2>2
<1>3. TableOf(cc, prof, handlers, slot)'
  BY <1>1 DEF ProfilerInv, TableOf
<1>4. EngineOK'
  <2>1. EngineOK
    BY DEF ProfilerInv
  <2> QED
    BY <2>1, EngineSame
<1>5. MirrorOK'
  BY <1>1 DEF ProfilerInv, MirrorOK
<1> QED
  BY <1>2, <1>3, <1>4, <1>5 DEF ProfilerInv

\* A new process has no profile.
LEMMA SpawnProfiles ==
  ASSUME ProfilerInv, ProcOK, Spawn
  PROVE  ProfilerInv'
<1>1. ~prof.live
  BY DEF ProfilerInv, StageOK, ProcOK, Spawn
<1>2. /\ prof' = prof /\ serving' = serving /\ req' = req /\ cc' = NoCache
      /\ UNCHANGED <<handlers, slot, frames, running, now, calls, odd>>
  BY DEF Spawn, recVars
<1>3. StageOK'
  BY <1>2 DEF ProfilerInv, StageOK
<1>4. prof \in Profiles
  BY DEF ProfilerInv, Ledger, Limits
<1> QED
  BY <1>1, <1>2, <1>3, <1>4, NoCacheGood, NothingLive

\* A process that dies leaves no profile.
LEMMA DieProfiles ==
  ASSUME ProfilerInv, Die
  PROVE  ProfilerInv'
<1>1. /\ prof' = NoProfile /\ serving' = 0 /\ cc' = cc
      /\ UNCHANGED <<handlers, slot, frames, running, now, calls, odd>>
  BY DEF Die
<1>2. StageOK'
  BY <1>1, NoProfileUntouched DEF StageOK, Untouched
<1>3. GoodCache(cc')
  BY <1>1 DEF ProfilerInv
<1>4. prof' \in Profiles /\ Untouched(prof') /\ ~prof'.live /\ (prof'.pending => prof.pending)
  BY <1>1, NoProfileUntouched
<1>5. /\ handlers' = handlers /\ slot' = slot /\ frames' = frames /\ running' = running
      /\ now' = now /\ calls' = calls /\ odd' = odd
  BY <1>1
<1>6. serving' = 0 \/ (prof' = prof /\ serving' = serving)
  BY <1>1
<1> QED
  BY <1>2, <1>3, <1>4, <1>5, <1>6, NothingLive

\* A request begins with nothing.
LEMMA Restarted ==
  ASSUME ProfilerInv, prof' \in Profiles, Untouched(prof'), EngineReset, UNCHANGED <<cc, calls>>,
         StageOK'
  PROVE  ProfilerInv'
<1>1. /\ cc' = cc /\ calls' = calls
      /\ handlers' = [f \in Files |-> "unset"] /\ slot' = [f \in Files |-> 0]
      /\ frames' = [b \in Fibers |-> <<>>] /\ running' = "main" /\ now' = 0 /\ odd' = 0
  BY DEF EngineReset, NoFrames
<1>2. Ledger(prof, now, odd)' /\ LastOther(prof') /\ \A x \in 0 .. NamesMax - 1 : prof'.map[x] = 0
  BY <1>1, UntouchedBalances
<1>3. GoodCache(cc)'
  BY <1>1 DEF ProfilerInv
<1>4. TableOf(cc, prof, handlers, slot)'
  BY <1>1, <1>2 DEF TableOf
<1>5. EngineOK'
  <2>1. 0 \in 0 .. CompMax /\ calls \in 0 .. MaxCalls /\ calls \in Nat
    BY EngineParts, ProfilerAssumption DEF ProfilerInv
  <2>2. frames' \in [Fibers -> Seq(Frames)] /\ running' \in Fibers /\ now' \in Nat /\ odd' \in Nat
    BY <1>1 DEF Fibers
  <2>3. frames'["main"] = <<>> /\ frames'["fiber"] = <<>>
    BY <1>1 DEF Fibers
  <2>4. \A b \in Fibers : DOMAIN frames'[b] = {}
    BY <1>1
  <2>5. Len(frames'["main"]) + Len(frames'["fiber"]) <= calls'
    <3>1. Len(frames'["main"]) = 0 /\ Len(frames'["fiber"]) = 0
      BY <2>3
    <3>2. calls' \in Nat
      BY <1>1, <2>1
    <3> QED
      BY <3>1, <3>2
  <2>6. /\ handlers' \in [Files -> {"unset", "none", "both"}] /\ slot' \in [Files -> 0 .. CompMax]
        /\ \A f \in Files : handlers'[f] # "both"
    BY <1>1, <2>1
  <2> QED
    BY <1>1, <2>1, <2>2, <2>4, <2>5, <2>6 DEF EngineOK
<1>6. MirrorOK'
  <2>1. running' = "main" /\ frames'["main"] = <<>> /\ frames'["fiber"] = <<>>
    BY <1>1 DEF Fibers
  <2>2. SeenIn(<<>>) = {} /\ Cardinality({}) = 0
    BY FS_EmptySet DEF SeenIn
  <2>3. Mirrors(prof', <<>>, slot')
    <3>1. /\ DOMAIN prof'.comps = {} /\ Len(prof'.stack) = 0 /\ prof'.over = 0
          /\ Len(prof'.stack) + prof'.over = 0
      BY DEF Untouched
    <3> QED
      BY <2>2, <3>1 DEF Mirrors
  <2> QED
    BY <2>1, <2>3 DEF MirrorOK
<1> QED
  BY <1>2, <1>3, <1>4, <1>5, <1>6 DEF ProfilerInv

\* The profile RINIT makes.
LEMMA FreshProfile ==
  ASSUME NEW on \in BOOLEAN, NEW pending \in BOOLEAN, NEW p,
         p = [NoProfile EXCEPT !.live = TRUE, !.given = TRUE, !.on = on, !.pending = pending]
  PROVE  /\ p \in Profiles /\ Untouched(p) /\ p.live /\ p.given /\ p.on = on /\ p.pending = pending
<1>1. NoProfile \in Profiles /\ Untouched(NoProfile)
  BY NoProfileUntouched
<1>2. p \in Profiles
  BY <1>1 DEF Profiles
<1> QED
  BY <1>1, <1>2 DEF Profiles, Untouched

\* A request begins with a fresh profile, a pending one or none.
LEMMA BeginProfiles ==
  ASSUME ProfilerInv, Begin
  PROVE  ProfilerInv'
<1>1. PICK set \in {"unset", "on", "off"}, user \in Users, chosen, draw, entry \in BOOLEAN,
           mode \in {"off", "all", "sample", "url"} : Rinit(set, user, chosen, mode, draw, entry)
  BY DEF Begin
<1> DEFINE enabled == IF set = "unset" THEN proc.enabled ELSE set = "on"
           traced == enabled /\ HealthCheck /\ chosen
<1>2. serving' = user /\ user # 0
  BY <1>1, PhpWorkerAssumption DEF Rinit
<1>3. EngineReset /\ UNCHANGED <<cc, calls>>
  BY <1>1 DEF Rinit, ProfilerRequestInit
<1>4. prof' \in Profiles /\ Untouched(prof') /\ StageOK'
  <2>1. CASE prof' = NoProfile
    BY <1>2, <2>1, NoProfileUntouched DEF StageOK, Untouched
  <2>2. CASE prof' # NoProfile
    <3>1. traced /\ ProfilerRequestInit(mode, draw, entry)
      BY <1>1, <2>2 DEF Rinit
    <3>2. req'.on = traced
      BY <1>1 DEF Rinit, RecorderBegin
    <3>3. PICK on \in BOOLEAN, pending \in BOOLEAN :
            /\ prof' = [NoProfile EXCEPT !.live = TRUE, !.given = TRUE, !.on = on,
                                         !.pending = pending]
            /\ on \/ pending
            /\ ~(on /\ pending)
      <4> DEFINE o == mode = "all" \/ (mode = "sample" /\ draw)
                 w == mode = "url" \/ (~o /\ entry)
      <4>1. prof' = IF o \/ w THEN [NoProfile EXCEPT !.live = TRUE, !.given = TRUE, !.on = o,
                                                     !.pending = w]
                    ELSE NoProfile
        BY <3>1 DEF ProfilerRequestInit
      <4>2. o \in BOOLEAN /\ w \in BOOLEAN /\ ~(o /\ w)
        OBVIOUS
      <4> HIDE DEF o, w
      <4> QED
        BY <2>2, <4>1, <4>2
    <3>4. /\ prof' \in Profiles /\ Untouched(prof') /\ prof'.live /\ prof'.given
          /\ prof'.on = on /\ prof'.pending = pending
      BY <3>3, FreshProfile
    <3> QED
      BY <1>2, <3>1, <3>2, <3>3, <3>4 DEF StageOK, Untouched
  <2> QED
    BY <2>1, <2>2
<1> QED
  BY <1>3, <1>4, Restarted

\* The end of a request closes its profile.
LEMMA EndProfiles ==
  ASSUME ProfilerInv, End
  PROVE  ProfilerInv'
<1>1. /\ serving' = 0 /\ cc' = cc /\ handlers' = handlers /\ slot' = slot /\ frames' = frames
      /\ running' = running /\ now' = now /\ calls' = calls /\ odd' = odd
  BY DEF End
<1>2. /\ Ledger(prof, now, odd) /\ StageOK /\ EngineOK /\ now \in Nat /\ prof \in Profiles
  BY EngineParts DEF ProfilerInv, Ledger, Limits
<1>3. prof' = Finished(prof, now) \/ (~prof.live /\ prof' = prof)
  <2>1. CASE req.on
    BY <2>1 DEF End, Rshutdown
  <2>2. CASE ~req.on
    <3>1. ~prof.live
      BY <1>2, <2>2 DEF StageOK
    <3>2. prof' = [prof EXCEPT !.live = FALSE]
      BY <2>2 DEF End, Rshutdown
    <3> QED
      BY <1>2, <3>1, <3>2 DEF Profiles
  <2> QED
    BY <2>1, <2>2
<1>4. CASE ~prof.live /\ prof' = prof
  <2>1. StageOK'
    BY <1>1, <1>2, <1>4 DEF StageOK
  <2>2. GoodCache(cc')
    BY <1>1 DEF ProfilerInv
  <2>3. /\ UNCHANGED <<handlers, slot, frames, running, now, calls, odd>> /\ serving' = 0
        /\ prof' \in Profiles /\ ~prof'.live /\ (prof'.pending => prof.pending) /\ prof' = prof
    BY <1>1, <1>2, <1>4
  <2> QED
    BY <2>1, <2>2, <2>3, NothingLive
<1>5. CASE prof' = Finished(prof, now)
  <2>1. Over(prof, prof', now, odd)
    BY <1>2, <1>5, FinishCloses
  <2>2. Ledger(prof, now, odd)' /\ ~prof'.live /\ (prof'.pending => prof.pending)
    BY <1>1, <2>1 DEF Over
  <2>3. StageOK'
    BY <1>1, <1>2, <2>1 DEF StageOK, Over
  <2>4. TableOf(cc, prof, handlers, slot)'
    BY <1>1, <2>2 DEF ProfilerInv, TableOf
  <2>5. EngineOK'
    BY <1>1, <1>2, <2>2, EngineSame
  <2>6. MirrorOK'
    BY <1>1, <2>2 DEF ProfilerInv, MirrorOK
  <2>7. GoodCache(cc)'
    BY <1>1 DEF ProfilerInv
  <2> QED
    BY <2>2, <2>3, <2>4, <2>5, <2>6, <2>7 DEF ProfilerInv
<1> QED
  BY <1>3, <1>4, <1>5

\* The invariant at the beginning.
LEMMA ProfilesStart ==
  ASSUME Init
  PROVE  ProfilerInv
<1>1. /\ cc = NoCache /\ prof = NoProfile /\ serving = 0
      /\ handlers = [f \in Files |-> "unset"] /\ slot = [f \in Files |-> 0]
      /\ frames = [b \in Fibers |-> <<>>] /\ running = "main" /\ now = 0 /\ calls = 0 /\ odd = 0
  BY DEF Init, ProfilerInit, NoFrames
<1>2. Ledger(prof, now, odd) /\ ~prof.live /\ ~prof.on /\ ~prof.pending /\ prof.stack = <<>>
      /\ prof.over = 0
  BY <1>1, NoProfileUntouched, UntouchedBalances DEF Untouched
<1>3. StageOK
  BY <1>1, <1>2 DEF StageOK
<1>4. EngineOK
  <2>1. 0 \in 0 .. CompMax /\ 0 \in 0 .. MaxCalls
    BY ProfilerAssumption
  <2>2. frames \in [Fibers -> Seq(Frames)] /\ running \in Fibers /\ now \in Nat /\ odd \in Nat
    BY <1>1 DEF Fibers
  <2>3. frames["main"] = <<>> /\ frames["fiber"] = <<>>
    BY <1>1 DEF Fibers
  <2>4. Len(frames["main"]) + Len(frames["fiber"]) <= calls
    <3>1. Len(frames["main"]) = 0 /\ Len(frames["fiber"]) = 0
      BY <2>3
    <3>2. calls = 0
      BY <1>1
    <3> QED
      BY <3>1, <3>2
  <2> QED
    BY <1>1, <1>2, <2>1, <2>2, <2>4 DEF EngineOK
<1>5. MirrorOK
  BY <1>1, <1>2 DEF MirrorOK, Fibers
<1>6. TableOf(cc, prof, handlers, slot)
  BY <1>1, <1>2 DEF TableOf
<1> QED
  BY <1>1, <1>2, <1>3, <1>4, <1>5, <1>6, NoCacheGood DEF ProfilerInv

-----------------------------------------------------------------------------
(* Steps while a script runs.                                              *)

\* What holds while a script runs.
LEMMA Running ==
  ASSUME ProfilerInv, Run
  PROVE  /\ serving # 0 /\ serving' = serving /\ req' = req
         /\ prof.on => prof.live
         /\ prof.pending => prof.live /\ ~prof.on
         /\ prof \in Profiles /\ Limits(prof) /\ TimesOK(prof, now) /\ now \in Nat /\ odd \in Nat
<1>1. serving # 0 /\ serving' = serving /\ req' = req
  BY DEF Run, Hooked, InScript, ownVars, recVars
<1>2. /\ prof.on => prof.live
      /\ prof.pending => prof.live /\ ~prof.on
  BY <1>1 DEF ProfilerInv, StageOK
<1>3. /\ prof \in Profiles /\ Limits(prof) /\ TimesOK(prof, now) /\ now \in Nat /\ odd \in Nat
  BY EngineParts DEF ProfilerInv, Ledger, Limits
<1> QED
  BY <1>1, <1>2, <1>3

\* The stage of a profile that stays as it is.
LEMMA StageSame ==
  ASSUME ProfilerInv, serving # 0, serving' = serving, req' = req,
         prof'.live = prof.live, prof'.given = prof.given, prof'.on = prof.on,
         prof'.pending = prof.pending,
         ~prof.on => prof'.stack = prof.stack /\ prof'.over = prof.over
  PROVE  StageOK'
<1>1. prof.on => prof.live
  BY DEF ProfilerInv, StageOK
<1>2. ~prof.live => prof.stack = <<>>
  BY DEF ProfilerInv, StageOK
<1>3. ~prof.on => prof.stack = <<>> /\ prof.over = 0
  BY DEF ProfilerInv, StageOK
<1> QED
  BY <1>1, <1>2, <1>3 DEF ProfilerInv, StageOK

\* Time passing keeps the invariant.
LEMMA TickProfiles ==
  ASSUME ProfilerInv, Run, Tick
  PROVE  ProfilerInv'
<1>1. /\ serving # 0 /\ serving' = serving /\ req' = req
      /\ prof.on => prof.live
      /\ prof.pending => prof.live /\ ~prof.on
      /\ Limits(prof) /\ now \in Nat /\ odd \in Nat
  BY Running
<1>2. /\ now' = now + 1 /\ cc' = cc /\ handlers' = handlers /\ slot' = slot /\ frames' = frames
      /\ running' = running /\ calls' = calls /\ odd' = odd
      /\ prof' = Ticked(prof, OpenComps, TopComp)
  BY DEF Tick, Ticked
<1>3. SameButUse(prof, prof')
  BY <1>1, <1>2, TickParts
<1>4. Ledger(prof, now, odd)'
  <2>1. prof.stack # <<>> => prof.live
    BY DEF ProfilerInv, StageOK
  <2>2. odd = 0 /\ (prof.on \/ prof.live) =>
          /\ \A c \in DOMAIN prof.comps : prof.comps[c].depth > 0 <=> c \in OpenComps
          /\ TopComp = 0 \/ TopComp \in OpenComps
          /\ ~prof.overflow => TopComp = TopOf(prof)
    BY <1>1, TickSees
  <2>3. Ledger(prof, now, odd)
    BY DEF ProfilerInv
  <2>4. Ledger(Ticked(prof, OpenComps, TopComp), now + 1, odd)
    BY <1>1, <2>1, <2>2, <2>3, TickLedger
  <2> QED
    BY <1>2, <2>4
<1>5. StageOK'
  BY <1>1, <1>3, StageSame DEF SameButUse
<1>6. EngineOK'
  <2>1. now' \in Nat /\ prof'.on = prof.on /\ prof'.pending = prof.pending
    BY <1>1, <1>2, <1>3 DEF SameButUse
  <2>2. EngineOK
    BY DEF ProfilerInv
  <2> QED
    BY <1>1, <1>2, <2>1, <2>2 DEF EngineOK
<1>7. MirrorOK'
  <2> SUFFICES ASSUME odd = 0
               PROVE  /\ running = "main" /\ frames["fiber"] = <<>>
                      /\ prof.live => Mirrors(prof', frames["main"], slot)
    BY <1>2, <1>3 DEF MirrorOK, SameButUse
  <2>1. running = "main" /\ frames["fiber"] = <<>>
    BY DEF ProfilerInv, MirrorOK
  <2>2. ASSUME prof.live PROVE Mirrors(prof', frames["main"], slot)
    <3>1. Mirrors(prof, frames["main"], slot)
      BY <2>2 DEF ProfilerInv, MirrorOK
    <3>2. /\ prof'.stack = prof.stack /\ prof'.over = prof.over
          /\ \A k \in DOMAIN prof'.comps :
               k \in DOMAIN prof.comps /\ prof'.comps[k].depth = prof.comps[k].depth
      BY <1>3 DEF SameButUse
    <3> QED
      BY <3>1, <3>2, MirrorSame
  <2> QED
    BY <2>1, <2>2
<1>8. TableOf(cc, prof, handlers, slot)'
  <2>1. TableOf(cc, prof, handlers, slot)
    BY DEF ProfilerInv
  <2>2. /\ \A x \in 0 .. NamesMax - 1 : prof.map[x] # 0 => prof.map[x] \in DOMAIN prof.comps
        /\ CompMax \in DOMAIN prof.comps \/ Len(prof.comps) # CompMax
    BY <1>1, TableWithin
  <2>3. /\ prof'.live = prof.live /\ prof'.map = prof.map /\ Len(prof'.comps) = Len(prof.comps)
        /\ DOMAIN prof'.comps = DOMAIN prof.comps
        /\ \A k \in DOMAIN prof.comps : prof'.comps[k].name = prof.comps[k].name
    BY <1>3 DEF SameButUse
  <2>4. TableOf(cc, prof', handlers, slot)
    BY <2>1, <2>2, <2>3, TableSame
  <2> QED
    BY <1>2, <2>4
<1>9. GoodCache(cc)'
  BY <1>2 DEF ProfilerInv
<1> QED
  BY <1>4, <1>5, <1>6, <1>7, <1>8, <1>9 DEF ProfilerInv

\* Out of order, only the totals are asked for.
LEMMA OddLedger ==
  ASSUME NEW p, NEW t, NEW o \in Nat, Ledger(p, t, o)
  PROVE  Ledger(p, t, o + 1)
<1>1. o + 1 # 0
  OBVIOUS
<1> QED
  BY <1>1 DEF Ledger, Accounts

\* A switch of the fiber keeps the invariant: no order of frames is promised after it.
LEMMA SwitchProfiles ==
  ASSUME ProfilerInv, Run, SwitchFiber
  PROVE  ProfilerInv'
<1>1. serving # 0 /\ serving' = serving /\ req' = req /\ odd \in Nat
  BY Running
<1>2. /\ odd' = odd + 1 /\ running' \in Fibers /\ cc' = cc /\ prof' = prof /\ handlers' = handlers
      /\ slot' = slot /\ frames' = frames /\ now' = now /\ calls' = calls
  BY DEF SwitchFiber
<1>3. odd' \in Nat /\ odd' # 0
  BY <1>1, <1>2
<1>4. Ledger(prof, now, odd)'
  BY <1>1, <1>2, OddLedger DEF ProfilerInv
<1>5. StageOK'
  BY <1>1, <1>2, StageSame
<1>6. EngineOK'
  BY <1>1, <1>2, <1>3 DEF ProfilerInv, EngineOK
<1>7. MirrorOK'
  BY <1>3 DEF MirrorOK
<1>8. TableOf(cc, prof, handlers, slot)' /\ GoodCache(cc)'
  BY <1>2 DEF ProfilerInv
<1> QED
  BY <1>4, <1>5, <1>6, <1>7, <1>8 DEF ProfilerInv

\* What the engine's part needs of a profile when a frame goes.
LEMMA EnginePopped ==
  ASSUME EngineOK, serving # 0, serving' = serving,
         frames[running] # <<>>, frames' = [frames EXCEPT ![running] = Front(@)],
         UNCHANGED <<handlers, slot, running, now, calls>>, odd' \in Nat,
         prof'.on = prof.on, prof'.pending = prof.pending
  PROVE  EngineOK'
<1>1. /\ frames' \in [Fibers -> Seq(Frames)]
      /\ Len(frames'["main"]) + Len(frames'["fiber"]) <= calls
      /\ \A b \in Fibers : \A i \in DOMAIN frames'[b] :
           i \in DOMAIN frames[b] /\ frames'[b][i] = frames[b][i]
  BY FramePopped
<1>2. \A b \in Fibers : \A i \in DOMAIN frames'[b] :
        LET x == frames'[b][i]
        IN /\ handlers[x.file] # "unset"
           /\ x.seen => prof.on /\ handlers[x.file] = "both"
           /\ prof.on /\ handlers[x.file] = "both" => x.seen
  <2> TAKE b \in Fibers
  <2> TAKE i \in DOMAIN frames'[b]
  <2>1. i \in DOMAIN frames[b] /\ frames'[b][i] = frames[b][i]
    BY <1>1
  <2>2. LET x == frames[b][i]
        IN /\ handlers[x.file] # "unset"
           /\ x.seen => prof.on /\ handlers[x.file] = "both"
           /\ prof.on /\ handlers[x.file] = "both" => x.seen
    BY <2>1 DEF EngineOK
  <2> QED
    BY <2>1, <2>2
<1>3. /\ handlers' = handlers /\ slot' = slot /\ running' = running /\ now' = now /\ calls' = calls
  OBVIOUS
<1>4. /\ handlers \in [Files -> {"unset", "none", "both"}] /\ slot \in [Files -> 0 .. CompMax]
      /\ running \in Fibers /\ now \in Nat /\ calls \in 0 .. MaxCalls
      /\ prof.pending => \A f \in Files : handlers[f] # "both"
  BY DEF EngineOK
<1>5. \A b \in Fibers : \A i \in DOMAIN frames'[b] :
        LET x == frames'[b][i]
        IN /\ handlers'[x.file] # "unset"
           /\ x.seen => prof'.on /\ handlers'[x.file] = "both"
           /\ prof'.on /\ handlers'[x.file] = "both" => x.seen
  BY <1>2, <1>3
<1>6. /\ handlers' \in [Files -> {"unset", "none", "both"}] /\ slot' \in [Files -> 0 .. CompMax]
      /\ running' \in Fibers /\ now' \in Nat /\ calls' \in 0 .. MaxCalls
      /\ prof'.pending => \A f \in Files : handlers'[f] # "both"
      /\ Len(frames'["main"]) + Len(frames'["fiber"]) <= calls'
  BY <1>1, <1>3, <1>4
<1> QED
  BY <1>1, <1>5, <1>6 DEF EngineOK

\* A frame that is lost with its generator keeps the invariant.
LEMMA LoseProfiles ==
  ASSUME ProfilerInv, Run, LoseFrame
  PROVE  ProfilerInv'
<1>1. serving # 0 /\ serving' = serving /\ req' = req /\ odd \in Nat
  BY Running
<1>2. /\ odd' = odd + 1 /\ running' = running /\ cc' = cc /\ prof' = prof /\ handlers' = handlers
      /\ slot' = slot /\ now' = now /\ calls' = calls
      /\ frames[running] # <<>> /\ frames' = [frames EXCEPT ![running] = Front(@)]
  BY DEF LoseFrame
<1>3. odd' \in Nat /\ odd' # 0
  BY <1>1, <1>2
<1>4. Ledger(prof, now, odd)'
  BY <1>1, <1>2, OddLedger DEF ProfilerInv
<1>5. StageOK'
  BY <1>1, <1>2, StageSame
<1>6. EngineOK'
  <2>1. EngineOK
    BY DEF ProfilerInv
  <2>2. UNCHANGED <<handlers, slot, running, now, calls>> /\ prof'.on = prof.on
        /\ prof'.pending = prof.pending
    BY <1>2
  <2> QED
    BY <1>1, <1>2, <1>3, <2>1, <2>2, EnginePopped
<1>7. MirrorOK'
  BY <1>3 DEF MirrorOK
<1>8. TableOf(cc, prof, handlers, slot)' /\ GoodCache(cc)'
  BY <1>2 DEF ProfilerInv
<1> QED
  BY <1>4, <1>5, <1>6, <1>7, <1>8 DEF ProfilerInv

\* A frame that is not observed changes nothing of the seen ones.
LEMMA UnseenAppend ==
  ASSUME NEW fs \in Seq(Frames), NEW x \in Frames, ~x.seen
  PROVE  /\ SeenIn(Append(fs, x)) = SeenIn(fs)
         /\ \A i \in SeenIn(fs) : Append(fs, x)[i] = fs[i]
<1>1. SeenIn(Append(fs, x)) = SeenIn(fs) \union (IF x.seen THEN {Len(fs) + 1} ELSE {})
  BY SeenAppend
<1>2. \A i \in SeenIn(fs) : Append(fs, x)[i] = fs[i]
  BY SeenAppend
<1> QED
  BY <1>1, <1>2

\* A frame that is not observed ends.
LEMMA UnseenEnds ==
  ASSUME ProfilerInv, Run, Return, prof' = prof, ~Last(frames[running]).seen
  PROVE  ProfilerInv'
<1>1. serving # 0 /\ serving' = serving /\ req' = req /\ odd \in Nat
  BY Running
<1>2. /\ odd' = odd /\ running' = running /\ cc' = cc /\ handlers' = handlers
      /\ slot' = slot /\ now' = now /\ calls' = calls
      /\ frames[running] # <<>> /\ frames' = [frames EXCEPT ![running] = Front(@)]
  BY DEF Return
<1>3. Ledger(prof, now, odd)'
  BY <1>2 DEF ProfilerInv
<1>4. StageOK'
  BY <1>1, <1>2, StageSame
<1>5. EngineOK'
  <2>1. EngineOK
    BY DEF ProfilerInv
  <2>2. /\ UNCHANGED <<handlers, slot, running, now, calls>> /\ prof'.on = prof.on
        /\ prof'.pending = prof.pending /\ odd' \in Nat
    BY <1>1, <1>2
  <2> QED
    BY <1>1, <1>2, <2>1, <2>2, EnginePopped
<1>6. MirrorOK'
  <2> SUFFICES ASSUME odd = 0
               PROVE  /\ running = "main" /\ frames'["fiber"] = <<>>
                      /\ prof.live => Mirrors(prof, frames'["main"], slot)
    BY <1>2 DEF MirrorOK
  <2>1. /\ running = "main" /\ frames["fiber"] = <<>>
        /\ prof.live => Mirrors(prof, frames["main"], slot)
    BY DEF ProfilerInv, MirrorOK
  <2> DEFINE fs == frames["main"]
             gs == Front(fs)
             x == Last(fs)
  <2>2. /\ fs \in Seq(Frames) /\ fs # <<>> /\ frames \in [Fibers -> Seq(Frames)]
    BY <1>2, <2>1, EngineParts DEF ProfilerInv
  <2>3. frames'["main"] = gs /\ frames'["fiber"] = <<>>
    BY <1>2, <2>1, <2>2 DEF Fibers
  <2>4. gs \in Seq(Frames) /\ x \in Frames /\ fs = Append(gs, x) /\ ~x.seen
    BY <2>1, <2>2, FramesFront
  <2>5. SeenIn(gs) = SeenIn(fs) /\ \A i \in SeenIn(gs) : fs[i] = gs[i]
    <3> HIDE DEF gs, x, fs
    <3>1. SeenIn(Append(gs, x)) = SeenIn(gs) /\ \A i \in SeenIn(gs) : Append(gs, x)[i] = gs[i]
      BY <2>4, UnseenAppend
    <3> QED
      BY <2>4, <3>1
  <2>6. ASSUME prof.live PROVE Mirrors(prof, gs, slot)
    <3>1. Mirrors(prof, fs, slot)
      BY <2>1, <2>6
    <3> HIDE DEF gs, fs
    <3> QED
      BY <2>5, <3>1, MirrorSame
  <2> QED
    BY <2>1, <2>3, <2>6
<1>7. TableOf(cc, prof, handlers, slot)' /\ GoodCache(cc)'
  BY <1>2 DEF ProfilerInv
<1> QED
  BY <1>3, <1>4, <1>5, <1>6, <1>7 DEF ProfilerInv

\* An observed frame ends.
LEMMA SeenEnds ==
  ASSUME ProfilerInv, Run, Return, prof.on, NEW x, x = Last(frames[running]),
         handlers[x.file] = "both"
  PROVE  ProfilerInv'
<1>1. /\ serving # 0 /\ serving' = serving /\ req' = req /\ odd \in Nat /\ prof.live
      /\ Limits(prof) /\ TimesOK(prof, now) /\ now \in Nat
  BY Running
<1>2. /\ odd' = odd /\ running' = running /\ cc' = cc /\ handlers' = handlers
      /\ slot' = slot /\ now' = now /\ calls' = calls
      /\ frames[running] # <<>> /\ frames' = [frames EXCEPT ![running] = Front(@)]
      /\ prof' = ObserverEnd(prof, x.ed, slot[x.file], now)
  BY DEF Return
<1>3. /\ frames[running] \in Seq(Frames) /\ Front(frames[running]) \in Seq(Frames) /\ x \in Frames
      /\ frames[running] = Append(Front(frames[running]), x)
  BY <1>2, EngineParts, FramesFront DEF ProfilerInv
<1>4. x.file \in Files /\ slot[x.file] \in DOMAIN prof.comps /\ x.seen
  <2>1. x.file \in Files
    BY <1>3 DEF Frames
  <2>2. slot[x.file] \in DOMAIN prof.comps
    BY <1>1, <2>1 DEF ProfilerInv, TableOf
  <2>3. Len(frames[running]) \in DOMAIN frames[running]
        /\ x = frames[running][Len(frames[running])] /\ running \in Fibers
    <3>1. frames[running] \in Seq(Frames) /\ frames[running] # <<>> /\ running \in Fibers
      BY <1>2, EngineParts DEF ProfilerInv
    <3>2. x = frames[running][Len(frames[running])]
      BY DEF Last
    <3> QED
      BY <3>1, <3>2
  <2>4. x.seen
    BY <1>1, <2>3 DEF ProfilerInv, EngineOK
  <2> QED
    BY <2>1, <2>2, <2>4
<1>5. Ended(prof, prof', x.ed, slot[x.file], now)
  BY <1>1, <1>2, <1>4, EndCloses
<1>6. /\ Unwound(prof, prof', now) /\ prof'.overflow = prof.overflow
      /\ ~prof.overflow /\ DepthsOK(prof) => DepthsOK(prof')
  BY <1>5 DEF Ended
<1>7. /\ prof'.live = prof.live /\ prof'.given = prof.given /\ prof'.on = prof.on
      /\ prof'.pending = prof.pending /\ prof'.map = prof.map /\ Limits(prof')
      /\ Len(prof'.comps) = Len(prof.comps)
      /\ \A k \in DOMAIN prof.comps : prof'.comps[k].name = prof.comps[k].name
  BY <1>6 DEF Unwound
<1>8. DOMAIN prof'.comps = DOMAIN prof.comps
  <2>1. DOMAIN prof'.comps = 1 .. Len(prof'.comps) /\ DOMAIN prof.comps = 1 .. Len(prof.comps)
    BY <1>1, <1>7, ProfileParts
  <2> QED
    BY <1>7, <2>1
<1>9. Ledger(prof, now, odd)'
  <2>1. Ledger(prof, now, odd)
    BY DEF ProfilerInv
  <2>2. prof.live /\ ~prof.overflow => DepthsOK(prof)
    BY <2>1 DEF Ledger
  <2>3. prof'.live /\ ~prof'.overflow => DepthsOK(prof')
    BY <1>6, <1>7, <2>2
  <2>4. prof.overflow => prof'.overflow
    BY <1>6
  <2>5. Ledger(prof', now, odd)
    BY <1>1, <1>6, <2>1, <2>3, <2>4, KeptLedger
  <2> QED
    BY <1>2, <2>5
<1>10. StageOK'
  BY <1>1, <1>7, StageSame
<1>11. EngineOK'
  <2>1. EngineOK
    BY DEF ProfilerInv
  <2>2. UNCHANGED <<handlers, slot, running, now, calls>> /\ odd' \in Nat
    BY <1>1, <1>2
  <2> QED
    BY <1>1, <1>2, <1>7, <2>1, <2>2, EnginePopped
<1>12. MirrorOK'
  <2> SUFFICES ASSUME odd = 0
               PROVE  /\ running = "main" /\ frames'["fiber"] = <<>>
                      /\ Mirrors(prof', frames'["main"], slot)
    BY <1>2 DEF MirrorOK
  <2>1. /\ running = "main" /\ frames["fiber"] = <<>> /\ Mirrors(prof, frames["main"], slot)
    BY <1>1 DEF ProfilerInv, MirrorOK
  <2> DEFINE gs == Front(frames["main"])
  <2>2. frames \in [Fibers -> Seq(Frames)]
    BY EngineParts DEF ProfilerInv
  <2>3. frames'["main"] = gs /\ frames'["fiber"] = <<>>
    BY <1>2, <2>1, <2>2 DEF Fibers
  <2>4. gs \in Seq(Frames) /\ Mirrors(prof, Append(gs, x), slot)
    BY <1>3, <2>1
  <2> HIDE DEF gs
  <2>5. Mirrors(prof', gs, slot)
    BY <1>1, <1>3, <1>4, <1>5, <1>7, <2>4, MirrorPop
  <2> QED
    BY <2>1, <2>3, <2>5
<1>13. TableOf(cc, prof, handlers, slot)'
  <2>1. TableOf(cc, prof, handlers, slot)
    BY DEF ProfilerInv
  <2>2. /\ \A y \in 0 .. NamesMax - 1 : prof.map[y] # 0 => prof.map[y] \in DOMAIN prof.comps
        /\ CompMax \in DOMAIN prof.comps \/ Len(prof.comps) # CompMax
    BY <1>1, TableWithin
  <2>3. TableOf(cc, prof', handlers, slot)
    BY <1>7, <1>8, <2>1, <2>2, TableSame
  <2> QED
    BY <1>2, <2>3
<1>14. GoodCache(cc)'
  BY <1>2 DEF ProfilerInv
<1> QED
  BY <1>9, <1>10, <1>11, <1>12, <1>13, <1>14 DEF ProfilerInv

\* The return of a function keeps the invariant.
LEMMA ReturnProfiles ==
  ASSUME ProfilerInv, Run, Return
  PROVE  ProfilerInv'
<1> DEFINE x == Last(frames[running])
<1>1. prof' = IF handlers[x.file] = "both" THEN ObserverEnd(prof, x.ed, slot[x.file], now) ELSE prof
  BY DEF Return
<1>2. CASE prof.on /\ handlers[x.file] = "both"
  BY <1>2, SeenEnds
<1>3. CASE ~(prof.on /\ handlers[x.file] = "both")
  <2>1. prof' = prof
    BY <1>1, <1>3 DEF ObserverEnd
  <2>2. ~x.seen
    <3>1. frames[running] \in Seq(Frames) /\ frames[running] # <<>> /\ running \in Fibers
      BY EngineParts DEF ProfilerInv, Return
    <3>2. /\ Len(frames[running]) \in DOMAIN frames[running]
          /\ x = frames[running][Len(frames[running])]
      BY <3>1 DEF Last
    <3>3. serving # 0
      BY Running
    <3> HIDE DEF x
    <3> QED
      BY <1>3, <3>1, <3>2, <3>3 DEF ProfilerInv, EngineOK
  <2> QED
    BY <2>1, <2>2, UnseenEnds
<1> QED
  BY <1>2, <1>3

\* The table stays right when the cache learns a name.
LEMMA TableGrown ==
  ASSUME NEW c, GoodCache(c), NEW d, GoodCache(d), Grown(c, d),
         NEW p, NEW h, NEW sl, TableOf(c, p, h, sl)
  PROVE  TableOf(d, p, h, sl)
<1>1. /\ Len(c.names) \in Nat /\ Len(d.names) \in Nat /\ DOMAIN c.names = 1 .. Len(c.names)
      /\ NamesMax \in Nat \ {0} /\ Len(c.names) <= Len(d.names) /\ Len(d.names) < NamesMax
  BY CacheParts DEF GoodCache, Grown
<1>2. Len(c.names) = NamesMax - 1 => Len(d.names) = NamesMax - 1
  BY <1>1
<1>3. ASSUME NEW x \in 0 .. NamesMax - 1, x < Len(c.names)
      PROVE  x < Len(d.names) /\ NameOf(d, x) = NameOf(c, x)
  <2>1. x + 1 \in DOMAIN c.names /\ x # NamesMax - 1 /\ x < Len(d.names)
    BY <1>1, <1>3
  <2>2. d.names[x + 1] = c.names[x + 1]
    BY <2>1 DEF Grown
  <2> QED
    BY <2>1, <2>2 DEF NameOf
<1>4. NameOf(d, NamesMax - 1) = NameOf(c, NamesMax - 1)
  BY DEF NameOf
<1>5. ASSUME p.live, NEW x \in 0 .. NamesMax - 1, p.map[x] # 0
      PROVE  /\ x < Len(d.names) \/ (x = NamesMax - 1 /\ Len(d.names) = NamesMax - 1)
             /\ \/ p.comps[p.map[x]].name = NameOf(d, x)
                \/ p.comps[p.map[x]].name = Other /\ Len(p.comps) = CompMax
  <2>1. /\ x < Len(c.names) \/ (x = NamesMax - 1 /\ Len(c.names) = NamesMax - 1)
        /\ \/ p.comps[p.map[x]].name = NameOf(c, x)
           \/ p.comps[p.map[x]].name = Other /\ Len(p.comps) = CompMax
    BY <1>5 DEF TableOf
  <2>2. CASE x < Len(c.names)
    BY <1>3, <2>1, <2>2
  <2>3. CASE x = NamesMax - 1 /\ Len(c.names) = NamesMax - 1
    BY <1>2, <1>4, <2>1, <2>3
  <2> QED
    BY <2>1, <2>2, <2>3
<1>6. ASSUME NEW f \in Files, h[f] = "both"
      PROVE  /\ Classify(f) # Unclassified
             /\ p.live => sl[f] \in DOMAIN p.comps /\ Belongs(d, p, f, sl[f])
  BY <1>2, <1>6 DEF TableOf, Belongs
<1>7. p.live => LastOther(p)
  BY DEF TableOf
<1> QED
  BY <1>5, <1>6, <1>7 DEF TableOf

\* The table stays right when a function gets its component.
LEMMA TableRoomed ==
  ASSUME NEW c, GoodCache(c), NEW f \in Files, NEW x, Tells(c, x, f), x # NonePidx,
         NEW p, NEW q, NEW t, NEW o, NEW h, NEW sl, TableOf(c, p, h, sl), Limits(p), p.live,
         Roomed(p, q, c, x, t, o), h \in [Files -> {"unset", "none", "both"}],
         sl \in [Files -> 0 .. CompMax]
  PROVE  TableOf(c, q, [h EXCEPT ![f] = "both"], [sl EXCEPT ![f] = q.map[x]])
<1>1. /\ x \in 0 .. NamesMax - 1 /\ Classify(f) # Unclassified
      /\ x < Len(c.names) \/ (x = NamesMax - 1 /\ Len(c.names) = NamesMax - 1)
      /\ NameOf(c, x) = Classify(f) \/ (NameOf(c, x) = Other /\ Len(c.names) = NamesMax - 1)
  <2>1. c \in Caches /\ Len(c.names) < NamesMax
    BY DEF GoodCache
  <2> QED
    BY <2>1, ToldName
<1>2. /\ Limits(q) /\ LastOther(q) /\ q.live = p.live /\ Len(p.comps) <= Len(q.comps)
      /\ \A k \in DOMAIN p.comps : q.comps[k] = p.comps[k]
      /\ q.map[x] \in DOMAIN q.comps
      /\ \A y \in 0 .. NamesMax - 1 : y # x => q.map[y] = p.map[y]
      /\ p.map[x] # 0 => q.map[x] = p.map[x]
      /\ p.map[x] = 0 => \/ q.comps[q.map[x]].name = NameOf(c, x)
                         \/ q.comps[q.map[x]].name = Other /\ Len(q.comps) = CompMax
  BY DEF Roomed, Ledger
<1>3. /\ Len(p.comps) \in Nat /\ Len(q.comps) \in Nat /\ Len(q.comps) <= CompMax /\ CompMax \in Nat
      /\ DOMAIN p.comps = 1 .. Len(p.comps) /\ DOMAIN q.comps = 1 .. Len(q.comps)
      /\ Len(p.comps) <= Len(q.comps)
  BY <1>2, ProfileParts, ProfilerAssumption DEF Limits
<1>4. Len(p.comps) = CompMax => Len(q.comps) = CompMax
  BY <1>3
<1>5. DOMAIN p.comps \subseteq DOMAIN q.comps
  BY <1>3
<1>6. ASSUME NEW y \in 0 .. NamesMax - 1, p.map[y] # 0
      PROVE  /\ y < Len(c.names) \/ (y = NamesMax - 1 /\ Len(c.names) = NamesMax - 1)
             /\ q.map[y] = p.map[y]
             /\ \/ q.comps[q.map[y]].name = NameOf(c, y)
                \/ q.comps[q.map[y]].name = Other /\ Len(q.comps) = CompMax
  <2>1. /\ y < Len(c.names) \/ (y = NamesMax - 1 /\ Len(c.names) = NamesMax - 1)
        /\ \/ p.comps[p.map[y]].name = NameOf(c, y)
           \/ p.comps[p.map[y]].name = Other /\ Len(p.comps) = CompMax
    BY <1>6 DEF TableOf
  <2>2. p.map[y] \in DOMAIN p.comps
    BY <1>6, TableWithin
  <2>3. q.map[y] = p.map[y]
    BY <1>2, <1>6
  <2>4. q.comps[q.map[y]] = p.comps[p.map[y]]
    BY <1>2, <2>2, <2>3
  <2> QED
    BY <1>4, <2>1, <2>3, <2>4
<1>7. /\ q.comps[q.map[x]].name = NameOf(c, x)
         \/ (q.comps[q.map[x]].name = Other /\ Len(q.comps) = CompMax)
  BY <1>1, <1>2, <1>6
<1>8. \A y \in 0 .. NamesMax - 1 : q.map[y] # 0 =>
        /\ y < Len(c.names) \/ (y = NamesMax - 1 /\ Len(c.names) = NamesMax - 1)
        /\ \/ q.comps[q.map[y]].name = NameOf(c, y)
           \/ q.comps[q.map[y]].name = Other /\ Len(q.comps) = CompMax
  <2> TAKE y \in 0 .. NamesMax - 1
  <2> HAVE q.map[y] # 0
  <2>1. CASE y = x
    BY <1>1, <1>7, <2>1
  <2>2. CASE y # x
    BY <1>2, <1>6, <2>2
  <2> QED
    BY <2>1, <2>2
<1> DEFINE h2 == [h EXCEPT ![f] = "both"]
           sl2 == [sl EXCEPT ![f] = q.map[x]]
<1>9. /\ h2[f] = "both" /\ sl2[f] = q.map[x]
      /\ \A g \in Files : g # f => h2[g] = h[g] /\ sl2[g] = sl[g]
  OBVIOUS
<1> HIDE DEF h2, sl2
<1>10. \A g \in Files : h2[g] = "both" =>
         /\ Classify(g) # Unclassified
         /\ q.live => sl2[g] \in DOMAIN q.comps /\ Belongs(c, q, g, sl2[g])
  <2> TAKE g \in Files
  <2> HAVE h2[g] = "both"
  <2>1. CASE g = f
    <3>1. Belongs(c, q, f, q.map[x])
      BY <1>1, <1>7 DEF Belongs
    <3> QED
      BY <1>1, <1>2, <1>9, <2>1, <3>1
  <2>2. CASE g # f
    <3>1. h[g] = "both" /\ sl2[g] = sl[g]
      BY <1>9, <2>2
    <3>2. Classify(g) # Unclassified /\ sl[g] \in DOMAIN p.comps /\ Belongs(c, p, g, sl[g])
      BY <3>1 DEF TableOf
    <3>3. q.comps[sl[g]] = p.comps[sl[g]]
      BY <1>2, <3>2
    <3>4. Belongs(c, q, g, sl[g])
      BY <1>4, <3>2, <3>3 DEF Belongs
    <3> QED
      BY <1>5, <3>1, <3>2, <3>4
  <2> QED
    BY <2>1, <2>2
<1>11. TableOf(c, q, h2, sl2)
  BY <1>2, <1>8, <1>10 DEF TableOf
<1> QED
  BY <1>11 DEF h2, sl2

\* The frames of all fibers when one is added.
LEMMA FramePushed ==
  ASSUME EngineOK, NEW x \in Frames, Pushed(x)
  PROVE  /\ frames' \in [Fibers -> Seq(Frames)] /\ calls' \in 0 .. MaxCalls
         /\ Len(frames'["main"]) + Len(frames'["fiber"]) <= calls'
         /\ \A b \in Fibers : \A i \in DOMAIN frames'[b] :
              \/ i \in DOMAIN frames[b] /\ frames'[b][i] = frames[b][i]
              \/ frames'[b][i] = x
<1> DEFINE fs == frames[running]
           gs == Append(fs, x)
<1>1. /\ frames \in [Fibers -> Seq(Frames)] /\ running \in Fibers /\ fs \in Seq(Frames)
      /\ frames["main"] \in Seq(Frames) /\ frames["fiber"] \in Seq(Frames)
  BY EngineParts
<1>2. calls \in Nat /\ MaxCalls \in Nat /\ calls < MaxCalls /\ calls' = calls + 1
  BY EngineParts, ProfilerAssumption DEF Pushed
<1>3. calls' \in 0 .. MaxCalls
  BY <1>2
<1>4. /\ gs \in Seq(Frames) /\ Len(gs) = Len(fs) + 1
      /\ \A i \in DOMAIN gs : (i \in DOMAIN fs /\ gs[i] = fs[i]) \/ gs[i] = x
  <2> HIDE DEF fs
  <2>1. gs \in Seq(Frames) /\ Len(gs) = Len(fs) + 1 /\ Len(fs) \in Nat
    BY <1>1
  <2>2. DOMAIN gs = 1 .. Len(fs) + 1 /\ DOMAIN fs = 1 .. Len(fs)
    BY <1>1, <2>1
  <2>3. \A i \in 1 .. Len(fs) : gs[i] = fs[i]
    BY <1>1
  <2>4. gs[Len(fs) + 1] = x
    BY <1>1
  <2>5. \A i \in 1 .. Len(fs) + 1 : i \in 1 .. Len(fs) \/ i = Len(fs) + 1
    BY <2>1
  <2> QED
    BY <2>1, <2>2, <2>3, <2>4, <2>5
<1>5. frames' = [frames EXCEPT ![running] = gs]
  BY DEF Pushed
<1> HIDE DEF gs
<1>6. /\ frames' \in [Fibers -> Seq(Frames)] /\ frames'[running] = gs
      /\ \A b \in Fibers : b # running => frames'[b] = frames[b]
  BY <1>1, <1>4, <1>5
<1>7. \A b \in Fibers : \A i \in DOMAIN frames'[b] :
        \/ i \in DOMAIN frames[b] /\ frames'[b][i] = frames[b][i]
        \/ frames'[b][i] = x
  BY <1>4, <1>6
<1>8. Len(frames'["main"]) + Len(frames'["fiber"]) <= calls'
  <2> DEFINE m == Len(frames["main"])
             k == Len(frames["fiber"])
             g == Len(gs)
  <2>1. m \in Nat /\ k \in Nat /\ m + k <= calls
    <3>1. m \in Nat /\ k \in Nat
      BY <1>1
    <3>2. m + k <= calls
      BY DEF EngineOK
    <3> QED
      BY <3>1, <3>2
  <2>2. running = "main" \/ running = "fiber"
    BY <1>1 DEF Fibers
  <2>3. CASE running = "main"
    <3>1. frames'["main"] = gs /\ frames'["fiber"] = frames["fiber"] /\ fs = frames["main"]
      BY <1>6, <2>3 DEF Fibers
    <3> HIDE DEF fs
    <3>2. g = m + 1
      BY <1>4, <3>1
    <3> HIDE DEF m, k, g
    <3>3. g + k <= calls'
      BY <1>2, <2>1, <3>2
    <3> QED
      BY <3>1, <3>3 DEF g, k
  <2>4. CASE running = "fiber"
    <3>1. frames'["fiber"] = gs /\ frames'["main"] = frames["main"] /\ fs = frames["fiber"]
      BY <1>6, <2>4 DEF Fibers
    <3> HIDE DEF fs
    <3>2. g = k + 1
      BY <1>4, <3>1
    <3> HIDE DEF m, k, g
    <3>3. m + g <= calls'
      BY <1>2, <2>1, <3>2
    <3> QED
      BY <3>1, <3>3 DEF g, m
  <2> QED
    BY <2>2, <2>3, <2>4
<1> QED
  BY <1>3, <1>6, <1>7, <1>8

\* What the engine's part needs when a frame comes.
LEMMA EnginePushed ==
  ASSUME EngineOK, serving # 0, serving' = serving, NEW x \in Frames, Pushed(x),
         NEW v \in {"none", "both"}, handlers' = [handlers EXCEPT ![x.file] = v],
         handlers[x.file] \in {"unset", v}, slot' \in [Files -> 0 .. CompMax],
         x.seen <=> prof'.on /\ v = "both",
         prof'.on = prof.on \/ prof.pending,
         prof'.pending => prof.pending /\ v # "both"
  PROVE  EngineOK'
<1>1. /\ frames' \in [Fibers -> Seq(Frames)] /\ calls' \in 0 .. MaxCalls
      /\ Len(frames'["main"]) + Len(frames'["fiber"]) <= calls'
      /\ \A b \in Fibers : \A i \in DOMAIN frames'[b] :
           \/ i \in DOMAIN frames[b] /\ frames'[b][i] = frames[b][i]
           \/ frames'[b][i] = x
  BY FramePushed
<1>2. /\ handlers \in [Files -> {"unset", "none", "both"}] /\ x.file \in Files
      /\ frames \in [Fibers -> Seq(Frames)]
  BY EngineParts DEF Frames
<1>3. /\ handlers' \in [Files -> {"unset", "none", "both"}]
      /\ handlers'[x.file] = v
      /\ \A g \in Files : g # x.file => handlers'[g] = handlers[g]
      /\ \A g \in Files : handlers[g] # "unset" => handlers'[g] = handlers[g]
  BY <1>2
<1>4. /\ running' \in Fibers /\ now' \in Nat /\ odd' \in Nat
  BY DEF Pushed, EngineOK
<1>5. prof.pending => \A f \in Files : handlers[f] # "both"
  BY DEF EngineOK
<1>6. prof'.pending => \A f \in Files : handlers'[f] # "both"
  BY <1>3, <1>5
<1>7. ASSUME NEW b \in Fibers, NEW i \in DOMAIN frames'[b]
      PROVE  /\ handlers'[frames'[b][i].file] # "unset"
             /\ frames'[b][i].seen => prof'.on /\ handlers'[frames'[b][i].file] = "both"
             /\ prof'.on /\ handlers'[frames'[b][i].file] = "both" => frames'[b][i].seen
  <2>1. CASE frames'[b][i] = x
    BY <1>3, <2>1
  <2>2. CASE i \in DOMAIN frames[b] /\ frames'[b][i] = frames[b][i]
    <3> DEFINE y == frames[b][i]
    <3>1. /\ handlers[y.file] # "unset"
          /\ y.seen => prof.on /\ handlers[y.file] = "both"
          /\ prof.on /\ handlers[y.file] = "both" => y.seen
      BY <2>2 DEF EngineOK
    <3>2. y.file \in Files
      <4>1. frames[b] \in Seq(Frames) /\ i \in DOMAIN frames[b]
        BY <1>2, <2>2
      <4>2. y \in Frames
        BY <4>1
      <4> QED
        BY <4>2 DEF Frames
    <3>3. handlers'[y.file] = handlers[y.file]
      BY <1>3, <3>1, <3>2
    <3>4. prof.pending => handlers[y.file] # "both"
      BY <1>5, <3>2
    <3>5. frames'[b][i] = y
      BY <2>2
    <3> HIDE DEF y
    <3> QED
      BY <3>1, <3>3, <3>4, <3>5
  <2> QED
    BY <1>1, <2>1, <2>2
<1>8. \A b \in Fibers : \A i \in DOMAIN frames'[b] :
        LET y == frames'[b][i]
        IN /\ handlers'[y.file] # "unset"
           /\ y.seen => prof'.on /\ handlers'[y.file] = "both"
           /\ prof'.on /\ handlers'[y.file] = "both" => y.seen
  BY <1>7
<1> QED
  BY <1>1, <1>3, <1>4, <1>6, <1>8 DEF EngineOK

\* A call that is not observed.
LEMMA UnseenCall ==
  ASSUME ProfilerInv, Run, NEW x \in Frames, Pushed(x), ~x.seen, prof' = prof, slot' = slot,
         GoodCache(cc'), Grown(cc, cc'), NEW v \in {"none", "both"},
         handlers' = [handlers EXCEPT ![x.file] = v],
         \/ v = "none" /\ handlers[x.file] # "both"
         \/ v = "both" /\ handlers[x.file] = "both" /\ ~prof.on
  PROVE  ProfilerInv'
<1>1. serving # 0 /\ serving' = serving /\ req' = req
  BY Running
<1>2. /\ EngineOK /\ handlers \in [Files -> {"unset", "none", "both"}]
      /\ slot \in [Files -> 0 .. CompMax]
      /\ x.file \in Files
  BY EngineParts DEF ProfilerInv, Frames
<1>3. now' = now /\ odd' = odd /\ running' = running
  BY DEF Pushed
<1>4. Ledger(prof, now, odd)'
  BY <1>3 DEF ProfilerInv
<1>5. StageOK'
  BY <1>1, StageSame
<1>6. EngineOK'
  <2>1. handlers[x.file] \in {"unset", v}
    BY <1>2
  <2>2. prof.pending => handlers[x.file] # "both"
    BY <1>2 DEF EngineOK
  <2>3. prof'.pending => prof.pending /\ v # "both"
    BY <2>2
  <2>4. x.seen <=> prof'.on /\ v = "both"
    OBVIOUS
  <2>5. slot' \in [Files -> 0 .. CompMax] /\ (prof'.on = prof.on \/ prof.pending)
    BY <1>2
  <2> QED
    BY <1>1, <1>2, <2>1, <2>3, <2>4, <2>5, EnginePushed
<1>7. MirrorOK'
  <2> SUFFICES ASSUME odd = 0
               PROVE  /\ running = "main" /\ frames'["fiber"] = <<>>
                      /\ prof.live => Mirrors(prof, frames'["main"], slot)
    BY <1>3 DEF MirrorOK
  <2>1. /\ running = "main" /\ frames["fiber"] = <<>>
        /\ prof.live => Mirrors(prof, frames["main"], slot)
    BY DEF ProfilerInv, MirrorOK
  <2> DEFINE fs == frames["main"]
             gs == Append(fs, x)
  <2>2. fs \in Seq(Frames) /\ frames \in [Fibers -> Seq(Frames)]
    BY <1>2, EngineParts
  <2>3. frames'["main"] = gs /\ frames'["fiber"] = <<>>
    BY <2>1, <2>2 DEF Fibers, Pushed
  <2>4. SeenIn(gs) = SeenIn(fs) /\ \A i \in SeenIn(fs) : gs[i] = fs[i]
    BY <2>2, UnseenAppend
  <2>5. ASSUME prof.live PROVE Mirrors(prof, gs, slot)
    <3>1. Mirrors(prof, fs, slot)
      BY <2>1, <2>5
    <3> HIDE DEF gs, fs
    <3> QED
      BY <2>4, <3>1, MirrorSame
  <2> QED
    BY <2>1, <2>3, <2>5
<1>8. TableOf(cc, prof, handlers, slot)'
  <2>1. TableOf(cc', prof, handlers, slot)
    BY TableGrown DEF ProfilerInv
  <2>2. \A f \in Files : handlers'[f] = "both" => handlers[f] = "both"
    BY <1>2
  <2>3. TableOf(cc', prof, handlers', slot)
    BY <2>1, <2>2 DEF TableOf
  <2> QED
    BY <2>3
<1> QED
  BY <1>4, <1>5, <1>6, <1>7, <1>8 DEF ProfilerInv

\* A call that is observed: p is the profile with the component s of the file in it.
LEMMA SeenCall ==
  ASSUME ProfilerInv, Run, NEW f \in Files, NEW match \in BOOLEAN, NEW x \in Frames,
         NEW p, NEW s \in DOMAIN p.comps, Observed(f, match, x, p, s)
  PROVE  ProfilerInv'
<1>0. /\ calls < MaxCalls /\ x.ed = FreeEd /\ x.file = f /\ (x.seen <=> prof'.on) /\ Pushed(x)
      /\ Ledger(p, now, odd) /\ p.live /\ prof.live /\ p.given /\ p.on = prof.on
      /\ p.pending = prof.pending /\ p.stack = prof.stack /\ p.over = prof.over
      /\ prof' = ObserverBegin(p, FreeEd, s, now, match)
      /\ GoodCache(cc') /\ TableOf(cc', p, handlers', slot') /\ slot'[f] = s
      /\ slot' \in [Files -> 0 .. CompMax] /\ handlers' = [handlers EXCEPT ![f] = "both"]
      /\ handlers[f] \in {"unset", "both"}
      /\ odd = 0 => Mirrors(p, frames["main"], slot')
  BY DEF Observed
<1> USE <1>0
<1>1. /\ serving # 0 /\ serving' = serving /\ req' = req /\ now \in Nat
      /\ p.pending => ~p.on
  BY Running
<1>2. EngineOK /\ StageOK
  BY DEF ProfilerInv
<1>3. now' = now /\ odd' = odd /\ running' = running
  BY DEF Pushed
<1>4. /\ p.on \/ p.pending
      /\ ~p.on => p.stack = <<>> /\ p.over = 0
      /\ req.on
  BY <1>1, <1>2 DEF StageOK
<1>5. FreeEd \in 1 .. MaxCalls
  BY <1>2, FreeIsFree
<1>6. Begun(p, prof', FreeEd, s, now, odd, match)
  BY <1>1, <1>4, <1>5, BeginOpens
<1>7. /\ Ledger(prof', now, odd) /\ prof'.given = p.given /\ prof'.map = p.map
      /\ Len(prof'.comps) = Len(p.comps)
      /\ \A k \in DOMAIN p.comps : prof'.comps[k].name = p.comps[k].name
      /\ ~prof'.pending /\ prof'.on = (IF p.pending THEN match ELSE TRUE) /\ prof'.live = prof'.on
      /\ prof'.on => /\ OnStack(p, prof', FreeEd, s)
                     /\ \A k \in DOMAIN p.comps :
                          prof'.comps[k].depth = p.comps[k].depth + (IF k = s THEN 1 ELSE 0)
      /\ ~prof'.on => prof'.stack = p.stack /\ prof'.over = p.over
  BY <1>6 DEF Begun
<1>8. /\ Limits(p) /\ Limits(prof') /\ prof'.on \in BOOLEAN /\ DOMAIN prof'.comps = DOMAIN p.comps
  <2>1. Limits(p) /\ Limits(prof')
    BY <1>7 DEF Ledger
  <2>2. /\ DOMAIN prof'.comps = 1 .. Len(prof'.comps) /\ DOMAIN p.comps = 1 .. Len(p.comps)
        /\ prof'.on \in BOOLEAN
    BY <2>1, ProfileParts
  <2> QED
    BY <1>7, <2>1, <2>2
<1>9. x \in Frames /\ x.ed = FreeEd /\ x.file = f /\ (x.seen <=> prof'.on)
  OBVIOUS
<1>10. StageOK'
  <2>1. ~p.on => p.pending
    BY <1>4
  <2> QED
    BY <1>1, <1>4, <1>7, <2>1 DEF StageOK
<1>11. EngineOK'
  <2>1. prof'.on = prof.on \/ prof.pending
    BY <1>4, <1>7
  <2>2. ~prof'.pending
    BY <1>7
  <2> QED
    BY <1>1, <1>2, <1>9, <2>1, <2>2, EnginePushed
<1>12. MirrorOK'
  <2> SUFFICES ASSUME odd = 0
               PROVE  /\ running = "main" /\ frames'["fiber"] = <<>>
                      /\ prof'.on => Mirrors(prof', frames'["main"], slot')
    BY <1>3, <1>7 DEF MirrorOK
  <2>1. running = "main" /\ frames["fiber"] = <<>>
    BY DEF ProfilerInv, MirrorOK
  <2> DEFINE fs == frames["main"]
  <2>2. fs \in Seq(Frames) /\ frames \in [Fibers -> Seq(Frames)]
    BY <1>2, EngineParts
  <2>3. frames'["main"] = Append(fs, x) /\ frames'["fiber"] = <<>>
    BY <2>1, <2>2 DEF Fibers, Pushed
  <2>4. Mirrors(p, fs, slot')
    OBVIOUS
  <2> HIDE DEF fs
  <2>5. ASSUME prof'.on PROVE Mirrors(prof', Append(fs, x), slot')
    <3>1. Topped(p, prof', fs, x, slot', s)
      BY <1>7, <1>8, <1>9, <2>2, <2>4, <2>5 DEF Topped
    <3> QED
      BY <3>1, MirrorPush
  <2> QED
    BY <2>1, <2>3, <2>5
<1>13. TableOf(cc, prof, handlers, slot)'
  <2>1. /\ \A y \in 0 .. NamesMax - 1 : p.map[y] # 0 => p.map[y] \in DOMAIN p.comps
        /\ CompMax \in DOMAIN p.comps \/ Len(p.comps) # CompMax
    BY <1>8, TableWithin
  <2>2. TableOf(cc', prof', handlers', slot')
    BY <1>7, <1>8, <2>1, TableSame
  <2> QED
    BY <2>2
<1>14. Ledger(prof, now, odd)'
  BY <1>3, <1>7
<1> QED
  BY <1>10, <1>11, <1>12, <1>13, <1>14 DEF ProfilerInv

\* The profile of a function that is asked about for the first time.
LEMMA Asked ==
  ASSUME ProfilerInv, Run, NEW f \in Files, NEW c, NEW k, NEW p, Asking(f, c, k, p)
  PROVE  /\ Ledger(p, now, odd) /\ p.live /\ p.given /\ p.on = prof.on
         /\ p.pending = prof.pending /\ p.stack = prof.stack /\ p.over = prof.over
         /\ p.map[k] \in DOMAIN p.comps /\ p.map[k] \in 0 .. CompMax
         /\ TableOf(c, p, [handlers EXCEPT ![f] = "both"], [slot EXCEPT ![f] = p.map[k]])
         /\ odd = 0 => Mirrors(p, frames["main"], [slot EXCEPT ![f] = p.map[k]])
<1>0. /\ handlers[f] = "unset" /\ prof.live /\ GoodCache(c) /\ Grown(cc, c) /\ Tells(c, k, f)
      /\ k # NonePidx /\ p = CompForPidx(prof, c, k)
  BY DEF Asking
<1> USE <1>0
<1>1. /\ serving # 0 /\ now \in Nat /\ odd \in Nat /\ Limits(prof)
  BY Running
<1>2. /\ Ledger(prof, now, odd) /\ TableOf(cc, prof, handlers, slot) /\ EngineOK /\ StageOK
      /\ GoodCache(cc) /\ MirrorOK
  BY DEF ProfilerInv
<1>3. /\ handlers \in [Files -> {"unset", "none", "both"}] /\ slot \in [Files -> 0 .. CompMax]
      /\ frames["main"] \in Seq(Frames)
  BY <1>2, EngineParts
<1>4. k \in 0 .. NamesMax - 1 /\ NameOf(c, k) \in Names
  <2>1. c \in Caches /\ Len(c.names) < NamesMax
    BY DEF GoodCache
  <2> QED
    BY <2>1, ToldName
<1>5. TableOf(c, prof, handlers, slot)
  BY <1>2, TableGrown
<1>6. LastOther(prof)
  BY <1>5 DEF TableOf
<1>7. Roomed(prof, p, c, k, now, odd)
  BY <1>1, <1>2, <1>4, <1>6, RoomFor
<1>8. TableOf(c, p, [handlers EXCEPT ![f] = "both"], [slot EXCEPT ![f] = p.map[k]])
  BY <1>1, <1>3, <1>5, <1>7, TableRoomed
<1>9. /\ Ledger(p, now, odd) /\ p.live = prof.live /\ p.given = prof.given /\ p.on = prof.on
      /\ p.pending = prof.pending /\ p.stack = prof.stack /\ p.over = prof.over
      /\ p.map[k] \in DOMAIN p.comps
      /\ \A i \in DOMAIN prof.comps : p.comps[i] = prof.comps[i]
      /\ \A i \in DOMAIN p.comps : i \notin DOMAIN prof.comps => p.comps[i].depth = 0
  BY <1>7 DEF Roomed
<1>10. prof.given
  BY <1>2 DEF StageOK
<1>11. p.map[k] \in 0 .. CompMax
  <2>1. p.map \in [0 .. NamesMax - 1 -> 0 .. CompMax]
    BY <1>9, ProfileParts DEF Ledger
  <2> QED
    BY <1>4, <2>1
<1> DEFINE fs == frames["main"]
           sl == [slot EXCEPT ![f] = p.map[k]]
<1>12. ASSUME odd = 0 PROVE Mirrors(p, fs, sl)
  <2>1. Mirrors(prof, fs, slot)
    BY <1>2, <1>12 DEF MirrorOK
  <2>2. ASSUME NEW i \in SeenIn(fs)
        PROVE  sl[fs[i].file] = slot[fs[i].file] /\ slot[fs[i].file] \in DOMAIN prof.comps
    <3>1. i \in DOMAIN fs /\ fs[i].seen
      BY <2>2 DEF SeenIn
    <3>2. fs[i] \in Frames
      BY <1>3, <3>1
    <3>3. fs[i].file \in Files
      BY <3>2 DEF Frames
    <3>4. "main" \in Fibers
      BY DEF Fibers
    <3>5. handlers[fs[i].file] = "both"
      BY <1>1, <1>2, <3>1, <3>4 DEF EngineOK
    <3>6. fs[i].file # f
      BY <3>5
    <3>7. slot[fs[i].file] \in DOMAIN prof.comps
      BY <1>2, <3>3, <3>5 DEF TableOf
    <3>8. sl[fs[i].file] = slot[fs[i].file]
      BY <1>3, <3>3, <3>6
    <3> QED
      BY <3>7, <3>8
  <2> HIDE DEF sl, fs
  <2>3. \A i \in SeenIn(fs) : fs[i].ed = fs[i].ed /\ sl[fs[i].file] = slot[fs[i].file]
    BY <2>2
  <2>4. \A i \in DOMAIN p.comps :
          IF i \in DOMAIN prof.comps THEN p.comps[i].depth = prof.comps[i].depth
          ELSE p.comps[i].depth = 0 /\ \A j \in SeenIn(fs) : slot[fs[j].file] # i
    BY <1>9, <2>2
  <2> QED
    BY <1>9, <2>1, <2>3, <2>4, MirrorSame
<1> QED
  BY <1>8, <1>9, <1>10, <1>11, <1>12

\* The call of a function keeps the invariant.
LEMMA CallProfiles ==
  ASSUME ProfilerInv, Run, NEW f \in Files, NEW match \in BOOLEAN, Call(f, match)
  PROVE  ProfilerInv'
<1> DEFINE ask == handlers[f] = "unset" /\ prof.live
           c == IF ask THEN Looked(f) ELSE cc
           k == PidxFor(f)
           observed == IF ask THEN k # NonePidx ELSE handlers[f] = "both"
           p == IF ask /\ observed THEN CompForPidx(prof, c, k) ELSE prof
           s == IF ask /\ observed THEN p.map[k] ELSE slot[f]
           x == [ed |-> FreeEd, file |-> f, seen |-> observed /\ prof'.on]
<1>1. /\ calls < MaxCalls /\ cc' = c /\ slot' = [slot EXCEPT ![f] = s]
      /\ handlers' = [handlers EXCEPT ![f] = IF observed THEN "both" ELSE "none"]
      /\ prof' = (IF observed THEN ObserverBegin(p, FreeEd, s, now, match) ELSE p)
      /\ Pushed(x)
  BY DEF Call, Pushed
<1>2. /\ EngineOK /\ GoodCache(cc) /\ TableOf(cc, prof, handlers, slot) /\ StageOK
      /\ Ledger(prof, now, odd) /\ MirrorOK
  BY DEF ProfilerInv
<1>3. /\ handlers \in [Files -> {"unset", "none", "both"}] /\ slot \in [Files -> 0 .. CompMax]
  BY <1>2, EngineParts
<1>4. FreeEd \in 1 .. MaxCalls
  BY <1>1, <1>2, FreeIsFree
<1>5. /\ x \in Frames /\ x.ed = FreeEd /\ x.file = f /\ (x.seen <=> observed /\ prof'.on)
  BY <1>4 DEF Frames
<1>6. GoodCache(c) /\ Grown(cc, c) /\ (ask => Tells(c, k, f))
  <2>1. CASE ask
    BY <1>2, <2>1, Looking
  <2>2. CASE ~ask
    <3>1. Grown(cc, cc)
      <4>1. cc \in Caches /\ Len(cc.names) < NamesMax
        BY <1>2 DEF GoodCache
      <4>2. Len(cc.names) \in Nat
        BY <4>1, CacheParts
      <4> QED
        BY <4>1, <4>2 DEF Grown
    <3> QED
      BY <1>2, <2>2, <3>1
  <2> QED
    BY <2>1, <2>2
<1>7. prof.on => prof.live
  BY Running
<1>8. CASE ~observed
  <2>1. prof' = prof /\ s = slot[f] /\ handlers' = [handlers EXCEPT ![f] = "none"]
    BY <1>1, <1>8
  <2>2. slot' = slot
    BY <1>1, <1>3, <2>1
  <2>3. handlers[f] # "both"
    BY <1>8
  <2>4. GoodCache(cc') /\ Grown(cc, cc') /\ Pushed(x) /\ ~x.seen
    BY <1>1, <1>5, <1>6, <1>8
  <2> HIDE DEF x, c, p, s, observed, ask
  <2> QED
    BY <1>5, <2>1, <2>2, <2>3, <2>4, UnseenCall
<1>9. CASE observed /\ ~ask
  <2>1. /\ handlers[f] = "both" /\ p = prof /\ s = slot[f] /\ cc' = cc
        /\ handlers' = [handlers EXCEPT ![f] = "both"]
        /\ prof' = ObserverBegin(prof, FreeEd, slot[f], now, match)
        /\ (x.seen <=> prof'.on)
    BY <1>1, <1>5, <1>9
  <2>2. slot' = slot /\ handlers' = handlers
    BY <1>1, <1>3, <2>1
  <2>3. GoodCache(cc') /\ Grown(cc, cc') /\ Pushed(x)
    BY <1>1, <1>6
  <2> HIDE DEF x, c, p, s, observed, ask
  <2>4. CASE ~prof.live
    <3>1. prof' = prof
      BY <2>1, <2>4 DEF ObserverBegin
    <3>2. ~prof.on /\ ~x.seen
      BY <1>7, <2>1, <2>4, <3>1
    <3> QED
      BY <1>5, <2>1, <2>2, <2>3, <3>1, <3>2, UnseenCall
  <2>5. CASE prof.live
    <3>1. slot[f] \in DOMAIN prof.comps /\ prof.given
      BY <1>2, <2>1, <2>5 DEF TableOf, StageOK
    <3>2. odd = 0 => Mirrors(prof, frames["main"], slot')
      BY <1>2, <2>2, <2>5 DEF MirrorOK
    <3>3. TableOf(cc', prof, handlers', slot') /\ slot' \in [Files -> 0 .. CompMax]
          /\ slot'[f] = slot[f]
      BY <1>2, <1>3, <2>1, <2>2
    <3> QED
      BY <1>1, <1>2, <1>5, <2>1, <2>3, <2>5, <3>1, <3>2, <3>3, SeenCall DEF Observed
  <2> QED
    BY <2>4, <2>5
<1>10. CASE observed /\ ask
  <2>1. /\ handlers[f] = "unset" /\ prof.live /\ k # NonePidx /\ Tells(c, k, f)
        /\ p = CompForPidx(prof, c, k) /\ s = p.map[k]
        /\ handlers' = [handlers EXCEPT ![f] = "both"]
        /\ prof' = ObserverBegin(p, FreeEd, s, now, match)
        /\ (x.seen <=> prof'.on)
    BY <1>1, <1>5, <1>6, <1>10
  <2> HIDE DEF x, c, p, s, observed, ask, k
  <2>2. /\ Ledger(p, now, odd) /\ p.live /\ p.given /\ p.on = prof.on
        /\ p.pending = prof.pending /\ p.stack = prof.stack /\ p.over = prof.over
        /\ p.map[k] \in DOMAIN p.comps /\ p.map[k] \in 0 .. CompMax
        /\ TableOf(c, p, [handlers EXCEPT ![f] = "both"], [slot EXCEPT ![f] = p.map[k]])
        /\ odd = 0 => Mirrors(p, frames["main"], [slot EXCEPT ![f] = p.map[k]])
    <3>1. Asking(f, c, k, p)
      BY <1>6, <2>1 DEF Asking
    <3> QED
      BY <3>1, Asked
  <2>3. /\ slot' = [slot EXCEPT ![f] = p.map[k]] /\ cc' = c
        /\ s \in DOMAIN p.comps /\ s \in 0 .. CompMax
    BY <1>1, <2>1, <2>2
  <2>4. /\ GoodCache(cc') /\ TableOf(cc', p, handlers', slot') /\ slot'[f] = s
        /\ slot' \in [Files -> 0 .. CompMax]
        /\ odd = 0 => Mirrors(p, frames["main"], slot')
    BY <1>3, <1>6, <2>1, <2>2, <2>3
  <2>5. s \in DOMAIN p.comps /\ Observed(f, match, x, p, s)
    BY <1>1, <1>5, <2>1, <2>2, <2>3, <2>4 DEF Observed
  <2> QED
    BY <1>5, <2>5, SeenCall
<1> QED
  BY <1>8, <1>9, <1>10

-----------------------------------------------------------------------------
(* The theorems.                                                           *)

\* Every step keeps the invariant.
LEMMA ProfilesKept ==
  ASSUME WorkerInv, ProfilerInv, [Next]_vars
  PROVE  ProfilerInv'
<1>1. ProcOK /\ RecorderOK
  BY DEF WorkerInv
<1>2. CASE Spawn
  BY <1>1, <1>2, SpawnProfiles
<1>3. CASE Stop \/ Others \/ TimePasses \/ UNCHANGED vars
  <2>1. UNCHANGED profVars
    BY <1>3 DEF Stop, Others, TimePasses, vars
  <2>2. serving' = serving /\ req' = req
    BY <1>3 DEF Stop, Others, TimePasses, vars, ownVars, recVars
  <2> QED
    BY <2>1, <2>2, LeftAlone
<1>4. CASE Die
  BY <1>4, DieProfiles
<1>5. CASE Begin
  BY <1>5, BeginProfiles
<1>6. CASE Record
  <2>1. UNCHANGED profVars
    BY <1>6 DEF Record
  <2>2. serving' = serving
    BY <1>6 DEF Record, ownVars
  <2>3. req'.on = req.on
    BY <1>1, <1>6, CallTyped
  <2> QED
    BY <2>1, <2>2, <2>3, LeftAlone
<1>7. CASE Run
  <2>1. \/ Tick \/ Return \/ LoseFrame \/ SwitchFiber
        \/ \E f \in Files, match \in BOOLEAN : Call(f, match)
    BY <1>7 DEF Run
  <2>2. ASSUME NEW f \in Files, NEW match \in BOOLEAN, Call(f, match) PROVE ProfilerInv'
    BY <1>7, <2>2, CallProfiles
  <2> QED
    BY <1>7, <2>1, <2>2, TickProfiles, ReturnProfiles, LoseProfiles, SwitchProfiles
<1>8. CASE End
  BY <1>8, EndProfiles
<1> QED
  BY <1>2, <1>3, <1>4, <1>5, <1>6, <1>7, <1>8 DEF Next

\* What the invariant says of a profile.
LEMMA InvExact ==
  ASSUME ProfilerInv
  PROVE  ProfileExact
<1> SUFFICES ASSUME prof.on PROVE ProfileExact
  BY DEF ProfileExact
<1>1. Limits(prof) /\ TimesOK(prof, now) /\ Accounts(prof, now, odd)
  BY DEF ProfilerInv, Ledger
<1>2. odd = 0 => \A c \in DOMAIN prof.comps :
        prof.comps[c].incl + (IF prof.comps[c].depth > 0 THEN now - prof.comps[c].enter ELSE 0)
          = prof.comps[c].wasOpen
  BY <1>1 DEF Accounts, InclOf
<1>3. odd = 0 /\ ~prof.overflow => \A c \in DOMAIN prof.comps :
        prof.comps[c].self + OpenSelf(prof, c, now) = prof.comps[c].wasTop
  BY <1>1 DEF Accounts, Own
<1>4. ~prof.overflow /\ prof.live =>
        /\ \A c \in DOMAIN prof.comps :
             prof.comps[c].depth = Cardinality({i \in DOMAIN prof.stack : prof.stack[i].comp = c})
        /\ SumFunction([c \in DOMAIN prof.comps |-> prof.comps[c].self + OpenSelf(prof, c, now)])
             = prof.busy
  BY <1>1 DEF ProfilerInv, Ledger, DepthsOK, Of, Accounts, Own
<1>5. ~prof.live => \A c \in DOMAIN prof.comps :
        prof.comps[c].self <= prof.comps[c].incl /\ prof.comps[c].incl <= now
  <2>1. ~prof.live => \A c \in DOMAIN prof.comps :
          prof.comps[c].depth = 0 /\ prof.comps[c].self <= prof.comps[c].incl
    BY DEF ProfilerInv, StageOK
  <2> QED
    BY <1>1, <2>1 DEF TimesOK, Behind
<1> DEFINE self == [c \in DOMAIN prof.comps |-> prof.comps[c].self + OpenSelf(prof, c, now)]
<1>6. /\ DOMAIN self = DOMAIN prof.comps
      /\ \A c \in DOMAIN prof.comps : self[c] = prof.comps[c].self + OpenSelf(prof, c, now)
  OBVIOUS
<1>7. odd = 0 /\ ~prof.overflow => \A c \in DOMAIN prof.comps : self[c] = prof.comps[c].wasTop
  BY <1>3, <1>6
<1>8. ~prof.overflow /\ prof.live => SumFunction(self) = prof.busy
  BY <1>4
<1> HIDE DEF self
<1>9. ~prof.overflow /\ prof.live => \A c \in DOMAIN prof.comps :
        prof.comps[c].depth = Cardinality({i \in DOMAIN prof.stack : prof.stack[i].comp = c})
  BY <1>4
<1> QED
  BY <1>2, <1>5, <1>7, <1>8, <1>9 DEF ProfileExact, self

\* What it says of the components and of the cache.
LEMMA InvRightComponent ==
  ASSUME ProfilerInv
  PROVE  RightComponent
<1>1. /\ GoodCache(cc) /\ TableOf(cc, prof, handlers, slot)
  BY DEF ProfilerInv
<1>2. \A i \in DOMAIN cc.slots : cc.slots[i] # Unused =>
        /\ IF cc.slots[i].pidx = NonePidx THEN Classify(cc.slots[i].file) = Unclassified
           ELSE NameOf(cc, cc.slots[i].pidx) \in {Classify(cc.slots[i].file), Other}
        /\ Find(cc, cc.slots[i].file) # {}
  BY <1>1, CacheTrusted
<1>3. \A f \in Files : handlers[f] = "both" =>
        /\ Classify(f) # Unclassified
        /\ prof.live => Belongs(cc, prof, f, slot[f])
  BY <1>1 DEF TableOf
<1>4. ASSUME NEW f \in Files, prof.live, Belongs(cc, prof, f, slot[f])
      PROVE  \/ prof.comps[slot[f]].name = Classify(f)
             \/ /\ prof.comps[slot[f]].name = Other
                /\ Len(cc.names) = NamesMax - 1 \/ Len(prof.comps) = CompMax
  BY <1>4 DEF Belongs
<1> QED
  BY <1>2, <1>3, <1>4 DEF RightComponent

\* What both say of the types.
LEMMA InvTyped ==
  ASSUME WorkerInv, ProfilerInv
  PROVE  TypeOK
<1>1. serving \in Users \union {0} /\ proc.ring \in Users \union {0}
  BY DEF WorkerInv, ProcOK, Procs
<1>2. file.slot \in 0 .. MaxCrashes /\ DOMAIN file.times = Slots
  <2>1. file \in [times : [Slots -> Nat], slot : Nat, disabled : BOOLEAN]
    BY DEF WorkerInv, HealthInv, HealthOK
  <2>2. \E n \in 0 .. MaxCrashes : file.slot <= n
    BY DEF WorkerInv, HealthInv, SlotsInv
  <2> QED
    BY <2>1, <2>2, HealthAssumption
<1>3. /\ Len(req.q.items) = req.q.alloc /\ req.q.alloc <= QueriesMax /\ req.q.count < Width
      /\ Len(req.h.items) = req.h.alloc /\ req.h.alloc <= HttpMax /\ req.h.count < Width
  BY DEF WorkerInv, RecorderOK, IsRequest, ListOK
<1>4. req.tracked = Cardinality({i \in DOMAIN req.tracks : req.tracks[i].active})
  BY DEF WorkerInv, RecorderOK, IsRequest, ActiveTracks
<1>5. Len(prof.comps) <= CompMax /\ Len(prof.stack) <= StackMax
  BY DEF ProfilerInv, Ledger, Limits
<1>6. Len(cc.names) < NamesMax
  BY DEF ProfilerInv, GoodCache
<1>7. prof.live => prof.given
  BY DEF ProfilerInv, StageOK
<1>8. req.on => proc.up /\ serving # 0
  BY DEF WorkerInv, ProcOK
<1> QED
  BY <1>1, <1>2, <1>3, <1>4, <1>5, <1>6, <1>7, <1>8 DEF TypeOK

\* The invariant of the profiler, which rests on that of the process around it.
LEMMA ProfilesInvariant == Spec => [](WorkerInv /\ ProfilerInv)
<1>1. Init => WorkerInv /\ ProfilerInv
  BY WorkerStarts, ProfilesStart
<1>2. WorkerInv /\ ProfilerInv /\ [Next]_vars => (WorkerInv /\ ProfilerInv)'
  BY WorkerKept, ProfilesKept
<1> QED
  BY <1>1, <1>2, PTL DEF Spec

\* No array of a request holds more than its limit, the tracked transfers are counted right, and
\* a profile runs only in a request that got one (hooks_*.c, hooks_profiler.c): however many calls a
\* script makes, however deep it nests, whatever the sizes.
THEOREM WorkerTypeCorrect == Spec => []TypeOK
<1>1. WorkerInv /\ ProfilerInv => TypeOK
  BY InvTyped
<1> QED
  BY <1>1, ProfilesInvariant, PTL

\* A profile tells the truth: what the observer charges to a component is the time its frames
\* were open and the time it ran innermost as long as frames end in order, and the depths and
\* the sum of the own times stay right however generators are lost and fibers switched
\* (hooks_profiler.c, phpray_observer_begin and _end).
THEOREM ProfilesAreExact == Spec => []ProfileExact
<1>1. WorkerInv /\ ProfilerInv => ProfileExact
  BY InvExact
<1> QED
  BY <1>1, ProfilesInvariant, PTL

\* Time is charged to the component of the file that runs: however the cache of paths is
\* filled, evicted and probed, and whatever runs out of room, a file outside the component
\* directories is not observed and any other gets its own component, or "other" when a table is
\* full (hooks_profiler.c, phpray_comp_for_pidx).
THEOREM ComponentsAreRight == Spec => []RightComponent
<1>1. WorkerInv /\ ProfilerInv => RightComponent
  BY InvRightComponent
<1> QED
  BY <1>1, ProfilesInvariant, PTL

\* Both together.
THEOREM ProfilesAreTrue == Spec => []ProfileTruthful
<1>1. ProfileExact /\ RightComponent => ProfileTruthful
  BY DEF ProfileTruthful
<1> QED
  BY <1>1, ProfilesAreExact, ComponentsAreRight, PTL

-----------------------------------------------------------------------------
(* How long calls took.                                                    *)

\* No call takes no time.
LEMMA TotalEmpty == Total(<<>>) = 0
<1>1. <<>> \in Seq(Timed) /\ Len(<<>>) = 0 /\ \A i \in 1 .. Len(<<>>) : <<>>[i].dur \in Nat
  OBVIOUS
<1>2. PICK p \in [0 .. Len(<<>>) -> Nat] : p[0] = 0 /\ p[Len(<<>>)] = TimesTotal(<<>>)
  BY <1>1, TimesSteps
<1>3. Total(<<>>) = TimesTotal(<<>>)
  BY DEF Total, TimesTotal, FoldLeft, MapThenFoldSet
<1> QED
  BY <1>1, <1>2, <1>3

\* One call more adds its time.
LEMMA TotalAppend ==
  ASSUME NEW s \in Seq(Timed), NEW c \in Timed
  PROVE  Total(s) \in Nat /\ Total(Append(s, c)) = Total(s) + c.dur
<1>1. c.dur \in Nat /\ \A i \in 1 .. Len(s) : s[i].dur \in Nat
  <2>1. \A x \in Timed : x.dur \in Nat
    BY DEF Timed
  <2>2. \A i \in 1 .. Len(s) : s[i] \in Timed
    OBVIOUS
  <2> QED
    BY <2>1, <2>2
<1>2. \A x : Total(x) = TimesTotal(x)
  BY DEF Total, TimesTotal, FoldLeft, MapThenFoldSet
<1> QED
  BY <1>1, <1>2, TimesAppend

-----------------------------------------------------------------------------
(* What a request remembers is what it did.                                *)

\* The parts of an array.
LEMMA ListParts ==
  ASSUME NEW max \in Nat, NEW l, ListOK(l, max)
  PROVE  /\ l.count \in Nat /\ l.alloc \in Nat /\ l.items \in Seq(Entry) /\ l.total \in Nat
         /\ l.count < Width /\ Len(l.items) = l.alloc /\ l.alloc <= max
         /\ DOMAIN l.items = 1 .. l.alloc
         /\ \A i \in 1 .. l.alloc : l.items[i] \in Entry
<1>1. /\ l.count \in Nat /\ l.alloc \in Nat /\ l.items \in Seq(Entry) /\ l.total \in Nat
      /\ l.count < Width /\ Len(l.items) = l.alloc /\ l.alloc <= max
  BY DEF ListOK, Lists
<1> QED
  BY <1>1

\* Recording a call tells one more.
LEMMA PutTells ==
  ASSUME NEW max \in Nat, NEW first \in 1 .. max, max < Width,
         NEW l, ListOK(l, max), NEW d \in Seq(Timed), ListTells(l, d, max),
         NEW item \in Entry, NEW c, c = [what |-> item.what, dur |-> item.dur]
  PROVE  /\ c \in Timed /\ Append(d, c) \in Seq(Timed)
         /\ ListTells(Put(l, item, first, max), Append(d, c), max)
<1> DEFINE a == Room(l, first, max)
           at == IF l.count >= max THEN 0 ELSE l.count + 1
           entry(i) == IF i = at THEN item ELSE IF i <= l.alloc THEN l.items[i] ELSE Blank
           p == Put(l, item, first, max)
           n == Len(d)
           e == Append(d, c)
<1>1. c \in Timed /\ c.what = item.what /\ c.dur = item.dur /\ item.dur \in Nat
  BY DEF Entry, Timed
<1>2. /\ e \in Seq(Timed) /\ n \in Nat /\ Len(e) = n + 1 /\ e[n + 1] = c
      /\ \A i \in 1 .. n : e[i] = d[i]
  BY <1>1
<1>3. /\ l.count \in Nat /\ l.alloc \in Nat /\ l.alloc <= max /\ l.total \in Nat
      /\ Width \in Nat \ {0} /\ max \in Nat
  BY ListParts, RecorderAssumption
<1>4. p.count = (l.count + 1) % Width /\ p.alloc = a /\ p.total = l.total + item.dur
      /\ p.items = [i \in 1 .. a |-> entry(i)]
  BY DEF Put
<1> HIDE DEF p, e, n
<1>5. p.total = Total(e)
  BY <1>1, <1>4, TotalAppend DEF ListTells, e
<1>6. p.count = Len(e) % Width
  <2>1. l.count = n % Width
    BY DEF ListTells, n
  <2>2. ((n % Width) + 1) % Width = (n + 1) % Width
    BY <1>2, <1>3, OneMore
  <2> QED
    BY <1>2, <1>4, <2>1, <2>2
<1>7. ASSUME Len(e) < Width
      PROVE  /\ Min({Len(e), max}) <= a
             /\ \A i \in 1 .. Min({Len(e), max}) :
                  p.items[i].what = e[i].what /\ p.items[i].dur = e[i].dur
  <2>1. n < Width /\ n + 1 < Width
    BY <1>2, <1>3, <1>7
  <2>2. l.count = n
    BY <1>2, <1>3, <2>1, OneMore DEF ListTells, n
  <2>3. /\ (IF n <= max THEN n ELSE max) <= l.alloc
        /\ \A i \in 1 .. (IF n <= max THEN n ELSE max) :
             l.items[i].what = d[i].what /\ l.items[i].dur = d[i].dur
    <3>1. Min({n, max}) = IF n <= max THEN n ELSE max
      BY <1>2, MinOfTwo
    <3> QED
      BY <2>1, <3>1 DEF ListTells, n
  <2>4. Min({Len(e), max}) = IF n + 1 <= max THEN n + 1 ELSE max
    BY <1>2, MinOfTwo
  <2>5. Min({2 * l.alloc, max}) = IF 2 * l.alloc <= max THEN 2 * l.alloc ELSE max
    BY <1>3, MinOfTwo
  <2>6. a \in Nat /\ (IF n + 1 <= max THEN n + 1 ELSE max) <= a
    <3>1. CASE l.alloc = 0
      BY <1>2, <1>3, <2>3, <3>1 DEF Room
    <3>2. CASE l.alloc # 0 /\ n >= l.alloc /\ l.alloc < max
      <4>1. a = Min({2 * l.alloc, max})
        BY <2>2, <3>2 DEF Room
      <4> HIDE DEF a
      <4> QED
        BY <1>2, <1>3, <2>3, <2>5, <3>2, <4>1
    <3>3. CASE l.alloc # 0 /\ ~(n >= l.alloc /\ l.alloc < max)
      <4>1. a = l.alloc
        BY <2>2, <3>3 DEF Room
      <4> HIDE DEF a
      <4> QED
        BY <1>2, <1>3, <2>3, <3>3, <4>1
    <3> QED
      BY <3>1, <3>2, <3>3
  <2> HIDE DEF a
  <2>7. ASSUME NEW i \in 1 .. (IF n + 1 <= max THEN n + 1 ELSE max)
        PROVE  p.items[i].what = e[i].what /\ p.items[i].dur = e[i].dur
    <3>1. i \in 1 .. a /\ i \in Nat /\ i >= 1
      BY <1>2, <1>3, <2>6
    <3>2. p.items[i] = entry(i)
      BY <1>4, <3>1
    <3>3. CASE i = n + 1
      <4>0. n + 1 <= max
        BY <1>2, <1>3, <2>7, <3>3
      <4>1. at = i
        BY <1>2, <1>3, <2>2, <3>3, <4>0
      <4> QED
        BY <1>1, <1>2, <3>2, <3>3, <4>1
    <3>4. CASE i # n + 1
      <4>1. i \in 1 .. (IF n <= max THEN n ELSE max) /\ i \in 1 .. n /\ i <= l.alloc /\ i # at
        BY <1>2, <1>3, <2>2, <2>3, <2>7, <3>4
      <4>2. p.items[i] = l.items[i]
        BY <3>2, <4>1
      <4> QED
        BY <1>2, <2>3, <4>1, <4>2
    <3> QED
      BY <3>3, <3>4
  <2> QED
    BY <2>4, <2>6, <2>7
<1> QED
  BY <1>1, <1>2, <1>4, <1>5, <1>6, <1>7 DEF ListTells, e, p

\* What the writers of a trace look at is the first calls.
LEMMA KeptTells ==
  ASSUME NEW max \in Nat, NEW l, ListOK(l, max), NEW d \in Seq(Timed), ListTells(l, d, max)
  PROVE  /\ Kept(l) \in Seq(Entry)
         /\ Len(d) < Width =>
              /\ Len(Kept(l)) = Len(FirstOf(d, max))
              /\ Plain(Kept(l)) = FirstOf(d, max)
              /\ l.count = Len(d)
<1> DEFINE n == Len(d)
           k == IF l.count <= l.alloc THEN l.count ELSE l.alloc
           m == IF n <= max THEN n ELSE max
<1>1. /\ l.count \in Nat /\ l.alloc \in Nat /\ l.items \in Seq(Entry) /\ l.alloc <= max
      /\ Len(l.items) = l.alloc /\ Width \in Nat \ {0} /\ n \in Nat
      /\ \A i \in 1 .. l.alloc : l.items[i] \in Entry
  BY SMTT(40), ListParts, RecorderAssumption
<1>2. Kept(l) = SubSeq(l.items, 1, k)
  <2>1. Min({l.count, l.alloc}) = k
    BY <1>1, MinOfTwo
  <2> QED
    BY <2>1 DEF Kept
<1>3. k \in 0 .. l.alloc
  BY <1>1
<1>4. /\ SubSeq(l.items, 1, k) \in Seq(Entry) /\ Len(SubSeq(l.items, 1, k)) = k
      /\ \A i \in 1 .. k : SubSeq(l.items, 1, k)[i] = l.items[i]
  <2> HIDE DEF k
  <2> QED
    BY <1>1, <1>3
<1>5. ASSUME n < Width
      PROVE  /\ Len(Kept(l)) = Len(FirstOf(d, max))
             /\ Plain(Kept(l)) = FirstOf(d, max) /\ l.count = n
  <2>1. l.count = n
    BY <1>1, <1>5, OneMore DEF ListTells
  <2>2. Min({n, max}) = m
    BY <1>1, MinOfTwo
  <2>3. m <= l.alloc /\ \A i \in 1 .. m : l.items[i].what = d[i].what /\ l.items[i].dur = d[i].dur
    BY <1>5, <2>2 DEF ListTells
  <2>4. k = m /\ m \in 0 .. n
    BY <1>1, <2>1, <2>3
  <2>5. FirstOf(d, max) = SubSeq(d, 1, m)
    BY <2>2 DEF FirstOf
  <2> HIDE DEF m, k
  <2>6. /\ SubSeq(d, 1, m) \in Seq(Timed) /\ Len(SubSeq(d, 1, m)) = m
        /\ \A i \in 1 .. m : SubSeq(d, 1, m)[i] = d[i] /\ d[i] \in Timed
    BY <1>1, <2>4
  <2> DEFINE x == SubSeq(l.items, 1, k)
             y == SubSeq(d, 1, m)
  <2>7. x \in Seq(Entry) /\ Len(x) = m /\ \A i \in 1 .. m : x[i] = l.items[i]
    BY <1>4, <2>4
  <2>8. y \in Seq(Timed) /\ Len(y) = m /\ \A i \in 1 .. m : y[i] = d[i] /\ d[i] \in Timed
    BY <2>6
  <2> HIDE DEF x, y
  <2>9. DOMAIN x = 1 .. m /\ DOMAIN y = 1 .. m
    BY <2>7, <2>8
  <2>10. \A i \in 1 .. m : [what |-> x[i].what, dur |-> x[i].dur] = y[i]
    <3> TAKE i \in 1 .. m
    <3>1. x[i].what = y[i].what /\ x[i].dur = y[i].dur
      BY <2>3, <2>7, <2>8
    <3>2. y[i] \in Timed
      BY <2>8
    <3> QED
      BY <3>1, <3>2 DEF Timed
  <2>11. Plain(x) = y
    <3>1. Plain(x) = [i \in 1 .. m |-> [what |-> x[i].what, dur |-> x[i].dur]]
      BY <2>9 DEF Plain
    <3>2. y = [i \in 1 .. m |-> y[i]]
      BY <2>8, <2>9
    <3> QED
      BY <2>10, <3>1, <3>2
  <2> QED
    BY <1>2, <2>1, <2>5, <2>7, <2>8, <2>11 DEF x, y
<1> QED
  BY <1>2, <1>4, <1>5

\* The first of a sequence that grows by one.
LEMMA FirstAppend ==
  ASSUME NEW V, NEW s \in Seq(V), NEW x \in V, NEW n \in Nat
  PROVE  /\ FirstOf(s, n) \in Seq(V)
         /\ Len(FirstOf(s, n)) = IF Len(s) <= n THEN Len(s) ELSE n
         /\ \A i \in 1 .. Len(FirstOf(s, n)) : FirstOf(s, n)[i] = s[i]
         /\ FirstOf(Append(s, x), n) =
              IF Len(FirstOf(s, n)) < n THEN Append(FirstOf(s, n), x) ELSE FirstOf(s, n)
<1>1. \A t : FirstOf(t, n) = HeadOf(t, n)
  BY DEF FirstOf, HeadOf
<1> QED
  BY <1>1, HeadAppend

\* Recording an HTTP call adds it to what was recorded.
LEMMA HttpPutTells ==
  ASSUME NEW h, ListOK(h, HttpMax), NEW s \in Seq(Timed), ListTells(h, s, HttpMax), NEW url \in Nat
  PROVE  \E q \in Seq(Timed) :
           /\ ListTells(HttpNoted(h, url), q, HttpMax) /\ Len(q) = Len(s) + 1
           /\ q[Len(s) + 1].what = url /\ \A i \in 1 .. Len(s) : q[i] = s[i]
<1> DEFINE c == [what |-> url, dur |-> 1]
           q == Append(s, c)
           item == HttpItem(url)
<1>1. HttpMax \in Nat /\ HttpFirst \in 1 .. HttpMax /\ HttpMax < Width
  BY RecorderAssumption
<1>2. item \in Entry /\ c = [what |-> item.what, dur |-> item.dur]
  BY DEF Entry, HttpItem
<1> HIDE DEF item
<1>3. c \in Timed /\ q \in Seq(Timed) /\ ListTells(Put(h, item, HttpFirst, HttpMax), q, HttpMax)
  <2> HIDE DEF c
  <2> QED
    BY <1>1, <1>2, PutTells
<1>4. Len(q) = Len(s) + 1 /\ q[Len(s) + 1] = c /\ \A i \in 1 .. Len(s) : q[i] = s[i]
  <2> HIDE DEF c
  <2> QED
    BY <1>3
<1>5. q[Len(s) + 1].what = url
  BY <1>4
<1> HIDE DEF q
<1> QED
  BY <1>3, <1>4, <1>5 DEF HttpNoted, item

\* A call of its own.
LEMMA HttpOnce ==
  ASSUME NEW h, ListOK(h, HttpMax), NEW n \in Nat, NEW t, NEW http, IsFiniteSet(http),
         NEW closed, NEW e, HttpTells(h, n, t, http, closed, e),
         NEW url \in Nat, url \notin http
  PROVE  HttpTells(HttpNoted(h, url), n, t, http \union {url}, closed, e)
<1>1. PICK s : HttpIs(s, h, n, t, http, closed, e)
  BY DEF HttpTells
<1>2. PICK q \in Seq(Timed) :
        /\ ListTells(HttpNoted(h, url), q, HttpMax) /\ Len(q) = Len(s) + 1
        /\ q[Len(s) + 1].what = url /\ \A i \in 1 .. Len(s) : q[i] = s[i]
  BY <1>1, HttpPutTells DEF HttpIs
<1>3. Len(s) \in Nat /\ Cardinality(http \union {url}) = Len(q) + n
  <2>1. Cardinality(http \union {url}) = Cardinality(http) + 1
    BY FS_AddElement
  <2>2. Len(s) \in Nat
    BY <1>1 DEF HttpIs
  <2> QED
    BY <1>1, <1>2, <2>1, <2>2 DEF HttpIs
<1>4. ASSUME ~closed PROVE NamesTell(q, t, http \union {url}, e)
  <2>1. NamesTell(s, t, http, e)
    BY <1>1, <1>4 DEF HttpIs
  <2>2. \A i \in 1 .. Len(q) : i \in 1 .. Len(s) \/ i = Len(s) + 1
    BY <1>2, <1>3
  <2>3. \A i \in 1 .. Len(s) : q[i].what = s[i].what /\ q[i].what \in http
    BY <1>2, <2>1 DEF NamesTell
  <2>4. ASSUME NEW i \in 1 .. Len(q)
        PROVE  /\ q[i].what \in http \union {url}
               /\ \A j \in 1 .. Len(q) : q[i].what = q[j].what => i = j
    BY <1>2, <2>1, <2>2, <2>3 DEF NamesTell
  <2>5. \A i \in ActiveIn(t) : \A j \in 1 .. Len(q) : q[j].what # t[i].url
    BY <1>2, <2>1, <2>2, <2>3 DEF NamesTell
  <2> QED
    BY <2>1, <2>4, <2>5 DEF NamesTell
<1>5. HttpIs(q, HttpNoted(h, url), n, t, http \union {url}, closed, e)
  BY <1>2, <1>3, <1>4 DEF HttpIs
<1> QED
  BY <1>5 DEF HttpTells

\* A handle no active track is about may change.
LEMMA HttpElsewhere ==
  ASSUME NEW h, NEW n, NEW t, NEW http, NEW closed, NEW e, NEW f, NEW g,
         HttpTells(h, n, t, http, closed, e),
         ~closed => \A i \in ActiveIn(t) : t[i].easy # g,
         \A x \in Handles : x # g => f[x] = e[x]
  PROVE  HttpTells(h, n, t, http, closed, f)
<1>1. PICK s : HttpIs(s, h, n, t, http, closed, e)
  BY DEF HttpTells
<1>2. ASSUME ~closed PROVE NamesTell(s, t, http, f)
  <2>1. NamesTell(s, t, http, e)
    BY <1>1, <1>2 DEF HttpIs
  <2>2. \A i \in ActiveIn(t) : t[i].easy \in Handles /\ f[t[i].easy] = e[t[i].easy]
    BY <1>2, <2>1 DEF NamesTell
  <2> QED
    BY <2>1, <2>2 DEF NamesTell
<1>3. HttpIs(s, h, n, t, http, closed, f)
  BY <1>1, <1>2 DEF HttpIs
<1> QED
  BY <1>3 DEF HttpTells

\* A transfer that begins to be tracked.
LEMMA HttpTracked ==
  ASSUME NEW h, NEW n \in Nat, NEW t \in [1 .. MultiMax -> Tracks], NEW http, IsFiniteSet(http),
         NEW closed, NEW e, HttpTells(h, n, t, http, closed, e),
         NEW url \in Nat, url \notin http, NEW g \in Handles, e[g].in, e[g].url = url,
         ~closed => \A i \in ActiveIn(t) : t[i].easy # g,
         NEW k \in 1 .. MultiMax, k \notin ActiveIn(t),
         NEW u, u = [t EXCEPT ![k] = [active |-> TRUE, easy |-> g, url |-> url]]
  PROVE  HttpTells(h, n + 1, u, http \union {url}, closed, e)
<1>1. PICK s : HttpIs(s, h, n, t, http, closed, e)
  BY DEF HttpTells
<1>2. Len(s) \in Nat /\ Cardinality(http \union {url}) = Len(s) + (n + 1)
  <2>1. Cardinality(http \union {url}) = Cardinality(http) + 1
    BY FS_AddElement
  <2>2. Len(s) \in Nat
    BY <1>1 DEF HttpIs
  <2> QED
    BY <1>1, <2>1, <2>2 DEF HttpIs
<1>3. /\ ActiveIn(u) = ActiveIn(t) \union {k} /\ u[k].url = url /\ u[k].easy = g
      /\ \A i \in ActiveIn(t) : u[i] = t[i]
  BY DEF ActiveIn
<1>4. ASSUME ~closed PROVE NamesTell(s, u, http \union {url}, e)
  <2>1. NamesTell(s, t, http, e)
    BY <1>1, <1>4 DEF HttpIs
  <2>2. \A i \in 1 .. Len(s) : s[i].what \in http /\ s[i].what # url
    BY <2>1 DEF NamesTell
  <2>3. \A i \in ActiveIn(t) : t[i].url # url /\ t[i].easy # g
    BY <1>4, <2>1 DEF NamesTell
  <2>4. ASSUME NEW i \in ActiveIn(u)
        PROVE  /\ u[i].url \in http \union {url} /\ u[i].easy \in Handles
               /\ e[u[i].easy].in /\ e[u[i].easy].url = u[i].url
               /\ \A j \in 1 .. Len(s) : s[j].what # u[i].url
    <3>1. CASE i = k
      BY <1>3, <2>2, <3>1
    <3>2. CASE i # k
      <4>1. i \in ActiveIn(t) /\ u[i] = t[i]
        BY <1>3, <3>2
      <4> QED
        BY <2>1, <4>1 DEF NamesTell
    <3> QED
      BY <3>1, <3>2
  <2>5. ASSUME NEW i \in ActiveIn(u), NEW j \in ActiveIn(u), u[j].url = u[i].url \/ u[j].easy = u[i].easy
        PROVE  j = i
    <3>1. CASE i = k \/ j = k
      BY ZenonT(40), <1>3, <2>3, <2>5, <3>1
    <3>2. CASE i # k /\ j # k
      <4>1. i \in ActiveIn(t) /\ u[i] = t[i] /\ j \in ActiveIn(t) /\ u[j] = t[j]
        BY <1>3, <3>2
      <4> QED
        BY <2>1, <2>5, <4>1 DEF NamesTell
    <3> QED
      BY <3>1, <3>2
  <2> QED
    BY <2>1, <2>2, <2>4, <2>5 DEF NamesTell
<1>5. HttpIs(s, h, n + 1, u, http \union {url}, closed, e)
  BY <1>1, <1>2, <1>4 DEF HttpIs
<1> QED
  BY <1>5 DEF HttpTells

\* A tracked transfer that is recorded.
LEMMA HttpDone ==
  ASSUME NEW h, ListOK(h, HttpMax), NEW n \in Nat \ {0}, NEW t \in [1 .. MultiMax -> Tracks],
         NEW http, NEW closed, NEW e, HttpTells(h, n, t, http, closed, e),
         NEW k \in ActiveIn(t), NEW url \in Nat, ~closed => url = t[k].url,
         NEW u, u \in [1 .. MultiMax -> Tracks], ~u[k].active,
         \A i \in 1 .. MultiMax : i # k => u[i] = t[i]
  PROVE  HttpTells(HttpNoted(h, url), n - 1, u, http, closed, e) /\ OthersOwn(closed, u, t, k)
<1>1. PICK s : HttpIs(s, h, n, t, http, closed, e)
  BY DEF HttpTells
<1>2. PICK q \in Seq(Timed) :
        /\ ListTells(HttpNoted(h, url), q, HttpMax) /\ Len(q) = Len(s) + 1
        /\ q[Len(s) + 1].what = url /\ \A i \in 1 .. Len(s) : q[i] = s[i]
  BY <1>1, HttpPutTells DEF HttpIs
<1>3. Len(s) \in Nat /\ Cardinality(http) = Len(q) + (n - 1)
  <2>1. Len(s) \in Nat
    BY <1>1 DEF HttpIs
  <2> QED
    BY <1>1, <1>2, <2>1 DEF HttpIs
<1>4. k \in 1 .. MultiMax /\ \A i \in ActiveIn(u) : i \in ActiveIn(t) /\ i # k /\ u[i] = t[i]
  BY DEF ActiveIn
<1>5. ASSUME ~closed
      PROVE  NamesTell(q, u, http, e) /\ \A i \in ActiveIn(u) : t[i].easy # t[k].easy
  <2>1. NamesTell(s, t, http, e) /\ url = t[k].url
    BY <1>1, <1>5 DEF HttpIs
  <2>2. \A i \in 1 .. Len(q) : i \in 1 .. Len(s) \/ i = Len(s) + 1
    BY <1>2, <1>3
  <2>3. \A i \in 1 .. Len(s) : q[i].what = s[i].what /\ q[i].what \in http /\ q[i].what # url
    BY <1>2, <2>1 DEF NamesTell
  <2>4. url \in http
    BY <2>1 DEF NamesTell
  <2>5. \A i \in 1 .. Len(q) :
          /\ q[i].what \in http
          /\ \A j \in 1 .. Len(q) : q[i].what = q[j].what => i = j
    <3>1. ASSUME NEW i \in 1 .. Len(s), NEW j \in 1 .. Len(s), q[i].what = q[j].what PROVE i = j
      BY <2>1, <2>3, <3>1 DEF NamesTell
    <3> QED
      BY <1>2, <2>2, <2>3, <2>4, <3>1
  <2>6. \A i \in ActiveIn(u) : t[i].url # url /\ t[i].easy # t[k].easy
    BY <1>4, <2>1 DEF NamesTell
  <2>7. \A i \in ActiveIn(u) : \A j \in 1 .. Len(q) : q[j].what # u[i].url
    BY <1>2, <1>4, <2>1, <2>2, <2>3, <2>6 DEF NamesTell
  <2>8. ASSUME NEW i \in ActiveIn(u)
        PROVE  /\ u[i].url \in http /\ u[i].easy \in Handles
               /\ e[u[i].easy].in /\ e[u[i].easy].url = u[i].url
               /\ \A j \in ActiveIn(u) : u[j].url = u[i].url \/ u[j].easy = u[i].easy => j = i
    BY <1>4, <2>1 DEF NamesTell
  <2> QED
    BY <2>5, <2>6, <2>7, <2>8 DEF NamesTell
<1>6. HttpIs(q, HttpNoted(h, url), n - 1, u, http, closed, e)
  BY <1>2, <1>3, <1>5 DEF HttpIs
<1> QED
  BY <1>5, <1>6 DEF HttpTells, OthersOwn

\* A multi handle that is closed takes its handles out.
LEMMA HttpClosed ==
  ASSUME NEW h, NEW n, NEW t, NEW http, NEW closed \in BOOLEAN, NEW e, NEW f,
         HttpTells(h, n, t, http, closed, e)
  PROVE  HttpTells(h, n, t, http, closed \/ ActiveIn(t) # {}, f)
<1>1. PICK s : HttpIs(s, h, n, t, http, closed, e)
  BY DEF HttpTells
<1>2. ASSUME ~closed, ActiveIn(t) = {} PROVE NamesTell(s, t, http, f)
  <2>1. NamesTell(s, t, http, e)
    BY <1>1, <1>2 DEF HttpIs
  <2> QED
    BY <1>2, <2>1 DEF NamesTell
<1>3. HttpIs(s, h, n, t, http, closed \/ ActiveIn(t) # {}, f)
  BY <1>1, <1>2 DEF HttpIs
<1> QED
  BY <1>3 DEF HttpTells

\* What recording an HTTP call changes.
LEMMA HttpRecorded ==
  ASSUME NEW r, IsRequest(r), NEW url \in Nat
  PROVE  LET q == RecordHttp(r, url)
         IN SameCalls(q, r) /\ q.h = HttpNoted(r.h, url) /\ q.tracks = r.tracks /\ q.tracked = r.tracked
<1>1. r \in Requests
  BY DEF IsRequest
<1>2. RecordHttp(r, url) = [r EXCEPT !.h = HttpNoted(r.h, url)]
  BY DEF RecordHttp, HttpNoted, HttpItem
<1> QED
  BY <1>1, <1>2 DEF Requests, SameCalls

\* What recording a tracked transfer changes.
LEMMA CompleteParts ==
  ASSUME NEW r, IsRequest(r), NEW h \in Handles, NEW again \in BOOLEAN, NEW url \in Nat,
         NEW q, q = Complete(r, h, again, url)
  PROVE  /\ SameCalls(q, r)
         /\ \/ q = r /\ \A i \in ActiveIn(r.tracks) : r.tracks[i].easy # h
            \/ \E k \in ActiveIn(r.tracks) :
                 Concludes(q, r, h, k, IF again THEN url ELSE r.tracks[k].url)
<1>0. DOMAIN r.tracks = 1 .. MultiMax
  BY RequestParts
<1>1. CASE FindTracks(r, h) = {}
  BY <1>0, <1>1 DEF Complete, FindTracks, ActiveIn, SameCalls
<1>2. CASE FindTracks(r, h) # {}
  <2> DEFINE k == Min(FindTracks(r, h))
             named == IF again THEN url ELSE r.tracks[k].url
             p == RecordHttp(r, named)
             t == [r.tracks[k] EXCEPT !.active = FALSE, !.easy = 0]
             n == IF r.tracked > 0 THEN r.tracked - 1 ELSE 0
             u == [r.tracks EXCEPT ![k] = t]
  <2>1. k \in FindTracks(r, h)
    <3>1. FindTracks(r, h) \in SUBSET Nat
      BY <1>0 DEF FindTracks
    <3> QED
      BY <1>2, <3>1, FirstTrack
  <2>2. /\ k \in 1 .. MultiMax /\ k \in ActiveIn(r.tracks) /\ r.tracks[k].easy = h
        /\ k \in ActiveTracks(r)
    BY <1>0, <2>1 DEF FindTracks, ActiveIn, ActiveTracks
  <2>3. r.tracks[k] \in Tracks /\ r.tracks[k].url \in Nat
    <3>1. r.tracks[k] \in Tracks
      BY <2>2, RequestParts
    <3> QED
      BY <3>1 DEF Tracks
  <2>4. named \in Nat
    BY <2>3
  <2> HIDE DEF k, named
  <2>5. /\ SameCalls(p, r) /\ p.h = HttpNoted(r.h, named) /\ p.tracks = r.tracks
        /\ p.tracked = r.tracked /\ IsRequest(p)
    BY <2>4, HttpRecorded, RecordTyped
  <2> HIDE DEF p
  <2>6. r.tracked \in Nat \ {0}
    <3>1. Cardinality(ActiveTracks(r)) # 0
      BY <2>2, FS_EmptySet, RequestParts
    <3> QED
      BY <3>1, RequestParts
  <2>7. t \in Tracks /\ ~t.active
    BY <2>3 DEF Tracks
  <2>8. q = [p EXCEPT !.tracks = u, !.tracked = n]
    BY <1>2, <2>5 DEF Complete, k, named, p
  <2> HIDE DEF t
  <2>9. /\ u \in [1 .. MultiMax -> Tracks] /\ ~u[k].active
        /\ \A i \in 1 .. MultiMax : i # k => u[i] = r.tracks[i]
    BY <2>2, <2>7, RequestParts
  <2> HIDE DEF u
  <2>10. /\ q.tracks = u /\ q.tracked = n /\ SameCalls(q, p) /\ q.h = p.h
    <3>1. p \in Requests
      BY <2>5 DEF IsRequest
    <3> QED
      BY <2>8, <3>1 DEF Requests, SameCalls
  <2>11. n = r.tracked - 1 /\ SameCalls(q, r)
    BY <2>5, <2>6, <2>10 DEF SameCalls
  <2>12. named = IF again THEN url ELSE r.tracks[k].url
    BY DEF named
  <2>13. Concludes(q, r, h, k, named)
    BY <2>2, <2>3, <2>5, <2>6, <2>9, <2>10, <2>11 DEF Concludes
  <2> QED
    BY <2>2, <2>11, <2>12, <2>13
<1> QED
  BY <1>1, <1>2

\* What beginning to track a transfer changes.
LEMMA TrackParts ==
  ASSUME NEW r, IsRequest(r), NEW h \in Handles, NEW url \in Nat, NEW q, q = Track(r, h, url)
  PROVE  /\ SameCalls(q, r) /\ q.h = r.h
         /\ q = r \/ \E k \in 1 .. MultiMax : Begins(q, r, h, url, k)
<1> DEFINE free == {i \in DOMAIN r.tracks : ~r.tracks[i].active}
           k == Min(free)
           t == [r.tracks EXCEPT ![k] = [active |-> TRUE, easy |-> h, url |-> url]]
<1>1. CASE r.tracked >= MultiMax \/ free = {}
  BY <1>1 DEF Track, SameCalls
<1>2. CASE ~(r.tracked >= MultiMax \/ free = {})
  <2>1. q = [r EXCEPT !.tracks = t, !.tracked = r.tracked + 1]
    BY <1>2 DEF Track
  <2>2. k \in 1 .. MultiMax /\ k \notin ActiveIn(r.tracks)
    <3>1. free \subseteq 1 .. MultiMax /\ free \in SUBSET Nat /\ free # {}
      <4>1. DOMAIN r.tracks = 1 .. MultiMax
        BY RequestParts
      <4> QED
        BY <1>2, <4>1
    <3>2. k \in free
      <4> HIDE DEF free
      <4> QED
        BY <3>1, FirstTrack
    <3> QED
      BY <3>1, <3>2 DEF ActiveIn
  <2>3. r \in Requests
    BY DEF IsRequest
  <2>4. q.tracks = t /\ q.tracked = r.tracked + 1 /\ q.h = r.h /\ SameCalls(q, r)
    <3> HIDE DEF t
    <3> QED
      BY <2>1, <2>3 DEF Requests, SameCalls
  <2>5. Begins(q, r, h, url, k)
    BY <2>2, <2>4 DEF Begins
  <2> QED
    BY <2>2, <2>4, <2>5
<1> QED
  BY <1>1, <1>2

\* The first of a sequence of numbers that grows by one.
LEMMA FirstNumbers ==
  ASSUME NEW s \in Seq(Nat), NEW x \in Nat, NEW n \in Nat
  PROVE  FirstOf(Append(s, x), n) =
           IF Len(FirstOf(s, n)) < n THEN Append(FirstOf(s, n), x) ELSE FirstOf(s, n)
<1> DEFINE V == Nat
<1>1. s \in Seq(V) /\ x \in V
  OBVIOUS
<1> HIDE DEF V
<1> QED
  BY <1>1, FirstAppend

\* The parts of what the script did.
LEMMA DidParts ==
  ASSUME DidOK
  PROVE  /\ did.ops \in Nat /\ Op \in Nat /\ did.q \in Seq(Timed) /\ did.http \in SUBSET Nat
         /\ did.marks \in Seq(Nat) /\ did.errors \in Seq(Nat) /\ did.files \in Nat
         /\ did.redis \in Nat /\ did.closed \in BOOLEAN
BY DEF DidOK, Op, Timed

\* Every call of the script keeps what the request remembers true.
LEMMA CallTells ==
  ASSUME RecorderOK, RecordInv, Record
  PROVE  RecordInv'
<1> DEFINE Good == RecordInv'
<1>1. /\ IsRequest(req) /\ req \in Requests /\ DidOK /\ EasyOK
      /\ Width \in Nat \ {0} /\ MarksMax \in Nat /\ ErrorsMax \in Nat
  BY RecorderAssumption DEF RecorderOK, IsRequest
<1>2. /\ did.ops \in Nat /\ Op \in Nat /\ did.q \in Seq(Timed) /\ did.http \in SUBSET Nat
      /\ did.marks \in Seq(Nat) /\ did.errors \in Seq(Nat) /\ did.files \in Nat
      /\ did.redis \in Nat /\ did.closed \in BOOLEAN
  BY <1>1, DidParts
<1>3. did.http \subseteq 1 .. did.ops /\ Op = did.ops + 1 /\ Op \notin did.http /\ IsFiniteSet(did.http)
      /\ did.http \subseteq 1 .. Op /\ did.http \union {Op} \subseteq 1 .. Op
  <2>1. did.http \subseteq 1 .. did.ops /\ Op = did.ops + 1
    BY DEF RecordInv, Op
  <2>2. IsFiniteSet(1 .. did.ops)
    BY <1>2, UpTo
  <2> QED
    BY <1>2, <2>1, <2>2, FS_Subset
<1>4. ASSUME Busy
      PROVE  /\ CallsTell(req, did) /\ ListOK(req.q, QueriesMax) /\ ListOK(req.h, HttpMax)
             /\ HttpTells(req.h, req.tracked, req.tracks, did.http, did.closed, easy)
             /\ req.tracks \in [1 .. MultiMax -> Tracks] /\ req.tracked \in Nat
  BY <1>1, <1>4, RequestParts DEF RecordInv, RequestTells, Busy
<1>5. ASSUME NEW s \in Statements, NEW d \in Durations, Query(s, d) PROVE Good
  <2> DEFINE item == [what |-> s, dur |-> d, bt |-> IF d >= SlowQuery THEN 1 ELSE 0]
             c == [what |-> s, dur |-> d]
  <2>1. item \in Entry /\ c = [what |-> item.what, dur |-> item.dur]
    <3>1. s \in Nat /\ d \in Nat
      BY RecorderAssumption
    <3> QED
      BY <3>1 DEF Entry
  <2>2. /\ req' = [req EXCEPT !.q = Put(req.q, item, QueriesFirst, QueriesMax)]
        /\ did' = [did EXCEPT !.ops = Op, !.q = Append(did.q, c)] /\ easy' = easy /\ Busy
    BY <1>5 DEF Query, RecordQuery
  <2> HIDE DEF item, c
  <2>3. ListTells(Put(req.q, item, QueriesFirst, QueriesMax), Append(did.q, c), QueriesMax)
    <3>1. QueriesMax \in Nat /\ QueriesFirst \in 1 .. QueriesMax /\ QueriesMax < Width
      BY RecorderAssumption
    <3>2. ListTells(req.q, did.q, QueriesMax) /\ ListOK(req.q, QueriesMax)
      BY <1>4, <2>2 DEF CallsTell
    <3> QED
      BY <1>2, <2>1, <3>1, <3>2, PutTells
  <2>4. /\ req'.q = Put(req.q, item, QueriesFirst, QueriesMax) /\ req'.marks = req.marks
        /\ req'.errors = req.errors /\ req'.files = req.files /\ req'.redis = req.redis
        /\ req'.h = req.h /\ req'.tracks = req.tracks /\ req'.tracked = req.tracked
    BY <1>1, <2>2 DEF Requests
  <2>5. /\ did'.ops = Op /\ did'.q = Append(did.q, c) /\ did'.http = did.http
        /\ did'.closed = did.closed /\ did'.files = did.files /\ did'.redis = did.redis
        /\ did'.marks = did.marks /\ did'.errors = did.errors
    BY <1>1, <2>2 DEF DidOK
  <2>6. CallsTell(req', did')
    BY <1>4, <2>2, <2>3, <2>4, <2>5 DEF CallsTell
  <2>7. HttpTells(req'.h, req'.tracked, req'.tracks, did'.http, did'.closed, easy')
    BY <1>4, <2>2, <2>4, <2>5
  <2> QED
    BY <1>3, <2>5, <2>6, <2>7 DEF RecordInv, RequestTells
<1>6. ASSUME SameCalls(req', req), Busy, did'.ops = Op,
             did'.q = did.q, did'.marks = did.marks, did'.errors = did.errors,
             did'.files = did.files, did'.redis = did.redis, did'.http \subseteq did.http \union {Op},
             HttpTells(req'.h, req'.tracked, req'.tracks, did'.http, did'.closed, easy')
      PROVE  Good
  <2>1. CallsTell(req', did')
    BY <1>4, <1>6 DEF CallsTell, SameCalls
  <2>2. did'.http \subseteq 1 .. did'.ops
    BY <1>3, <1>6
  <2> QED
    BY <1>6, <2>1, <2>2 DEF RecordInv, RequestTells
<1>7. CASE HttpCall
  <2>1. /\ req' = RecordHttp(req, Op) /\ easy' = easy /\ Busy
        /\ did' = [did EXCEPT !.ops = Op, !.http = did.http \union {Op}]
    BY <1>7 DEF HttpCall
  <2>2. /\ SameCalls(req', req) /\ req'.h = HttpNoted(req.h, Op) /\ req'.tracks = req.tracks
        /\ req'.tracked = req.tracked
    BY <1>1, <1>2, <2>1, HttpRecorded
  <2>3. /\ did'.ops = Op /\ did'.q = did.q /\ did'.http = did.http \union {Op}
        /\ did'.closed = did.closed /\ did'.files = did.files /\ did'.redis = did.redis
        /\ did'.marks = did.marks /\ did'.errors = did.errors
    BY <1>1, <2>1 DEF DidOK
  <2>4. HttpTells(HttpNoted(req.h, Op), req.tracked, req.tracks, did.http \union {Op},
                  did.closed, easy)
    BY <1>2, <1>3, <1>4, <2>1, HttpOnce
  <2> QED
    BY <1>6, <2>1, <2>2, <2>3, <2>4
<1>8. ASSUME NEW h \in Handles, MultiAdd(h) PROVE Good
  <2>1. /\ req' = Track(req, h, Op) /\ ~easy[h].in /\ Busy
        /\ easy' = [easy EXCEPT ![h] = [in |-> TRUE, url |-> Op]]
        /\ did' = [did EXCEPT !.ops = Op,
                              !.http = IF req' = req THEN did.http ELSE did.http \union {Op}]
    BY <1>8 DEF MultiAdd
  <2>2. /\ did'.ops = Op /\ did'.q = did.q
        /\ did'.http = (IF req' = req THEN did.http ELSE did.http \union {Op})
        /\ did'.closed = did.closed /\ did'.files = did.files /\ did'.redis = did.redis
        /\ did'.marks = did.marks /\ did'.errors = did.errors
    BY <1>1, <2>1 DEF DidOK
  <2>3. /\ SameCalls(req', req) /\ req'.h = req.h
        /\ req' = req \/ \E k \in 1 .. MultiMax : Begins(req', req, h, Op, k)
    BY <1>1, <1>2, <2>1, TrackParts
  <2>4. ~did.closed => \A i \in ActiveIn(req.tracks) : req.tracks[i].easy # h
    <3>1. PICK s : HttpIs(s, req.h, req.tracked, req.tracks, did.http, did.closed, easy)
      BY <1>4, <2>1 DEF HttpTells
    <3> QED
      BY <2>1, <3>1 DEF HttpIs, NamesTell
  <2>5. easy'[h].in /\ easy'[h].url = Op /\ \A x \in Handles : x # h => easy'[x] = easy[x]
    BY <1>1, <2>1 DEF EasyOK
  <2>6. HttpTells(req.h, req.tracked, req.tracks, did.http, did.closed, easy')
    <3> DEFINE f == easy'
    <3>1. \A x \in Handles : x # h => f[x] = easy[x]
      BY <2>5
    <3> HIDE DEF f
    <3>2. HttpTells(req.h, req.tracked, req.tracks, did.http, did.closed, f)
      BY <1>4, <2>1, <2>4, <3>1, HttpElsewhere
    <3> QED
      BY <3>2 DEF f
  <2>7. CASE req' = req
    <3>1. HttpTells(req'.h, req'.tracked, req'.tracks, did'.http, did'.closed, easy')
      BY <2>2, <2>6, <2>7
    <3>2. did'.http \subseteq did.http \union {Op}
      BY <2>2
    <3> QED
      BY <1>6, <2>1, <2>2, <2>3, <3>1, <3>2
  <2>8. CASE req' # req
    <3>1. PICK k \in 1 .. MultiMax :
            /\ k \notin ActiveIn(req.tracks) /\ req'.tracked = req.tracked + 1
            /\ req'.tracks = [req.tracks EXCEPT ![k] = [active |-> TRUE, easy |-> h, url |-> Op]]
      BY <2>3, <2>8 DEF Begins
    <3> DEFINE f == easy'
               u == req'.tracks
    <3>2. /\ f[h].in /\ f[h].url = Op
          /\ HttpTells(req.h, req.tracked, req.tracks, did.http, did.closed, f)
          /\ u = [req.tracks EXCEPT ![k] = [active |-> TRUE, easy |-> h, url |-> Op]]
      BY <2>5, <2>6, <3>1
    <3> HIDE DEF f, u
    <3>3. HttpTells(req.h, req.tracked + 1, u, did.http \union {Op}, did.closed, f)
      BY <1>2, <1>3, <1>4, <2>1, <2>4, <3>1, <3>2, HttpTracked
    <3>4. HttpTells(req'.h, req'.tracked, req'.tracks, did'.http, did'.closed, easy')
      BY <2>2, <2>3, <2>8, <3>1, <3>3 DEF f, u
    <3>5. did'.http \subseteq did.http \union {Op}
      BY <2>2
    <3> QED
      BY <1>6, <2>1, <2>2, <2>3, <3>4, <3>5
  <2> QED
    BY <2>7, <2>8
\* A transfer is recorded, when there is a track; the handle may change.
<1>9. ASSUME NEW h \in Handles, NEW again \in BOOLEAN, NEW url \in Nat, Busy,
             req' = Complete(req, h, again, url), did' = [did EXCEPT !.ops = Op],
             again => url = easy[h].url, \A x \in Handles : x # h => easy'[x] = easy[x],
             again => easy' = easy
      PROVE  Good
  <2>1. /\ did'.ops = Op /\ did'.q = did.q /\ did'.http = did.http
        /\ did'.closed = did.closed /\ did'.files = did.files /\ did'.redis = did.redis
        /\ did'.marks = did.marks /\ did'.errors = did.errors
    BY <1>1, <1>9 DEF DidOK
  <2>2. /\ SameCalls(req', req)
        /\ \/ req' = req /\ \A i \in ActiveIn(req.tracks) : req.tracks[i].easy # h
           \/ \E k \in ActiveIn(req.tracks) :
                Concludes(req', req, h, k, IF again THEN url ELSE req.tracks[k].url)
    BY <1>1, <1>9, CompleteParts
  <2> DEFINE f == easy'
  <2>3. \A x \in Handles : x # h => f[x] = easy[x]
    BY <1>9
  <2> HIDE DEF f
  <2>4. CASE req' = req /\ \A i \in ActiveIn(req.tracks) : req.tracks[i].easy # h
    <3>1. HttpTells(req.h, req.tracked, req.tracks, did.http, did.closed, f)
      BY <1>4, <1>9, <2>3, <2>4, HttpElsewhere
    <3> QED
      BY <1>6, <1>9, <2>1, <2>2, <2>4, <3>1 DEF f
  <2>5. ASSUME NEW k \in ActiveIn(req.tracks),
               Concludes(req', req, h, k, IF again THEN url ELSE req.tracks[k].url)
        PROVE  Good
    <3> DEFINE named == IF again THEN url ELSE req.tracks[k].url
               u == req'.tracks
               t == req.tracks
               n == req.tracked
    <3>0. /\ req.tracks[k].easy = h /\ req.tracks[k].url \in Nat
          /\ req.tracked \in Nat \ {0} /\ req'.tracked = req.tracked - 1
          /\ t \in [1 .. MultiMax -> Tracks] /\ k \in ActiveIn(t) /\ n \in Nat \ {0}
          /\ ListOK(req.h, HttpMax) /\ HttpTells(req.h, n, t, did.http, did.closed, easy)
      BY <1>4, <1>9, <2>5 DEF Concludes
    <3>1. named \in Nat /\ req'.h = HttpNoted(req.h, named)
      BY <2>5 DEF Concludes
    <3>2. ~did.closed => named = req.tracks[k].url
      <4>1. PICK s : HttpIs(s, req.h, req.tracked, req.tracks, did.http, did.closed, easy)
        BY <1>4, <1>9 DEF HttpTells
      <4>2. ~did.closed => easy[h].url = req.tracks[k].url
        BY <2>5, <3>0, <4>1 DEF HttpIs, NamesTell
      <4> QED
        BY <1>9, <4>2
    <3>3. /\ u \in [1 .. MultiMax -> Tracks] /\ ~u[k].active
          /\ \A i \in 1 .. MultiMax : i # k => u[i] = t[i]
      BY <2>5 DEF Concludes
    <3>33. t[k].easy = h /\ req'.tracked = n - 1 /\ (~did.closed => named = t[k].url)
      BY <3>0, <3>2
    <3> HIDE DEF named, u, t, n
    <3>4. /\ HttpTells(HttpNoted(req.h, named), n - 1, u, did.http, did.closed, easy)
          /\ OthersOwn(did.closed, u, t, k)
      BY <3>0, <3>1, <3>3, <3>33, HttpDone
    <3>5. ~did.closed => \A i \in ActiveIn(u) : u[i].easy # h
      BY <3>3, <3>33, <3>4 DEF ActiveIn, OthersOwn
    <3>6. HttpTells(HttpNoted(req.h, named), n - 1, u, did.http, did.closed, f)
      BY <2>3, <3>4, <3>5, HttpElsewhere
    <3>7. HttpTells(req'.h, req'.tracked, req'.tracks, did'.http, did'.closed, easy')
      BY <2>1, <3>1, <3>6, <3>33 DEF f, u
    <3> QED
      BY <1>6, <1>9, <2>1, <2>2, <3>7
  <2> QED
    BY <2>2, <2>4, <2>5
<1>10. ASSUME NEW h \in Handles, MultiInfoRead(h) PROVE Good
  <2>1. easy[h].url \in Nat
    BY <1>1 DEF EasyOK
  <2> QED
    BY <1>9, <1>10, <2>1 DEF MultiInfoRead
<1>11. ASSUME NEW h \in Handles, MultiRemove(h) PROVE Good
  <2>1. \A x \in Handles : x # h => easy'[x] = easy[x]
    BY <1>1, <1>11 DEF MultiRemove, EasyOK
  <2> QED
    BY <1>9, <1>11, <2>1 DEF MultiRemove
<1>12. CASE MultiClose
  <2>1. /\ did' = [did EXCEPT !.ops = Op,
                     !.closed = did.closed \/ \E i \in DOMAIN req.tracks : req.tracks[i].active]
        /\ req' = req /\ Busy
    BY <1>12 DEF MultiClose
  <2>2. (\E i \in DOMAIN req.tracks : req.tracks[i].active) <=> ActiveIn(req.tracks) # {}
    BY <1>4, <2>1 DEF ActiveIn
  <2>3. /\ did'.ops = Op /\ did'.q = did.q /\ did'.http = did.http
        /\ did'.closed = (did.closed \/ \E i \in DOMAIN req.tracks : req.tracks[i].active)
        /\ did'.files = did.files /\ did'.redis = did.redis
        /\ did'.marks = did.marks /\ did'.errors = did.errors
    BY <1>1, <2>1 DEF DidOK
  <2> DEFINE f == easy'
  <2> HIDE DEF f
  <2>4. HttpTells(req.h, req.tracked, req.tracks, did.http,
                  did.closed \/ ActiveIn(req.tracks) # {}, f)
    BY <1>2, <1>4, <2>1, HttpClosed
  <2>5. did'.closed = (did.closed \/ ActiveIn(req.tracks) # {})
    BY <2>2, <2>3
  <2>6. HttpTells(req'.h, req'.tracked, req'.tracks, did'.http, did'.closed, easy')
    BY <2>1, <2>3, <2>4, <2>5 DEF f
  <2>7. SameCalls(req', req)
    BY <2>1 DEF SameCalls
  <2> QED
    BY <1>6, <2>1, <2>3, <2>6, <2>7
\* A counter or a list of the request goes on.
<1>13. ASSUME Busy, easy' = easy, req'.h = req.h, req'.tracks = req.tracks,
              req'.tracked = req.tracked, req'.q = req.q, did'.q = did.q,
              did'.http = did.http, did'.closed = did.closed, did'.ops = Op,
              req'.files = did'.files % Width, req'.redis = did'.redis % Width,
              req'.marks = FirstOf(did'.marks, MarksMax), req'.errors = FirstOf(did'.errors, ErrorsMax)
       PROVE  Good
  <2>1. CallsTell(req', did')
    BY <1>4, <1>13 DEF CallsTell
  <2>2. HttpTells(req'.h, req'.tracked, req'.tracks, did'.http, did'.closed, easy')
    BY <1>4, <1>13
  <2> QED
    BY <1>3, <1>13, <2>1, <2>2 DEF RecordInv, RequestTells
<1>14. CASE FileOp
  <2>1. /\ req' = [req EXCEPT !.files = (req.files + 1) % Width] /\ Busy /\ easy' = easy
        /\ did' = [did EXCEPT !.ops = Op, !.files = did.files + 1]
    BY <1>14 DEF FileOp
  <2>2. (req.files + 1) % Width = (did.files + 1) % Width
    BY <1>1, <1>2, <1>4, <2>1, OneMore DEF CallsTell
  <2> QED
    BY <1>1, <1>4, <1>13, <2>1, <2>2 DEF Requests, DidOK, CallsTell
<1>15. CASE RedisCall
  <2>1. /\ req' = [req EXCEPT !.redis = (req.redis + 1) % Width] /\ Busy /\ easy' = easy
        /\ did' = [did EXCEPT !.ops = Op, !.redis = did.redis + 1]
    BY <1>15 DEF RedisCall
  <2>2. (req.redis + 1) % Width = (did.redis + 1) % Width
    BY <1>1, <1>2, <1>4, <2>1, OneMore DEF CallsTell
  <2> QED
    BY <1>1, <1>4, <1>13, <2>1, <2>2 DEF Requests, DidOK, CallsTell
<1>16. CASE UserMark
  <2> DEFINE m == IF Len(req.marks) >= MarksMax THEN req.marks ELSE Append(req.marks, Op)
             d == Append(did.marks, Op)
  <2>1. /\ req' = [req EXCEPT !.marks = m] /\ Busy /\ easy' = easy
        /\ did' = [did EXCEPT !.ops = Op, !.marks = d]
    BY <1>16 DEF UserMark
  <2>2. m = FirstOf(d, MarksMax)
    <3>1. req.marks = FirstOf(did.marks, MarksMax) /\ Len(req.marks) \in Nat
      BY <1>1, <1>4, <2>1 DEF CallsTell, Requests
    <3>2. FirstOf(d, MarksMax) =
            IF Len(req.marks) < MarksMax THEN Append(req.marks, Op) ELSE req.marks
      BY ZenonT(40), <1>1, <1>2, <3>1, FirstNumbers
    <3> QED
      BY <1>1, <3>1, <3>2
  <2> HIDE DEF m, d
  <2> QED
    BY <1>1, <1>4, <1>13, <2>1, <2>2 DEF Requests, DidOK, CallsTell
<1>17. CASE PhpError
  <2> DEFINE m == IF Len(req.errors) < ErrorsMax THEN Append(req.errors, Op) ELSE req.errors
             d == Append(did.errors, Op)
  <2>1. /\ req' = [req EXCEPT !.errors = m] /\ Busy /\ easy' = easy
        /\ did' = [did EXCEPT !.ops = Op, !.errors = d]
    BY <1>17 DEF PhpError
  <2>2. m = FirstOf(d, ErrorsMax)
    <3>1. req.errors = FirstOf(did.errors, ErrorsMax)
      BY <1>4, <2>1 DEF CallsTell
    <3> QED
      BY <1>1, <1>2, <3>1, FirstNumbers
  <2> HIDE DEF m, d
  <2> QED
    BY <1>1, <1>4, <1>13, <2>1, <2>2 DEF Requests, DidOK, CallsTell
<1> QED
  BY <1>5, <1>7, <1>8, <1>10, <1>11, <1>12, <1>14, <1>15, <1>16, <1>17 DEF Record

\* A request that has just begun has done nothing.
LEMMA BeginTells ==
  ASSUME NEW traced \in BOOLEAN, RecorderBegin(traced)
  PROVE  RecordInv'
<1>1. /\ Width \in Nat \ {0} /\ QueriesMax \in Nat /\ HttpMax \in Nat
      /\ MarksMax \in Nat /\ ErrorsMax \in Nat
  BY RecorderAssumption
<1>2. /\ did' = NothingDone /\ req'.q = EmptyList /\ req'.h = EmptyList /\ req'.marks = <<>>
      /\ req'.errors = <<>> /\ req'.files = 0 /\ req'.redis = 0 /\ req'.tracked = 0
      /\ req'.tracks = [i \in 1 .. MultiMax |-> NoTrack]
  BY DEF RecorderBegin, NoRequest
<1>3. 0 % Width = 0
  BY <1>1, OneMore
<1>4. ASSUME NEW max \in Nat PROVE ListTells(EmptyList, <<>>, max)
  <2>1. Min({0, max}) = 0
    BY MinOfTwo
  <2> QED
    BY <1>3, <2>1, TotalEmpty DEF ListTells, EmptyList
<1>5. ASSUME NEW n \in Nat PROVE FirstOf(<<>>, n) = <<>>
  <2>1. Min({0, n}) = 0
    BY MinOfTwo
  <2> QED
    BY <2>1 DEF FirstOf
<1>6. CallsTell(req', did')
  BY <1>1, <1>2, <1>3, <1>4, <1>5 DEF CallsTell, NothingDone
<1>7. HttpIs(<<>>, req'.h, req'.tracked, req'.tracks, did'.http, did'.closed, easy')
  <2>1. Cardinality({}) = 0
    BY FS_EmptySet
  <2>2. ActiveIn(req'.tracks) = {}
    BY <1>2 DEF ActiveIn, NoTrack
  <2>3. NamesTell(<<>>, req'.tracks, did'.http, easy')
    BY <2>2 DEF NamesTell
  <2> QED
    BY <1>1, <1>2, <1>4, <2>1, <2>3 DEF HttpIs, NothingDone
<1>8. did'.http \subseteq 1 .. did'.ops
  BY <1>2 DEF NothingDone
<1> QED
  BY <1>6, <1>7, <1>8 DEF RecordInv, RequestTells, HttpTells

\* Every step keeps what a request remembers true.
LEMMA RecordKept ==
  ASSUME RecorderOK, RecordInv, [Next]_vars
  PROVE  RecordInv'
<1>1. ASSUME UNCHANGED recVars PROVE RecordInv'
  BY <1>1 DEF recVars, RecordInv
<1>2. ASSUME req' = NoRequest, did' = did PROVE RecordInv'
  BY <1>2 DEF RecordInv, NoRequest
<1>3. CASE Spawn \/ Stop \/ Others \/ TimePasses \/ Run \/ UNCHANGED vars
  BY <1>1, <1>3 DEF Spawn, Stop, Others, TimePasses, Run, vars
<1>4. CASE Die \/ End
  BY <1>2, <1>4 DEF Die, End
<1>5. CASE Begin
  <2>1. PICK set, user, chosen, mode, draw, entry : Rinit(set, user, chosen, mode, draw, entry)
    BY <1>5 DEF Begin
  <2> DEFINE traced == (IF set = "unset" THEN proc.enabled ELSE set = "on")
                         /\ HealthCheck /\ chosen
  <2>2. RecorderBegin(traced)
    BY <2>1 DEF Rinit
  <2>3. traced \in BOOLEAN
    OBVIOUS
  <2> HIDE DEF traced
  <2> QED
    BY <2>2, <2>3, BeginTells
<1>6. CASE Record
  BY <1>6, CallTells
<1> QED
  BY <1>3, <1>4, <1>5, <1>6 DEF Next

-----------------------------------------------------------------------------
(* The transfers that are still tracked at the end.                        *)

\* When no transfer is tracked, the list tells every call.
LEMMA NoneTracked ==
  ASSUME NEW h, NEW t, ActiveIn(t) = {}, NEW http, NEW closed, NEW e,
         HttpTells(h, 0, t, http, closed, e)
  PROVE  HttpAll(h, http, closed)
<1>1. PICK s : HttpIs(s, h, 0, t, http, closed, e)
  BY DEF HttpTells
<1>2. s \in Seq(Timed) /\ Len(s) \in Nat /\ Cardinality(http) = Len(s)
  BY <1>1 DEF HttpIs
<1> QED
  BY <1>1, <1>2 DEF HttpIs, NamesTell, HttpAll

\* Flushing one more tracked transfer.
LEMMA FlushStep ==
  ASSUME NEW r, IsRequest(r), NEW q, NEW k \in 1 .. MultiMax, NEW http, NEW closed, NEW e,
         Flushed(q, r, k - 1, http, closed, e)
  PROVE  Flushed(IF r.tracks[k].active THEN RecordHttp(q, r.tracks[k].url) ELSE q,
                 r, k, http, closed, e)
<1> DEFINE t == r.tracks
           v == After(t, k - 1)
           u == After(t, k)
           n == Cardinality(ActiveIn(v))
<1>1. MultiMax \in Nat /\ t \in [1 .. MultiMax -> Tracks]
  BY RecorderAssumption, RequestParts
<1>2. \A i \in 1 .. MultiMax : t[i] \in Tracks /\ [t[i] EXCEPT !.active = FALSE] \in Tracks
                              /\ ~[t[i] EXCEPT !.active = FALSE].active
  BY <1>1 DEF Tracks
<1>3. /\ v \in [1 .. MultiMax -> Tracks] /\ u \in [1 .. MultiMax -> Tracks]
      /\ v[k] = t[k] /\ ~u[k].active /\ \A i \in 1 .. MultiMax : i # k => u[i] = v[i]
  BY <1>1, <1>2 DEF After
<1> HIDE DEF u, v
<1>4. IsFiniteSet(ActiveIn(v)) /\ n \in Nat
  <2>1. IsFiniteSet(1 .. MultiMax)
    BY <1>1, UpTo
  <2>2. ActiveIn(v) \subseteq 1 .. MultiMax
    BY DEF ActiveIn
  <2> QED
    BY <2>1, <2>2, FS_Subset, FS_CardinalityType
<1>5. /\ IsRequest(q) /\ q.tracks = t /\ SameCalls(q, r) /\ HttpTells(q.h, n, v, http, closed, e)
  BY DEF Flushed, v
<1>6. CASE ~t[k].active
  <2>1. ActiveIn(u) = ActiveIn(v)
    BY <1>3, <1>6 DEF ActiveIn
  <2>2. \A i \in ActiveIn(v) : u[i] = v[i]
    BY <1>3, <1>6 DEF ActiveIn
  <2>3. PICK s : HttpIs(s, q.h, n, v, http, closed, e)
    BY <1>5 DEF HttpTells
  <2>4. NamesTell(s, v, http, e) => NamesTell(s, u, http, e)
    BY <2>1, <2>2 DEF NamesTell
  <2>5. HttpIs(s, q.h, n, u, http, closed, e)
    BY <2>3, <2>4 DEF HttpIs
  <2> QED
    BY <1>5, <1>6, <2>1, <2>5 DEF Flushed, HttpTells, u
<1>7. CASE t[k].active
  <2> DEFINE url == t[k].url
             w == RecordHttp(q, url)
  <2>1. url \in Nat
    BY <1>1 DEF Tracks
  <2> HIDE DEF url
  <2>2. /\ SameCalls(w, q) /\ w.h = HttpNoted(q.h, url) /\ w.tracks = q.tracks
    BY <1>5, <2>1, HttpRecorded
  <2>3. IsRequest(w)
    BY <1>5, <2>1, RecordTyped
  <2>4. k \in ActiveIn(v) /\ ActiveIn(u) = ActiveIn(v) \ {k}
    BY <1>3, <1>7 DEF ActiveIn
  <2>5. Cardinality(ActiveIn(u)) = n - 1 /\ n # 0
    <3>1. Cardinality(ActiveIn(v) \ {k}) = n - 1
      BY <1>4, <2>4, FS_RemoveElement
    <3>2. ActiveIn(v) # {}
      BY <2>4
    <3> QED
      BY <1>4, <2>4, <3>1, <3>2, FS_EmptySet
  <2>6. ListOK(q.h, HttpMax) /\ n \in Nat \ {0} /\ url = v[k].url
    BY <1>3, <1>4, <1>5, <2>5, RequestParts DEF url
  <2> HIDE DEF w, n, t
  <2>7. HttpTells(HttpNoted(q.h, url), n - 1, u, http, closed, e)
    BY <1>3, <1>5, <2>1, <2>4, <2>6, HttpDone
  <2>8. SameCalls(w, r)
    BY <1>5, <2>2 DEF SameCalls
  <2>9. Flushed(w, r, k, http, closed, e)
    BY <1>5, <2>2, <2>3, <2>5, <2>7, <2>8 DEF Flushed, u, t
  <2> QED
    BY <1>7, <2>9 DEF w, url, t
<1> QED
  BY <1>6, <1>7

\* What FlushTracks leaves: everything there was to record is recorded.
LEMMA FlushTells ==
  ASSUME NEW r, IsRequest(r), NEW http, NEW closed, NEW e,
         HttpTells(r.h, r.tracked, r.tracks, http, closed, e)
  PROVE  LET q == FlushTracks(r)
         IN SameCalls(q, r) /\ ListOK(q.h, HttpMax) /\ HttpAll(q.h, http, closed)
<1> DEFINE n == MultiMax
           t == r.tracks
           V == {x \in Requests : IsRequest(x)}
           F == [a \in V \X (1 .. n) |->
                   IF t[a[2]].active THEN RecordHttp(a[1], t[a[2]].url) ELSE a[1]]
           z == [i \in DOMAIN r.tracks |-> i]
           Fold(h) == h = [u \in SUBSET (DOMAIN z) |->
                             IF u = {} THEN r
                             ELSE IF r.tracks[z[Max(u)]].active
                                  THEN RecordHttp(h[u \ {Max(u)}], r.tracks[z[Max(u)]].url)
                                  ELSE h[u \ {Max(u)}]]
           h == CHOOSE x : Fold(x)
           w == h[DOMAIN z]
<1>1. n \in Nat /\ t \in [1 .. n -> Tracks] /\ r \in V
  BY RecorderAssumption, RequestParts DEF IsRequest
<1>2. DOMAIN z = 1 .. n /\ \A i \in 1 .. n : z[i] = i /\ t[i].url \in Nat
  BY <1>1 DEF Tracks
<1>3. FlushTracks(r) = IF r.tracked = 0 THEN r
        ELSE [w EXCEPT !.tracks = [i \in DOMAIN @ |-> [@[i] EXCEPT !.active = FALSE]],
                       !.tracked = 0]
  <2>1. DOMAIN z = DOMAIN r.tracks
    OBVIOUS
  <2> QED
    BY <2>1 DEF FlushTracks, FoldLeft, MapThenFoldSet, w, h
<1> HIDE DEF w, z, t
<1>4. \A v \in V, i \in 1 .. n :
        F[<<v, i>>] = IF t[i].active THEN RecordHttp(v, t[i].url) ELSE v
  OBVIOUS
<1>5. StepOK(n, V, F)
  <2> SUFFICES ASSUME NEW v \in V, NEW i \in 1 .. n PROVE F[<<v, i>>] \in V
    BY DEF StepOK
  <2>1. IsRequest(RecordHttp(v, t[i].url)) /\ RecordHttp(v, t[i].url) \in Requests
    BY <1>2, RecordTyped DEF IsRequest
  <2> HIDE DEF F
  <2> QED
    BY <1>4, <2>1
<1> HIDE DEF F, V
<1>6. PICK g : Folded(g, n, V, r, F)
  BY <1>1, <1>5, FoldExists
<1>7. \A u \in SUBSET (1 .. n) : u # {} => Max(u) \in 1 .. n /\ z[Max(u)] = Max(u)
  BY <1>2, <1>6 DEF Folded
<1>8. Fold(g)
  <2>1. \A u \in SUBSET (1 .. n) : u # {} =>
          g[u] = IF t[Max(u)].active THEN RecordHttp(g[u \ {Max(u)}], t[Max(u)].url)
                 ELSE g[u \ {Max(u)}]
    BY <1>4, <1>6 DEF Folded
  <2>2. g \in [SUBSET (1 .. n) -> V] /\ g[{}] = r
    BY <1>6 DEF Folded
  <2>3. \A u \in SUBSET (1 .. n) : u # {} =>
          g[u] = IF r.tracks[z[Max(u)]].active
                 THEN RecordHttp(g[u \ {Max(u)}], r.tracks[z[Max(u)]].url) ELSE g[u \ {Max(u)}]
    <3> TAKE u \in SUBSET (1 .. n)
    <3> HAVE u # {}
    <3>1. z[Max(u)] = Max(u)
      BY <1>7
    <3> QED
      BY <2>1, <3>1 DEF t
  <2>4. g = [u \in SUBSET (1 .. n) |->
               IF u = {} THEN r
               ELSE IF r.tracks[z[Max(u)]].active
                    THEN RecordHttp(g[u \ {Max(u)}], r.tracks[z[Max(u)]].url)
                    ELSE g[u \ {Max(u)}]]
    BY <2>2, <2>3
  <2> QED
    BY <1>2, <2>4
<1>9. Fold(h)
  <2> HIDE DEF Fold
  <2> QED
    BY <1>8
<1>10. w = h[1 .. n]
  BY <1>2 DEF w
<1> HIDE DEF h
<1>11. Folding(h, n, V, r, F)
  <2>1. h[{}] = r
    BY <1>9
  <2>2. ASSUME NEW u \in SUBSET (1 .. n), u # {}, h[u \ {Max(u)}] \in V
        PROVE  h[u] = F[<<h[u \ {Max(u)}], Max(u)>>]
    <3>1. h[u] = IF t[Max(u)].active THEN RecordHttp(h[u \ {Max(u)}], t[Max(u)].url)
                 ELSE h[u \ {Max(u)}]
      <4>1. h[u] = IF r.tracks[z[Max(u)]].active
                   THEN RecordHttp(h[u \ {Max(u)}], r.tracks[z[Max(u)]].url)
                   ELSE h[u \ {Max(u)}]
        BY <1>2, <1>9, <2>2
      <4>2. z[Max(u)] = Max(u)
        BY <1>7, <2>2
      <4> QED
        BY <4>1, <4>2 DEF t
    <3> QED
      BY SMTT(40), <1>4, <1>7, <2>2, <3>1
  <2> QED
    BY <2>1, <2>2 DEF Folding
<1>12. PICK p : StepsOf(p, n, V, r, F) /\ p[n] = h[1 .. n]
  BY <1>1, <1>5, <1>11, FoldSteps
<1> DEFINE T == {k \in 0 .. n : ~Flushed(p[k], r, k, http, closed, e)}
<1>13. Flushed(p[0], r, 0, http, closed, e)
  <2>1. After(t, 0) = t
    BY <1>1 DEF After
  <2>2. ActiveIn(t) = ActiveTracks(r)
    BY <1>1 DEF ActiveIn, ActiveTracks, t
  <2>3. r.tracked = Cardinality(ActiveTracks(r))
    BY DEF IsRequest
  <2> QED
    BY <1>12, <2>1, <2>2, <2>3 DEF StepsOf, Flushed, SameCalls, t
<1>14. T = {}
  <2> SUFFICES ASSUME T # {} PROVE FALSE
    OBVIOUS
  <2>1. T \in SUBSET Nat
    BY <1>1
  <2>2. PICK m \in T : \A k \in T : m <= k
    <3> HIDE DEF T
    <3> QED
      BY <2>1, LeastNat
  <2>3. m # 0
    BY <1>13
  <2>4. m \in 1 .. n /\ m - 1 \in 0 .. n /\ ~(m <= m - 1)
    BY <1>1, <2>3
  <2>5. Flushed(p[m - 1], r, m - 1, http, closed, e)
    BY <2>2, <2>4
  <2>6. p[m] = IF t[m].active THEN RecordHttp(p[m - 1], t[m].url) ELSE p[m - 1]
    BY <1>4, <1>12, <2>4 DEF StepsOf
  <2>7. Flushed(p[m], r, m, http, closed, e)
    BY <2>4, <2>5, <2>6, FlushStep DEF t
  <2> QED
    BY <2>7
<1>15. Flushed(w, r, n, http, closed, e)
  <2>1. n \in 0 .. n
    BY <1>1
  <2> QED
    BY <1>10, <1>12, <1>14, <2>1
<1>16. ActiveIn(After(t, n)) = {}
  <2>1. \A i \in 1 .. n : ~After(t, n)[i].active
    <3> TAKE i \in 1 .. n
    <3>1. After(t, n)[i] = [t[i] EXCEPT !.active = FALSE] /\ t[i] \in Tracks
      BY <1>1 DEF After
    <3> QED
      BY <3>1 DEF Tracks
  <2> QED
    BY <2>1 DEF ActiveIn
<1>17. HttpAll(w.h, http, closed)
  BY <1>15, <1>16, FS_EmptySet, NoneTracked DEF Flushed, t
<1>18. CASE r.tracked = 0
  <2>1. ActiveIn(t) = {}
    <3>1. ActiveIn(t) = ActiveTracks(r) /\ IsFiniteSet(ActiveTracks(r))
      BY <1>1, RequestParts DEF ActiveIn, ActiveTracks, t
    <3>2. Cardinality(ActiveTracks(r)) = 0
      BY <1>18 DEF IsRequest
    <3> QED
      BY <3>1, <3>2, FS_EmptySet
  <2>2. HttpAll(r.h, http, closed)
    BY <1>18, <2>1, NoneTracked DEF t
  <2>3. FlushTracks(r) = r
    BY <1>3, <1>18
  <2> QED
    BY <2>2, <2>3, RequestParts DEF SameCalls
<1>19. CASE r.tracked # 0
  <2> DEFINE q == FlushTracks(r)
  <2>1. w \in Requests /\ ListOK(w.h, HttpMax) /\ SameCalls(w, r)
    BY <1>15 DEF Flushed, IsRequest
  <2>2. q.q = w.q /\ q.marks = w.marks /\ q.errors = w.errors /\ q.files = w.files
        /\ q.redis = w.redis /\ q.h = w.h
    BY <1>3, <1>19, <2>1 DEF Requests
  <2> HIDE DEF q
  <2>3. SameCalls(q, r) /\ ListOK(q.h, HttpMax) /\ HttpAll(q.h, http, closed)
    BY <1>17, <2>1, <2>2 DEF SameCalls
  <2> QED
    BY <2>3 DEF q
<1> QED
  BY <1>18, <1>19

-----------------------------------------------------------------------------
(* What a trace lists.                                                     *)

\* The calls of a trace that has the entries of the array are what was recorded.
LEMMA CallsTold ==
  ASSUME NEW h, ListOK(h, HttpMax), NEW d, HttpAll(h, d.http, d.closed),
         Cardinality(d.http) < Width,
         NEW t, Len(t.calls) = Len(Kept(h)), DOMAIN t.calls = 1 .. Len(Kept(h)),
         \A i \in 1 .. Len(Kept(h)) : t.calls[i].what = Kept(h)[i].what
  PROVE  CallsTrue(t, d)
<1> DEFINE k == Kept(h)
           c == t.calls
           n == Len(k)
<1>1. PICK s \in Seq(Timed) :
        /\ ListTells(h, s, HttpMax) /\ Cardinality(d.http) = Len(s)
        /\ ~d.closed => \A i \in 1 .. Len(s) :
             s[i].what \in d.http /\ \A j \in 1 .. Len(s) : s[i].what = s[j].what => i = j
  BY DEF HttpAll
<1>2. HttpMax \in Nat /\ Len(s) \in Nat /\ Len(s) < Width
  BY <1>1, RecorderAssumption
<1>3. k \in Seq(Entry) /\ n = Len(FirstOf(s, HttpMax)) /\ Plain(k) = FirstOf(s, HttpMax)
  BY <1>1, <1>2, KeptTells
<1> HIDE DEF k
<1>4. n = (IF Len(s) <= HttpMax THEN Len(s) ELSE HttpMax) /\ n \in Nat /\ n <= Len(s)
      /\ Min({Len(s), HttpMax}) = n
  <2>1. Min({Len(s), HttpMax}) = IF Len(s) <= HttpMax THEN Len(s) ELSE HttpMax
    BY <1>2, MinOfTwo
  <2> DEFINE m == IF Len(s) <= HttpMax THEN Len(s) ELSE HttpMax
  <2>2. m \in 0 .. Len(s)
    BY <1>2
  <2>3. FirstOf(s, HttpMax) = SubSeq(s, 1, m)
    BY <2>1 DEF FirstOf
  <2> HIDE DEF m
  <2>4. Len(SubSeq(s, 1, m)) = m
    BY <2>2
  <2> QED
    BY <1>2, <1>3, <2>1, <2>2, <2>3, <2>4 DEF m
<1>5. \A i \in 1 .. n : k[i].what = s[i].what /\ k[i] \in Entry
  <2>1. \A i \in 1 .. n : FirstOf(s, HttpMax)[i] = s[i]
    <3>1. FirstOf(s, HttpMax) = SubSeq(s, 1, n)
      BY <1>4 DEF FirstOf
    <3> HIDE DEF n
    <3> QED
      BY <1>4, <3>1
  <2>2. DOMAIN k = 1 .. n
    BY <1>3
  <2>3. \A i \in 1 .. n : Plain(k)[i].what = k[i].what
    BY <2>2 DEF Plain
  <2>4. \A i \in 1 .. n : k[i] \in Entry
    BY <1>3
  <2> QED
    BY <1>3, <2>1, <2>3, <2>4
<1> DEFINE f == [i \in 1 .. n |-> k[i].what]
           named == {c[i].what : i \in DOMAIN c}
<1>6. f \in [1 .. n -> Nat]
  BY <1>5 DEF Entry
<1>7. named = {f[i] : i \in 1 .. n} /\ Len(c) = n
  BY DEF k
<1> HIDE DEF f, c, n
<1>8. ASSUME ~d.closed PROVE named \subseteq d.http /\ Cardinality(named) = n
  <2>1. \A i \in 1 .. n : f[i] = s[i].what /\ i \in 1 .. Len(s)
    BY <1>4, <1>5 DEF f
  <2>2. named \subseteq d.http
    <3> HIDE DEF named
    <3> QED
      BY <1>1, <1>7, <1>8, <2>1
  <2>3. \A i \in 1 .. n : \A j \in 1 .. n : f[i] = f[j] => i = j
    BY <1>1, <1>8, <2>1
  <2>4. Cardinality(Values(f, n)) = n
    BY <1>4, <1>6, <2>3, DistinctNames
  <2> HIDE DEF named
  <2> QED
    BY <1>7, <2>2, <2>4 DEF Values
<1> QED
  BY <1>1, <1>4, <1>7, <1>8 DEF CallsTrue, c

\* The list says that a statement repeats when one does among the statements kept.
LEMMA PatternTold ==
  ASSUME NEW l, ListOK(l, QueriesMax), NEW d \in Seq(Timed), ListTells(l, d, QueriesMax),
         Len(d) < Width
  PROVE  NPlusOne(l) <=> RepeatedIn(FirstOf(d, QueriesMax))
<1> DEFINE k == Kept(l)
           p == FirstOf(d, QueriesMax)
           n == Len(k)
           A(s) == {i \in DOMAIN k : k[i].what = s}
           B(s) == {i \in DOMAIN p : p[i].what = s}
<1>1. QueriesMax \in Nat /\ Repeats \in Nat /\ Len(d) \in Nat
  BY RecorderAssumption, TraceRecordAssumption
<1>2. k \in Seq(Entry) /\ n = Len(p) /\ Plain(k) = p /\ l.count = Len(d)
  BY <1>1, KeptTells
<1> HIDE DEF k
<1>3. n \in Nat /\ n <= Len(d) /\ DOMAIN k = 1 .. n /\ DOMAIN p = 1 .. n
  <2>1. Min({Len(d), QueriesMax}) = IF Len(d) <= QueriesMax THEN Len(d) ELSE QueriesMax
    BY <1>1, MinOfTwo
  <2> DEFINE m == IF Len(d) <= QueriesMax THEN Len(d) ELSE QueriesMax
  <2>2. m \in 0 .. Len(d)
    BY <1>1
  <2>3. p = SubSeq(d, 1, m)
    BY <2>1 DEF FirstOf
  <2> HIDE DEF m, p
  <2>4. Len(SubSeq(d, 1, m)) = m /\ DOMAIN SubSeq(d, 1, m) = 1 .. m
    BY <2>2
  <2> QED
    BY <1>1, <1>2, <2>2, <2>3, <2>4
<1>4. \A i \in 1 .. n : p[i].what = k[i].what
  <2>1. \A i \in 1 .. n : Plain(k)[i].what = k[i].what
    BY <1>3 DEF Plain
  <2> HIDE DEF p
  <2> QED
    BY <1>2, <2>1
<1>5. \A s : A(s) = B(s)
  <2> HIDE DEF p, n
  <2> QED
    BY <1>3, <1>4
<1>6. \A s : Cardinality(A(s)) <= n /\ Cardinality(A(s)) \in Nat
  <2> TAKE s
  <2>1. A(s) \subseteq 1 .. n
    BY <1>3
  <2>2. IsFiniteSet(1 .. n) /\ Cardinality(1 .. n) = n
    <3>1. 1 \in Int /\ n \in Int
      BY <1>3
    <3>2. Cardinality(1 .. n) = IF 1 > n THEN 0 ELSE n - 1 + 1
      BY <3>1, FS_Interval
    <3>3. IsFiniteSet(1 .. n)
      BY <3>1, FS_Interval
    <3> QED
      BY <1>3, <3>2, <3>3
  <2> HIDE DEF A
  <2>3. Cardinality(A(s)) <= Cardinality(1 .. n) /\ IsFiniteSet(A(s))
    BY <2>1, <2>2, FS_Subset
  <2> QED
    BY <2>2, <2>3, FS_CardinalityType
<1>7. NPlusOne(l) <=> Len(d) > Repeats /\ \E s \in Statements : Cardinality(A(s)) > Repeats
  BY <1>2 DEF NPlusOne, k
<1>8. RepeatedIn(p) <=> \E s \in Statements : Cardinality(A(s)) > Repeats
  <2>1. RepeatedIn(p) <=> \E s \in Statements : Cardinality(B(s)) > Repeats
    BY DEF RepeatedIn
  <2> HIDE DEF A, B, p
  <2> QED
    BY <1>5, <2>1
<1> HIDE DEF A, B, p, n
<1>9. (\E s \in Statements : Cardinality(A(s)) > Repeats) => Len(d) > Repeats
  BY <1>1, <1>3, <1>6
<1> QED
  BY <1>7, <1>8, <1>9 DEF p

-----------------------------------------------------------------------------
(* The slowest statements.                                                 *)

\* Slowest chooses the n slowest.
LEMMA SlowestChosen ==
  ASSUME NEW items \in Seq(Entry), NEW n \in Nat
  PROVE  SlowestOf(Slowest(items, n), [i \in 1 .. Len(items) |-> items[i].dur], n, Len(items))
<1>1. \A i \in 1 .. Len(items) : items[i].dur \in Nat
  <2> TAKE i \in 1 .. Len(items)
  <2>1. items[i] \in Entry
    OBVIOUS
  <2> QED
    BY <2>1 DEF Entry
<1>2. Slowest(items, n) = SlowestPlaces(items, n)
  BY DEF Slowest, SlowestPlaces, FoldLeft, MapThenFoldSet
<1> QED
  BY <1>1, <1>2, SlowestPlaced

\* The statements of a JSONL line.
LEMMA LineQueries ==
  ASSUME NEW r, ListOK(r.q, QueriesMax), NEW d, d.q \in Seq(Timed),
         ListTells(r.q, d.q, QueriesMax), Len(d.q) < Width,
         NEW level \in Nat, NEW comps
  PROVE  QueriesTrue(JsonlLine(r, level, comps), d, FALSE)
<1> DEFINE t == JsonlLine(r, level, comps)
           k == Kept(r.q)
           p == FirstOf(d.q, QueriesMax)
           l == Len(k)
           top == Slowest(k, JsonlTop)
           a == [i \in 1 .. l |-> k[i].dur]
           some == level < Full /\ l > JsonlTop
           pick == IF some THEN [j \in DOMAIN top |-> k[top[j]]] ELSE k
<1>1. /\ t.level = level /\ t.n1 = NPlusOne(r.q)
      /\ t.queries = IF level >= Normal THEN pick ELSE <<>>
  BY DEF JsonlLine
<1> HIDE DEF t
<1>2. JsonlTop \in Nat /\ QueriesMax \in Nat /\ Repeats \in Nat /\ Len(d.q) \in Nat
  BY TraceRecordAssumption, RecorderAssumption
<1>3. k \in Seq(Entry) /\ l = Len(p) /\ Plain(k) = p
  BY <1>2, KeptTells
<1> HIDE DEF k
<1>4. l \in Nat /\ DOMAIN k = 1 .. l /\ \A i \in 1 .. l : k[i] \in Entry /\ k[i].dur \in Nat
  <2>1. l \in Nat /\ DOMAIN k = 1 .. l /\ \A i \in 1 .. l : k[i] \in Entry
    BY <1>3
  <2>2. \A x \in Entry : x.dur \in Nat
    BY DEF Entry
  <2> QED
    BY <2>1, <2>2
<1>5. NPlusOne(r.q) <=> RepeatedIn(p)
  BY PatternTold
<1> HIDE DEF p
<1>6. SlowestOf(top, a, JsonlTop, l)
  BY <1>2, <1>3, SlowestChosen
<1>7. DOMAIN p = 1 .. l /\ \A i \in 1 .. l : p[i] = [what |-> k[i].what, dur |-> k[i].dur]
  <2>1. p = [i \in 1 .. l |-> [what |-> k[i].what, dur |-> k[i].dur]]
    BY <1>3, <1>4 DEF Plain
  <2> QED
    BY <2>1
<1>8. ASSUME level = Normal
      PROVE  /\ Range(Plain(t.queries)) \subseteq Range(p)
             /\ \A n \in Durations : Slow(t.queries, n) = Min({Slow(p, n), JsonlTop})
  <2>1. t.queries = pick
    BY <1>1, <1>8 DEF Normal
  <2>2. ASSUME NEW n PROVE Slow(p, n) = Cardinality({i \in 1 .. l : a[i] >= n})
    <3>1. \A i \in 1 .. l : p[i].dur = a[i]
      BY <1>7
    <3>2. {i \in DOMAIN p : p[i].dur >= n} = {i \in 1 .. l : a[i] >= n}
      <4> HIDE DEF a
      <4> QED
        BY <1>7, <3>1
    <3> QED
      BY <3>2 DEF Slow
  <2>3. CASE some
    <3> DEFINE m == Len(top)
    <3>1. top \in Seq(Nat) /\ \A j \in 1 .. m : top[j] \in 1 .. l
      BY <1>6 DEF SlowestOf
    <3>2. m \in Nat /\ DOMAIN top = 1 .. m
      BY <3>1
    <3> HIDE DEF top, m
    <3>3. t.queries = [j \in 1 .. m |-> k[top[j]]]
      BY <2>1, <2>3, <3>2
    <3>4. DOMAIN t.queries = 1 .. m /\ \A j \in 1 .. m : t.queries[j] = k[top[j]]
      BY <3>3
    <3>5. Range(Plain(t.queries)) \subseteq Range(p)
      <4>1. DOMAIN Plain(t.queries) = 1 .. m
        BY <3>4 DEF Plain
      <4>2. \A j \in 1 .. m : Plain(t.queries)[j] = p[top[j]] /\ top[j] \in DOMAIN p
        BY <1>7, <3>1, <3>4 DEF Plain, m
      <4> QED
        BY <4>1, <4>2 DEF Range
    <3>6. ASSUME NEW n \in Durations PROVE Slow(t.queries, n) = Min({Slow(p, n), JsonlTop})
      <4>1. n \in Nat /\ a \in [1 .. l -> Nat]
        BY <1>4, RecorderAssumption
      <4>2. \A j \in 1 .. m : t.queries[j].dur = a[top[j]]
        BY <3>1, <3>4 DEF m
      <4> HIDE DEF a
      <4>3. {j \in DOMAIN t.queries : t.queries[j].dur >= n} = {j \in 1 .. m : a[top[j]] >= n}
        BY <3>4, <4>2
      <4>4. ChosenSlow(top, a, n) = Min({AllSlow(a, l, n), JsonlTop})
        BY <1>2, <1>4, <1>6, <4>1, SlowestCounts
      <4>5. Slow(p, n) = AllSlow(a, l, n)
        BY <2>2 DEF a, AllSlow
      <4>6. Slow(t.queries, n) = ChosenSlow(top, a, n)
        BY <4>3 DEF Slow, ChosenSlow, m
      <4> QED
        BY <4>4, <4>5, <4>6
    <3> QED
      BY <3>5, <3>6
  <2>4. CASE ~some
    <3>1. t.queries = k /\ l <= JsonlTop
      BY <1>2, <1>4, <1>8, <2>1, <2>4 DEF Normal, Full
    <3>2. ASSUME NEW n \in Durations PROVE Slow(t.queries, n) = Min({Slow(p, n), JsonlTop})
      <4> DEFINE A == {i \in 1 .. l : a[i] >= n}
      <4>1. {i \in DOMAIN k : k[i].dur >= n} = A
        BY <1>4
      <4>2. Cardinality(A) \in Nat /\ Cardinality(A) <= l
        <5>1. A \subseteq 1 .. l
          OBVIOUS
        <5> HIDE DEF A
        <5>2. IsFiniteSet(1 .. l) /\ Cardinality(1 .. l) = l
          BY <1>4, UpTo
        <5>3. IsFiniteSet(A) /\ Cardinality(A) <= Cardinality(1 .. l)
          BY <5>1, <5>2, FS_Subset
        <5> QED
          BY <5>2, <5>3, FS_CardinalityType
      <4>3. Slow(p, n) = Cardinality(A)
        BY <2>2
      <4>4. Slow(t.queries, n) = Cardinality(A)
        BY <3>1, <4>1 DEF Slow
      <4> HIDE DEF A
      <4>5. Min({Cardinality(A), JsonlTop}) = Cardinality(A)
        BY <1>2, <1>4, <3>1, <4>2, MinOfTwo
      <4> QED
        BY <4>3, <4>4, <4>5
    <3>3. Plain(t.queries) = p
      BY <1>3, <3>1
    <3> QED
      BY <3>2, <3>3
  <2> QED
    BY <2>3, <2>4
<1>9. ASSUME level >= Full PROVE Plain(t.queries) = p
  <2>1. t.queries = k
    BY <1>1, <1>9 DEF Full, Normal
  <2> QED
    BY <1>3, <2>1
<1>10. t.n1 = RepeatedIn(p)
  <2>1. NPlusOne(r.q) \in BOOLEAN
    BY DEF NPlusOne
  <2>2. RepeatedIn(p) \in BOOLEAN
    BY DEF RepeatedIn
  <2> QED
    BY <1>1, <1>5, <2>1, <2>2
<1> QED
  BY <1>1, <1>8, <1>9, <1>10 DEF QueriesTrue, RepeatedIn, t, p

-----------------------------------------------------------------------------
(* What is written is what is read.                                        *)

\* The names of the fields a version of the ring has, when it has all.
LEMMA ReadsAll ==
  ASSUME NEW n \in Nat, NEW fields, DOMAIN fields = 1 .. n, NEW ver \in Nat,
         \A i \in 1 .. n : fields[i][2] <= ver
  PROVE  Reads(fields, ver) = [i \in 1 .. n |-> fields[i][1]]
<1>1. Reads(fields, ver) = FieldsUpTo(fields, ver)
  BY DEF Reads, FieldsUpTo, FoldLeft, MapThenFoldSet
<1> QED
  BY <1>1, FieldsAll

\* The fields that were packed are read.
LEMMA PackRead ==
  ASSUME NEW m \in Nat, NEW fields, DOMAIN fields = 1 .. m, NEW values, NEW data,
         Len(Pack(fields, values)) = m,
         NEW pos \in Nat, Holds(data, pos, Pack(fields, values)), Len(data) \in Nat
  PROVE  LET item == ItemAt(data, fields, pos)
         IN /\ DOMAIN item = Range(fields)
            /\ \A f \in Range(fields) : f \in DOMAIN values => item[f] = values[f]
<1> SUFFICES ASSUME NEW f \in Range(fields), f \in DOMAIN values
             PROVE  ItemAt(data, fields, pos)[f] = values[f]
  BY DEF ItemAt
<1> DEFINE i == CHOOSE j \in DOMAIN fields : fields[j] = f
<1>1. i \in 1 .. m /\ fields[i] = f
  BY DEF Range
<1>2. ItemAt(data, fields, pos)[f] = At(data, pos + i - 1)
  BY DEF ItemAt
<1> HIDE DEF i
<1>3. Pack(fields, values)[i] = values[f]
  BY <1>1 DEF Pack
<1>4. pos + i - 1 \in 1 .. Len(data) /\ data[pos + i - 1] = values[f]
  BY <1>1, <1>3 DEF Holds
<1>5. At(data, pos + i - 1) = data[pos + i - 1]
  BY <1>4 DEF At
<1> QED
  BY <1>2, <1>4, <1>5

\* A loop over ReadItem is its n-th state.
LEMMA ReadLoop ==
  ASSUME NEW n \in Nat, NEW data, NEW fields, NEW pos, NEW e,
         e[0] = [pos |-> pos, items |-> <<>>],
         \A k \in 1 .. n : e[k] = ReadItem(data, fields, e[k - 1])
  PROVE  ReadItems(data, fields, n, pos) = e[n]
<1> DEFINE b == [pos |-> pos, items |-> <<>>]
           z == [i \in 1 .. n |-> i]
           Fold(h) == h = [u \in SUBSET (1 .. n) |->
                             IF u = {} THEN b ELSE ReadItem(data, fields, h[u \ {Max(u)}])]
           h == CHOOSE x : Fold(x)
           g == [u \in SUBSET (1 .. n) |-> e[Cardinality(u)]]
<1>1. ReadItems(data, fields, n, pos) = h[1 .. n]
  <2>1. DOMAIN z = 1 .. n
    OBVIOUS
  <2> QED
    BY <2>1 DEF ReadItems, FoldLeft, MapThenFoldSet
<1>2. IsFiniteSet(1 .. n) /\ Cardinality(1 .. n) = n /\ 1 .. n \subseteq Int
  BY UpTo
<1> HIDE DEF b
<1>3. \A u \in SUBSET (1 .. n) : u # {} =>
        g[u] = ReadItem(data, fields, g[u \ {Max(u)}])
  <2> TAKE u \in SUBSET (1 .. n)
  <2> HAVE u # {}
  <2> DEFINE x == Max(u)
             v == u \ {x}
  <2>1. IsFiniteSet(u) /\ u \subseteq Int /\ Cardinality(u) <= n
    <3> DEFINE D == 1 .. n
    <3>1. u \subseteq D /\ IsFiniteSet(D) /\ Cardinality(D) = n /\ D \subseteq Int
      BY <1>2
    <3> HIDE DEF D
    <3>2. IsFiniteSet(u) /\ Cardinality(u) <= Cardinality(D)
      BY <3>1, FS_Subset
    <3> QED
      BY <3>1, <3>2
  <2>2. x \in u
    BY <2>1, MaxMember
  <2> HIDE DEF x
  <2>3. Cardinality(v) = Cardinality(u) - 1
    BY <2>1, <2>2, FS_RemoveElement
  <2>4. Cardinality(u) \in 1 .. n
    <3>1. Cardinality(u) \in Nat /\ Cardinality(u) # 0
      <4>1. Cardinality(u) \in Nat
        BY <2>1, FS_CardinalityType
      <4>2. Cardinality(u) # 0
        BY <2>1, <2>2, FS_EmptySet
      <4> QED
        BY <4>1, <4>2
    <3> QED
      BY <2>1, <3>1
  <2>5. g[u] = e[Cardinality(u)] /\ g[v] = e[Cardinality(v)]
    OBVIOUS
  <2> HIDE DEF g
  <2> QED
    BY <2>3, <2>4, <2>5 DEF x
<1>4. g[{}] = b
  BY FS_EmptySet DEF b
<1>5. Fold(g)
  <2>1. g = [u \in SUBSET (1 .. n) |-> g[u]]
    OBVIOUS
  <2> HIDE DEF g
  <2> QED
    BY <1>3, <1>4, <2>1
<1>6. Fold(h)
  <2> HIDE DEF Fold, g
  <2> QED
    BY <1>5
<1> HIDE DEF h, g
<1> DEFINE T == {k \in 0 .. n : h[1 .. k] # e[k]}
<1>7. h[1 .. 0] = e[0]
  <2>1. 1 .. 0 = {}
    OBVIOUS
  <2> QED
    BY <1>6, <2>1 DEF b
<1>8. T = {}
  <2> SUFFICES ASSUME T # {} PROVE FALSE
    OBVIOUS
  <2>1. T \in SUBSET Nat
    OBVIOUS
  <2>2. PICK m \in T : \A k \in T : m <= k
    <3> HIDE DEF T
    <3> QED
      BY <2>1, LeastNat
  <2>3. m # 0
    BY <1>7
  <2>4. m \in 1 .. n /\ m - 1 \in 0 .. n /\ ~(m <= m - 1) /\ m \in Nat \ {0}
    BY <2>3
  <2>5. h[1 .. m - 1] = e[m - 1]
    BY <2>2, <2>4
  <2>6. Max(1 .. m) = m /\ (1 .. m) \ {m} = 1 .. m - 1
    BY <2>4, MaxUpTo
  <2>7. h[1 .. m] = ReadItem(data, fields, h[(1 .. m) \ {Max(1 .. m)}])
    <3> DEFINE u == 1 .. m
    <3>1. u \in SUBSET (1 .. n) /\ u # {}
      BY <2>4
    <3> HIDE DEF u
    <3>2. h[u] = ReadItem(data, fields, h[u \ {Max(u)}])
      BY <1>6, <3>1
    <3> QED
      BY <3>2 DEF u
  <2>8. h[1 .. m] = e[m]
    BY <2>4, <2>5, <2>6, <2>7
  <2> QED
    BY <2>8
<1>9. n \in 0 .. n
  OBVIOUS
<1> QED
  BY <1>1, <1>8, <1>9

\* A record that is packed is as long as its fields are many.
LEMMA PackTyped ==
  ASSUME NEW m \in Nat, NEW fields, DOMAIN fields = 1 .. m, NEW values,
         \A i \in 1 .. m : fields[i] \in DOMAIN values => values[fields[i]] \in Cells
  PROVE  Pack(fields, values) \in Seq(Cells) /\ Len(Pack(fields, values)) = m
<1> DEFINE p == Pack(fields, values)
<1>1. p = [i \in 1 .. m |-> IF fields[i] \in DOMAIN values THEN values[fields[i]] ELSE 100 + i]
  BY DEF Pack
<1>2. \A i \in 1 .. m : 100 + i \in Cells
  BY DEF Cells
<1> HIDE DEF Cells
<1>3. \A i \in 1 .. m :
        (IF fields[i] \in DOMAIN values THEN values[fields[i]] ELSE 100 + i) \in Cells
  BY <1>2
<1> HIDE DEF p
<1>4. p \in [1 .. m -> Cells]
  BY <1>1, <1>3
<1>5. p \in Seq(Cells) /\ Len(p) = m
  BY <1>4
<1> QED
  BY <1>5 DEF p

\* A frame of a backtrace takes three cells.
LEMMA FrameTyped ==
  ASSUME NEW b \in Nat
  PROVE  Pack(FrameFields, [line |-> b]) \in Seq(Cells) /\ Len(Pack(FrameFields, [line |-> b])) = 3
<1> DEFINE x == [line |-> b]
           fs == FrameFields
           m == 3
<1>1. m \in Nat /\ DOMAIN fs = 1 .. m
  BY DEF FrameFields
<1>2. \A i \in 1 .. m : fs[i] \in DOMAIN x => x[fs[i]] \in Cells
  BY DEF Cells
<1> HIDE DEF x, fs, m
<1>3. Pack(fs, x) \in Seq(Cells) /\ Len(Pack(fs, x)) = m
  BY <1>1, <1>2, PackTyped
<1> QED
  BY <1>3 DEF fs, x, m

\* The frames after a record take three cells each.
LEMMA FramesTyped ==
  ASSUME NEW v, "frames" \in DOMAIN v => v["frames"] \in Nat
  PROVE  /\ FramesOf(v) \in Seq(Cells)
         /\ Len(FramesOf(v)) = IF "frames" \in DOMAIN v THEN v["frames"] * Len(FrameFields) ELSE 0
<1>1. CASE "frames" \notin DOMAIN v
  <2>1. FramesOf(v) = <<>>
    BY <1>1 DEF FramesOf
  <2> QED
    BY <1>1, <2>1
<1>2. CASE "frames" \in DOMAIN v
  <2> DEFINE n == v["frames"]
             q == [b \in 1 .. n |-> Pack(FrameFields, [line |-> b])]
  <2>1. n \in Nat /\ FramesOf(v) = FlattenSeq(q)
    BY <1>2 DEF FramesOf
  <2> HIDE DEF n
  <2>2. Len(FrameFields) = 3 /\ DOMAIN FrameFields = 1 .. 3
    BY DEF FrameFields
  <2>3. ASSUME NEW b \in 1 .. n
        PROVE  q[b] \in Seq(Cells) /\ Len(q[b]) = 3
    <3>1. b \in Nat
      BY <2>1
    <3>2. q[b] = Pack(FrameFields, [line |-> b])
      OBVIOUS
    <3> HIDE DEF q
    <3> QED
      BY <3>1, <3>2, FrameTyped
  <2>4. q \in Seq(Seq(Cells)) /\ Len(q) = n
    <3> DEFINE S == Seq(Cells)
    <3>1. \A b \in 1 .. n : q[b] \in S
      BY <2>3
    <3> HIDE DEF S
    <3>2. q \in [1 .. n -> S]
      BY <3>1
    <3> HIDE DEF q
    <3>3. q \in Seq(S) /\ Len(q) = n
      BY <2>1, <3>2
    <3> QED
      BY <3>3 DEF S
  <2> HIDE DEF q
  <2>5. FlattenSeq(q) \in Seq(Cells)
    BY <2>4, FlattenHolds
  <2>6. PICK o : SpreadOver(o, q, FlattenSeq(q))
    BY <2>4, FlattenHolds
  <2>7. o[0] = 0 /\ o[n] = Len(FlattenSeq(q)) /\ \A k \in 1 .. n : o[k] = o[k - 1] + 3
    BY <2>3, <2>4, <2>6 DEF SpreadOver
  <2> DEFINE T == {k \in 0 .. n : o[k] # k * 3}
  <2>8. T = {}
    <3> SUFFICES ASSUME T # {} PROVE FALSE
      OBVIOUS
    <3>1. T \in SUBSET Nat
      BY <2>1
    <3>2. PICK m \in T : \A k \in T : m <= k
      <4> HIDE DEF T
      <4> QED
        BY <3>1, LeastNat
    <3>3. m # 0
      BY <2>7
    <3>4. m \in 1 .. n /\ m - 1 \in 0 .. n /\ ~(m <= m - 1)
      BY <2>1, <3>3
    <3>5. o[m - 1] = (m - 1) * 3
      BY <3>2, <3>4
    <3>6. o[m] = m * 3
      BY <2>7, <3>4, <3>5
    <3> QED
      BY <3>6
  <2>9. o[n] = n * 3
    <3>1. n \in 0 .. n
      BY <2>1
    <3> QED
      BY <2>8, <3>1
  <2> QED
    BY <1>2, <2>1, <2>2, <2>5, <2>7, <2>9 DEF n
<1> QED
  BY <1>1, <1>2

\* A section is the fields of its items, one after the other.
LEMMA PackAllTyped ==
  ASSUME NEW fields, NEW items, Writable(fields, items), NEW n \in Nat, DOMAIN items = 1 .. n
  PROVE  /\ PackAll(fields, items) \in Seq(Cells)
         /\ \E o, q : SpreadOver(o, q, PackAll(fields, items)) /\ Laid(q, fields, items, n)
<1> DEFINE q == [i \in DOMAIN items |-> Pack(fields, items[i]) \o FramesOf(items[i])]
           m == Len(fields)
<1>1. PackAll(fields, items) = FlattenSeq(q)
  BY DEF PackAll, FramesOf
<1>2. ASSUME NEW i \in 1 .. n
      PROVE  /\ Pack(fields, items[i]) \in Seq(Cells) /\ FramesOf(items[i]) \in Seq(Cells)
             /\ Len(Pack(fields, items[i])) = Len(fields)
             /\ Len(FramesOf(items[i])) = IF "frames" \in DOMAIN items[i]
                                          THEN items[i]["frames"] * Len(FrameFields) ELSE 0
  <2> DEFINE v == items[i]
  <2>1. /\ DOMAIN fields = 1 .. m /\ m \in Nat
        /\ \A j \in 1 .. m : fields[j] \in DOMAIN v => v[fields[j]] \in Cells
        /\ "frames" \in DOMAIN v => v["frames"] \in Nat
    BY DEF Writable
  <2> HIDE DEF v, m
  <2>2. Pack(fields, v) \in Seq(Cells) /\ Len(Pack(fields, v)) = m
    BY <2>1, PackTyped
  <2>3. /\ FramesOf(v) \in Seq(Cells)
        /\ Len(FramesOf(v)) = IF "frames" \in DOMAIN v THEN v["frames"] * Len(FrameFields) ELSE 0
    BY <2>1, FramesTyped
  <2> QED
    BY <2>2, <2>3 DEF v, m
<1>3. q \in Seq(Seq(Cells)) /\ Len(q) = n
  <2> DEFINE S == Seq(Cells)
  <2>1. \A i \in 1 .. n : q[i] \in S
    <3> TAKE i \in 1 .. n
    <3>1. Pack(fields, items[i]) \o FramesOf(items[i]) \in Seq(Cells)
      <4> DEFINE a == Pack(fields, items[i])
                 b == FramesOf(items[i])
      <4>1. a \in Seq(Cells) /\ b \in Seq(Cells)
        BY <1>2
      <4> HIDE DEF a, b
      <4>2. a \o b \in Seq(Cells)
        BY <4>1
      <4> QED
        BY <4>2 DEF a, b
    <3> QED
      BY <3>1
  <2> HIDE DEF S
  <2>2. q \in [1 .. n -> S]
    BY <2>1
  <2> HIDE DEF q
  <2>3. q \in Seq(S) /\ Len(q) = n
    BY <2>2
  <2> QED
    BY <2>3 DEF S
<1>4. \A i \in 1 .. n : q[i] = Pack(fields, items[i]) \o FramesOf(items[i])
  OBVIOUS
<1> HIDE DEF q
<1>5. FlattenSeq(q) \in Seq(Cells) /\ \E o : SpreadOver(o, q, FlattenSeq(q))
  BY <1>3, FlattenHolds
<1> QED
  BY <1>1, <1>2, <1>3, <1>4, <1>5 DEF Laid

\* What is written of a section is read back.
LEMMA PackAllRead ==
  ASSUME NEW fields, NEW items, Writable(fields, items), NEW n \in Nat, DOMAIN items = 1 .. n,
         NEW data, Len(data) \in Nat, NEW pos \in Nat, Holds(data, pos, PackAll(fields, items))
  PROVE  /\ PackAll(fields, items) \in Seq(Cells)
         /\ ReadBack(ReadItems(data, fields, n, pos), fields, items, n,
                     pos + Len(PackAll(fields, items)))
<1> DEFINE s == PackAll(fields, items)
           m == Len(fields)
           w == Len(FrameFields)
<1>1. s \in Seq(Cells)
  BY PackAllTyped
<1>2a. PICK o, q : SpreadOver(o, q, s) /\ Laid(q, fields, items, n)
  BY PackAllTyped
<1>2. /\ SpreadOver(o, q, s) /\ Len(q) = n
      /\ \A i \in 1 .. n :
           /\ q[i] = Pack(fields, items[i]) \o FramesOf(items[i])
           /\ Pack(fields, items[i]) \in Seq(Cells) /\ FramesOf(items[i]) \in Seq(Cells)
           /\ Len(Pack(fields, items[i])) = m
           /\ Len(FramesOf(items[i])) = IF "frames" \in DOMAIN items[i]
                                        THEN items[i]["frames"] * w ELSE 0
  BY <1>2a DEF Laid
<1>3. /\ o \in [0 .. n -> Nat] /\ o[0] = 0 /\ o[n] = Len(s)
      /\ \A k \in 1 .. n : o[k] = o[k - 1] + Len(q[k]) /\ Holds(s, o[k - 1] + 1, q[k])
  BY <1>2 DEF SpreadOver
<1>4. DOMAIN fields = 1 .. m /\ m \in Nat /\ w = 3
  BY DEF Writable, FrameFields
<1> HIDE DEF s, m, w
<1>5. \A k \in 1 .. n : k - 1 \in 0 .. n /\ o[k - 1] \in Nat /\ pos + o[k - 1] \in Nat
  BY <1>3
<1> DEFINE I == [k \in 1 .. n |-> ItemAt(data, fields, pos + o[k - 1])]
<1>6. ASSUME NEW k \in 1 .. n
      PROVE  /\ DOMAIN I[k] = Range(fields)
             /\ \A f \in Range(fields) : f \in DOMAIN items[k] => I[k][f] = items[k][f]
             /\ o[k] = o[k - 1] + m + (IF "frames" \in DOMAIN I[k] THEN I[k]["frames"] * w ELSE 0)
  <2> DEFINE p == pos + o[k - 1]
             v == items[k]
             a == Pack(fields, v)
             b == FramesOf(v)
             item == ItemAt(data, fields, p)
  <2>1. /\ p \in Nat /\ a \in Seq(Cells) /\ b \in Seq(Cells) /\ q[k] = a \o b /\ Len(a) = m
        /\ Len(b) = IF "frames" \in DOMAIN v THEN v["frames"] * w ELSE 0
    BY <1>2, <1>5
  <2>2. Holds(data, p, q[k])
    <3>1. o[k - 1] + 1 \in Nat \ {0} /\ Len(s) \in Nat /\ Len(q[k]) \in Nat
      <4> HIDE DEF a, b
      <4>1. a \o b \in Seq(Cells)
        BY <2>1
      <4> QED
        BY SMTT(40), <1>1, <1>5, <2>1, <4>1
    <3>2. Holds(data, pos + (o[k - 1] + 1) - 1, q[k])
      BY <1>3, <3>1, HoldsWithin DEF s
    <3>3. pos + (o[k - 1] + 1) - 1 = p
      BY <1>5
    <3> QED
      BY <3>2, <3>3
  <2> HIDE DEF p, a, b
  <2>3. Holds(data, p, a) /\ Len(q[k]) = m + Len(b)
    <3> DEFINE S == Cells
    <3>1. a \in Seq(S) /\ b \in Seq(S) /\ p \in Nat /\ Holds(data, p, a \o b)
      BY <2>1, <2>2
    <3> HIDE DEF S
    <3>2. Len(a \o b) = Len(a) + Len(b) /\ Holds(data, p, a)
      BY <3>1, HoldsParts
    <3> QED
      BY <2>1, <3>2
  <2>4. /\ DOMAIN item = Range(fields)
        /\ \A f \in Range(fields) : f \in DOMAIN v => item[f] = v[f]
    <3> HIDE DEF v
    <3> QED
      BY <1>4, <2>1, <2>3, PackRead DEF a
  <2>5. I[k] = item
    BY DEF p
  <2>6. ("frames" \in Range(fields) <=> "frames" \in DOMAIN v) /\ o[k] = o[k - 1] + Len(q[k])
    BY <1>3 DEF Writable
  <2>7. ("frames" \in DOMAIN v) => v["frames"] \in Nat
    BY DEF Writable
  <2> HIDE DEF I, item
  <2>8. o[k] = o[k - 1] + m + (IF "frames" \in DOMAIN I[k] THEN I[k]["frames"] * w ELSE 0)
    <3>1. CASE "frames" \in DOMAIN v
      <4>1. I[k]["frames"] = v["frames"] /\ "frames" \in DOMAIN I[k]
        BY <2>4, <2>5, <2>6, <3>1
      <4> QED
        BY SMTT(40), <1>4, <1>5, <2>1, <2>3, <2>6, <2>7, <3>1, <4>1
    <3>2. CASE "frames" \notin DOMAIN v
      <4>1. "frames" \notin DOMAIN I[k]
        BY <2>4, <2>5, <2>6, <3>2
      <4> QED
        BY <1>4, <1>5, <2>1, <2>3, <2>6, <3>2, <4>1
    <3> QED
      BY <3>1, <3>2
  <2> QED
    BY <2>4, <2>5, <2>8
<1> DEFINE e == [k \in 0 .. n |-> [pos |-> pos + o[k], items |-> [i \in 1 .. k |-> I[i]]]]
<1>7. e[0] = [pos |-> pos, items |-> <<>>]
  BY <1>3
<1>8. ASSUME NEW k \in 1 .. n PROVE e[k] = ReadItem(data, fields, e[k - 1])
  <2> DEFINE p == pos + o[k - 1]
             item == ItemAt(data, fields, p)
  <2>1. /\ e[k - 1].pos = p /\ e[k - 1].items = [i \in 1 .. k - 1 |-> I[i]]
        /\ e[k] = [pos |-> pos + o[k], items |-> [i \in 1 .. k |-> I[i]]]
    BY <1>5
  <2>2. I[k] = item
    OBVIOUS
  <2>3. Append([i \in 1 .. k - 1 |-> I[i]], I[k]) = [i \in 1 .. k |-> I[i]]
    <3>1. DOMAIN I = 1 .. n
      OBVIOUS
    <3> HIDE DEF I
    <3> QED
      BY <3>1, OneMoreItem
  <2> DEFINE next == p + m
             y == IF "frames" \in DOMAIN item THEN next + item["frames"] * w ELSE next
  <2>4. ReadItem(data, fields, e[k - 1]) = [pos |-> y, items |-> Append(e[k - 1].items, item)]
    <3> HIDE DEF e
    <3> QED
      BY <2>1 DEF ReadItem, ItemAt, m, w
  <2> HIDE DEF e, I, item
  <2>5. y = pos + o[k]
    <3>1. o[k] = o[k - 1] + m + (IF "frames" \in DOMAIN item THEN item["frames"] * w ELSE 0)
      BY <1>6, <2>2
    <3>2. o[k] \in Nat
      BY <1>3
    <3>3. CASE "frames" \in DOMAIN item
      <4> DEFINE z == item["frames"] * w
      <4>1. o[k] = o[k - 1] + m + z /\ y = p + m + z
        BY <3>1, <3>3
      <4>2. z \in Int
        <5>1. "frames" \in Range(fields) /\ "frames" \in DOMAIN items[k]
          BY <1>6, <2>2, <3>3 DEF Writable
        <5>2. item["frames"] \in Nat
          BY <1>6, <2>2, <5>1 DEF Writable
        <5> QED
          BY <1>4, <5>2
      <4> HIDE DEF z
      <4> QED
        BY <1>4, <1>5, <4>1, <4>2
    <3>4. CASE "frames" \notin DOMAIN item
      BY <1>4, <1>5, <3>1, <3>4
    <3> QED
      BY <3>3, <3>4
  <2> HIDE DEF y
  <2> QED
    BY <2>1, <2>2, <2>3, <2>4, <2>5
<1>9. e[n] = [pos |-> pos + Len(s), items |-> [i \in 1 .. n |-> I[i]]]
  <2> HIDE DEF I
  <2>1. n \in 0 .. n
    OBVIOUS
  <2>2. e[n] = [pos |-> pos + o[n], items |-> [i \in 1 .. n |-> I[i]]]
    BY <2>1
  <2> QED
    BY <1>3, <2>2
<1> HIDE DEF e, I
<1>8a. \A k \in 1 .. n : e[k] = ReadItem(data, fields, e[k - 1])
  BY <1>8
<1>10. ReadItems(data, fields, n, pos) = e[n]
  BY <1>7, <1>8a, ReadLoop
<1>11. ReadBack(e[n], fields, items, n, pos + Len(s))
  BY <1>6, <1>9 DEF ReadBack
<1> QED
  BY <1>1, <1>10, <1>11 DEF s

\* The collector reads the fields of version 5 in the order in which they are written.
LEMMA SameFields ==
  /\ HeaderOf[5] = HeaderFields /\ TextsOf[5] = Texts /\ ComponentOf[5] = ComponentFields
  /\ DOMAIN HeaderFields = 1 .. 36 /\ Len(HeaderFields) = 36
  /\ DOMAIN Texts = 1 .. 6 /\ Len(Texts) = 6
<1>1. HeaderOf[5] = Reads(HeaderReads, 5) /\ TextsOf[5] = Reads(TextReads, 5)
      /\ ComponentOf[5] = Reads(ComponentReads, 5)
  BY DEF HeaderOf, TextsOf, ComponentOf
<1>2. Reads(HeaderReads, 5) = HeaderFields
  <2> DEFINE fs == HeaderReads
             n == 36
             v == 5
  <2>1. DOMAIN fs = 1 .. n /\ n \in Nat /\ v \in Nat
    BY DEF HeaderReads
  <2>2. \A i \in 1 .. n : fs[i][2] <= v
    BY DEF HeaderReads
  <2>3. \A i \in 1 .. n : fs[i][1] = HeaderFields[i]
    BY DEF HeaderReads, HeaderFields
  <2>4. HeaderFields = [i \in 1 .. n |-> HeaderFields[i]]
    BY DEF HeaderFields
  <2> HIDE DEF fs, n, v
  <2>5. Reads(fs, v) = [i \in 1 .. n |-> fs[i][1]]
    BY <2>1, <2>2, ReadsAll
  <2>6. [i \in 1 .. n |-> fs[i][1]] = [i \in 1 .. n |-> HeaderFields[i]]
    BY <2>3
  <2>7. Reads(fs, v) = HeaderFields
    BY <2>4, <2>5, <2>6
  <2> QED
    BY <2>7 DEF fs, v
<1>3. Reads(TextReads, 5) = Texts
  <2> DEFINE fs == TextReads
             n == 6
             v == 5
  <2>1. DOMAIN fs = 1 .. n /\ n \in Nat /\ v \in Nat
    BY DEF TextReads
  <2>2. \A i \in 1 .. n : fs[i][2] <= v
    BY DEF TextReads
  <2>3. \A i \in 1 .. n : fs[i][1] = Texts[i]
    BY DEF TextReads, Texts
  <2>4. Texts = [i \in 1 .. n |-> Texts[i]]
    BY DEF Texts
  <2> HIDE DEF fs, n, v
  <2>5. Reads(fs, v) = [i \in 1 .. n |-> fs[i][1]]
    BY <2>1, <2>2, ReadsAll
  <2>6. [i \in 1 .. n |-> fs[i][1]] = [i \in 1 .. n |-> Texts[i]]
    BY <2>3
  <2>7. Reads(fs, v) = Texts
    BY <2>4, <2>5, <2>6
  <2> QED
    BY <2>7 DEF fs, v
<1>4. Reads(ComponentReads, 5) = ComponentFields
  <2> DEFINE fs == ComponentReads
             n == 5
             v == 5
  <2>1. DOMAIN fs = 1 .. n /\ n \in Nat /\ v \in Nat
    BY DEF ComponentReads
  <2>2. \A i \in 1 .. n : fs[i][2] <= v
    BY DEF ComponentReads
  <2>3. \A i \in 1 .. n : fs[i][1] = ComponentFields[i]
    BY DEF ComponentReads, ComponentFields
  <2>4. ComponentFields = [i \in 1 .. n |-> ComponentFields[i]]
    BY DEF ComponentFields
  <2> HIDE DEF fs, n, v
  <2>5. Reads(fs, v) = [i \in 1 .. n |-> fs[i][1]]
    BY <2>1, <2>2, ReadsAll
  <2>6. [i \in 1 .. n |-> fs[i][1]] = [i \in 1 .. n |-> ComponentFields[i]]
    BY <2>3
  <2>7. Reads(fs, v) = ComponentFields
    BY <2>4, <2>5, <2>6
  <2> QED
    BY <2>7 DEF fs, v
<1>5. /\ DOMAIN HeaderFields = 1 .. 36 /\ Len(HeaderFields) = 36
      /\ DOMAIN Texts = 1 .. 6 /\ Len(Texts) = 6
  BY DEF HeaderFields, Texts
<1> QED
  BY <1>1, <1>2, <1>3, <1>4, <1>5

\* Fields without a backtrace, read as one item.
LEMMA OneRead ==
  ASSUME NEW m \in Nat, NEW fields, DOMAIN fields = 1 .. m, Len(fields) = m,
         "frames" \notin Range(fields), NEW values,
         \A i \in 1 .. m : fields[i] \in DOMAIN values => values[fields[i]] \in Cells,
         NEW data, Len(data) \in Nat, NEW pos \in Nat, Holds(data, pos, Pack(fields, values))
  PROVE  LET x == ReadItem(data, fields, [pos |-> pos, items |-> <<>>])
         IN /\ x.pos = pos + m /\ DOMAIN x.items[1] = Range(fields)
            /\ \A f \in Range(fields) : f \in DOMAIN values => x.items[1][f] = values[f]
<1> DEFINE st == [pos |-> pos, items |-> <<>>]
           item == ItemAt(data, fields, pos)
           x == ReadItem(data, fields, st)
<1>1. Len(Pack(fields, values)) = m
  BY PackTyped
<1>2. DOMAIN item = Range(fields) /\ \A f \in Range(fields) : f \in DOMAIN values => item[f] = values[f]
  BY <1>1, PackRead
<1>3. st.pos = pos /\ st.items = <<>>
  OBVIOUS
<1> HIDE DEF st
<1>4. x = [pos |-> IF "frames" \in DOMAIN item
                   THEN pos + Len(fields) + item["frames"] * Len(FrameFields)
                   ELSE pos + Len(fields),
           items |-> Append(<<>>, item)]
  BY <1>3 DEF ReadItem, ItemAt
<1> HIDE DEF item, x
<1>5. x = [pos |-> pos + m, items |-> Append(<<>>, item)]
  BY <1>2, <1>4
<1>6. Append(<<>>, item)[1] = item
  OBVIOUS
<1>7. x.pos = pos + m /\ x.items[1] = item
  BY <1>5, <1>6
<1> QED
  BY <1>2, <1>7 DEF x, st

\* The sections of a record, one by one.
LEMMA SectionsAre ==
  ASSUME NEW r, NEW level, NEW comps
  PROVE  Sections(r, level, comps) =
           [q |-> Detailed(QueriesOf(r, level)), h |-> Detailed(CallsOf(r, level)),
            m |-> Worded(r.marks), e |-> Worded(r.errors), c |-> Shared(comps)]
BY DEF Sections, Detailed, QueriesOf, CallsOf, Worded, Shared, FirstOf

\* Statements and calls have a value for each of their fields.
LEMMA DetailedWritable ==
  ASSUME NEW items \in Seq(Entry)
  PROVE  LET x == Detailed(items)
         IN /\ DOMAIN x = 1 .. Len(items) /\ Len(x) = Len(items)
            /\ Writable(QueryFields, x) /\ Writable(HttpFields, x)
<1> DEFINE x == Detailed(items)
           n == Len(items)
<1>1. n \in Nat /\ DOMAIN items = 1 .. n /\ \A i \in 1 .. n : items[i] \in Entry
  OBVIOUS
<1>2. \A i \in 1 .. n : items[i].what \in Nat /\ items[i].dur \in Nat /\ items[i].bt \in Nat
  BY <1>1 DEF Entry
<1> HIDE DEF n
<1>3. x = [i \in 1 .. n |->
             [duration |-> items[i].dur, frames |-> items[i].bt, text |-> items[i].what]]
  BY <1>1 DEF Detailed
<1> HIDE DEF x
<1>4. DOMAIN x = 1 .. n /\ x = [i \in 1 .. n |-> x[i]]
  BY <1>3
<1>5. Len(x) = n
  BY <1>1, <1>4, ItemsCount
<1>6. ASSUME NEW i \in 1 .. n
      PROVE  /\ DOMAIN x[i] = {"duration", "frames", "text"}
             /\ x[i]["duration"] \in Cells /\ x[i]["frames"] \in Cells /\ x[i]["text"] \in Cells
             /\ x[i]["frames"] \in Nat
  BY <1>2, <1>3 DEF Cells
<1>7. /\ DOMAIN QueryFields = 1 .. 7 /\ Len(QueryFields) = 7
      /\ DOMAIN HttpFields = 1 .. 6 /\ Len(HttpFields) = 6
      /\ QueryFields[6] = "frames" /\ HttpFields[5] = "frames"
  BY DEF QueryFields, HttpFields
<1>8. "frames" \in Range(QueryFields) /\ "frames" \in Range(HttpFields)
  BY <1>7 DEF Range
<1>9. ASSUME NEW fields, DOMAIN fields = 1 .. Len(fields), Len(fields) \in Nat,
             "frames" \in Range(fields)
      PROVE  Writable(fields, x)
  <2>1. ASSUME NEW i \in 1 .. n, NEW f, f \in DOMAIN x[i]
        PROVE  x[i][f] \in Cells
    BY <1>6, <2>1
  <2>2. ASSUME NEW i \in 1 .. n
        PROVE  "frames" \in DOMAIN x[i] /\ x[i]["frames"] \in Nat
    BY <1>6
  <2> QED
    BY <1>4, <1>9, <2>1, <2>2 DEF Writable
<1>10. Writable(QueryFields, x) /\ Writable(HttpFields, x)
  BY <1>7, <1>8, <1>9
<1> QED
  BY <1>4, <1>5, <1>10 DEF x, n

\* Marks and errors have a value for each of their fields.
LEMMA WordedWritable ==
  ASSUME NEW words \in Seq(Nat)
  PROVE  LET x == Worded(words)
         IN /\ DOMAIN x = 1 .. Len(words) /\ Len(x) = Len(words)
            /\ Writable(MarkFields, x) /\ Writable(ErrorFields, x)
<1> DEFINE x == Worded(words)
           n == Len(words)
<1>1. n \in Nat /\ DOMAIN words = 1 .. n /\ \A i \in 1 .. n : words[i] \in Nat
  OBVIOUS
<1> HIDE DEF n
<1>3. x = [i \in 1 .. n |-> [text |-> words[i]]]
  BY <1>1 DEF Worded
<1> HIDE DEF x
<1>4. DOMAIN x = 1 .. n /\ x = [i \in 1 .. n |-> x[i]]
  BY <1>3
<1>5. Len(x) = n
  BY <1>1, <1>4, ItemsCount
<1>6. ASSUME NEW i \in 1 .. n
      PROVE  DOMAIN x[i] = {"text"} /\ x[i]["text"] \in Cells
  BY <1>1, <1>3 DEF Cells
<1>7. /\ DOMAIN MarkFields = 1 .. 3 /\ Len(MarkFields) = 3
      /\ DOMAIN ErrorFields = 1 .. 4 /\ Len(ErrorFields) = 4
      /\ \A i \in 1 .. 3 : MarkFields[i] # "frames"
      /\ \A i \in 1 .. 4 : ErrorFields[i] # "frames"
  BY DEF MarkFields, ErrorFields
<1>8. "frames" \notin Range(MarkFields) /\ "frames" \notin Range(ErrorFields)
  BY <1>7 DEF Range
<1>9. Writable(MarkFields, x)
  BY <1>4, <1>6, <1>7, <1>8 DEF Writable
<1>10. Writable(ErrorFields, x)
  BY <1>4, <1>6, <1>7, <1>8 DEF Writable
<1> QED
  BY <1>4, <1>5, <1>9, <1>10 DEF x, n

\* Components have a value for each of their fields.
LEMMA SharedWritable ==
  ASSUME NEW comps \in Seq(Comps)
  PROVE  LET x == Shared(comps)
         IN /\ DOMAIN x = 1 .. Len(comps) /\ Len(x) = Len(comps)
            /\ Writable(ComponentFields, x)
<1> DEFINE x == Shared(comps)
           n == Len(comps)
<1>1. n \in Nat /\ DOMAIN comps = 1 .. n /\ \A i \in 1 .. n : comps[i] \in Comps
  OBVIOUS
<1>2. \A i \in 1 .. n : comps[i].name \in Names /\ comps[i].incl \in Nat /\ comps[i].self \in Nat
  BY <1>1, CompParts
<1> HIDE DEF n
<1>3. x = [i \in 1 .. n |->
             [incl |-> comps[i].incl, self |-> comps[i].self, text |-> comps[i].name]]
  BY <1>1 DEF Shared
<1> HIDE DEF x
<1>4. DOMAIN x = 1 .. n /\ x = [i \in 1 .. n |-> x[i]]
  BY <1>3
<1>5. Len(x) = n
  BY <1>1, <1>4, ItemsCount
<1>6. ASSUME NEW i \in 1 .. n
      PROVE  /\ DOMAIN x[i] = {"incl", "self", "text"}
             /\ x[i]["incl"] \in Cells /\ x[i]["self"] \in Cells /\ x[i]["text"] \in Cells
  BY <1>2, <1>3 DEF Cells
<1>7. /\ DOMAIN ComponentFields = 1 .. 5 /\ Len(ComponentFields) = 5
      /\ \A i \in 1 .. 5 : ComponentFields[i] # "frames"
  BY DEF ComponentFields
<1>8. "frames" \notin Range(ComponentFields)
  BY <1>7 DEF Range
<1>9. Writable(ComponentFields, x)
  BY <1>4, <1>6, <1>7, <1>8 DEF Writable
<1> QED
  BY <1>4, <1>5, <1>9 DEF x, n

\* The header has no frames.
LEMMA HeaderNoFrames == "frames" \notin Range(HeaderFields)
<1>1. \A i \in 1 .. 36 : HeaderFields[i] # "frames"
  BY DEF HeaderFields
<1>2. DOMAIN HeaderFields = 1 .. 36
  BY DEF HeaderFields
<1> QED
  BY <1>1, <1>2 DEF Range

\* The header is typed.
LEMMA HeaderTyped ==
  ASSUME NEW r, Tellable(r), NEW level \in Nat, NEW s,
         Len(s.q) \in Nat, Len(s.h) \in Nat, Len(s.m) \in Nat, Len(s.e) \in Nat, Len(s.c) \in Nat,
         NEW profiled
  PROVE  LET v == HeaderValues(r, level, s, profiled)
         IN /\ \A i \in 1 .. 36 : HeaderFields[i] \in DOMAIN v => v[HeaderFields[i]] \in Cells
            /\ Pack(HeaderFields, v) \in Seq(Cells) /\ Len(Pack(HeaderFields, v)) = 36
<1> DEFINE v == HeaderValues(r, level, s, profiled)
           fs == HeaderFields
           m == 36
           D == {"query_count", "db_total", "http_call_count", "file_op_count", "redis_call_count",
                 "trace_level", "mark_count", "error_count", "n_plus_one", "sq", "sh", "sm", "se",
                 "sc", "profiled"}
<1>1. /\ r.q.count \in Nat /\ r.q.total \in Nat /\ r.h.count \in Nat
      /\ r.files \in Nat /\ r.redis \in Nat /\ Len(r.marks) \in Nat /\ Len(r.errors) \in Nat
  <2>2. r.q \in Lists /\ r.h \in Lists /\ r.marks \in Seq(Nat) /\ r.errors \in Seq(Nat)
        /\ r.files \in Nat /\ r.redis \in Nat
    BY DEF Tellable, ListOK
  <2>3. r.q.count \in Nat /\ r.q.total \in Nat /\ r.h.count \in Nat
    BY <2>2 DEF Lists
  <2> QED
    BY <2>2, <2>3
<1>2. DOMAIN v = D
  BY DEF HeaderValues
<1>3. /\ v["query_count"] = r.q.count /\ v["db_total"] = r.q.total
      /\ v["http_call_count"] = r.h.count /\ v["file_op_count"] = r.files
      /\ v["redis_call_count"] = r.redis /\ v["trace_level"] = level
      /\ v["mark_count"] = Len(r.marks) /\ v["error_count"] = Len(r.errors)
      /\ v["n_plus_one"] = (IF NPlusOne(r.q) THEN 1 ELSE 0)
      /\ v["sq"] = Len(s.q) /\ v["sh"] = Len(s.h) /\ v["sm"] = Len(s.m) /\ v["se"] = Len(s.e)
      /\ v["sc"] = Len(s.c) /\ v["profiled"] = (IF profiled THEN 1 ELSE 0)
  BY DEF HeaderValues
<1> HIDE DEF v
<1>4. \A f \in D : v[f] \in Cells
  <2>1. v["n_plus_one"] \in Nat /\ v["profiled"] \in Nat
    BY <1>3
  <2> QED
    BY <1>1, <1>3, <2>1 DEF Cells
<1> HIDE DEF D
<1>5. \A i \in 1 .. m : fs[i] \in DOMAIN v => v[fs[i]] \in Cells
  BY <1>2, <1>4
<1>6. DOMAIN fs = 1 .. m /\ m \in Nat
  BY SameFields
<1> HIDE DEF m, fs
<1>7. Pack(fs, v) \in Seq(Cells) /\ Len(Pack(fs, v)) = m
  BY <1>5, <1>6, PackTyped
<1> QED
  BY <1>5, <1>7 DEF m, fs, v

\* The header is read back.
LEMMA HeaderRead ==
  ASSUME NEW r, Tellable(r), NEW level \in Nat, NEW s,
         Len(s.q) \in Nat, Len(s.h) \in Nat, Len(s.m) \in Nat, Len(s.e) \in Nat, Len(s.c) \in Nat,
         NEW profiled, NEW data, Len(data) \in Nat,
         Holds(data, 1, Pack(HeaderFields, HeaderValues(r, level, s, profiled)))
  PROVE  LET x == ReadItem(data, HeaderFields, [pos |-> 1, items |-> <<>>])
             h == x.items[1]
         IN /\ x.pos = 37
            /\ h.trace_level = level /\ h.query_count = r.q.count /\ h.db_total = r.q.total
            /\ h.http_call_count = r.h.count /\ h.file_op_count = r.files
            /\ h.redis_call_count = r.redis /\ h.n_plus_one = (IF NPlusOne(r.q) THEN 1 ELSE 0)
            /\ h.sq = Len(s.q) /\ h.sh = Len(s.h) /\ h.sm = Len(s.m) /\ h.se = Len(s.e)
            /\ h.sc = Len(s.c)
<1> DEFINE v == HeaderValues(r, level, s, profiled)
           fs == HeaderFields
           m == 36
           pos == 1
           x == ReadItem(data, fs, [pos |-> pos, items |-> <<>>])
           h == x.items[1]
           D == {"query_count", "db_total", "http_call_count", "file_op_count", "redis_call_count",
                 "trace_level", "mark_count", "error_count", "n_plus_one", "sq", "sh", "sm", "se",
                 "sc", "profiled"}
<1>1. /\ r.q.count \in Nat /\ r.q.total \in Nat /\ r.h.count \in Nat
      /\ r.files \in Nat /\ r.redis \in Nat /\ Len(r.marks) \in Nat /\ Len(r.errors) \in Nat
  <2>2. r.q \in Lists /\ r.h \in Lists /\ r.marks \in Seq(Nat) /\ r.errors \in Seq(Nat)
        /\ r.files \in Nat /\ r.redis \in Nat
    BY DEF Tellable, ListOK
  <2>3. r.q.count \in Nat /\ r.q.total \in Nat /\ r.h.count \in Nat
    BY <2>2 DEF Lists
  <2> QED
    BY <2>2, <2>3
<1>2. DOMAIN v = D
  BY DEF HeaderValues
<1>3. /\ v["query_count"] = r.q.count /\ v["db_total"] = r.q.total
      /\ v["http_call_count"] = r.h.count /\ v["file_op_count"] = r.files
      /\ v["redis_call_count"] = r.redis /\ v["trace_level"] = level
      /\ v["mark_count"] = Len(r.marks) /\ v["error_count"] = Len(r.errors)
      /\ v["n_plus_one"] = (IF NPlusOne(r.q) THEN 1 ELSE 0)
      /\ v["sq"] = Len(s.q) /\ v["sh"] = Len(s.h) /\ v["sm"] = Len(s.m) /\ v["se"] = Len(s.e)
      /\ v["sc"] = Len(s.c) /\ v["profiled"] = (IF profiled THEN 1 ELSE 0)
  BY DEF HeaderValues
<1> HIDE DEF v
<1> HIDE DEF D
<1>5. \A i \in 1 .. m : fs[i] \in DOMAIN v => v[fs[i]] \in Cells
  BY HeaderTyped DEF v
<1>6. DOMAIN fs = 1 .. m /\ Len(fs) = m /\ m \in Nat /\ pos \in Nat
  BY SameFields
<1>8. "frames" \notin Range(fs)
  BY HeaderNoFrames
<1>9. {"trace_level", "query_count", "db_total", "http_call_count", "file_op_count",
       "redis_call_count", "n_plus_one", "sq", "sh", "sm", "se", "sc"} \subseteq Range(fs)
  <2>1. /\ fs[19] = "trace_level" /\ fs[10] = "query_count" /\ fs[11] = "db_total"
        /\ fs[12] = "http_call_count" /\ fs[14] = "file_op_count"
        /\ fs[16] = "redis_call_count" /\ fs[22] = "n_plus_one" /\ fs[28] = "sq"
        /\ fs[29] = "sh" /\ fs[30] = "sm" /\ fs[31] = "se" /\ fs[32] = "sc"
    BY DEF HeaderFields
  <2> HIDE DEF fs
  <2>2. \A i \in 1 .. 36 : fs[i] \in Range(fs)
    BY <1>6 DEF Range
  <2>3. /\ fs[19] \in Range(fs) /\ fs[10] \in Range(fs) /\ fs[11] \in Range(fs)
        /\ fs[12] \in Range(fs) /\ fs[14] \in Range(fs) /\ fs[16] \in Range(fs)
        /\ fs[22] \in Range(fs) /\ fs[28] \in Range(fs) /\ fs[29] \in Range(fs)
        /\ fs[30] \in Range(fs) /\ fs[31] \in Range(fs) /\ fs[32] \in Range(fs)
    BY <2>2
  <2> DEFINE Z == Range(fs)
  <2> HIDE DEF Z
  <2>4. /\ "trace_level" \in Z /\ "query_count" \in Z /\ "db_total" \in Z
        /\ "http_call_count" \in Z /\ "file_op_count" \in Z /\ "redis_call_count" \in Z
        /\ "n_plus_one" \in Z /\ "sq" \in Z /\ "sh" \in Z /\ "sm" \in Z /\ "se" \in Z
        /\ "sc" \in Z
    BY <2>1, <2>3 DEF Z
  <2>5. {"trace_level", "query_count", "db_total", "http_call_count", "file_op_count",
         "redis_call_count", "n_plus_one", "sq", "sh", "sm", "se", "sc"} \subseteq Z
    BY <2>4
  <2> QED
    BY <2>5 DEF Z
<1>10. {"trace_level", "query_count", "db_total", "http_call_count", "file_op_count",
        "redis_call_count", "n_plus_one", "sq", "sh", "sm", "se", "sc"} \subseteq DOMAIN v
  BY <1>2 DEF D
<1>11. Holds(data, pos, Pack(fs, v))
  BY DEF v
<1>12. x.pos = pos + m /\ \A f \in Range(fs) : f \in DOMAIN v => h[f] = v[f]
  <2> HIDE DEF fs, m, pos
  <2>1. LET y == ReadItem(data, fs, [pos |-> pos, items |-> <<>>])
        IN /\ y.pos = pos + m /\ DOMAIN y.items[1] = Range(fs)
           /\ \A f \in Range(fs) : f \in DOMAIN v => y.items[1][f] = v[f]
    BY <1>5, <1>6, <1>8, <1>11, OneRead
  <2> QED
    BY <2>1
<1> HIDE DEF h, fs
<1>13. \A f \in {"trace_level", "query_count", "db_total", "http_call_count", "file_op_count",
                 "redis_call_count", "n_plus_one", "sq", "sh", "sm", "se", "sc"} : h[f] = v[f]
  BY <1>9, <1>10, <1>12
<1> HIDE DEF x
<1>14. /\ h.trace_level = level /\ h.query_count = r.q.count /\ h.db_total = r.q.total
       /\ h.http_call_count = r.h.count /\ h.file_op_count = r.files
       /\ h.redis_call_count = r.redis /\ h.n_plus_one = (IF NPlusOne(r.q) THEN 1 ELSE 0)
       /\ h.sq = Len(s.q) /\ h.sh = Len(s.h) /\ h.sm = Len(s.m) /\ h.se = Len(s.e)
       /\ h.sc = Len(s.c)
  BY <1>3, <1>13
<1> QED
  BY <1>12, <1>14 DEF h, x, fs

\* What the writers look at is typed.
LEMMA KeptTyped ==
  ASSUME NEW max \in Nat, NEW l, ListOK(l, max)
  PROVE  Kept(l) \in Seq(Entry)
<1> DEFINE s == l.items
           k == Min({l.count, l.alloc})
<1>1. /\ l.count \in Nat /\ l.alloc \in Nat /\ s \in Seq(Entry) /\ Len(s) = l.alloc
  BY ListParts
<1>2. k \in 0 .. Len(s)
  BY <1>1, MinOfTwo
<1> HIDE DEF k, s
<1>3. SubSeq(s, 1, k) \in Seq(Entry)
  BY <1>1, <1>2
<1> QED
  BY <1>3 DEF s, k, Kept

\* The statements and calls that go to the ring are some of the request's.
LEMMA ChosenTyped ==
  ASSUME NEW r, Tellable(r), NEW level
  PROVE  QueriesOf(r, level) \in Seq(Entry) /\ CallsOf(r, level) \in Seq(Entry)
<1>1. Kept(r.q) \in Seq(Entry) /\ Kept(r.h) \in Seq(Entry)
  BY RecorderAssumption, KeptTyped DEF Tellable
<1> DEFINE s == Kept(r.q)
           k == Min({Len(s), RingTop})
<1>2. k \in 0 .. Len(s)
  BY <1>1, TraceRecordAssumption, MinOfTwo
<1> HIDE DEF s, k
<1>3. SubSeq(s, 1, k) \in Seq(Entry)
  BY <1>1, <1>2 DEF s
<1>4. FirstOf(Kept(r.q), RingTop) \in Seq(Entry)
  BY <1>3 DEF FirstOf, s, k
<1>5. <<>> \in Seq(Entry)
  OBVIOUS
<1> QED
  BY <1>1, <1>4, <1>5 DEF QueriesOf, CallsOf

\* What the collector makes of a record.
LEMMA DeserializeIs ==
  ASSUME NEW data
  PROVE  LET head == ReadItem(data, HeaderFields, [pos |-> 1, items |-> <<>>])
             h == head.items[1]
             texts == ReadItem(data, Texts, [pos |-> head.pos, items |-> <<>>])
             qs == ReadItems(data, QueryFields, h.sq, texts.pos)
             hs == ReadItems(data, HttpFields, h.sh, qs.pos)
             ms == ReadItems(data, MarkFields, h.sm, hs.pos)
             es == ReadItems(data, ErrorFields, h.se, ms.pos)
             cs == ReadItems(data, ComponentFields, h.sc, es.pos)
         IN DeserializeTrace(data, 5) = Told(h, qs.items, hs.items, ms.items, es.items, cs.items)
<1>1. HeaderOf[5] = HeaderFields /\ TextsOf[5] = Texts /\ ComponentOf[5] = ComponentFields
  BY SameFields
<1>2. 5 >= 3 /\ 5 >= 4
  OBVIOUS
<1> QED
  BY SMTT(40), <1>1, <1>2 DEF DeserializeTrace, Told

\* One section after the other.
LEMMA SectionsFollow ==
  ASSUME NEW s, NEW data, Len(data) \in Nat, NEW pos \in Nat,
         Writable(QueryFields, s.q), DOMAIN s.q = 1 .. Len(s.q), Len(s.q) \in Nat,
         Writable(HttpFields, s.h), DOMAIN s.h = 1 .. Len(s.h), Len(s.h) \in Nat,
         Writable(MarkFields, s.m), DOMAIN s.m = 1 .. Len(s.m), Len(s.m) \in Nat,
         Writable(ErrorFields, s.e), DOMAIN s.e = 1 .. Len(s.e), Len(s.e) \in Nat,
         Writable(ComponentFields, s.c), DOMAIN s.c = 1 .. Len(s.c), Len(s.c) \in Nat,
         LET c == PackAll(QueryFields, s.q)
             d == PackAll(HttpFields, s.h)
             e == PackAll(MarkFields, s.m)
             f == PackAll(ErrorFields, s.e)
             g == PackAll(ComponentFields, s.c)
         IN /\ Holds(data, pos, c) /\ Holds(data, pos + Len(c), d)
            /\ Holds(data, pos + Len(c) + Len(d), e)
            /\ Holds(data, pos + Len(c) + Len(d) + Len(e), f)
            /\ Holds(data, pos + Len(c) + Len(d) + Len(e) + Len(f), g)
  PROVE  LET qs == ReadItems(data, QueryFields, Len(s.q), pos)
             hs == ReadItems(data, HttpFields, Len(s.h), qs.pos)
             ms == ReadItems(data, MarkFields, Len(s.m), hs.pos)
             es == ReadItems(data, ErrorFields, Len(s.e), ms.pos)
             cs == ReadItems(data, ComponentFields, Len(s.c), es.pos)
         IN SectionsRead(s, qs, hs, ms, es, cs)
<1> DEFINE c == PackAll(QueryFields, s.q)
           d == PackAll(HttpFields, s.h)
           e == PackAll(MarkFields, s.m)
           f == PackAll(ErrorFields, s.e)
           g == PackAll(ComponentFields, s.c)
           qs == ReadItems(data, QueryFields, Len(s.q), pos)
           hs == ReadItems(data, HttpFields, Len(s.h), qs.pos)
           ms == ReadItems(data, MarkFields, Len(s.m), hs.pos)
           es == ReadItems(data, ErrorFields, Len(s.e), ms.pos)
           cs == ReadItems(data, ComponentFields, Len(s.c), es.pos)
           p2 == pos + Len(c)
           p3 == p2 + Len(d)
           p4 == p3 + Len(e)
           p5 == p4 + Len(f)
<1>1. /\ Holds(data, pos, c) /\ Holds(data, p2, d) /\ Holds(data, p3, e) /\ Holds(data, p4, f)
      /\ Holds(data, p5, g)
  OBVIOUS
<1>2. /\ c \in Seq(Cells) /\ d \in Seq(Cells) /\ e \in Seq(Cells) /\ f \in Seq(Cells)
      /\ g \in Seq(Cells)
  BY PackAllTyped
<1>3. p2 \in Nat /\ p3 \in Nat /\ p4 \in Nat /\ p5 \in Nat
  <2> HIDE DEF c, d, e, f, g
  <2>1. \A x \in Seq(Cells) : Len(x) \in Nat
    OBVIOUS
  <2>2. Len(c) \in Nat /\ Len(d) \in Nat /\ Len(e) \in Nat /\ Len(f) \in Nat
    BY <1>2, <2>1
  <2>3. p2 \in Nat
    BY <2>2
  <2> HIDE DEF p2
  <2>4. p3 \in Nat
    BY <2>2, <2>3
  <2> HIDE DEF p3
  <2>5. p4 \in Nat
    BY <2>2, <2>4
  <2> HIDE DEF p4
  <2> QED
    BY <2>2, <2>3, <2>4, <2>5
<1> HIDE DEF p5
<1>5. ReadBack(qs, QueryFields, s.q, Len(s.q), p2)
  BY <1>1, PackAllRead
<1>6. qs.pos = p2
  BY <1>5 DEF ReadBack
<1> HIDE DEF qs
<1>7. ReadBack(hs, HttpFields, s.h, Len(s.h), p3)
  <2>1. ReadBack(ReadItems(data, HttpFields, Len(s.h), p2), HttpFields, s.h, Len(s.h), p2 + Len(d))
    <3> HIDE DEF p2
    <3> QED
      BY <1>1, <1>3, PackAllRead
  <2> QED
    BY <1>6, <2>1
<1>8. hs.pos = p3
  BY <1>7 DEF ReadBack
<1> HIDE DEF hs
<1>9. ReadBack(ms, MarkFields, s.m, Len(s.m), p4)
  <2>1. ReadBack(ReadItems(data, MarkFields, Len(s.m), p3), MarkFields, s.m, Len(s.m), p3 + Len(e))
    <3> HIDE DEF p3
    <3> QED
      BY <1>1, <1>3, PackAllRead
  <2> QED
    BY <1>8, <2>1
<1>10. ms.pos = p4
  BY <1>9 DEF ReadBack
<1> HIDE DEF ms
<1>11. ReadBack(es, ErrorFields, s.e, Len(s.e), p5)
  <2>1. ReadBack(ReadItems(data, ErrorFields, Len(s.e), p4), ErrorFields, s.e, Len(s.e), p4 + Len(f))
    <3> HIDE DEF p4
    <3> QED
      BY <1>1, <1>3, PackAllRead
  <2> QED
    BY <1>10, <2>1 DEF p5
<1>12. es.pos = p5
  BY <1>11 DEF ReadBack
<1> HIDE DEF es
<1>13. ReadBack(cs, ComponentFields, s.c, Len(s.c), p5 + Len(g))
  <2>1. ReadBack(ReadItems(data, ComponentFields, Len(s.c), p5), ComponentFields, s.c, Len(s.c),
                 p5 + Len(g))
    BY <1>1, <1>3, PackAllRead
  <2> QED
    BY <1>12, <2>1
<1>14. cs.pos = p5 + Len(g)
  BY <1>13 DEF ReadBack
<1> HIDE DEF cs
<1>15. SectionsRead(s, qs, hs, ms, es, cs)
  BY <1>5, <1>6, <1>7, <1>8, <1>9, <1>10, <1>11, <1>12, <1>13, <1>14 DEF SectionsRead
<1> QED
  BY <1>15 DEF qs, hs, ms, es, cs

\* An item that was read has what was written in it.
LEMMA ItemHas ==
  ASSUME NEW x, NEW fields, NEW items, NEW n, NEW next, ReadBack(x, fields, items, n, next),
         NEW f, NEW k, k \in DOMAIN fields, fields[k] = f
  PROVE  /\ DOMAIN x.items = 1 .. n
         /\ \A i \in 1 .. n : f \in DOMAIN items[i] => x.items[i][f] = items[i][f]
<1>1. f \in Range(fields)
  BY DEF Range
<1> QED
  BY <1>1 DEF ReadBack

\* The statements and the calls.
LEMMA DetailsRead ==
  ASSUME NEW items \in Seq(Entry), NEW x, NEW fields, NEW next,
         ReadBack(x, fields, Detailed(items), Len(items), next),
         NEW a, a \in DOMAIN fields, fields[a] = "text",
         NEW b, b \in DOMAIN fields, fields[b] = "duration"
  PROVE  /\ DOMAIN x.items = 1 .. Len(items)
         /\ \A i \in 1 .. Len(items) :
              x.items[i].text = items[i].what /\ x.items[i].duration = items[i].dur
<1> DEFINE d == Detailed(items)
           n == Len(items)
<1>1. DOMAIN items = 1 .. n
  OBVIOUS
<1>2. \A i \in 1 .. n : /\ "text" \in DOMAIN d[i] /\ d[i]["text"] = items[i].what
                        /\ "duration" \in DOMAIN d[i] /\ d[i]["duration"] = items[i].dur
  BY <1>1 DEF Detailed
<1> HIDE DEF d, n
<1>3. ReadBack(x, fields, d, n, next)
  BY DEF d, n
<1>4. /\ DOMAIN x.items = 1 .. n
      /\ \A i \in 1 .. n : "text" \in DOMAIN d[i] => x.items[i]["text"] = d[i]["text"]
  BY <1>3, ItemHas
<1>5. \A i \in 1 .. n : "duration" \in DOMAIN d[i] => x.items[i]["duration"] = d[i]["duration"]
  BY <1>3, ItemHas
<1> QED
  BY <1>2, <1>4, <1>5 DEF n

\* The marks and the errors.
LEMMA WordsRead ==
  ASSUME NEW words \in Seq(Nat), NEW x, NEW fields, NEW next,
         ReadBack(x, fields, Worded(words), Len(words), next),
         NEW a, a \in DOMAIN fields, fields[a] = "text"
  PROVE  [i \in DOMAIN x.items |-> x.items[i].text] = words
<1> DEFINE d == Worded(words)
           n == Len(words)
<1>1. DOMAIN words = 1 .. n /\ words = [i \in 1 .. n |-> words[i]]
  OBVIOUS
<1>2. \A i \in 1 .. n : "text" \in DOMAIN d[i] /\ d[i]["text"] = words[i]
  BY <1>1 DEF Worded
<1> HIDE DEF d, n
<1>3. ReadBack(x, fields, d, n, next)
  BY DEF d, n
<1>4. /\ DOMAIN x.items = 1 .. n
      /\ \A i \in 1 .. n : "text" \in DOMAIN d[i] => x.items[i]["text"] = d[i]["text"]
  BY <1>3, ItemHas
<1>5. \A i \in 1 .. n : x.items[i]["text"] = words[i]
  BY <1>2, <1>4
<1>6. [i \in DOMAIN x.items |-> x.items[i]["text"]] = [i \in 1 .. n |-> words[i]]
  BY <1>4, <1>5
<1> QED
  BY <1>1, <1>6

\* The components.
LEMMA SharesRead ==
  ASSUME NEW comps \in Seq(Comps), NEW x, NEW next,
         ReadBack(x, ComponentFields, Shared(comps), Len(comps), next),
         NEW p, p = [i \in DOMAIN x.items |->
                       [name |-> x.items[i].text, incl |-> x.items[i].incl,
                        self |-> x.items[i].self]]
  PROVE  Shares(p) = Shares(comps)
<1> DEFINE d == Shared(comps)
           n == Len(comps)
<1>1. DOMAIN comps = 1 .. n
  OBVIOUS
<1>2. \A i \in 1 .. n : /\ "text" \in DOMAIN d[i] /\ d[i]["text"] = comps[i].name
                        /\ "incl" \in DOMAIN d[i] /\ d[i]["incl"] = comps[i].incl
                        /\ "self" \in DOMAIN d[i] /\ d[i]["self"] = comps[i].self
  BY <1>1 DEF Shared
<1> HIDE DEF d, n
<1>3. ReadBack(x, ComponentFields, d, n, next)
  BY DEF d, n
<1>4. /\ ComponentFields[5] = "text" /\ ComponentFields[2] = "incl" /\ ComponentFields[3] = "self"
      /\ 5 \in DOMAIN ComponentFields /\ 2 \in DOMAIN ComponentFields /\ 3 \in DOMAIN ComponentFields
  BY DEF ComponentFields
<1>5. /\ DOMAIN x.items = 1 .. n
      /\ \A i \in 1 .. n : "text" \in DOMAIN d[i] => x.items[i]["text"] = d[i]["text"]
  BY <1>3, <1>4, ItemHas
<1>6. \A i \in 1 .. n : "incl" \in DOMAIN d[i] => x.items[i]["incl"] = d[i]["incl"]
  BY <1>3, <1>4, ItemHas
<1>7. \A i \in 1 .. n : "self" \in DOMAIN d[i] => x.items[i]["self"] = d[i]["self"]
  BY <1>3, <1>4, ItemHas
<1>8. DOMAIN p = 1 .. n
  BY <1>5
<1>9. \A i \in 1 .. n : /\ p[i].name = comps[i].name /\ p[i].incl = comps[i].incl
                        /\ p[i].self = comps[i].self
  BY <1>2, <1>5, <1>6, <1>7
<1>10. [i \in 1 .. n |-> <<p[i].name, p[i].incl, p[i].self>>]
         = [i \in 1 .. n |-> <<comps[i].name, comps[i].incl, comps[i].self>>]
  <2>1. \A i \in 1 .. n : <<p[i].name, p[i].incl, p[i].self>>
                            = <<comps[i].name, comps[i].incl, comps[i].self>>
    BY <1>9
  <2> DEFINE f(i) == <<p[i].name, p[i].incl, p[i].self>>
             g(i) == <<comps[i].name, comps[i].incl, comps[i].self>>
  <2>2. \A i \in 1 .. n : f(i) = g(i)
    BY <2>1
  <2> HIDE DEF f, g
  <2>3. [i \in 1 .. n |-> f(i)] = [i \in 1 .. n |-> g(i)]
    BY <2>2
  <2> QED
    BY <2>3 DEF f, g
<1> QED
  BY <1>1, <1>8, <1>10 DEF Shares

\* What was read is told.
LEMMA ToldBack ==
  ASSUME NEW r, Tellable(r), NEW level \in Nat, NEW comps \in Seq(Comps), NEW h,
         h.trace_level = level, h.query_count = r.q.count, h.db_total = r.q.total,
         h.http_call_count = r.h.count, h.file_op_count = r.files,
         h.redis_call_count = r.redis, h.n_plus_one = (IF NPlusOne(r.q) THEN 1 ELSE 0),
         NEW q, NEW c, NEW m, NEW e, NEW p,
         ReadBack(q, QueryFields, Detailed(QueriesOf(r, level)), Len(QueriesOf(r, level)), q.pos),
         ReadBack(c, HttpFields, Detailed(CallsOf(r, level)), Len(CallsOf(r, level)), c.pos),
         ReadBack(m, MarkFields, Worded(r.marks), Len(r.marks), m.pos),
         ReadBack(e, ErrorFields, Worded(r.errors), Len(r.errors), e.pos),
         ReadBack(p, ComponentFields, Shared(comps), Len(comps), p.pos)
  PROVE  TellsBack(Told(h, q.items, c.items, m.items, e.items, p.items), r, level, comps)
<1> DEFINE t == Told(h, q.items, c.items, m.items, e.items, p.items)
           qs == QueriesOf(r, level)
           cs == CallsOf(r, level)
           ps == [i \in DOMAIN p.items |->
                    [name |-> p.items[i].text, incl |-> p.items[i].incl, self |-> p.items[i].self]]
           nq == Len(qs)
           nc == Len(cs)
<1>1. qs \in Seq(Entry) /\ cs \in Seq(Entry)
  BY ChosenTyped
<1>2. r.marks \in Seq(Nat) /\ r.errors \in Seq(Nat)
  BY DEF Tellable
<1>3. /\ t.level = level /\ t.n1 = (h.n_plus_one = 1) /\ t.count = r.q.count /\ t.total = r.q.total
      /\ t.http = r.h.count /\ t.files = r.files /\ t.redis = r.redis
      /\ t.queries = [i \in DOMAIN q.items |->
           [what |-> q.items[i].text, dur |-> q.items[i].duration, bt |-> q.items[i].frames]]
      /\ t.calls = [i \in DOMAIN c.items |->
           [what |-> c.items[i].text, dur |-> c.items[i].duration, bt |-> c.items[i].frames]]
      /\ t.marks = [i \in DOMAIN m.items |-> m.items[i].text]
      /\ t.errors = [i \in DOMAIN e.items |-> e.items[i].text]
      /\ t.comps = ps
  BY DEF Told
<1> HIDE DEF t, ps
<1>4. /\ QueryFields[7] = "text" /\ QueryFields[2] = "duration" /\ HttpFields[6] = "text"
      /\ HttpFields[2] = "duration" /\ MarkFields[3] = "text" /\ ErrorFields[4] = "text"
      /\ 7 \in DOMAIN QueryFields /\ 2 \in DOMAIN QueryFields /\ 6 \in DOMAIN HttpFields
      /\ 2 \in DOMAIN HttpFields /\ 3 \in DOMAIN MarkFields /\ 4 \in DOMAIN ErrorFields
  BY DEF QueryFields, HttpFields, MarkFields, ErrorFields
<1> HIDE DEF qs, cs
<1>5. /\ DOMAIN q.items = 1 .. nq
      /\ \A i \in 1 .. nq : q.items[i].text = qs[i].what /\ q.items[i].duration = qs[i].dur
  BY <1>1, <1>4, DetailsRead DEF qs
<1>6. /\ DOMAIN c.items = 1 .. nc
      /\ \A i \in 1 .. nc : c.items[i].text = cs[i].what /\ c.items[i].duration = cs[i].dur
  BY <1>1, <1>4, DetailsRead DEF cs
<1>7. t.marks = r.marks
  <2> DEFINE words == r.marks
  <2>1. words \in Seq(Nat) /\ ReadBack(m, MarkFields, Worded(words), Len(words), m.pos)
    BY <1>2
  <2> HIDE DEF words
  <2>2. [i \in DOMAIN m.items |-> m.items[i].text] = words
    BY <2>1, <1>4, WordsRead
  <2> QED
    BY <1>3, <2>2 DEF words
<1>8. t.errors = r.errors
  <2> DEFINE words == r.errors
  <2>1. words \in Seq(Nat) /\ ReadBack(e, ErrorFields, Worded(words), Len(words), e.pos)
    BY <1>2
  <2> HIDE DEF words
  <2>2. [i \in DOMAIN e.items |-> e.items[i].text] = words
    BY <2>1, <1>4, WordsRead
  <2> QED
    BY <1>3, <2>2 DEF words
<1>9. Shares(t.comps) = Shares(comps)
  BY <1>3, SharesRead DEF ps
<1>10. nq \in Nat /\ nc \in Nat /\ DOMAIN qs = 1 .. nq
  BY <1>1
<1> HIDE DEF nq, nc
<1>11. /\ DOMAIN t.queries = 1 .. nq
       /\ \A i \in 1 .. nq : t.queries[i].what = qs[i].what /\ t.queries[i].dur = qs[i].dur
  BY <1>3, <1>5
<1>12. Plain(t.queries) = Plain(qs)
  <2>1. [i \in 1 .. nq |-> [what |-> t.queries[i].what, dur |-> t.queries[i].dur]]
          = [i \in 1 .. nq |-> [what |-> qs[i].what, dur |-> qs[i].dur]]
    BY <1>11
  <2> QED
    BY <1>10, <1>11, <2>1 DEF Plain
<1>13. /\ DOMAIN t.calls = 1 .. nc
       /\ \A i \in 1 .. nc : t.calls[i].what = cs[i].what
  BY <1>3, <1>6
<1>14. Len(t.calls) = nc
  <2>1. t.calls = [i \in 1 .. nc |-> t.calls[i]]
    <3>1. t.calls = [i \in DOMAIN t.calls |-> t.calls[i]]
      BY <1>3
    <3> QED
      BY <1>13, <3>1
  <2> QED
    BY <1>10, <1>13, <2>1, ItemsCount
<1>15. level < Normal => t.queries = <<>> /\ t.calls = <<>>
  <2> SUFFICES ASSUME level < Normal PROVE t.queries = <<>> /\ t.calls = <<>>
    OBVIOUS
  <2>1. ~(level >= Normal) /\ ~(level >= Full)
    BY DEF Normal, Full
  <2>2. qs = <<>> /\ cs = <<>>
    BY <2>1 DEF qs, cs, QueriesOf, CallsOf
  <2>3. nq = 0 /\ nc = 0 /\ 1 .. 0 = {}
    BY <2>2 DEF nq, nc
  <2>4. DOMAIN t.queries = {} /\ DOMAIN t.calls = {}
    BY <1>11, <1>13, <2>3
  <2>5. DOMAIN q.items = {} /\ DOMAIN c.items = {}
    BY <1>5, <1>6, <2>3
  <2> QED
    BY <1>3, <2>5
<1>16. t.n1 \in BOOLEAN /\ (t.n1 <=> NPlusOne(r.q))
  <2>1. CASE NPlusOne(r.q)
    <3>1. h.n_plus_one = 1
      BY <2>1
    <3> QED
      BY <1>3, <2>1, <3>1
  <2>2. CASE ~NPlusOne(r.q)
    <3>1. h.n_plus_one = 0 /\ ~(h.n_plus_one = 1)
      BY <2>2
    <3> QED
      BY <1>3, <2>2, <3>1
  <2> QED
    BY <2>1, <2>2
<1> QED
  BY <1>3, <1>7, <1>8, <1>9, <1>12, <1>13, <1>14, <1>15, <1>16 DEF TellsBack, qs, cs, nc, t

\* The record that ringbuffer.c writes is read back by the collector field by field: the counts,
\* the level and the pattern, the marks and errors, the statements and calls of the level in
\* their order, and the components, whatever number of each there is and however many frames
\* stand between two of them (phpray_serialize_request, DeserializeTrace).
THEOREM RecordRead ==
  ASSUME NEW r, Tellable(r), NEW level \in Nat, NEW comps \in Seq(Comps), NEW profiled
  PROVE  TellsBack(DeserializeTrace(SerializeRequest(r, level, comps, profiled), 5), r, level, comps)
<1> DEFINE data == SerializeRequest(r, level, comps, profiled)
           s == Sections(r, level, comps)
           v == HeaderValues(r, level, s, profiled)
           a == Pack(HeaderFields, v)
           b == Pack(Texts, <<>>)
           c == PackAll(QueryFields, s.q)
           d == PackAll(HttpFields, s.h)
           e == PackAll(MarkFields, s.m)
           f == PackAll(ErrorFields, s.e)
           g == PackAll(ComponentFields, s.c)
           qs == QueriesOf(r, level)
           cs == CallsOf(r, level)
<1>1. Joined(data, a, b, c, d, e, f, g)
  <2>1. data = a \o b \o c \o d \o e \o f \o g
    BY DEF SerializeRequest, HeaderValues
  <2> HIDE DEF data, a, b, c, d, e, f, g
  <2> QED
    BY <2>1 DEF Joined
<1>2. s.q = Detailed(qs) /\ s.h = Detailed(cs) /\ s.m = Worded(r.marks) /\ s.e = Worded(r.errors)
      /\ s.c = Shared(comps)
  BY SectionsAre
<1>3. qs \in Seq(Entry) /\ cs \in Seq(Entry) /\ r.marks \in Seq(Nat) /\ r.errors \in Seq(Nat)
  BY ChosenTyped DEF Tellable
<1> HIDE DEF data, s, qs, cs
<1>4. /\ Writable(QueryFields, s.q) /\ DOMAIN s.q = 1 .. Len(s.q) /\ Len(s.q) = Len(qs)
  BY <1>2, <1>3, DetailedWritable
<1>5. /\ Writable(HttpFields, s.h) /\ DOMAIN s.h = 1 .. Len(s.h) /\ Len(s.h) = Len(cs)
  BY <1>2, <1>3, DetailedWritable
<1>6. /\ Writable(MarkFields, s.m) /\ DOMAIN s.m = 1 .. Len(s.m) /\ Len(s.m) = Len(r.marks)
  <2> DEFINE words == r.marks
  <2>1. words \in Seq(Nat) /\ s.m = Worded(words)
    BY <1>2, <1>3
  <2> HIDE DEF words
  <2>2. /\ Writable(MarkFields, s.m) /\ DOMAIN s.m = 1 .. Len(s.m) /\ Len(s.m) = Len(words)
    BY <2>1, WordedWritable
  <2> QED
    BY <2>2 DEF words
<1>7. /\ Writable(ErrorFields, s.e) /\ DOMAIN s.e = 1 .. Len(s.e) /\ Len(s.e) = Len(r.errors)
  <2> DEFINE words == r.errors
  <2>1. words \in Seq(Nat) /\ s.e = Worded(words)
    BY <1>2, <1>3
  <2> HIDE DEF words
  <2>2. /\ Writable(ErrorFields, s.e) /\ DOMAIN s.e = 1 .. Len(s.e) /\ Len(s.e) = Len(words)
    BY <2>1, WordedWritable
  <2> QED
    BY <2>2 DEF words
<1>8. /\ Writable(ComponentFields, s.c) /\ DOMAIN s.c = 1 .. Len(s.c) /\ Len(s.c) = Len(comps)
  BY <1>2, SharedWritable
<1>9. /\ Len(qs) \in Nat /\ Len(cs) \in Nat /\ Len(r.marks) \in Nat /\ Len(r.errors) \in Nat
      /\ Len(comps) \in Nat
  BY <1>3
<1>10. /\ Len(s.q) \in Nat /\ Len(s.h) \in Nat /\ Len(s.m) \in Nat /\ Len(s.e) \in Nat
       /\ Len(s.c) \in Nat
  BY <1>4, <1>5, <1>6, <1>7, <1>8, <1>9
<1>11. a \in Seq(Cells) /\ Len(a) = 36
  BY <1>10, HeaderTyped
<1>12. b \in Seq(Cells) /\ Len(b) = 6
  <2> DEFINE x == <<>>
             m == 6
             fs == Texts
  <2>1. m \in Nat /\ DOMAIN fs = 1 .. m /\ DOMAIN x = {}
    BY SameFields
  <2>2. \A i \in 1 .. m : fs[i] \in DOMAIN x => x[fs[i]] \in Cells
    BY <2>1
  <2>3. b = Pack(fs, x)
    OBVIOUS
  <2> HIDE DEF x, m, fs, b
  <2>4. Pack(fs, x) \in Seq(Cells) /\ Len(Pack(fs, x)) = m
    BY <2>1, <2>2, PackTyped
  <2> QED
    BY <2>3, <2>4 DEF m
<1>13. /\ c \in Seq(Cells) /\ d \in Seq(Cells) /\ e \in Seq(Cells) /\ f \in Seq(Cells)
       /\ g \in Seq(Cells)
  BY <1>4, <1>5, <1>6, <1>7, <1>8, <1>10, PackAllTyped
<1> DEFINE S == Cells
           p == 43
<1>14. /\ data \in Seq(Cells) /\ Len(data) \in Nat /\ Holds(data, 1, a) /\ Holds(data, 37, b)
       /\ Holds(data, p, c) /\ Holds(data, p + Len(c), d) /\ Holds(data, p + Len(c) + Len(d), e)
       /\ Holds(data, p + Len(c) + Len(d) + Len(e), f)
       /\ Holds(data, p + Len(c) + Len(d) + Len(e) + Len(f), g)
  <2>1. /\ a \in Seq(S) /\ b \in Seq(S) /\ c \in Seq(S) /\ d \in Seq(S) /\ e \in Seq(S)
        /\ f \in Seq(S) /\ g \in Seq(S)
    BY <1>11, <1>12, <1>13
  <2> HIDE DEF S, a, b, c, d, e, f, g
  <2>2. data \in Seq(S) /\ PartsAt(data, a, b, c, d, e, f, g)
    BY <1>1, <2>1, SevenParts
  <2>3. 1 + Len(a) = 37 /\ 1 + Len(a) + Len(b) = p
    BY <1>11, <1>12
  <2>4. data \in Seq(S) /\ Len(data) \in Nat
    BY <2>2
  <2> DEFINE n1 == 1 + Len(a)
             n2 == n1 + Len(b)
  <2>5. n1 = 37 /\ n2 = p
    BY <2>3
  <2>6. /\ Holds(data, 1, a) /\ Holds(data, n1, b) /\ Holds(data, n2, c)
        /\ Holds(data, n2 + Len(c), d) /\ Holds(data, n2 + Len(c) + Len(d), e)
        /\ Holds(data, n2 + Len(c) + Len(d) + Len(e), f)
        /\ Holds(data, n2 + Len(c) + Len(d) + Len(e) + Len(f), g)
    BY <2>2 DEF PartsAt
  <2> HIDE DEF n1, n2, p
  <2>7. /\ Holds(data, 1, a) /\ Holds(data, 37, b) /\ Holds(data, p, c)
        /\ Holds(data, p + Len(c), d) /\ Holds(data, p + Len(c) + Len(d), e)
        /\ Holds(data, p + Len(c) + Len(d) + Len(e), f)
        /\ Holds(data, p + Len(c) + Len(d) + Len(e) + Len(f), g)
    BY <2>5, <2>6
  <2> QED
    BY <2>4, <2>7 DEF S
<1> HIDE DEF S
<1> DEFINE head == ReadItem(data, HeaderFields, [pos |-> 1, items |-> <<>>])
           h == head.items[1]
           texts == ReadItem(data, Texts, [pos |-> head.pos, items |-> <<>>])
           xq == ReadItems(data, QueryFields, h.sq, texts.pos)
           xh == ReadItems(data, HttpFields, h.sh, xq.pos)
           xm == ReadItems(data, MarkFields, h.sm, xh.pos)
           xe == ReadItems(data, ErrorFields, h.se, xm.pos)
           xc == ReadItems(data, ComponentFields, h.sc, xe.pos)
<1>15. DeserializeTrace(data, 5) = Told(h, xq.items, xh.items, xm.items, xe.items, xc.items)
  BY DeserializeIs
<1>16. /\ head.pos = 37
       /\ h.trace_level = level /\ h.query_count = r.q.count /\ h.db_total = r.q.total
       /\ h.http_call_count = r.h.count /\ h.file_op_count = r.files
       /\ h.redis_call_count = r.redis /\ h.n_plus_one = (IF NPlusOne(r.q) THEN 1 ELSE 0)
       /\ h.sq = Len(s.q) /\ h.sh = Len(s.h) /\ h.sm = Len(s.m) /\ h.se = Len(s.e)
       /\ h.sc = Len(s.c)
  BY SMTT(40), <1>10, <1>14, HeaderRead
<1> HIDE DEF head, h
<1>17. texts.pos = p
  <2> DEFINE x == <<>>
             m == 6
             fs == Texts
             k == 37
  <2>1. m \in Nat /\ DOMAIN fs = 1 .. m /\ Len(fs) = m /\ DOMAIN x = {} /\ k \in Nat
    BY SameFields
  <2>2. \A i \in 1 .. m : fs[i] \in DOMAIN x => x[fs[i]] \in Cells
    BY <2>1
  <2>3. "frames" \notin Range(fs)
    <3>1. \A i \in 1 .. 6 : Texts[i] # "frames"
      BY DEF Texts
    <3> QED
      BY <2>1, <3>1 DEF Range
  <2>4. Holds(data, k, Pack(fs, x)) /\ Len(data) \in Nat
    BY <1>14
  <2>5. texts = ReadItem(data, fs, [pos |-> k, items |-> <<>>])
    BY <1>16
  <2> HIDE DEF x, m, fs, texts, k
  <2>6. LET y == ReadItem(data, fs, [pos |-> k, items |-> <<>>])
        IN /\ y.pos = k + m /\ DOMAIN y.items[1] = Range(fs)
           /\ \A z \in Range(fs) : z \in DOMAIN x => y.items[1][z] = x[z]
    BY <2>1, <2>2, <2>3, <2>4, OneRead
  <2>7. texts.pos = k + m
    BY <2>5, <2>6
  <2> QED
    BY <2>7 DEF k, m
<1> HIDE DEF texts
<1>18. SectionsRead(s, xq, xh, xm, xe, xc)
  <2>1. p \in Nat
    OBVIOUS
  <2> HIDE DEF p
  <2>2. LET yq == ReadItems(data, QueryFields, Len(s.q), p)
            yh == ReadItems(data, HttpFields, Len(s.h), yq.pos)
            ym == ReadItems(data, MarkFields, Len(s.m), yh.pos)
            ye == ReadItems(data, ErrorFields, Len(s.e), ym.pos)
            yc == ReadItems(data, ComponentFields, Len(s.c), ye.pos)
        IN SectionsRead(s, yq, yh, ym, ye, yc)
    BY <1>4, <1>5, <1>6, <1>7, <1>8, <1>10, <1>14, <2>1, SectionsFollow
  <2> QED
    BY <1>16, <1>17, <2>2
<1> HIDE DEF xq, xh, xm, xe, xc
<1>19. /\ ReadBack(xq, QueryFields, Detailed(qs), Len(qs), xq.pos)
       /\ ReadBack(xh, HttpFields, Detailed(cs), Len(cs), xh.pos)
       /\ ReadBack(xm, MarkFields, Worded(r.marks), Len(r.marks), xm.pos)
       /\ ReadBack(xe, ErrorFields, Worded(r.errors), Len(r.errors), xe.pos)
       /\ ReadBack(xc, ComponentFields, Shared(comps), Len(comps), xc.pos)
  BY <1>2, <1>4, <1>5, <1>6, <1>7, <1>8, <1>18 DEF SectionsRead
<1>20. TellsBack(Told(h, xq.items, xh.items, xm.items, xe.items, xc.items), r, level, comps)
  BY <1>16, <1>19, ToldBack DEF qs, cs
<1> QED
  BY <1>15, <1>20 DEF data

-----------------------------------------------------------------------------
(* The end of a request.                                                   *)

\* The counters of a trace.
LEMMA CountsTold ==
  ASSUME NEW r, NEW x, Remembers(r, x), NEW t, NEW level \in Nat, NEW ring,
         x.mode = "smart" /\ x.did.errors # <<>> => level >= Normal,
         t.level = level, t.count = r.q.count, t.http = r.h.count,
         t.total = (IF ring \/ r.q.count > 0 THEN r.q.total ELSE 0),
         t.files = r.files, t.redis = r.redis, t.marks = r.marks, t.errors = r.errors,
         Shares(t.comps) = Shares(x.comps),
         level < Normal => t.queries = <<>> /\ t.calls = <<>>
  PROVE  CountsTrue(t, x, ring)
<1> DEFINE d == x.did
<1>1. PICK s \in Seq(Timed) : ListTells(r.h, s, HttpMax) /\ Cardinality(d.http) = Len(s)
  BY DEF Remembers, HttpAll
<1>2. t.http = Cardinality(d.http) % Width
  BY <1>1 DEF ListTells
<1>3. ListTells(r.q, d.q, QueriesMax) /\ CallsTell(r, d)
  BY DEF Remembers, CallsTell
<1>4. /\ t.count = Len(d.q) % Width
      /\ t.total = IF ring \/ t.count > 0 THEN Total(d.q) ELSE 0
  BY <1>3 DEF ListTells
<1>5. /\ t.files = d.files % Width /\ t.redis = d.redis % Width
      /\ t.marks = FirstOf(d.marks, MarksMax) /\ t.errors = FirstOf(d.errors, ErrorsMax)
  BY <1>3 DEF CallsTell
<1> QED
  BY <1>2, <1>4, <1>5 DEF CountsTrue

\* The first entries of a list, without their backtraces.
LEMMA PlainFirst ==
  ASSUME NEW items \in Seq(Entry), NEW n \in Nat
  PROVE  Plain(FirstOf(items, n)) = FirstOf(Plain(items), n)
<1> DEFINE l == Len(items)
           k == Min({l, n})
           y(i) == [what |-> items[i].what, dur |-> items[i].dur]
           p == Plain(items)
           a == SubSeq(items, 1, k)
           b == SubSeq(p, 1, k)
           S == {y(i) : i \in 1 .. l}
<1>1. l \in Nat /\ DOMAIN items = 1 .. l
  OBVIOUS
<1>2. k \in 0 .. l
  BY <1>1, MinOfTwo
<1>3. p = [i \in 1 .. l |-> y(i)]
  BY <1>1 DEF Plain
<1>4. \A i \in 1 .. l : y(i) \in S
  OBVIOUS
<1> HIDE DEF S, k, l
<1>5. p \in [1 .. l -> S]
  BY <1>3, <1>4
<1>6. \A i \in 1 .. l : p[i] = [what |-> items[i].what, dur |-> items[i].dur]
  BY <1>3
<1> HIDE DEF y, p
<1>7. p \in Seq(S) /\ Len(p) = l /\ items \in Seq(Entry) /\ Len(items) = l
  BY <1>1, <1>5 DEF l
<1>8. /\ DOMAIN a = 1 .. k /\ \A i \in 1 .. k : a[i] = items[i]
      /\ b \in Seq(S) /\ Len(b) = k /\ \A i \in 1 .. k : b[i] = p[i]
  BY <1>1, <1>2, <1>7
<1> HIDE DEF a, b
<1>9. Plain(a) = [i \in 1 .. k |-> [what |-> a[i].what, dur |-> a[i].dur]]
  BY <1>8 DEF Plain
<1>10. \A i \in 1 .. k : [what |-> a[i].what, dur |-> a[i].dur] = b[i]
  <2> TAKE i \in 1 .. k
  <2>1. i \in 1 .. l
    BY <1>1, <1>2
  <2>2. a[i] = items[i] /\ b[i] = p[i]
    BY <1>8
  <2>3. p[i] = [what |-> items[i].what, dur |-> items[i].dur]
    BY <1>6, <2>1
  <2> QED
    BY <2>2, <2>3
<1>11. Plain(a) = [i \in 1 .. k |-> b[i]]
  BY <1>9, <1>10
<1>12. b = [i \in 1 .. k |-> b[i]]
  BY <1>8
<1>13. Plain(a) = b
  BY <1>11, <1>12
<1>14. FirstOf(items, n) = a /\ FirstOf(p, n) = b
  BY <1>7 DEF FirstOf, a, b, k
<1> QED
  BY <1>13, <1>14 DEF p

\* The statements of a record of the ring.
LEMMA RingQueries ==
  ASSUME NEW r, NEW x, Remembers(r, x), NEW t, NEW level \in Nat, NEW comps,
         TellsBack(t, r, level, comps), Len(x.did.q) < Width
  PROVE  QueriesTrue(t, x.did, TRUE)
<1> DEFINE d == x.did
           kept == FirstOf(d.q, QueriesMax)
<1>1. /\ ListOK(r.q, QueriesMax) /\ d.q \in Seq(Timed) /\ ListTells(r.q, d.q, QueriesMax)
      /\ QueriesMax \in Nat /\ RingTop \in Nat
  BY RecorderAssumption, TraceRecordAssumption DEF Remembers, Tellable, CallsTell
<1>2. Kept(r.q) \in Seq(Entry) /\ Plain(Kept(r.q)) = kept
  <2> DEFINE l == r.q
             s == d.q
  <2>1. ListOK(l, QueriesMax) /\ s \in Seq(Timed) /\ ListTells(l, s, QueriesMax) /\ Len(s) < Width
    BY <1>1
  <2> HIDE DEF l, s
  <2>2. Kept(l) \in Seq(Entry) /\ Plain(Kept(l)) = FirstOf(s, QueriesMax)
    BY <1>1, <2>1, KeptTells
  <2> QED
    BY <2>2 DEF l, s
<1>3. NPlusOne(r.q) <=> RepeatedIn(kept)
  BY <1>1, PatternTold
<1>4. /\ t.n1 \in BOOLEAN /\ (t.n1 <=> NPlusOne(r.q)) /\ t.level = level
      /\ Plain(t.queries) = Plain(QueriesOf(r, level))
  BY DEF TellsBack
<1> HIDE DEF d, kept
<1>5. t.n1 = RepeatedIn(kept)
  <2>1. RepeatedIn(kept) \in BOOLEAN
    BY DEF RepeatedIn
  <2>2. t.n1 <=> RepeatedIn(kept)
    BY <1>3, <1>4
  <2> QED
    BY <1>4, <2>1, <2>2
<1>6. t.level >= Full => Plain(t.queries) = kept
  <2> SUFFICES ASSUME t.level >= Full PROVE Plain(t.queries) = kept
    OBVIOUS
  <2>1. QueriesOf(r, level) = Kept(r.q)
    BY <1>4 DEF QueriesOf
  <2> QED
    BY <1>2, <1>4, <2>1
<1>7. t.level = Normal => Plain(t.queries) = FirstOf(kept, RingTop)
  <2> SUFFICES ASSUME t.level = Normal PROVE Plain(t.queries) = FirstOf(kept, RingTop)
    OBVIOUS
  <2>1. level >= Normal /\ ~(level >= Full)
    BY <1>4 DEF Normal, Full
  <2>2. QueriesOf(r, level) = FirstOf(Kept(r.q), RingTop)
    BY <2>1 DEF QueriesOf
  <2>3. Plain(FirstOf(Kept(r.q), RingTop)) = FirstOf(Plain(Kept(r.q)), RingTop)
    BY <1>1, <1>2, PlainFirst
  <2> QED
    BY <1>2, <1>4, <2>2, <2>3
<1> QED
  BY <1>5, <1>6, <1>7 DEF QueriesTrue, RepeatedIn, kept, d

\* The record of the ring is true.
LEMMA RingTrue ==
  ASSUME NEW r, NEW x, Remembers(r, x), NEW t, NEW level \in Nat,
         x.mode = "smart" /\ x.did.errors # <<>> => level >= Normal,
         TellsBack(t, r, level, x.comps)
  PROVE  TraceTrue(t, x, TRUE)
<1>1. CountsTrue(t, x, TRUE)
  BY CountsTold DEF TellsBack
<1>2. ASSUME t.level >= Normal, Cardinality(x.did.http) < Width PROVE CallsTrue(t, x.did)
  <2>1. CallsOf(r, level) = Kept(r.h)
    BY <1>2 DEF TellsBack, CallsOf
  <2>2. /\ DOMAIN t.calls = 1 .. Len(Kept(r.h)) /\ Len(t.calls) = Len(Kept(r.h))
        /\ \A i \in 1 .. Len(Kept(r.h)) : t.calls[i].what = Kept(r.h)[i].what
    BY <2>1 DEF TellsBack
  <2> DEFINE h == r.h
             d == x.did
  <2>3. ListOK(h, HttpMax) /\ HttpAll(h, d.http, d.closed) /\ Cardinality(d.http) < Width
    BY <1>2 DEF Remembers, Tellable
  <2>4. /\ DOMAIN t.calls = 1 .. Len(Kept(h)) /\ Len(t.calls) = Len(Kept(h))
        /\ \A i \in 1 .. Len(Kept(h)) : t.calls[i].what = Kept(h)[i].what
    BY <2>2
  <2> HIDE DEF h, d
  <2>5. CallsTrue(t, d)
    BY <2>3, <2>4, CallsTold
  <2> QED
    BY <2>5 DEF d
<1>3. ASSUME Len(x.did.q) < Width PROVE QueriesTrue(t, x.did, TRUE)
  BY <1>3, RingQueries
<1> QED
  BY <1>1, <1>2, <1>3 DEF TraceTrue

\* The line of the file is true.
LEMMA LineTrue ==
  ASSUME NEW r, NEW x, Remembers(r, x), NEW level \in Nat,
         x.mode = "smart" /\ x.did.errors # <<>> => level >= Normal
  PROVE  TraceTrue(JsonlLine(r, level, x.comps), x, FALSE)
<1> DEFINE t == JsonlLine(r, level, x.comps)
<1>1. /\ t.level = level /\ t.count = r.q.count /\ t.http = r.h.count
      /\ t.total = (IF FALSE \/ r.q.count > 0 THEN r.q.total ELSE 0)
      /\ t.files = r.files /\ t.redis = r.redis /\ t.marks = r.marks /\ t.errors = r.errors
      /\ t.comps = x.comps
      /\ t.calls = (IF level >= Normal THEN Kept(r.h) ELSE <<>>)
  BY DEF JsonlLine
<1>2. level < Normal => t.queries = <<>> /\ t.calls = <<>>
  <2> SUFFICES ASSUME level < Normal PROVE t.queries = <<>> /\ t.calls = <<>>
    OBVIOUS
  <2>1. ~(level >= Normal)
    BY DEF Normal
  <2> QED
    BY <2>1 DEF JsonlLine
<1>3. ASSUME Len(x.did.q) < Width PROVE QueriesTrue(t, x.did, FALSE)
  <2> DEFINE d == x.did
             comps == x.comps
  <2>1. ListOK(r.q, QueriesMax) /\ d.q \in Seq(Timed) /\ ListTells(r.q, d.q, QueriesMax)
        /\ Len(d.q) < Width
    BY <1>3 DEF Remembers, Tellable, CallsTell
  <2> HIDE DEF d, comps
  <2>2. QueriesTrue(JsonlLine(r, level, comps), d, FALSE)
    BY <2>1, LineQueries
  <2> QED
    BY <2>2 DEF d, comps
<1> HIDE DEF t
<1>4. CountsTrue(t, x, FALSE)
  BY <1>1, <1>2, CountsTold
<1>5. ASSUME t.level >= Normal, Cardinality(x.did.http) < Width PROVE CallsTrue(t, x.did)
  <2> DEFINE h == r.h
             d == x.did
  <2>1. ListOK(h, HttpMax) /\ HttpAll(h, d.http, d.closed) /\ Cardinality(d.http) < Width
    BY <1>5 DEF Remembers, Tellable
  <2>2. t.calls = Kept(h)
    BY <1>1, <1>5
  <2> HIDE DEF h, d
  <2>3. Kept(h) \in Seq(Entry)
    BY <2>1, KeptTyped, RecorderAssumption
  <2>4. DOMAIN t.calls = 1 .. Len(Kept(h)) /\ Len(t.calls) = Len(Kept(h))
        /\ \A i \in 1 .. Len(Kept(h)) : t.calls[i].what = Kept(h)[i].what
    BY <2>2, <2>3
  <2>5. CallsTrue(t, d)
    BY <2>1, <2>4, CallsTold
  <2> QED
    BY <2>5 DEF d
<1> QED
  BY <1>3, <1>4, <1>5 DEF TraceTrue, t

\* Flushing the tracks keeps what a request remembers.
LEMMA FlushedRemembers ==
  ASSUME RecorderOK, RecordInv, req.on, NEW x, x.did = did
  PROVE  Remembers(FlushTracks(req), x)
<1> DEFINE q == FlushTracks(req)
           e == easy
<1>1. IsRequest(req) /\ DidOK /\ RequestTells(req, did, easy)
  BY DEF RecorderOK, RecordInv
<1>2. SameCalls(q, req) /\ ListOK(q.h, HttpMax) /\ HttpAll(q.h, did.http, did.closed)
  BY <1>1, FlushTells DEF RequestTells
<1> HIDE DEF q
<1>3. CallsTell(q, did)
  BY <1>1, <1>2 DEF RequestTells, CallsTell, SameCalls
<1>4. ListOK(req.q, QueriesMax) /\ req \in Requests
  BY <1>1 DEF IsRequest
<1>5. req.marks \in Seq(Nat) /\ req.errors \in Seq(Nat) /\ req.files \in Nat /\ req.redis \in Nat
  BY <1>4 DEF Requests
<1>6. Tellable(q)
  BY <1>2, <1>4, <1>5 DEF Tellable, SameCalls
<1>7. did.q \in Seq(Timed)
  BY <1>1, DidParts
<1> QED
  BY <1>2, <1>3, <1>6, <1>7 DEF Remembers, q

\* Errors make the level of a smart trace normal at least.
LEMMA LevelWithErrors ==
  ASSUME RecorderOK, RecordInv, req.on, NEW mode, NEW speed \in Nat, NEW failed \in BOOLEAN,
         NEW r, r = FlushTracks(req)
  PROVE  LET level == TraceLevel(mode, speed, failed, Len(r.errors))
         IN level \in Nat /\ (mode = "smart" /\ did.errors # <<>> => level >= Normal)
<1> DEFINE s == did.errors
           n == Len(r.errors)
<1>1. IsRequest(req) /\ DidOK /\ RequestTells(req, did, easy)
  BY DEF RecorderOK, RecordInv
<1>2. SameCalls(r, req)
  BY <1>1, FlushTells DEF RequestTells
<1>3. r.errors = FirstOf(s, ErrorsMax)
  BY <1>1, <1>2 DEF RequestTells, CallsTell, SameCalls
<1>4. s \in Seq(Nat) /\ ErrorsMax \in Nat \ {0}
  BY <1>1, DidParts, RecorderAssumption
<1> HIDE DEF s
<1>5. Len(FirstOf(s, ErrorsMax)) = IF Len(s) <= ErrorsMax THEN Len(s) ELSE ErrorsMax
  <2> DEFINE V == Nat
  <2>1. s \in Seq(V) /\ 0 \in V /\ ErrorsMax \in Nat
    BY <1>4
  <2> HIDE DEF V
  <2> QED
    BY <2>1, FirstAppend
<1>6. n \in Nat /\ (s # <<>> => n > 0)
  <2>1. Len(s) \in Nat /\ (s # <<>> => Len(s) # 0)
    BY <1>4, EmptySeq
  <2> QED
    BY <1>3, <1>4, <1>5, <2>1
<1> HIDE DEF n
<1>7. TraceLevel(mode, speed, failed, n) \in Nat
  BY DEF TraceLevel, SmartLevel, Normal, Full
<1>8. ASSUME mode = "smart", s # <<>> PROVE TraceLevel(mode, speed, failed, n) >= Normal
  BY <1>6, <1>8 DEF TraceLevel, SmartLevel, Normal, Full
<1> QED
  BY <1>7, <1>8 DEF s, n

\* The components of a finished profile.
LEMMA FinishedComps ==
  ASSUME ProfilerInv, NEW p, p = Finished(prof, now)
  PROVE  (IF p.on THEN p.comps ELSE <<>>) \in Seq(Comps)
<1>1. Ledger(prof, now, odd) /\ now \in Nat
  BY EngineParts DEF ProfilerInv
<1>2. Over(prof, p, now, odd)
  BY <1>1, FinishCloses
<1>3. p \in Profiles
  BY <1>2 DEF Over, Ledger, Limits
<1>4. p.comps \in Seq(Comps)
  BY <1>3 DEF Profiles
<1>5. <<>> \in Seq(Comps)
  OBVIOUS
<1> QED
  BY <1>4, <1>5

\* What a request leaves is true.
LEMMA RequestToldAtEnd ==
  ASSUME RecorderOK, RecordInv, ProfilerInv,
         NEW mode, NEW speed \in Summary .. Alert, NEW failed \in BOOLEAN, NEW works \in BOOLEAN,
         Rshutdown(mode, speed, failed, works)
  PROVE  TraceTellsRequest'
<1> DEFINE r == FlushTracks(req)
           p == Finished(prof, now)
           comps == IF p.on THEN p.comps ELSE <<>>
           level == TraceLevel(mode, speed, failed, Len(r.errors))
           data == SerializeRequest(r, level, comps, p.on)
           x == last'
<1>1. req.on
  BY DEF Rshutdown
<1>2. /\ x.did = did /\ x.comps = comps /\ x.mode = mode
      /\ x.line = <<>> \/ x.line = <<JsonlLine(r, level, comps)>>
      /\ x.ring = <<>> \/ x.ring = <<DeserializeTrace(data, 5)>>
  <2>1. \E a, b, c, d, e : /\ x = [line |-> a, ring |-> b, to |-> c, user |-> d, early |-> e,
                                  did |-> did, comps |-> comps, mode |-> mode]
                           /\ a = <<>> \/ a = <<JsonlLine(r, level, comps)>>
                           /\ b = <<>> \/ b = <<DeserializeTrace(data, 5)>>
    <3> HIDE DEF data, level, comps, r
    <3>1. x = [line |-> IF proc.out \in {"file", "both"}
                        THEN <<JsonlLine(r, level, comps)>> ELSE <<>>,
               ring |-> x.ring, to |-> x.to, user |-> serving, early |-> x.early,
               did |-> did, comps |-> comps, mode |-> mode]
      BY DEF Rshutdown, r, comps, level, data
    <3>2. x.ring = <<>> \/ x.ring = <<DeserializeTrace(data, 5)>>
      BY DEF Rshutdown, r, comps, level, data
    <3> QED
      BY <3>1, <3>2
  <2> HIDE DEF x, data, level, comps, r
  <2> QED
    BY <2>1
<1>3. speed \in Nat
  BY DEF Summary, Alert
<1>4. level \in Nat /\ (mode = "smart" /\ did.errors # <<>> => level >= Normal)
  BY <1>1, <1>3, LevelWithErrors
<1>5. comps \in Seq(Comps)
  BY FinishedComps
<1>6. Remembers(r, x)
  BY <1>1, <1>2, FlushedRemembers
<1> HIDE DEF x, level, comps
<1>7. Tellable(r)
  BY <1>6 DEF Remembers
<1> HIDE DEF r
<1>8. TraceTrue(JsonlLine(r, level, comps), x, FALSE)
  BY <1>2, <1>4, <1>6, LineTrue
<1>9. TellsBack(DeserializeTrace(data, 5), r, level, comps)
  BY <1>4, <1>5, <1>7, RecordRead
<1> HIDE DEF data
<1>10. TraceTrue(DeserializeTrace(data, 5), x, TRUE)
  BY <1>2, <1>4, <1>6, <1>9, RingTrue
<1>11. \A t \in Range(x.line) : TraceTrue(t, x, FALSE)
  BY <1>2, <1>8, OneOrNone
<1>12. \A t \in Range(x.ring) : TraceTrue(t, x, TRUE)
  <2> DEFINE s == x.ring
             y == DeserializeTrace(data, 5)
  <2>1. s = <<>> \/ s = <<y>>
    BY <1>2
  <2>2. TraceTrue(y, x, TRUE)
    BY <1>10
  <2> HIDE DEF s, y
  <2>3. \A t \in Range(s) : t = y
    BY <2>1, OneOrNone
  <2>4. \A t \in Range(s) : TraceTrue(t, x, TRUE)
    BY <2>2, <2>3
  <2> QED
    BY <2>4 DEF s
<1> QED
  BY <1>11, <1>12 DEF TraceTellsRequest, x

\* A step that leaves the last trace alone, or takes it away, tells nothing new.
LEMMA LastSame ==
  ASSUME TraceTellsRequest, last' = last
  PROVE  TraceTellsRequest'
BY DEF TraceTellsRequest

\* When there is no last trace, there is nothing to tell.
LEMMA LastGone ==
  ASSUME last' = NoTrace
  PROVE  TraceTellsRequest'
<1>1. last'.line = <<>> /\ last'.ring = <<>>
  BY DEF NoTrace
<1>2. Range(<<>>) = {}
  BY DEF Range
<1> QED
  BY <1>1, <1>2 DEF TraceTellsRequest

\* Every step leaves a true trace.
LEMMA TracesKept ==
  ASSUME WorkerInv, ProfilerInv, RecordInv, TraceTellsRequest, [Next]_vars
  PROVE  TraceTellsRequest'
<1>1. CASE UNCHANGED vars
  BY <1>1, LastSame DEF vars, ownVars
<1>2. CASE Spawn
  BY <1>2, LastSame DEF Spawn
<1>3. CASE Stop
  BY <1>3, LastSame DEF Stop
<1>4. CASE Die
  BY <1>4, LastSame DEF Die
<1>5. CASE Others
  BY <1>5, LastSame DEF Others
<1>6. CASE TimePasses
  BY <1>6, LastSame DEF TimePasses, ownVars
<1>7. CASE Begin
  BY <1>7, LastGone DEF Begin, Rinit
<1>8. CASE Record
  BY <1>8, LastSame DEF Record, ownVars
<1>9. CASE Run
  BY <1>9, LastSame DEF Run, ownVars
<1>10. CASE End
  <2>1. CASE ~req.on /\ UNCHANGED last
    BY <2>1, LastSame
  <2>2. CASE \E mode \in {"smart", "all", "manual"}, speed \in Summary .. Alert,
               failed, works \in BOOLEAN : Rshutdown(mode, speed, failed, works)
    <3>1. PICK mode \in {"smart", "all", "manual"}, speed \in Summary .. Alert,
               failed \in BOOLEAN, works \in BOOLEAN : Rshutdown(mode, speed, failed, works)
      BY <2>2
    <3>2. RecorderOK
      BY DEF WorkerInv
    <3> QED
      BY <3>1, <3>2, RequestToldAtEnd
  <2> QED
    BY <1>10, <2>1, <2>2 DEF End
<1> QED
  BY <1>1, <1>2, <1>3, <1>4, <1>5, <1>6, <1>7, <1>8, <1>9, <1>10 DEF Next

\* Nothing has been told, and nothing done.
LEMMA TracesStart ==
  ASSUME Init
  PROVE  RecordInv /\ TraceTellsRequest
<1>1. last = NoTrace /\ req = NoRequest /\ did = NothingDone
  BY DEF Init, RecorderInit
<1>2. last.line = <<>> /\ last.ring = <<>> /\ ~req.on /\ did.http = {}
  BY <1>1 DEF NoTrace, NoRequest, NothingDone
<1>3. Range(<<>>) = {}
  BY DEF Range
<1> QED
  BY <1>2, <1>3 DEF RecordInv, TraceTellsRequest

\* What the line and the record tell of a request is what it did: exact totals, counters modulo
\* their width, the first calls up to the limits, the slowest statements or the first, each
\* transfer once and under its own address, and the components of its profile, whatever the
\* limits are and however many requests a process serves (phpray.c, hooks_*.c, ringbuffer.c and
\* ringbuffer.go).
THEOREM TracesTellTheTruth == Spec => []TraceTellsRequest
<1> DEFINE Inv == WorkerInv /\ ProfilerInv /\ RecordInv /\ TraceTellsRequest
<1>1. Init => Inv
  BY WorkerStarts, ProfilesStart, TracesStart
<1>2. Inv /\ [Next]_vars => Inv'
  <2>1. ASSUME Inv, [Next]_vars PROVE Inv'
    <3>1. RecorderOK
      BY <2>1 DEF WorkerInv
    <3>2. WorkerInv'
      BY <2>1, WorkerKept
    <3>3. ProfilerInv'
      BY <2>1, ProfilesKept
    <3>4. RecordInv'
      BY <2>1, <3>1, RecordKept
    <3>5. TraceTellsRequest'
      BY <2>1, TracesKept
    <3> QED
      BY <3>2, <3>3, <3>4, <3>5
  <2> QED
    BY <2>1
<1>3. Inv => TraceTellsRequest
  OBVIOUS
<1> QED
  BY <1>1, <1>2, <1>3, PTL DEF Spec

=============================================================================
