-------------------------------- MODULE Health --------------------------------
(***************************************************************************)
(* Crash recovery of the extension (src/extension/crash_recovery.c): a     *)
(* file that the PHP processes of one health path map.  The handler of     *)
(* SIGSEGV, SIGBUS and SIGABRT notes the time of a crash in it; a process  *)
(* that starts counts the recent ones and leaves the extension out when    *)
(* there are too many; every request looks at the flag.                    *)
(*                                                                         *)
(* One process is followed; others crash, start and reset beside it.  The  *)
(* handler and the reset are not atomic: each store is a step.  Left out:  *)
(* files that cannot be opened, which leave the extension unguarded.       *)
(***************************************************************************)
EXTENDS Integers, FiniteSetsExt

CONSTANTS
  CrashSlots,  \* PHPRAY_MAX_CRASH_SLOTS
  Threshold,   \* phpray.crash_threshold
  Window,      \* phpray.crash_window
  MaxTime,     \* bound: the last instant
  MaxCrashes,  \* bound: crashes, of all processes
  MaxResets    \* bound: calls of phpray_health_reset

\* With a threshold above the slots the file could never show enough crashes.
ASSUME HealthAssumption ==
  /\ Threshold \in 1 .. CrashSlots
  /\ CrashSlots \in Nat /\ Window \in Nat /\ MaxTime \in Nat \ {0}
  /\ MaxCrashes \in Nat /\ MaxResets \in Nat

VARIABLES
  file,      \* the health file: times (0 = empty), slot and the disabled flag
  clock,     \* seconds
  dying,     \* crash number -> its handler: "none", "store" (slot taken) or "over"
  resetting, \* 0, or the step of phpray_health_reset: 1 flag, 2 slot, 2 + n time n
  resets,    \* resets begun
  log        \* history: crash number -> when it was noted, and whether a reset may have undone it

healthVars == <<file, clock, dying, resetting, resets, log>>

Crashes == 1 .. MaxCrashes
Slots == 0 .. CrashSlots - 1

HealthInit ==
  /\ file = [times |-> [i \in Slots |-> 0], slot |-> 0, disabled |-> FALSE]
  /\ clock = 1
  /\ dying = [k \in Crashes |-> [at |-> "none", slot |-> 0]]
  /\ resetting = 0 /\ resets = 0
  /\ log = [k \in Crashes |-> [time |-> 0, fresh |-> FALSE]]

Later ==
  /\ clock < MaxTime
  /\ clock' = clock + 1
  /\ UNCHANGED <<file, dying, resetting, resets, log>>

-----------------------------------------------------------------------------
(* The signal handler: it takes a slot, then stores the time there *)

CrashTakesSlot ==
  \E k \in Crashes :
    /\ dying[k].at = "none" /\ \A j \in 1 .. k - 1 : dying[j].at # "none"
    /\ dying' = [dying EXCEPT ![k] = [at |-> "store", slot |-> file.slot % CrashSlots]]
    /\ file' = [file EXCEPT !.slot = @ + 1]
    /\ log' = [log EXCEPT ![k].fresh = resetting = 0]
    /\ UNCHANGED <<clock, resetting, resets>>

CrashStores ==
  \E k \in Crashes :
    /\ dying[k].at = "store"
    /\ dying' = [dying EXCEPT ![k].at = "over"]
    /\ file' = [file EXCEPT !.times[dying[k].slot] = clock]
    /\ log' = [log EXCEPT ![k].time = clock]
    /\ UNCHANGED <<clock, resetting, resets>>

-----------------------------------------------------------------------------
(* MINIT and the requests *)

Recent(times) == Cardinality({i \in Slots : times[i] > 0 /\ clock - times[i] <= Window})

\* Mutant: one crash more than the threshold.
TooManyLate == Recent(file.times) > Threshold

TooMany == Recent(file.times) >= Threshold

\* MINIT sets or clears the flag; a process that starts among too many crashes is told to stop.
HealthStart ==
  /\ file' = [file EXCEPT !.disabled = TooMany]
  /\ UNCHANGED <<clock, dying, resetting, resets, log>>

\* The fast path of RINIT.
HealthCheck == ~file.disabled

-----------------------------------------------------------------------------
(* phpray_health_reset *)

ResetBegin ==
  /\ resetting = 0 /\ resets < MaxResets
  /\ resetting' = 1 /\ resets' = resets + 1
  /\ log' = [k \in Crashes |-> [log[k] EXCEPT !.fresh = FALSE]]
  /\ UNCHANGED <<file, clock, dying>>

ResetStep ==
  /\ resetting > 0
  /\ file' = CASE resetting = 1 -> [file EXCEPT !.disabled = FALSE]
               [] resetting = 2 -> [file EXCEPT !.slot = 0]
               [] OTHER -> [file EXCEPT !.times[resetting - 3] = 0]
  /\ resetting' = IF resetting = 2 + CrashSlots THEN 0 ELSE resetting + 1
  /\ UNCHANGED <<clock, dying, resets, log>>

-----------------------------------------------------------------------------
(* Properties are stated in PhpWorker; these are the crashes they speak of. *)

Within(k) == dying[k].at = "over" /\ clock - log[k].time <= Window

\* Crashes that must be counted: no reset began before they were noted, and they are among the
\* last to take a slot; and all that may be.
CertainCrashes ==
  LET taken == Cardinality({k \in Crashes : dying[k].at # "none"})
  IN Cardinality({k \in Crashes : Within(k) /\ log[k].fresh /\ k > taken - CrashSlots})
PossibleCrashes == Cardinality({k \in Crashes : Within(k)})

=============================================================================
