----------------------------- MODULE CloudShipper -----------------------------
(***************************************************************************)
(* The shipper of the collector (src/collector/cloud.go): it counts every  *)
(* trace into the minute it belongs to, keeps some traces to send, and a   *)
(* single goroutine sends both kinds of batch to a console, splits a batch *)
(* that is too large, buffers one that could not be delivered, and sends   *)
(* the buffer again, merged.  On shutdown the main goroutine sends what is *)
(* left.                                                                   *)
(*                                                                         *)
(* The console is external: docs/spec/ingest-v1.md and the comment in      *)
(* coalesceTraces say that it takes a batch id once and a trace once.      *)
(***************************************************************************)
EXTENDS CloudBuffer

CONSTANTS
  BatchMax,    \* cloudTraceBatchMax: records in a batch of traces
  MaxClock,    \* bound: the last minute of the clock
  MaxLives,    \* bound: times the collector is started
  MaxFaults,   \* bound: answers other than "accepted", failing disks and crashes, together
  Faults       \* which of them there are

FaultKinds == {"lost", "fail", "401", "402", "413", "rejected", "disk", "crash"}

ASSUME ShipperAssumption ==
  /\ BatchMax \in Nat \ {0}
  /\ MaxClock \in Nat
  /\ MaxLives \in Nat \ {0}
  /\ MaxFaults \in Nat
  /\ Faults \subseteq FaultKinds

Minutes == 0 .. MaxClock
NoBatch == [kind |-> "traces", id |-> 0, body |-> <<>>, files |-> <<>>, verdict |-> "none"]

VARIABLES
  phase,     \* "down", "run", "stopping" (done is closed), "final" (Stop after wg.Wait)
  lives,     \* starts so far
  faults,    \* faults so far
  clock,     \* the minute it is
  observed,  \* traces observed
  pending,   \* s.pending
  minutes,   \* s.minutes: minute -> the traces counted
  auth,      \* s.st.AuthFailed
  plan,      \* s.st.PlanExhausted
  backing,   \* now is before s.st.BackoffUntil
  pc,        \* sender: "idle", "flush", "send", "wait", "store", "replay", "remove"
  job,       \* sender: what it returns to: "traces", "aggregates" or "replay"
  todo,      \* sender: the batches sendTraces and sendAggregates have still to send
  req,       \* sender: the request in deliver, and the files it stands for
  list,      \* sender: the files replayBuffer has still to look at
  ids,       \* batch ids drawn
  sent,      \* s.st.SentTraces
  dropped,   \* s.st.DroppedTraces
  known,     \* console: batch ids accepted
  arrived,   \* console: traces accepted
  counted,   \* console: trace -> accepted minutes that count it
  entered,   \* history: traces this process has taken to send or found in the buffer, less
             \*   those in files it could not read
  late,      \* history: traces observed after Stop began its last flush
  forgone,   \* history: traces given up
  missing    \* history: trace -> why the minute that counts it was given up, or "no"

procVars    == <<phase, lives>>
flagVars    == <<auth, plan, backing>>
intakeVars  == <<observed, pending, minutes, entered, late>>
sendVars    == <<pc, job, todo, req, list, ids>>
countVars   == <<sent, dropped>>
consoleVars == <<known, arrived, counted>>
lossVars    == <<forgone, missing>>
vars == <<procVars, faults, clock, intakeVars, flagVars, sendVars, countVars, consoleVars,
          lossVars, bufferVars>>

Reasons == {"no", "unsplit", "large", "rejected", "disk", "ended"}

TypeOK ==
  /\ BufferTypeOK
  /\ phase \in {"down", "run", "stopping", "final"}
  /\ lives \in 0 .. MaxLives
  /\ faults \in 0 .. MaxFaults
  /\ clock \in Minutes
  /\ observed \in 0 .. MaxTraces
  /\ pending \in Seq(Traces)
  /\ minutes \in [Minutes -> SUBSET Traces]
  /\ auth \in BOOLEAN /\ plan \in BOOLEAN /\ backing \in BOOLEAN
  /\ pc \in {"idle", "flush", "send", "wait", "store", "replay", "remove"}
  /\ job \in {"traces", "aggregates", "replay"}
  /\ todo \in Seq(File)
  /\ req \in [kind : Kinds, id : Nat, body : Bodies, files : Seq(Nat),
              verdict : {"none", "ok", "large", "refused", "later"}]
  /\ list \in Seq(Nat)
  /\ ids \in Nat
  /\ sent \in Nat /\ dropped \in Nat
  /\ known \subseteq Nat
  /\ arrived \subseteq Traces
  /\ counted \in [Traces -> Nat]
  /\ entered \in Nat
  /\ late \subseteq Traces
  /\ forgone \subseteq Traces
  /\ missing \in [Traces -> Reasons]

Init ==
  /\ BufferInit
  /\ phase = "down" /\ lives = 0 /\ faults = 0 /\ clock = 0
  /\ observed = 0 /\ pending = <<>> /\ minutes = [m \in Minutes |-> {}]
  /\ auth = FALSE /\ plan = FALSE /\ backing = FALSE
  /\ pc = "idle" /\ job = "traces" /\ todo = <<>> /\ req = NoBatch /\ list = <<>> /\ ids = 0
  /\ sent = 0 /\ dropped = 0
  /\ known = {} /\ arrived = {} /\ counted = [t \in Traces |-> 0]
  /\ entered = 0 /\ late = {} /\ forgone = {} /\ missing = [t \in Traces |-> "no"]

-----------------------------------------------------------------------------
(* Observe: called by the daemon for every trace, also while it shuts down *)

ClockTick ==
  /\ clock < MaxClock
  /\ clock' = clock + 1
  /\ UNCHANGED <<procVars, faults, intakeVars, flagVars, sendVars, countVars, consoleVars,
                 lossVars, bufferVars>>

\* The trace is of this minute or the one before.  Whether it is to be sent is up to its
\* level, its errors and the sample rate.
Observe(m, ship) ==
  /\ phase # "down"
  /\ observed < MaxTraces
  /\ observed' = observed + 1
  /\ minutes' = [minutes EXCEPT ![m] = @ \cup {observed + 1}]
  /\ IF ship /\ ~plan
       THEN pending' = Append(pending, observed + 1) /\ entered' = entered + 1
       ELSE UNCHANGED <<pending, entered>>
  /\ late' = IF phase = "final" THEN late \cup {observed + 1} ELSE late
  /\ forgone' = IF ship /\ ~plan THEN forgone ELSE forgone \cup {observed + 1}
  /\ UNCHANGED <<procVars, faults, clock, flagVars, sendVars, countVars, consoleVars,
                 missing, bufferVars>>

-----------------------------------------------------------------------------
(* What becomes of a batch *)

Fault(kind) ==
  /\ kind \in Faults
  /\ faults < MaxFaults
  /\ faults' = faults + 1

GiveUp(body) == forgone' = forgone \cup Covered(body)

Miss(body, why) ==
  missing' = [t \in Traces |-> IF t \in Covered(body) THEN why ELSE missing[t]]

Halves(kind, body) ==
  LET half == Len(body) \div 2
  IN  <<[kind |-> kind, body |-> SubSeq(body, 1, half)],
        [kind |-> kind, body |-> SubSeq(body, half + 1, Len(body))]>>

\* sendTraces or sendAggregates returned.
Proceed(rest) ==
  /\ todo' = rest
  /\ req' = NoBatch
  /\ pc' = IF rest # <<>>           THEN "send"
           ELSE IF job = "traces"     THEN "flush"
           ELSE IF job = "aggregates" THEN "idle"
           ELSE "replay"

Blocked == auth \/ backing

\* Mutant: the sender sleeps until the back-off is over.
DeliverAsleep(r, rest) ==
  /\ pc' = IF ~Blocked THEN "wait" ELSE "asleep"
  /\ req' = r
  /\ list' = rest

\* deliver up to the request: nothing is sent after a 401 or before the back-off is over.
Deliver(r, rest) ==
  IF ~Blocked
    THEN pc' = "wait" /\ req' = r /\ list' = rest
    ELSE IF r.files = <<>>
      THEN pc' = "store" /\ req' = r /\ list' = rest
      ELSE pc' = "idle" /\ req' = NoBatch /\ list' = <<>>

Send ==
  /\ pc = "send"
  /\ ids' = ids + 1
  /\ Deliver([NoBatch EXCEPT !.kind = Head(todo).kind, !.id = ids + 1,
                             !.body = Head(todo).body], list)
  /\ UNCHANGED <<procVars, faults, clock, intakeVars, flagVars, job, todo, countVars,
                 consoleVars, lossVars, bufferVars>>

\* The rest of sendTraces and sendAggregates, but for the buffer.
AfterSend(verdict) ==
  LET many == Len(req.body) > 1
      aggs == req.kind = "aggregates"
  IN  \/ /\ verdict = "ok"
         /\ sent' = IF aggs THEN sent ELSE sent + Len(req.body)
         /\ Proceed(Tail(todo))
         /\ UNCHANGED <<dropped, lossVars>>
      \/ /\ verdict = "large" /\ many
         /\ Proceed(Halves(req.kind, req.body) \o Tail(todo))
         /\ UNCHANGED <<countVars, lossVars>>
      \/ /\ verdict = "refused" \/ (verdict = "large" /\ ~many)
         /\ ~aggs
         /\ dropped' = dropped + Len(req.body)
         /\ GiveUp(req.body)
         /\ Proceed(Tail(todo))
         /\ UNCHANGED <<sent, missing>>
      \/ /\ verdict = "refused" /\ aggs
         /\ Miss(req.body, "rejected")
         /\ Proceed(Tail(todo))
         /\ UNCHANGED <<countVars, forgone>>
      \/ /\ verdict = "later" \/ (verdict = "large" /\ aggs /\ ~many)
         /\ pc' = "store"
         /\ UNCHANGED <<todo, req, countVars, lossVars>>

\* The rest of the loop in replayBuffer begins with removeAll, or the loop ends.
AfterReplay(verdict) ==
  /\ IF verdict = "later"
       THEN pc' = "idle" /\ req' = NoBatch /\ list' = <<>>
       ELSE pc' = "remove" /\ req' = [req EXCEPT !.verdict = verdict] /\ UNCHANGED list
  /\ UNCHANGED <<todo, countVars, lossVars>>

Return(verdict) ==
  /\ IF req.files = <<>> THEN AfterSend(verdict) /\ UNCHANGED list ELSE AfterReplay(verdict)
  /\ UNCHANGED <<procVars, clock, intakeVars, job, ids, bufferVars>>

-----------------------------------------------------------------------------
(* The console answers, or nothing arrives within the client's 30 s *)

ConsoleTakes ==
  IF req.id \in known
    THEN UNCHANGED consoleVars
    ELSE /\ known' = known \cup {req.id}
         /\ IF req.kind = "traces"
              THEN arrived' = arrived \cup Covered(req.body) /\ UNCHANGED counted
              ELSE /\ counted' = [t \in Traces |->
                        counted[t] + Cardinality({k \in 1 .. Len(req.body) : t \in req.body[k]})]
                   /\ UNCHANGED arrived

Accepted ==
  /\ pc = "wait"
  /\ ConsoleTakes
  /\ auth' = FALSE
  /\ backing' = FALSE
  /\ Return("ok")
  /\ UNCHANGED <<faults, plan>>

\* The batch arrives and the answer does not.
AnswerLost ==
  /\ pc = "wait"
  /\ Fault("lost")
  /\ ConsoleTakes
  /\ backing' = TRUE
  /\ Return("later")
  /\ UNCHANGED <<auth, plan>>

\* No connection, 429, or 5xx.
Failed ==
  /\ pc = "wait"
  /\ Fault("fail")
  /\ backing' = TRUE
  /\ Return("later")
  /\ UNCHANGED <<auth, plan, consoleVars>>

Unauthorized ==
  /\ pc = "wait"
  /\ Fault("401")
  /\ auth' = TRUE
  /\ Return("later")
  /\ UNCHANGED <<plan, backing, consoleVars>>

PlanExhausted ==
  /\ pc = "wait"
  /\ Fault("402")
  /\ plan' = TRUE
  /\ Return(IF req.kind = "traces" THEN "refused" ELSE "later")
  /\ UNCHANGED <<auth, backing, consoleVars>>

TooLarge ==
  /\ pc = "wait"
  /\ Fault("413")
  /\ Return("large")
  /\ UNCHANGED <<flagVars, consoleVars>>

\* 426 and any other status.
Rejected ==
  /\ pc = "wait"
  /\ Fault("rejected")
  /\ Return("refused")
  /\ UNCHANGED <<flagVars, consoleVars>>

Answer ==
  \/ Accepted \/ AnswerLost \/ Failed \/ Unauthorized \/ PlanExhausted \/ TooLarge \/ Rejected

-----------------------------------------------------------------------------
(* The buffer *)

stored == <<procVars, clock, intakeVars, flagVars, job, list, ids, sent, consoleVars>>

\* Mutant: a batch is buffered under an id of its own.
KeepAnew ==
  /\ pc = "store"
  /\ LET after == Stored(req.kind, ids + 1, req.body)
     IN  /\ disk' = after.kept
         /\ forgone' = forgone \cup after.gone
         /\ dropped' = IF req.kind = "traces" THEN dropped + trimmed + after.count ELSE dropped
         /\ trimmed' = IF req.kind = "traces" THEN 0 ELSE trimmed + after.count
  /\ Proceed(Tail(todo))
  /\ UNCHANGED <<stored, faults, missing>>

\* Mutant: the count of trimmed traces is taken and not reset.
KeepRecounts ==
  /\ pc = "store"
  /\ LET after == Stored(req.kind, req.id, req.body)
     IN  /\ disk' = after.kept
         /\ forgone' = forgone \cup after.gone
         /\ dropped' = IF req.kind = "traces" THEN dropped + trimmed + after.count ELSE dropped
         /\ trimmed' = trimmed + after.count
  /\ Proceed(Tail(todo))
  /\ UNCHANGED <<stored, faults, missing>>

\* buffer.Store and, for traces, TakeDropped.
Keep ==
  /\ pc = "store"
  /\ LET after == Stored(req.kind, req.id, req.body)
     IN  /\ disk' = after.kept
         /\ forgone' = forgone \cup after.gone
         /\ dropped' = IF req.kind = "traces" THEN dropped + trimmed + after.count ELSE dropped
         /\ trimmed' = IF req.kind = "traces" THEN 0 ELSE trimmed + after.count
  /\ Proceed(Tail(todo))
  /\ UNCHANGED <<stored, faults, missing>>

\* The disk fails: traces are counted, aggregates logged.
KeepFails ==
  /\ pc = "store"
  /\ Fault("disk")
  /\ IF req.kind = "traces"
       THEN dropped' = dropped + Len(req.body) /\ GiveUp(req.body) /\ UNCHANGED missing
       ELSE Miss(req.body, "disk") /\ UNCHANGED <<dropped, forgone>>
  /\ Proceed(Tail(todo))
  /\ UNCHANGED <<stored, bufferVars>>

\* Mutant: nothing is sent again once the plan is over.
ReplayUnlessOver ==
  /\ phase \in {"run", "stopping"}
  /\ pc = "idle"
  /\ DOMAIN disk # {}
  /\ ~Blocked /\ ~plan
  /\ pc' = "replay"
  /\ job' = "replay"
  /\ list' = InOrder(DOMAIN disk)
  /\ UNCHANGED <<procVars, faults, clock, intakeVars, flagVars, todo, req, ids, countVars,
                 consoleVars, lossVars, bufferVars>>

ReplayTick ==
  /\ phase \in {"run", "stopping"}
  /\ pc = "idle"
  /\ DOMAIN disk # {}
  /\ ~Blocked
  /\ pc' = "replay"
  /\ job' = "replay"
  /\ list' = InOrder(DOMAIN disk)
  /\ UNCHANGED <<procVars, faults, clock, intakeVars, flagVars, todo, req, ids, countVars,
                 consoleVars, lossVars, bufferVars>>

\* How many files from the head of the list on go into one request (coalesceTraces).
Together ==
  Max({n \in 1 .. Len(list) :
         \/ n = 1
         \/ /\ \A k \in 2 .. n : list[k] \in OfKind(disk, "traces")
            /\ Weight(disk, {list[k] : k \in 1 .. n}) <= BatchMax})

replaying == <<procVars, faults, clock, intakeVars, flagVars, job, todo, consoleVars>>

\* Mutant: the merged batch has the id of the first file.
ReplayTracesAsFirst ==
  /\ pc = "replay" /\ list # <<>>
  /\ Head(list) \in OfKind(disk, "traces") /\ ~plan
  /\ LET n     == Together
         files == SubSeq(list, 1, n)
     IN  Deliver([kind |-> "traces", id |-> Head(list), files |-> files, verdict |-> "none",
                  body |-> FlattenSeq([k \in 1 .. n |-> disk[files[k]].body])],
                 SubSeq(list, n + 1, Len(list)))
  /\ UNCHANGED <<replaying, ids, countVars, lossVars, bufferVars>>

\* A batch of traces, with those that follow.
ReplayTraces ==
  /\ pc = "replay" /\ list # <<>>
  /\ Head(list) \in OfKind(disk, "traces") /\ ~plan
  /\ ids' = IF Together = 1 THEN ids ELSE ids + 1
  /\ LET n     == Together
         files == SubSeq(list, 1, n)
     IN  Deliver([kind |-> "traces", id |-> IF n = 1 THEN Head(list) ELSE ids + 1,
                  files |-> files, verdict |-> "none",
                  body |-> FlattenSeq([k \in 1 .. n |-> disk[files[k]].body])],
                 SubSeq(list, n + 1, Len(list)))
  /\ UNCHANGED <<replaying, countVars, lossVars, bufferVars>>

ReplayAggregates ==
  /\ pc = "replay" /\ list # <<>>
  /\ Head(list) \in OfKind(disk, "aggregates")
  /\ Deliver([kind |-> "aggregates", id |-> Head(list), files |-> <<Head(list)>>,
              verdict |-> "none", body |-> disk[Head(list)].body], Tail(list))
  /\ UNCHANGED <<replaying, ids, countVars, lossVars, bufferVars>>

\* Traces are not wanted any more: the file counts as one.
ReplayDiscards ==
  /\ pc = "replay" /\ list # <<>>
  /\ Head(list) \in OfKind(disk, "traces") /\ plan
  /\ disk' = Removed(Head(list))
  /\ dropped' = dropped + 1
  /\ GiveUp(disk[Head(list)].body)
  /\ list' = Tail(list)
  /\ UNCHANGED <<replaying, pc, req, ids, sent, missing, trimmed>>

\* The file was trimmed since the list was made, or cannot be read; it is removed and what
\* was in it is not counted.
ReplayUnreadable ==
  /\ pc = "replay" /\ list # <<>>
  /\ IF Head(list) \in DOMAIN disk
       THEN LET file == disk[Head(list)]
            IN  /\ Fault("disk")
                /\ IF file.kind = "traces"
                     THEN /\ GiveUp(file.body) /\ UNCHANGED missing
                          /\ entered' = entered - Len(file.body)
                     ELSE Miss(file.body, "disk") /\ UNCHANGED <<forgone, entered>>
       ELSE UNCHANGED <<faults, lossVars, entered>>
  /\ disk' = Removed(Head(list))
  /\ list' = Tail(list)
  /\ UNCHANGED <<procVars, clock, observed, pending, minutes, late, flagVars, job, todo,
                 consoleVars, pc, req, ids, countVars, trimmed>>

ReplayDone ==
  /\ pc = "replay" /\ list = <<>>
  /\ pc' = "idle"
  /\ UNCHANGED <<replaying, list, req, ids, countVars, lossVars, bufferVars>>

\* removeAll: one file at a time.
RemoveFile ==
  /\ pc = "remove" /\ req.files # <<>>
  /\ disk' = Removed(Head(req.files))
  /\ req'  = [req EXCEPT !.files = Tail(@)]
  /\ UNCHANGED <<replaying, pc, list, ids, countVars, lossVars, trimmed>>

\* The rest of the loop in replayBuffer.
Settled ==
  /\ pc = "remove" /\ req.files = <<>>
  /\ req' = NoBatch
  /\ LET aggs  == req.kind = "aggregates"
         split == req.verdict = "large" /\ ~aggs /\ Len(req.body) > 1
     IN  /\ todo' = IF split THEN Halves("traces", req.body) ELSE <<>>
         /\ pc' = IF split THEN "send" ELSE "replay"
         /\ IF req.verdict = "ok" \/ split
              THEN UNCHANGED <<dropped, lossVars>>
              ELSE IF aggs
                THEN /\ Miss(req.body, IF req.verdict = "refused" THEN "rejected"
                                       ELSE IF Len(req.body) > 1 THEN "unsplit" ELSE "large")
                     /\ UNCHANGED <<dropped, forgone>>
                ELSE /\ dropped' = dropped + Len(req.body)
                     /\ GiveUp(req.body)
                     /\ UNCHANGED missing
         /\ sent' = IF req.verdict = "ok" /\ ~aggs THEN sent + Len(req.body) ELSE sent
  /\ UNCHANGED <<procVars, faults, clock, intakeVars, flagVars, job, consoleVars, list, ids,
                 bufferVars>>

Replay ==
  \/ ReplayTraces \/ ReplayAggregates \/ ReplayDiscards \/ ReplayDone
  \/ RemoveFile \/ Settled

-----------------------------------------------------------------------------
(* Flushing *)

flushing == <<procVars, faults, clock, observed, entered, late, flagVars, req, list, ids,
              countVars, consoleVars, lossVars, bufferVars>>

\* The ticker, or a trace of level alert.
TraceTick ==
  /\ phase \in {"run", "stopping"}
  /\ pc = "idle"
  /\ pending # <<>>
  /\ pc' = "flush"
  /\ job' = "traces"
  /\ UNCHANGED <<flushing, pending, minutes, todo>>

NextBatch ==
  /\ pc = "flush"
  /\ pending # <<>>
  /\ LET n == IF Len(pending) <= BatchMax THEN Len(pending) ELSE BatchMax
     IN  /\ todo' = <<[kind |-> "traces", body |-> [k \in 1 .. n |-> {pending[k]}]]>>
         /\ pending' = SubSeq(pending, n + 1, Len(pending))
  /\ pc' = "send"
  /\ UNCHANGED <<flushing, job, minutes>>

\* One batch of all minutes that are given.
TakeMinutes(which) ==
  /\ LET order == InOrder({m \in which : minutes[m] # {}})
     IN  IF order = <<>>
           THEN pc' = "idle" /\ UNCHANGED todo
           ELSE /\ pc' = "send"
                /\ todo' = <<[kind |-> "aggregates",
                              body |-> [k \in 1 .. Len(order) |-> minutes[order[k]]]]>>
  /\ minutes' = [m \in Minutes |-> IF m \in which THEN {} ELSE minutes[m]]
  /\ job' = "aggregates"
  /\ UNCHANGED <<flushing, pending>>

\* Minutes that are over.
Closed == {m \in Minutes : m <= clock - 1}

AggTick ==
  /\ phase \in {"run", "stopping"}
  /\ pc = "idle"
  /\ \E m \in Closed : minutes[m] # {}
  /\ TakeMinutes(Closed)

FlushDone ==
  /\ pc = "flush"
  /\ pending = <<>>
  /\ IF phase = "final"
       THEN TakeMinutes(Minutes)
       ELSE pc' = "idle" /\ UNCHANGED <<flushing, pending, job, minutes, todo>>

Sender == Send \/ Answer \/ Keep \/ Replay \/ NextBatch \/ FlushDone

-----------------------------------------------------------------------------
(* The process *)

Launch ==
  /\ phase = "down"
  /\ lives < MaxLives
  /\ phase' = "run"
  /\ lives' = lives + 1
  /\ entered' = TraceRecords(disk)
  /\ UNCHANGED <<faults, clock, observed, pending, minutes, late, flagVars, sendVars,
                 countVars, consoleVars, lossVars, bufferVars>>

\* Stop: close(done).
Stop ==
  /\ phase = "run"
  /\ phase' = "stopping"
  /\ UNCHANGED <<lives, faults, clock, intakeVars, flagVars, sendVars, countVars, consoleVars,
                 lossVars, bufferVars>>

\* runSender saw done and returned; the main goroutine calls flushTraces and then
\* flushAggregates(true).
LastFlush ==
  /\ phase = "stopping"
  /\ pc = "idle"
  /\ phase' = "final"
  /\ pc' = "flush"
  /\ job' = "traces"
  /\ UNCHANGED <<lives, faults, clock, intakeVars, flagVars, todo, req, list, ids, countVars,
                 consoleVars, lossVars, bufferVars>>

Vanish ==
  /\ phase' = "down"
  /\ pending' = <<>> /\ minutes' = [m \in Minutes |-> {}] /\ entered' = 0 /\ late' = {}
  /\ auth' = FALSE /\ plan' = FALSE /\ backing' = FALSE
  /\ pc' = "idle" /\ job' = "traces" /\ todo' = <<>> /\ req' = NoBatch /\ list' = <<>>
  /\ sent' = 0 /\ dropped' = 0 /\ trimmed' = 0
  /\ UNCHANGED <<lives, clock, observed, ids, consoleVars, disk>>

\* What was observed since Stop began its last flush is lost if that did not meet it.
Exit ==
  /\ phase = "final"
  /\ pc = "idle"
  /\ GiveUp(<<late>>)
  /\ Miss(<<{t \in late : missing[t] = "no"}>>, "ended")
  /\ Vanish
  /\ UNCHANGED faults

\* The traces, or the traces counted in minutes, that this process has in memory.
InMinutes == UNION {minutes[m] : m \in Minutes}

InMemory(kind) ==
  CoveredIn(todo, kind)
    \cup (IF req.kind = kind /\ pc = "remove" THEN Covered(req.body) ELSE {})
    \cup (IF kind = "traces" THEN Range(pending) ELSE InMinutes)

Crash ==
  /\ phase # "down"
  /\ Fault("crash")
  /\ GiveUp(<<InMemory("traces") \ CoveredIn(disk, "traces")>>)
  /\ Miss(<<InMemory("aggregates") \ CoveredIn(disk, "aggregates")>>, "ended")
  /\ Vanish

\* The time of s.st.BackoffUntil comes.
BackoffOver ==
  /\ backing
  /\ backing' = FALSE
  /\ UNCHANGED <<procVars, faults, clock, intakeVars, auth, plan, sendVars, countVars,
                 consoleVars, lossVars, bufferVars>>

Next ==
  \/ ClockTick \/ BackoffOver
  \/ \E m \in Minutes \cap {clock - 1, clock}, ship \in BOOLEAN : Observe(m, ship)
  \/ TraceTick \/ AggTick \/ ReplayTick
  \/ Sender \/ KeepFails \/ ReplayUnreadable
  \/ Launch \/ Stop \/ LastFlush \/ Exit \/ Crash

\* A request ends within 30 s and a back-off within minutes.  The select in runSender picks
\* any case that is ready, so each ticker has its turn.
Fairness ==
  /\ WF_vars(Sender)
  /\ WF_vars(ClockTick)
  /\ WF_vars(BackoffOver)
  /\ SF_vars(TraceTick)
  /\ SF_vars(AggTick)
  /\ SF_vars(ReplayTick)
  /\ SF_vars(LastFlush)
  /\ WF_vars(Exit)

Spec == Init /\ [][Next]_vars /\ Fairness

-----------------------------------------------------------------------------
(* Properties *)

\* Records of traces in the process or on its disk, each once.  While the files of a request
\* are removed, those that are gone are still in the request.
Held ==
  Len(pending)
    + TraceRecords(todo)
    + TraceRecords(disk)
    + IF pc = "remove" /\ req.kind = "traces"
        THEN Len(req.body) - Weight(disk, Range(req.files))
        ELSE 0

\* The counters of `phpray status' account for every trace this process has taken to send:
\* it is held, sent, or counted as dropped, through splits, merges, trims and retries.  Once
\* the plan is over, a file of several traces is discarded as one, and the count falls short
\* (sendTraces, replayBuffer, Store, TakeDropped).
Accounted ==
  LET total == sent + dropped + trimmed + Held
  IN  phase # "down" => total <= entered /\ (plan \/ total = entered)

\* The console never counts a request twice: a batch is sent again under the id it had when
\* it may have been accepted, also by the next process, and halves under new ids only if it
\* was not (deliver, sendAggregates, replayBuffer).
AggregatesOnce == \A t \in Traces : counted[t] <= 1

\* The minute that counts a request is at the console, on disk or in memory, or known to be
\* given up.
AggregatesKept ==
  \A t \in 1 .. observed :
    \/ counted[t] > 0
    \/ missing[t] # "no"
    \/ t \in InMemory("aggregates") \cup CoveredIn(disk, "aggregates")

\* So is a trace taken to be sent.
TracesKept ==
  \A t \in 1 .. observed :
    t \in arrived \cup forgone \cup InMemory("traces") \cup CoveredIn(disk, "traces")

\* Nothing is lost but by the ways the code has for it: refused by the console or the disk,
\* trimmed, or in the memory of a process that died; an orderly stop loses only what came after
\* its last flush began.  The limit of the buffer costs no aggregates, and no trace is thought
\* sent that the console took for a duplicate (sendTraces, coalesceTraces, trimLocked, Stop).
\* One of these ways is not meant, and counts here as giving up: see AggregatesSplit.
NothingLost == AggregatesKept /\ TracesKept

\* A batch of several minutes that the console finds too large is sent again in halves and not
\* given up, as ingest-v1.md says of 413 and of aggregates.  Not so in replayBuffer.
AggregatesSplit == \A t \in Traces : missing[t] # "unsplit"

\* Both together: of every request the console hears once, or it is known why not.
DeliveredOnce == AggregatesOnce /\ NothingLost

\* The shipper's own account and that of the console: neither loses a trace or has it twice.
ShippedOnce == Accounted /\ DeliveredOnce

\* A running shipper that is not refused for its key gets rid of all it has: again and again
\* nothing is pending, buffered or overdue.
Drains ==
  []<>(\/ phase # "run"
       \/ auth
       \/ pending = <<>> /\ todo = <<>> /\ DOMAIN disk = {} /\ \A m \in Closed : minutes[m] = {})

=============================================================================
