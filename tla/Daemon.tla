-------------------------------- MODULE Daemon --------------------------------
(***************************************************************************)
(* The collector in serve mode (src/collector/daemon.go, ingest.go): the   *)
(* reader goroutine takes traces from a ring or from the JSONL file, HTTP  *)
(* handlers take them from a client that posts a batch and posts it again  *)
(* when it sees no answer; all put them into one batch that whoever fills  *)
(* it, the ticker, or the main goroutine at shutdown, stores in SQLite.    *)
(* Shutdown waits for the workers and not for the handlers.                *)
(*                                                                         *)
(* A trace is its line number, or for a posted one a number above those.   *)
(***************************************************************************)
EXTENDS JsonlTail

CONSTANTS
  Handlers,    \* HTTP handler goroutines: requests served at a time
  PostSize,    \* traces in the client's batch
  MaxPosts,    \* bound: times the client posts it
  BatchSize,   \* traces that make a batch full
  MaxArrivals, \* bound: records written and posts made, together
  MaxLives,    \* bound: times the collector is started
  Mode,        \* d.cfg.Mode: "auto", "jsonl" or "ring"
  MaxFaults    \* bound: rotations, truncations, partial writes, refused traces,
               \* forgotten batch ids, failed reads and saves, and crashes, together

ASSUME DaemonAssumption ==
  /\ IsFiniteSet(Handlers)
  /\ PostSize \in Nat \ {0}
  /\ MaxPosts \in Nat
  /\ BatchSize \in Nat \ {0}
  /\ MaxArrivals \in Nat
  /\ MaxLives \in Nat \ {0}
  /\ Mode \in {"auto", "jsonl", "ring"}
  /\ MaxFaults \in Nat
  /\ \A g \in {"reader", "ticker", "main"} : g \notin Handlers

Posted  == MaxLines + 1 .. MaxLines + PostSize
Traces  == Lines \cup Posted
Workers == {"reader", "ticker", "main"}
Routines == Workers \cup Handlers

VARIABLES
  phase,     \* the process: "down", "run", "stopping" (done is closed), "final"
  lives,     \* starts so far
  faults,    \* faults so far
  rpc,       \* reader: "open", "top", "read", "eof" in tailJSONL, "ring", or "exited"
  ring,      \* traces waiting in the ring
  batch,     \* d.batch
  flushing,  \* routine -> "no", "swap" or "store" in flushBatch
  hold,      \* routine -> the batch it is storing
  hpc,       \* handler -> "idle", "check", "loop", "reply" in handleIngest
  next,      \* handler -> next trace of the posted batch
  fresh,     \* handler -> FALSE if the answer is that the batch is a duplicate
  seen,      \* a.dedup knows the batch id
  posts,     \* client: posts made
  answer,    \* client: "none", "accepted" or "duplicate"
  db,        \* trace -> rows with it in SQLite
  failed,    \* trace -> times it was counted as failed
  took,      \* history: trace -> times it was put into a batch and not lost since
  upsets     \* history: crashes, and failed reads and saves of files, so far

procVars   == <<phase, lives>>
batchVars  == <<batch, flushing, hold, db, failed>>
ingestVars == <<hpc, next, fresh, seen>>
clientVars == <<posts, answer>>
historyVars == <<took, upsets>>
vars == <<tailVars, procVars, faults, rpc, batchVars, ingestVars, clientVars, ring,
          historyVars>>

TypeOK ==
  /\ TailTypeOK
  /\ phase \in {"down", "run", "stopping", "final"}
  /\ lives \in 0 .. MaxLives
  /\ faults \in 0 .. MaxFaults
  /\ rpc \in {"open", "top", "read", "eof", "ring", "exited"}
  /\ ring \in Seq(Lines)
  /\ batch \in Seq(Traces)
  /\ flushing \in [Routines -> {"no", "swap", "store"}]
  /\ hold \in [Routines -> Seq(Traces)]
  /\ hpc \in [Handlers -> {"idle", "check", "loop", "reply"}]
  /\ next \in [Handlers -> MaxLines + 1 .. MaxLines + PostSize + 1]
  /\ fresh \in [Handlers -> BOOLEAN]
  /\ seen \in BOOLEAN
  /\ posts \in 0 .. MaxPosts
  /\ answer \in {"none", "accepted", "duplicate"}
  /\ db \in [Traces -> Nat]
  /\ failed \in [Traces -> Nat]
  /\ took \in [Traces -> Nat]
  /\ upsets \in 0 .. MaxFaults

Init ==
  /\ TailInit
  /\ phase = "down"
  /\ lives = 0
  /\ faults = 0
  /\ rpc = "exited"
  /\ ring = <<>>
  /\ batch = <<>>
  /\ flushing = [g \in Routines |-> "no"]
  /\ hold = [g \in Routines |-> <<>>]
  /\ hpc = [h \in Handlers |-> "idle"]
  /\ next = [h \in Handlers |-> MaxLines + 1]
  /\ fresh = [h \in Handlers |-> TRUE]
  /\ seen = FALSE
  /\ posts = 0
  /\ answer = "none"
  /\ db = [t \in Traces |-> 0]
  /\ failed = [t \in Traces |-> 0]
  /\ took = [t \in Traces |-> 0]
  /\ upsets = 0

-----------------------------------------------------------------------------
(* The batch *)

\* addToBatch: under the mutex, then a full batch is flushed by whoever filled it.
Add(g, t) ==
  /\ batch' = Append(batch, t)
  /\ took'  = [took EXCEPT ![t] = @ + 1]
  /\ flushing' = IF Len(batch) + 1 >= BatchSize
                   THEN [flushing EXCEPT ![g] = "swap"]
                   ELSE flushing
  /\ UNCHANGED <<hold, db, failed, upsets>>

\* Mutant: the batch is read and emptied under two locks, so that flushers may share it.
TakeAndLeave(g) ==
  /\ flushing[g] = "swap"
  /\ hold' = [hold EXCEPT ![g] = batch]
  /\ flushing' = [flushing EXCEPT ![g] = IF batch = <<>> THEN "no" ELSE "store"]
  /\ UNCHANGED <<batch, db, failed>>

\* flushBatch, under the mutex: take the batch, leave an empty one.
Swap(g) ==
  /\ flushing[g] = "swap"
  /\ hold'  = [hold EXCEPT ![g] = batch]
  /\ batch' = <<>>
  /\ flushing' = [flushing EXCEPT ![g] = IF batch = <<>> THEN "no" ELSE "store"]
  /\ UNCHANGED <<db, failed>>

\* StoreBatch goes on to the next trace whether or not this one was stored.  (The
\* counters are raised after the last trace; nobody decides on them.)
Advance(g) ==
  /\ hold' = [hold EXCEPT ![g] = Tail(@)]
  /\ flushing' = [flushing EXCEPT ![g] = IF Len(hold[g]) = 1 THEN "no" ELSE "store"]
  /\ UNCHANGED batch

\* StoreTrace: one transaction.
Store(g) ==
  /\ flushing[g] = "store"
  /\ Advance(g)
  /\ db' = [db EXCEPT ![Head(hold[g])] = @ + 1]
  /\ UNCHANGED failed

\* The transaction is rolled back: counted, logged and forgotten.
Refuse(g) ==
  /\ flushing[g] = "store"
  /\ Advance(g)
  /\ failed' = [failed EXCEPT ![Head(hold[g])] = @ + 1]
  /\ UNCHANGED db

\* A flush lasts no longer than the process.
Flush(g) ==
  /\ phase # "down"
  /\ \/ (Swap(g) \/ Store(g)) /\ UNCHANGED faults
     \/ Refuse(g) /\ faults < MaxFaults /\ faults' = faults + 1
  /\ UNCHANGED <<tailVars, procVars, rpc, ingestVars, clientVars, ring, historyVars>>

\* Mutant: the ticker leaves a batch alone that is not full.
TickWhenFull ==
  /\ phase = "run"
  /\ flushing["ticker"] = "no"
  /\ Len(batch) >= BatchSize
  /\ flushing' = [flushing EXCEPT !["ticker"] = "swap"]
  /\ UNCHANGED <<tailVars, procVars, faults, rpc, batch, hold, db, failed, ingestVars,
                 clientVars, ring, historyVars>>

\* flushWorker's ticker.
Tick ==
  /\ phase = "run"
  /\ flushing["ticker"] = "no"
  /\ flushing' = [flushing EXCEPT !["ticker"] = "swap"]
  /\ UNCHANGED <<tailVars, procVars, faults, rpc, batch, hold, db, failed, ingestVars,
                 clientVars, ring, historyVars>>

-----------------------------------------------------------------------------
(* The reader *)

Goto(label) == rpc' = label

ReaderAt(label) ==
  /\ phase # "down"
  /\ rpc = label
  /\ flushing["reader"] = "no"

unread == <<procVars, faults, ingestVars, clientVars>>

OpenFile ==
  /\ ReaderAt("open")
  /\ phase = "run"
  /\ OpenPath
  /\ Goto("top")
  /\ UNCHANGED <<unread, batchVars, ring, historyVars>>

\* In ReadString: done was not closed when the loop began.
Reading ==
  \/ ReaderAt("top") /\ phase = "run"
  \/ ReaderAt("read")

FillBuffer ==
  /\ Reading
  /\ Fill
  /\ Goto("read")
  /\ UNCHANGED <<unread, batchVars, ring, historyVars>>

ReadRecord ==
  /\ Reading
  /\ TakeRecord
  /\ Add("reader", buf[1].line)
  /\ Goto("top")
  /\ UNCHANGED <<unread, ring>>

\* tracesFailed is raised, and that is all.
ReadGarbage ==
  /\ Reading
  /\ TakeGarbage
  /\ Goto("top")
  /\ UNCHANGED <<unread, batchVars, ring, historyVars>>

ReachEnd ==
  /\ Reading
  /\ HitEnd
  /\ Goto("eof")
  /\ UNCHANGED <<unread, batchVars, ring, historyVars>>

\* The path is the same file: poll again, and every 10 s save the offset.
PollAgain ==
  /\ ReaderAt("eof")
  /\ phase = "run"
  /\ path = cur
  /\ Save \/ UNCHANGED saved
  /\ Goto("top")
  /\ UNCHANGED <<fileVars, readerVars, pastVars, unread, batchVars, ring, historyVars>>

\* The path is missing: poll again.
PathMissing ==
  /\ ReaderAt("eof")
  /\ phase = "run"
  /\ path = NoFile
  /\ Goto("top")
  /\ UNCHANGED <<tailVars, unread, batchVars, ring, historyVars>>

\* Mutant: the reader stays with the file it has.
RotatedStay ==
  /\ ReaderAt("eof")
  /\ path \notin {cur, NoFile}
  /\ Save
  /\ Goto("top")
  /\ UNCHANGED <<fileVars, readerVars, pastVars, unread, batchVars, ring, historyVars>>

\* The path is another file: tailJSONL returns and is called again.
Rotated ==
  /\ ReaderAt("eof")
  /\ path \notin {cur, NoFile}
  /\ Save
  /\ Goto("open")
  /\ UNCHANGED <<fileVars, readerVars, pastVars, unread, batchVars, ring, historyVars>>

\* Mutant: while the path is missing nobody looks at done.
StopIfThere ==
  /\ phase = "stopping"
  /\ \/ ReaderAt("top") /\ Save
     \/ ReaderAt("eof") /\ path = cur /\ Save
  /\ Goto("exited")
  /\ UNCHANGED <<fileVars, readerVars, pastVars, unread, batchVars, ring, historyVars>>

\* done was closed: save, unless the path is missing.
StopTail ==
  /\ phase = "stopping"
  /\ \/ ReaderAt("top") /\ Save
     \/ ReaderAt("eof") /\ path = cur /\ Save
     \/ ReaderAt("eof") /\ path = NoFile /\ UNCHANGED saved
  /\ Goto("exited")
  /\ UNCHANGED <<fileVars, readerVars, pastVars, unread, batchVars, ring, historyVars>>

\* jsonlWorker, and autoWorker without a ring: while the file cannot be opened, or before it
\* is opened again.
StopClosed ==
  /\ phase = "stopping"
  /\ ReaderAt("open")
  /\ Goto("exited")
  /\ UNCHANGED <<tailVars, unread, batchVars, ring, historyVars>>

\* ringWorker between two rounds of drainRing; what is in the ring stays there.
StopRing ==
  /\ phase = "stopping"
  /\ ReaderAt("ring")
  /\ Goto("exited")
  /\ UNCHANGED <<tailVars, unread, batchVars, ring, historyVars>>

\* drainRing takes the next record.  (What a ring does is the module RingBuffer.)
DrainRing ==
  /\ ReaderAt("ring")
  /\ ring # <<>>
  /\ ring' = Tail(ring)
  /\ Add("reader", Head(ring))
  /\ UNCHANGED <<tailVars, unread, rpc>>

\* What makes the reader come to lines again that it has taken.
Upset ==
  /\ faults < MaxFaults
  /\ faults' = faults + 1
  /\ upsets' = upsets + 1

upsetting == <<procVars, ingestVars, clientVars, batchVars, ring, took>>

\* A read that fails other than at the end: tailJSONL returns without saving, with what was in
\* its buffer lost, and is called again 5 s later.
ReadFails ==
  /\ Reading
  /\ ~HasLine
  /\ Upset
  /\ Close
  /\ Goto("open")
  /\ UNCHANGED <<fileVars, saved, pastVars, upsetting>>

\* saveState does not look at the error of os.WriteFile, which truncates the file first, and
\* the reader goes on as after PollAgain, Rotated and StopTail.
SaveFails ==
  /\ \/ ReaderAt("eof") /\ phase = "run" /\ path = cur /\ Goto("top")
     \/ ReaderAt("eof") /\ path \notin {cur, NoFile} /\ Goto("open")
     \/ /\ phase = "stopping"
        /\ ReaderAt("top") \/ (ReaderAt("eof") /\ path = cur)
        /\ Goto("exited")
  /\ Upset
  /\ saved' \in {saved, NotSaved}
  /\ UNCHANGED <<fileVars, readerVars, pastVars, upsetting>>

\* loadState does not look at the error of os.ReadFile: the file is read from its start.
LoadFails ==
  /\ ReaderAt("open")
  /\ phase = "run"
  /\ Upset
  /\ OpenAt(0)
  /\ Goto("top")
  /\ UNCHANGED upsetting

Trouble == ReadFails \/ SaveFails \/ LoadFails

Reader ==
  \/ OpenFile \/ FillBuffer \/ ReadRecord \/ ReadGarbage \/ ReachEnd
  \/ PollAgain \/ PathMissing \/ Rotated \/ StopTail \/ StopClosed \/ StopRing \/ DrainRing

-----------------------------------------------------------------------------
(* handleIngest *)

HandlerAt(h, label) ==
  /\ phase # "down"
  /\ hpc[h] = label
  /\ flushing[h] = "no"

Expected == begun + posts < MaxArrivals

unserved == <<tailVars, procVars, faults, rpc, ring>>

\* The client posts the batch, again if it has seen no answer.
Post(h) ==
  /\ HandlerAt(h, "idle")
  /\ answer = "none"
  /\ posts < MaxPosts
  /\ Expected
  /\ posts' = posts + 1
  /\ hpc'  = [hpc EXCEPT ![h] = "check"]
  /\ next' = [next EXCEPT ![h] = MaxLines + 1]
  /\ UNCHANGED <<unserved, batchVars, fresh, seen, answer, historyVars>>

\* Mutant: the id is looked up and not recorded.
LookUpOnly(h) ==
  /\ HandlerAt(h, "check")
  /\ fresh' = [fresh EXCEPT ![h] = ~seen]
  /\ hpc'   = [hpc EXCEPT ![h] = IF seen THEN "reply" ELSE "loop"]
  /\ UNCHANGED <<unserved, batchVars, next, seen, clientVars, historyVars>>

\* batchDedup.Seen: looked up and recorded in one critical section, before any trace of
\* the batch is taken.
CheckSeen(h) ==
  /\ HandlerAt(h, "check")
  /\ seen'  = TRUE
  /\ fresh' = [fresh EXCEPT ![h] = ~seen]
  /\ hpc'   = [hpc EXCEPT ![h] = IF seen THEN "reply" ELSE "loop"]
  /\ UNCHANGED <<unserved, batchVars, next, clientVars, historyVars>>

\* Mutant: one trace more than the batch has.
IngestBeyond(h) ==
  /\ HandlerAt(h, "loop")
  /\ Add(h, next[h])
  /\ next' = [next EXCEPT ![h] = @ + 1]
  /\ UNCHANGED <<unserved, hpc, fresh, seen, clientVars>>

IngestNext(h) ==
  /\ HandlerAt(h, "loop")
  /\ next[h] \in Posted
  /\ Add(h, next[h])
  /\ next' = [next EXCEPT ![h] = @ + 1]
  /\ UNCHANGED <<unserved, hpc, fresh, seen, clientVars>>

IngestDone(h) ==
  /\ HandlerAt(h, "loop")
  /\ next[h] \notin Posted
  /\ hpc' = [hpc EXCEPT ![h] = "reply"]
  /\ UNCHANGED <<unserved, batchVars, next, fresh, seen, clientVars, historyVars>>

\* 202; the client may be gone or the answer lost.
Reply(h) ==
  /\ HandlerAt(h, "reply")
  /\ hpc' = [hpc EXCEPT ![h] = "idle"]
  /\ \/ answer' = IF fresh[h] THEN "accepted" ELSE "duplicate"
     \/ UNCHANGED answer
  /\ UNCHANGED <<unserved, batchVars, next, fresh, seen, posts, historyVars>>

\* Too many ids, or 24 h have passed: the memory of the batch is gone.
Forget ==
  /\ seen
  /\ faults < MaxFaults
  /\ faults' = faults + 1
  /\ seen' = FALSE
  /\ UNCHANGED <<tailVars, procVars, rpc, ring, batchVars, hpc, next, fresh,
                 clientVars, historyVars>>

Handler(h) == CheckSeen(h) \/ IngestNext(h) \/ IngestDone(h) \/ Reply(h)

-----------------------------------------------------------------------------
(* The process *)

\* startReader: in auto mode the ring if there is one now, else the file from now on.
FirstStep ==
  CASE Mode = "auto"  -> {"ring", "open"}
    [] Mode = "ring"  -> {"ring"}
    [] Mode = "jsonl" -> {"open"}

Launch ==
  /\ phase = "down"
  /\ lives < MaxLives
  /\ phase' = "run"
  /\ lives' = lives + 1
  /\ rpc' \in FirstStep
  /\ UNCHANGED <<tailVars, faults, batchVars, ingestVars, clientVars, ring, historyVars>>

\* SIGTERM: close(done).
Terminate ==
  /\ phase = "run"
  /\ phase' = "stopping"
  /\ UNCHANGED <<tailVars, lives, faults, rpc, batchVars, ingestVars, clientVars, ring,
                 historyVars>>

\* Mutant: the last flush is not waited for the reader.
WorkersGoneUnread == flushing["ticker"] = "no"

WorkersGone ==
  /\ rpc = "exited"
  /\ \A g \in {"reader", "ticker"} : flushing[g] = "no"

\* d.wg.Wait returned: the last flush.
LastFlush ==
  /\ phase = "stopping"
  /\ WorkersGone
  /\ phase' = "final"
  /\ flushing' = [flushing EXCEPT !["main"] = "swap"]
  /\ UNCHANGED <<tailVars, lives, faults, rpc, batch, hold, db, failed, ingestVars,
                 clientVars, ring, historyVars>>

\* Memory is lost; what was in it is no longer counted as taken.
Vanish ==
  /\ phase' = "down"
  /\ batch' = <<>>
  /\ flushing' = [g \in Routines |-> "no"]
  /\ hold' = [g \in Routines |-> <<>>]
  /\ hpc'  = [h \in Handlers |-> "idle"]
  /\ next' = [h \in Handlers |-> MaxLines + 1]
  /\ fresh' = [h \in Handlers |-> TRUE]
  /\ seen' = FALSE
  /\ took' = [t \in Traces |-> db[t] + failed[t]]
  /\ Close
  /\ Goto("exited")
  /\ UNCHANGED <<fileVars, pastVars, lives, db, failed, clientVars, ring>>

Exit ==
  /\ phase = "final"
  /\ flushing["main"] = "no"
  /\ Vanish
  /\ UNCHANGED <<saved, faults, upsets>>

\* os.WriteFile truncates the state file before it writes it.
Saving == rpc \in {"top", "eof"} /\ phase \in {"run", "stopping"}

Crash ==
  /\ phase # "down"
  /\ Upset
  /\ (UNCHANGED saved \/ (Saving /\ saved' = NotSaved))
  /\ Vanish

-----------------------------------------------------------------------------
(* The PHP workers and the administrator *)

outside == <<procVars, rpc, batchVars, ingestVars, clientVars, historyVars>>

Write(w) ==
  /\ \/ Expected /\ WriteLine(w) /\ UNCHANGED faults
     \/ Expected /\ WriteStart(w) /\ faults < MaxFaults /\ faults' = faults + 1
     \/ WriteRest(w) /\ UNCHANGED faults
     \/ Quit(w) /\ UNCHANGED faults
  /\ UNCHANGED <<readerVars, saved, pastVars, outside, ring>>

Disturb ==
  /\ Rotate \/ Truncate
  /\ faults < MaxFaults
  /\ faults' = faults + 1
  /\ UNCHANGED <<readerVars, saved, pastVars, outside, ring>>

WriteRing ==
  /\ Mode # "jsonl"
  /\ Expected
  /\ begun < MaxLines
  /\ begun' = begun + 1
  /\ ring' = Append(ring, begun + 1)
  /\ UNCHANGED <<files, path, made, fd, half, truncated, readerVars, saved, pastVars,
                 faults, outside>>

Next ==
  \/ Launch \/ Terminate \/ LastFlush \/ Exit \/ Crash
  \/ Reader \/ Trouble \/ Tick
  \/ \E g \in Routines : Flush(g)
  \/ \E h \in Handlers : Post(h) \/ Handler(h)
  \/ Forget
  \/ \E w \in Writers : Write(w)
  \/ Disturb \/ WriteRing

\* The goroutines of a running process keep running and the ticker ticks.
Fairness ==
  /\ WF_vars(Reader)
  /\ WF_vars(Tick)
  /\ WF_vars(LastFlush \/ Exit)
  /\ \A g \in Routines : WF_vars(Flush(g))
  /\ \A h \in Handlers : WF_vars(Handler(h))

Spec == Init /\ [][Next]_vars /\ Fairness

-----------------------------------------------------------------------------
(* Properties *)

\* Where the reader is in its file, less what it has not consumed.
Consumed == pos - Len(buf)

\* A record ends at offset k of the open file as the reader divided it into lines: a line
\* begins where reading began, after a newline, and where a line was thrown away.
RecordEndsAt(k) ==
  LET text == files[cur]
  IN  /\ k - 1 > from
      /\ text[k].ends
      /\ text[k - 1] = Start(text[k].line)
      /\ k - 1 \notin cuts
      /\ k - 2 = from \/ k - 2 \in cuts \/ text[k - 2].ends

RecordEnds == {k \in 2 .. Consumed : RecordEndsAt(k)}

\* Between where it began and where it is, the reader has handed on every record that stands
\* on a line, once and in the order of the file, whatever was appended while it looked for
\* more (tailJSONL).  Not claimed of a file that was truncated under it.
HandsOnWhatItPassed ==
  cur # NoFile /\ cur \notin truncated =>
    /\ Len(handed) = Cardinality(RecordEnds)
    /\ \A a \in 1 .. Len(handed) :
         \E k \in RecordEnds :
           /\ files[cur][k].line = handed[a]
           /\ Cardinality({j \in RecordEnds : j < k}) = a - 1

\* What a restart passes over without ever having handed it on is what the reader had read
\* ahead when it saved its offset, and lines it had thrown away for want of their end; a
\* resumed offset never belongs to another file (loadState, saveState).
ResumeSkipsReadAhead == truncated = {} => skipped \subseteq aheads \cup mangled

\* Both together: what the reader does not hand on, it had read ahead or cut in two (tailJSONL,
\* saveState, loadState).
ReaderExact == HandsOnWhatItPassed /\ ResumeSkipsReadAhead

\* How often the trace t is in the sequence s.
Places(s, t) == {k \in 1 .. Len(s) : s[k] = t}
Count(s, t) == Cardinality(Places(s, t))

\* The same in the batches that are being stored.
Held(t) == Cardinality(UNION {{g} \X Places(hold[g], t) : g \in Routines})

\* Each trace that was taken is in exactly one place: the current batch, one routine's batch,
\* the database or the count of failures; flushes that race for a batch neither share it nor
\* lose it (addToBatch, flushBatch).
Conserved == \A t \in Traces : took[t] = Count(batch, t) + Held(t) + db[t] + failed[t]

\* When the process exits in good order, what the workers took is stored or counted: left in
\* memory is only what a request handler is storing or has added since (cmdServe).
StopLeavesOnlyHandlers ==
  phase = "final" /\ flushing["main"] = "no" =>
    /\ \A g \in Workers : hold[g] = <<>>
    /\ \A k \in 1 .. Len(batch) : batch[k] \in Posted

\* A line is read again only after a crash, or after a file could not be read or written.
LinesOnce == upsets = 0 => \A n \in Lines : took[n] <= 1

\* A batch that is posted again is not taken again by the process that took it.
PostedOnce == faults = upsets => \A t \in Posted : took[t] <= lives

\* Rotation, orderly restarts, lost answers and failures make no trace enter twice: not a line
\* by the offset that is saved and resumed from, not a posted batch by a retry, also while the
\* first post is still being served (saveState, loadState, batchDedup.Seen).
TakenOnce == LinesOnce /\ PostedOnce

\* Both together: a trace enters once and from then on is in one place.
EachTraceOnce == TakenOnce /\ Conserved

InMemory(t) == took[t] > db[t] + failed[t]

\* No trace stays in memory: again and again there is none, because each was stored or counted
\* as failed, or the process ended (flushWorker).  There are finitely many traces.
Settles == []<>(\A t \in Traces : ~InMemory(t))

\* SIGTERM ends the process, whatever the workers and handlers are doing.
Stops == []<>(phase \notin {"stopping", "final"})

\* Both together: neither a trace nor a process that was told to stop is left waiting.
NothingWaits == Settles /\ Stops

\* A record that stands in the file the path names and is still to be read.
Waiting(n) ==
  /\ phase = "run"
  /\ rpc # "ring"
  /\ path # NoFile
  /\ path \notin truncated
  /\ \E k \in 2 .. Len(files[path]) : WholeAt(path, k) /\ files[path][k].line = n
  /\ n \notin ever \cup skipped \cup mangled

\* The reader keeps up: what stands in the file is handed on, unless the process is told to
\* stop or the file is moved away or cut.
Followed == []<>(\A n \in Lines : ~Waiting(n))

=============================================================================
