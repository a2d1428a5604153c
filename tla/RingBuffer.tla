----------------------------- MODULE RingBuffer -----------------------------
(***************************************************************************)
(* The shared-memory ring between the PHP workers (many writers,           *)
(* src/extension/ringbuffer.c) and the collector (one reader,              *)
(* src/collector/ringbuffer.go).                                           *)
(*                                                                         *)
(* A writer claims space with a compare-and-swap on write_pos and then     *)
(* publishes in stages: type RESERVED, length, payload, real type.  The    *)
(* reader zeroes the header of what it consumed and then moves read_pos,   *)
(* which is what hands the space back.  Every atomic access that another   *)
(* process can observe is a step of its own.                               *)
(*                                                                         *)
(* Unit of space: one 8-byte word.  Record totals are rounded up to 8 and  *)
(* the capacity is a multiple of 64, so every position is a whole word and *)
(* a tail shorter than the 5-byte header cannot occur (ringbuffer.c:432,   *)
(* ringbuffer.go:166 are unreachable and have no action here).             *)
(***************************************************************************)
EXTENDS Naturals, Sequences, FiniteSets

CONSTANTS
  Writers,       \* the PHP worker processes
  Cap,           \* capacity of the data region, in words
  Sizes,         \* padded record sizes a worker may write, in words
  MaxWrites,     \* bound: calls of phpray_ring_write in a behaviour
  MaxLead,       \* how far an older collector left read_pos ahead, in words
  MayDie,        \* whether a worker may be killed inside phpray_ring_write
  MaxCrashes,    \* bound: collector crashes
  PromptWriters  \* whether a live writer always finishes within the 2 s
                 \* after which the reader abandons a slot

ASSUME RingAssumption ==
  /\ Cap \in Nat \ {0}
  /\ Sizes \subseteq Nat \ {0} /\ IsFiniteSet(Sizes)
  /\ MaxWrites \in Nat
  /\ MaxLead \in Nat
  /\ MaxCrashes \in Nat
  /\ MayDie \in BOOLEAN
  /\ PromptWriters \in BOOLEAN

(* Header lengths beyond 0..Cap.  Over: a length above the capacity.       *)
(* Short: 1..4 bytes, less than the header itself.  Junk marks a word whose *)
(* length field holds payload bytes: reading it may give any length.       *)
Over  == Cap + 1
Short == Cap + 2
Junk  == Cap + 3

HeaderTypes == {"trace", "padding", "reserved"}

(* A word as a header would be read there: its length, its type, and the   *)
(* claim that last copied payload into the word (0: none).                 *)
Word == [len : 0 .. Junk, type : HeaderTypes \cup {"junk"}, id : Nat]

ZeroWord == [len |-> 0, type |-> "trace", id |-> 0]

Free   == {"idle", "dead"}
Asking == {"loadWrite", "loadRead", "decide"}
Owning == {"padType", "padLen", "pubType", "pubLen", "copy", "commit"}

Reading == {"idle", "repair", "loadLen", "loadType", "parse", "clear", "clearLen", "advance"}

\* A claim: the words from start on, and what became of them.
Slot == [start : Nat, size : Nat, kind : {"record", "padding"},
         state : {"open", "done", "dead", "lost"}]

\* inverted: the ring was handed over with read_pos ahead.  payload: a length was
\* read out of payload bytes.  offBoundary: read_pos is inside a claim.  cut: the
\* collector died between clearing a header and moving read_pos.
Damages == {"inverted", "payload", "offBoundary", "cut"}

VARIABLES
  writePos,      \* header.write_pos
  readPos,       \* header.read_pos
  recordCount,   \* header.record_count
  dropCount,     \* header.drop_count
  mem,           \* the data region
  wpc,           \* where each writer is in phpray_ring_write
  wSize,         \* its padded_total
  wWp,           \* its loaded write_pos
  wRp,           \* its loaded read_pos
  wSlot,         \* the claim it is filling: an index in slots, 0 for none
  rpc,           \* where the reader is in ReadRecord
  rRp,           \* its loaded read position
  rWp,           \* its loaded write position
  rLen,          \* the length it read
  rType,         \* the type it read
  rTo,           \* the position it is about to move to
  rRec,          \* what it is about to return: <<claim>>, <<0>> or << >>
  stuckAt,       \* czekaPoz while czekaOd is set: <<position>> or << >>
  overdue,       \* utkniecieSlotu has passed since czekaOd
  slots,         \* history: every claim, in claim order
  delivered,     \* history: what ReadRecord returned, 0 for a phantom
  damage,        \* history: how the reader lost the record boundaries
  writes,        \* bound counter of phpray_ring_write calls
  crashes        \* bound counter of collector crashes

shared == <<writePos, readPos, recordCount, dropCount, mem>>
wvars  == <<wpc, wSize, wWp, wRp, wSlot>>
rvars  == <<rpc, rRp, rWp, rLen, rType, rTo, rRec, stuckAt, overdue>>
hvars  == <<slots, delivered, damage, writes, crashes>>
vars   == <<shared, wvars, rvars, hvars>>

Off(p) == p % Cap

Init ==
  /\ writePos = 0
  /\ readPos \in 0 .. MaxLead
  /\ recordCount = 0
  /\ dropCount = 0
  /\ mem = [i \in 0 .. Cap - 1 |-> ZeroWord]
  /\ wpc = [w \in Writers |-> "idle"]
  /\ wSize = [w \in Writers |-> 0]
  /\ wWp = [w \in Writers |-> 0]
  /\ wRp = [w \in Writers |-> 0]
  /\ wSlot = [w \in Writers |-> 0]
  /\ rpc = "idle"
  /\ rRp = 0
  /\ rWp = 0
  /\ rLen = 0
  /\ rType = "trace"
  /\ rTo = 0
  /\ rRec = << >>
  /\ stuckAt = << >>
  /\ overdue = FALSE
  /\ slots = << >>
  /\ delivered = << >>
  /\ damage = IF readPos = 0 THEN {} ELSE {"inverted"}
  /\ writes = 0
  /\ crashes = 0

-----------------------------------------------------------------------------
(* The writer: phpray_ring_write.                                          *)

\* phpray_ring_used: an inverted pair of positions counts as an empty ring.
Used(wp, rp) == IF wp >= rp THEN wp - rp ELSE 0

\* Mutated form: room is left for nothing but the padding header.
FullIgnoringSize(w) == Used(wWp[w], wRp[w]) >= Cap

\* used + padded_total + 5 > capacity, in whole words.
Full(w) == Used(wWp[w], wRp[w]) + wSize[w] >= Cap

TailOf(w) == Cap - Off(wWp[w])

NeedsPadding(w) == TailOf(w) < wSize[w]

\* The record must still fit once the tail has been given up to padding.
PaddedFull(w) == Used(wWp[w] + TailOf(w), wRp[w]) + wSize[w] > Cap

Dropping(w) == Full(w) \/ (NeedsPadding(w) /\ PaddedFull(w))

\* phpray_ring_write returns: its stack is gone.
Return(w, pc) ==
  /\ wpc' = [wpc EXCEPT ![w] = pc]
  /\ wSize' = [wSize EXCEPT ![w] = 0]
  /\ wWp' = [wWp EXCEPT ![w] = 0]
  /\ wRp' = [wRp EXCEPT ![w] = 0]
  /\ wSlot' = [wSlot EXCEPT ![w] = 0]

WriterAt(w, from, to) ==
  /\ wpc[w] = from
  /\ wpc' = [wpc EXCEPT ![w] = to]

Begin(w) ==
  /\ writes < MaxWrites
  /\ WriterAt(w, "idle", "loadWrite")
  /\ \E n \in Sizes : wSize' = [wSize EXCEPT ![w] = n]
  /\ writes' = writes + 1
  /\ UNCHANGED <<shared, wWp, wRp, wSlot, rvars, slots, delivered, damage, crashes>>

LoadWritePos(w) ==
  /\ WriterAt(w, "loadWrite", "loadRead")
  /\ wWp' = [wWp EXCEPT ![w] = writePos]
  /\ UNCHANGED <<shared, wSize, wRp, wSlot, rvars, hvars>>

LoadReadPos(w) ==
  /\ WriterAt(w, "loadRead", "decide")
  /\ wRp' = [wRp EXCEPT ![w] = readPos]
  /\ UNCHANGED <<shared, wSize, wWp, wSlot, rvars, hvars>>

\* Buffer full: the record is dropped and counted.
Drop(w) ==
  /\ wpc[w] = "decide"
  /\ Dropping(w)
  /\ dropCount' = dropCount + 1
  /\ Return(w, "idle")
  /\ UNCHANGED <<writePos, readPos, recordCount, mem, rvars, hvars>>

\* The compare-and-swap fails: another writer claimed in between.
CasFails(w) ==
  /\ ~Dropping(w)
  /\ writePos # wWp[w]
  /\ WriterAt(w, "decide", "loadWrite")
  /\ UNCHANGED <<shared, wSize, wWp, wRp, wSlot, rvars, hvars>>

\* Mutated form: a plain store, whoever claimed since the load.
ClaimByStore(w, n, kind) ==
  /\ writePos' = wWp[w] + n
  /\ slots' = Append(slots, [start |-> wWp[w], size |-> n, kind |-> kind, state |-> "open"])
  /\ wSlot' = [wSlot EXCEPT ![w] = Len(slots) + 1]

\* The compare-and-swap on write_pos succeeds: [write_pos, write_pos + n) is ours.
Claim(w, n, kind) ==
  /\ writePos = wWp[w]
  /\ writePos' = writePos + n
  /\ slots' = Append(slots, [start |-> writePos, size |-> n, kind |-> kind, state |-> "open"])
  /\ wSlot' = [wSlot EXCEPT ![w] = Len(slots) + 1]

ClaimPadding(w) ==
  /\ ~Dropping(w)
  /\ NeedsPadding(w)
  /\ Claim(w, TailOf(w), "padding")
  /\ WriterAt(w, "decide", "padType")
  /\ UNCHANGED <<readPos, recordCount, dropCount, mem, wSize, wWp, wRp, rvars,
                 delivered, damage, writes, crashes>>

ClaimRecord(w) ==
  /\ ~Dropping(w)
  /\ ~NeedsPadding(w)
  /\ Claim(w, wSize[w], "record")
  /\ WriterAt(w, "decide", "pubType")
  /\ UNCHANGED <<readPos, recordCount, dropCount, mem, wSize, wWp, wRp, rvars,
                 delivered, damage, writes, crashes>>

\* phpray_publish_header: the type first, then the length with release.
StoreType(w, type) == mem' = [mem EXCEPT ![Off(wWp[w])].type = type]
StoreLen(w, n)     == mem' = [mem EXCEPT ![Off(wWp[w])].len = n]

Finish(w) == slots' = [slots EXCEPT ![wSlot[w]].state = "done"]

PadType(w) ==
  /\ WriterAt(w, "padType", "padLen")
  /\ StoreType(w, "padding")
  /\ UNCHANGED <<writePos, readPos, recordCount, dropCount, wSize, wWp, wRp, wSlot,
                 rvars, hvars>>

\* Mutated form: the padding is given the new write position for a length.
PadLenOfPosition(w) ==
  /\ WriterAt(w, "padLen", "loadWrite")
  /\ StoreLen(w, wWp[w] + TailOf(w))
  /\ Finish(w)
  /\ wSlot' = [wSlot EXCEPT ![w] = 0]
  /\ UNCHANGED <<writePos, readPos, recordCount, dropCount, wSize, wWp, wRp, rvars,
                 delivered, damage, writes, crashes>>

\* Mutated form: the padding is given the length of the record that did not fit.
PadLenOfRecord(w) ==
  /\ WriterAt(w, "padLen", "loadWrite")
  /\ StoreLen(w, wSize[w])
  /\ Finish(w)
  /\ wSlot' = [wSlot EXCEPT ![w] = 0]
  /\ UNCHANGED <<writePos, readPos, recordCount, dropCount, wSize, wWp, wRp, rvars,
                 delivered, damage, writes, crashes>>

\* The padding is published; the loop starts over for the record itself.
PadLen(w) ==
  /\ WriterAt(w, "padLen", "loadWrite")
  /\ StoreLen(w, TailOf(w))
  /\ Finish(w)
  /\ wSlot' = [wSlot EXCEPT ![w] = 0]
  /\ UNCHANGED <<writePos, readPos, recordCount, dropCount, wSize, wWp, wRp, rvars,
                 delivered, damage, writes, crashes>>

\* Mutated form: the real type at once, as before 0.15.
PubTypeEarly(w) ==
  /\ WriterAt(w, "pubType", "pubLen")
  /\ StoreType(w, "trace")
  /\ UNCHANGED <<writePos, readPos, recordCount, dropCount, wSize, wWp, wRp, wSlot,
                 rvars, hvars>>

PubType(w) ==
  /\ WriterAt(w, "pubType", "pubLen")
  /\ StoreType(w, "reserved")
  /\ UNCHANGED <<writePos, readPos, recordCount, dropCount, wSize, wWp, wRp, wSlot,
                 rvars, hvars>>

PubLen(w) ==
  /\ WriterAt(w, "pubLen", "copy")
  /\ StoreLen(w, wSize[w])
  /\ UNCHANGED <<writePos, readPos, recordCount, dropCount, wSize, wWp, wRp, wSlot,
                 rvars, hvars>>

\* memcpy of the payload behind the header, and zeroing of the alignment bytes.
Copy(w) ==
  /\ WriterAt(w, "copy", "commit")
  /\ LET o == Off(wWp[w])
     IN  mem' = [i \in 0 .. Cap - 1 |->
                   IF i = o THEN [mem[i] EXCEPT !.id = wSlot[w]]
                   ELSE IF i > o /\ i < o + wSize[w]
                        THEN [len |-> Junk, type |-> "junk", id |-> wSlot[w]]
                        ELSE mem[i]]
  /\ UNCHANGED <<writePos, readPos, recordCount, dropCount, wSize, wWp, wRp, wSlot,
                 rvars, hvars>>

\* The real type, with release: this is the publication.  Then the statistics.
Commit(w) ==
  /\ wpc[w] = "commit"
  /\ StoreType(w, "trace")
  /\ Finish(w)
  /\ recordCount' = recordCount + 1
  /\ Return(w, "idle")
  /\ UNCHANGED <<writePos, readPos, dropCount, rvars, delivered, damage, writes, crashes>>

\* The PHP process is killed inside the call (fatal, OOM killer, SIGKILL).  A slot
\* whose header was not complete by then is lost: nobody knows its length.
Die(w) ==
  /\ MayDie
  /\ wpc[w] \notin Free
  /\ slots' = IF wpc[w] \notin Owning THEN slots
              ELSE [slots EXCEPT ![wSlot[w]].state =
                      IF wpc[w] \in {"copy", "commit"} THEN "dead" ELSE "lost"]
  /\ Return(w, "dead")
  /\ UNCHANGED <<shared, rvars, delivered, damage, writes, crashes>>

WriterStep(w) ==
  \/ LoadWritePos(w) \/ LoadReadPos(w) \/ Drop(w) \/ CasFails(w)
  \/ ClaimPadding(w) \/ ClaimRecord(w) \/ PadType(w) \/ PadLen(w)
  \/ PubType(w) \/ PubLen(w) \/ Copy(w) \/ Commit(w)

-----------------------------------------------------------------------------
(* The reader: ReadRecord of the collector, called in a loop by drainRing. *)

ReaderAt(from, to) ==
  /\ rpc = from
  /\ rpc' = to

\* What an atomic load of a header field may return: a payload byte is any byte.
LenAt(p)  == IF mem[Off(p)].len = Junk THEN 0 .. Short ELSE {mem[Off(p)].len}
TypeAt(p) == IF mem[Off(p)].type = "junk" THEN HeaderTypes ELSE {mem[Off(p)].type}

\* The length in words, rounded up as (len + 7) & ^7.
PaddedLen == IF rLen = Short THEN 1 ELSE rLen

\* Mutated form: a known length is taken for a finished record.
UnfinishedByLength == rLen = 0

\* Not published yet: nothing may be read here.
Unfinished == rLen = 0 \/ rType = "reserved"

\* A writer that is alive and prompt fills its slot well within utkniecieSlotu.
NobodyFills(p) == \A w \in Writers : wpc[w] \in Owning => slots[wSlot[w]].start # p

\* ReadRecord returns or starts its loop over: what it had loaded is void.
Leave ==
  /\ rpc' = "idle"
  /\ rRp' = 0
  /\ rWp' = 0
  /\ rLen' = 0
  /\ rType' = "trace"
  /\ rTo' = 0
  /\ rRec' = << >>

\* Mutated form: a read position that is ahead counts as "no data".
LoadPositionsIgnoringInversion ==
  /\ rpc = "idle"
  /\ readPos < writePos
  /\ rRp' = readPos
  /\ rWp' = writePos
  /\ rpc' = "loadLen"
  /\ UNCHANGED <<shared, wvars, rLen, rType, rTo, rRec, stuckAt, overdue, hvars>>

\* Both positions are loaded; only this process ever stores readPos.  With equal
\* positions ReadRecord returns at once, having changed nothing.
LoadPositions ==
  /\ rpc = "idle"
  /\ readPos # writePos
  /\ rRp' = readPos
  /\ rWp' = writePos
  /\ rpc' = IF readPos > writePos THEN "repair" ELSE "loadLen"
  /\ UNCHANGED <<shared, wvars, rLen, rType, rTo, rRec, stuckAt, overdue, hvars>>

\* readPos > writePos: level the positions (to the write position loaded before).
Repair ==
  /\ rpc = "repair"
  /\ readPos' = rWp
  /\ Leave
  /\ UNCHANGED <<writePos, recordCount, dropCount, mem, wvars, stuckAt, overdue, hvars>>

LoadLen ==
  /\ ReaderAt("loadLen", "loadType")
  /\ rLen' \in LenAt(rRp)
  /\ damage' = IF mem[Off(rRp)].len = Junk THEN damage \cup {"payload"} ELSE damage
  /\ UNCHANGED <<shared, wvars, rRp, rWp, rType, rTo, rRec, stuckAt, overdue, slots,
                 delivered, writes, crashes>>

LoadType ==
  /\ ReaderAt("loadType", "parse")
  /\ rType' \in TypeAt(rRp)
  /\ UNCHANGED <<shared, wvars, rRp, rWp, rLen, rTo, rRec, stuckAt, overdue, hvars>>

\* utknal is false: remember the position, come back later.
Wait ==
  /\ rpc = "parse"
  /\ Unfinished
  /\ stuckAt # <<rRp>> \/ ~overdue
  /\ stuckAt' = <<rRp>>
  /\ overdue' = FALSE
  /\ Leave
  /\ UNCHANGED <<shared, wvars, hvars>>

\* The clock, between two polls.
TimeOut ==
  /\ rpc = "idle"
  /\ stuckAt # << >>
  /\ ~overdue
  /\ PromptWriters => NobodyFills(stuckAt[1])
  /\ overdue' = TRUE
  /\ UNCHANGED <<shared, wvars, rpc, rRp, rWp, rLen, rType, rTo, rRec, stuckAt, hvars>>

\* Mutated form: the header of the dead slot is cleared, the position stays.
AbandonInPlace ==
  /\ Unfinished
  /\ stuckAt = <<rRp>>
  /\ overdue
  /\ ReaderAt("parse", "clear")
  /\ rTo' = rRp
  /\ stuckAt' = << >>
  /\ overdue' = FALSE
  /\ UNCHANGED <<shared, wvars, rRp, rWp, rLen, rType, rRec, hvars>>

\* utknal is true: skip the slot if its length is known, one word otherwise.
Abandon ==
  /\ Unfinished
  /\ stuckAt = <<rRp>>
  /\ overdue
  /\ ReaderAt("parse", "clear")
  /\ rTo' = rRp + (IF rLen \in {0, Over} THEN 1 ELSE PaddedLen)
  /\ stuckAt' = << >>
  /\ overdue' = FALSE
  /\ UNCHANGED <<shared, wvars, rRp, rWp, rLen, rType, rRec, hvars>>

\* A length above the capacity: skip one word, leaving the header alone.
SkipCorrupt ==
  /\ ~Unfinished
  /\ rLen = Over
  /\ ReaderAt("parse", "advance")
  /\ rTo' = rRp + 1
  /\ stuckAt' = << >>
  /\ overdue' = FALSE
  /\ UNCHANGED <<shared, wvars, rRp, rWp, rLen, rType, rRec, hvars>>

SkipPadding ==
  /\ ~Unfinished
  /\ rLen # Over
  /\ rType = "padding"
  /\ ReaderAt("parse", "clear")
  /\ rTo' = rRp + PaddedLen
  /\ stuckAt' = << >>
  /\ overdue' = FALSE
  /\ UNCHANGED <<shared, wvars, rRp, rWp, rLen, rType, rRec, hvars>>

\* dataAt slices the mapping: a record that ends behind it is out of range, and so
\* is a length below 5, whose payload length wraps around to nearly 2^32.
OutOfRange == rLen = Short \/ Off(rRp) + PaddedLen > Cap

\* The claim whose complete record these words are, 0 if they are none.
RecordAt(p, n) ==
  LET whole == {i \in 1 .. Len(slots) :
                  /\ slots[i].start = p
                  /\ slots[i].size = n
                  /\ slots[i].kind = "record"
                  /\ \A k \in 0 .. n - 1 : mem[Off(p) + k].id = i}
  IN  IF whole = {} THEN 0 ELSE CHOOSE i \in whole : TRUE

\* The payload is copied.  drainRing passes over records that are not traces.
CopyPayload ==
  /\ ~Unfinished
  /\ rLen # Over
  /\ rType # "padding"
  /\ ~OutOfRange
  /\ ReaderAt("parse", "clear")
  /\ rTo' = rRp + PaddedLen
  /\ rRec' = IF rType = "trace" THEN <<RecordAt(rRp, rLen)>> ELSE << >>
  /\ stuckAt' = << >>
  /\ overdue' = FALSE
  /\ UNCHANGED <<shared, wvars, rRp, rWp, rLen, rType, hvars>>

\* wyczyscNaglowek, before the space goes back to the writers: the type byte, which
\* becomes that of a trace, and then the length.
ClearType ==
  /\ ReaderAt("clear", "clearLen")
  /\ mem' = [mem EXCEPT ![Off(rRp)] = [@ EXCEPT !.type = "trace"]]
  /\ UNCHANGED <<writePos, readPos, recordCount, dropCount, wvars, rRp, rWp, rLen, rType,
                 rTo, rRec, stuckAt, overdue, hvars>>

\* Mutated form: the length is left as it was.
ClearNothing ==
  /\ ReaderAt("clearLen", "advance")
  /\ UNCHANGED <<shared, wvars, rRp, rWp, rLen, rType, rTo, rRec, stuckAt, overdue, hvars>>

ClearLen ==
  /\ ReaderAt("clearLen", "advance")
  /\ mem' = [mem EXCEPT ![Off(rRp)] = [@ EXCEPT !.len = 0]]
  /\ UNCHANGED <<writePos, readPos, recordCount, dropCount, wvars, rRp, rWp, rLen, rType,
                 rTo, rRec, stuckAt, overdue, hvars>>

Boundary(p) == p = writePos \/ \E i \in 1 .. Len(slots) : slots[i].start = p

\* Mutated form: the position is moved wherever the header said.
MoveFreely == rTo

\* przesunCzytanie: never beyond the loaded write position.
MoveWithin == IF rTo > rWp THEN rWp ELSE rTo

\* The position moves; then the record is returned, or ReadRecord's loop starts over.
Advance ==
  /\ rpc = "advance"
  /\ readPos' = MoveWithin
  /\ delivered' = delivered \o rRec
  /\ damage' = IF Boundary(readPos') THEN damage ELSE damage \cup {"offBoundary"}
  /\ Leave
  /\ UNCHANGED <<writePos, recordCount, dropCount, mem, wvars, stuckAt, overdue, slots, writes,
                 crashes>>

\* A new collector process opens the ring: positions and data are in the file,
\* everything the reader held is gone.
Reopen ==
  /\ Leave
  /\ stuckAt' = << >>
  /\ overdue' = FALSE
  /\ UNCHANGED <<shared, wvars, slots, delivered, writes>>

\* The slice panics, the collector exits and systemd starts it again.
Panic ==
  /\ rpc = "parse"
  /\ ~Unfinished
  /\ rLen # Over
  /\ rType # "padding"
  /\ OutOfRange
  /\ Reopen
  /\ UNCHANGED <<damage, crashes>>

\* A restart now loses a finished record, or takes padding for a trace: the header at
\* readPos no longer says what its words hold.
Cutting == rpc = "advance" \/ (rpc = "clearLen" /\ rLen # 0 /\ rType # "trace")

\* The collector is killed anywhere.
Crash ==
  /\ crashes < MaxCrashes
  /\ crashes' = crashes + 1
  /\ damage' = IF Cutting THEN damage \cup {"cut"} ELSE damage
  /\ Reopen

ReaderStep ==
  \/ LoadPositions \/ Repair \/ LoadLen \/ LoadType \/ Wait \/ Abandon
  \/ SkipCorrupt \/ SkipPadding \/ CopyPayload \/ ClearType \/ ClearLen \/ Advance \/ Panic

-----------------------------------------------------------------------------
Next ==
  \/ \E w \in Writers : Begin(w) \/ WriterStep(w) \/ Die(w)
  \/ ReaderStep
  \/ TimeOut
  \/ Crash

Spec == Init /\ [][Next]_vars

(* A live worker inside phpray_ring_write keeps running, and the collector *)
(* polls for ever.  Strong fairness of TimeOut is the clock: 2 s pass      *)
(* however often ReadRecord comes by in between.                           *)
Fairness ==
  /\ \A w \in Writers : WF_vars(WriterStep(w))
  /\ WF_vars(ReaderStep)
  /\ SF_vars(TimeOut)

FairSpec == Spec /\ Fairness

-----------------------------------------------------------------------------
(* Properties.                                                             *)

SharedOK ==
  /\ writePos \in Nat
  /\ readPos \in Nat
  /\ recordCount \in Nat
  /\ dropCount \in Nat
  /\ mem \in [0 .. Cap - 1 -> Word]

WritersOK ==
  /\ wpc \in [Writers -> Free \cup Asking \cup Owning]
  /\ wSize \in [Writers -> Nat]
  /\ wWp \in [Writers -> Nat]
  /\ wRp \in [Writers -> Nat]
  /\ wSlot \in [Writers -> 0 .. Len(slots)]

ReaderOK ==
  /\ rpc \in Reading
  /\ rRp \in Nat
  /\ rWp \in Nat
  /\ rLen \in 0 .. Short
  /\ rType \in HeaderTypes
  /\ rTo \in Nat
  /\ rRec \in Seq(Nat)
  /\ stuckAt \in Seq(Nat)
  /\ overdue \in BOOLEAN

HistoryOK ==
  /\ slots \in Seq(Slot)
  /\ delivered \in Seq(Nat)
  /\ damage \subseteq Damages
  /\ writes \in Nat
  /\ crashes \in Nat

\* Every length a header can hold stays within the codes above, every claim a
\* writer fills is one that was made, and every value has its kind.
TypeOK == SharedOK /\ WritersOK /\ ReaderOK /\ HistoryOK

\* The writers never claim more than the ring holds, however stale the positions
\* a writer decided on and whatever the reader made of the bytes it found.  (A
\* ring handed over already inverted is levelled to a possibly old position.)
NoLapping == "inverted" \notin damage => writePos <= readPos + Cap

\* The wedge of 0.15.8 cannot come back: no step lets the read position overtake
\* the write position, not even one that parses payload bytes as a header.
NeverInverts == [][readPos <= writePos => readPos' <= writePos']_<<readPos, writePos>>

\* Both together: the positions stay in order and at most a ring apart (phpray_ring_write,
\* ReadRecord, przesunCzytanie).
PositionsOrdered == []NoLapping /\ NeverInverts

SlotWords(i) == {Off(p) : p \in slots[i].start .. slots[i].start + slots[i].size - 1}

\* While the reader knows the boundaries, no two live writers fill the same words,
\* and none fills words of a finished record the reader has yet to consume.
OwnersExclusive ==
  damage = {} =>
    \A w \in Writers : wpc[w] \in Owning =>
      \A i \in 1 .. Len(slots) :
        i # wSlot[w] /\ (slots[i].state = "open" \/ slots[i].start >= readPos)
          => SlotWords(i) \cap SlotWords(wSlot[w]) = {}

\* While the reader knows the boundaries, what it returns is complete records,
\* each once, in the order their space was claimed.
InOrderOnce ==
  damage = {} =>
    /\ \A k \in DOMAIN delivered : delivered[k] # 0
    /\ \A j, k \in DOMAIN delivered : j < k => delivered[j] < delivered[k]

\* While the reader knows the boundaries, a record its writer completed is never
\* passed over, dead neighbours and collector restarts included.
NoSilentLoss ==
  damage = {} =>
    \A i \in 1 .. Len(slots) :
      slots[i].kind = "record" /\ slots[i].state = "done" /\ slots[i].start < readPos
        => \E k \in DOMAIN delivered : delivered[k] = i

\* Both together: while the reader knows the boundaries it returns exactly what was completed,
\* in order (phpray_ring_write, ReadRecord).
ReadsWhatWasWritten == InOrderOnce /\ NoSilentLoss

\* With records of one size only, the boundaries can be lost only through a writer
\* killed before its header was complete, or a collector killed inside a consume.
UniformIntact ==
  Cardinality(Sizes) = 1 /\ "inverted" \notin damage /\ "cut" \notin damage
    /\ (\A i \in 1 .. Len(slots) : slots[i].state # "lost")
  => damage = {}

\* The slot of the n-th record.
RecordSlot(n) ==
  {i \in DOMAIN slots : /\ slots[i].kind = "record"
                        /\ Cardinality({j \in 1 .. i : slots[j].kind = "record"}) = n}

\* Every completed record is returned in the end, past any dead writer, unless the
\* reader lost the boundaries.
Delivery ==
  \A n \in 1 .. MaxWrites :
    (\E i \in RecordSlot(n) : slots[i].state = "done")
      ~> (damage # {} \/ \E k \in DOMAIN delivered : delivered[k] \in RecordSlot(n))

\* A ring that an older collector left with read_pos ahead is levelled by the first
\* look of a collector that runs, and stays level: neither the writers' progress nor
\* a collector restart is needed, and a restart before, in between or after does not
\* undo it.
InversionHeals == <>[](readPos <= writePos)

(* The ring implements the queue of claims.                                *)
ClaimState(i) ==
  CASE slots[i].state = "open" -> "open"
    [] slots[i].state = "done" /\ slots[i].kind = "record" -> "ready"
    [] OTHER -> "void"

Unconsumed ==
  LET first == Cardinality({i \in 1 .. Len(slots) : slots[i].start < readPos})
  IN  [k \in 1 .. Len(slots) - first |-> [id |-> first + k, state |-> ClaimState(first + k)]]

Queue == INSTANCE TraceQueue WITH
  queue  <- IF damage = {} THEN Unconsumed ELSE << >>,
  next   <- IF damage = {} THEN Len(slots) ELSE 0,
  out    <- IF damage = {} THEN delivered ELSE << >>,
  intact <- damage = {}

QueueSpec == Queue!Spec

=============================================================================
