-------------------------- MODULE RingBufferProofs --------------------------
(***************************************************************************)
(* Proofs about the ring for every number of workers, every capacity, all  *)
(* record sizes and every bound, with workers killed and the collector     *)
(* crashing anywhere.                                                      *)
(*                                                                         *)
(* First its positions, without the assumption that live workers are       *)
(* prompt.  TypeOK is not inductive: the length a writer stores is bounded *)
(* only because the check that let it claim bounded its size (WriterInv).  *)
(* Nor are the two position properties: a writer claims on the strength of *)
(* a read position it loaded earlier, so the proof needs that this value   *)
(* is never ahead of the real one (LevelInv), and the reader moves on the  *)
(* strength of positions it loaded earlier (ReaderInv).                    *)
(*                                                                         *)
(* Then what is in the ring: claims do not overlap, the reader returns     *)
(* exactly the records that were completed, in order, a ring of records of *)
(* one size keeps its boundaries, and the ring implements the queue of     *)
(* claims (TraceQueue), step by step.  What is promised while damage = {}  *)
(* needs PromptWriters, which is what the comment at ringbuffer.go:29      *)
(* assumes: a live worker that is slower than the reader's patience writes *)
(* into space that was given up.                                           *)
(***************************************************************************)
EXTENDS RingBuffer, TLAPS, SequenceTheorems, FiniteSetTheorems

WriterInv ==
  \A w \in Writers : wpc[w] \in Owning => wSlot[w] # 0 /\ wSize[w] < Cap

ReaderInv ==
  /\ rpc # "idle" => rRp = readPos /\ rWp <= writePos
  /\ rpc \in Reading \ {"idle", "repair"} => rRp <= rWp
  /\ rpc \in {"clear", "clearLen", "advance"} => rRp <= rTo

LevelInv ==
  "inverted" \notin damage =>
    /\ readPos <= writePos
    /\ writePos <= readPos + Cap
    /\ rpc # "repair"
    /\ \A w \in Writers : wpc[w] = "decide" => wRp[w] <= readPos

TypeInv == TypeOK /\ WriterInv

IInv == TypeInv /\ ReaderInv /\ LevelInv

-----------------------------------------------------------------------------
(* The operators the ring is built from.                                   *)

\* An offset is a word of the data region.
LEMMA OffInRegion ==
  ASSUME NEW p \in Nat
  PROVE  Off(p) \in 0 .. Cap - 1
BY RingAssumption DEF Off

\* A writer's tail is between one word and the whole region.
LEMMA TailPositive ==
  ASSUME TypeOK, NEW w \in Writers
  PROVE  TailOf(w) \in 1 .. Cap
<1>1. wWp[w] \in Nat
  BY DEF TypeOK, WritersOK
<1>2. Off(wWp[w]) \in 0 .. Cap - 1
  BY <1>1, OffInRegion
<1> QED
  BY <1>2, RingAssumption DEF TailOf

\* What a writer takes for the occupied space is never negative.
LEMMA UsedNat ==
  ASSUME NEW wp \in Nat, NEW rp \in Nat
  PROVE  /\ Used(wp, rp) \in Nat
         /\ rp <= wp => Used(wp, rp) = wp - rp
BY DEF Used

\* Settling a claim changes neither the number of claims nor their type.
LEMMA SettleTyped ==
  ASSUME slots \in Seq(Slot), NEW i \in 1 .. Len(slots),
         NEW st \in {"open", "done", "dead", "lost"}
  PROVE  /\ [slots EXCEPT ![i].state = st] \in Seq(Slot)
         /\ Len([slots EXCEPT ![i].state = st]) = Len(slots)
<1> DEFINE e == [slots[i] EXCEPT !.state = st]
<1>1. slots[i] \in Slot
  BY ElementOfSeq
<1>2. e \in Slot
  BY <1>1 DEF Slot
<1>3. [slots EXCEPT ![i] = e] \in Seq(Slot) /\ Len([slots EXCEPT ![i] = e]) = Len(slots)
  BY <1>2, ExceptSeq
<1> QED
  BY <1>3

\* What the reader makes of the words at a position is a claim or nothing.
LEMMA RecordAtNat ==
  ASSUME slots \in Seq(Slot), NEW p, NEW n
  PROVE  RecordAt(p, n) \in Nat
<1>1. Len(slots) \in Nat
  BY LenProperties
<1> QED
  BY <1>1 DEF RecordAt

-----------------------------------------------------------------------------
(* Types.                                                                  *)

\* The initial ring is well typed.
LEMMA InitTypeInv == Init => TypeInv
<1> SUFFICES ASSUME Init PROVE TypeInv
  OBVIOUS
<1> USE RingAssumption DEF Init
<1>1. SharedOK
  BY DEF SharedOK, Word, ZeroWord, HeaderTypes, Junk
<1>2. Len(slots) = 0
  BY EmptySeq
<1>3. WritersOK
  BY <1>2 DEF WritersOK, Free
<1>4. ReaderOK
  BY DEF ReaderOK, Reading, Short, HeaderTypes
<1>5. HistoryOK
  BY DEF HistoryOK, Damages
<1>6. WriterInv
  BY DEF WriterInv, Owning
<1> QED
  BY <1>1, <1>3, <1>4, <1>5, <1>6 DEF TypeInv, TypeOK

\* A writer that only loads, retries or returns keeps the types.
LEMMA AskingTypeInv ==
  ASSUME TypeInv, NEW w \in Writers,
         Begin(w) \/ LoadWritePos(w) \/ LoadReadPos(w) \/ Drop(w) \/ CasFails(w)
  PROVE  TypeInv'
<1> USE DEF TypeInv, TypeOK, WriterAt, Return, shared, rvars, hvars
<1>1. SharedOK'
  BY DEF SharedOK, Begin, LoadWritePos, LoadReadPos, Drop, CasFails
<1>2. ReaderOK'
  BY DEF ReaderOK, Begin, LoadWritePos, LoadReadPos, Drop, CasFails
<1>3. HistoryOK'
  BY DEF HistoryOK, Begin, LoadWritePos, LoadReadPos, Drop, CasFails
<1>4. slots' = slots
  BY DEF Begin, LoadWritePos, LoadReadPos, Drop, CasFails
<1>5. Len(slots) \in Nat
  BY LenProperties DEF HistoryOK
<1>6. WritersOK'
  <2> USE <1>4, <1>5 DEF WritersOK, Free, Asking, Owning
  <2>1. CASE Begin(w)
    BY <2>1, RingAssumption DEF Begin
  <2>2. CASE LoadWritePos(w)
    BY <2>2 DEF LoadWritePos, SharedOK
  <2>3. CASE LoadReadPos(w)
    BY <2>3 DEF LoadReadPos, SharedOK
  <2>4. CASE Drop(w)
    BY <2>4 DEF Drop
  <2>5. CASE CasFails(w)
    BY <2>5 DEF CasFails
  <2> QED
    BY <2>1, <2>2, <2>3, <2>4, <2>5
<1>7. WriterInv'
  BY DEF WriterInv, WritersOK, Free, Asking, Owning, Begin, LoadWritePos, LoadReadPos, Drop,
     CasFails
<1> QED
  BY <1>1, <1>2, <1>3, <1>6, <1>7

\* A claim is made only by a writer whose record is smaller than the ring.
LEMMA ClaimerFits ==
  ASSUME TypeOK, NEW w \in Writers, ~Dropping(w)
  PROVE  wSize[w] < Cap
<1>1. wSize[w] \in Nat /\ Used(wWp[w], wRp[w]) \in Nat
  BY UsedNat DEF TypeOK, WritersOK
<1> QED
  BY <1>1, RingAssumption DEF Dropping, Full

\* Claiming space keeps the types.
LEMMA ClaimTypeInv ==
  ASSUME TypeInv, NEW w \in Writers, ClaimPadding(w) \/ ClaimRecord(w)
  PROVE  TypeInv'
<1> USE DEF TypeInv, TypeOK, WriterAt
<1>1. ~Dropping(w)
  BY DEF ClaimPadding, ClaimRecord
<1>2. PICK n \in Nat, kind \in {"record", "padding"} : Claim(w, n, kind)
  BY TailPositive, RingAssumption DEF ClaimPadding, ClaimRecord, WritersOK
<1> DEFINE c == [start |-> writePos, size |-> n, kind |-> kind, state |-> "open"]
<1>3. c \in Slot
  BY DEF Slot, SharedOK
<1>4. slots' = Append(slots, c)
  BY <1>2 DEF Claim
<1>5. slots' \in Seq(Slot) /\ Len(slots') = Len(slots) + 1 /\ Len(slots) \in Nat
  <2> HIDE DEF c
  <2> QED BY <1>3, <1>4, AppendProperties, LenProperties DEF HistoryOK
<1>6. SharedOK'
  BY SMTT(30), <1>2 DEF SharedOK, Claim, ClaimPadding, ClaimRecord
<1>7. WritersOK'
  <2>1. wpc' \in [Writers -> Free \cup Asking \cup Owning]
    BY DEF WritersOK, Owning, ClaimPadding, ClaimRecord
  <2>2. wSlot' \in [Writers -> 0 .. Len(slots')]
    BY <1>2, <1>5 DEF WritersOK, Claim
  <2>3. UNCHANGED <<wSize, wWp, wRp>>
    BY DEF ClaimPadding, ClaimRecord
  <2> QED
    BY <2>1, <2>2, <2>3 DEF WritersOK
<1>8. ReaderOK'
  BY DEF ReaderOK, ClaimPadding, ClaimRecord, rvars
<1>9. HistoryOK'
  BY <1>5 DEF HistoryOK, ClaimPadding, ClaimRecord
<1>10. WriterInv'
  <2> SUFFICES ASSUME NEW v \in Writers, wpc'[v] \in Owning
               PROVE  wSlot'[v] # 0 /\ wSize'[v] < Cap
    BY DEF WriterInv
  <2>1. wSize' = wSize
    BY DEF ClaimPadding, ClaimRecord
  <2>2. CASE v = w
    BY <1>1, <1>2, <1>5, <2>1, <2>2, ClaimerFits DEF WritersOK, Claim
  <2>3. CASE v # w
    <3>1. wpc'[v] = wpc[v]
      BY <2>3 DEF WritersOK, ClaimPadding, ClaimRecord
    <3>2. wSlot'[v] = wSlot[v]
      BY <1>2, <2>3 DEF WritersOK, Claim
    <3> QED
      BY <2>1, <3>1, <3>2 DEF WriterInv
  <2> QED
    BY <2>2, <2>3
<1> QED
  BY <1>6, <1>7, <1>8, <1>9, <1>10

\* Storing one field of a header keeps the data region typed.
LEMMA StoreTyped ==
  ASSUME TypeOK, NEW w \in Writers,
         \/ \E type \in HeaderTypes : StoreType(w, type)
         \/ \E n \in 0 .. Cap : StoreLen(w, n)
  PROVE  mem' \in [0 .. Cap - 1 -> Word]
<1> USE DEF TypeOK, SharedOK, WritersOK
<1>1. Off(wWp[w]) \in 0 .. Cap - 1
  BY OffInRegion
<1>2. mem[Off(wWp[w])] \in Word
  BY <1>1
<1>3. CASE \E type \in HeaderTypes : StoreType(w, type)
  <2>1. PICK type \in HeaderTypes : StoreType(w, type)
    BY <1>3
  <2> DEFINE e == [mem[Off(wWp[w])] EXCEPT !.type = type]
  <2>2. e \in Word
    BY <1>2 DEF Word
  <2>3. mem' = [mem EXCEPT ![Off(wWp[w])] = e]
    BY <2>1 DEF StoreType
  <2> HIDE DEF e
  <2> QED
    BY <1>1, <2>2, <2>3
<1>4. CASE \E n \in 0 .. Cap : StoreLen(w, n)
  <2>1. PICK n \in 0 .. Cap : StoreLen(w, n)
    BY <1>4
  <2> DEFINE e == [mem[Off(wWp[w])] EXCEPT !.len = n]
  <2>2. e \in Word
    <3>1. n \in 0 .. Junk
      BY RingAssumption DEF Junk
    <3> QED
      BY <1>2, <3>1 DEF Word
  <2>3. mem' = [mem EXCEPT ![Off(wWp[w])] = e]
    BY <2>1 DEF StoreLen
  <2> HIDE DEF e
  <2> QED
    BY <1>1, <2>2, <2>3
<1> QED
  BY <1>3, <1>4

\* Copying the payload leaves words whose header fields are payload bytes.
LEMMA CopyTyped ==
  ASSUME TypeOK, NEW w \in Writers, Copy(w)
  PROVE  mem' \in [0 .. Cap - 1 -> Word]
<1> DEFINE id == wSlot[w]
<1>1. id \in Nat
  <2>1. Len(slots) \in Nat
    BY LenProperties DEF TypeOK, HistoryOK
  <2> QED
    BY <2>1 DEF TypeOK, WritersOK
<1>2. [len |-> Junk, type |-> "junk", id |-> id] \in Word
  BY <1>1, RingAssumption DEF Word, Junk
<1>3. \A i \in 0 .. Cap - 1 : [mem[i] EXCEPT !.id = id] \in Word /\ mem[i] \in Word
  BY <1>1 DEF TypeOK, SharedOK, Word
<1>4. mem' = [i \in 0 .. Cap - 1 |->
                IF i = Off(wWp[w]) THEN [mem[i] EXCEPT !.id = id]
                ELSE IF i > Off(wWp[w]) /\ i < Off(wWp[w]) + wSize[w]
                     THEN [len |-> Junk, type |-> "junk", id |-> id]
                     ELSE mem[i]]
  BY DEF Copy
<1> HIDE DEF id
<1> QED
  BY <1>2, <1>3, <1>4

\* Describing or filling a slot keeps the types.
LEMMA FillTypeInv ==
  ASSUME TypeInv, NEW w \in Writers, PadType(w) \/ PubType(w) \/ PubLen(w) \/ Copy(w)
  PROVE  TypeInv'
<1> USE DEF TypeInv, TypeOK, WriterAt
<1>1. wpc[w] \in Owning
  BY DEF PadType, PubType, PubLen, Copy, Owning
<1>2. wSize[w] \in 0 .. Cap
  BY <1>1, RingAssumption DEF WriterInv, WritersOK
<1>3. mem' \in [0 .. Cap - 1 -> Word]
  <2>1. CASE PadType(w) \/ PubType(w)
    BY <2>1, StoreTyped DEF PadType, PubType, HeaderTypes
  <2>2. CASE PubLen(w)
    BY <1>2, <2>2, StoreTyped DEF PubLen
  <2>3. CASE Copy(w)
    BY <2>3, CopyTyped
  <2> QED
    BY <2>1, <2>2, <2>3
<1>4. SharedOK'
  BY <1>3 DEF SharedOK, PadType, PubType, PubLen, Copy
<1>5. slots' = slots /\ UNCHANGED <<wSize, wWp, wRp, wSlot>>
  BY DEF PadType, PubType, PubLen, Copy, hvars
<1>6. WritersOK'
  BY <1>5 DEF WritersOK, Owning, PadType, PubType, PubLen, Copy
<1>7. ReaderOK'
  BY DEF ReaderOK, PadType, PubType, PubLen, Copy, rvars
<1>8. HistoryOK'
  BY DEF HistoryOK, PadType, PubType, PubLen, Copy, hvars
<1>9. WriterInv'
  BY <1>1, <1>5 DEF WriterInv, WritersOK, PadType, PubType, PubLen, Copy
<1> QED
  BY <1>4, <1>6, <1>7, <1>8, <1>9

\* A writer that settles its claim, by finishing or by dying, keeps the types.
LEMMA SettleTypeInv ==
  ASSUME TypeInv, NEW w \in Writers, PadLen(w) \/ Commit(w) \/ Die(w)
  PROVE  TypeInv'
<1> USE DEF TypeInv, TypeOK, WriterAt, Return
<1>1. wpc[w] \in Owning => wSlot[w] \in 1 .. Len(slots)
  BY LenProperties DEF WriterInv, WritersOK, HistoryOK
<1>2. slots' \in Seq(Slot) /\ Len(slots') = Len(slots) /\ Len(slots) \in Nat
  <2>1. CASE PadLen(w) \/ Commit(w)
    <3>1. wSlot[w] \in 1 .. Len(slots)
      BY <1>1, <2>1 DEF PadLen, Commit, Owning
    <3>2. slots' = [slots EXCEPT ![wSlot[w]].state = "done"]
      BY <2>1 DEF PadLen, Commit, Finish
    <3> QED
      BY <3>1, <3>2, SettleTyped, LenProperties DEF HistoryOK
  <2>2. CASE Die(w)
    BY <1>1, <2>2, SettleTyped, LenProperties DEF Die, HistoryOK
  <2> QED
    BY <2>1, <2>2
<1>3. mem' \in [0 .. Cap - 1 -> Word]
  <2>1. CASE PadLen(w)
    BY <2>1, TailPositive, StoreTyped DEF PadLen
  <2>2. CASE Commit(w)
    BY <2>2, StoreTyped DEF Commit, HeaderTypes
  <2>3. CASE Die(w)
    BY <2>3 DEF Die, shared, SharedOK
  <2> QED
    BY <2>1, <2>2, <2>3
<1>4. SharedOK'
  BY <1>3 DEF SharedOK, PadLen, Commit, Die, shared
<1>5. WritersOK'
  <2>1. CASE PadLen(w)
    BY <1>2, <2>1 DEF WritersOK, Asking, PadLen
  <2>2. CASE Commit(w)
    BY <1>2, <2>2 DEF WritersOK, Free, Commit
  <2>3. CASE Die(w)
    BY <1>2, <2>3 DEF WritersOK, Free, Die
  <2> QED
    BY <2>1, <2>2, <2>3
<1>6. ReaderOK'
  BY DEF ReaderOK, PadLen, Commit, Die, rvars
<1>7. HistoryOK'
  BY <1>2 DEF HistoryOK, PadLen, Commit, Die
<1>8. WriterInv'
  <2> SUFFICES ASSUME NEW v \in Writers, wpc'[v] \in Owning
               PROVE  wSlot'[v] # 0 /\ wSize'[v] < Cap
    BY DEF WriterInv
  <2>1. v # w
    BY DEF WritersOK, Free, Owning, PadLen, Commit, Die
  <2>2. wpc'[v] = wpc[v] /\ wSlot'[v] = wSlot[v] /\ wSize'[v] = wSize[v]
    BY <2>1 DEF WritersOK, PadLen, Commit, Die
  <2> QED
    BY <2>2 DEF WriterInv
<1> QED
  BY <1>4, <1>5, <1>6, <1>7, <1>8

\* The steps of the reader, the clock and a collector crash keep the types.
LEMMA ReaderTypeInv ==
  ASSUME TypeInv, ReaderStep \/ TimeOut \/ Crash
  PROVE  TypeInv'
<1> USE RingAssumption DEF TypeInv, TypeOK
<1>1. UNCHANGED <<wvars, slots, writePos, recordCount, dropCount>>
  BY DEF ReaderStep, LoadPositions, Repair, LoadLen, LoadType, Wait, Abandon, SkipCorrupt,
     SkipPadding, CopyPayload, ClearType, ClearLen, Advance, Panic, TimeOut, Crash, ReaderAt, Leave, Reopen, shared, hvars
<1>2. WritersOK' /\ WriterInv'
  BY <1>1 DEF WritersOK, WriterInv, wvars
<1>3. PaddedLen \in Nat /\ MoveWithin \in Nat
  BY DEF PaddedLen, MoveWithin, ReaderOK, Short
<1>4. mem' \in [0 .. Cap - 1 -> Word]
  <2>1. CASE ClearType \/ ClearLen
    <3>1. Off(rRp) \in 0 .. Cap - 1
      BY OffInRegion DEF ReaderOK
    <3> DEFINE e == [mem[Off(rRp)] EXCEPT !.len = 0]
               f == [mem[Off(rRp)] EXCEPT !.type = "trace"]
    <3>2. e \in Word /\ f \in Word
      <4>1. mem[Off(rRp)] \in Word
        BY <3>1 DEF SharedOK
      <4>2. 0 \in 0 .. Junk /\ "trace" \in HeaderTypes
        BY DEF Junk, HeaderTypes
      <4> QED
        BY <4>1, <4>2 DEF Word
    <3>3. mem' = [mem EXCEPT ![Off(rRp)] = e] \/ mem' = [mem EXCEPT ![Off(rRp)] = f]
      BY <2>1 DEF ClearType, ClearLen
    <3> HIDE DEF e, f
    <3> QED
      BY <3>1, <3>2, <3>3 DEF SharedOK
  <2>2. CASE ~(ClearType \/ ClearLen)
    <3>1. mem' = mem
      BY <2>2 DEF ReaderStep, LoadPositions, Repair, LoadLen, LoadType, Wait, Abandon, SkipCorrupt,
     SkipPadding, CopyPayload, ClearType, ClearLen, Advance, Panic, TimeOut, Crash, ReaderAt, Leave, Reopen, shared
    <3> QED
      BY <3>1 DEF SharedOK
  <2> QED
    BY <2>1, <2>2
<1>5. readPos' \in {readPos, rWp, MoveWithin}
  BY DEF ReaderStep, LoadPositions, Repair, LoadLen, LoadType, Wait, Abandon, SkipCorrupt,
     SkipPadding, CopyPayload, ClearType, ClearLen, Advance, Panic, TimeOut, Crash, ReaderAt, Leave, Reopen, shared
<1>6. SharedOK'
  BY <1>1, <1>3, <1>4, <1>5 DEF SharedOK, ReaderOK
<1>7. rLen' \in 0 .. Short
  <2>1. CASE LoadLen
    <3>1. Off(rRp) \in 0 .. Cap - 1
      BY OffInRegion DEF ReaderOK
    <3>2. mem[Off(rRp)].len \in 0 .. Junk
      BY <3>1 DEF SharedOK, Word
    <3> QED
      BY <2>1, <3>2 DEF LoadLen, LenAt, Junk, Short
  <2>2. CASE ~LoadLen
    <3>1. rLen' = rLen \/ rLen' = 0
      BY <2>2 DEF ReaderStep, LoadPositions, Repair, LoadLen, LoadType, Wait, Abandon, SkipCorrupt,
     SkipPadding, CopyPayload, ClearType, ClearLen, Advance, Panic, TimeOut, Crash, ReaderAt, Leave, Reopen
    <3> QED
      BY <3>1 DEF ReaderOK, Short
  <2> QED
    BY <2>1, <2>2
<1>8. rType' \in HeaderTypes
  <2>1. CASE LoadType
    <3>1. Off(rRp) \in 0 .. Cap - 1
      BY OffInRegion DEF ReaderOK
    <3>2. mem[Off(rRp)].type \in HeaderTypes \cup {"junk"}
      BY <3>1 DEF SharedOK, Word
    <3> QED
      BY <2>1, <3>2 DEF LoadType, TypeAt
  <2>2. CASE ~LoadType
    <3>1. rType' = rType \/ rType' = "trace"
      BY <2>2 DEF ReaderStep, LoadPositions, Repair, LoadLen, LoadType, Wait, Abandon, SkipCorrupt,
     SkipPadding, CopyPayload, ClearType, ClearLen, Advance, Panic, TimeOut, Crash, ReaderAt, Leave, Reopen
    <3> QED
      BY <3>1 DEF ReaderOK, HeaderTypes
  <2> QED
    BY <2>1, <2>2
<1>9. rRec' \in Seq(Nat)
  <2>1. CASE CopyPayload
    <3>1. RecordAt(rRp, rLen) \in Nat
      BY RecordAtNat DEF HistoryOK
    <3>2. <<RecordAt(rRp, rLen)>> \in Seq(Nat)
      BY <3>1
    <3> QED
      BY <2>1, <3>2, EmptySeq DEF CopyPayload
  <2>2. CASE ~CopyPayload
    <3>1. rRec' = rRec \/ rRec' = << >>
      BY <2>2 DEF ReaderStep, LoadPositions, Repair, LoadLen, LoadType, Wait, Abandon, SkipCorrupt,
     SkipPadding, CopyPayload, ClearType, ClearLen, Advance, Panic, TimeOut, Crash, ReaderAt, Leave, Reopen
    <3> QED
      BY <3>1, EmptySeq DEF ReaderOK
  <2> QED
    BY <2>1, <2>2
<1>10. stuckAt' \in Seq(Nat) /\ overdue' \in BOOLEAN
  <2>1. /\ stuckAt' = stuckAt \/ stuckAt' = << >> \/ stuckAt' = <<rRp>>
        /\ overdue' = overdue \/ overdue' = TRUE \/ overdue' = FALSE
    BY DEF ReaderStep, LoadPositions, Repair, LoadLen, LoadType, Wait, Abandon, SkipCorrupt,
     SkipPadding, CopyPayload, ClearType, ClearLen, Advance, Panic, TimeOut, Crash, ReaderAt, Leave, Reopen
  <2>2. << >> \in Seq(Nat) /\ <<rRp>> \in Seq(Nat)
    BY EmptySeq DEF ReaderOK
  <2> QED
    BY <2>1, <2>2 DEF ReaderOK
<1>11. rpc' \in Reading
  BY DEF ReaderStep, LoadPositions, Repair, LoadLen, LoadType, Wait, Abandon, SkipCorrupt,
     SkipPadding, CopyPayload, ClearType, ClearLen, Advance, Panic, TimeOut, Crash, ReaderAt, Leave, Reopen, ReaderOK, Reading
<1>12. rRp' \in Nat /\ rWp' \in Nat /\ rTo' \in Nat
  <2>1. /\ rRp' = rRp \/ rRp' = readPos \/ rRp' = 0
        /\ rWp' = rWp \/ rWp' = writePos \/ rWp' = 0
    BY DEF ReaderStep, LoadPositions, Repair, LoadLen, LoadType, Wait, Abandon, SkipCorrupt,
     SkipPadding, CopyPayload, ClearType, ClearLen, Advance, Panic, TimeOut, Crash, ReaderAt, Leave, Reopen
  <2>2. rTo' = rTo \/ rTo' = 0 \/ rTo' = rRp + 1 \/ rTo' = rRp + PaddedLen
    BY DEF ReaderStep, LoadPositions, Repair, LoadLen, LoadType, Wait, Abandon, SkipCorrupt,
     SkipPadding, CopyPayload, ClearType, ClearLen, Advance, Panic, TimeOut, Crash, ReaderAt, Leave, Reopen
  <2> QED
    BY <1>3, <2>1, <2>2 DEF ReaderOK, SharedOK
<1>13. ReaderOK'
  BY <1>7, <1>8, <1>9, <1>10, <1>11, <1>12 DEF ReaderOK
<1>14. delivered' \in Seq(Nat)
  <2>1. delivered' = delivered \/ delivered' = delivered \o rRec
    BY DEF ReaderStep, LoadPositions, Repair, LoadLen, LoadType, Wait, Abandon, SkipCorrupt,
     SkipPadding, CopyPayload, ClearType, ClearLen, Advance, Panic, TimeOut, Crash, ReaderAt, Leave, Reopen, hvars
  <2> QED
    BY <2>1, ConcatProperties DEF ReaderOK, HistoryOK
<1>15. damage' \subseteq Damages
  BY DEF ReaderStep, LoadPositions, Repair, LoadLen, LoadType, Wait, Abandon, SkipCorrupt,
     SkipPadding, CopyPayload, ClearType, ClearLen, Advance, Panic, TimeOut, Crash, ReaderAt, Leave, Reopen, hvars, HistoryOK, Damages
<1>16. writes' \in Nat /\ crashes' \in Nat
  BY DEF ReaderStep, LoadPositions, Repair, LoadLen, LoadType, Wait, Abandon, SkipCorrupt,
     SkipPadding, CopyPayload, ClearType, ClearLen, Advance, Panic, TimeOut, Crash, ReaderAt, Leave, Reopen, hvars, HistoryOK
<1>17. HistoryOK'
  BY <1>1, <1>14, <1>15, <1>16 DEF HistoryOK
<1> QED
  BY <1>2, <1>6, <1>13, <1>17

\* Every step keeps the types.
LEMMA StepTypeInv == TypeInv /\ [Next]_vars => TypeInv'
<1> SUFFICES ASSUME TypeInv, [Next]_vars PROVE TypeInv'
  OBVIOUS
<1>1. CASE \E w \in Writers : Begin(w) \/ WriterStep(w) \/ Die(w)
  BY <1>1, AskingTypeInv, ClaimTypeInv, FillTypeInv, SettleTypeInv DEF WriterStep
<1>2. CASE ReaderStep \/ TimeOut \/ Crash
  BY <1>2, ReaderTypeInv
<1>3. CASE UNCHANGED vars
  BY <1>3 DEF vars, shared, wvars, rvars, hvars, TypeInv, TypeOK, SharedOK, WritersOK, ReaderOK,
     HistoryOK, WriterInv
<1> QED
  BY <1>1, <1>2, <1>3 DEF Next

\* Type correctness: for any workers, capacity and record sizes, no header ever
\* holds a length outside the codes and no writer fills a claim that was not made.
THEOREM TypeCorrect == Spec => []TypeOK
<1>1. TypeInv => TypeOK
  BY DEF TypeInv
<1> QED
  BY <1>1, InitTypeInv, StepTypeInv, PTL DEF Spec

-----------------------------------------------------------------------------
(* The positions.                                                          *)

\* The two ways of claiming move the write position forward, and no further than a
\* capacity beyond the read position the writer had loaded.
LEMMA ClaimMoves ==
  ASSUME TypeInv, NEW w \in Writers, ClaimPadding(w) \/ ClaimRecord(w)
  PROVE  /\ writePos' \in Nat
         /\ writePos <= writePos'
         /\ wRp[w] <= writePos => writePos' <= wRp[w] + Cap
<1> USE RingAssumption DEF TypeInv, TypeOK
<1>1. /\ writePos \in Nat /\ wRp[w] \in Nat /\ wSize[w] \in Nat
      /\ TailOf(w) \in 1 .. Cap
  BY TailPositive DEF SharedOK, WritersOK
<1>2. writePos = wWp[w] /\ ~Full(w)
  BY DEF ClaimPadding, ClaimRecord, Claim, Dropping
<1>3. CASE ClaimPadding(w)
  <2>1. writePos' = writePos + TailOf(w) /\ ~PaddedFull(w)
    BY <1>3 DEF ClaimPadding, Claim, Dropping
  <2>2. Used(writePos + TailOf(w), wRp[w]) + wSize[w] <= Cap
    <3>1. Used(writePos + TailOf(w), wRp[w]) \in Nat
      BY <1>1 DEF Used
    <3> QED
      BY <1>1, <1>2, <2>1, <3>1 DEF PaddedFull
  <2>3. wRp[w] <= writePos => Used(writePos + TailOf(w), wRp[w]) = writePos + TailOf(w) - wRp[w]
    BY <1>1 DEF Used
  <2> QED
    BY <1>1, <2>1, <2>2, <2>3
<1>4. CASE ClaimRecord(w)
  <2>1. writePos' = writePos + wSize[w]
    BY <1>4 DEF ClaimRecord, Claim
  <2>2. Used(writePos, wRp[w]) + wSize[w] < Cap
    BY <1>1, <1>2, UsedNat DEF Full
  <2>3. wRp[w] <= writePos => Used(writePos, wRp[w]) = writePos - wRp[w]
    BY <1>1, UsedNat
  <2> QED
    BY <1>1, <2>1, <2>2, <2>3
<1> QED
  BY <1>3, <1>4

\* A writer never moves the reader, and never moves the write position back.
LEMMA WriterMoves ==
  ASSUME TypeInv, NEW w \in Writers, Begin(w) \/ WriterStep(w) \/ Die(w)
  PROVE  /\ UNCHANGED <<rpc, rRp, rWp, rTo, readPos, damage>>
         /\ writePos' \in Nat
         /\ writePos <= writePos'
<1>1. UNCHANGED <<rpc, rRp, rWp, rTo, readPos, damage>>
  BY DEF WriterStep, Begin, LoadWritePos, LoadReadPos, Drop, CasFails, ClaimPadding, ClaimRecord,
     PadType, PadLen, PubType, PubLen, Copy, Commit, Die, shared, rvars, hvars
<1>2. CASE ClaimPadding(w) \/ ClaimRecord(w)
  BY <1>1, <1>2, ClaimMoves
<1>3. CASE ~(ClaimPadding(w) \/ ClaimRecord(w))
  <2>1. writePos' = writePos
    BY <1>3 DEF WriterStep, Begin, LoadWritePos, LoadReadPos, Drop, CasFails, PadType, PadLen,
       PubType, PubLen, Copy, Commit, Die, shared
  <2> QED
    BY <1>1, <2>1 DEF TypeInv, TypeOK, SharedOK
<1> QED
  BY <1>1, <1>2, <1>3

\* What the reader loaded stays true until it moves on.
LEMMA StepReaderInv == TypeInv /\ ReaderInv /\ [Next]_vars => ReaderInv'
<1> SUFFICES ASSUME TypeInv, ReaderInv, [Next]_vars PROVE ReaderInv'
  OBVIOUS
<1>1. /\ writePos \in Nat /\ readPos \in Nat /\ rRp \in Nat /\ rWp \in Nat /\ rTo \in Nat
      /\ PaddedLen \in Nat /\ rpc \in Reading
  BY RingAssumption DEF TypeInv, TypeOK, SharedOK, ReaderOK, PaddedLen, Short
<1>2. CASE \E w \in Writers : Begin(w) \/ WriterStep(w) \/ Die(w)
  BY <1>1, <1>2, WriterMoves DEF ReaderInv
<1>3. CASE LoadPositions
  BY <1>1, <1>3 DEF LoadPositions, ReaderInv, shared
<1>4. CASE LoadLen \/ LoadType
  BY <1>1, <1>4 DEF LoadLen, LoadType, ReaderAt, ReaderInv, Reading, shared
<1>5. CASE Abandon \/ SkipCorrupt \/ SkipPadding \/ CopyPayload
  BY <1>1, <1>5 DEF Abandon, SkipCorrupt, SkipPadding, CopyPayload, ReaderAt, ReaderInv, Reading,
     shared
<1>6. CASE ClearType \/ ClearLen
  BY <1>1, <1>6 DEF ClearType, ClearLen, ReaderAt, ReaderInv, Reading
<1>7. CASE Repair \/ Wait \/ Advance \/ Panic \/ Crash
  BY <1>7 DEF Repair, Wait, Advance, Panic, Crash, Reopen, Leave, ReaderInv
<1>8. CASE TimeOut
  BY <1>8 DEF TimeOut, ReaderInv, shared
<1>9. CASE UNCHANGED vars
  BY <1>9 DEF vars, shared, rvars, ReaderInv
<1> QED
  BY <1>2, <1>3, <1>4, <1>5, <1>6, <1>7, <1>8, <1>9 DEF Next, ReaderStep

\* The reader moves only forward, and never beyond the write position, unless it
\* levels an inverted ring.
LEMMA AdvanceMoves ==
  ASSUME TypeInv, ReaderInv, Advance
  PROVE  /\ readPos' \in Nat
         /\ readPos <= readPos'
         /\ readPos' <= writePos
<1>1. rpc = "advance" /\ readPos' = MoveWithin
  BY DEF Advance
<1>2. rRp = readPos /\ rRp <= rWp /\ rRp <= rTo /\ rWp <= writePos
  BY <1>1 DEF ReaderInv, Reading
<1> QED
  BY <1>1, <1>2 DEF MoveWithin, TypeInv, TypeOK, SharedOK, ReaderOK

\* damage never shrinks, so a ring that is now taken for level always was.
LEMMA StayedLevel ==
  ASSUME [Next]_vars, "inverted" \notin damage'
  PROVE  "inverted" \notin damage
<1>1. CASE \E w \in Writers : Begin(w) \/ WriterStep(w) \/ Die(w)
  BY <1>1 DEF WriterStep, Begin, LoadWritePos, LoadReadPos, Drop, CasFails, ClaimPadding,
     ClaimRecord, PadType, PadLen, PubType, PubLen, Copy, Commit, Die, hvars
<1>2. CASE ReaderStep \/ TimeOut \/ Crash
  BY <1>2 DEF ReaderStep, LoadPositions, Repair, LoadLen, LoadType, Wait, Abandon, SkipCorrupt,
     SkipPadding, CopyPayload, ClearType, ClearLen, Advance, Panic, ReaderAt, Leave, Reopen, TimeOut, Crash, hvars
<1>3. CASE UNCHANGED vars
  BY <1>3 DEF vars, hvars
<1> QED
  BY <1>1, <1>2, <1>3 DEF Next

\* Every step of a level ring keeps it level.
LEMMA StepLevelInv == TypeInv /\ ReaderInv /\ LevelInv /\ [Next]_vars => LevelInv'
<1> SUFFICES ASSUME TypeInv, ReaderInv, LevelInv, [Next]_vars, "inverted" \notin damage'
             PROVE  /\ readPos' <= writePos'
                    /\ writePos' <= readPos' + Cap
                    /\ rpc' # "repair"
                    /\ \A v \in Writers : wpc'[v] = "decide" => wRp'[v] <= readPos'
  BY DEF LevelInv
<1>1. /\ readPos <= writePos
      /\ writePos <= readPos + Cap
      /\ rpc # "repair"
      /\ \A v \in Writers : wpc[v] = "decide" => wRp[v] <= readPos
  BY StayedLevel DEF LevelInv
<1>2. writePos \in Nat /\ readPos \in Nat /\ \A v \in Writers : wRp[v] \in Nat
  BY DEF TypeInv, TypeOK, SharedOK, WritersOK
<1>3. ASSUME NEW w \in Writers, Begin(w) \/ WriterStep(w) \/ Die(w)
      PROVE  /\ readPos' <= writePos'
             /\ writePos' <= readPos' + Cap
             /\ rpc' # "repair"
             /\ \A v \in Writers : wpc'[v] = "decide" => wRp'[v] <= readPos'
  <2>1. /\ readPos' = readPos /\ rpc' = rpc
        /\ writePos' \in Nat /\ writePos <= writePos'
    BY <1>3, WriterMoves
  <2>2. writePos' <= readPos + Cap
    <3>1. CASE ClaimPadding(w) \/ ClaimRecord(w)
      <4>1. wpc[w] = "decide"
        BY <3>1 DEF ClaimPadding, ClaimRecord, WriterAt
      <4>2. wRp[w] <= readPos
        BY <1>1, <4>1
      <4> QED
        BY <1>1, <1>2, <3>1, <4>2, ClaimMoves, RingAssumption
    <3>2. CASE ~(ClaimPadding(w) \/ ClaimRecord(w))
      <4>1. writePos' = writePos
        BY <1>3, <3>2 DEF WriterStep, Begin, LoadWritePos, LoadReadPos, Drop, CasFails, PadType,
           PadLen, PubType, PubLen, Copy, Commit, Die, shared
      <4> QED
        BY <1>1, <4>1
    <3> QED
      BY <3>1, <3>2
  <2>3. ASSUME NEW v \in Writers, wpc'[v] = "decide"
        PROVE  wRp'[v] <= readPos'
    <3>1. CASE LoadReadPos(w) /\ v = w
      BY <1>2, <2>1, <3>1 DEF LoadReadPos, TypeInv, TypeOK, WritersOK
    <3>2. CASE ~(LoadReadPos(w) /\ v = w)
      <4>1. wpc[v] = "decide" /\ wRp'[v] = wRp[v]
        BY <1>3, <2>3, <3>2 DEF TypeInv, TypeOK, WritersOK, WriterStep, Begin, LoadWritePos,
           LoadReadPos, Drop, CasFails, ClaimPadding, ClaimRecord, PadType, PadLen, PubType,
           PubLen, Copy, Commit, Die, Return, WriterAt
      <4> QED
        BY <1>1, <2>1, <4>1
    <3> QED
      BY <3>1, <3>2
  <2> QED
    BY <1>1, <1>2, <2>1, <2>2, <2>3
<1>4. CASE Advance
  <2>1. readPos' \in Nat /\ readPos <= readPos' /\ readPos' <= writePos
    BY <1>4, AdvanceMoves
  <2>2. rpc' = "idle" /\ UNCHANGED <<writePos, wpc, wRp>>
    BY <1>4 DEF Advance, Leave, wvars
  <2> QED
    BY <1>1, <1>2, <2>1, <2>2, RingAssumption
<1>5. CASE LoadPositions
  <2>1. UNCHANGED <<writePos, readPos, wpc, wRp>>
    BY <1>5 DEF LoadPositions, shared, wvars
  <2>2. rpc' # "repair"
    BY <1>1, <1>2, <1>5 DEF LoadPositions
  <2> QED
    BY <1>1, <2>1, <2>2
<1>6. CASE (ReaderStep /\ ~Advance /\ ~LoadPositions) \/ TimeOut \/ Crash
  <2>1. UNCHANGED <<writePos, readPos, wpc, wRp>> /\ rpc' # "repair"
    BY <1>1, <1>6 DEF ReaderStep, LoadPositions, Repair, LoadLen, LoadType, Wait, Abandon, SkipCorrupt,
     SkipPadding, CopyPayload, ClearType, ClearLen, Advance, Panic, ReaderAt, Leave, Reopen, TimeOut, Crash, shared, wvars
  <2> QED
    BY <1>1, <2>1
<1>7. CASE UNCHANGED vars
  BY <1>1, <1>7 DEF vars, shared, wvars, rvars
<1> QED
  BY <1>3, <1>4, <1>5, <1>6, <1>7 DEF Next

\* The invariant holds in the initial states and is preserved by every step.
LEMMA InitIInv == Init => IInv
<1> SUFFICES ASSUME Init PROVE IInv
  OBVIOUS
<1>1. ReaderInv
  BY DEF Init, ReaderInv, Reading
<1>2. LevelInv
  BY RingAssumption DEF Init, LevelInv
<1> QED
  BY <1>1, <1>2, InitTypeInv DEF IInv

\* The three parts are preserved together: the positions need the types.
LEMMA StepIInv == IInv /\ [Next]_vars => IInv'
BY StepTypeInv, StepReaderInv, StepLevelInv DEF IInv

\* The inductive invariant holds throughout.
LEMMA Inductive == Spec => []IInv
BY InitIInv, StepIInv, PTL DEF Spec

\* The writers never claim more than the ring holds, for any number of workers that
\* decide on positions loaded at any time before, die at any step, and for any
\* bytes the reader takes for a header (phpray_ring_write, przesunCzytanie).
THEOREM NeverLapped == Spec => []NoLapping
<1>1. IInv => NoLapping
  BY DEF IInv, LevelInv, NoLapping
<1> QED
  BY <1>1, Inductive, PTL

\* No step lets the read position overtake the write position, not even in a ring
\* that was handed over inverted and is being levelled (ReadRecord, przesunCzytanie).
THEOREM InversionExcluded == Spec => NeverInverts
<1>1. IInv /\ [Next]_vars => [readPos <= writePos => readPos' <= writePos']_<<readPos, writePos>>
  <2> SUFFICES ASSUME IInv, [Next]_vars, readPos <= writePos
               PROVE  readPos' <= writePos'
    OBVIOUS
  <2> USE DEF IInv
  <2>1. writePos \in Nat /\ readPos \in Nat /\ rWp \in Nat
    BY DEF TypeInv, TypeOK, SharedOK, ReaderOK
  <2>2. CASE \E w \in Writers : Begin(w) \/ WriterStep(w) \/ Die(w)
    BY <2>1, <2>2, WriterMoves
  <2>3. CASE Advance
    BY <2>3, AdvanceMoves DEF Advance
  <2>4. CASE Repair
    BY <2>4 DEF Repair, ReaderInv, Reading
  <2>5. CASE (ReaderStep /\ ~Advance /\ ~Repair) \/ TimeOut \/ Crash
    <3>1. UNCHANGED <<writePos, readPos>>
      BY <2>5 DEF ReaderStep, LoadPositions, Repair, LoadLen, LoadType, Wait, Abandon, SkipCorrupt,
     SkipPadding, CopyPayload, ClearType, ClearLen, Advance, Panic, ReaderAt, Leave, Reopen, TimeOut, Crash, shared
    <3> QED
      BY <3>1
  <2>6. CASE UNCHANGED vars
    BY <2>6 DEF vars, shared
  <2> QED
    BY <2>2, <2>3, <2>4, <2>5, <2>6 DEF Next
<1> QED
  BY <1>1, Inductive, PTL DEF Spec, NeverInverts

\* The positions stay in order and at most a ring apart.
THEOREM PositionsKept == Spec => PositionsOrdered
BY NeverLapped, InversionExcluded DEF PositionsOrdered

-----------------------------------------------------------------------------
(* The invariants of what is in the ring.                                  *)

\* Words of the region a claim occupies, in order from Place.
Place(i)  == Off(slots[i].start)
EndOf(i)  == slots[i].start + slots[i].size
Header(i) == mem[Place(i)]

\* The claims the reader has not consumed.
Unread == {i \in 1 .. Len(slots) : slots[i].start >= readPos}

\* Claims follow each other without a gap and do not wrap around.
TilingInv ==
  /\ \A i \in 1 .. Len(slots) :
       /\ slots[i].size > 0
       /\ Place(i) + slots[i].size <= Cap
       /\ EndOf(i) <= writePos
       /\ EndOf(i) = writePos \/ (i < Len(slots) /\ slots[i + 1].start = EndOf(i))
  /\ \A i, j \in 1 .. Len(slots) : i < j => EndOf(i) <= slots[j].start

\* An open claim is the claim of one live writer, who fills what it claimed.
OwnerInv ==
  /\ \A w \in Writers : wpc[w] \notin Free => wSize[w] > 0
  /\ \A w \in Writers : wpc[w] \in Owning =>
       /\ slots[wSlot[w]].state = "open"
       /\ slots[wSlot[w]].start = wWp[w]
       /\ wpc[w] \in {"padType", "padLen"} =>
            slots[wSlot[w]].kind = "padding" /\ slots[wSlot[w]].size = TailOf(w)
       /\ wpc[w] \notin {"padType", "padLen"} =>
            slots[wSlot[w]].kind = "record" /\ slots[wSlot[w]].size = wSize[w]
  /\ \A v, w \in Writers :
       v # w /\ wpc[v] \in Owning /\ wpc[w] \in Owning => wSlot[v] # wSlot[w]
  /\ \A i \in 1 .. Len(slots) :
       /\ slots[i].state = "open" => \E w \in Writers : wpc[w] \in Owning /\ wSlot[w] = i
       /\ slots[i].state = "dead" => slots[i].kind = "record"

\* The reader runs out of patience only at a claim that nobody fills any more.
ClockInv ==
  /\ rpc \in Reading \ {"idle", "repair"} => rRp < rWp
  /\ stuckAt # << >> => stuckAt = <<stuckAt[1]>> /\ stuckAt[1] \in Nat /\ stuckAt[1] < writePos
  /\ overdue => stuckAt # << >> /\ NobodyFills(stuckAt[1])

ClaimInv == TilingInv /\ OwnerInv /\ ClockInv

-----------------------------------------------------------------------------
(* The invariants of an undamaged ring.                                    *)

\* The reader stands at a claim, and everything unfinished is still before it.
PlaceInv ==
  /\ Boundary(readPos)
  /\ \A i \in 1 .. Len(slots) : slots[i].state = "open" => i \in Unread
  /\ rpc # "idle" => Boundary(rWp)

\* The payload of claim i is in all its words.
Whole(i) == \A k \in 0 .. slots[i].size - 1 : mem[Place(i) + k].id = i

\* The type a claim shows once nobody fills it any more and its length is known.
LastType(i) == IF slots[i].state = "dead" THEN "reserved"
               ELSE IF slots[i].kind = "record" THEN "trace" ELSE "padding"

\* The length of claim i has been stored.
Described(i) == \/ slots[i].state \in {"done", "dead"}
                \/ \E w \in Writers : wpc[w] \in {"copy", "commit"} /\ wSlot[w] = i

Consuming(i, pcs) == rpc \in pcs /\ slots[i].start = rRp

\* What the words of an unread claim show.
SlotInv ==
  \A i \in Unread :
    /\ Described(i) /\ ~Consuming(i, {"advance"}) => Header(i).len = slots[i].size
    /\ slots[i].state \in {"done", "dead"} /\ ~Consuming(i, {"clearLen", "advance"})
         => Header(i).type = LastType(i)
    /\ slots[i].state = "done" /\ slots[i].kind = "record" => Whole(i)

\* How far each writer has come with its claim.
FillInv ==
  \A w \in Writers :
    /\ wpc[w] = "padLen" => Header(wSlot[w]).type = "padding"
    /\ wpc[w] \in {"pubLen", "copy", "commit"} => Header(wSlot[w]).type = "reserved"
    /\ wpc[w] = "commit" => Whole(wSlot[w])

\* No other word shows a length, unless what is there are payload bytes.
QuietInv ==
  \A k \in 0 .. Cap - 1 :
    mem[k].len \in {0, Junk} \/ \E i \in Unread : Place(i) = k /\ Described(i)

\* The reader gave up on the claim it stands at.
GaveUp == overdue /\ stuckAt = <<rRp>>

\* What the reader has come to about the claim i it stands at.
Reads(i) ==
  /\ rpc \in {"loadType", "parse"} =>
       \/ rLen = 0 /\ (GaveUp => slots[i].state = "lost")
       \/ rLen = slots[i].size /\ Described(i)
  /\ rpc = "parse" /\ rLen # 0 =>
       \/ rType = "reserved" /\ (GaveUp => slots[i].state = "dead")
       \/ slots[i].state = "done" /\ rType = LastType(i)
  /\ rpc \in {"clear", "clearLen", "advance"} =>
       \/ rLen = 0 /\ slots[i].state = "lost" /\ rTo = rRp + 1
       \/ /\ rLen = slots[i].size /\ slots[i].state \in {"done", "dead"}
          /\ rTo = EndOf(i) /\ rType = LastType(i)
  /\ rpc = "clearLen" => Header(i).type = "trace"
  /\ rpc = "advance" => Header(i).len = 0
  /\ rRec = IF /\ rpc \in {"clear", "clearLen", "advance"}
               /\ slots[i].state = "done" /\ slots[i].kind = "record"
            THEN <<i>> ELSE << >>

ReadInv ==
  /\ rpc = "idle" => rRec = << >>
  /\ rpc # "idle" => \A i \in 1 .. Len(slots) : slots[i].start = rRp => Reads(i)

\* What was returned lies behind the reader, in order, and complete.
DeliveryInv ==
  /\ \A k \in DOMAIN delivered :
       delivered[k] \in 1 .. Len(slots) /\ slots[delivered[k]].start < readPos
  /\ \A j, k \in DOMAIN delivered : j < k => delivered[j] < delivered[k]
  /\ \A i \in 1 .. Len(slots) :
       slots[i].kind = "record" /\ slots[i].state = "done" /\ slots[i].start < readPos
         => \E k \in DOMAIN delivered : delivered[k] = i

DataInv == PlaceInv /\ SlotInv /\ FillInv /\ QuietInv /\ ReadInv /\ DeliveryInv

DInv == IInv /\ ClaimInv /\ (damage = {} => DataInv)

-----------------------------------------------------------------------------
(* Positions and words.                                                    *)

\* A multiple of the capacity is at least a capacity below the next.
LEMMA LapsApart ==
  ASSUME NEW a \in Int, NEW b \in Int, a < b
  PROVE  a * Cap + Cap <= b * Cap
<1>1. (b - a - 1) * Cap >= 0
  BY RingAssumption
<1>2. (b - a - 1) * Cap = b * Cap - a * Cap - Cap
  BY RingAssumption
<1> QED
  BY <1>1, <1>2, RingAssumption

\* A position is a lap and an offset.
LEMMA LapOf ==
  ASSUME NEW p \in Nat
  PROVE  Off(p) \in 0 .. Cap - 1 /\ \E a \in Int : p = a * Cap + Off(p)
<1> DEFINE a == p \div Cap
<1>1. a \in Int /\ p = Cap * a + (p % Cap) /\ p % Cap \in 0 .. Cap - 1
  BY RingAssumption
<1>2. Cap * a = a * Cap
  BY <1>1, RingAssumption
<1>3. p = a * Cap + Off(p)
  BY <1>1, <1>2 DEF Off
<1> HIDE DEF a
<1> QED
  BY <1>1, <1>3 DEF Off

\* Lap and offset are unique.
LEMMA LapUnique ==
  ASSUME NEW a \in Int, NEW b \in Int, NEW r \in 0 .. Cap - 1, NEW s \in 0 .. Cap - 1,
         a * Cap + r = b * Cap + s
  PROVE  a = b /\ r = s
<1>1. ~(a < b)
  BY LapsApart, RingAssumption
<1>2. ~(b < a)
  BY LapsApart, RingAssumption
<1> QED
  BY <1>1, <1>2, RingAssumption

\* Positions less than a capacity apart are different words.
LEMMA OffDistinct ==
  ASSUME NEW p \in Nat, NEW q \in Nat, p < q, q < p + Cap
  PROVE  Off(p) # Off(q)
<1>1. PICK a \in Int : p = a * Cap + Off(p)
  BY LapOf
<1>2. PICK b \in Int : q = b * Cap + Off(q)
  BY LapOf
<1>3. Off(p) \in 0 .. Cap - 1 /\ Off(q) \in 0 .. Cap - 1
  BY LapOf
<1> SUFFICES ASSUME Off(p) = Off(q) PROVE FALSE
  OBVIOUS
<1>4. a * Cap \in Int /\ b * Cap \in Int
  BY RingAssumption
<1>5. a * Cap < b * Cap /\ b * Cap < a * Cap + Cap
  BY <1>1, <1>2, <1>3, <1>4, RingAssumption
<1>6. a < b
  <2>1. CASE b < a
    BY <1>4, <1>5, <2>1, LapsApart, RingAssumption
  <2>2. CASE a = b
    BY <1>4, <1>5, <2>2
  <2> QED
    BY <2>1, <2>2
<1> QED
  BY <1>4, <1>5, <1>6, LapsApart, RingAssumption

\* Within a claim, which does not wrap around, offsets count up.
LEMMA OffAdd ==
  ASSUME NEW p \in Nat, NEW k \in Nat, Off(p) + k < Cap
  PROVE  Off(p + k) = Off(p) + k
<1>1. PICK a \in Int : p = a * Cap + Off(p)
  BY LapOf
<1>2. PICK b \in Int : p + k = b * Cap + Off(p + k)
  BY LapOf
<1>3. Off(p) \in 0 .. Cap - 1 /\ Off(p + k) \in 0 .. Cap - 1
  BY LapOf
<1>4. a * Cap \in Int /\ b * Cap \in Int /\ Off(p) + k \in 0 .. Cap - 1
  BY <1>3, RingAssumption
<1>5. a * Cap + (Off(p) + k) = b * Cap + Off(p + k)
  BY <1>1, <1>2, <1>3, <1>4
<1> QED
  BY <1>3, <1>4, <1>5, LapUnique

-----------------------------------------------------------------------------
(* Claims.                                                                 *)

\* The parts of a claim.
LEMMA SlotTyped ==
  ASSUME TypeOK
  PROVE  /\ Len(slots) \in Nat
         /\ \A i \in 1 .. Len(slots) :
              /\ slots[i] \in Slot
              /\ slots[i].start \in Nat /\ slots[i].size \in Nat
              /\ slots[i].kind \in {"record", "padding"}
              /\ slots[i].state \in {"open", "done", "dead", "lost"}
              /\ Place(i) \in 0 .. Cap - 1
<1>1. slots \in Seq(Slot)
  BY DEF TypeOK, HistoryOK
<1>2. Len(slots) \in Nat
  BY <1>1, LenProperties
<1>3. \A i \in 1 .. Len(slots) : slots[i] \in Slot
  BY <1>1, ElementOfSeq
<1>4. \A i \in 1 .. Len(slots) : slots[i].start \in Nat /\ Place(i) \in 0 .. Cap - 1
  BY <1>3, LapOf DEF Slot, Place
<1> QED
  BY <1>2, <1>3, <1>4 DEF Slot

\* Two claims that are both unread have no word in common.
LEMMA UnreadApart ==
  ASSUME TypeOK, TilingInv, writePos <= readPos + Cap,
         NEW i \in Unread, NEW j \in Unread, i # j,
         NEW a \in 0 .. slots[i].size - 1, NEW b \in 0 .. slots[j].size - 1
  PROVE  Place(i) + a # Place(j) + b
<1>1. writePos \in Nat /\ readPos \in Nat
  BY DEF TypeOK, SharedOK
<1>2. ASSUME NEW m \in Unread, NEW n \in Unread, m < n,
             NEW c \in 0 .. slots[m].size - 1, NEW d \in 0 .. slots[n].size - 1
      PROVE  Place(m) + c # Place(n) + d
  <2> DEFINE p == slots[m].start + c
             q == slots[n].start + d
  <2>1. /\ slots[m].start \in Nat /\ slots[n].start \in Nat
        /\ slots[m].size \in Nat /\ slots[n].size \in Nat
        /\ Place(m) \in Nat /\ Place(n) \in Nat
        /\ slots[m].start >= readPos
    BY SlotTyped DEF Unread
  <2>2. EndOf(m) <= slots[n].start /\ EndOf(n) <= writePos
    BY <1>2 DEF TilingInv, Unread
  <2>3. p \in Nat /\ q \in Nat /\ p < q /\ q < p + Cap
    BY <1>1, <2>1, <2>2, RingAssumption DEF EndOf
  <2>4. Off(p) = Place(m) + c /\ Off(q) = Place(n) + d
    <3>1. Place(m) + slots[m].size <= Cap /\ Place(n) + slots[n].size <= Cap
      BY DEF TilingInv, Unread
    <3> QED
      BY <2>1, <3>1, OffAdd, RingAssumption DEF Place
  <2> HIDE DEF p, q
  <2> QED
    BY <2>3, <2>4, OffDistinct
<1>3. i \in Nat /\ j \in Nat
  BY SlotTyped DEF Unread
<1>4. CASE i < j
  BY <1>2, <1>4
<1>5. CASE j < i
  BY <1>2, <1>5
<1> QED
  BY <1>3, <1>4, <1>5

\* A position is the start of at most one claim, and inside a claim there is none.
LEMMA StartsApart ==
  ASSUME TypeOK, TilingInv, NEW i \in 1 .. Len(slots)
  PROVE  /\ Boundary(EndOf(i))
         /\ \A j \in 1 .. Len(slots) : slots[j].start = slots[i].start => j = i
         /\ \A p \in Nat : Boundary(p) /\ slots[i].start < p => EndOf(i) <= p
<1>1. \A j \in 1 .. Len(slots) : /\ slots[j].start \in Nat /\ slots[j].size \in Nat
                                 /\ slots[j].size > 0 /\ j \in Nat
  BY SlotTyped DEF TilingInv
<1>2. Len(slots) \in Nat
  BY SlotTyped
<1>3. Boundary(EndOf(i))
  <2>1. CASE EndOf(i) = writePos
    BY <2>1 DEF Boundary
  <2>2. CASE i < Len(slots) /\ slots[i + 1].start = EndOf(i)
    BY <1>2, <2>2 DEF Boundary
  <2> QED
    BY <2>1, <2>2 DEF TilingInv
<1>4. ASSUME NEW j \in 1 .. Len(slots), j < i
      PROVE  slots[j].start < slots[i].start
  BY <1>1, <1>4 DEF TilingInv, EndOf
<1>5. ASSUME NEW j \in 1 .. Len(slots), i < j
      PROVE  EndOf(i) <= slots[j].start
  BY <1>5 DEF TilingInv
<1>6. \A j \in 1 .. Len(slots) : slots[j].start = slots[i].start => j = i
  BY <1>1, <1>4, <1>5 DEF EndOf
<1>7. ASSUME NEW p \in Nat, Boundary(p), slots[i].start < p
      PROVE  EndOf(i) <= p
  <2>1. CASE p = writePos
    BY <2>1 DEF TilingInv
  <2>2. CASE \E j \in 1 .. Len(slots) : slots[j].start = p
    BY <1>1, <1>4, <1>5, <1>7, <2>2
  <2> QED
    BY <1>7, <2>1, <2>2 DEF Boundary
<1> QED
  BY <1>3, <1>6, <1>7

\* Complete words of one claim are taken for that claim and no other.
LEMMA RecordFound ==
  ASSUME TypeOK, TilingInv, NEW i \in 1 .. Len(slots), slots[i].kind = "record", Whole(i)
  PROVE  RecordAt(slots[i].start, slots[i].size) = i
<1> DEFINE whole == {j \in 1 .. Len(slots) :
                      /\ slots[j].start = slots[i].start
                      /\ slots[j].size = slots[i].size
                      /\ slots[j].kind = "record"
                      /\ \A k \in 0 .. slots[i].size - 1 : mem[Off(slots[i].start) + k].id = j}
<1>1. i \in whole
  BY DEF Whole, Place
<1>2. \A j \in whole : j = i
  BY StartsApart
<1>3. RecordAt(slots[i].start, slots[i].size) = IF whole = {} THEN 0 ELSE CHOOSE j \in whole : TRUE
  BY DEF RecordAt
<1> HIDE DEF whole
<1> QED
  BY <1>1, <1>2, <1>3

-----------------------------------------------------------------------------
(* What the steps of a writer do to claims and words.                      *)

Asks(w)    == Begin(w) \/ LoadWritePos(w) \/ LoadReadPos(w) \/ Drop(w) \/ CasFails(w)
Claims(w)  == ClaimPadding(w) \/ ClaimRecord(w)
Fills(w)   == PadType(w) \/ PubType(w) \/ PubLen(w) \/ Copy(w)
Settles(w) == PadLen(w) \/ Commit(w) \/ Die(w)

\* A step of one writer is of one of the four kinds.
LEMMA WriterKinds ==
  ASSUME NEW w \in Writers, Begin(w) \/ WriterStep(w) \/ Die(w)
  PROVE  Asks(w) \/ Claims(w) \/ Fills(w) \/ Settles(w)
BY DEF WriterStep, Asks, Claims, Fills, Settles

\* It changes nothing of another writer and nothing of the reader.
LEMMA WriterFrame ==
  ASSUME TypeOK, NEW w \in Writers, Asks(w) \/ Claims(w) \/ Fills(w) \/ Settles(w)
  PROVE  /\ \A v \in Writers \ {w} : /\ wpc'[v] = wpc[v] /\ wSize'[v] = wSize[v]
                                     /\ wWp'[v] = wWp[v] /\ wSlot'[v] = wSlot[v]
         /\ UNCHANGED <<rvars, readPos, delivered, damage>>
<1>1. UNCHANGED <<rvars, readPos, delivered, damage>>
  BY DEF Asks, Claims, Fills, Settles, Begin, LoadWritePos, LoadReadPos, Drop, CasFails,
     ClaimPadding, ClaimRecord, PadType, PadLen, PubType, PubLen, Copy, Commit, Die, shared, hvars
<1>2. ASSUME NEW v \in Writers \ {w}
      PROVE  /\ wpc'[v] = wpc[v] /\ wSize'[v] = wSize[v]
             /\ wWp'[v] = wWp[v] /\ wSlot'[v] = wSlot[v]
  BY DEF TypeOK, WritersOK, Asks, Claims, Fills, Settles, Begin, LoadWritePos, LoadReadPos, Drop,
     CasFails, ClaimPadding, ClaimRecord, Claim, PadType, PadLen, PubType, PubLen, Copy, Commit,
     Die, Return, WriterAt
<1> QED
  BY <1>1, <1>2

\* A writer that asks owns nothing before and after, and leaves claims and words alone.
LEMMA AskFrame ==
  ASSUME TypeOK, NEW w \in Writers, Asks(w)
  PROVE  /\ UNCHANGED <<slots, mem, writePos>>
         /\ wpc[w] \notin Owning /\ wpc'[w] \notin Owning
<1>1. UNCHANGED <<slots, mem, writePos>>
  BY DEF Asks, Begin, LoadWritePos, LoadReadPos, Drop, CasFails, shared, hvars
<1>2. wpc[w] \notin Owning /\ wpc'[w] \notin Owning
  BY DEF TypeOK, WritersOK, Owning, Asks, Begin, LoadWritePos, LoadReadPos, Drop, CasFails, Return,
     WriterAt
<1> QED
  BY <1>1, <1>2

\* A claim is added behind all others, where the writer's position was, and fits the region.
LEMMA ClaimEffect ==
  ASSUME TypeInv, OwnerInv, NEW w \in Writers, Claims(w)
  PROVE  /\ Len(slots') = Len(slots) + 1
         /\ \A i \in 1 .. Len(slots) : slots'[i] = slots[i]
         /\ slots'[Len(slots) + 1].start = writePos /\ slots'[Len(slots) + 1].state = "open"
         /\ writePos' = writePos + slots'[Len(slots) + 1].size
         /\ slots'[Len(slots) + 1].size > 0
         /\ Off(writePos) + slots'[Len(slots) + 1].size <= Cap
         /\ wpc[w] = "decide" /\ wSlot'[w] = Len(slots) + 1
         /\ wWp'[w] = writePos /\ wSize'[w] = wSize[w] /\ UNCHANGED mem
         /\ \/ /\ wpc'[w] = "padType" /\ slots'[Len(slots) + 1].kind = "padding"
               /\ slots'[Len(slots) + 1].size = Cap - Off(writePos)
            \/ /\ wpc'[w] = "pubType" /\ slots'[Len(slots) + 1].kind = "record"
               /\ slots'[Len(slots) + 1].size = wSize[w]
<1> USE DEF TypeInv
<1> DEFINE n    == IF ClaimPadding(w) THEN TailOf(w) ELSE wSize[w]
           kind == IF ClaimPadding(w) THEN "padding" ELSE "record"
           c    == [start |-> writePos, size |-> n, kind |-> kind, state |-> "open"]
<1>1. /\ wpc[w] = "decide" /\ writePos = wWp[w] /\ writePos' = writePos + n
      /\ slots' = Append(slots, c) /\ wSlot'[w] = Len(slots) + 1
      /\ UNCHANGED <<wWp, wSize, mem>>
      /\ wpc'[w] = IF ClaimPadding(w) THEN "padType" ELSE "pubType"
  BY DEF Claims, ClaimPadding, ClaimRecord, Claim, WriterAt, TypeOK, WritersOK
<1>2. /\ wSize[w] \in Nat /\ wSize[w] > 0 /\ TailOf(w) \in 1 .. Cap
      /\ Off(writePos) \in 0 .. Cap - 1
  BY <1>1, TailPositive, LapOf DEF TypeOK, WritersOK, SharedOK, OwnerInv, Free
<1>3. n \in Nat /\ n > 0 /\ Off(writePos) + n <= Cap
  <2>1. CASE ClaimPadding(w)
    BY <1>1, <1>2, <2>1, RingAssumption DEF TailOf
  <2>2. CASE ~ClaimPadding(w)
    <3>1. TailOf(w) >= wSize[w]
      BY <1>2, <2>2 DEF Claims, ClaimRecord, NeedsPadding
    <3> QED
      BY <1>1, <1>2, <2>2, <3>1, RingAssumption DEF TailOf
  <2> QED
    BY <2>1, <2>2
<1>4. c \in Slot /\ slots \in Seq(Slot)
  BY <1>3 DEF Slot, TypeOK, HistoryOK, SharedOK
<1>5. /\ Len(slots') = Len(slots) + 1 /\ slots'[Len(slots) + 1] = c
      /\ \A i \in 1 .. Len(slots) : slots'[i] = slots[i]
  <2> HIDE DEF c
  <2> QED
    BY <1>1, <1>4, AppendProperties
<1>6. n = IF ClaimPadding(w) THEN Cap - Off(writePos) ELSE wSize[w]
  BY <1>1 DEF TailOf
<1> QED
  BY <1>1, <1>3, <1>5, <1>6

\* The state a claim is left in by the writer that settles it.
Verdict(w) == IF PadLen(w) \/ Commit(w) THEN "done"
              ELSE IF wpc[w] \in {"copy", "commit"} THEN "dead" ELSE "lost"

\* Settling changes the state of the writer's own claim and of no other.
LEMMA SettleEffect ==
  ASSUME TypeInv, OwnerInv, NEW w \in Writers, Settles(w)
  PROVE  /\ Len(slots') = Len(slots) /\ writePos' = writePos
         /\ wpc'[w] \notin Owning
         /\ \A i \in 1 .. Len(slots) :
              /\ slots'[i].start = slots[i].start /\ slots'[i].size = slots[i].size
              /\ slots'[i].kind = slots[i].kind
              /\ slots'[i].state = IF wpc[w] \in Owning /\ i = wSlot[w]
                                   THEN Verdict(w) ELSE slots[i].state
         /\ wpc[w] \in Owning => wSlot[w] \in 1 .. Len(slots)
         /\ wpc'[w] \notin Free => wSize'[w] > 0
<1> USE DEF TypeInv
<1>1. slots \in Seq(Slot) /\ Len(slots) \in Nat
  BY SlotTyped DEF TypeOK, HistoryOK
<1>2. wpc[w] \in Owning => wSlot[w] \in 1 .. Len(slots)
  BY <1>1 DEF WriterInv, TypeOK, WritersOK
<1>3. wpc'[w] \notin Owning /\ writePos' = writePos
  BY DEF Settles, PadLen, Commit, Die, WriterAt, Return, Owning, TypeOK, WritersOK, shared
<1>4. slots' = IF wpc[w] \in Owning THEN [slots EXCEPT ![wSlot[w]].state = Verdict(w)] ELSE slots
  <2>1. CASE PadLen(w) \/ Commit(w)
    BY <2>1 DEF PadLen, Commit, WriterAt, Finish, Verdict, Owning
  <2>2. CASE ~(PadLen(w) \/ Commit(w))
    <3>1. Die(w)
      BY <2>2 DEF Settles
    <3> QED
      BY <2>2, <3>1 DEF Die, Verdict, Owning
  <2> QED
    BY <2>1, <2>2
<1>5. CASE wpc[w] \in Owning
  <2>1. /\ Len(slots') = Len(slots)
        /\ \A i \in 1 .. Len(slots) :
              slots'[i] = IF i = wSlot[w] THEN [slots[i] EXCEPT !.state = Verdict(w)] ELSE slots[i]
    <3> DEFINE e == [slots[wSlot[w]] EXCEPT !.state = Verdict(w)]
    <3>1. slots' = [slots EXCEPT ![wSlot[w]] = e]
      BY <1>4, <1>5
    <3>2. e \in Slot
      <4>1. Verdict(w) \in {"done", "dead", "lost"}
        BY DEF Verdict
      <4>2. slots[wSlot[w]] \in Slot
        BY <1>1, <1>2, <1>5, ElementOfSeq
      <4> QED
        BY <4>1, <4>2 DEF Slot
    <3> HIDE DEF e
    <3>3. Len(slots') = Len(slots) /\ \A i \in 1 .. Len(slots) : slots'[i] = IF i = wSlot[w] THEN e ELSE slots[i]
      BY <1>1, <1>2, <1>5, <3>1, <3>2, ExceptSeq
    <3> QED
      BY <3>3 DEF e
  <2>2. \A i \in 1 .. Len(slots) : slots[i] \in Slot
    BY <1>1, ElementOfSeq
  <2>3. \A i \in 1 .. Len(slots) :
              /\ slots'[i].start = slots[i].start /\ slots'[i].size = slots[i].size
              /\ slots'[i].kind = slots[i].kind
              /\ slots'[i].state = IF i = wSlot[w] THEN Verdict(w) ELSE slots[i].state
    BY <2>1, <2>2 DEF Slot
  <2>4. wpc'[w] \notin Free => wSize'[w] > 0
    BY <1>5 DEF OwnerInv, Settles, PadLen, Commit, Die, WriterAt, Return, Owning, Free, TypeOK, WritersOK
  <2> QED
    BY <1>2, <1>3, <1>5, <2>1, <2>3, <2>4
<1>6. CASE wpc[w] \notin Owning
  <2>1. slots' = slots /\ Die(w)
    BY <1>4, <1>6 DEF Settles, PadLen, Commit, WriterAt, Owning
  <2>2. wpc'[w] \in Free
    BY <2>1 DEF Die, Return, Free, TypeOK, WritersOK
  <2> QED
    BY <1>2, <1>3, <1>6, <2>1, <2>2
<1> QED
  BY <1>5, <1>6

\* A writer that fills its claim leaves the claims alone and still owns it.
LEMMA FillFrame ==
  ASSUME TypeOK, NEW w \in Writers, Fills(w)
  PROVE  /\ UNCHANGED <<slots, writePos>>
         /\ wpc[w] \in Owning /\ wpc'[w] \in Owning
         /\ wSize'[w] = wSize[w] /\ wWp'[w] = wWp[w] /\ wSlot'[w] = wSlot[w]
         /\ wpc[w] \in {"padType", "padLen"} <=> wpc'[w] \in {"padType", "padLen"}
         /\ \/ PadType(w) /\ wpc[w] = "padType" /\ wpc'[w] = "padLen"
            \/ PubType(w) /\ wpc[w] = "pubType" /\ wpc'[w] = "pubLen"
            \/ PubLen(w) /\ wpc[w] = "pubLen" /\ wpc'[w] = "copy"
            \/ Copy(w) /\ wpc[w] = "copy" /\ wpc'[w] = "commit"
BY DEF TypeOK, WritersOK, Owning, Fills, PadType, PubType, PubLen, Copy, WriterAt, hvars

\* The reader, the clock and a crash of the collector leave writers and claims alone.
LEMMA ReaderFrame ==
  ASSUME ReaderStep \/ TimeOut \/ Crash
  PROVE  UNCHANGED <<wvars, slots, writePos>>
BY DEF ReaderStep, LoadPositions, Repair, LoadLen, LoadType, Wait, Abandon, SkipCorrupt,
   SkipPadding, CopyPayload, ClearType, ClearLen, Advance, Panic, TimeOut, Crash, Reopen, hvars, shared

-----------------------------------------------------------------------------
(* Claims and their owners.                                                *)

LEMMA StepTiling ==
  ASSUME TypeInv, TilingInv, OwnerInv, [Next]_vars
  PROVE  TilingInv'
<1>1. /\ Len(slots) \in Nat /\ writePos \in Nat
      /\ \A i \in 1 .. Len(slots) : slots[i].start \in Nat /\ slots[i].size \in Nat
  BY SlotTyped DEF TypeInv, TypeOK, SharedOK
<1>2. CASE /\ Len(slots') = Len(slots) /\ writePos' = writePos
           /\ \A i \in 1 .. Len(slots) :
                slots'[i].start = slots[i].start /\ slots'[i].size = slots[i].size
  <2>1. \A i \in 1 .. Len(slots) : Place(i)' = Place(i) /\ EndOf(i)' = EndOf(i)
    BY <1>2 DEF Place, EndOf
  <2>2. \A i \in 1 .. Len(slots) : i < Len(slots) => slots'[i + 1].start = slots[i + 1].start
    BY <1>1, <1>2
  <2> QED
    BY <1>1, <1>2, <2>1, <2>2 DEF TilingInv
<1>3. ASSUME NEW w \in Writers, Claims(w)
      PROVE  TilingInv'
  <2>1. /\ Len(slots') = Len(slots) + 1
        /\ \A i \in 1 .. Len(slots) : slots'[i] = slots[i]
        /\ slots'[Len(slots) + 1].start = writePos
        /\ writePos' = writePos + slots'[Len(slots) + 1].size
        /\ slots'[Len(slots) + 1].size > 0
        /\ Off(writePos) + slots'[Len(slots) + 1].size <= Cap
    BY <1>3, ClaimEffect
  <2>2. slots'[Len(slots) + 1].size \in Nat
    <3>1. slots' \in Seq(Slot)
      BY <1>3, ClaimTypeInv DEF Claims, TypeInv, TypeOK, HistoryOK
    <3>2. slots'[Len(slots) + 1] \in Slot
      BY <1>1, <2>1, <3>1, ElementOfSeq
    <3> QED
      BY <3>2 DEF Slot
  <2>3. ASSUME NEW i \in 1 .. Len(slots')
        PROVE  /\ slots'[i].size > 0
               /\ Place(i)' + slots'[i].size <= Cap
               /\ EndOf(i)' <= writePos'
               /\ EndOf(i)' = writePos' \/ (i < Len(slots') /\ slots'[i + 1].start = EndOf(i)')
    <3>1. CASE i \in 1 .. Len(slots)
      <4>1. Place(i)' = Place(i) /\ EndOf(i)' = EndOf(i) /\ EndOf(i) \in Nat
        BY <1>1, <2>1, <3>1 DEF Place, EndOf
      <4>2. i < Len(slots) => slots'[i + 1].start = slots[i + 1].start
        BY <1>1, <2>1, <3>1
      <4>3. CASE EndOf(i) = writePos
        <5>1. i = Len(slots) \/ i < Len(slots)
          BY <1>1, <3>1
        <5>2. CASE i = Len(slots)
          BY <1>1, <2>1, <2>2, <3>1, <4>1, <4>3, <5>2 DEF TilingInv
        <5>3. CASE i < Len(slots)
          <6>1. EndOf(i) <= slots[i + 1].start /\ slots[i + 1].start < EndOf(i + 1)
                /\ EndOf(i + 1) <= writePos
            BY <1>1, <3>1, <5>3 DEF TilingInv, EndOf
          <6> QED
            BY SMTT(30), <1>1, <3>1, <4>3, <5>3, <6>1 DEF EndOf
        <5> QED
          BY <5>1, <5>2, <5>3
      <4>4. CASE i < Len(slots) /\ slots[i + 1].start = EndOf(i)
        BY <1>1, <2>1, <2>2, <3>1, <4>1, <4>2, <4>4 DEF TilingInv
      <4> QED
        BY <3>1, <4>3, <4>4 DEF TilingInv
    <3>2. CASE i = Len(slots) + 1
      BY <1>1, <2>1, <2>2, <3>2 DEF Place, EndOf
    <3> QED
      BY <1>1, <2>1, <3>1, <3>2
  <2>4. ASSUME NEW i \in 1 .. Len(slots'), NEW j \in 1 .. Len(slots'), i < j
        PROVE  EndOf(i)' <= slots'[j].start
    <3>1. i \in 1 .. Len(slots)
      BY <1>1, <2>1, <2>4
    <3>2. CASE j \in 1 .. Len(slots)
      BY <2>1, <2>4, <3>1, <3>2 DEF TilingInv, EndOf
    <3>3. CASE j = Len(slots) + 1
      BY <2>1, <3>1, <3>3 DEF TilingInv, EndOf
    <3> QED
      BY <1>1, <2>1, <3>2, <3>3
  <2> QED
    BY <2>3, <2>4 DEF TilingInv
<1>4. CASE \E w \in Writers : Begin(w) \/ WriterStep(w) \/ Die(w)
  BY <1>2, <1>3, <1>4, WriterKinds, AskFrame, FillFrame, SettleEffect DEF TypeInv
<1>5. CASE ReaderStep \/ TimeOut \/ Crash
  BY <1>2, <1>5, ReaderFrame
<1>6. CASE UNCHANGED vars
  BY <1>2, <1>6 DEF vars, shared, hvars
<1> QED
  BY <1>4, <1>5, <1>6 DEF Next

\* A claim has one owner until it is settled.
LEMMA StepOwner ==
  ASSUME TypeInv, OwnerInv, [Next]_vars
  PROVE  OwnerInv'
<1>1. /\ Len(slots) \in Nat
      /\ \A v \in Writers : wpc[v] \in Owning => wSlot[v] \in 1 .. Len(slots)
      /\ \A v \in Writers : wSize[v] \in Nat /\ wSlot[v] \in Nat
  BY SlotTyped DEF TypeInv, TypeOK, WritersOK, WriterInv
<1>2. ASSUME NEW w \in Writers, Asks(w)
      PROVE  OwnerInv'
  <2>1. UNCHANGED slots /\ wpc[w] \notin Owning /\ wpc'[w] \notin Owning
    BY <1>2, AskFrame DEF TypeInv
  <2>2. \A v \in Writers \ {w} : /\ wpc'[v] = wpc[v] /\ wSize'[v] = wSize[v]
                                 /\ wWp'[v] = wWp[v] /\ wSlot'[v] = wSlot[v]
    BY <1>2, WriterFrame DEF TypeInv
  <2>3. wpc'[w] \notin Free => wSize'[w] > 0
    BY <1>2, RingAssumption DEF Asks, Begin, LoadWritePos, LoadReadPos, Drop, CasFails, Return,
       WriterAt, OwnerInv, Free, TypeInv, TypeOK, WritersOK
  <2> QED
    BY <2>1, <2>2, <2>3 DEF OwnerInv, TailOf
<1>3. ASSUME NEW w \in Writers, Claims(w)
      PROVE  OwnerInv'
  <2>1. /\ Len(slots') = Len(slots) + 1
        /\ \A i \in 1 .. Len(slots) : slots'[i] = slots[i]
        /\ slots'[Len(slots) + 1].start = writePos /\ slots'[Len(slots) + 1].state = "open"
        /\ wpc[w] = "decide" /\ wSlot'[w] = Len(slots) + 1
        /\ wWp'[w] = writePos /\ wSize'[w] = wSize[w]
        /\ \/ /\ wpc'[w] = "padType" /\ slots'[Len(slots) + 1].kind = "padding"
              /\ slots'[Len(slots) + 1].size = Cap - Off(writePos)
           \/ /\ wpc'[w] = "pubType" /\ slots'[Len(slots) + 1].kind = "record"
              /\ slots'[Len(slots) + 1].size = wSize[w]
    BY <1>3, ClaimEffect
  <2>2. \A v \in Writers \ {w} : /\ wpc'[v] = wpc[v] /\ wSize'[v] = wSize[v]
                                 /\ wWp'[v] = wWp[v] /\ wSlot'[v] = wSlot[v]
    BY <1>3, WriterFrame DEF TypeInv
  <2>3. ASSUME NEW v \in Writers, wpc'[v] \in Owning
        PROVE  /\ slots'[wSlot'[v]].state = "open"
               /\ slots'[wSlot'[v]].start = wWp'[v]
               /\ wpc'[v] \in {"padType", "padLen"} =>
                    slots'[wSlot'[v]].kind = "padding" /\ slots'[wSlot'[v]].size = TailOf(v)'
               /\ wpc'[v] \notin {"padType", "padLen"} =>
                    slots'[wSlot'[v]].kind = "record" /\ slots'[wSlot'[v]].size = wSize'[v]
    <3>1. CASE v = w
      BY <2>1, <3>1 DEF TailOf
    <3>2. CASE v # w
      BY <1>1, <2>1, <2>2, <2>3, <3>2 DEF OwnerInv, TailOf
    <3> QED
      BY <3>1, <3>2
  <2>4. \A v \in Writers : wpc'[v] \notin Free => wSize'[v] > 0
    BY <2>1, <2>2 DEF OwnerInv, Free
  <2>5. \A u, v \in Writers :
          u # v /\ wpc'[u] \in Owning /\ wpc'[v] \in Owning => wSlot'[u] # wSlot'[v]
    BY <1>1, <2>1, <2>2 DEF OwnerInv
  <2>6. \A i \in 1 .. Len(slots') :
          /\ slots'[i].state = "open" => \E v \in Writers : wpc'[v] \in Owning /\ wSlot'[v] = i
          /\ slots'[i].state = "dead" => slots'[i].kind = "record"
    <3> SUFFICES ASSUME NEW i \in 1 .. Len(slots')
                 PROVE  /\ slots'[i].state = "open" =>
                             \E v \in Writers : wpc'[v] \in Owning /\ wSlot'[v] = i
                        /\ slots'[i].state = "dead" => slots'[i].kind = "record"
      OBVIOUS
    <3>1. CASE i = Len(slots) + 1
      BY <2>1, <3>1 DEF Owning
    <3>2. CASE i \in 1 .. Len(slots)
      <4>1. slots'[i] = slots[i] /\ wpc[w] \notin Owning
        BY <2>1, <3>2 DEF Owning
      <4> QED
        BY <2>2, <3>2, <4>1 DEF OwnerInv
    <3> QED
      BY <1>1, <2>1, <3>1, <3>2
  <2> QED
    BY <2>3, <2>4, <2>5, <2>6 DEF OwnerInv
<1>4. ASSUME NEW w \in Writers, Fills(w)
      PROVE  OwnerInv'
  <2>1. /\ UNCHANGED slots
        /\ wpc[w] \in Owning /\ wpc'[w] \in Owning
        /\ wSize'[w] = wSize[w] /\ wWp'[w] = wWp[w] /\ wSlot'[w] = wSlot[w]
        /\ wpc[w] \in {"padType", "padLen"} <=> wpc'[w] \in {"padType", "padLen"}
    BY <1>4, FillFrame DEF TypeInv
  <2>2. \A v \in Writers \ {w} : /\ wpc'[v] = wpc[v] /\ wSize'[v] = wSize[v]
                                 /\ wWp'[v] = wWp[v] /\ wSlot'[v] = wSlot[v]
    BY <1>4, WriterFrame DEF TypeInv
  <2> QED
    BY <2>1, <2>2 DEF OwnerInv, TailOf, Owning, Free
<1>5. ASSUME NEW w \in Writers, Settles(w)
      PROVE  OwnerInv'
  <2>1. /\ Len(slots') = Len(slots)
        /\ wpc'[w] \notin Owning
        /\ \A i \in 1 .. Len(slots) :
              /\ slots'[i].start = slots[i].start /\ slots'[i].size = slots[i].size
              /\ slots'[i].kind = slots[i].kind
              /\ slots'[i].state = IF wpc[w] \in Owning /\ i = wSlot[w]
                                   THEN Verdict(w) ELSE slots[i].state
        /\ wpc'[w] \notin Free => wSize'[w] > 0
    BY <1>5, SettleEffect
  <2>2. \A v \in Writers \ {w} : /\ wpc'[v] = wpc[v] /\ wSize'[v] = wSize[v]
                                 /\ wWp'[v] = wWp[v] /\ wSlot'[v] = wSlot[v]
    BY <1>5, WriterFrame DEF TypeInv
  <2>3. Verdict(w) # "open" /\ (Verdict(w) = "dead" => wpc[w] \in {"copy", "commit"})
    BY DEF Verdict
  <2>4. \A v \in Writers : wpc'[v] \in Owning => wpc[v] \in Owning /\ v # w
    BY <2>1, <2>2
  <2>5. \A v \in Writers : v # w /\ wpc[v] \in Owning => slots'[wSlot[v]].state = "open"
    BY <1>1, <2>1 DEF OwnerInv
  <2>6. \A i \in 1 .. Len(slots) :
          /\ slots'[i].state = "open" => \E v \in Writers : wpc'[v] \in Owning /\ wSlot'[v] = i
          /\ slots'[i].state = "dead" => slots'[i].kind = "record"
    BY <1>1, <2>1, <2>2, <2>3 DEF OwnerInv, Owning
  <2> QED
    BY <1>1, <2>1, <2>2, <2>4, <2>5, <2>6 DEF OwnerInv, TailOf
<1>6. CASE \E w \in Writers : Begin(w) \/ WriterStep(w) \/ Die(w)
  BY <1>2, <1>3, <1>4, <1>5, <1>6, WriterKinds
<1>7. CASE ReaderStep \/ TimeOut \/ Crash \/ UNCHANGED vars
  <2>1. UNCHANGED <<wpc, wSize, wWp, wSlot, slots>>
    BY <1>7, ReaderFrame DEF vars, wvars, hvars
  <2> QED
    BY <2>1 DEF OwnerInv, TailOf
<1> QED
  BY <1>6, <1>7 DEF Next

\* A claim that nobody fills stays so: new claims begin at the write position.
LEMMA StaysAbandoned ==
  ASSUME TypeInv, OwnerInv, NEW p \in Nat, p < writePos, NobodyFills(p),
         NEW w \in Writers, Asks(w) \/ Claims(w) \/ Fills(w) \/ Settles(w)
  PROVE  NobodyFills(p)' /\ p < writePos'
<1>1. /\ Len(slots) \in Nat /\ writePos \in Nat
      /\ \A v \in Writers : wpc[v] \in Owning => wSlot[v] \in 1 .. Len(slots)
  BY SlotTyped DEF TypeInv, TypeOK, SharedOK, WritersOK, WriterInv
<1>2. \A v \in Writers \ {w} : wpc'[v] = wpc[v] /\ wSlot'[v] = wSlot[v]
  BY WriterFrame DEF TypeInv
<1>3. CASE Asks(w)
  BY <1>2, <1>3, AskFrame DEF TypeInv, NobodyFills
<1>4. CASE Claims(w)
  <2>1. /\ Len(slots') = Len(slots) + 1
        /\ \A i \in 1 .. Len(slots) : slots'[i] = slots[i]
        /\ slots'[Len(slots) + 1].start = writePos
        /\ wSlot'[w] = Len(slots) + 1
        /\ writePos <= writePos' /\ writePos' \in Nat
    BY <1>4, ClaimEffect, ClaimMoves DEF Claims
  <2>2. ASSUME NEW v \in Writers, wpc'[v] \in Owning
        PROVE  slots'[wSlot'[v]].start # p
    <3>1. CASE v = w
      BY <1>1, <2>1, <3>1
    <3>2. CASE v # w
      BY <1>1, <1>2, <2>1, <2>2, <3>2 DEF NobodyFills
    <3> QED
      BY <3>1, <3>2
  <2> QED
    BY <1>1, <2>1, <2>2 DEF NobodyFills
<1>5. CASE Fills(w)
  BY <1>2, <1>5, FillFrame DEF TypeInv, NobodyFills
<1>6. CASE Settles(w)
  <2>1. /\ writePos' = writePos /\ wpc'[w] \notin Owning
        /\ \A i \in 1 .. Len(slots) : slots'[i].start = slots[i].start
    BY <1>6, SettleEffect
  <2> QED
    BY <1>1, <1>2, <2>1 DEF NobodyFills
<1> QED
  BY <1>3, <1>4, <1>5, <1>6

\* The clock runs out only at a claim whose writer has died or is done.
LEMMA StepClock ==
  ASSUME PromptWriters, TypeInv, ReaderInv, OwnerInv, ClockInv, [Next]_vars
  PROVE  ClockInv'
<1>1. /\ writePos \in Nat /\ readPos \in Nat /\ rRp \in Nat /\ rWp \in Nat /\ rpc \in Reading
  BY DEF TypeInv, TypeOK, SharedOK, ReaderOK
<1>2. ASSUME NEW w \in Writers, Asks(w) \/ Claims(w) \/ Fills(w) \/ Settles(w)
      PROVE  ClockInv'
  <2>1. UNCHANGED <<rpc, rRp, rWp, stuckAt, overdue>>
    BY <1>2, WriterFrame DEF TypeInv, rvars
  <2>2. writePos' \in Nat /\ writePos <= writePos'
    BY <1>1, <1>2, AskFrame, FillFrame, SettleEffect, ClaimMoves DEF TypeInv, Claims
  <2>3. overdue => NobodyFills(stuckAt[1])'
    BY <1>2, <2>1, StaysAbandoned DEF ClockInv, NobodyFills
  <2> QED
    BY <1>1, <2>1, <2>2, <2>3 DEF ClockInv
<1>3. CASE ReaderStep \/ TimeOut \/ Crash
  <2>1. UNCHANGED <<wpc, wSlot, slots, writePos>>
    BY <1>3, ReaderFrame DEF wvars
  <2>2. rpc' \in Reading \ {"idle", "repair"} => rRp' < rWp'
    BY <1>1, <1>3 DEF ClockInv, ReaderStep, LoadPositions, Repair, LoadLen, LoadType, Wait, Abandon,
       SkipCorrupt, SkipPadding, CopyPayload, ClearType, ClearLen, Advance, Panic, ReaderAt, Leave,
       Reopen, TimeOut, Crash, Reading
  <2>3. CASE Wait
    <3>1. stuckAt' = <<rRp>> /\ overdue' = FALSE /\ rRp < writePos
      BY <1>1, <2>3 DEF Wait, ClockInv, ReaderInv, Reading
    <3> QED
      BY <1>1, <2>1, <2>2, <3>1 DEF ClockInv
  <2>4. CASE TimeOut
    <3>1. stuckAt # << >> /\ UNCHANGED stuckAt /\ NobodyFills(stuckAt[1])
      BY <2>4 DEF TimeOut
    <3> QED
      BY <2>1, <2>2, <3>1 DEF ClockInv, NobodyFills
  <2>5. CASE ~Wait /\ ~TimeOut
    <3>1. UNCHANGED <<stuckAt, overdue>> \/ (stuckAt' = << >> /\ overdue' = FALSE)
      BY <1>3, <2>5 DEF ReaderStep, LoadPositions, Repair, LoadLen, LoadType, Abandon,
         SkipCorrupt, SkipPadding, CopyPayload, ClearType, ClearLen, Advance, Panic, Reopen, Crash
    <3> QED
      BY <2>1, <2>2, <3>1 DEF ClockInv, NobodyFills
  <2> QED
    BY <2>3, <2>4, <2>5
<1>4. CASE UNCHANGED vars
  <2>1. UNCHANGED <<rpc, rRp, rWp, stuckAt, overdue, writePos, wpc, wSlot, slots>>
    BY <1>4 DEF vars, shared, wvars, rvars, hvars
  <2> QED
    BY <2>1 DEF ClockInv, NobodyFills
<1> QED
  BY <1>2, <1>3, <1>4, WriterKinds DEF Next

\* Claims, owners and clock are preserved together.
LEMMA StepClaimInv ==
  ASSUME PromptWriters, IInv, ClaimInv, [Next]_vars
  PROVE  ClaimInv'
BY StepTiling, StepOwner, StepClock DEF IInv, ClaimInv

-----------------------------------------------------------------------------
(* What the words show.                                                    *)

\* An undamaged ring is level.
LEMMA Undamaged ==
  ASSUME IInv, damage = {}
  PROVE  /\ TypeOK /\ readPos \in Nat /\ writePos \in Nat /\ rRp \in Nat /\ rWp \in Nat
         /\ readPos <= writePos /\ writePos <= readPos + Cap
         /\ rpc \in Reading \ {"repair"}
         /\ rpc # "idle" => rRp = readPos /\ rWp <= writePos
BY DEF IInv, TypeInv, TypeOK, SharedOK, ReaderOK, ReaderInv, LevelInv

\* A live writer's claim is unread, and its position is the place it fills.
LEMMA OwnSlot ==
  ASSUME IInv, ClaimInv, PlaceInv, NEW w \in Writers, wpc[w] \in Owning
  PROVE  /\ wSlot[w] \in Unread /\ wSlot[w] \in 1 .. Len(slots)
         /\ slots[wSlot[w]].state = "open"
         /\ Off(wWp[w]) = Place(wSlot[w])
<1>1. wSlot[w] \in 1 .. Len(slots)
  BY SlotTyped DEF IInv, TypeInv, TypeOK, WritersOK, WriterInv
<1>2. slots[wSlot[w]].state = "open" /\ slots[wSlot[w]].start = wWp[w]
  BY DEF ClaimInv, OwnerInv
<1> QED
  BY <1>1, <1>2 DEF PlaceInv, Place

\* Changing words of one unread claim leaves every other unread claim as it was.
LEMMA OtherWords ==
  ASSUME TypeOK, TilingInv, writePos <= readPos + Cap, NEW s \in Unread,
         \A i \in 1 .. Len(slots) :
            slots'[i].start = slots[i].start /\ slots'[i].size = slots[i].size,
         \A k \in 0 .. Cap - 1 :
            (\A a \in 0 .. slots[s].size - 1 : k # Place(s) + a) => mem'[k] = mem[k]
  PROVE  \A i \in Unread \ {s} : Header(i)' = Header(i) /\ (Whole(i)' <=> Whole(i))
<1> SUFFICES ASSUME NEW i \in Unread \ {s}
             PROVE  Header(i)' = Header(i) /\ (Whole(i)' <=> Whole(i))
  OBVIOUS
<1>1. /\ Place(i) \in Nat /\ slots[i].size \in Nat /\ slots[i].size > 0
      /\ Place(i) + slots[i].size <= Cap /\ i \in 1 .. Len(slots)
  BY SlotTyped DEF TilingInv, Unread
<1>2. Place(i)' = Place(i) /\ slots'[i].size = slots[i].size
  BY <1>1 DEF Place
<1>3. \A b \in 0 .. slots[i].size - 1 : mem'[Place(i) + b] = mem[Place(i) + b]
  <2> SUFFICES ASSUME NEW b \in 0 .. slots[i].size - 1
               PROVE  mem'[Place(i) + b] = mem[Place(i) + b]
    OBVIOUS
  <2>1. Place(i) + b \in 0 .. Cap - 1
    BY <1>1, RingAssumption
  <2>2. \A a \in 0 .. slots[s].size - 1 : Place(i) + b # Place(s) + a
    BY UnreadApart
  <2> QED
    BY <2>1, <2>2
<1>4. Header(i)' = Header(i)
  <2>1. Place(i) + 0 = Place(i) /\ 0 \in 0 .. slots[i].size - 1
    BY <1>1
  <2> QED
    BY <1>2, <1>3, <2>1 DEF Header
<1> QED
  BY <1>2, <1>3, <1>4 DEF Whole

\* A word at which two unread claims begin is the place of one claim.
LEMMA PlaceUnique ==
  ASSUME TypeOK, TilingInv, writePos <= readPos + Cap,
         NEW i \in Unread, NEW j \in Unread, Place(i) = Place(j)
  PROVE  i = j
<1>1. /\ Place(i) \in Nat /\ Place(j) \in Nat
      /\ slots[i].size \in Nat /\ slots[i].size > 0 /\ slots[j].size \in Nat /\ slots[j].size > 0
  BY SlotTyped DEF TilingInv, Unread
<1>2. 0 \in 0 .. slots[i].size - 1 /\ 0 \in 0 .. slots[j].size - 1
  BY <1>1
<1>3. CASE i # j
  BY <1>1, <1>2, <1>3, UnreadApart
<1> QED
  BY <1>3

\* A step that leaves claims, words, positions, reader and owners alone keeps it all.
LEMMA DataFrame ==
  ASSUME DataInv, UNCHANGED <<slots, mem, readPos, writePos, rvars, delivered>>,
         \A v \in Writers : wpc[v] \in Owning \/ wpc'[v] \in Owning =>
            wpc'[v] = wpc[v] /\ wSlot'[v] = wSlot[v]
  PROVE  DataInv'
<1>1. \A i : Described(i)' <=> Described(i)
  BY DEF Described, Owning
<1>2. /\ Unread' = Unread
      /\ \A i : /\ Place(i)' = Place(i) /\ EndOf(i)' = EndOf(i) /\ Header(i)' = Header(i)
                /\ (Whole(i)' <=> Whole(i)) /\ LastType(i)' = LastType(i)
                /\ \A P : Consuming(i, P)' <=> Consuming(i, P)
  BY DEF Unread, Place, EndOf, Header, Whole, LastType, Consuming, rvars
<1>3. PlaceInv'
  BY <1>2 DEF DataInv, PlaceInv, Boundary, rvars
<1>4. SlotInv'
  BY <1>1, <1>2 DEF DataInv, SlotInv
<1>5. FillInv'
  BY <1>2 DEF DataInv, FillInv, Owning
<1>6. QuietInv'
  BY <1>1, <1>2 DEF DataInv, QuietInv
<1>7. ReadInv'
  BY <1>1, <1>2 DEF DataInv, ReadInv, Reads, GaveUp, rvars
<1>8. DeliveryInv'
  BY DEF DataInv, DeliveryInv
<1> QED
  BY <1>3, <1>4, <1>5, <1>6, <1>7, <1>8 DEF DataInv

\* A new claim is behind everything the reader knows.
LEMMA ClaimData ==
  ASSUME IInv, ClaimInv, damage = {}, DataInv, NEW w \in Writers, Claims(w)
  PROVE  DataInv'
<1>0. PICK n \in Nat \ {0} : n = Len(slots) + 1
  BY SlotTyped DEF IInv, TypeInv
<1>1. /\ Len(slots') = n /\ n \in Nat \ {0}
      /\ \A i \in 1 .. Len(slots) : slots'[i] = slots[i]
      /\ slots'[n].start = writePos /\ slots'[n].state = "open"
      /\ wSlot'[w] = n /\ wpc[w] = "decide" /\ wpc'[w] \in {"padType", "pubType"}
      /\ mem' = mem
  BY <1>0, ClaimEffect DEF IInv, ClaimInv
<1>2. /\ UNCHANGED <<rvars, readPos, delivered>>
      /\ \A v \in Writers \ {w} : wpc'[v] = wpc[v] /\ wSlot'[v] = wSlot[v]
  BY WriterFrame DEF IInv, TypeInv
<1>3. /\ writePos \in Nat /\ readPos \in Nat /\ readPos <= writePos
      /\ rpc # "idle" => rRp < writePos
      /\ Len(slots) \in Nat
      /\ \A v \in Writers : wpc[v] \in Owning => wSlot[v] \in 1 .. Len(slots)
  BY Undamaged, SlotTyped, OwnSlot DEF ClaimInv, ClockInv, DataInv
<1>4. /\ Unread' = Unread \cup {n} /\ n \notin 1 .. Len(slots)
      /\ 1 .. Len(slots') = (1 .. Len(slots)) \cup {n}
      /\ Unread \subseteq 1 .. Len(slots)
  BY <1>0, <1>1, <1>2, <1>3 DEF Unread
<1>5. /\ \A i \in 1 .. Len(slots) : Described(i)' <=> Described(i)
      /\ ~Described(n)'
  <2>1. \A v \in Writers : wpc'[v] \in {"copy", "commit"} =>
          v # w /\ wpc[v] = wpc'[v] /\ wSlot'[v] = wSlot[v] /\ wSlot[v] \in 1 .. Len(slots)
    BY <1>1, <1>2, <1>3 DEF Owning
  <2>2. \A v \in Writers : wpc[v] \in {"copy", "commit"} => v # w
    BY <1>1
  <2>3. ASSUME NEW i \in 1 .. Len(slots)
        PROVE  Described(i)' <=> Described(i)
    <3>1. slots'[i] = slots[i]
      BY <1>1
    <3>2. \A v \in Writers : wpc'[v] \in {"copy", "commit"} /\ wSlot'[v] = i
                        <=> wpc[v] \in {"copy", "commit"} /\ wSlot[v] = i
      BY <1>2, <2>1, <2>2
    <3> QED
      BY <3>1, <3>2 DEF Described
  <2>4. ~Described(n)'
    BY <1>1, <1>4, <2>1 DEF Described
  <2> QED
    BY <2>3, <2>4
<1>6. \A i \in 1 .. Len(slots) :
        /\ Place(i)' = Place(i) /\ EndOf(i)' = EndOf(i) /\ Header(i)' = Header(i)
        /\ (Whole(i)' <=> Whole(i)) /\ LastType(i)' = LastType(i)
        /\ \A P : Consuming(i, P)' <=> Consuming(i, P)
  BY <1>1, <1>2 DEF Place, EndOf, Header, Whole, LastType, Consuming, rvars
<1>7. \A p : Boundary(p) => Boundary(p)'
  BY <1>1, <1>4 DEF Boundary
<1>8. PlaceInv'
  BY <1>1, <1>2, <1>4, <1>7 DEF DataInv, PlaceInv, rvars
<1>9. SlotInv'
  <2> SUFFICES ASSUME NEW i \in Unread'
               PROVE  /\ Described(i)' /\ ~Consuming(i, {"advance"})' => Header(i)'.len = slots'[i].size
                      /\ slots'[i].state \in {"done", "dead"} /\ ~Consuming(i, {"clearLen", "advance"})'
                           => Header(i)'.type = LastType(i)'
                      /\ slots'[i].state = "done" /\ slots'[i].kind = "record" => Whole(i)'
    BY DEF SlotInv
  <2>1. CASE i = n
    BY <1>1, <1>5, <2>1
  <2>2. CASE i \in Unread
    <3>1. i \in 1 .. Len(slots) /\ slots'[i] = slots[i]
      BY <1>1, <1>4, <2>2
    <3> QED
      BY <1>5, <1>6, <2>2, <3>1 DEF DataInv, SlotInv
  <2> QED
    BY <1>4, <2>1, <2>2
<1>10. FillInv'
  <2> SUFFICES ASSUME NEW v \in Writers
               PROVE  /\ wpc'[v] = "padLen" => Header(wSlot[v])'.type = "padding"
                      /\ wpc'[v] \in {"pubLen", "copy", "commit"} => Header(wSlot[v])'.type = "reserved"
                      /\ wpc'[v] = "commit" => Whole(wSlot[v])'
    BY DEF FillInv
  <2>1. CASE v = w
    BY <1>1, <2>1
  <2>2. CASE v # w /\ wpc[v] \in Owning
    <3>1. wpc'[v] = wpc[v] /\ wSlot'[v] = wSlot[v] /\ wSlot[v] \in 1 .. Len(slots)
      BY <1>2, <1>3, <2>2
    <3>2. Header(wSlot[v])' = Header(wSlot[v]) /\ (Whole(wSlot[v])' <=> Whole(wSlot[v]))
      BY <1>1, <1>6, <3>1 DEF Header, Whole, Place
    <3> QED
      BY <3>1, <3>2 DEF DataInv, FillInv
  <2>3. CASE v # w /\ wpc[v] \notin Owning
    BY <1>2, <2>3 DEF Owning
  <2> QED
    BY <2>1, <2>2, <2>3
<1>11. QuietInv'
  BY <1>1, <1>4, <1>5, <1>6 DEF DataInv, QuietInv
<1>12. ReadInv'
  <2>1. rpc # "idle" => slots'[n].start # rRp
    BY <1>1, <1>3 DEF ClaimInv, Undamaged
  <2>2. \A i \in 1 .. Len(slots) : Reads(i) => Reads(i)'
    BY <1>1, <1>2, <1>5, <1>6 DEF Reads, GaveUp, rvars
  <2> QED
    BY <1>1, <1>2, <1>4, <2>1, <2>2 DEF DataInv, ReadInv, rvars
<1>13. DeliveryInv'
  BY <1>1, <1>2, <1>4 DEF DataInv, DeliveryInv
<1> QED
  BY <1>8, <1>9, <1>10, <1>11, <1>12, <1>13 DEF DataInv

\* What filling a claim does to its words, and that it leaves the others alone.
LEMMA FillEffect ==
  ASSUME IInv, ClaimInv, PlaceInv, NEW w \in Writers, Fills(w), NEW s, s = wSlot[w]
  PROVE  /\ \A k \in 0 .. Cap - 1 :
              (\A a \in 0 .. slots[s].size - 1 : k # Place(s) + a) => mem'[k] = mem[k]
         /\ \A k \in 0 .. Cap - 1 :
              (mem'[k].len = mem[k].len) \/ (mem'[k].len = Junk) \/ (k = Place(s) /\ PubLen(w))
         /\ PadType(w) => mem'[Place(s)].type = "padding"
         /\ PubType(w) => mem'[Place(s)].type = "reserved"
         /\ PubLen(w) => /\ mem'[Place(s)].type = mem[Place(s)].type
                         /\ mem'[Place(s)].len = slots[s].size
         /\ Copy(w) => /\ mem'[Place(s)].type = mem[Place(s)].type
                       /\ mem'[Place(s)].len = mem[Place(s)].len
                       /\ \A a \in 0 .. slots[s].size - 1 : mem'[Place(s) + a].id = s
<1>1. /\ wpc[w] \in Owning /\ TypeOK
      /\ ~PadType(w) => slots[s].size = wSize[w]
  BY FillFrame DEF IInv, TypeInv, ClaimInv, OwnerInv, PubType, PubLen, Copy, WriterAt
<1>2. /\ s \in 1 .. Len(slots) /\ Off(wWp[w]) = Place(s)
  BY <1>1, OwnSlot
<1>3. /\ slots[s].size \in Nat /\ slots[s].size > 0 /\ Place(s) \in 0 .. Cap - 1
      /\ Place(s) + slots[s].size <= Cap
  BY <1>1, <1>2, SlotTyped DEF ClaimInv, TilingInv
<1>4. Place(s) = Place(s) + 0 /\ 0 \in 0 .. slots[s].size - 1
  BY <1>3
<1>5. mem \in [0 .. Cap - 1 -> Word]
  BY <1>1 DEF TypeOK, SharedOK
<1>6. CASE PadType(w) \/ PubType(w)
  <2>1. PICK t : /\ mem' = [mem EXCEPT ![Place(s)].type = t]
                 /\ t = IF PadType(w) THEN "padding" ELSE "reserved"
    BY <1>2, <1>6 DEF PadType, PubType, StoreType, WriterAt
  <2>2. \A k \in 0 .. Cap - 1 : /\ mem'[k].len = mem[k].len
                                /\ k # Place(s) => mem'[k] = mem[k]
    BY <1>3, <1>5, <2>1 DEF Word
  <2>3. mem'[Place(s)].type = t
    BY <1>3, <1>5, <2>1 DEF Word
  <2>4. ~PubLen(w) /\ ~Copy(w) /\ ~(PadType(w) /\ PubType(w))
    BY <1>6 DEF PadType, PubType, PubLen, Copy, WriterAt
  <2> QED
    BY <1>4, <1>6, <2>1, <2>2, <2>3, <2>4
<1>7. CASE PubLen(w)
  <2>1. mem' = [mem EXCEPT ![Place(s)].len = slots[s].size]
    BY <1>1, <1>2, <1>7 DEF PubLen, PadType, StoreLen, WriterAt
  <2>2. \A k \in 0 .. Cap - 1 : k # Place(s) => mem'[k] = mem[k]
    BY <1>3, <1>5, <2>1
  <2>3. mem'[Place(s)].type = mem[Place(s)].type /\ mem'[Place(s)].len = slots[s].size
    BY <1>3, <1>5, <2>1 DEF Word
  <2>4. ~PadType(w) /\ ~PubType(w) /\ ~Copy(w)
    BY <1>7 DEF PadType, PubType, PubLen, Copy, WriterAt
  <2> QED
    BY <1>4, <1>7, <2>2, <2>3, <2>4
<1>8. CASE Copy(w)
  <2>1. /\ slots[s].size = wSize[w]
        /\ mem' = [i \in 0 .. Cap - 1 |->
                     IF i = Place(s) THEN [mem[i] EXCEPT !.id = s]
                     ELSE IF i > Place(s) /\ i < Place(s) + slots[s].size
                          THEN [len |-> Junk, type |-> "junk", id |-> s]
                          ELSE mem[i]]
    BY <1>1, <1>2, <1>8 DEF Copy, PadType, WriterAt
  <2>2. \A k \in 0 .. Cap - 1 : ~(Place(s) <= k /\ k < Place(s) + slots[s].size) => mem'[k] = mem[k]
    BY <1>3, <2>1
  <2>3. \A k \in 0 .. Cap - 1 : mem'[k].len = mem[k].len \/ mem'[k].len = Junk
    BY <1>3, <1>5, <2>1 DEF Word
  <2>4. /\ mem'[Place(s)].type = mem[Place(s)].type
        /\ mem'[Place(s)].len = mem[Place(s)].len
    BY <1>3, <1>5, <2>1 DEF Word
  <2>5. ASSUME NEW a \in 0 .. slots[s].size - 1
        PROVE  mem'[Place(s) + a].id = s
    <3>1. Place(s) + a \in 0 .. Cap - 1
      BY <1>3, RingAssumption
    <3>2. CASE a = 0
      <4>1. mem'[Place(s)] = [mem[Place(s)] EXCEPT !.id = s]
        BY <1>3, <2>1
      <4>2. mem[Place(s)] \in Word
        BY <1>3, <1>5
      <4> QED
        BY <1>3, <3>2, <4>1, <4>2 DEF Word
    <3>3. CASE a # 0
      <4>1. mem'[Place(s) + a] = [len |-> Junk, type |-> "junk", id |-> s]
        BY <1>3, <2>1, <3>1, <3>3
      <4> QED
        BY <4>1
    <3> QED
      BY <3>2, <3>3
  <2>6. \A k \in 0 .. Cap - 1 :
          (\A a \in 0 .. slots[s].size - 1 : k # Place(s) + a) => mem'[k] = mem[k]
    <3> SUFFICES ASSUME NEW k \in 0 .. Cap - 1, \A a \in 0 .. slots[s].size - 1 : k # Place(s) + a
                 PROVE  ~(Place(s) <= k /\ k < Place(s) + slots[s].size)
      BY <2>2
    <3>1. Place(s) <= k /\ k < Place(s) + slots[s].size =>
            k - Place(s) \in 0 .. slots[s].size - 1 /\ k = Place(s) + (k - Place(s))
      BY <1>3
    <3> QED
      BY <3>1
  <2>7. ~PadType(w) /\ ~PubType(w) /\ ~PubLen(w)
    BY <1>8 DEF PadType, PubType, PubLen, Copy, WriterAt
  <2> QED
    BY <1>8, <2>3, <2>4, <2>5, <2>6, <2>7
<1> QED
  BY <1>6, <1>7, <1>8 DEF Fills

\* Filling a claim disturbs no other claim and nothing the reader has come to.
LEMMA FillData ==
  ASSUME IInv, ClaimInv, damage = {}, DataInv, NEW w \in Writers, Fills(w)
  PROVE  DataInv'
<1>0. PICK s \in Unread : s = wSlot[w]
  BY FillFrame, OwnSlot DEF DataInv, IInv, TypeInv
<1>1. /\ UNCHANGED <<slots, writePos, rvars, readPos, delivered>>
      /\ wpc[w] \in Owning /\ wpc'[w] \in Owning /\ wSlot'[w] = s
      /\ s \in 1 .. Len(slots) /\ slots[s].state = "open"
      /\ \A v \in Writers \ {w} : wpc'[v] = wpc[v] /\ wSlot'[v] = wSlot[v]
      /\ \/ PadType(w) /\ wpc[w] = "padType" /\ wpc'[w] = "padLen"
         \/ PubType(w) /\ wpc[w] = "pubType" /\ wpc'[w] = "pubLen"
         \/ PubLen(w) /\ wpc[w] = "pubLen" /\ wpc'[w] = "copy"
         \/ Copy(w) /\ wpc[w] = "copy" /\ wpc'[w] = "commit"
  BY <1>0, FillFrame, WriterFrame, OwnSlot DEF DataInv, IInv, TypeInv
<1>2. /\ \A k \in 0 .. Cap - 1 :
           (\A a \in 0 .. slots[s].size - 1 : k # Place(s) + a) => mem'[k] = mem[k]
      /\ \A k \in 0 .. Cap - 1 :
           (mem'[k].len = mem[k].len) \/ (mem'[k].len = Junk) \/ (k = Place(s) /\ PubLen(w))
      /\ PadType(w) => mem'[Place(s)].type = "padding"
      /\ PubType(w) => mem'[Place(s)].type = "reserved"
      /\ PubLen(w) => /\ mem'[Place(s)].type = mem[Place(s)].type
                      /\ mem'[Place(s)].len = slots[s].size
      /\ Copy(w) => /\ mem'[Place(s)].type = mem[Place(s)].type
                    /\ mem'[Place(s)].len = mem[Place(s)].len
                    /\ \A a \in 0 .. slots[s].size - 1 : mem'[Place(s) + a].id = s
  BY <1>0, FillEffect DEF DataInv
<1>3. /\ TypeOK /\ TilingInv /\ writePos <= readPos + Cap
      /\ \A v \in Writers : wpc[v] \in Owning => wSlot[v] \in Unread
      /\ \A v \in Writers \ {w} : wpc[v] \in Owning => wSlot[v] # s
  BY <1>0, <1>1, Undamaged, OwnSlot DEF DataInv, ClaimInv, OwnerInv
<1>4. \A i \in Unread \ {s} : Header(i)' = Header(i) /\ (Whole(i)' <=> Whole(i))
  BY <1>1, <1>2, <1>3, OtherWords
<1>5. /\ Unread' = Unread /\ Unread \subseteq 1 .. Len(slots)
      /\ \A i : /\ Place(i)' = Place(i) /\ EndOf(i)' = EndOf(i) /\ LastType(i)' = LastType(i)
                /\ \A P : Consuming(i, P)' <=> Consuming(i, P)
  BY <1>1 DEF Unread, Place, EndOf, LastType, Consuming, rvars
<1>6. /\ \A i : Described(i) => Described(i)'
      /\ \A i : i # s => (Described(i)' <=> Described(i))
      /\ Described(s)' => wpc'[w] \in {"copy", "commit"}
      /\ Described(s) <=> wpc[w] \in {"copy", "commit"}
      /\ PubLen(w) => Described(s)'
  <2>1. \A v \in Writers : v # w /\ wpc'[v] \in {"copy", "commit"} => wSlot'[v] # s
    BY <1>1, <1>3 DEF Owning
  <2>2. \A v \in Writers : v # w /\ wpc[v] \in {"copy", "commit"} => wSlot[v] # s
    BY <1>3 DEF Owning
  <2>3. wpc[w] \in {"copy", "commit"} => wpc'[w] \in {"copy", "commit"}
    BY <1>1
  <2>4. PubLen(w) => wpc'[w] = "copy"
    BY <1>1 DEF PubLen, WriterAt
  <2>5. slots' = slots
    BY <1>1
  <2>6. \A i : Described(i) => Described(i)'
    BY <1>0, <1>1, <2>3, <2>5 DEF Described
  <2>7. \A i : i # s => (Described(i)' <=> Described(i))
    BY <1>0, <1>1, <2>5 DEF Described
  <2>8. Described(s)' => wpc'[w] \in {"copy", "commit"}
    BY <1>1, <2>1, <2>5 DEF Described
  <2>9. Described(s) <=> wpc[w] \in {"copy", "commit"}
    BY <1>0, <1>1, <2>2 DEF Described
  <2>10. PubLen(w) => Described(s)'
    BY <1>1, <2>4 DEF Described
  <2> QED
    BY <2>6, <2>7, <2>8, <2>9, <2>10
<1>7. PlaceInv'
  BY <1>1, <1>5 DEF DataInv, PlaceInv, Boundary, rvars
<1>8. SlotInv'
  <2> SUFFICES ASSUME NEW i \in Unread
               PROVE  /\ Described(i)' /\ ~Consuming(i, {"advance"}) => Header(i)'.len = slots[i].size
                      /\ slots[i].state \in {"done", "dead"} /\ ~Consuming(i, {"clearLen", "advance"})
                           => Header(i)'.type = LastType(i)
                      /\ slots[i].state = "done" /\ slots[i].kind = "record" => Whole(i)'
    BY <1>1, <1>5 DEF SlotInv
  <2>1. CASE i = s
    <3>1. Described(s)' => PubLen(w) \/ (Copy(w) /\ Described(s))
      BY <1>1, <1>6
    <3>2. Header(s)' = mem'[Place(s)] /\ Header(s) = mem[Place(s)]
      BY <1>5 DEF Header
    <3> QED
      BY <1>1, <1>2, <2>1, <3>1, <3>2 DEF DataInv, SlotInv
  <2>2. CASE i # s
    BY <1>4, <1>6, <2>2 DEF DataInv, SlotInv
  <2> QED
    BY <2>1, <2>2
<1>9. FillInv'
  <2> SUFFICES ASSUME NEW v \in Writers
               PROVE  /\ wpc'[v] = "padLen" => Header(wSlot[v])'.type = "padding"
                      /\ wpc'[v] \in {"pubLen", "copy", "commit"} => Header(wSlot[v])'.type = "reserved"
                      /\ wpc'[v] = "commit" => Whole(wSlot[v])'
    BY DEF FillInv
  <2>1. CASE v = w
    <3>1. Header(wSlot[v])' = mem'[Place(s)] /\ Header(wSlot[v]) = mem[Place(s)]
      BY <1>0, <1>1, <1>5, <2>1 DEF Header, Place
    <3>2. Copy(w) => Whole(wSlot[v])'
      BY <1>1, <1>2, <1>5, <2>1 DEF Whole, Place
    <3> QED
      BY <1>0, <1>1, <1>2, <2>1, <3>1, <3>2 DEF DataInv, FillInv
  <2>2. CASE v # w /\ wpc[v] \in Owning
    <3>1. wpc'[v] = wpc[v] /\ wSlot'[v] = wSlot[v] /\ wSlot[v] \in Unread \ {s}
      BY <1>1, <1>3, <2>2
    <3>2. PICK i \in Unread \ {s} : i = wSlot[v]
      BY <3>1
    <3>3. Header(wSlot[v])' = Header(i)' /\ (Whole(wSlot[v])' <=> Whole(i)')
      BY <3>1, <3>2 DEF Header, Whole, Place
    <3> QED
      BY <1>4, <3>1, <3>2, <3>3 DEF DataInv, FillInv
  <2>3. CASE v # w /\ wpc[v] \notin Owning
    BY <1>1, <2>3 DEF Owning
  <2> QED
    BY <2>1, <2>2, <2>3
<1>10. QuietInv'
  BY <1>0, <1>2, <1>5, <1>6 DEF DataInv, QuietInv
<1>11. ReadInv'
  <2>1. ASSUME NEW i \in 1 .. Len(slots), Reads(i), rpc # "idle", slots[i].start = rRp
        PROVE  Reads(i)'
    <3>0. i \in Unread
      BY <2>1, Undamaged DEF Unread
    <3>1. CASE i = s
      BY <1>1, <1>5, <1>6, <2>1, <3>1 DEF Reads, GaveUp, rvars
    <3>2. CASE i # s
      BY <1>1, <1>4, <1>5, <1>6, <2>1, <3>0, <3>2 DEF Reads, GaveUp, rvars
    <3> QED
      BY <3>1, <3>2
  <2> QED
    BY <1>1, <2>1 DEF DataInv, ReadInv, rvars
<1>12. DeliveryInv'
  BY <1>1 DEF DataInv, DeliveryInv
<1> QED
  BY <1>7, <1>8, <1>9, <1>10, <1>11, <1>12 DEF DataInv

\* What settling a claim does to its words: the padding gets its length, the record its type.
LEMMA SettleWords ==
  ASSUME IInv, ClaimInv, PlaceInv, NEW w \in Writers, Settles(w), wpc[w] \in Owning,
         NEW s, s = wSlot[w]
  PROVE  /\ \A k \in 0 .. Cap - 1 : k # Place(s) => mem'[k] = mem[k]
         /\ \A k \in 0 .. Cap - 1 : mem'[k].id = mem[k].id
         /\ PadLen(w) => /\ mem'[Place(s)].type = mem[Place(s)].type
                         /\ mem'[Place(s)].len = slots[s].size
                         /\ wpc[w] = "padLen" /\ slots[s].kind = "padding"
         /\ Commit(w) => /\ mem'[Place(s)].type = "trace"
                         /\ mem'[Place(s)].len = mem[Place(s)].len
                         /\ wpc[w] = "commit" /\ slots[s].kind = "record"
         /\ ~PadLen(w) /\ ~Commit(w) => mem' = mem
<1>1. TypeOK /\ (wpc[w] = "padLen" => slots[s].size = TailOf(w) /\ slots[s].kind = "padding")
      /\ (wpc[w] = "commit" => slots[s].kind = "record")
  BY DEF IInv, TypeInv, ClaimInv, OwnerInv
<1>2. /\ s \in 1 .. Len(slots) /\ Off(wWp[w]) = Place(s) /\ Place(s) \in 0 .. Cap - 1
  BY <1>1, OwnSlot, SlotTyped
<1>3. mem \in [0 .. Cap - 1 -> Word]
  BY <1>1 DEF TypeOK, SharedOK
<1>4. CASE PadLen(w)
  <2>1. wpc[w] = "padLen" /\ ~Commit(w) /\ mem' = [mem EXCEPT ![Place(s)].len = slots[s].size]
    BY <1>1, <1>2, <1>4 DEF PadLen, Commit, StoreLen, WriterAt
  <2>2. \A k \in 0 .. Cap - 1 : k # Place(s) => mem'[k] = mem[k]
    BY <1>3, <2>1
  <2>3. /\ mem'[Place(s)].type = mem[Place(s)].type
        /\ mem'[Place(s)].len = slots[s].size
        /\ mem'[Place(s)].id = mem[Place(s)].id
    BY <1>2, <1>3, <2>1 DEF Word
  <2> QED
    BY <1>1, <1>4, <2>1, <2>2, <2>3
<1>5. CASE Commit(w)
  <2>1. wpc[w] = "commit" /\ ~PadLen(w) /\ mem' = [mem EXCEPT ![Place(s)].type = "trace"]
    BY <1>1, <1>2, <1>5 DEF PadLen, Commit, StoreType, WriterAt
  <2>2. \A k \in 0 .. Cap - 1 : k # Place(s) => mem'[k] = mem[k]
    BY <1>3, <2>1
  <2>3. /\ mem'[Place(s)].type = "trace"
        /\ mem'[Place(s)].len = mem[Place(s)].len
        /\ mem'[Place(s)].id = mem[Place(s)].id
    BY <1>2, <1>3, <2>1 DEF Word
  <2> QED
    BY <1>1, <1>5, <2>1, <2>2, <2>3
<1>6. CASE ~PadLen(w) /\ ~Commit(w)
  BY <1>6 DEF Settles, Die, shared
<1> QED
  BY <1>4, <1>5, <1>6

\* A writer that dies before it claimed anything leaves no trace.
LEMMA DieAsking ==
  ASSUME IInv, ClaimInv, NEW w \in Writers, Settles(w), wpc[w] \notin Owning
  PROVE  UNCHANGED <<slots, mem, writePos>> /\ wpc'[w] \notin Owning
BY SettleEffect DEF Settles, PadLen, Commit, Die, WriterAt, Owning, shared, IInv, ClaimInv

\* Settling a claim disturbs no other claim, and what the reader has come to about this
\* one stays true.
LEMMA SettleData ==
  ASSUME IInv, ClaimInv, damage = {}, DataInv, NEW w \in Writers, Settles(w), wpc[w] \in Owning
  PROVE  DataInv'
<1>0. PICK s \in Unread : s = wSlot[w]
  BY OwnSlot DEF DataInv
<1>1. /\ UNCHANGED <<writePos, rvars, readPos, delivered>>
      /\ s \in 1 .. Len(slots) /\ slots[s].state = "open"
      /\ \A v \in Writers \ {w} : wpc'[v] = wpc[v] /\ wSlot'[v] = wSlot[v]
      /\ Len(slots') = Len(slots)
      /\ wpc'[w] \notin Owning
      /\ \A i \in 1 .. Len(slots) :
           /\ slots'[i].start = slots[i].start /\ slots'[i].size = slots[i].size
           /\ slots'[i].kind = slots[i].kind
           /\ slots'[i].state = IF i = s THEN Verdict(w) ELSE slots[i].state
  BY <1>0, SettleEffect, WriterFrame, OwnSlot DEF DataInv, IInv, TypeInv, ClaimInv
<1>2. /\ \A k \in 0 .. Cap - 1 : k # Place(s) => mem'[k] = mem[k]
      /\ \A k \in 0 .. Cap - 1 : mem'[k].id = mem[k].id
      /\ PadLen(w) => /\ mem'[Place(s)].type = mem[Place(s)].type
                      /\ mem'[Place(s)].len = slots[s].size
                      /\ wpc[w] = "padLen" /\ slots[s].kind = "padding"
      /\ Commit(w) => /\ mem'[Place(s)].type = "trace"
                      /\ mem'[Place(s)].len = mem[Place(s)].len
                      /\ wpc[w] = "commit" /\ slots[s].kind = "record"
      /\ ~PadLen(w) /\ ~Commit(w) => mem' = mem
  BY <1>0, SettleWords DEF DataInv
<1>3. /\ TypeOK /\ TilingInv /\ writePos <= readPos + Cap
      /\ \A v \in Writers : wpc[v] \in Owning => wSlot[v] \in Unread
      /\ \A v \in Writers \ {w} : wpc[v] \in Owning => wSlot[v] # s
      /\ Place(s) + 0 = Place(s) /\ 0 \in 0 .. slots[s].size - 1
      /\ Place(s) \in 0 .. Cap - 1
  <2>1. Place(s) \in 0 .. Cap - 1 /\ slots[s].size \in Nat /\ slots[s].size > 0
    BY <1>1, SlotTyped, Undamaged DEF ClaimInv, TilingInv
  <2>2. Place(s) + 0 = Place(s) /\ 0 \in 0 .. slots[s].size - 1
    BY <2>1
  <2> QED
    BY <1>0, <1>1, <2>1, <2>2, Undamaged, OwnSlot DEF DataInv, ClaimInv, OwnerInv
<1>4. \A i \in Unread \ {s} : Header(i)' = Header(i) /\ (Whole(i)' <=> Whole(i))
  BY <1>1, <1>2, <1>3, OtherWords
<1>5. /\ Unread' = Unread /\ Unread \subseteq 1 .. Len(slots)
      /\ \A i \in 1 .. Len(slots) :
           /\ Place(i)' = Place(i) /\ EndOf(i)' = EndOf(i)
           /\ i # s => LastType(i)' = LastType(i)
           /\ \A P : Consuming(i, P)' <=> Consuming(i, P)
  BY <1>1 DEF Unread, Place, EndOf, LastType, Consuming, rvars
<1>6. /\ \A i \in 1 .. Len(slots) : i # s => (Described(i)' <=> Described(i))
      /\ Described(s) <=> wpc[w] \in {"copy", "commit"}
      /\ Described(s)' <=> Verdict(w) # "lost"
      /\ Described(s) => Described(s)'
      /\ Verdict(w) = "lost" => mem' = mem
  <2>1. \A v \in Writers : v # w /\ wpc[v] \in {"copy", "commit"} => wSlot[v] # s
    BY <1>3 DEF Owning
  <2>2. \A v \in Writers : wpc'[v] \in {"copy", "commit"} => v # w
    BY <1>1 DEF Owning
  <2>3. \A i \in 1 .. Len(slots) : i # s => (Described(i)' <=> Described(i))
    BY <1>0, <1>1, <2>1, <2>2 DEF Described
  <2>4. Described(s) <=> wpc[w] \in {"copy", "commit"}
    BY <1>0, <1>1, <2>1 DEF Described
  <2>5. Verdict(w) \in {"done", "dead", "lost"} /\ slots'[s].state = Verdict(w)
    BY <1>1 DEF Verdict
  <2>6. Described(s)' <=> Verdict(w) # "lost"
    BY <1>1, <2>1, <2>2, <2>5 DEF Described
  <2>7. Verdict(w) = "lost" => wpc[w] \notin {"copy", "commit"} /\ mem' = mem
    BY <1>2 DEF Verdict
  <2> QED
    BY <2>3, <2>4, <2>6, <2>7
<1>7. PlaceInv'
  BY <1>1, <1>5 DEF DataInv, PlaceInv, Boundary, rvars, Verdict
<1>8. SlotInv'
  <2> SUFFICES ASSUME NEW i \in Unread
               PROVE  /\ Described(i)' /\ ~Consuming(i, {"advance"}) => Header(i)'.len = slots[i].size
                      /\ slots'[i].state \in {"done", "dead"} /\ ~Consuming(i, {"clearLen", "advance"})
                           => Header(i)'.type = LastType(i)'
                      /\ slots'[i].state = "done" /\ slots'[i].kind = "record" => Whole(i)'
    BY <1>1, <1>5 DEF SlotInv
  <2>1. CASE i = s
    <3>1. Header(s)' = mem'[Place(s)] /\ Header(s) = mem[Place(s)]
      BY <1>1, <1>5 DEF Header
    <3>2. Header(wSlot[w]) = Header(s) /\ (Whole(wSlot[w]) <=> Whole(s))
      BY <1>0
    <3>3. slots'[s].state = Verdict(w) /\ slots'[s].kind = slots[s].kind
      BY <1>1
    <3>4. CASE PadLen(w)
      BY <1>1, <1>2, <2>1, <3>1, <3>2, <3>3, <3>4 DEF DataInv, FillInv, LastType, Verdict
    <3>5. CASE Commit(w)
      <4>1. Whole(s)'
        <5>1. Whole(s)
          BY <1>2, <3>2, <3>5 DEF DataInv, FillInv
        <5>2. \A k \in 0 .. slots[s].size - 1 : Place(s) + k \in 0 .. Cap - 1
          <6>1. Place(s) \in Nat /\ slots[s].size \in Nat /\ Place(s) + slots[s].size <= Cap
            BY <1>1, <1>3, SlotTyped DEF TilingInv
          <6> QED
            BY <6>1, RingAssumption
        <5> QED
          BY <1>1, <1>2, <1>5, <5>1, <5>2 DEF Whole
      <4> QED
        BY <1>1, <1>2, <1>6, <2>1, <3>1, <3>2, <3>3, <3>5, <4>1 DEF DataInv, SlotInv, FillInv, LastType, Verdict
    <3>6. CASE ~PadLen(w) /\ ~Commit(w)
      <4>1. mem' = mem /\ Verdict(w) \in {"dead", "lost"}
        BY <1>2, <3>6 DEF Verdict
      <4>2. Verdict(w) = "dead" => Described(s) /\ Header(s).type = "reserved"
        BY <1>6, <3>2, <3>6 DEF DataInv, FillInv, Verdict
      <4> QED
        BY <1>1, <1>6, <2>1, <3>1, <3>3, <4>1, <4>2 DEF DataInv, SlotInv, LastType
    <3> QED
      BY <3>4, <3>5, <3>6
  <2>2. CASE i # s
    BY <1>1, <1>4, <1>5, <1>6, <2>2 DEF DataInv, SlotInv
  <2> QED
    BY <2>1, <2>2
<1>9. FillInv'
  <2> SUFFICES ASSUME NEW v \in Writers, wpc'[v] \in Owning
               PROVE  /\ wpc'[v] = "padLen" => Header(wSlot[v])'.type = "padding"
                      /\ wpc'[v] \in {"pubLen", "copy", "commit"} => Header(wSlot[v])'.type = "reserved"
                      /\ wpc'[v] = "commit" => Whole(wSlot[v])'
    BY DEF FillInv, Owning
  <2>1. v # w /\ wpc'[v] = wpc[v] /\ wSlot'[v] = wSlot[v] /\ wSlot[v] \in Unread \ {s}
    BY <1>1, <1>3
  <2>2. PICK i \in Unread \ {s} : i = wSlot[v]
    BY <2>1
  <2>3. Header(wSlot[v])' = Header(i)' /\ (Whole(wSlot[v])' <=> Whole(i)')
    BY <2>1, <2>2 DEF Header, Whole, Place
  <2> QED
    BY <1>4, <2>1, <2>2, <2>3 DEF DataInv, FillInv
<1>10. QuietInv'
  <2> SUFFICES ASSUME NEW k \in 0 .. Cap - 1
               PROVE  mem'[k].len \in {0, Junk} \/ \E i \in Unread : Place(i) = k /\ Described(i)'
    BY <1>5 DEF QuietInv
  <2>1. CASE \E i \in Unread : Place(i) = k /\ Described(i)
    BY <1>5, <1>6, <2>1
  <2>2. CASE mem[k].len \in {0, Junk}
    <3>1. CASE k # Place(s) \/ Verdict(w) = "lost"
      BY <1>2, <1>6, <2>2, <3>1
    <3>2. CASE k = Place(s) /\ Verdict(w) # "lost"
      BY <1>6, <3>2
    <3> QED
      BY <3>1, <3>2
  <2> QED
    BY <2>1, <2>2 DEF DataInv, QuietInv
<1>11. ReadInv'
  <2>1. ASSUME NEW i \in 1 .. Len(slots), Reads(i), rpc # "idle", slots[i].start = rRp
        PROVE  Reads(i)'
    <3>0. i \in Unread
      BY <2>1, Undamaged DEF Unread
    <3>1. CASE i = s
      BY <1>1, <1>5, <1>6, <2>1, <3>1 DEF Reads, GaveUp, rvars
    <3>2. CASE i # s
      BY <1>1, <1>4, <1>5, <1>6, <2>1, <3>0, <3>2 DEF Reads, GaveUp, rvars
    <3> QED
      BY <3>1, <3>2
  <2> QED
    BY <1>1, <2>1 DEF DataInv, ReadInv, rvars
<1>12. DeliveryInv'
  <2>1. slots[s].start >= readPos /\ slots[s].start \in Nat /\ readPos \in Nat
    BY <1>1, <1>3, SlotTyped, Undamaged DEF Unread
  <2>2. \A i \in 1 .. Len(slots) : slots[i].start < readPos => slots'[i].state = slots[i].state
    BY <1>1, <2>1
  <2>3. \A k \in DOMAIN delivered :
          delivered[k] \in 1 .. Len(slots) /\ slots'[delivered[k]].start < readPos
    BY <1>1 DEF DataInv, DeliveryInv
  <2>4. \A i \in 1 .. Len(slots) :
          slots'[i].kind = "record" /\ slots'[i].state = "done" /\ slots'[i].start < readPos
            => \E k \in DOMAIN delivered : delivered[k] = i
    BY <1>1, <2>2 DEF DataInv, DeliveryInv
  <2> QED
    BY <1>1, <2>3, <2>4 DEF DataInv, DeliveryInv
<1> QED
  BY <1>7, <1>8, <1>9, <1>10, <1>11, <1>12 DEF DataInv

-----------------------------------------------------------------------------
(* What the reader does to an undamaged ring.                              *)

\* The claim the reader stands at.
Stands(r) ==
  /\ r \in Unread
  /\ r \in 1 .. Len(slots)
  /\ slots[r].start = rRp
  /\ Reads(r)
  /\ \A i \in 1 .. Len(slots) : slots[i].start = rRp => i = r
  /\ slots[r].size \in Nat
  /\ slots[r].size > 0
  /\ Place(r) = Off(rRp)
  /\ Place(r) \in 0 .. Cap - 1
  /\ Place(r) + slots[r].size <= Cap
  /\ EndOf(r) \in Nat
  /\ rRp < EndOf(r)
  /\ EndOf(r) <= rWp

\* A reader at work stands at a claim, all of it before the write position it loaded.
LEMMA ReaderStands ==
  ASSUME IInv, ClaimInv, damage = {}, DataInv, rpc # "idle"
  PROVE  \E r : Stands(r)
<1>1. /\ TypeOK /\ TilingInv /\ rRp = readPos /\ rRp < rWp /\ rWp <= writePos /\ rWp \in Nat
      /\ rRp \in Nat /\ writePos \in Nat /\ Boundary(rRp) /\ Boundary(rWp)
  BY Undamaged DEF ClaimInv, ClockInv, DataInv, PlaceInv
<1>2. PICK r \in 1 .. Len(slots) : slots[r].start = rRp
  BY <1>1 DEF Boundary
<1>3. /\ slots[r].size \in Nat /\ slots[r].size > 0 /\ Place(r) \in 0 .. Cap - 1
      /\ Place(r) + slots[r].size <= Cap
  BY <1>1, SlotTyped DEF TilingInv
<1>4. \A i \in 1 .. Len(slots) : slots[i].start = rRp => i = r
  BY <1>1, <1>2, StartsApart
<1>5. EndOf(r) <= rWp
  BY <1>1, <1>2, StartsApart
<1>6. Reads(r)
  BY <1>2 DEF DataInv, ReadInv
<1>7. r \in Unread
  BY <1>1, <1>2 DEF Unread
<1>8. EndOf(r) \in Nat /\ rRp < EndOf(r) /\ Place(r) = Off(rRp)
  BY <1>1, <1>2, <1>3 DEF EndOf, Place
<1>9. Stands(r)
  BY <1>2, <1>3, <1>4, <1>5, <1>6, <1>7, <1>8 DEF Stands
<1> QED
  BY <1>9

\* Nobody is filling a claim the reader has given up on.
LEMMA GivenUp ==
  ASSUME ClaimInv, NEW r, Stands(r), GaveUp
  PROVE  /\ slots[r].state # "open"
         /\ \A w \in Writers : wpc[w] \in {"copy", "commit"} => wSlot[w] # r
<1>1. NobodyFills(rRp)
  BY DEF ClaimInv, ClockInv, GaveUp
<1>2. \A w \in Writers : wpc[w] \in Owning => wSlot[w] # r
  BY <1>1 DEF NobodyFills, Stands
<1>3. slots[r].state # "open"
  BY <1>2 DEF ClaimInv, OwnerInv, Stands
<1> QED
  BY <1>2, <1>3 DEF Owning

\* A step of the reader that changes neither words nor positions keeps all but what is
\* said of the reader itself.
LEMMA LookFrame ==
  ASSUME DataInv, UNCHANGED <<slots, mem, readPos, writePos, wvars, delivered>>
  PROVE  /\ FillInv' /\ QuietInv' /\ DeliveryInv'
         /\ (rpc' # "idle" => Boundary(rWp')) => PlaceInv'
         /\ rpc \notin {"clearLen", "advance"} /\ rpc' \notin {"clearLen", "advance"} => SlotInv'
         /\ \A i : /\ Described(i)' <=> Described(i)
                   /\ Header(i)' = Header(i) /\ LastType(i)' = LastType(i) /\ EndOf(i)' = EndOf(i)
<1>1. /\ Unread' = Unread
      /\ \A i : /\ Place(i)' = Place(i) /\ EndOf(i)' = EndOf(i) /\ Header(i)' = Header(i)
                /\ (Whole(i)' <=> Whole(i)) /\ LastType(i)' = LastType(i)
                /\ (Described(i)' <=> Described(i))
  BY DEF Unread, Place, EndOf, Header, Whole, LastType, Described, wvars
<1>2. FillInv'
  BY <1>1 DEF DataInv, FillInv, wvars
<1>3. QuietInv'
  BY <1>1 DEF DataInv, QuietInv
<1>4. DeliveryInv'
  BY DEF DataInv, DeliveryInv
<1>5. (rpc' # "idle" => Boundary(rWp')) => PlaceInv'
  BY <1>1 DEF DataInv, PlaceInv, Boundary
<1>6. ASSUME rpc \notin {"clearLen", "advance"}, rpc' \notin {"clearLen", "advance"}
      PROVE  SlotInv'
  <2>1. \A i : /\ ~Consuming(i, {"advance"}) /\ ~Consuming(i, {"clearLen", "advance"})
               /\ ~Consuming(i, {"advance"})' /\ ~Consuming(i, {"clearLen", "advance"})'
    BY <1>6 DEF Consuming
  <2> QED
    BY <1>1, <2>1 DEF DataInv, SlotInv
<1> QED
  BY <1>1, <1>2, <1>3, <1>4, <1>5, <1>6

\* Looking at positions, going back to sleep and the clock commit the reader to nothing.
LEMMA PollData ==
  ASSUME IInv, ClaimInv, damage = {}, DataInv, LoadPositions \/ Wait \/ TimeOut
  PROVE  DataInv'
<1>1. UNCHANGED <<slots, mem, readPos, writePos, wvars, delivered>>
  BY DEF LoadPositions, Wait, TimeOut, shared, hvars
<1>2. CASE LoadPositions
  <2>1. rpc = "idle" /\ rpc' = "loadLen" /\ rWp' = writePos /\ rRec' = << >>
    BY <1>2, Undamaged DEF LoadPositions, DataInv, ReadInv
  <2>2. ReadInv'
    BY <2>1 DEF ReadInv, Reads
  <2> QED
    BY <1>1, <2>1, <2>2, LookFrame DEF DataInv, Boundary
<1>3. CASE Wait \/ TimeOut
  <2>1. rpc \notin {"clearLen", "advance"} /\ rpc' = "idle" /\ rRec' = << >>
    BY <1>3 DEF Wait, TimeOut, Leave, DataInv, ReadInv
  <2>2. ReadInv'
    BY <2>1 DEF ReadInv
  <2> QED
    BY <1>1, <2>1, <2>2, LookFrame DEF DataInv
<1> QED
  BY <1>2, <1>3

\* Loading the header of the claim tells what became of it.
LEMMA LoadData ==
  ASSUME IInv, ClaimInv, damage = {}, DataInv, LoadLen \/ LoadType, damage' = {}
  PROVE  DataInv'
<1>1. UNCHANGED <<slots, mem, readPos, writePos, wvars, delivered, rRp, rWp, rRec, stuckAt, overdue>>
  BY DEF LoadLen, LoadType, shared, hvars
<1>2. rpc \in {"loadLen", "loadType"} /\ rpc' \in {"loadType", "parse"}
  BY DEF LoadLen, LoadType, ReaderAt
<1>3. PICK r : Stands(r)
  BY <1>2, ReaderStands
<1>4. /\ TypeOK /\ TilingInv /\ writePos <= readPos + Cap
      /\ mem[Off(rRp)] = Header(r)
      /\ GaveUp' <=> GaveUp
      /\ ~Consuming(r, {"advance"}) /\ ~Consuming(r, {"clearLen", "advance"})
  BY <1>1, <1>2, <1>3, Undamaged DEF ClaimInv, Header, Stands, GaveUp, Consuming
<1>5. Described(r) => Header(r).len = slots[r].size
  BY <1>3, <1>4 DEF DataInv, SlotInv, Stands
<1>7. rRec = << >> /\ Reads(r)
  BY <1>2, <1>3 DEF Stands, Reads
<1>8. ASSUME Reads(r)'
      PROVE  DataInv'
  <2>1. ReadInv'
    BY <1>1, <1>2, <1>3, <1>8 DEF ReadInv, Stands
  <2>2. PlaceInv' /\ SlotInv'
    BY <1>1, <1>2, LookFrame DEF DataInv, PlaceInv
  <2> QED
    BY <1>1, <2>1, <2>2, LookFrame DEF DataInv
<1>9. CASE LoadLen
  <2>1. Header(r).len # Junk /\ rLen' = Header(r).len /\ rpc' = "loadType"
    BY <1>4, <1>9 DEF LoadLen, LenAt, ReaderAt
  <2>2. rLen' = 0 \/ (rLen' = slots[r].size /\ Described(r))
    <3>1. CASE Header(r).len = 0
      BY <2>1, <3>1
    <3>2. CASE \E i \in Unread : Place(i) = Place(r) /\ Described(i)
      BY <1>3, <1>4, <1>5, <2>1, <3>2, PlaceUnique DEF Stands
    <3> QED
      BY <1>3, <2>1, <3>1, <3>2 DEF DataInv, QuietInv, Stands, Header
  <2>3. ASSUME rLen' = 0, GaveUp
        PROVE  slots[r].state = "lost"
    <3>1. ~Described(r)
      BY <1>3, <1>5, <2>1, <2>3 DEF Stands
    <3> QED
      BY <1>3, <1>4, <2>3, <3>1, GivenUp, SlotTyped DEF Described, Stands
  <2>4. Described(r)' <=> Described(r)
    BY <1>1, LookFrame
  <2>5. Reads(r)'
    BY <1>1, <1>4, <1>7, <2>1, <2>2, <2>3, <2>4 DEF Reads
  <2> QED
    BY <1>8, <2>5
<1>10. CASE LoadType
  <2>1. rpc = "loadType" /\ rpc' = "parse" /\ rLen' = rLen /\ rType' \in TypeAt(rRp)
    BY <1>10 DEF LoadType, ReaderAt
  <2>2. \/ rLen = 0 /\ (GaveUp => slots[r].state = "lost")
        \/ rLen = slots[r].size /\ Described(r)
    BY <1>7, <2>1 DEF Reads
  <2>3. ASSUME rLen # 0
        PROVE  \/ rType' = "reserved" /\ (GaveUp => slots[r].state = "dead")
               \/ slots[r].state = "done" /\ rType' = LastType(r)
    <3>1. Described(r)
      BY <2>2, <2>3
    <3>2. CASE slots[r].state \in {"done", "dead"}
      <4>1. Header(r).type = LastType(r) /\ LastType(r) # "junk"
        BY <1>3, <1>4, <3>2 DEF DataInv, SlotInv, Stands, LastType
      <4>2. rType' = LastType(r)
        BY <1>4, <2>1, <4>1 DEF TypeAt
      <4> QED
        BY <3>2, <4>2 DEF LastType
    <3>3. CASE \E w \in Writers : wpc[w] \in {"copy", "commit"} /\ wSlot[w] = r
      <4>1. Header(r).type = "reserved"
        BY <3>3 DEF DataInv, FillInv
      <4>2. rType' = "reserved"
        BY <1>4, <2>1, <4>1 DEF TypeAt
      <4>3. ~GaveUp
        BY <1>3, <3>3, GivenUp
      <4> QED
        BY <4>2, <4>3
    <3> QED
      BY <3>1, <3>2, <3>3 DEF Described
  <2>4. (Described(r)' <=> Described(r)) /\ LastType(r)' = LastType(r)
    BY <1>1, LookFrame
  <2>5. Reads(r)'
    BY <1>1, <1>4, <1>7, <2>1, <2>2, <2>3, <2>4 DEF Reads
  <2> QED
    BY <1>8, <2>5
<1> QED
  BY <1>9, <1>10

Decides == Abandon \/ SkipCorrupt \/ SkipPadding \/ CopyPayload \/ Panic

\* With the boundaries known, a header is never corrupt, and what the reader decides about
\* the claim it stands at is what became of the claim.
LEMMA DecideData ==
  ASSUME IInv, ClaimInv, damage = {}, DataInv, Decides
  PROVE  DataInv'
<1>1. UNCHANGED <<slots, mem, readPos, writePos, wvars, delivered>> /\ rpc = "parse"
  BY DEF Decides, Abandon, SkipCorrupt, SkipPadding, CopyPayload, Panic, Reopen, ReaderAt, shared,
     hvars
<1>2. PICK r : Stands(r)
  BY <1>1, ReaderStands
<1>3. /\ rRec = << >> /\ Cap \in Nat /\ TypeOK /\ TilingInv
      /\ rLen = 0 \/ (rLen = slots[r].size /\ Described(r))
      /\ rLen = 0 => (GaveUp => slots[r].state = "lost")
      /\ rLen # 0 => \/ rType = "reserved" /\ (GaveUp => slots[r].state = "dead")
                     \/ slots[r].state = "done" /\ rType = LastType(r)
  BY <1>1, <1>2, Undamaged, RingAssumption DEF Stands, Reads, ClaimInv
<1>4. /\ rLen \notin {Over, Short} /\ PaddedLen = rLen
      /\ ~OutOfRange
      /\ rLen # 0 => rRp + rLen = EndOf(r)
  BY <1>2, <1>3 DEF Stands, Over, Short, PaddedLen, OutOfRange, EndOf
<1>5. ~SkipCorrupt /\ ~Panic
  BY <1>4 DEF SkipCorrupt, Panic
<1>6. rpc' = "clear" /\ rLen' = rLen /\ rType' = rType /\ rRp' = rRp /\ rWp' = rWp
  BY <1>5 DEF Decides, Abandon, SkipPadding, CopyPayload, ReaderAt
<1>7. EndOf(r)' = EndOf(r) /\ LastType(r)' = LastType(r)
  BY <1>1, LookFrame
<1>8. CASE Abandon
  <2>1. /\ GaveUp /\ (rLen = 0 \/ rType = "reserved") /\ rRec' = rRec
        /\ rTo' = rRp + (IF rLen = 0 THEN 1 ELSE rLen)
    BY <1>4, <1>8 DEF Abandon, GaveUp, Unfinished
  <2>2. rLen = 0 => slots[r].state = "lost"
    BY <1>3, <2>1
  <2>3. rLen # 0 => slots[r].state = "dead"
    <3>1. LastType(r) = "reserved" => slots[r].state = "dead"
      BY DEF LastType
    <3> QED
      BY <1>3, <2>1, <3>1
  <2>4. slots[r].state = "dead" => LastType(r) = "reserved"
    BY DEF LastType
  <2> QED
    <3>1. Reads(r)'
      BY <1>1, <1>3, <1>4, <1>6, <1>7, <2>1, <2>2, <2>3, <2>4 DEF Reads
    <3>2. ReadInv'
      BY <1>1, <1>2, <1>6, <3>1 DEF ReadInv, Stands
    <3> QED
      BY <1>1, <1>6, <3>2, LookFrame DEF DataInv, PlaceInv
<1>9. CASE SkipPadding \/ CopyPayload
  <2>1. rLen # 0 /\ rType # "reserved" /\ rTo' = EndOf(r)
    BY <1>4, <1>9 DEF SkipPadding, CopyPayload, Unfinished
  <2>2. /\ slots[r].state = "done" /\ rType = LastType(r) /\ rLen = slots[r].size
        /\ rType = IF slots[r].kind = "record" THEN "trace" ELSE "padding"
    BY <1>3, <2>1 DEF LastType
  <2>3. rRec' = IF slots[r].kind = "record" THEN <<r>> ELSE << >>
    <3>1. CASE slots[r].kind = "record"
      <4>1. Whole(r)
        BY <1>2, <2>2, <3>1 DEF DataInv, SlotInv, Stands
      <4>2. RecordAt(rRp, rLen) = r
        BY <1>2, <1>3, <2>2, <3>1, <4>1, RecordFound DEF Stands
      <4>3. rRec' = <<RecordAt(rRp, rLen)>>
        BY <1>9, <2>2, <3>1 DEF SkipPadding, CopyPayload
      <4> QED
        BY <3>1, <4>2, <4>3
    <3>2. CASE slots[r].kind # "record"
      BY <1>3, <1>9, <2>2, <3>2 DEF SkipPadding, CopyPayload
    <3> QED
      BY <3>1, <3>2
  <2>4. Reads(r)'
    BY <1>1, <1>6, <1>7, <2>1, <2>2, <2>3 DEF Reads
  <2>5. ReadInv'
    BY <1>1, <1>2, <1>6, <2>4 DEF ReadInv, Stands
  <2> QED
    BY <1>1, <1>6, <2>5, LookFrame DEF DataInv, PlaceInv
<1> QED
  BY <1>5, <1>8, <1>9 DEF Decides

\* Zeroing the header touches the claim the reader stands at, which nobody fills.
LEMMA ClearData ==
  ASSUME IInv, ClaimInv, damage = {}, DataInv, ClearType \/ ClearLen
  PROVE  DataInv'
<1>1. /\ UNCHANGED <<slots, readPos, writePos, wvars, delivered, rRp, rWp, rLen, rType, rTo, rRec,
                     stuckAt, overdue>>
      /\ rpc = IF ClearType THEN "clear" ELSE "clearLen"
      /\ rpc' = IF ClearType THEN "clearLen" ELSE "advance"
      /\ ClearType => ~ClearLen
  BY DEF ClearType, ClearLen, ReaderAt, hvars
<1>2. PICK r : Stands(r)
  BY <1>1, ReaderStands
<1>3. /\ TypeOK /\ TilingInv /\ writePos <= readPos + Cap
      /\ slots[r].state # "open" /\ Reads(r) /\ r \in Unread
      /\ Place(r) \in 0 .. Cap - 1 /\ Place(r) = Off(rRp)
      /\ mem \in [0 .. Cap - 1 -> Word]
  BY <1>1, <1>2, Undamaged DEF ClaimInv, Stands, Reads, TypeOK, SharedOK
<1>4. mem' = [mem EXCEPT ![Place(r)] = IF ClearType THEN [@ EXCEPT !.type = "trace"]
                                       ELSE [@ EXCEPT !.len = 0]]
  BY <1>1, <1>3 DEF ClearType, ClearLen
<1>5. /\ \A k \in 0 .. Cap - 1 : k # Place(r) => mem'[k] = mem[k]
      /\ \A k \in 0 .. Cap - 1 : mem'[k].id = mem[k].id
      /\ ClearType => mem'[Place(r)].type = "trace" /\ mem'[Place(r)].len = mem[Place(r)].len
      /\ ClearLen => mem'[Place(r)].len = 0 /\ mem'[Place(r)].type = mem[Place(r)].type
  <2>1. mem[Place(r)] \in Word
    BY <1>3
  <2>2. \A k \in 0 .. Cap - 1 : k # Place(r) => mem'[k] = mem[k]
    BY <1>3, <1>4
  <2>3. mem'[Place(r)] = IF ClearType THEN [mem[Place(r)] EXCEPT !.type = "trace"]
                         ELSE [mem[Place(r)] EXCEPT !.len = 0]
    BY <1>3, <1>4
  <2>4. /\ mem'[Place(r)].id = mem[Place(r)].id
        /\ ClearType => mem'[Place(r)].type = "trace" /\ mem'[Place(r)].len = mem[Place(r)].len
        /\ ~ClearType => mem'[Place(r)].len = 0 /\ mem'[Place(r)].type = mem[Place(r)].type
    BY <2>1, <2>3 DEF Word
  <2> QED
    BY <1>1, <2>2, <2>4
<1>6. \A i \in Unread \ {r} : Header(i)' = Header(i) /\ (Whole(i)' <=> Whole(i))
  <2>1. \A k \in 0 .. Cap - 1 :
           (\A a \in 0 .. slots[r].size - 1 : k # Place(r) + a) => mem'[k] = mem[k]
    <3>1. 0 \in 0 .. slots[r].size - 1 /\ Place(r) + 0 = Place(r)
      BY <1>2, <1>3 DEF Stands
    <3> QED
      BY <1>5, <3>1
  <2> QED
    BY <1>1, <1>3, <2>1, OtherWords
<1>7. /\ Unread' = Unread /\ Unread \subseteq 1 .. Len(slots)
      /\ \A i : /\ Place(i)' = Place(i) /\ EndOf(i)' = EndOf(i) /\ LastType(i)' = LastType(i)
                /\ (Described(i)' <=> Described(i))
                /\ Header(i)' = mem'[Place(i)]
  BY <1>1 DEF Unread, Place, EndOf, LastType, Described, wvars, Header
<1>8. \A i \in Unread \ {r} : /\ \A P : ~Consuming(i, P) /\ ~Consuming(i, P)'
                              /\ ~Consuming(i, {"advance"})'
                              /\ ~Consuming(i, {"clearLen", "advance"})'
  BY <1>1, <1>2, <1>7 DEF Consuming, Stands
<1>9. PlaceInv'
  BY <1>1, <1>7 DEF DataInv, PlaceInv, Boundary
<1>10. SlotInv'
  <2> SUFFICES ASSUME NEW i \in Unread
               PROVE  /\ Described(i) /\ ~Consuming(i, {"advance"})' => Header(i)'.len = slots[i].size
                      /\ slots[i].state \in {"done", "dead"} /\ ~Consuming(i, {"clearLen", "advance"})'
                           => Header(i)'.type = LastType(i)
                      /\ slots[i].state = "done" /\ slots[i].kind = "record" => Whole(i)'
    BY <1>1, <1>7 DEF SlotInv
  <2>1. CASE i = r
    <3>1. Consuming(r, {"clearLen", "advance"})' /\ (~ClearType => Consuming(r, {"advance"})')
          /\ (ClearType => ~Consuming(r, {"advance"}))
      BY <1>1, <1>2 DEF Consuming, Stands
    <3>2. Whole(r) => Whole(r)'
      <4>1. \A k \in 0 .. slots[r].size - 1 : Place(r) + k \in 0 .. Cap - 1
        BY SMTT(30), <1>2, RingAssumption DEF Stands
      <4> QED
        BY <1>1, <1>5, <1>7, <4>1 DEF Whole
    <3>3. ClearType => Header(r)'.len = Header(r).len
      BY <1>5, <1>7 DEF Header
    <3> QED
      BY <2>1, <3>1, <3>2, <3>3 DEF DataInv, SlotInv
  <2>2. CASE i # r
    BY <1>6, <1>8, <2>2 DEF DataInv, SlotInv
  <2> QED
    BY <2>1, <2>2
<1>11. FillInv'
  <2> SUFFICES ASSUME NEW v \in Writers, wpc[v] \in Owning
               PROVE  /\ wpc[v] = "padLen" => Header(wSlot[v])'.type = "padding"
                      /\ wpc[v] \in {"pubLen", "copy", "commit"} => Header(wSlot[v])'.type = "reserved"
                      /\ wpc[v] = "commit" => Whole(wSlot[v])'
    BY <1>1 DEF FillInv, Owning, wvars
  <2>1. wSlot[v] \in Unread \ {r} /\ wSlot'[v] = wSlot[v]
    BY <1>1, <1>3, OwnSlot DEF DataInv, wvars
  <2>2. PICK i \in Unread \ {r} : i = wSlot[v]
    BY <2>1
  <2>3. Header(wSlot[v])' = Header(i)' /\ (Whole(wSlot[v])' <=> Whole(i)')
    BY <2>1, <2>2 DEF Header, Whole, Place
  <2> QED
    BY <1>6, <2>1, <2>2, <2>3 DEF DataInv, FillInv
<1>12. QuietInv'
  BY <1>1, <1>3, <1>5, <1>7 DEF DataInv, QuietInv
<1>13. ReadInv'
  <2>1. Reads(r)'
    BY <1>1, <1>3, <1>5, <1>7 DEF Reads
  <2> QED
    BY <1>1, <1>2, <2>1 DEF ReadInv, Stands
<1>14. DeliveryInv'
  BY <1>1 DEF DataInv, DeliveryInv
<1> QED
  BY <1>9, <1>10, <1>11, <1>12, <1>13, <1>14 DEF DataInv

\* Moving on leaves exactly the claim the reader stood at, and returns it if it is a record.
LEMMA AdvanceData ==
  ASSUME IInv, ClaimInv, damage = {}, DataInv, Advance, damage' = {}
  PROVE  DataInv'
<1>1. /\ UNCHANGED <<slots, mem, writePos, wvars>> /\ rpc = "advance" /\ rpc' = "idle"
      /\ rRec' = << >> /\ delivered' = delivered \o rRec /\ readPos' = MoveWithin
      /\ Boundary(readPos')
  BY DEF Advance, Leave
<1>2. PICK r : Stands(r)
  BY <1>1, ReaderStands
<1>3. /\ TypeOK /\ TilingInv /\ rRp = readPos /\ readPos \in Nat /\ rWp \in Nat /\ rTo \in Nat
      /\ rLen \in Nat /\ Len(slots) \in Nat
      /\ \A i \in 1 .. Len(slots) : slots[i].start \in Nat /\ slots[i].size \in Nat
      /\ delivered \in Seq(Nat)
  BY <1>1, Undamaged, SlotTyped DEF ClaimInv, TypeOK, ReaderOK, HistoryOK, Short
<1>4. /\ slots[r].start = rRp /\ rRp < EndOf(r) /\ EndOf(r) <= rWp /\ EndOf(r) \in Nat
      /\ r \in 1 .. Len(slots) /\ Reads(r)
      /\ \A p \in Nat : Boundary(p) /\ rRp < p => EndOf(r) <= p
      /\ \A i \in 1 .. Len(slots) : slots[i].start = rRp => i = r
  BY <1>2, <1>3, StartsApart DEF Stands
<1>5. readPos' = EndOf(r)
  <2>1. CASE rTo = EndOf(r)
    BY <1>1, <1>3, <1>4, <2>1 DEF MoveWithin
  <2>2. CASE rTo = rRp + 1
    <3>1. readPos' = rRp + 1 \/ readPos' = rWp
      BY <1>1, <2>2 DEF MoveWithin
    <3>2. readPos' \in Nat /\ rRp < readPos' /\ readPos' <= rRp + 1
      BY <1>1, <1>3, <1>4, <2>2 DEF MoveWithin
    <3>3. EndOf(r) <= readPos'
      BY <1>1, <1>4, <3>2
    <3> QED
      BY <1>3, <1>4, <3>2, <3>3
  <2> QED
    BY <1>1, <1>4, <2>1, <2>2 DEF Reads
<1>6. \A i \in 1 .. Len(slots) : slots[i].start >= EndOf(r) <=> slots[i].start >= readPos /\ i # r
  <2> SUFFICES ASSUME NEW i \in 1 .. Len(slots)
               PROVE  slots[i].start >= EndOf(r) <=> slots[i].start >= readPos /\ i # r
    OBVIOUS
  <2>1. Boundary(slots[i].start) /\ slots[i].start \in Nat
    BY <1>3 DEF Boundary
  <2>2. slots[i].start > rRp => slots[i].start >= EndOf(r)
    BY <1>4, <2>1
  <2>3. slots[i].start = rRp => i = r
    BY <1>4
  <2> QED
    BY <1>3, <1>4, <2>1, <2>2, <2>3
<1>7. Unread' = Unread \ {r} /\ r \in Unread /\ Unread \subseteq 1 .. Len(slots)
  BY <1>1, <1>3, <1>4, <1>5, <1>6 DEF Unread
<1>8. \A i : /\ Place(i)' = Place(i) /\ EndOf(i)' = EndOf(i) /\ LastType(i)' = LastType(i)
             /\ (Described(i)' <=> Described(i)) /\ Header(i)' = Header(i)
             /\ (Whole(i)' <=> Whole(i))
  BY <1>1 DEF Place, EndOf, LastType, Described, wvars, Header, Whole
<1>9. PlaceInv'
  <2>1. slots[r].state # "open"
    BY <1>1, <1>4 DEF Reads
  <2> QED
    BY <1>1, <1>7, <2>1 DEF DataInv, PlaceInv, Boundary
<1>10. SlotInv'
  <2>1. \A i \in Unread' : ~Consuming(i, {"advance"}) /\ ~Consuming(i, {"clearLen", "advance"})
    BY <1>4, <1>7 DEF Consuming
  <2> QED
    BY <1>1, <1>7, <1>8, <2>1 DEF DataInv, SlotInv
<1>11. FillInv'
  BY <1>1, <1>8 DEF DataInv, FillInv, wvars
<1>12. QuietInv'
  <2>1. Header(r).len = 0
    BY <1>1, <1>4 DEF Reads
  <2> QED
    BY <1>1, <1>7, <1>8, <2>1 DEF DataInv, QuietInv, Header
<1>13. ReadInv'
  BY <1>1 DEF ReadInv
<1>14. DeliveryInv'
  <2>1. rRec = IF slots[r].state = "done" /\ slots[r].kind = "record" THEN <<r>> ELSE << >>
    BY <1>1, <1>4 DEF Reads
  <2>2. \A k \in DOMAIN delivered : delivered[k] \in 1 .. Len(slots) /\ slots[delivered[k]].start < readPos
    BY DEF DataInv, DeliveryInv
  <2>3. \A k \in DOMAIN delivered : delivered[k] < r
    <3> SUFFICES ASSUME NEW k \in DOMAIN delivered
                 PROVE  delivered[k] < r
      OBVIOUS
    <3>1. PICK i \in 1 .. Len(slots) : i = delivered[k] /\ slots[i].start < readPos
      BY <2>2
    <3>2. r < i => EndOf(r) <= slots[i].start
      BY <1>3, <1>4, <3>1 DEF TilingInv
    <3> QED
      BY <1>3, <1>4, <3>1, <3>2
  <2>4. DOMAIN delivered = 1 .. Len(delivered) /\ Len(delivered) \in Nat
    BY <1>3
  <2>5. \A i \in 1 .. Len(slots) : slots[i].start < EndOf(r) <=> slots[i].start < readPos \/ i = r
    BY <1>3, <1>4, <1>6
  <2>6. CASE rRec = << >>
    <3>1. delivered' = delivered
      BY <1>1, <1>3, <2>6
    <3>2. \A k \in DOMAIN delivered : slots[delivered[k]].start < EndOf(r)
      BY <2>2, <2>5
    <3> QED
      BY <1>1, <1>5, <2>1, <2>2, <2>5, <2>6, <3>1, <3>2 DEF DataInv, DeliveryInv
  <2>7. CASE rRec = <<r>>
    <3>1. /\ DOMAIN delivered' = 1 .. Len(delivered) + 1
          /\ \A k \in 1 .. Len(delivered) : delivered'[k] = delivered[k]
          /\ delivered'[Len(delivered) + 1] = r
      BY <1>1, <1>3, <1>4, <2>4, <2>7
    <3>2. \A k \in DOMAIN delivered' :
            delivered'[k] \in 1 .. Len(slots) /\ slots[delivered'[k]].start < EndOf(r)
      BY <1>4, <2>2, <2>4, <2>5, <3>1
    <3>3. \A j, k \in DOMAIN delivered' : j < k => delivered'[j] < delivered'[k]
      <4> SUFFICES ASSUME NEW j \in DOMAIN delivered', NEW k \in DOMAIN delivered', j < k
                   PROVE  delivered'[j] < delivered'[k]
        OBVIOUS
      <4>1. j \in DOMAIN delivered /\ delivered'[j] = delivered[j]
        BY <2>4, <3>1
      <4>2. CASE k \in DOMAIN delivered
        BY <2>4, <3>1, <4>1, <4>2 DEF DataInv, DeliveryInv
      <4>3. CASE k = Len(delivered) + 1
        BY <2>3, <3>1, <4>1, <4>3
      <4> QED
        BY <2>4, <3>1, <4>2, <4>3
    <3>4. ASSUME NEW i \in 1 .. Len(slots), slots[i].kind = "record", slots[i].state = "done",
                 slots[i].start < EndOf(r)
          PROVE  \E k \in DOMAIN delivered' : delivered'[k] = i
      <4>1. CASE i = r
        BY <2>4, <3>1, <4>1
      <4>2. CASE i # r
        BY <2>4, <2>5, <3>1, <3>4, <4>2 DEF DataInv, DeliveryInv
      <4> QED
        BY <4>1, <4>2
    <3> QED
      BY <1>1, <1>5, <3>2, <3>3, <3>4 DEF DeliveryInv
  <2> QED
    BY <2>1, <2>6, <2>7
<1> QED
  BY <1>9, <1>10, <1>11, <1>12, <1>13, <1>14 DEF DataInv

\* A collector killed while it was not cutting a header leaves the ring as it should be.
LEMMA CrashData ==
  ASSUME IInv, ClaimInv, damage = {}, DataInv, Crash, damage' = {}
  PROVE  DataInv'
<1>1. /\ UNCHANGED <<slots, mem, readPos, writePos, wvars, delivered>> /\ ~Cutting
      /\ rpc' = "idle" /\ rRec' = << >>
  BY DEF Crash, Reopen, Leave, shared
<1>2. ReadInv'
  BY <1>1 DEF ReadInv
<1>3. SlotInv'
  <2>1. CASE rpc \notin {"clearLen", "advance"}
    BY <1>1, <2>1, LookFrame
  <2>2. CASE rpc = "clearLen"
    <3>1. PICK r : Stands(r)
      BY <2>2, ReaderStands
    <3>2. slots[r].state \in {"done", "dead"} => Header(r).type = LastType(r)
      <4>1. rLen = 0 \/ rType = "trace"
        BY <1>1, <2>2 DEF Cutting
      <4>2. slots[r].state \in {"done", "dead"} => rLen = slots[r].size /\ rType = LastType(r)
        BY <2>2, <3>1 DEF Stands, Reads
      <4>3. Header(r).type = "trace" /\ slots[r].size > 0 /\ slots[r].size \in Nat
        BY <2>2, <3>1 DEF Stands, Reads
      <4> QED
        BY <4>1, <4>2, <4>3
    <3>3. \A i \in Unread : Consuming(i, {"clearLen", "advance"}) => i = r
      BY <3>1 DEF Consuming, Stands, Unread
    <3>4. \A i \in Unread : ~Consuming(i, {"advance"})
      BY <2>2 DEF Consuming
    <3>5. \A i \in Unread : slots[i].state \in {"done", "dead"} => Header(i).type = LastType(i)
      BY <3>2, <3>3 DEF DataInv, SlotInv
    <3>6. Unread' = Unread /\ \A i : (Described(i)' <=> Described(i)) /\ (Whole(i)' <=> Whole(i))
                                     /\ Header(i)' = Header(i) /\ LastType(i)' = LastType(i)
      BY <1>1 DEF Unread, Place, Header, Whole, LastType, Described, wvars
    <3> QED
      BY <1>1, <3>4, <3>5, <3>6 DEF DataInv, SlotInv
  <2> QED
    BY <1>1, <2>1, <2>2 DEF Cutting
<1> QED
  BY <1>1, <1>2, <1>3, LookFrame DEF DataInv

-----------------------------------------------------------------------------
(* The invariant.                                                          *)

\* Damage is never repaired.
LEMMA DamageStays ==
  ASSUME [Next]_vars, damage' = {}
  PROVE  damage = {}
BY DEF Next, WriterStep, ReaderStep, Begin, LoadWritePos, LoadReadPos, Drop, CasFails, ClaimPadding,
   ClaimRecord, PadType, PadLen, PubType, PubLen, Copy, Commit, Die, LoadPositions, Repair, LoadLen,
   LoadType, Wait, Abandon, SkipCorrupt, SkipPadding, CopyPayload, ClearType, ClearLen, Advance,
   Panic, TimeOut, Crash, vars, hvars

\* The initial ring is empty.
LEMMA InitDInv == Init => DInv
<1> SUFFICES ASSUME Init PROVE DInv
  OBVIOUS
<1>1. IInv
  BY InitIInv
<1>2. slots = << >> /\ delivered = << >> /\ Len(slots) = 0 /\ Len(delivered) = 0
  BY DEF Init
<1>3. \A w \in Writers : wpc[w] = "idle"
  BY DEF Init
<1>4. TilingInv /\ OwnerInv
  BY <1>2, <1>3 DEF TilingInv, OwnerInv, Free, Owning
<1>5. ClockInv
  BY DEF Init, ClockInv, Reading
<1>6. damage = {} => DataInv
  <2> SUFFICES ASSUME damage = {} PROVE DataInv
    OBVIOUS
  <2>1. readPos = 0 /\ writePos = 0 /\ rpc = "idle" /\ rRec = << >>
    BY DEF Init
  <2>2. \A k \in 0 .. Cap - 1 : mem[k].len = 0
    BY DEF Init, ZeroWord
  <2>3. Unread = {}
    BY <1>2 DEF Unread
  <2>4. PlaceInv /\ ReadInv /\ DeliveryInv
    BY <1>2, <2>1 DEF PlaceInv, Boundary, ReadInv, DeliveryInv
  <2>5. SlotInv /\ FillInv /\ QuietInv
    BY <1>3, <2>2, <2>3 DEF SlotInv, FillInv, QuietInv
  <2> QED
    BY <2>4, <2>5 DEF DataInv
<1> QED
  BY <1>1, <1>4, <1>5, <1>6 DEF DInv, ClaimInv

\* Every step of writers, reader, clock and crash keeps it.
LEMMA StepDInv == PromptWriters /\ DInv /\ [Next]_vars => DInv'
<1> SUFFICES ASSUME PromptWriters, DInv, [Next]_vars PROVE DInv'
  OBVIOUS
<1>1. IInv' /\ ClaimInv'
  BY StepIInv, StepClaimInv DEF DInv
<1>2. ASSUME damage' = {} PROVE DataInv'
  <2>1. damage = {} /\ IInv /\ ClaimInv /\ DataInv
    BY <1>2, DamageStays DEF DInv
  <2>2. ASSUME NEW w \in Writers, Begin(w) \/ WriterStep(w) \/ Die(w)
        PROVE  DataInv'
    <3>1. CASE Asks(w) \/ (Settles(w) /\ wpc[w] \notin Owning)
      <4>1. UNCHANGED <<slots, mem, writePos>> /\ wpc[w] \notin Owning /\ wpc'[w] \notin Owning
        BY <2>1, <3>1, AskFrame, DieAsking DEF IInv, TypeInv
      <4>2. /\ UNCHANGED <<rvars, readPos, delivered>>
            /\ \A v \in Writers \ {w} : wpc'[v] = wpc[v] /\ wSlot'[v] = wSlot[v]
        BY <2>1, <3>1, WriterFrame DEF IInv, TypeInv
      <4> QED
        BY <2>1, <4>1, <4>2, DataFrame
    <3>2. CASE Claims(w)
      BY <2>1, <3>2, ClaimData
    <3>3. CASE Fills(w)
      BY <2>1, <3>3, FillData
    <3>4. CASE Settles(w) /\ wpc[w] \in Owning
      BY <2>1, <3>4, SettleData
    <3> QED
      BY <2>2, <3>1, <3>2, <3>3, <3>4, WriterKinds
  <2>3. CASE ReaderStep \/ TimeOut
    <3>1. ~Repair
      BY <2>1, Undamaged DEF Repair
    <3> QED
      BY <1>2, <2>1, <2>3, <3>1, PollData, LoadData, DecideData, ClearData, AdvanceData
      DEF ReaderStep, Decides
  <2>4. CASE Crash
    BY <1>2, <2>1, <2>4, CrashData
  <2>5. CASE UNCHANGED vars
    BY <2>1, <2>5, DataFrame DEF vars, shared, wvars, hvars
  <2> QED
    BY <2>2, <2>3, <2>4, <2>5 DEF Next
<1> QED
  BY <1>1, <1>2 DEF DInv

LEMMA DataInductive == ASSUME PromptWriters PROVE Spec => []DInv
<1>1. DInv /\ [Next]_vars => DInv'
  BY StepDInv
<1> QED
  BY InitDInv, <1>1, PTL DEF Spec

\* ReadRecord never returns bytes that are not the complete record of one
\* phpray_ring_write, returns none twice, none out of claim order, and passes over none
\* that was completed, for every number of workers and every mixture of sizes, killed
\* workers and collector restarts included, until the reader loses the boundaries.
THEOREM ReadsAreWrites == ASSUME PromptWriters PROVE Spec => []ReadsWhatWasWritten
<1>1. DInv => ReadsWhatWasWritten
  <2> SUFFICES ASSUME DInv, damage = {} PROVE ReadsWhatWasWritten
    BY DEF ReadsWhatWasWritten, InOrderOnce, NoSilentLoss
  <2>1. DeliveryInv
    BY DEF DInv, DataInv
  <2>2. \A k \in DOMAIN delivered : delivered[k] # 0
    BY <2>1 DEF DeliveryInv
  <2> QED
    BY <2>1, <2>2 DEF ReadsWhatWasWritten, InOrderOnce, NoSilentLoss, DeliveryInv
<1> QED
  BY DataInductive, <1>1, PTL

\* The compare-and-swap of phpray_ring_write and the reader's patience together keep every
\* word in one pair of hands: no live writer fills words that another live writer fills or
\* that belong to a record still to be read.
THEOREM OneOwnerPerWord == ASSUME PromptWriters PROVE Spec => []OwnersExclusive
<1>1. DInv => OwnersExclusive
  <2> SUFFICES ASSUME DInv, damage = {},
                      NEW w \in Writers, wpc[w] \in Owning,
                      NEW i \in 1 .. Len(slots), i # wSlot[w],
                      slots[i].state = "open" \/ slots[i].start >= readPos
               PROVE  SlotWords(i) \cap SlotWords(wSlot[w]) = {}
    BY DEF OwnersExclusive
  <2>1. /\ IInv /\ ClaimInv /\ DataInv /\ TypeOK /\ TilingInv /\ writePos <= readPos + Cap
    BY Undamaged DEF DInv, ClaimInv
  <2>2. PICK s \in Unread : s = wSlot[w]
    BY <2>1, OwnSlot DEF DataInv
  <2>3. i \in Unread
    BY <2>1 DEF DataInv, PlaceInv, Unread
  <2>4. ASSUME NEW j \in Unread, NEW x \in SlotWords(j)
        PROVE  \E a \in 0 .. slots[j].size - 1 : x = Place(j) + a
    <3>1. /\ slots[j].start \in Nat /\ slots[j].size \in Nat /\ Place(j) \in Nat
          /\ Place(j) + slots[j].size <= Cap
      BY <2>1, SlotTyped DEF TilingInv, Unread
    <3>2. PICK p \in slots[j].start .. slots[j].start + slots[j].size - 1 : x = Off(p)
      BY DEF SlotWords
    <3>3. PICK a \in 0 .. slots[j].size - 1 : p = slots[j].start + a
      <4>1. p - slots[j].start \in 0 .. slots[j].size - 1
        BY SMTT(30), <3>1, <3>2
      <4> QED
        BY SMTT(30), <3>1, <3>2, <4>1
    <3>4. Off(p) = Place(j) + a
      <4>1. a \in Nat /\ Off(slots[j].start) + a < Cap
        BY SMTT(30), <3>1, <3>3, RingAssumption DEF Place
      <4> QED
        BY <3>1, <3>3, <4>1, OffAdd DEF Place
    <3> QED
      BY <3>2, <3>3, <3>4
  <2>5. ASSUME NEW x \in SlotWords(i), x \in SlotWords(s) PROVE FALSE
    <3>1. PICK a \in 0 .. slots[i].size - 1 : x = Place(i) + a
      BY <2>3, <2>4
    <3>2. PICK b \in 0 .. slots[s].size - 1 : x = Place(s) + b
      BY <2>4, <2>5
    <3> QED
      BY <2>1, <2>2, <2>3, <3>1, <3>2, UnreadApart
  <2> QED
    BY <2>2, <2>5
<1> QED
  BY DataInductive, <1>1, PTL

-----------------------------------------------------------------------------
(* Records of one size.                                                    *)

\* A word at which a record of size n could start.
Aligned(k, n) == \E a \in Nat : k = a * n

\* With records of size n only, every claim starts at a multiple of n, and payload bytes
\* lie strictly between multiples.
UniformInv(n) ==
  /\ \A w \in Writers : wpc[w] \notin Free => wSize[w] = n
  /\ Aligned(Off(writePos), n)
  /\ \A i \in 1 .. Len(slots) : Aligned(Place(i), n)
  /\ \A k \in 0 .. Cap - 1 : Aligned(k, n) => mem[k].len # Junk

\* The next multiple is n further.
LEMMA NextAligned ==
  ASSUME NEW n \in Nat \ {0}, NEW k \in Nat, Aligned(k, n)
  PROVE  /\ Aligned(0, n)
         /\ Aligned(k + n, n)
         /\ \A j \in Nat : k < j /\ j < k + n => ~Aligned(j, n)
<1>1. PICK a \in Nat : k = a * n
  BY DEF Aligned
<1>2. 0 = 0 * n /\ (a + 1) * n = a * n + n
  BY <1>1
<1>3. ASSUME NEW j \in Nat, k < j, j < k + n, NEW b \in Nat, j = b * n
      PROVE  FALSE
  <2>1. (b - a) * n = b * n - a * n /\ b - a \in Int
    BY <1>1
  <2>2. (b - a) * n > 0 /\ (b - a) * n < n
    BY <1>1, <1>3, <2>1
  <2>3. CASE b - a <= 0
    <3>1. (a - b) * n >= 0 /\ (b - a) * n = 0 - (a - b) * n
      BY <2>3
    <3> QED
      BY <2>2, <3>1
  <2>4. CASE b - a > 0
    <3>1. (b - a - 1) * n >= 0 /\ (b - a) * n = (b - a - 1) * n + n
      BY <2>4
    <3> QED
      BY <2>2, <3>1
  <2> QED
    BY <2>1, <2>3, <2>4
<1> QED
  <2>1. Aligned(0, n) /\ Aligned(k + n, n)
    BY <1>1, <1>2 DEF Aligned
  <2> QED
    BY <1>3, <2>1 DEF Aligned

\* The offset behind a claim that fits the region is the next word, or the first.
LEMMA OffNext ==
  ASSUME NEW p \in Nat, NEW k \in Nat, Off(p) + k <= Cap
  PROVE  Off(p + k) = IF Off(p) + k = Cap THEN 0 ELSE Off(p) + k
<1>1. CASE Off(p) + k = Cap
  <2>1. PICK a \in Int : p = a * Cap + Off(p)
    BY LapOf
  <2>2. PICK b \in Int : p + k = b * Cap + Off(p + k)
    BY LapOf
  <2>3. Off(p + k) \in 0 .. Cap - 1 /\ 0 \in 0 .. Cap - 1 /\ Off(p) \in 0 .. Cap - 1
    BY LapOf, RingAssumption
  <2>4. (a + 1) * Cap = a * Cap + Cap /\ a * Cap \in Int /\ b * Cap \in Int /\ Cap \in Nat
    BY RingAssumption
  <2>5. (a + 1) * Cap + 0 = b * Cap + Off(p + k)
    BY <1>1, <2>1, <2>2, <2>3, <2>4
  <2> QED
    BY <1>1, <2>3, <2>5, LapUnique
<1>2. CASE Off(p) + k < Cap
  <2>1. Off(p + k) = Off(p) + k
    BY <1>2, OffAdd
  <2>2. Off(p) + k # Cap
    BY <1>2, LapOf, RingAssumption
  <2> QED
    BY <2>1, <2>2
<1> QED
  <2>1. Off(p) \in 0 .. Cap - 1
    BY LapOf
  <2> QED
    BY <1>1, <1>2, <2>1, RingAssumption

\* Nothing is claimed and nothing written yet.
LEMMA InitUniform ==
  ASSUME NEW n \in Nat \ {0}, Init
  PROVE  UniformInv(n)
<1>1. Aligned(0, n)
  <2>1. 0 = 0 * n
    OBVIOUS
  <2> QED
    BY <2>1 DEF Aligned
<1>2. Off(writePos) = 0 /\ Len(slots) = 0
  BY RingAssumption DEF Init, Off
<1>3. \A k \in 0 .. Cap - 1 : mem[k].len = 0
  BY DEF Init, ZeroWord
<1>4. \A w \in Writers : wpc[w] \in Free
  BY DEF Init, Free
<1> QED
  BY <1>1, <1>2, <1>3, <1>4, RingAssumption DEF UniformInv, Junk

\* Claims of n words leave the write position aligned, padding leaves it at the start of
\* the region.
LEMMA ClaimUniform ==
  ASSUME TypeInv, OwnerInv, NEW n \in Nat \ {0}, UniformInv(n), NEW w \in Writers, Claims(w)
  PROVE  UniformInv(n)'
<1>0. PICK m \in Nat \ {0} : m = Len(slots) + 1
  BY SlotTyped DEF TypeInv
<1>1. /\ Len(slots') = m
      /\ \A i \in 1 .. Len(slots) : slots'[i] = slots[i]
      /\ slots'[m].start = writePos
      /\ wpc[w] = "decide" /\ wSize'[w] = wSize[w] /\ UNCHANGED mem
  BY <1>0, ClaimEffect
<1>2. PICK size \in Nat : /\ writePos' = writePos + size
                          /\ Off(writePos) + size <= Cap
                          /\ size = Cap - Off(writePos) \/ size = wSize[w]
  <2>1. /\ writePos' = writePos + slots'[m].size
        /\ slots'[m].size > 0
        /\ Off(writePos) + slots'[m].size <= Cap
        /\ slots'[m].size = Cap - Off(writePos) \/ slots'[m].size = wSize[w]
    BY <1>0, ClaimEffect
  <2>2. slots'[m].size \in Nat
    <3>1. Off(writePos) \in 0 .. Cap - 1 /\ wSize[w] \in Nat
      BY LapOf DEF TypeInv, TypeOK, SharedOK, WritersOK
    <3> QED
      BY <2>1, <3>1, RingAssumption
  <2> QED
    BY <2>1, <2>2
<1>3. /\ \A v \in Writers \ {w} : wpc'[v] = wpc[v] /\ wSize'[v] = wSize[v]
      /\ writePos \in Nat /\ Off(writePos) \in 0 .. Cap - 1 /\ wSize[w] = n
  BY <1>1, WriterFrame, LapOf DEF TypeInv, TypeOK, SharedOK, UniformInv, Free
<1>4. Aligned(Off(writePos'), n)
  <2>1. PICK p \in Nat : p = writePos
    BY <1>3
  <2>2. Off(p) + size = Cap \/ size = n
    BY <1>2, <1>3, <2>1, RingAssumption
  <2>3. Off(writePos') = IF Off(p) + size = Cap THEN 0 ELSE Off(p) + size
    <3>1. Off(p) + size <= Cap /\ writePos' = p + size
      BY <1>2, <2>1
    <3>2. Off(p + size) = IF Off(p) + size = Cap THEN 0 ELSE Off(p) + size
      BY <3>1, OffNext
    <3> QED
      BY <3>1, <3>2
  <2>4. Aligned(Off(p), n) /\ Off(p) \in Nat
    BY <1>3, <2>1 DEF UniformInv
  <2>5. Aligned(0, n) /\ Aligned(Off(p) + n, n)
    BY <2>4, NextAligned
  <2> QED
    BY <2>2, <2>3, <2>5
<1>5. \A i \in 1 .. Len(slots') : Aligned(Place(i)', n)
  <2>1. \A i \in 1 .. Len(slots) : Place(i)' = Place(i)
    BY <1>1 DEF Place
  <2>2. Place(m)' = Off(writePos)
    BY <1>1 DEF Place
  <2>3. 1 .. Len(slots') = (1 .. Len(slots)) \cup {m}
    BY <1>0, <1>1, SlotTyped DEF TypeInv
  <2> QED
    BY <2>1, <2>2, <2>3 DEF UniformInv
<1>6. \A v \in Writers : wpc'[v] \notin Free => wSize'[v] = n
  BY <1>1, <1>3 DEF UniformInv
<1> QED
  BY <1>1, <1>4, <1>5, <1>6 DEF UniformInv
\* Filling writes payload bytes only behind the first word of a claim.
LEMMA FillUniform ==
  ASSUME TypeInv, OwnerInv, NEW n \in Nat \ {0}, UniformInv(n), NEW w \in Writers, Fills(w)
  PROVE  UniformInv(n)'
<1>1. /\ UNCHANGED <<slots, writePos>> /\ wpc[w] \in Owning /\ wpc'[w] \in Owning
      /\ \A v \in Writers : wSize'[v] = wSize[v]
      /\ \A v \in Writers \ {w} : wpc'[v] = wpc[v]
  BY FillFrame, WriterFrame DEF TypeInv
<1>2. /\ mem \in [0 .. Cap - 1 -> Word] /\ wSize[w] = n /\ wSize[w] < Cap
      /\ wSlot[w] \in 1 .. Len(slots) /\ Len(slots) \in Nat
      /\ slots[wSlot[w]].start = wWp[w]
  <2>1. mem \in [0 .. Cap - 1 -> Word]
    BY DEF TypeInv, TypeOK, SharedOK
  <2>2. wSize[w] = n /\ wSize[w] < Cap
    BY <1>1 DEF TypeInv, WriterInv, UniformInv, Owning, Free
  <2>3. wSlot[w] \in 0 .. Len(slots) /\ wSlot[w] # 0 /\ Len(slots) \in Nat
    BY <1>1, SlotTyped DEF TypeInv, TypeOK, WritersOK, WriterInv
  <2>4. slots[wSlot[w]].start = wWp[w]
    BY <1>1 DEF OwnerInv
  <2> QED
    BY <2>1, <2>2, <2>3, <2>4
<1>3. PICK o \in 0 .. Cap - 1 : o = Off(wWp[w]) /\ Aligned(o, n)
  <2>1. Off(wWp[w]) \in 0 .. Cap - 1
    BY <1>2, SlotTyped DEF TypeInv, Place
  <2> QED
    BY <1>2, <2>1 DEF UniformInv, Place
<1>4. \A k \in 0 .. Cap - 1 : Aligned(k, n) => mem'[k].len # Junk
  <2> SUFFICES ASSUME NEW k \in 0 .. Cap - 1, Aligned(k, n)
               PROVE  mem'[k].len # Junk
    OBVIOUS
  <2>1. mem[k].len # Junk /\ mem[k] \in Word
    BY <1>2 DEF UniformInv
  <2>2. CASE PadType(w) \/ PubType(w)
    <3>1. PICK t : mem' = [mem EXCEPT ![o].type = t]
      BY <1>3, <2>2 DEF PadType, PubType, StoreType
    <3> QED
      BY <1>2, <2>1, <3>1 DEF Word
  <2>3. CASE PubLen(w)
    <3>1. mem' = [mem EXCEPT ![o].len = n]
      BY <1>2, <1>3, <2>3 DEF PubLen, StoreLen
    <3> QED
      BY <1>2, <2>1, <3>1, RingAssumption DEF Word, Junk
  <2>4. CASE Copy(w)
    <3>1. ~(o < k /\ k < o + n)
      BY <1>3, NextAligned
    <3>2. mem'[k] = IF k = o THEN [mem[k] EXCEPT !.id = wSlot[w]] ELSE mem[k]
      BY <1>2, <1>3, <2>4, <3>1 DEF Copy
    <3> QED
      BY <2>1, <3>2 DEF Word
  <2> QED
    BY <2>2, <2>3, <2>4 DEF Fills
<1>5. \A i : Place(i)' = Place(i)
  BY <1>1 DEF Place
<1>6. \A v \in Writers : wpc'[v] \notin Free => wSize'[v] = n
  BY <1>1, <1>2 DEF UniformInv, Owning, Free
<1> QED
  BY <1>1, <1>4, <1>5, <1>6 DEF UniformInv

\* No step of anyone puts payload bytes where a record can start.
LEMMA StepUniform ==
  ASSUME TypeInv, OwnerInv, NEW n \in Nat \ {0}, Sizes = {n}, UniformInv(n), [Next]_vars
  PROVE  UniformInv(n)'
<1>1. mem \in [0 .. Cap - 1 -> Word] /\ Cap \in Nat
  BY RingAssumption DEF TypeInv, TypeOK, SharedOK
<1>2. ASSUME NEW w \in Writers, Asks(w)
      PROVE  UniformInv(n)'
  <2>1. UNCHANGED <<slots, mem, writePos>>
    BY <1>2, AskFrame DEF TypeInv
  <2>2. \A v \in Writers \ {w} : wpc'[v] = wpc[v] /\ wSize'[v] = wSize[v]
    BY <1>2, WriterFrame DEF TypeInv
  <2>3. wpc'[w] \notin Free => wSize'[w] = n
    BY <1>2 DEF Asks, Begin, LoadWritePos, LoadReadPos, Drop, CasFails, Return,
       WriterAt, UniformInv, Free, TypeInv, TypeOK, WritersOK
  <2> QED
    BY <2>1, <2>2, <2>3 DEF UniformInv, Place
<1>3. ASSUME NEW w \in Writers, Settles(w)
      PROVE  UniformInv(n)'
  <2>1. /\ Len(slots') = Len(slots) /\ writePos' = writePos
        /\ \A i \in 1 .. Len(slots) : slots'[i].start = slots[i].start
    BY <1>3, SettleEffect
  <2>2. \A v \in Writers \ {w} : wpc'[v] = wpc[v] /\ wSize'[v] = wSize[v]
    BY <1>3, WriterFrame DEF TypeInv
  <2>3. wpc'[w] \notin Free => wSize'[w] = n
    BY <1>3 DEF Settles, PadLen, Commit, Die, Return, WriterAt, UniformInv, Free, TypeInv, TypeOK,
       WritersOK
  <2>4. \A k \in 0 .. Cap - 1 : Aligned(k, n) => mem'[k].len # Junk
    <3> SUFFICES ASSUME NEW k \in 0 .. Cap - 1, Aligned(k, n)
                 PROVE  mem'[k].len # Junk
      OBVIOUS
    <3>1. mem[k].len # Junk /\ mem[k] \in Word
      BY <1>1 DEF UniformInv
    <3>2. CASE PadLen(w)
      <4>1. TailOf(w) \in 1 .. Cap
        BY TailPositive DEF TypeInv
      <4>2. PICK o, m : mem' = [mem EXCEPT ![o].len = m] /\ m \in 1 .. Cap
        BY <3>2, <4>1 DEF PadLen, StoreLen
      <4> QED
        BY <1>1, <3>1, <4>2 DEF Word, Junk
    <3>3. CASE Commit(w)
      <4>1. PICK o : mem' = [mem EXCEPT ![o].type = "trace"]
        BY <3>3 DEF Commit, StoreType
      <4> QED
        BY <1>1, <3>1, <4>1 DEF Word
    <3>4. CASE Die(w)
      BY <3>1, <3>4 DEF Die, shared
    <3> QED
      BY <1>3, <3>2, <3>3, <3>4 DEF Settles
  <2>5. \A i \in 1 .. Len(slots) : Place(i)' = Place(i)
    BY <2>1 DEF Place
  <2>6. \A v \in Writers : wpc'[v] \notin Free => wSize'[v] = n
    BY <2>2, <2>3 DEF UniformInv
  <2> QED
    BY <2>1, <2>4, <2>5, <2>6 DEF UniformInv
<1>4. CASE ReaderStep \/ TimeOut \/ Crash
  <2>1. UNCHANGED <<wpc, wSize, slots, writePos>>
    BY <1>4, ReaderFrame DEF wvars
  <2>2. \A k \in 0 .. Cap - 1 : mem'[k].len \in {0, mem[k].len}
    <3>1. CASE mem' = mem
      BY <3>1
    <3>2. CASE ClearType
      <4>1. PICK o : mem' = [mem EXCEPT ![o] = [@ EXCEPT !.type = "trace"]]
        BY <3>2 DEF ClearType
      <4> QED
        BY <1>1, <4>1 DEF Word
    <3>3. CASE ClearLen
      <4>1. PICK o : mem' = [mem EXCEPT ![o] = [@ EXCEPT !.len = 0]]
        BY <3>3 DEF ClearLen
      <4> QED
        BY <1>1, <4>1 DEF Word
    <3>4. ClearType \/ ClearLen \/ mem' = mem
      BY <1>4 DEF ReaderStep, LoadPositions, Repair, LoadLen, LoadType, Wait, Abandon, SkipCorrupt,
         SkipPadding, CopyPayload, Advance, Panic, TimeOut, Crash, Reopen, shared
    <3> QED
      BY <3>1, <3>2, <3>3, <3>4
  <2>3. \A i : Place(i)' = Place(i)
    BY <2>1 DEF Place
  <2>4. \A k \in 0 .. Cap - 1 : Aligned(k, n) => mem'[k].len # Junk
    BY <1>1, <2>2 DEF UniformInv, Junk
  <2> QED
    BY <2>1, <2>3, <2>4 DEF UniformInv
<1>5. CASE UNCHANGED vars
  BY <1>5 DEF vars, shared, wvars, hvars, UniformInv, Place
<1> QED
  BY <1>2, <1>3, <1>4, <1>5, ClaimUniform, FillUniform, WriterKinds DEF Next

-----------------------------------------------------------------------------
(* Boundaries that are kept.                                               *)

\* Nothing that can cost a uniform ring its boundaries has happened.
Unspoilt == /\ "inverted" \notin damage /\ "cut" \notin damage
            /\ \A i \in 1 .. Len(slots) : slots[i].state # "lost"

KeptInv == Unspoilt => damage = {}

\* What has happened stays so.
LEMMA UnspoiltBefore ==
  ASSUME TypeInv, OwnerInv, [Next]_vars, Unspoilt'
  PROVE  Unspoilt
<1>1. damage \subseteq damage'
  BY DEF Next, WriterStep, ReaderStep, Begin, LoadWritePos, LoadReadPos, Drop, CasFails,
     ClaimPadding, ClaimRecord, PadType, PadLen, PubType, PubLen, Copy, Commit, Die, LoadPositions,
     Repair, LoadLen, LoadType, Wait, Abandon, SkipCorrupt, SkipPadding, CopyPayload, ClearType,
     ClearLen, Advance, Panic, TimeOut, Crash, vars, hvars
<1>2. ASSUME NEW i \in 1 .. Len(slots), slots[i].state = "lost"
      PROVE  i \in 1 .. Len(slots') /\ slots'[i].state = "lost"
  <2>0. Len(slots) \in Nat
    BY SlotTyped DEF TypeInv
  <2>1. ASSUME NEW w \in Writers, Claims(w)
        PROVE  i \in 1 .. Len(slots') /\ slots'[i].state = "lost"
    BY <1>2, <2>0, <2>1, ClaimEffect
  <2>2. ASSUME NEW w \in Writers, Settles(w)
        PROVE  i \in 1 .. Len(slots') /\ slots'[i].state = "lost"
    <3>1. wpc[w] \in Owning => slots[wSlot[w]].state = "open"
      BY DEF OwnerInv
    <3> QED
      BY <1>2, <2>2, <3>1, SettleEffect
  <2>3. CASE UNCHANGED slots
    BY <1>2, <2>3
  <2>4. CASE \E w \in Writers : Begin(w) \/ WriterStep(w) \/ Die(w)
    BY <2>1, <2>2, <2>3, <2>4, WriterKinds, AskFrame, FillFrame DEF TypeInv
  <2>5. CASE ReaderStep \/ TimeOut \/ Crash \/ UNCHANGED vars
    BY <2>3, <2>5, ReaderFrame DEF vars, hvars
  <2> QED
    BY <2>4, <2>5 DEF Next
<1> QED
  BY <1>1, <1>2 DEF Unspoilt

\* A uniform ring loses its boundaries in no other way.
LEMMA StepKept ==
  ASSUME DInv, NEW n \in Nat \ {0}, UniformInv(n), KeptInv, [Next]_vars, Unspoilt'
  PROVE  damage' = {}
<1>1. Unspoilt /\ damage = {} /\ IInv /\ ClaimInv /\ DataInv
  BY UnspoiltBefore DEF KeptInv, DInv, IInv, ClaimInv
<1>2. CASE LoadLen
  <2>1. rpc # "idle"
    BY <1>2 DEF LoadLen, ReaderAt
  <2>2. PICK r : Stands(r)
    BY <1>1, <2>1, ReaderStands
  <2>3. mem[Off(rRp)].len # Junk
    BY <2>2 DEF UniformInv, Stands
  <2> QED
    BY <1>1, <1>2, <2>3 DEF LoadLen
<1>3. CASE Advance
  <2>1. rpc = "advance"
    BY <1>3 DEF Advance
  <2>2. PICK r : Stands(r)
    BY <1>1, <2>1, ReaderStands
  <2>3. rTo = EndOf(r) /\ EndOf(r) <= rWp /\ EndOf(r) \in Nat /\ rWp \in Nat
    BY <1>1, <2>1, <2>2, Undamaged DEF Stands, Reads, Unspoilt
  <2>4. readPos' = EndOf(r) /\ Boundary(EndOf(r))
    BY <1>1, <1>3, <2>2, <2>3, StartsApart, Undamaged DEF Advance, MoveWithin, Stands, ClaimInv
  <2> QED
    BY <1>1, <1>3, <2>4 DEF Advance
<1>4. CASE Crash
  BY <1>1, <1>4 DEF Crash, Unspoilt
<1>5. CASE ~LoadLen /\ ~Advance /\ ~Crash
  BY <1>1, <1>5 DEF Next, WriterStep, ReaderStep, Begin, LoadWritePos, LoadReadPos, Drop, CasFails,
     ClaimPadding, ClaimRecord, PadType, PadLen, PubType, PubLen, Copy, Commit, Die, LoadPositions,
     Repair, LoadType, Wait, Abandon, SkipCorrupt, SkipPadding, CopyPayload, ClearType,
     ClearLen, Panic, TimeOut, vars, hvars
<1> QED
  BY <1>2, <1>3, <1>4, <1>5

LEMMA KeptInductive ==
  ASSUME PromptWriters, NEW n, Sizes = {n}
  PROVE  Spec => [](DInv /\ UniformInv(n) /\ KeptInv)
<1>0. n \in Nat \ {0}
  BY RingAssumption
<1>1. Init => DInv /\ UniformInv(n) /\ KeptInv
  <2>1. Init => KeptInv
    BY DEF Init, KeptInv, Unspoilt
  <2> QED
    BY <1>0, <2>1, InitDInv, InitUniform
<1>2. DInv /\ UniformInv(n) /\ KeptInv /\ [Next]_vars => (DInv /\ UniformInv(n) /\ KeptInv)'
  <2> SUFFICES ASSUME DInv, UniformInv(n), KeptInv, [Next]_vars
               PROVE  (DInv /\ UniformInv(n) /\ KeptInv)'
    OBVIOUS
  <2>1. DInv'
    BY StepDInv
  <2>2. UniformInv(n)'
    BY <1>0, StepUniform DEF DInv, IInv, ClaimInv
  <2>3. KeptInv'
    BY <1>0, StepKept DEF KeptInv
  <2> QED
    BY <2>1, <2>2, <2>3
<1> QED
  BY <1>1, <1>2, PTL DEF Spec

\* A collector that serves records of one size never misreads the ring: payload bytes are
\* never taken for a header and the read position never leaves the boundaries, unless a
\* worker was killed before its header was complete or the collector inside a consume.
THEOREM UniformRingIntact == ASSUME PromptWriters PROVE Spec => []UniformIntact
<1>1. CASE Cardinality(Sizes) = 1
  <2>1. PICK n : Sizes = {n}
    BY <1>1, FS_Singleton, RingAssumption
  <2>2. KeptInv => UniformIntact
    BY DEF KeptInv, Unspoilt, UniformIntact
  <2>3. Spec => [](DInv /\ UniformInv(n) /\ KeptInv)
    BY <2>1, KeptInductive
  <2> QED
    BY <2>2, <2>3, PTL
<1>2. CASE Cardinality(Sizes) # 1
  <2>1. UniformIntact
    BY <1>2 DEF UniformIntact
  <2> QED
    BY <2>1, PTL
<1> QED
  BY <1>1, <1>2

-----------------------------------------------------------------------------
(* The ring implements the queue of claims.                                *)

\* The first f claims are consumed, the others are not.
Fronts(f) ==
  /\ Len(slots) \in Nat
  /\ f \in 0 .. Len(slots)
  /\ \A i \in 1 .. Len(slots) : slots[i].start < readPos <=> i <= f

Entry(i) == [id |-> i, state |-> ClaimState(i)]

QueueEntry == [id : Nat, state : {"open", "ready", "void"}]

\* Then the queue is the claims behind the first f.
Lists(f) == /\ Unconsumed \in Seq(QueueEntry)
            /\ Len(Unconsumed) = Len(slots) - f
            /\ \A k \in 1 .. Len(slots) - f : Unconsumed[k] = Entry(f + k)

FrontLists == \A f : Fronts(f) => Lists(f)

LEMMA FrontListed == FrontLists
<1> SUFFICES ASSUME NEW f, Fronts(f)
             PROVE  Lists(f)
  BY DEF FrontLists
<1>1. {i \in 1 .. Len(slots) : slots[i].start < readPos} = 1 .. f
  BY DEF Fronts
<1>2. Cardinality(1 .. f) = f
  BY FS_Interval DEF Fronts
<1>3. Unconsumed = [k \in 1 .. Len(slots) - f |-> Entry(f + k)]
  BY <1>1, <1>2 DEF Unconsumed, Entry
<1>4. PICK n \in Nat : n = Len(slots) - f
  <2>1. Len(slots) - f \in Nat
    BY DEF Fronts
  <2> QED
    BY <2>1
<1>5. \A k \in 1 .. n : Entry(f + k) \in QueueEntry
  BY <1>4 DEF Entry, QueueEntry, ClaimState, Fronts
<1>6. Unconsumed \in [1 .. n -> QueueEntry]
  BY <1>3, <1>4, <1>5
<1> QED
  BY <1>3, <1>4, <1>6 DEF Lists

\* The claims consumed are a prefix of the claims.
LEMMA FrontExists ==
  ASSUME IInv, ClaimInv, damage = {}, PlaceInv
  PROVE  \E f : Fronts(f)
<1>1. /\ TypeOK /\ TilingInv /\ readPos \in Nat /\ writePos \in Nat /\ Len(slots) \in Nat
      /\ \A i \in 1 .. Len(slots) : slots[i].start \in Nat /\ slots[i].size \in Nat
  BY Undamaged, SlotTyped DEF ClaimInv
<1>2. CASE readPos = writePos
  <2>1. \A i \in 1 .. Len(slots) : slots[i].start < readPos
    BY <1>1, <1>2 DEF TilingInv, EndOf
  <2> QED
    BY <1>1, <2>1 DEF Fronts
<1>3. ASSUME NEW r \in 1 .. Len(slots), slots[r].start = readPos
      PROVE  \E f : Fronts(f)
  <2>1. ASSUME NEW i \in 1 .. Len(slots)
        PROVE  slots[i].start < readPos <=> i <= r - 1
    <3>1. CASE i < r
      BY <1>1, <1>3, <3>1 DEF TilingInv, EndOf
    <3>2. CASE i = r
      BY <1>1, <1>3, <3>2
    <3>3. CASE i > r
      BY <1>1, <1>3, <3>3 DEF TilingInv, EndOf
    <3> QED
      BY <1>1, <3>1, <3>2, <3>3
  <2>2. Fronts(r - 1)
    BY <1>1, <2>1 DEF Fronts
  <2> QED
    BY <2>2
<1> QED
  BY <1>2, <1>3 DEF PlaceInv, Boundary

\* A claim is appended to the queue.
LEMMA ClaimQueues ==
  ASSUME IInv, ClaimInv, damage = {}, damage' = {}, DataInv, NEW w \in Writers, Claims(w)
  PROVE  Queue!Claim
<1>1. PICK f : Fronts(f)
  BY FrontExists DEF DataInv
<1>2. /\ Len(slots') = Len(slots) + 1
      /\ \A i \in 1 .. Len(slots) : slots'[i] = slots[i]
      /\ slots'[Len(slots) + 1].start = writePos /\ slots'[Len(slots) + 1].state = "open"
      /\ readPos' = readPos /\ delivered' = delivered
      /\ readPos \in Nat /\ writePos \in Nat /\ readPos <= writePos
      /\ Len(slots) \in Nat
  BY ClaimEffect, WriterFrame, Undamaged, SlotTyped DEF IInv, TypeInv, ClaimInv
<1>3. Fronts(f)'
  BY <1>1, <1>2 DEF Fronts
<1>4. Lists(f) /\ Lists(f)'
  <2>1. FrontLists /\ FrontLists'
    BY FrontListed, PTL
  <2> QED
    BY <1>1, <1>3, <2>1 DEF FrontLists
<1>5. PICK n \in Nat : n = Len(slots) - f
  <2>1. Len(slots) - f \in Nat
    BY <1>1 DEF Fronts
  <2> QED
    BY <2>1
<1>6. Unconsumed' = Append(Unconsumed, [id |-> Len(slots) + 1, state |-> "open"])
  <2> DEFINE e == [id |-> Len(slots) + 1, state |-> "open"]
  <2>1. /\ Unconsumed \in Seq(QueueEntry) /\ Len(Unconsumed) = n
        /\ \A k \in 1 .. n : Unconsumed[k] = Entry(f + k)
    BY <1>4, <1>5 DEF Lists
  <2>2. /\ Unconsumed' \in Seq(QueueEntry) /\ Len(Unconsumed') = n + 1
        /\ \A k \in 1 .. n + 1 : Unconsumed'[k] = Entry(f + k)'
    BY <1>1, <1>2, <1>4, <1>5 DEF Lists, Fronts
  <2>3. e \in QueueEntry
    BY <1>2 DEF QueueEntry
  <2>4. \A k \in 1 .. n : Entry(f + k)' = Entry(f + k)
    BY <1>1, <1>2, <1>5 DEF Entry, ClaimState, Fronts
  <2>5. Entry(f + (n + 1))' = e
    BY <1>1, <1>2, <1>5 DEF Entry, ClaimState, Fronts
  <2> HIDE DEF e
  <2>6. /\ Append(Unconsumed, e) \in Seq(QueueEntry)
        /\ Len(Append(Unconsumed, e)) = n + 1
        /\ \A k \in 1 .. n : Append(Unconsumed, e)[k] = Unconsumed[k]
        /\ Append(Unconsumed, e)[n + 1] = e
    BY <2>1, <2>3, AppendProperties
  <2>7. \A k \in 1 .. n + 1 : Unconsumed'[k] = Append(Unconsumed, e)[k]
    BY <2>1, <2>2, <2>4, <2>5, <2>6
  <2>8. Unconsumed' = Append(Unconsumed, e)
    BY <2>2, <2>6, <2>7, SeqEqual
  <2> QED
    BY <2>8 DEF e
<1> QED
  BY <1>2, <1>6 DEF Queue!Claim

\* A settled claim is settled in the queue, ready if it is a complete record.
LEMMA SettleQueues ==
  ASSUME IInv, ClaimInv, damage = {}, damage' = {}, DataInv, NEW w \in Writers, Settles(w),
         wpc[w] \in Owning
  PROVE  \E i \in DOMAIN Unconsumed, state \in {"ready", "void"} : Queue!Settle(i, state)
<1>1. PICK f : Fronts(f)
  BY FrontExists DEF DataInv
<1>2. PICK s \in Unread : s = wSlot[w]
  BY OwnSlot DEF DataInv
<1>3. /\ s \in 1 .. Len(slots) /\ slots[s].state = "open"
      /\ Len(slots') = Len(slots)
      /\ \A i \in 1 .. Len(slots) :
           /\ slots'[i].start = slots[i].start
           /\ slots'[i].kind = slots[i].kind
           /\ slots'[i].state = IF i = s THEN Verdict(w) ELSE slots[i].state
      /\ readPos' = readPos /\ delivered' = delivered
      /\ Verdict(w) \in {"done", "dead", "lost"}
      /\ Len(slots) \in Nat /\ slots[s].start >= readPos
  BY <1>2, OwnSlot, SettleEffect, WriterFrame, Undamaged, SlotTyped
  DEF DataInv, IInv, TypeInv, ClaimInv, Verdict, Unread
<1>4. Fronts(f)'
  BY <1>1, <1>3 DEF Fronts
<1>5. Lists(f) /\ Lists(f)'
  <2>1. FrontLists /\ FrontLists'
    BY FrontListed, PTL
  <2> QED
    BY <1>1, <1>4, <2>1 DEF FrontLists
<1>6. f < s
  <2>1. ~(slots[s].start < readPos)
    BY <1>3, SlotTyped, Undamaged
  <2> QED
    BY <1>1, <1>3, <2>1 DEF Fronts
<1>7. PICK n \in Nat : n = Len(slots) - f
  <2>1. Len(slots) - f \in Nat
    BY <1>1 DEF Fronts
  <2> QED
    BY <2>1
<1>8. PICK i \in 1 .. n : f + i = s
  <2>1. s - f \in 1 .. n /\ f + (s - f) = s
    BY <1>1, <1>3, <1>6, <1>7 DEF Fronts
  <2> QED
    BY <2>1
<1>9. PICK st \in {"ready", "void"} : st = ClaimState(s)'
  BY <1>3 DEF ClaimState
<1>10. /\ Unconsumed \in Seq(QueueEntry) /\ Len(Unconsumed) = n
       /\ \A k \in 1 .. n : Unconsumed[k] = Entry(f + k)
       /\ Unconsumed' \in Seq(QueueEntry) /\ Len(Unconsumed') = n
       /\ \A k \in 1 .. n : Unconsumed'[k] = Entry(f + k)'
  BY <1>1, <1>3, <1>5, <1>7, <1>8 DEF Lists, Fronts
<1>11. /\ Unconsumed[i] = [id |-> s, state |-> "open"]
       /\ Unconsumed'[i] = [id |-> s, state |-> st]
  BY <1>3, <1>7, <1>8, <1>9, <1>10 DEF Entry, ClaimState
<1>12. \A k \in 1 .. n : k # i => Unconsumed'[k] = Unconsumed[k]
  <2> SUFFICES ASSUME NEW k \in 1 .. n, k # i
               PROVE  Entry(f + k)' = Entry(f + k)
    BY <1>10
  <2>1. f + k \in 1 .. Len(slots) /\ f + k # s
    BY <1>1, <1>7, <1>8 DEF Fronts
  <2>2. slots'[f + k].kind = slots[f + k].kind /\ slots'[f + k].state = slots[f + k].state
    BY <1>3, <2>1
  <2> QED
    BY <2>2 DEF Entry, ClaimState
<1>13. Unconsumed' = [Unconsumed EXCEPT ![i].state = st]
  <2> DEFINE e == [id |-> s, state |-> st]
  <2>1. e \in QueueEntry /\ [Unconsumed[i] EXCEPT !.state = st] = e
    BY <1>3, <1>11 DEF QueueEntry
  <2> HIDE DEF e
  <2>2. /\ [Unconsumed EXCEPT ![i] = e] \in Seq(QueueEntry)
        /\ Len([Unconsumed EXCEPT ![i] = e]) = n
        /\ \A k \in 1 .. n : [Unconsumed EXCEPT ![i] = e][k] = IF k = i THEN e ELSE Unconsumed[k]
    BY <1>7, <1>8, <1>10, <2>1, ExceptSeq
  <2>3. Unconsumed'[i] = e
    BY <1>11 DEF e
  <2>4. Unconsumed' = [Unconsumed EXCEPT ![i] = e]
    BY <1>10, <1>12, <2>2, <2>3, SeqEqual
  <2> QED
    BY <2>1, <2>4
<1>14. i \in DOMAIN Unconsumed
  BY <1>7, <1>8, <1>10
<1>15. Queue!Settle(i, st)
  <2>1. Unconsumed[i].state = "open"
    BY <1>11
  <2> QED
    BY <1>3, <1>13, <2>1 DEF Queue!Settle
<1> QED
  BY <1>14, <1>15

\* Moving on takes the oldest claim: a ready one is handed out, a void one discarded.
LEMMA AdvanceQueues ==
  ASSUME IInv, ClaimInv, damage = {}, damage' = {}, DataInv, Advance
  PROVE  Queue!Deliver \/ Queue!Discard
<1>1. PICK f : Fronts(f)
  BY FrontExists DEF DataInv
<1>2. PICK r : Stands(r)
  BY ReaderStands DEF Advance
<1>3. /\ UNCHANGED <<slots, writePos>> /\ rpc = "advance" /\ delivered' = delivered \o rRec
      /\ rRp = readPos /\ readPos \in Nat /\ Len(slots) \in Nat
      /\ Boundary(readPos') /\ readPos < readPos' /\ readPos' \in Nat /\ readPos' <= EndOf(r)
  <2>1. /\ UNCHANGED <<slots, writePos>> /\ rpc = "advance" /\ delivered' = delivered \o rRec
        /\ readPos' = MoveWithin /\ Boundary(readPos')
    BY DEF Advance
  <2>2. /\ rRp = readPos /\ readPos \in Nat /\ Len(slots) \in Nat /\ rWp \in Nat
        /\ rRp < EndOf(r) /\ EndOf(r) <= rWp /\ EndOf(r) \in Nat
    BY <1>2, <2>1, Undamaged, SlotTyped DEF Stands
  <2>3. rTo = EndOf(r) \/ rTo = rRp + 1
    BY <1>2, <2>1 DEF Stands, Reads
  <2> QED
    BY <2>1, <2>2, <2>3 DEF MoveWithin
<1>4. r = f + 1 /\ r \in 1 .. Len(slots) /\ f \in Nat
  <2>1. r \in 1 .. Len(slots) /\ slots[r].start = readPos /\ f \in Nat
    BY <1>1, <1>2, <1>3 DEF Stands, Fronts
  <2>2. f < r
    BY <1>1, <1>3, <2>1 DEF Fronts
  <2>3. ASSUME f + 1 < r PROVE FALSE
    <3>1. f + 1 \in 1 .. Len(slots) /\ ~(slots[f + 1].start < readPos)
      BY <1>1, <1>3, <2>1, <2>3 DEF Fronts
    <3>2. /\ EndOf(f + 1) <= slots[r].start /\ slots[f + 1].size > 0
          /\ slots[f + 1].start \in Nat /\ slots[f + 1].size \in Nat
      BY <2>1, <2>3, <3>1, SlotTyped, Undamaged DEF ClaimInv, TilingInv
    <3> QED
      BY SMTT(30), <1>3, <2>1, <3>1, <3>2 DEF EndOf
  <2> QED
    BY <1>3, <2>1, <2>2, <2>3
<1>5. Fronts(f + 1)'
  <2>1. /\ readPos' = EndOf(r) /\ EndOf(r) \in Nat
        /\ \A i \in 1 .. Len(slots) : i > r => EndOf(r) <= slots[i].start
        /\ \A i \in 1 .. Len(slots) : slots[i].start \in Nat
        /\ slots[r].start = readPos
    <3>1. Boundary(readPos') => EndOf(r) <= readPos'
      BY <1>2, <1>3, <1>4, StartsApart, Undamaged DEF Stands, ClaimInv
    <3> QED
      BY SMTT(30), <1>2, <1>3, <1>4, <3>1, SlotTyped, Undamaged DEF Stands, ClaimInv, TilingInv
  <2>2. ASSUME NEW i \in 1 .. Len(slots)
        PROVE  slots[i].start < EndOf(r) <=> i <= f + 1
    <3>1. CASE i <= f
      BY <1>1, <1>3, <1>4, <2>1, <3>1 DEF Fronts
    <3>2. CASE i = r
      BY <1>3, <1>4, <2>1, <3>2
    <3>3. CASE i > r
      BY <1>3, <1>4, <2>1, <3>3
    <3> QED
      BY <1>3, <1>4, <3>1, <3>2, <3>3
  <2> QED
    BY <1>3, <1>4, <2>1, <2>2 DEF Fronts
<1>6. Lists(f) /\ Lists(f + 1)'
  <2>1. FrontLists /\ FrontLists'
    BY FrontListed, PTL
  <2> QED
    BY <1>1, <1>5, <2>1 DEF FrontLists
<1>7. PICK n \in Nat : n + 1 = Len(slots) - f
  <2>1. Len(slots) - f - 1 \in Nat /\ (Len(slots) - f - 1) + 1 = Len(slots) - f
    BY <1>3, <1>4
  <2> QED
    BY <2>1
<1>8. /\ Unconsumed \in Seq(QueueEntry) /\ Len(Unconsumed) = n + 1
      /\ \A k \in 1 .. n + 1 : Unconsumed[k] = Entry(f + k)
      /\ Unconsumed' \in Seq(QueueEntry) /\ Len(Unconsumed') = n
      /\ \A k \in 1 .. n : Unconsumed'[k] = Entry((f + 1) + k)'
  <2>1. Len(slots') = Len(slots) /\ Len(slots) - (f + 1) = n
    BY <1>3, <1>4, <1>7
  <2>2. /\ Unconsumed \in Seq(QueueEntry) /\ Len(Unconsumed) = n + 1
        /\ \A k \in 1 .. n + 1 : Unconsumed[k] = Entry(f + k)
    BY <1>6, <1>7 DEF Lists
  <2>3. /\ Unconsumed' \in Seq(QueueEntry) /\ Len(Unconsumed') = n
        /\ \A k \in 1 .. n : Unconsumed'[k] = Entry((f + 1) + k)'
    BY <1>6, <2>1 DEF Lists
  <2> QED
    BY <2>2, <2>3
<1>9. Unconsumed # << >> /\ Head(Unconsumed) = Entry(r)
  BY <1>4, <1>8, HeadTailProperties
<1>10. Unconsumed' = Tail(Unconsumed)
  <2>1. /\ Tail(Unconsumed) \in Seq(QueueEntry) /\ Len(Tail(Unconsumed)) = n
        /\ \A k \in 1 .. n : Tail(Unconsumed)[k] = Unconsumed[k + 1]
    BY <1>8, <1>9, HeadTailProperties
  <2>2. \A k \in 1 .. n : Unconsumed'[k] = Tail(Unconsumed)[k]
    <3> SUFFICES ASSUME NEW k \in 1 .. n
                 PROVE  Entry((f + 1) + k)' = Entry(f + (k + 1))
      BY <1>8, <2>1
    <3>1. (f + 1) + k = f + (k + 1)
      BY <1>4
    <3> QED
      BY <1>3, <3>1 DEF Entry, ClaimState
  <2> QED
    BY <1>8, <2>1, <2>2, SeqEqual
<1>11. /\ slots[r].state # "open"
       /\ rRec = IF slots[r].state = "done" /\ slots[r].kind = "record" THEN <<r>> ELSE << >>
  BY <1>2, <1>3 DEF Stands, Reads
<1>12. delivered \in Seq(Nat)
  BY DEF IInv, TypeInv, TypeOK, HistoryOK
<1>13. CASE rRec = <<r>>
  <2>1. delivered' = Append(delivered, r)
    BY <1>3, <1>4, <1>12, <1>13
  <2>2. Entry(r).id = r /\ Entry(r).state = "ready"
    BY <1>11, <1>13 DEF Entry, ClaimState
  <2> QED
    BY <1>3, <1>9, <1>10, <2>1, <2>2 DEF Queue!Deliver
<1>14. CASE rRec = << >>
  <2>1. delivered' = delivered
    BY <1>3, <1>12, <1>14
  <2>2. Entry(r).state = "void"
    BY <1>11, <1>14 DEF Entry, ClaimState
  <2> QED
    BY <1>3, <1>9, <1>10, <2>1, <2>2 DEF Queue!Discard
<1> QED
  BY <1>11, <1>13, <1>14

\* Every other step leaves the queue as it is.
LEMMA RestStutters ==
  ASSUME IInv, ClaimInv, damage = {}, damage' = {}, DataInv, [Next]_vars, ~Advance,
         \A w \in Writers : ~Claims(w) /\ ~(Settles(w) /\ wpc[w] \in Owning)
  PROVE  UNCHANGED Queue!qvars
<1>1. UNCHANGED <<slots, readPos, delivered>>
  <2>1. ASSUME NEW w \in Writers, Begin(w) \/ WriterStep(w) \/ Die(w)
        PROVE  UNCHANGED <<slots, readPos, delivered>>
    <3>1. Asks(w) \/ Fills(w) \/ (Settles(w) /\ wpc[w] \notin Owning)
      BY <2>1, WriterKinds
    <3>2. UNCHANGED slots
      BY <3>1, AskFrame, FillFrame, DieAsking, Undamaged
    <3>3. UNCHANGED <<readPos, delivered>>
      BY <3>1, WriterFrame, Undamaged
    <3> QED
      BY <3>2, <3>3
  <2>2. CASE ReaderStep \/ TimeOut \/ Crash
    <3>1. ~Repair
      BY Undamaged DEF Repair
    <3> QED
      BY <2>2, <3>1 DEF ReaderStep, LoadPositions, LoadLen, LoadType, Wait, Abandon, SkipCorrupt,
         SkipPadding, CopyPayload, ClearType, ClearLen, Panic, TimeOut, Crash, Reopen, hvars, shared
  <2>3. CASE UNCHANGED vars
    BY <2>3 DEF vars, hvars, shared
  <2> QED
    BY <2>1, <2>2, <2>3 DEF Next
<1>2. Unconsumed' = Unconsumed
  BY <1>1 DEF Unconsumed, ClaimState
<1> QED
  BY <1>1, <1>2 DEF Queue!qvars

\* An empty ring is an empty queue.
LEMMA InitQueue == Init => Queue!Init
<1> SUFFICES ASSUME Init PROVE Queue!Init
  OBVIOUS
<1>1. damage \in {{}, {"inverted"}} /\ Len(slots) = 0 /\ delivered = << >>
  BY DEF Init
<1>2. Unconsumed = << >>
  <2>1. Fronts(0)
    BY <1>1 DEF Fronts
  <2>2. Unconsumed \in Seq(QueueEntry) /\ Len(Unconsumed) = 0
    BY <1>1, <2>1, FrontListed DEF FrontLists, Lists
  <2> QED
    BY <2>2, EmptySeq
<1>3. (damage = {}) \in BOOLEAN
  OBVIOUS
<1> QED
  BY <1>1, <1>2, <1>3 DEF Queue!Init

\* A step of the ring is a step of the queue or leaves the queue alone.
LEMMA StepQueue == PromptWriters /\ DInv /\ [Next]_vars => [Queue!Next]_Queue!qvars
<1> SUFFICES ASSUME PromptWriters, DInv, [Next]_vars PROVE [Queue!Next]_Queue!qvars
  OBVIOUS
<1>1. CASE damage # {}
  <2>1. damage' # {}
    BY <1>1, DamageStays
  <2> QED
    BY <1>1, <2>1 DEF Queue!qvars
<1>2. CASE damage = {} /\ damage' # {}
  BY <1>2 DEF Queue!Next, Queue!Break
<1>3. CASE damage = {} /\ damage' = {}
  <2>1. IInv /\ ClaimInv /\ DataInv
    BY <1>3 DEF DInv
  <2>2. CASE \E w \in Writers : Claims(w)
    BY <1>3, <2>1, <2>2, ClaimQueues DEF Queue!Next
  <2>3. CASE \E w \in Writers : Settles(w) /\ wpc[w] \in Owning
    <3>1. \E i \in DOMAIN Unconsumed, state \in {"ready", "void"} : Queue!Settle(i, state)
      BY <1>3, <2>1, <2>3, SettleQueues
    <3> QED
      BY <1>3, <3>1 DEF Queue!Next
  <2>4. CASE Advance
    BY <1>3, <2>1, <2>4, AdvanceQueues DEF Queue!Next
  <2> QED
    BY <1>3, <2>1, <2>2, <2>3, <2>4, RestStutters
<1> QED
  BY <1>1, <1>2, <1>3

\* The shared-memory ring, with its positions, headers and publication in stages, is a
\* queue: claims in order, each settled once, the oldest handed out when its record is
\* complete and skipped when there is none (phpray_ring_write, ReadRecord).
THEOREM RingIsQueue == ASSUME PromptWriters PROVE Spec => QueueSpec
<1>1. DInv /\ [Next]_vars => [Queue!Next]_Queue!qvars
  BY StepQueue
<1>2. Spec => []DInv
  BY DataInductive
<1> QED
  BY <1>1, <1>2, InitQueue, PTL DEF Spec, QueueSpec, Queue!Spec

=============================================================================
