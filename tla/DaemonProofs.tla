----------------------------- MODULE DaemonProofs -----------------------------
(***************************************************************************)
(* Proofs about the collector from the line in the file, or the post, to   *)
(* the database (Daemon, JsonlTail): for all numbers of writers, handlers, *)
(* files, lines, posts, faults and restarts, and all sizes of batches and  *)
(* of the reader's buffer.                                                 *)
(***************************************************************************)
EXTENDS Daemon, SequenceTheorems, FiniteSetTheorems, WellFoundedInduction, TLAPS

-----------------------------------------------------------------------------
(* The inductive invariant.                                                *)

\* What the goroutines are doing with their batches, and who may still be at it when the
\* process stops.
FlushInv ==
  /\ \A g \in Routines : flushing[g] = "store" <=> hold[g] # << >>
  /\ phase \in {"down", "final"} =>
       rpc = "exited" /\ flushing["reader"] = "no" /\ flushing["ticker"] = "no"
  /\ flushing["main"] # "no" => phase = "final"
  /\ phase = "final" /\ flushing["main"] # "swap" =>
       \A k \in 1 .. Len(batch) : batch[k] \in Posted

\* The newest file is the one the path names, if it names one; files to come are empty.
FileInv ==
  /\ path \in {NoFile, made}
  /\ \A i \in Inodes : i > made => files[i] = << >>
  /\ \A w \in Writers : fd[w] <= made
  /\ cur <= made /\ saved.ino <= made
  /\ cur = NoFile => pos = 0 /\ buf = << >>

\* While it reads, the reader has a file.
HasFileInv == rpc \in {"top", "read", "eof"} => cur # NoFile

\* The end of line n stands at offset k of file i, or of the buffer; line n is in the ring.
EndAt(i, k, n) == k \in 1 .. Len(files[i]) /\ files[i][k] = Rest(n)
EndInBuf(k, n) == k \in 1 .. Len(buf) /\ buf[k] = Rest(n)
InRing(k, n)   == k \in 1 .. Len(ring) /\ ring[k] = n

\* Nobody will write the end of line n any more.
Settled(n) == n <= begun /\ \A w \in Writers : half[w] # n

\* Two workers do not write one line.
HalfInv ==
  /\ \A w \in Writers : half[w] <= begun
  /\ \A v, w \in Writers : half[v] = half[w] /\ half[w] # 0 => v = w

\* A line ends at one place: what is in the buffer stands behind the reader in its file or
\* was truncated, and what came by the ring is in no file.
EndsInv ==
  \A n \in Lines :
    /\ \A i \in Inodes, k \in Nat : EndAt(i, k, n) =>
         /\ Settled(n)
         /\ \A j \in Inodes, l \in Nat : EndAt(j, l, n) => i = j /\ k = l
         /\ \A l \in Nat : EndInBuf(l, n) => i = cur /\ k <= pos /\ pos <= Len(files[cur])
    /\ \A k \in Nat : EndInBuf(k, n) =>
         Settled(n) /\ \A l \in Nat : EndInBuf(l, n) => k = l
    /\ \A k \in Nat : InRing(k, n) =>
         /\ Settled(n)
         /\ \A l \in Nat : InRing(l, n) => k = l
         /\ \A l \in Nat : ~EndInBuf(l, n)
         /\ \A i \in Inodes, l \in Nat : ~EndAt(i, l, n)

InFile == rpc \in {"top", "read", "eof"}

\* The reader can still come to line n: it is in the ring or in the buffer, or behind the
\* position or in a newer file, or behind the offset that will be resumed from.
ToCome(n) ==
  \/ \E k \in Nat : InRing(k, n)
  \/ /\ InFile
     /\ \/ \E k \in Nat : EndInBuf(k, n)
        \/ \E k \in Nat : EndAt(cur, k, n) /\ (k > pos \/ pos > Len(files[cur]))
        \/ \E i \in Inodes, k \in Nat : i > cur /\ EndAt(i, k, n)
  \/ /\ ~InFile /\ path # NoFile
     /\ \E k \in Nat : EndAt(path, k, n) /\ k > Resume(path)

\* Until a crash, or a failed read or save of a file, a line that was taken is one the reader
\* cannot come to any more.
LinesInv ==
  upsets = 0 => \A n \in Lines : took[n] <= 1 /\ (took[n] # 0 => Settled(n) /\ ~ToCome(n))

\* While a process remembers the posted batch, one handler at most takes it, each trace once.
PostsInv ==
  /\ phase = "down" => ~seen /\ \A h \in Handlers : hpc[h] = "idle"
  /\ faults = upsets =>
       /\ \A t \in Posted : took[t] <= lives
       /\ phase # "down" /\ ~seen =>
            /\ \A t \in Posted : took[t] < lives
            /\ \A h \in Handlers : hpc[h] # "loop"
       /\ \A g, h \in Handlers : hpc[g] = "loop" /\ hpc[h] = "loop" => g = h
       /\ \A h \in Handlers : hpc[h] = "loop" =>
            \A t \in Posted : t >= next[h] => took[t] < lives

\* In a file that was not truncated the buffer is what stands before the position, and what was
\* consumed ends where a line does, or was cut.
TextInv ==
  cur # NoFile /\ cur \notin truncated =>
    /\ pos <= Len(files[cur]) /\ from <= Consumed
    /\ \A k \in 1 .. Len(buf) : buf[k] = files[cur][Consumed + k]
    /\ \A c \in cuts : from <= c /\ c <= Consumed
    /\ Consumed = from \/ Consumed \in cuts \/ files[cur][Consumed].ends

\* A line begins at offset k of the text, whose next piece is its end if there is one.
BeginsIn(text, k) ==
  /\ ~text[k].ends
  /\ k = 1 \/ text[k - 1].ends
  /\ k = Len(text) \/ text[k + 1] = Rest(text[k].line)

Known == ever \cup mangled \cup aheads

\* What the reader has behind it, and what the saved offset has, is accounted for.
SkipInv ==
  truncated = {} =>
    /\ skipped \subseteq aheads \cup mangled
    /\ cur # NoFile => \A k \in 1 .. Consumed :
         BeginsIn(files[cur], k) => files[cur][k].line \in Known
    /\ saved.ino # NoFile =>
         /\ saved.off <= Len(files[saved.ino])
         /\ \A k \in 1 .. saved.off : BeginsIn(files[saved.ino], k) =>
              files[saved.ino][k].line \in Known \cup saved.ahead

IInv ==
  /\ TypeOK /\ upsets <= faults
  /\ FlushInv /\ FileInv /\ HasFileInv
  /\ HalfInv /\ EndsInv /\ LinesInv /\ PostsInv /\ Conserved
  /\ TextInv /\ HandsOnWhatItPassed /\ SkipInv

-----------------------------------------------------------------------------
(* Steps, seen by the file and its reader.                                 *)

WriterStep ==
  \E w \in Writers : WriteLine(w) \/ WriteStart(w) \/ WriteRest(w) \/ Quit(w)

\* The number of a record that goes to the ring.
NumberTaken ==
  /\ begun < MaxLines /\ begun' = begun + 1
  /\ UNCHANGED <<files, path, made, fd, half, truncated>>

OutsideStep == WriterStep \/ Rotate \/ Truncate \/ NumberTaken

\* The path is opened where the state file says, or at its start if that was not read.
OpensPath == OpenPath \/ OpenAt(0)

\* The state file was emptied and not written.
Forgets == saved' = NotSaved /\ UNCHANGED <<fileVars, readerVars, pastVars>>

TailStep ==
  \/ UNCHANGED tailVars
  \/ OpensPath
  \/ Forgets
  \/ cur # NoFile /\ (Fill \/ TakeRecord \/ TakeGarbage \/ HitEnd)
  \/ cur # NoFile /\ Save /\ UNCHANGED <<fileVars, readerVars, pastVars>>
  \/ Close /\ UNCHANGED <<fileVars, pastVars>> /\ saved' \in {saved, NotSaved}
  \/ OutsideStep /\ UNCHANGED <<readerVars, saved, pastVars>>

\* What a failed read or save of a file leaves alone.
LEMMA TroubleKeeps ==
  ASSUME Trouble
  PROVE  /\ UNCHANGED <<procVars, ingestVars, clientVars, batchVars, ring, took>>
         /\ faults < MaxFaults /\ faults' = faults + 1 /\ upsets' = upsets + 1
         /\ phase # "down" /\ flushing["reader"] = "no" /\ rpc' \in {"top", "open", "exited"}
<1>1. CASE ReadFails
  BY <1>1 DEF ReadFails, Reading, ReaderAt, Upset, upsetting, Goto
<1>2. CASE SaveFails
  BY <1>2 DEF SaveFails, ReaderAt, Upset, upsetting, Goto
<1>3. CASE LoadFails
  BY <1>3 DEF LoadFails, ReaderAt, Upset, upsetting, Goto
<1> QED
  BY <1>1, <1>2, <1>3 DEF Trouble

LEMMA TroubleTail ==
  ASSUME Trouble
  PROVE  TailStep
<1>1. CASE ReadFails
  BY <1>1 DEF ReadFails, TailStep
<1>2. CASE SaveFails
  BY <1>2 DEF SaveFails, TailStep, Forgets, tailVars
<1>3. CASE LoadFails
  BY <1>3 DEF LoadFails, TailStep, OpensPath
<1> QED
  BY <1>1, <1>2, <1>3 DEF Trouble

LEMMA ReaderTail ==
  ASSUME HasFileInv, Reader
  PROVE  TailStep
<1>1. CASE OpenFile
  BY <1>1 DEF OpenFile, TailStep, OpensPath
<1>2. CASE FillBuffer \/ ReadRecord \/ ReadGarbage \/ ReachEnd
  BY <1>2 DEF FillBuffer, ReadRecord, ReadGarbage, ReachEnd, Reading, ReaderAt, HasFileInv, TailStep
<1>3. CASE PollAgain \/ PathMissing \/ Rotated \/ StopTail
  BY <1>3 DEF PollAgain, PathMissing, Rotated, StopTail, ReaderAt, HasFileInv, TailStep, tailVars
<1>4. CASE StopClosed \/ StopRing \/ DrainRing
  BY <1>4 DEF StopClosed, StopRing, DrainRing, TailStep
<1> QED
  BY <1>1, <1>2, <1>3, <1>4 DEF Reader

LEMMA NextTail ==
  ASSUME HasFileInv, [Next]_vars
  PROVE  TailStep
<1>1. CASE Reader
  BY <1>1, ReaderTail
<1>2. CASE Launch \/ Terminate \/ LastFlush \/ Tick \/ Forget \/ UNCHANGED vars
  BY <1>2 DEF Launch, Terminate, LastFlush, Tick, Forget, vars, TailStep
<1>3. CASE \E g \in Routines : Flush(g)
  BY <1>3 DEF Flush, TailStep
<1>4. CASE \E h \in Handlers : Post(h) \/ Handler(h)
  BY <1>4 DEF Post, Handler, CheckSeen, IngestNext, IngestDone, Reply, unserved, TailStep
<1>5. CASE Exit \/ Crash
  BY <1>5 DEF Exit, Crash, Vanish, TailStep
<1>6. CASE \E w \in Writers : Write(w)
  BY <1>6 DEF Write, TailStep, OutsideStep, WriterStep
<1>7. CASE Disturb
  BY <1>7 DEF Disturb, TailStep, OutsideStep
<1>8. CASE WriteRing
  BY <1>8 DEF WriteRing, TailStep, OutsideStep, NumberTaken
<1> QED
  BY <1>1, <1>2, <1>3, <1>4, <1>5, <1>6, <1>7, <1>8, TroubleTail DEF Next

-----------------------------------------------------------------------------
(* What the operations on the file and the buffer do.                      *)

\* A set of numbers that is not empty has a smallest element.
LEMMA SmallestExists ==
  ASSUME NEW T \in SUBSET Nat, T # {}
  PROVE  \E x \in T : \A y \in T : x <= y
<1>1. PICK x \in T : \A y \in T : ~(<<y, x>> \in OpToRel(<, Nat))
  BY NatLessThanWellFounded, WFMin
<1>2. \A y \in T : ~(y < x)
  BY <1>1 DEF OpToRel
<1> QED
  BY <1>2

LEMMA LineEndIsFirst ==
  ASSUME buf \in Seq(Piece), HasLine
  PROVE  /\ LineEnd \in 1 .. Len(buf) /\ buf[LineEnd].ends
         /\ \A k \in 1 .. LineEnd - 1 : ~buf[k].ends
<1> DEFINE T == {k \in 1 .. Len(buf) : buf[k].ends}
<1>1. T \in SUBSET Nat /\ T # {}
  BY DEF HasLine
<1>2. PICK x \in T : \A y \in T : x <= y
  BY <1>1, SmallestExists
<1>3. \E k \in 1 .. Len(buf) : buf[k].ends /\ \A j \in 1 .. k - 1 : ~buf[j].ends
  BY <1>2
<1> QED
  BY <1>3 DEF LineEnd

\* What is consumed is the first line of the buffer.
LEMMA ConsumeTakesLine ==
  ASSUME buf \in Seq(Piece), HasLine, Consume
  PROVE  /\ buf' \in Seq(Piece) /\ Len(buf') = Len(buf) - LineEnd
         /\ \A k \in 1 .. Len(buf') : buf'[k] = buf[LineEnd + k]
<1>1. PICK n \in Nat : n = Len(buf)
  OBVIOUS
<1>2. PICK e \in 1 .. n : e = LineEnd
  BY <1>1, LineEndIsFirst
<1>3. buf' = SubSeq(buf, e + 1, n)
  BY <1>1, <1>2 DEF Consume
<1>4. Len(buf') = n - e /\ \A k \in 1 .. n - e : buf'[k] = buf[e + k]
  BY <1>1, <1>2, <1>3
<1>5. buf' \in Seq(Piece)
  BY <1>1, <1>2, <1>3
<1> QED
  BY <1>1, <1>2, <1>4, <1>5

\* The parts of a sequence that was put together, and of one that was cut.
LEMMA ConcatParts ==
  ASSUME NEW S, NEW s \in Seq(S), NEW t \in Seq(S)
  PROVE  /\ s \o t \in Seq(S) /\ Len(s \o t) = Len(s) + Len(t)
         /\ \A k \in 1 .. Len(s) : (s \o t)[k] = s[k]
         /\ \A k \in 1 .. Len(t) : (s \o t)[Len(s) + k] = t[k]
<1>1. /\ s \o t \in Seq(S) /\ Len(s \o t) = Len(s) + Len(t)
      /\ \A i \in 1 .. Len(s) + Len(t) :
           (s \o t)[i] = IF i <= Len(s) THEN s[i] ELSE t[i - Len(s)]
  BY ConcatProperties
<1>2. PICK a \in Nat : a = Len(s)
  OBVIOUS
<1>3. PICK b \in Nat : b = Len(t)
  OBVIOUS
<1>4. \A k \in 1 .. a : (s \o t)[k] = s[k]
  BY <1>1, <1>2, <1>3
<1>5. ASSUME NEW k \in 1 .. b
      PROVE  (s \o t)[a + k] = t[k]
  <2>1. a + k \in 1 .. a + b /\ ~(a + k <= a) /\ (a + k) - a = k
    OBVIOUS
  <2> QED
    BY <1>1, <1>2, <1>3, <2>1
<1> QED
  BY <1>1, <1>2, <1>3, <1>4, <1>5

LEMMA CutParts ==
  ASSUME NEW S, NEW s \in Seq(S), NEW m \in Nat, NEW n \in Nat, m <= n, n <= Len(s)
  PROVE  /\ SubSeq(s, m + 1, n) \in Seq(S) /\ Len(SubSeq(s, m + 1, n)) = n - m
         /\ \A k \in 1 .. n - m : SubSeq(s, m + 1, n)[k] = s[m + k]
<1>1. \A i \in m + 1 .. n : s[i] \in S
  OBVIOUS
<1>2. /\ SubSeq(s, m + 1, n) \in Seq(S)
      /\ Len(SubSeq(s, m + 1, n)) = IF m + 1 <= n THEN n - (m + 1) + 1 ELSE 0
      /\ \A i \in 1 .. n - (m + 1) + 1 : SubSeq(s, m + 1, n)[i] = s[(m + 1) + i - 1]
  BY <1>1, SubSeqProperties
<1>3. (IF m + 1 <= n THEN n - (m + 1) + 1 ELSE 0) = n - m
  OBVIOUS
<1>4. ASSUME NEW k \in 1 .. n - m
      PROVE  SubSeq(s, m + 1, n)[k] = s[m + k]
  <2>1. k \in 1 .. n - (m + 1) + 1 /\ (m + 1) + k - 1 = m + k
    OBVIOUS
  <2> QED
    BY <1>2, <2>1
<1> QED
  BY <1>2, <1>3, <1>4

\* What is read stands behind the position.
LEMMA FillReads ==
  ASSUME TailTypeOK, cur # NoFile, Fill
  PROVE  /\ buf' \in Seq(Piece) /\ pos' \in Nat
         /\ pos < pos' /\ pos' <= Len(files[cur])
         /\ Len(buf') = Len(buf) + (pos' - pos)
         /\ \A k \in 1 .. Len(buf) : buf'[k] = buf[k]
         /\ \A k \in 1 .. pos' - pos : buf'[Len(buf) + k] = files[cur][pos + k]
<1>1. /\ cur \in Inodes /\ files[cur] \in Seq(Piece) /\ pos \in Nat /\ buf \in Seq(Piece)
      /\ ReadAhead \in Nat \ {0}
  BY TailAssumption DEF TailTypeOK
<1>2. PICK n \in Nat : n = Len(files[cur])
  BY <1>1
<1>3. pos < n /\ pos' = Min2(pos + ReadAhead, n) /\ buf' = buf \o SubSeq(files[cur], pos + 1, pos')
  BY <1>1, <1>2 DEF Fill, AtEnd
<1>4. pos' \in Nat /\ pos < pos' /\ pos' <= n
  BY <1>1, <1>3 DEF Min2
<1>5. PICK to \in Nat : to = pos'
  BY <1>4
<1>6. PICK text \in Seq(Piece) : text = files[cur]
  BY <1>1
<1> DEFINE s == SubSeq(text, pos + 1, to)
<1>7. s \in Seq(Piece) /\ Len(s) = to - pos /\ \A k \in 1 .. to - pos : s[k] = text[pos + k]
  <2>1. pos \in Nat /\ to \in Nat /\ pos <= to /\ to <= Len(text)
    BY <1>1, <1>2, <1>4, <1>5, <1>6
  <2> QED
    BY <2>1, CutParts
<1>8. buf' = buf \o s
  BY <1>3, <1>5, <1>6
<1> HIDE DEF s
<1>9. /\ buf' \in Seq(Piece) /\ Len(buf') = Len(buf) + (to - pos)
      /\ \A k \in 1 .. Len(buf) : buf'[k] = buf[k]
      /\ \A k \in 1 .. to - pos : buf'[Len(buf) + k] = s[k]
  <2>1. /\ buf \o s \in Seq(Piece) /\ Len(buf \o s) = Len(buf) + Len(s)
        /\ \A k \in 1 .. Len(buf) : (buf \o s)[k] = buf[k]
        /\ \A k \in 1 .. Len(s) : (buf \o s)[Len(buf) + k] = s[k]
    <3>1. buf \in Seq(Piece) /\ s \in Seq(Piece)
      BY <1>1, <1>7
    <3> QED
      BY <3>1, ConcatParts
  <2> QED
    BY <1>7, <1>8, <2>1
<1> QED
  BY <1>2, <1>4, <1>5, <1>6, <1>7, <1>9

\* A file to which pieces are appended.
LEMMA AppendToFile ==
  ASSUME TailTypeOK, FileInv, NEW w \in Writers, NEW p \in Seq(Piece), AppendTo(w, p)
  PROVE  \E i \in Inodes :
           /\ files' = [files EXCEPT ![i] = @ \o p] /\ fd' = [fd EXCEPT ![w] = i]
           /\ \/ i <= made /\ UNCHANGED <<path, made>>
              \/ i = made + 1 /\ path = NoFile /\ path' = i /\ made' = i
<1>1. /\ files' = [files EXCEPT ![Target(w)] = @ \o p] /\ fd' = [fd EXCEPT ![w] = Target(w)]
      /\ made \in 0 .. MaxFiles /\ path \in Inodes \cup {NoFile} /\ fd[w] \in Inodes \cup {NoFile}
  BY DEF AppendTo, TailTypeOK
<1>2. CASE MustCreate(w)
  <2>1. Target(w) = made + 1 /\ made + 1 \in Inodes
    BY <1>1, <1>2, TailAssumption DEF AppendTo, MustCreate, Target, Inodes
  <2>2. path = NoFile /\ path' = made + 1 /\ made' = made + 1
    BY <1>2, <2>1 DEF AppendTo, MustCreate
  <2> QED
    BY <1>1, <2>1, <2>2
<1>3. CASE ~MustCreate(w)
  <2>1. Target(w) \in Inodes /\ Target(w) <= made
    BY <1>1, <1>3 DEF MustCreate, Target, FileInv, Inodes, NoFile
  <2>2. UNCHANGED <<path, made>>
    BY <1>3 DEF AppendTo
  <2> QED
    BY <1>1, <2>1, <2>2
<1> QED
  BY <1>2, <1>3

\* What a worker writes is in one file, at its end.
LEMMA WriteAppends ==
  ASSUME TailTypeOK, FileInv, NEW w \in Writers, WriteLine(w) \/ WriteStart(w) \/ WriteRest(w)
  PROVE  \E i \in Inodes, p \in Seq(Piece) :
           /\ files' = [files EXCEPT ![i] = @ \o p] /\ fd' = [fd EXCEPT ![w] = i]
           /\ \/ i <= made /\ UNCHANGED <<path, made>>
              \/ i = made + 1 /\ path = NoFile /\ path' = i /\ made' = i
           /\ half' \in [Writers -> Lines \cup {0}] /\ begun' \in 0 .. MaxLines
           /\ UNCHANGED truncated
<1>1. begun \in 0 .. MaxLines /\ half \in [Writers -> Lines \cup {0}] /\ MaxLines \in Nat
  BY TailAssumption DEF TailTypeOK
<1>2. CASE WriteLine(w)
  <2>1. begun + 1 \in Lines
    BY <1>1, <1>2 DEF WriteLine, Lines
  <2>2. Start(begun + 1) \in Piece /\ Rest(begun + 1) \in Piece
    BY <2>1 DEF Piece, Start, Rest
  <2>3. <<Start(begun + 1), Rest(begun + 1)>> \in Seq(Piece)
    BY <2>2
  <2>4. PICK i \in Inodes :
           /\ files' = [files EXCEPT ![i] = @ \o <<Start(begun + 1), Rest(begun + 1)>>]
           /\ fd' = [fd EXCEPT ![w] = i]
           /\ \/ i <= made /\ UNCHANGED <<path, made>>
              \/ i = made + 1 /\ path = NoFile /\ path' = i /\ made' = i
    BY <1>2, <2>3, AppendToFile DEF WriteLine
  <2>5. half' \in [Writers -> Lines \cup {0}] /\ begun' \in 0 .. MaxLines /\ UNCHANGED truncated
    BY <1>1, <1>2, <2>1 DEF WriteLine, Lines
  <2> QED
    BY <2>3, <2>4, <2>5
<1>3. CASE WriteStart(w)
  <2>1. begun + 1 \in Lines
    BY <1>1, <1>3 DEF WriteStart, Lines
  <2>2. Start(begun + 1) \in Piece
    BY <2>1 DEF Piece, Start
  <2>3. <<Start(begun + 1)>> \in Seq(Piece)
    BY <2>2
  <2>4. PICK i \in Inodes :
           /\ files' = [files EXCEPT ![i] = @ \o <<Start(begun + 1)>>]
           /\ fd' = [fd EXCEPT ![w] = i]
           /\ \/ i <= made /\ UNCHANGED <<path, made>>
              \/ i = made + 1 /\ path = NoFile /\ path' = i /\ made' = i
    BY <1>3, <2>3, AppendToFile DEF WriteStart
  <2>5. half' \in [Writers -> Lines \cup {0}] /\ begun' \in 0 .. MaxLines /\ UNCHANGED truncated
    BY <1>1, <1>3, <2>1 DEF WriteStart, Lines
  <2> QED
    BY <2>3, <2>4, <2>5
<1>4. CASE WriteRest(w)
  <2>1. half[w] \in Lines
    BY <1>1, <1>4 DEF WriteRest
  <2>2. Rest(half[w]) \in Piece
    BY <2>1 DEF Piece, Rest
  <2>3. <<Rest(half[w])>> \in Seq(Piece)
    BY <2>2
  <2>4. PICK i \in Inodes :
           /\ files' = [files EXCEPT ![i] = @ \o <<Rest(half[w])>>]
           /\ fd' = [fd EXCEPT ![w] = i]
           /\ \/ i <= made /\ UNCHANGED <<path, made>>
              \/ i = made + 1 /\ path = NoFile /\ path' = i /\ made' = i
    BY <1>4, <2>3, AppendToFile DEF WriteRest
  <2> QED
    BY <1>1, <1>4, <2>1, <2>3, <2>4 DEF WriteRest
<1> QED
  BY <1>2, <1>3, <1>4

\* A file to which something is written keeps what it has.
LEMMA AppendKeeps ==
  ASSUME files \in [Inodes -> Seq(Piece)], NEW i \in Inodes, NEW p \in Seq(Piece),
         files' = [files EXCEPT ![i] = @ \o p]
  PROVE  /\ files' \in [Inodes -> Seq(Piece)]
         /\ \A j \in Inodes \ {i} : files'[j] = files[j]
         /\ Len(files'[i]) = Len(files[i]) + Len(p)
         /\ \A k \in 1 .. Len(files[i]) : files'[i][k] = files[i][k]
         /\ \A k \in 1 .. Len(p) : files'[i][Len(files[i]) + k] = p[k]
<1>1. PICK s \in Seq(Piece) : s = files[i]
  OBVIOUS
<1>2. /\ s \o p \in Seq(Piece) /\ Len(s \o p) = Len(s) + Len(p)
      /\ \A k \in 1 .. Len(s) : (s \o p)[k] = s[k]
      /\ \A k \in 1 .. Len(p) : (s \o p)[Len(s) + k] = p[k]
  BY ConcatParts
<1>3. files'[i] = s \o p /\ \A j \in Inodes \ {i} : files'[j] = files[j]
  BY <1>1
<1>4. files' \in [Inodes -> Seq(Piece)]
  BY <1>1, <1>2
<1> QED
  BY <1>1, <1>2, <1>3, <1>4

-----------------------------------------------------------------------------
(* The files, their reader and what it saved keep their types, and the     *)
(* newest file is the one the path names.                                  *)

LEMMA PiecesHaveLines ==
  ASSUME NEW s \in Seq(Piece), NEW k \in 1 .. Len(s)
  PROVE  s[k] \in Piece /\ s[k].line \in Lines /\ s[k].ends \in BOOLEAN
<1>1. s[k] \in Piece
  OBVIOUS
<1> QED
  BY <1>1 DEF Piece

LEMMA LookTypes ==
  ASSUME TailTypeOK, cur # NoFile, HasLine, TakeRecord \/ TakeGarbage
  PROVE  /\ buf' \in Seq(Piece) /\ handed' \in Seq(Lines) /\ ever' \subseteq Lines
         /\ UNCHANGED <<fileVars, cur, pos, from, cuts, saved, mangled, skipped, aheads>>
<1>1. buf \in Seq(Piece) /\ handed \in Seq(Lines) /\ ever \subseteq Lines
  BY DEF TailTypeOK
<1>2. buf' \in Seq(Piece)
  BY <1>1, ConsumeTakesLine DEF TakeRecord, TakeGarbage
<1>3. LineEnd \in 1 .. Len(buf)
  BY <1>1, LineEndIsFirst
<1>4. buf[1].line \in Lines
  <2>1. 1 \in 1 .. Len(buf)
    BY <1>1, <1>3
  <2> QED
    BY <1>1, <2>1, PiecesHaveLines
<1>5. CASE TakeRecord
  BY <1>1, <1>2, <1>4, <1>5 DEF TakeRecord
<1>6. CASE TakeGarbage
  BY <1>1, <1>2, <1>6 DEF TakeGarbage, pastVars
<1> QED
  BY <1>5, <1>6

\* An opening of the path, wherever it begins to read.
LEMMA OpensAt ==
  ASSUME TailTypeOK, OpensPath
  PROVE  \E off \in Nat :
           /\ OpenAt(off) /\ (off = 0 \/ off = Resume(path))
           /\ path \in Inodes /\ off <= Len(files[path])
<1>1. path \in Inodes /\ saved.off \in Nat /\ Len(files[path]) \in Nat
  BY DEF OpensPath, OpenPath, OpenAt, TailTypeOK, Saved
<1>2. Resume(path) \in Nat /\ Resume(path) <= Len(files[path])
  BY <1>1 DEF Resume
<1> QED
  BY <1>1, <1>2 DEF OpensPath, OpenPath

LEMMA TailTypes ==
  ASSUME TailTypeOK, FileInv, TailStep
  PROVE  TailTypeOK'
<1>1. CASE UNCHANGED tailVars
  BY <1>1 DEF TailTypeOK, tailVars, fileVars, readerVars, pastVars
<1>2. CASE OpensPath
  <2>1. PICK off \in Nat : OpenAt(off) /\ path \in Inodes /\ off <= Len(files[path])
    BY <1>2, OpensAt
  <2>2. path' = path /\ saved.ahead \subseteq Lines
    BY <2>1 DEF TailTypeOK, OpenAt, Saved, fileVars
  <2>3. BegunWithin(path, off) \ ever \subseteq Lines
    <3>1. ASSUME NEW n \in BegunWithin(path, off)
          PROVE  n \in Lines
      <4>1. files[path] \in Seq(Piece)
        BY <2>1 DEF TailTypeOK
      <4>3. PICK k \in 1 .. off : n = files[path][k].line
        BY <3>1 DEF BegunWithin
      <4>4. files[path][k] \in Piece
        BY <2>1, <4>1
      <4> QED
        BY <4>3, <4>4 DEF Piece
    <3> QED
      BY <3>1
  <2> QED
    BY <2>1, <2>2, <2>3 DEF TailTypeOK, OpenAt, fileVars
<1>9. CASE Forgets
  BY <1>9 DEF Forgets, TailTypeOK, Saved, NotSaved, fileVars, readerVars, pastVars
<1>3. CASE cur # NoFile /\ Fill
  BY <1>3, FillReads DEF Fill, TailTypeOK, fileVars, pastVars
<1>4. CASE cur # NoFile /\ (TakeRecord \/ TakeGarbage)
  <2>1. HasLine
    BY <1>4 DEF TakeRecord, TakeGarbage
  <2> QED
    BY <1>4, <2>1, LookTypes DEF TailTypeOK, fileVars
<1>5. CASE cur # NoFile /\ HitEnd
  <2>1. {buf[k].line : k \in 1 .. Len(buf)} \subseteq Lines
    BY PiecesHaveLines DEF TailTypeOK
  <2> QED
    BY <1>5, <2>1 DEF HitEnd, TailTypeOK, fileVars
<1>6. CASE cur # NoFile /\ Save /\ UNCHANGED <<fileVars, readerVars, pastVars>>
  <2>1. {buf[k].line : k \in 1 .. Len(buf)} \subseteq Lines
    BY PiecesHaveLines DEF TailTypeOK
  <2>2. saved' \in Saved
    BY <1>6, <2>1 DEF Save, Saved, TailTypeOK
  <2> QED
    BY <1>6, <2>2 DEF TailTypeOK, fileVars, readerVars, pastVars
<1>7. CASE Close /\ UNCHANGED <<fileVars, pastVars>> /\ saved' \in {saved, NotSaved}
  <2>1. NotSaved \in Saved
    BY DEF NotSaved, Saved
  <2> QED
    BY <1>7, <2>1 DEF Close, TailTypeOK, fileVars, pastVars
<1>8. CASE OutsideStep /\ UNCHANGED <<readerVars, saved, pastVars>>
  <2>1. CASE \E w \in Writers : WriteLine(w) \/ WriteStart(w) \/ WriteRest(w)
    <3>1. PICK w \in Writers : WriteLine(w) \/ WriteStart(w) \/ WriteRest(w)
      BY <2>1
    <3>2. PICK i \in Inodes, p \in Seq(Piece) :
             /\ files' = [files EXCEPT ![i] = @ \o p] /\ fd' = [fd EXCEPT ![w] = i]
             /\ \/ i <= made /\ UNCHANGED <<path, made>>
                \/ i = made + 1 /\ path = NoFile /\ path' = i /\ made' = i
             /\ half' \in [Writers -> Lines \cup {0}] /\ begun' \in 0 .. MaxLines
             /\ UNCHANGED truncated
      BY <3>1, WriteAppends
    <3>3. files' \in [Inodes -> Seq(Piece)]
      BY <3>2, AppendKeeps DEF TailTypeOK
    <3>4. path' \in Inodes \cup {NoFile} /\ made' \in 0 .. MaxFiles
      BY <3>2 DEF TailTypeOK, Inodes
    <3> QED
      BY <1>8, <3>2, <3>3, <3>4 DEF TailTypeOK, readerVars, pastVars
  <2>2. CASE \E w \in Writers : Quit(w)
    BY <1>8, <2>2 DEF Quit, TailTypeOK, readerVars, pastVars
  <2>3. CASE Rotate
    BY <1>8, <2>3 DEF Rotate, TailTypeOK, readerVars, pastVars
  <2>4. CASE Truncate
    <3>1. path \in Inodes /\ << >> \in Seq(Piece)
      BY <2>4 DEF Truncate, TailTypeOK
    <3> QED
      BY <1>8, <2>4, <3>1 DEF Truncate, TailTypeOK, readerVars, pastVars
  <2>5. CASE NumberTaken
    BY <1>8, <2>5, TailAssumption DEF NumberTaken, TailTypeOK, readerVars, pastVars
  <2> QED
    BY <1>8, <2>1, <2>2, <2>3, <2>4, <2>5 DEF OutsideStep, WriterStep
<1> QED
  BY <1>1, <1>2, <1>3, <1>4, <1>5, <1>6, <1>7, <1>8, <1>9 DEF TailStep

LEMMA FileKept ==
  ASSUME TailTypeOK, FileInv, TailStep
  PROVE  FileInv'
<1>0. path \in Inodes \cup {NoFile} /\ made \in 0 .. MaxFiles
  BY DEF TailTypeOK
<1>1. CASE UNCHANGED tailVars
  BY <1>1 DEF FileInv, tailVars, fileVars, readerVars
<1>2. CASE OpensPath
  BY <1>0, <1>2 DEF FileInv, OpensPath, OpenPath, OpenAt, fileVars, Inodes, NoFile
<1>7. CASE Forgets
  BY <1>0, <1>7 DEF FileInv, Forgets, NotSaved, fileVars, readerVars, NoFile
<1>3. CASE cur # NoFile /\ (Fill \/ TakeRecord \/ TakeGarbage \/ HitEnd)
  BY <1>3 DEF FileInv, Fill, TakeRecord, TakeGarbage, HitEnd, fileVars
<1>4. CASE cur # NoFile /\ Save /\ UNCHANGED <<fileVars, readerVars, pastVars>>
  BY <1>4 DEF FileInv, Save, fileVars, readerVars
<1>5. CASE Close /\ UNCHANGED <<fileVars, pastVars>> /\ saved' \in {saved, NotSaved}
  BY <1>0, <1>5 DEF FileInv, Close, fileVars, NotSaved, NoFile
<1>6. CASE OutsideStep /\ UNCHANGED <<readerVars, saved, pastVars>>
  <2>1. CASE \E w \in Writers : WriteLine(w) \/ WriteStart(w) \/ WriteRest(w)
    <3>1. PICK w \in Writers : WriteLine(w) \/ WriteStart(w) \/ WriteRest(w)
      BY <2>1
    <3>2. PICK i \in Inodes, p \in Seq(Piece) :
             /\ files' = [files EXCEPT ![i] = @ \o p] /\ fd' = [fd EXCEPT ![w] = i]
             /\ \/ i <= made /\ UNCHANGED <<path, made>>
                \/ i = made + 1 /\ path = NoFile /\ path' = i /\ made' = i
      BY <3>1, WriteAppends
    <3>3. \A j \in Inodes : j > made' => files'[j] = << >>
      BY <1>0, <3>2 DEF FileInv, TailTypeOK, Inodes
    <3>4. ASSUME NEW v \in Writers
          PROVE  fd'[v] <= made'
      <4>1. /\ fd[v] \in Inodes \cup {NoFile} /\ fd[v] <= made
            /\ fd \in [Writers -> Inodes \cup {NoFile}]
        BY DEF FileInv, TailTypeOK
      <4> QED
        BY <1>0, <3>2, <4>1 DEF Inodes, NoFile
    <3>5. cur <= made' /\ saved.ino <= made'
      BY <1>0, <3>2 DEF FileInv, TailTypeOK, Inodes, NoFile, Saved
    <3> QED
      BY <1>6, <3>2, <3>3, <3>4, <3>5 DEF FileInv, readerVars
  <2>2. CASE \E w \in Writers : Quit(w)
    BY <1>0, <1>6, <2>2 DEF Quit, FileInv, TailTypeOK, readerVars, NoFile
  <2>3. CASE Rotate
    BY <1>6, <2>3 DEF Rotate, FileInv, readerVars
  <2>4. CASE Truncate
    BY <1>0, <1>6, <2>4 DEF Truncate, FileInv, TailTypeOK, readerVars, Inodes, NoFile
  <2>5. CASE NumberTaken
    BY <1>6, <2>5 DEF NumberTaken, FileInv, readerVars
  <2> QED
    BY <1>6, <2>1, <2>2, <2>3, <2>4, <2>5 DEF OutsideStep, WriterStep
<1> QED
  BY <1>1, <1>2, <1>3, <1>4, <1>5, <1>6, <1>7 DEF TailStep

-----------------------------------------------------------------------------
(* Counting the traces in batches.                                         *)

LEMMA PlacesFinite ==
  ASSUME NEW S, NEW s \in Seq(S), NEW t
  PROVE  IsFiniteSet(Places(s, t)) /\ Count(s, t) \in Nat
<1>1. IsFiniteSet(1 .. Len(s))
  BY FS_Interval
<1>2. Places(s, t) \in SUBSET (1 .. Len(s))
  BY DEF Places
<1>3. IsFiniteSet(Places(s, t))
  BY <1>1, <1>2, FS_Subset
<1> QED
  BY <1>3, FS_CardinalityType DEF Count

LEMMA CountEmpty ==
  ASSUME NEW t
  PROVE  Count(<< >>, t) = 0
<1>1. Places(<< >>, t) = {}
  BY DEF Places
<1> QED
  BY <1>1, FS_EmptySet DEF Count

LEMMA CountAppend ==
  ASSUME NEW S, NEW s \in Seq(S), NEW x \in S, NEW t
  PROVE  Count(Append(s, x), t) = Count(s, t) + IF x = t THEN 1 ELSE 0
<1>1. PICK n \in Nat : n = Len(s)
  OBVIOUS
<1>2. /\ Len(Append(s, x)) = n + 1 /\ Append(s, x)[n + 1] = x
      /\ \A i \in 1 .. n : Append(s, x)[i] = s[i]
  BY <1>1, AppendProperties
<1>3. IsFiniteSet(Places(s, t)) /\ Count(s, t) \in Nat
  BY PlacesFinite
<1>4. CASE x = t
  <2>1. Places(Append(s, x), t) = Places(s, t) \cup {n + 1}
    BY <1>1, <1>2, <1>4 DEF Places
  <2>2. n + 1 \notin Places(s, t)
    BY <1>1 DEF Places
  <2> QED
    BY <1>3, <1>4, <2>1, <2>2, FS_AddElement DEF Count
<1>5. CASE x # t
  <2>1. Places(Append(s, x), t) = Places(s, t)
    BY <1>1, <1>2, <1>5 DEF Places
  <2> QED
    BY <1>3, <1>5, <2>1 DEF Count
<1> QED
  BY <1>4, <1>5

LEMMA CountTail ==
  ASSUME NEW S, NEW s \in Seq(S), s # << >>, NEW t
  PROVE  Count(s, t) = Count(Tail(s), t) + IF Head(s) = t THEN 1 ELSE 0
<1>1. PICK n \in Nat : n = Len(s) /\ n > 0
  <2>1. Len(s) \in Nat /\ Len(s) # 0
    BY EmptySeq
  <2> QED
    BY <2>1
<1>2. Tail(s) \in Seq(S) /\ Len(Tail(s)) = n - 1 /\ \A i \in 1 .. n - 1 : Tail(s)[i] = s[i + 1]
  BY <1>1, HeadTailProperties
<1>3. Head(s) = s[1]
  BY <1>1
<1> DEFINE P == Places(s, t)
           Q == Places(Tail(s), t)
           f == [k \in Q |-> k + 1]
<1>4. IsFiniteSet(P) /\ IsFiniteSet(Q) /\ Count(s, t) \in Nat /\ Count(Tail(s), t) \in Nat
  BY <1>2, PlacesFinite
<1>5. /\ \A k \in Q : k \in 1 .. n - 1 /\ k + 1 \in P \ {1}
      /\ \A k \in P \ {1} : k - 1 \in Q /\ k = (k - 1) + 1
  BY <1>1, <1>2 DEF Places
<1>6. f \in Bijection(Q, P \ {1})
  <2>1. f \in [Q -> P \ {1}]
    BY <1>5
  <2>2. \A a, b \in Q : f[a] = f[b] => a = b
    BY <1>5
  <2>3. \A k \in P \ {1} : \E q \in Q : f[q] = k
    BY <1>5
  <2> QED
    BY <2>1, <2>2, <2>3 DEF Bijection, Injection, Surjection, IsInjective
<1>7. Cardinality(P \ {1}) = Cardinality(Q)
  BY <1>4, <1>6, FS_Bijection DEF ExistsBijection
<1>8. Cardinality(P \ {1}) = IF 1 \in P THEN Cardinality(P) - 1 ELSE Cardinality(P)
  BY <1>4, FS_RemoveElement
<1>9. 1 \in P <=> Head(s) = t
  BY <1>1, <1>3 DEF Places
<1> QED
  BY <1>4, <1>7, <1>8, <1>9 DEF Count

LEMMA RoutinesFinite == IsFiniteSet(Routines)
<1>1. IsFiniteSet(Handlers)
  BY DaemonAssumption
<1>2. IsFiniteSet({"reader"} \cup {"ticker"} \cup {"main"})
  BY FS_Singleton, FS_AddElement
<1>3. Workers = {"reader"} \cup {"ticker"} \cup {"main"}
  BY DEF Workers
<1> QED
  BY <1>1, <1>2, <1>3, FS_Union DEF Routines

\* What the routines in R have of the trace t, if h is what they hold.
Part(h, R, t) == UNION {{g} \X Places(h[g], t) : g \in R}

LEMMA PartFinite ==
  ASSUME NEW h \in [Routines -> Seq(Traces)], NEW R \in SUBSET Routines, NEW t
  PROVE  IsFiniteSet(Part(h, R, t)) /\ Cardinality(Part(h, R, t)) \in Nat
<1> DEFINE C == {{g} \X Places(h[g], t) : g \in R}
           f == [g \in R |-> {g} \X Places(h[g], t)]
<1>1. IsFiniteSet(R)
  BY RoutinesFinite, FS_Subset
<1>2. f \in Surjection(R, C)
  BY DEF Surjection
<1>3. IsFiniteSet(C)
  BY <1>1, <1>2, FS_Surjection
<1>4. ASSUME NEW T \in C
      PROVE  IsFiniteSet(T)
  <2>1. PICK g \in R : T = {g} \X Places(h[g], t)
    OBVIOUS
  <2>2. h[g] \in Seq(Traces)
    OBVIOUS
  <2>3. IsFiniteSet(Places(h[g], t))
    BY <2>2, PlacesFinite
  <2>4. IsFiniteSet({g})
    BY FS_Singleton
  <2> QED
    BY <2>1, <2>3, <2>4, FS_Product
<1>5. IsFiniteSet(UNION C)
  BY <1>3, <1>4, FS_UNION
<1> QED
  BY <1>5, FS_CardinalityType DEF Part

LEMMA PartSplit ==
  ASSUME NEW h \in [Routines -> Seq(Traces)], NEW g \in Routines, NEW t
  PROVE  Cardinality(Part(h, Routines, t)) =
           Count(h[g], t) + Cardinality(Part(h, Routines \ {g}, t))
<1> DEFINE P == {g} \X Places(h[g], t)
           Q == Part(h, Routines \ {g}, t)
<1>1. IsFiniteSet(Q) /\ Cardinality(Q) \in Nat
  BY PartFinite
<1>2. h[g] \in Seq(Traces)
  OBVIOUS
<1>3. IsFiniteSet(Places(h[g], t)) /\ Count(h[g], t) \in Nat
  BY <1>2, PlacesFinite
<1>4. IsFiniteSet({g}) /\ Cardinality({g}) = 1
  BY FS_Singleton
<1>5. IsFiniteSet(P) /\ Cardinality(P) = 1 * Cardinality(Places(h[g], t))
  BY <1>3, <1>4, FS_Product
<1>6. Part(h, Routines, t) = P \cup Q
  BY DEF Part
<1>7. P \cap Q = {}
  BY DEF Part
<1>8. Cardinality(P \cup Q) = Cardinality(P) + Cardinality(Q) - Cardinality(P \cap Q)
  BY <1>1, <1>5, FS_Union
<1>9. Cardinality(P) = Count(h[g], t)
  BY <1>3, <1>5 DEF Count
<1>10. Cardinality(P \cap Q) = 0
  BY <1>7, FS_EmptySet
<1> HIDE DEF P, Q
<1>11. Cardinality(Part(h, Routines, t)) = Cardinality(P) + Cardinality(Q)
  <2>1. Cardinality(P) \in Nat
    BY <1>3, <1>9
  <2> QED
    BY <1>1, <1>6, <1>8, <1>10, <2>1
<1> QED
  BY <1>9, <1>11 DEF Q

LEMMA PartEmpty ==
  ASSUME NEW R, NEW t
  PROVE  Cardinality(Part([g \in R |-> << >>], R, t)) = 0
<1>1. \A g \in R : Places([q \in R |-> << >>][g], t) = {}
  BY DEF Places
<1>2. Part([g \in R |-> << >>], R, t) = {}
  BY <1>1 DEF Part
<1> QED
  BY <1>2, FS_EmptySet

-----------------------------------------------------------------------------
(* Steps, seen by the batches.                                             *)

BatchTypeOK ==
  /\ batch \in Seq(Traces)
  /\ flushing \in [Routines -> {"no", "swap", "store"}]
  /\ hold \in [Routines -> Seq(Traces)]
  /\ db \in [Traces -> Nat] /\ failed \in [Traces -> Nat] /\ took \in [Traces -> Nat]

\* A routine that begins to flush a batch that need not be full.
BeginFlush(g) ==
  /\ flushing[g] = "no"
  /\ flushing' = [flushing EXCEPT ![g] = "swap"]
  /\ UNCHANGED <<batch, hold, db, failed, took>>

BatchStep ==
  \/ UNCHANGED <<batchVars, took>>
  \/ \E g \in Routines, t \in Traces : flushing[g] = "no" /\ Add(g, t)
  \/ \E g \in Routines : (Swap(g) \/ Store(g) \/ Refuse(g)) /\ UNCHANGED took
  \/ \E g \in Routines : BeginFlush(g)
  \/ Vanish

LEMMA NextBatch ==
  ASSUME TypeOK, FlushInv, [Next]_vars
  PROVE  BatchStep
<1>0. /\ Lines \subseteq Traces /\ Posted \subseteq Traces
      /\ {"reader", "ticker", "main"} \subseteq Routines /\ Handlers \subseteq Routines
  BY DEF Traces, Routines, Workers
<1>1. CASE ReadRecord
  <2>1. buf \in Seq(Piece) /\ HasLine
    BY <1>1 DEF ReadRecord, TakeRecord, TypeOK, TailTypeOK
  <2>2. 1 \in 1 .. Len(buf)
    BY <2>1, LineEndIsFirst
  <2>3. buf[1].line \in Traces
    BY <1>0, <2>1, <2>2, PiecesHaveLines
  <2> QED
    BY <1>0, <1>1, <2>3 DEF ReadRecord, Reading, ReaderAt, BatchStep
<1>2. CASE DrainRing
  <2>1. Head(ring) \in Traces
    BY <1>0, <1>2, HeadTailProperties DEF DrainRing, TypeOK
  <2> QED
    BY <1>0, <1>2, <2>1 DEF DrainRing, ReaderAt, BatchStep
<1>3. CASE OpenFile \/ FillBuffer \/ ReadGarbage \/ ReachEnd \/ StopClosed \/ StopRing
  BY <1>3 DEF OpenFile, FillBuffer, ReadGarbage, ReachEnd, StopClosed, StopRing, BatchStep,
              historyVars
<1>4. CASE PollAgain \/ PathMissing \/ Rotated \/ StopTail
  BY <1>4 DEF PollAgain, PathMissing, Rotated, StopTail, BatchStep, historyVars
<1>5. CASE Launch \/ Terminate \/ Forget \/ UNCHANGED vars
  BY <1>5 DEF Launch, Terminate, Forget, vars, BatchStep, historyVars
<1>6. CASE Tick \/ LastFlush
  <2>1. flushing["ticker"] = "no" \/ LastFlush
    BY <1>6 DEF Tick
  <2>2. LastFlush => flushing["main"] = "no"
    BY DEF LastFlush, FlushInv
  <2> QED
    BY <1>0, <1>6, <2>1, <2>2 DEF Tick, LastFlush, BatchStep, BeginFlush, historyVars
<1>7. CASE \E g \in Routines : Flush(g)
  BY <1>7 DEF Flush, BatchStep, historyVars
<1>8. CASE \E h \in Handlers : Post(h) \/ CheckSeen(h) \/ IngestDone(h) \/ Reply(h)
  BY <1>8 DEF Post, CheckSeen, IngestDone, Reply, BatchStep, historyVars
<1>9. CASE \E h \in Handlers : IngestNext(h)
  BY <1>0, <1>9 DEF IngestNext, HandlerAt, BatchStep
<1>10. CASE Exit \/ Crash
  BY <1>10 DEF Exit, Crash, BatchStep
<1>11. CASE (\E w \in Writers : Write(w)) \/ Disturb \/ WriteRing
  BY <1>11 DEF Write, Disturb, WriteRing, outside, BatchStep, historyVars
<1>12. CASE Trouble
  BY <1>12, TroubleKeeps DEF BatchStep
<1> QED
  BY <1>1, <1>2, <1>3, <1>4, <1>5, <1>6, <1>7, <1>8, <1>9, <1>10, <1>11, <1>12
     DEF Next, Reader, Handler

LEMMA BatchTypes ==
  ASSUME BatchTypeOK, FlushInv, BatchStep
  PROVE  BatchTypeOK'
<1>1. CASE UNCHANGED <<batchVars, took>>
  BY <1>1 DEF BatchTypeOK, batchVars
<1>2. CASE \E g \in Routines, t \in Traces : flushing[g] = "no" /\ Add(g, t)
  <2>1. PICK g \in Routines, t \in Traces : Add(g, t)
    BY <1>2
  <2>2. batch' \in Seq(Traces)
    BY <2>1, AppendProperties DEF Add, BatchTypeOK
  <2>3. flushing' \in [Routines -> {"no", "swap", "store"}]
    BY <2>1 DEF Add, BatchTypeOK
  <2>4. took' \in [Traces -> Nat]
    BY <2>1 DEF Add, BatchTypeOK
  <2> QED
    BY <2>1, <2>2, <2>3, <2>4 DEF Add, BatchTypeOK
<1>3. CASE \E g \in Routines : Swap(g) /\ UNCHANGED took
  BY <1>3 DEF Swap, BatchTypeOK
<1>4. CASE \E g \in Routines : (Store(g) \/ Refuse(g)) /\ UNCHANGED took
  <2>1. PICK g \in Routines : (Store(g) \/ Refuse(g)) /\ UNCHANGED took
    BY <1>4
  <2>2. hold[g] \in Seq(Traces) /\ hold[g] # << >>
    BY <2>1 DEF Store, Refuse, FlushInv, BatchTypeOK
  <2>3. Head(hold[g]) \in Traces /\ Tail(hold[g]) \in Seq(Traces)
    BY <2>2, HeadTailProperties
  <2>4. /\ UNCHANGED batch /\ hold' \in [Routines -> Seq(Traces)]
        /\ flushing' \in [Routines -> {"no", "swap", "store"}]
    BY <2>1, <2>3 DEF Store, Refuse, Advance, BatchTypeOK
  <2>5. db' \in [Traces -> Nat] /\ failed' \in [Traces -> Nat]
    <3>1. PICK x \in Traces : x = Head(hold[g])
      BY <2>3
    <3>2. \/ db' = [db EXCEPT ![x] = @ + 1] /\ UNCHANGED failed
          \/ failed' = [failed EXCEPT ![x] = @ + 1] /\ UNCHANGED db
      BY <2>1, <3>1 DEF Store, Refuse
    <3>3. db \in [Traces -> Nat] /\ failed \in [Traces -> Nat]
      BY DEF BatchTypeOK
    <3>4. CASE db' = [db EXCEPT ![x] = @ + 1] /\ UNCHANGED failed
      BY <3>3, <3>4
    <3>5. CASE failed' = [failed EXCEPT ![x] = @ + 1] /\ UNCHANGED db
      BY <3>3, <3>5
    <3> QED
      BY <3>2, <3>4, <3>5
  <2> QED
    BY <2>1, <2>4, <2>5 DEF BatchTypeOK
<1>5. CASE \E g \in Routines : BeginFlush(g)
  BY <1>5 DEF BeginFlush, BatchTypeOK
<1>6. CASE Vanish
  <2>1. << >> \in Seq(Traces)
    OBVIOUS
  <2> QED
    BY <1>6, <2>1 DEF Vanish, BatchTypeOK
<1> QED
  BY <1>1, <1>2, <1>3, <1>4, <1>5, <1>6 DEF BatchStep

LEMMA MovedAlong ==
  ASSUME NEW a \in Nat, NEW b \in Nat, NEW c \in Nat, NEW d \in Nat, NEW e \in Nat,
         NEW f \in Nat, NEW g \in Nat, NEW k \in Nat,
         b = e + k, f + g = c + d + k
  PROVE  a + b + c + d = a + e + f + g
OBVIOUS

\* Each step moves a trace from one place to the next, or takes it into the batch.
LEMMA ConservedKept ==
  ASSUME BatchTypeOK, FlushInv, Conserved, BatchStep
  PROVE  Conserved'
<1> DEFINE In(h, t) == Cardinality(Part(h, Routines, t))
<1>1. SUFFICES ASSUME NEW t \in Traces
               PROVE  took'[t] = Count(batch', t) + In(hold', t) + db'[t] + failed'[t]
  BY DEF Conserved, Held, Count, Places, Part
<1>2. /\ batch \in Seq(Traces) /\ hold \in [Routines -> Seq(Traces)]
      /\ db \in [Traces -> Nat] /\ failed \in [Traces -> Nat] /\ took \in [Traces -> Nat]
  BY DEF BatchTypeOK
<1>3. /\ Count(batch, t) \in Nat /\ In(hold, t) \in Nat
      /\ db[t] \in Nat /\ failed[t] \in Nat
  BY <1>2, PlacesFinite, PartFinite
<1>4. took[t] = Count(batch, t) + In(hold, t) + db[t] + failed[t]
  BY DEF Conserved, Held, Part
<1>5. CASE UNCHANGED <<batchVars, took>>
  BY <1>4, <1>5 DEF batchVars
<1>6. CASE \E g \in Routines, x \in Traces : flushing[g] = "no" /\ Add(g, x)
  <2>1. PICK g \in Routines, x \in Traces : Add(g, x)
    BY <1>6
  <2>2. Count(Append(batch, x), t) = Count(batch, t) + IF x = t THEN 1 ELSE 0
    BY <1>2, CountAppend
  <2>3. took'[t] = took[t] + IF x = t THEN 1 ELSE 0
    BY <1>2, <2>1 DEF Add
  <2>4. /\ Count(batch', t) = Count(Append(batch, x), t)
        /\ UNCHANGED <<hold, db, failed>>
    BY <2>1 DEF Add
  <2> HIDE DEF In
  <2> QED
    BY <1>3, <1>4, <2>2, <2>3, <2>4
<1>7. CASE \E g \in Routines : Swap(g) /\ UNCHANGED took
  <2>1. PICK g \in Routines : Swap(g) /\ UNCHANGED took
    BY <1>7
  <2>2. hold[g] = << >>
    BY <2>1 DEF Swap, FlushInv, BatchTypeOK
  <2>3. PICK h \in [Routines -> Seq(Traces)] : h = [hold EXCEPT ![g] = batch]
    BY <1>2
  <2>4. In(hold, t) = Count(hold[g], t) + Cardinality(Part(hold, Routines \ {g}, t))
    BY <1>2, PartSplit
  <2>5. In(h, t) = Count(h[g], t) + Cardinality(Part(h, Routines \ {g}, t))
    BY PartSplit
  <2>6. Part(h, Routines \ {g}, t) = Part(hold, Routines \ {g}, t)
    <3>1. \A r \in Routines \ {g} : h[r] = hold[r]
      BY <1>2, <2>3
    <3> QED
      BY <3>1 DEF Part
  <2>7. Count(hold[g], t) = 0 /\ Count(h[g], t) = Count(batch, t)
    BY <1>2, <2>2, <2>3, CountEmpty
  <2>8. Count(batch', t) = 0 /\ hold' = h /\ UNCHANGED <<db, failed, took>>
    BY <2>1, <2>3, CountEmpty DEF Swap
  <2>9. Cardinality(Part(hold, Routines \ {g}, t)) \in Nat
    BY <1>2, PartFinite
  <2> HIDE DEF In
  <2> QED
    BY <1>3, <1>4, <2>4, <2>5, <2>6, <2>7, <2>8, <2>9
<1>8. CASE \E g \in Routines : (Store(g) \/ Refuse(g)) /\ UNCHANGED took
  <2>1. PICK g \in Routines : (Store(g) \/ Refuse(g)) /\ UNCHANGED took
    BY <1>8
  <2>2. hold[g] \in Seq(Traces) /\ hold[g] # << >>
    BY <1>2, <2>1 DEF Store, Refuse, FlushInv
  <2>3. PICK x \in Traces : x = Head(hold[g])
    BY <2>2, HeadTailProperties
  <2>4. Tail(hold[g]) \in Seq(Traces)
    BY <2>2, HeadTailProperties
  <2>5. PICK h \in [Routines -> Seq(Traces)] : h = [hold EXCEPT ![g] = Tail(hold[g])]
    BY <1>2, <2>4
  <2>6. In(hold, t) = Count(hold[g], t) + Cardinality(Part(hold, Routines \ {g}, t))
    BY <1>2, PartSplit
  <2>7. In(h, t) = Count(h[g], t) + Cardinality(Part(h, Routines \ {g}, t))
    BY PartSplit
  <2>8. Part(h, Routines \ {g}, t) = Part(hold, Routines \ {g}, t)
    <3>1. \A r \in Routines \ {g} : h[r] = hold[r]
      BY <1>2, <2>5
    <3> QED
      BY <3>1 DEF Part
  <2>9. Count(hold[g], t) = Count(h[g], t) + IF x = t THEN 1 ELSE 0
    <3>1. h[g] = Tail(hold[g])
      BY <1>2, <2>5
    <3>2. Count(hold[g], t) = Count(Tail(hold[g]), t) + IF Head(hold[g]) = t THEN 1 ELSE 0
      BY <2>2, CountTail
    <3> QED
      BY <2>3, <3>1, <3>2
  <2>10. hold' = h /\ UNCHANGED <<batch, took>>
    BY <2>1, <2>5 DEF Store, Refuse, Advance
  <2>11. \/ db' = [db EXCEPT ![x] = @ + 1] /\ UNCHANGED failed
         \/ failed' = [failed EXCEPT ![x] = @ + 1] /\ UNCHANGED db
    BY <2>1, <2>3 DEF Store, Refuse
  <2>12. /\ Cardinality(Part(hold, Routines \ {g}, t)) \in Nat /\ Count(h[g], t) \in Nat
    <3>1. h[g] \in Seq(Traces)
      OBVIOUS
    <3> QED
      BY <1>2, <3>1, PartFinite, PlacesFinite
  <2> HIDE DEF In
  <2>13. In(hold, t) = In(h, t) + IF x = t THEN 1 ELSE 0
    BY <2>6, <2>7, <2>8, <2>9, <2>12
  <2>14. In(h, t) \in Nat
    BY <2>7, <2>8, <2>12
  <2>15. /\ db'[t] + failed'[t] = db[t] + failed[t] + IF x = t THEN 1 ELSE 0
         /\ db'[t] \in Nat /\ failed'[t] \in Nat
    <3>1. CASE db' = [db EXCEPT ![x] = @ + 1] /\ UNCHANGED failed
      BY <1>2, <1>3, <3>1
    <3>2. CASE failed' = [failed EXCEPT ![x] = @ + 1] /\ UNCHANGED db
      BY <1>2, <1>3, <3>2
    <3> QED
      BY <2>11, <3>1, <3>2
  <2>16. PICK d \in Nat, e \in Nat : d = db'[t] /\ e = failed'[t]
    BY <2>15
  <2>17. d + e = db[t] + failed[t] + IF x = t THEN 1 ELSE 0
    BY <2>15, <2>16
  <2> QED
    <3>1. PICK k \in Nat : k = IF x = t THEN 1 ELSE 0
      OBVIOUS
    <3>2. took[t] = Count(batch, t) + In(h, t) + d + e
      <4>1. PICK a \in Nat, b \in Nat : a = Count(batch, t) /\ b = In(hold, t)
        BY <1>3
      <4>2. PICK p \in Nat, q \in Nat : p = db[t] /\ q = failed[t]
        BY <1>3
      <4>3. PICK r \in Nat : r = In(h, t)
        BY <2>14
      <4>4. b = r + k /\ d + e = p + q + k
        BY <2>13, <2>17, <3>1, <4>1, <4>2, <4>3
      <4>5. a + b + p + q = a + r + d + e
        BY <4>4, MovedAlong
      <4> QED
        BY <1>4, <4>1, <4>2, <4>3, <4>5
    <3> QED
      BY <2>10, <2>16, <3>2
<1>9. CASE \E g \in Routines : BeginFlush(g)
  BY <1>4, <1>9 DEF BeginFlush
<1>10. CASE Vanish
  <2>1. /\ batch' = << >> /\ hold' = [g \in Routines |-> << >>] /\ UNCHANGED <<db, failed>>
        /\ took'[t] = db[t] + failed[t]
    BY <1>10 DEF Vanish
  <2>2. Count(batch', t) = 0 /\ In(hold', t) = 0
    BY <2>1, CountEmpty, PartEmpty
  <2> HIDE DEF In
  <2> QED
    BY <1>3, <2>1, <2>2
<1> QED
  BY <1>5, <1>6, <1>7, <1>8, <1>9, <1>10 DEF BatchStep

-----------------------------------------------------------------------------
(* The rest of the types, and who may be flushing when.                    *)

ProcTypeOK ==
  /\ phase \in {"down", "run", "stopping", "final"}
  /\ lives \in 0 .. MaxLives
  /\ faults \in 0 .. MaxFaults /\ upsets \in 0 .. faults
  /\ rpc \in {"open", "top", "read", "eof", "ring", "exited"}
  /\ ring \in Seq(Lines)

IngestTypeOK ==
  /\ hpc \in [Handlers -> {"idle", "check", "loop", "reply"}]
  /\ next \in [Handlers -> MaxLines + 1 .. MaxLines + PostSize + 1]
  /\ fresh \in [Handlers -> BOOLEAN]
  /\ seen \in BOOLEAN
  /\ posts \in 0 .. MaxPosts
  /\ answer \in {"none", "accepted", "duplicate"}

LEMMA TypeParts ==
  /\ TypeOK /\ upsets <= faults <=> TailTypeOK /\ ProcTypeOK /\ IngestTypeOK /\ BatchTypeOK
  /\ (TypeOK /\ upsets <= faults)' <=>
       TailTypeOK' /\ ProcTypeOK' /\ IngestTypeOK' /\ BatchTypeOK'
<1>1. TypeOK /\ upsets <= faults => ProcTypeOK
  BY DaemonAssumption DEF TypeOK, ProcTypeOK
<1>2. (TypeOK /\ upsets <= faults)' => ProcTypeOK'
  BY DaemonAssumption DEF TypeOK, ProcTypeOK
<1>3. TypeOK => TailTypeOK /\ IngestTypeOK /\ BatchTypeOK
  BY DEF TypeOK, IngestTypeOK, BatchTypeOK
<1>4. TypeOK' => TailTypeOK' /\ IngestTypeOK' /\ BatchTypeOK'
  BY DEF TypeOK, IngestTypeOK, BatchTypeOK
<1>5. ProcTypeOK => upsets <= faults /\ upsets \in 0 .. MaxFaults
  BY DaemonAssumption DEF ProcTypeOK
<1>6. ProcTypeOK' => upsets' <= faults' /\ upsets' \in 0 .. MaxFaults
  BY DaemonAssumption DEF ProcTypeOK
<1>7. TailTypeOK /\ ProcTypeOK /\ IngestTypeOK /\ BatchTypeOK => TypeOK
  BY <1>5 DEF TypeOK, ProcTypeOK, IngestTypeOK, BatchTypeOK
<1>8. TailTypeOK' /\ ProcTypeOK' /\ IngestTypeOK' /\ BatchTypeOK' => TypeOK'
  BY <1>6 DEF TypeOK, ProcTypeOK, IngestTypeOK, BatchTypeOK
<1> QED
  BY <1>1, <1>2, <1>3, <1>4, <1>5, <1>6, <1>7, <1>8

LEMMA ProcTypes ==
  ASSUME TailTypeOK, ProcTypeOK, [Next]_vars
  PROVE  ProcTypeOK'
<1>0. MaxFaults \in Nat /\ MaxLives \in Nat /\ MaxLines \in Nat
  BY DaemonAssumption, TailAssumption
<1>1. CASE Launch
  <2>1. rpc' \in {"ring", "open"}
    BY <1>1, DaemonAssumption DEF Launch, FirstStep
  <2> QED
    BY <1>0, <1>1, <2>1 DEF Launch, ProcTypeOK, historyVars
<1>2. CASE Terminate \/ LastFlush \/ Tick \/ Forget \/ UNCHANGED vars
  BY <1>0, <1>2 DEF Terminate, LastFlush, Tick, Forget, vars, procVars, historyVars, ProcTypeOK
<1>3. CASE Exit \/ Crash
  BY <1>0, <1>3 DEF Exit, Crash, Upset, Vanish, Goto, ProcTypeOK
<1>4. CASE DrainRing
  <2>1. Tail(ring) \in Seq(Lines)
    BY <1>4, HeadTailProperties DEF DrainRing, ProcTypeOK
  <2> QED
    BY <1>0, <1>4, <2>1 DEF DrainRing, Add, unread, procVars, ProcTypeOK
<1>5. CASE OpenFile \/ FillBuffer \/ ReadRecord \/ ReadGarbage \/ ReachEnd
  BY <1>0, <1>5 DEF OpenFile, FillBuffer, ReadRecord, ReadGarbage, ReachEnd, Add, Goto, unread,
              procVars, historyVars, ProcTypeOK
<1>6. CASE PollAgain \/ PathMissing \/ Rotated \/ StopTail \/ StopClosed \/ StopRing
  BY <1>0, <1>6 DEF PollAgain, PathMissing, Rotated, StopTail, StopClosed, StopRing, Goto, unread,
              procVars, historyVars, ProcTypeOK
<1>7. CASE \E g \in Routines : Flush(g)
  BY <1>0, <1>7 DEF Flush, procVars, historyVars, ProcTypeOK
<1>8. CASE \E h \in Handlers : Post(h) \/ Handler(h)
  BY <1>0, <1>8 DEF Post, Handler, CheckSeen, IngestNext, IngestDone, Reply, Add, unserved,
              procVars, historyVars, ProcTypeOK
<1>9. CASE (\E w \in Writers : Write(w)) \/ Disturb
  BY <1>0, <1>9 DEF Write, Disturb, outside, procVars, historyVars, ProcTypeOK
<1>10. CASE WriteRing
  <2>1. begun + 1 \in Lines
    BY <1>0, <1>10 DEF WriteRing, TailTypeOK, Lines
  <2>2. ring' \in Seq(Lines)
    BY <1>10, <2>1, AppendProperties DEF WriteRing, ProcTypeOK
  <2> QED
    BY <1>0, <1>10, <2>2 DEF WriteRing, outside, procVars, historyVars, ProcTypeOK
<1>11. CASE Trouble
  BY <1>0, <1>11, TroubleKeeps DEF procVars, ProcTypeOK
<1> QED
  BY <1>1, <1>2, <1>3, <1>4, <1>5, <1>6, <1>7, <1>8, <1>9, <1>10, <1>11 DEF Next, Reader

LEMMA IngestTypes ==
  ASSUME IngestTypeOK, [Next]_vars
  PROVE  IngestTypeOK'
<1>0. MaxPosts \in Nat /\ PostSize \in Nat \ {0} /\ MaxLines \in Nat
  BY DaemonAssumption, TailAssumption
<1>1. CASE Launch \/ Terminate \/ LastFlush \/ Tick \/ UNCHANGED vars
  BY <1>1 DEF Launch, Terminate, LastFlush, Tick, vars, ingestVars, clientVars, IngestTypeOK
<1>2. CASE Forget
  BY <1>2 DEF Forget, clientVars, IngestTypeOK
<1>3. CASE Exit \/ Crash
  <2>1. /\ hpc' = [h \in Handlers |-> "idle"] /\ next' = [h \in Handlers |-> MaxLines + 1]
        /\ fresh' = [h \in Handlers |-> TRUE] /\ seen' = FALSE
        /\ UNCHANGED clientVars
    BY <1>3 DEF Exit, Crash, Vanish
  <2>2. MaxLines + 1 \in MaxLines + 1 .. MaxLines + PostSize + 1
    BY <1>0
  <2> QED
    BY <2>1, <2>2 DEF clientVars, IngestTypeOK
<1>4. CASE Reader
  BY <1>4 DEF Reader, OpenFile, FillBuffer, ReadRecord, ReadGarbage, ReachEnd, PollAgain,
              PathMissing, Rotated, StopTail, StopClosed, StopRing, DrainRing, unread,
              ingestVars, clientVars, IngestTypeOK
<1>5. CASE (\E g \in Routines : Flush(g)) \/ (\E w \in Writers : Write(w)) \/ Disturb \/ WriteRing
  BY <1>5 DEF Flush, Write, Disturb, WriteRing, outside, ingestVars, clientVars, IngestTypeOK
<1>6. CASE \E h \in Handlers : Post(h)
  BY <1>0, <1>6 DEF Post, IngestTypeOK
<1>7. CASE \E h \in Handlers : CheckSeen(h) \/ IngestDone(h) \/ Reply(h)
  BY <1>7 DEF CheckSeen, IngestDone, Reply, clientVars, IngestTypeOK
<1>8. CASE \E h \in Handlers : IngestNext(h)
  <2>1. PICK h \in Handlers : IngestNext(h)
    BY <1>8
  <2>2. next[h] + 1 \in MaxLines + 1 .. MaxLines + PostSize + 1
    BY <1>0, <2>1 DEF IngestNext, Posted
  <2>3. next' \in [Handlers -> MaxLines + 1 .. MaxLines + PostSize + 1]
    BY <2>1, <2>2 DEF IngestNext, IngestTypeOK
  <2> QED
    BY <2>1, <2>3 DEF IngestNext, clientVars, IngestTypeOK
<1>9. CASE Trouble
  BY <1>9, TroubleKeeps DEF ingestVars, clientVars, IngestTypeOK
<1> QED
  BY <1>1, <1>2, <1>3, <1>4, <1>5, <1>6, <1>7, <1>8, <1>9 DEF Next, Handler

LEMMA HasFileKept ==
  ASSUME TypeOK, HasFileInv, [Next]_vars
  PROVE  HasFileInv'
<1>1. CASE Launch
  <2>1. rpc' \in {"ring", "open"}
    BY <1>1, DaemonAssumption DEF Launch, FirstStep
  <2> QED
    BY <2>1 DEF HasFileInv
<1>2. CASE Terminate \/ LastFlush \/ Tick \/ Forget \/ UNCHANGED vars
  BY <1>2 DEF Terminate, LastFlush, Tick, Forget, vars, tailVars, readerVars, HasFileInv
<1>3. CASE Exit \/ Crash
  BY <1>3 DEF Exit, Crash, Vanish, Goto, HasFileInv
<1>4. CASE OpenFile
  BY <1>4 DEF OpenFile, OpenPath, OpenAt, HasFileInv
<1>12. CASE Trouble
  <2>1. CASE ReadFails
    BY <2>1 DEF ReadFails, Goto, HasFileInv
  <2>2. CASE SaveFails
    BY <2>2 DEF SaveFails, ReaderAt, Goto, readerVars, HasFileInv
  <2>3. CASE LoadFails
    BY <2>3 DEF LoadFails, OpenAt, HasFileInv
  <2> QED
    BY <1>12, <2>1, <2>2, <2>3 DEF Trouble
<1>5. CASE FillBuffer \/ ReadRecord \/ ReadGarbage \/ ReachEnd
  BY <1>5 DEF FillBuffer, ReadRecord, ReadGarbage, ReachEnd, Reading, ReaderAt, Fill, TakeRecord,
              TakeGarbage, HitEnd, HasFileInv
<1>6. CASE PollAgain \/ PathMissing
  BY <1>6 DEF PollAgain, PathMissing, ReaderAt, tailVars, readerVars, HasFileInv
<1>7. CASE Rotated \/ StopTail \/ StopClosed \/ StopRing
  BY <1>7 DEF Rotated, StopTail, StopClosed, StopRing, Goto, HasFileInv
<1>8. CASE DrainRing
  BY <1>8 DEF DrainRing, ReaderAt, HasFileInv
<1>9. CASE \E g \in Routines : Flush(g)
  BY <1>9 DEF Flush, tailVars, readerVars, HasFileInv
<1>10. CASE \E h \in Handlers : Post(h) \/ Handler(h)
  BY <1>10 DEF Post, Handler, CheckSeen, IngestNext, IngestDone, Reply, unserved, tailVars,
               readerVars, HasFileInv
<1>11. CASE (\E w \in Writers : Write(w)) \/ Disturb \/ WriteRing
  BY <1>11 DEF Write, Disturb, WriteRing, outside, readerVars, HasFileInv
<1> QED
  BY <1>1, <1>2, <1>3, <1>4, <1>5, <1>6, <1>7, <1>8, <1>9, <1>10, <1>11, <1>12 DEF Next, Reader

\* Who is storing has something to store.
StoringInv == \A g \in Routines : flushing[g] = "store" <=> hold[g] # << >>

LEMMA StoringKept ==
  ASSUME BatchTypeOK, StoringInv, BatchStep
  PROVE  StoringInv'
<1>1. CASE UNCHANGED <<batchVars, took>>
  BY <1>1 DEF StoringInv, batchVars
<1>2. CASE \E g \in Routines, t \in Traces : flushing[g] = "no" /\ Add(g, t)
  BY <1>2 DEF StoringInv, Add, BatchTypeOK
<1>3. CASE \E g \in Routines : Swap(g) /\ UNCHANGED took
  BY <1>3 DEF StoringInv, Swap, BatchTypeOK
<1>4. CASE \E g \in Routines : (Store(g) \/ Refuse(g)) /\ UNCHANGED took
  <2>1. PICK g \in Routines : (Store(g) \/ Refuse(g)) /\ UNCHANGED took
    BY <1>4
  <2>2. hold[g] \in Seq(Traces) /\ hold[g] # << >>
    BY <2>1 DEF Store, Refuse, StoringInv, BatchTypeOK
  <2>3. Len(Tail(hold[g])) = Len(hold[g]) - 1 /\ Tail(hold[g]) \in Seq(Traces)
    BY <2>2, HeadTailProperties
  <2>4. Len(hold[g]) = 1 <=> Tail(hold[g]) = << >>
    <3>1. PICK n \in Nat : n = Len(hold[g])
      BY <2>2
    <3>2. PICK s \in Seq(Traces) : s = Tail(hold[g])
      BY <2>3
    <3>3. Len(s) = n - 1 /\ (Len(s) = 0 <=> s = << >>)
      BY <2>3, <3>1, <3>2, EmptySeq
    <3> QED
      BY <3>1, <3>2, <3>3
  <2>5. /\ hold' = [hold EXCEPT ![g] = Tail(@)]
        /\ flushing' = [flushing EXCEPT ![g] = IF Len(hold[g]) = 1 THEN "no" ELSE "store"]
    BY <2>1 DEF Store, Refuse, Advance
  <2> QED
    BY <2>4, <2>5 DEF StoringInv, BatchTypeOK
<1>5. CASE \E g \in Routines : BeginFlush(g)
  BY <1>5 DEF StoringInv, BeginFlush, BatchTypeOK
<1>6. CASE Vanish
  BY <1>6 DEF StoringInv, Vanish
<1> QED
  BY <1>1, <1>2, <1>3, <1>4, <1>5, <1>6 DEF BatchStep

\* Who may be flushing in which phase, and whose traces are left at the end.
PhaseInv ==
  /\ phase \in {"down", "final"} =>
       rpc = "exited" /\ flushing["reader"] = "no" /\ flushing["ticker"] = "no"
  /\ flushing["main"] # "no" => phase = "final"
  /\ phase = "final" /\ flushing["main"] # "swap" =>
       \A k \in 1 .. Len(batch) : batch[k] \in Posted

LEMMA FlushParts ==
  FlushInv <=> StoringInv /\ PhaseInv
  BY DEF FlushInv, StoringInv, PhaseInv

LEMMA PhaseKept ==
  ASSUME ProcTypeOK, BatchTypeOK, PhaseInv, [Next]_vars
  PROVE  PhaseInv'
<1>0. /\ {"reader", "ticker", "main"} \subseteq Routines /\ Handlers \subseteq Routines
      /\ \A h \in Handlers : h \notin {"reader", "ticker", "main"}
  BY DaemonAssumption DEF Routines, Workers
<1>1. CASE Launch \/ Terminate \/ Forget \/ UNCHANGED vars
  BY <1>1 DEF Launch, Terminate, Forget, vars, procVars, batchVars, PhaseInv
<1>2. CASE LastFlush
  BY <1>0, <1>2 DEF LastFlush, WorkersGone, BatchTypeOK, PhaseInv
<1>3. CASE Tick
  BY <1>0, <1>3 DEF Tick, procVars, BatchTypeOK, PhaseInv
<1>4. CASE Exit \/ Crash
  BY <1>0, <1>4 DEF Exit, Crash, Vanish, Goto, PhaseInv
<1>5. CASE ReadRecord \/ DrainRing
  <2>1. phase \in {"run", "stopping"} /\ UNCHANGED phase
    BY <1>5 DEF ReadRecord, DrainRing, Reading, ReaderAt, unread, procVars, PhaseInv, ProcTypeOK
  <2>2. UNCHANGED flushing \/ flushing' = [flushing EXCEPT !["reader"] = "swap"]
    BY <1>5 DEF ReadRecord, DrainRing, Add
  <2> QED
    BY <1>0, <2>1, <2>2 DEF PhaseInv, BatchTypeOK
<1>6. CASE OpenFile \/ FillBuffer \/ ReadGarbage \/ ReachEnd
  BY <1>6 DEF OpenFile, FillBuffer, ReadGarbage, ReachEnd, Reading, ReaderAt, unread, procVars,
              batchVars, PhaseInv
<1>7. CASE PollAgain \/ PathMissing \/ Rotated
  BY <1>7 DEF PollAgain, PathMissing, Rotated, ReaderAt, unread, procVars, batchVars, PhaseInv
<1>8. CASE StopTail \/ StopClosed \/ StopRing
  BY <1>8 DEF StopTail, StopClosed, StopRing, Goto, unread, procVars, batchVars, PhaseInv
<1>9. CASE \E g \in Routines : Flush(g)
  <2>1. PICK g \in Routines : Flush(g)
    BY <1>9
  <2>2. flushing[g] \in {"swap", "store"} /\ UNCHANGED <<phase, rpc>>
    BY <2>1 DEF Flush, Swap, Store, Refuse, procVars
  <2>3. CASE batch' = << >>
    BY <1>0, <2>1, <2>2, <2>3 DEF Flush, Swap, Store, Refuse, Advance, BatchTypeOK, PhaseInv
  <2>4. CASE UNCHANGED batch /\ flushing[g] = "store"
    BY <1>0, <2>1, <2>2, <2>4 DEF Flush, Swap, Store, Refuse, Advance, BatchTypeOK, PhaseInv
  <2> QED
    BY <2>1, <2>3, <2>4 DEF Flush, Swap, Store, Refuse, Advance
<1>10. CASE \E h \in Handlers : Post(h) \/ CheckSeen(h) \/ IngestDone(h) \/ Reply(h)
  BY <1>10 DEF Post, CheckSeen, IngestDone, Reply, unserved, procVars, batchVars, PhaseInv
<1>11. CASE \E h \in Handlers : IngestNext(h)
  <2>1. PICK h \in Handlers : IngestNext(h)
    BY <1>11
  <2>2. /\ UNCHANGED <<phase, rpc>> /\ batch' = Append(batch, next[h]) /\ next[h] \in Posted
        /\ UNCHANGED flushing \/ flushing' = [flushing EXCEPT ![h] = "swap"]
    BY <2>1 DEF IngestNext, Add, unserved, procVars
  <2>3. PICK x \in Posted : x = next[h]
    BY <2>2
  <2>4. \A k \in 1 .. Len(batch') :
           (k \in 1 .. Len(batch) /\ batch'[k] = batch[k]) \/ batch'[k] = x
    BY <2>2, <2>3, AppendProperties DEF BatchTypeOK, Traces
  <2>5. /\ flushing'["reader"] = flushing["reader"] /\ flushing'["ticker"] = flushing["ticker"]
        /\ flushing'["main"] = flushing["main"]
    BY <1>0, <2>2 DEF BatchTypeOK
  <2> QED
    BY <2>2, <2>4, <2>5 DEF PhaseInv
<1>12. CASE (\E w \in Writers : Write(w)) \/ Disturb \/ WriteRing
  BY <1>12 DEF Write, Disturb, WriteRing, outside, procVars, batchVars, PhaseInv
<1>13. CASE Trouble
  <2>1. UNCHANGED <<phase, batch, flushing, hold>> /\ phase # "down"
    BY <1>13, TroubleKeeps DEF procVars, batchVars
  <2>2. rpc # "exited"
    BY <1>13 DEF Trouble, ReadFails, SaveFails, LoadFails, Reading, ReaderAt
  <2>3. rpc' = "exited" => phase = "stopping"
    BY <1>13 DEF Trouble, ReadFails, SaveFails, LoadFails, Goto
  <2> QED
    BY <2>1, <2>2, <2>3 DEF PhaseInv
<1> QED
  BY <1>1, <1>2, <1>3, <1>4, <1>5, <1>6, <1>7, <1>8, <1>9, <1>10, <1>11, <1>12, <1>13
     DEF Next, Reader, Handler

-----------------------------------------------------------------------------
(* The posted batch.                                                       *)

\* What is lost with the process no longer counts as taken.
LEMMA VanishLoses ==
  ASSUME BatchTypeOK, Conserved, Vanish, NEW t \in Traces
  PROVE  took'[t] <= took[t] /\ took'[t] \in Nat
<1>1. took[t] = Count(batch, t) + Cardinality(Part(hold, Routines, t)) + db[t] + failed[t]
  BY DEF Conserved, Held, Part
<1>2. Count(batch, t) \in Nat /\ Cardinality(Part(hold, Routines, t)) \in Nat
  BY PlacesFinite, PartFinite DEF BatchTypeOK
<1>3. took'[t] = db[t] + failed[t] /\ db[t] \in Nat /\ failed[t] \in Nat
  BY DEF Vanish, BatchTypeOK
<1>4. PICK a \in Nat, b \in Nat :
         a = Count(batch, t) /\ b = Cardinality(Part(hold, Routines, t))
  BY <1>2
<1>5. PICK c \in Nat, d \in Nat : c = db[t] /\ d = failed[t]
  BY <1>3
<1>6. took[t] = a + b + c + d /\ took'[t] = c + d
  BY <1>1, <1>3, <1>4, <1>5
<1> QED
  BY <1>6

\* What a handler takes is a posted trace, and what the reader takes is not.
LEMMA LinesNotPosted ==
  Lines \cap Posted = {} /\ Traces = Lines \cup Posted
  BY TailAssumption, DaemonAssumption DEF Lines, Posted, Traces

LEMMA ReaderTakesLine ==
  ASSUME TypeOK, ReadRecord \/ DrainRing
  PROVE  \E n \in Lines : Add("reader", n)
<1>1. CASE ReadRecord
  <2>1. buf \in Seq(Piece) /\ HasLine
    BY <1>1 DEF ReadRecord, TakeRecord, TypeOK, TailTypeOK
  <2>2. 1 \in 1 .. Len(buf)
    BY <2>1, LineEndIsFirst
  <2>3. buf[1].line \in Lines
    BY <2>1, <2>2, PiecesHaveLines
  <2> QED
    BY <1>1, <2>3 DEF ReadRecord
<1>2. CASE DrainRing
  BY <1>2, HeadTailProperties DEF DrainRing, TypeOK
<1> QED
  BY <1>1, <1>2

\* A step that has nothing to do with the posted batch.
ApartFromPosts ==
  /\ UNCHANGED <<lives, hpc, next, seen, took>>
  /\ phase' = phase \/ (phase # "down" /\ phase' # "down")
  /\ \/ faults' \in {faults, faults + 1} /\ UNCHANGED upsets
     \/ faults' = faults + 1 /\ upsets' = upsets + 1

LEMMA PostsKept ==
  ASSUME TypeOK, ProcTypeOK, IngestTypeOK, BatchTypeOK, Conserved, PostsInv, [Next]_vars
  PROVE  PostsInv'
<1>0. /\ lives \in Nat /\ faults \in Nat /\ upsets \in Nat /\ upsets <= faults
      /\ took \in [Traces -> Nat] /\ Posted \subseteq Traces
  BY LinesNotPosted, DaemonAssumption DEF ProcTypeOK, BatchTypeOK
<1>1. CASE Launch
  <2>1. /\ lives' = lives + 1 /\ phase = "down"
        /\ UNCHANGED <<faults, upsets, took, hpc, next, seen>>
    BY <1>1 DEF Launch, ingestVars, historyVars
  <2> QED
    BY <1>0, <2>1 DEF PostsInv
<1>2. CASE Exit \/ Crash
  <2>1. /\ phase' = "down" /\ hpc' = [h \in Handlers |-> "idle"] /\ ~seen' /\ lives' = lives
        /\ faults' = upsets' => faults = upsets
    BY <1>0, <1>2 DEF Exit, Crash, Upset, Vanish
  <2>2. \A t \in Posted : took'[t] <= took[t] /\ took'[t] \in Nat
    BY <1>0, <1>2, VanishLoses DEF Exit, Crash
  <2> QED
    BY <1>0, <2>1, <2>2 DEF PostsInv
<1>3. CASE ReadRecord \/ DrainRing
  <2>1. PICK n \in Lines : Add("reader", n)
    BY <1>3, ReaderTakesLine
  <2>2. \A t \in Posted : took'[t] = took[t]
    BY <1>0, <2>1, LinesNotPosted DEF Add
  <2>3. UNCHANGED <<phase, lives, faults, upsets, hpc, next, seen>>
    BY <1>3, <2>1 DEF ReadRecord, DrainRing, Add, unread, procVars, ingestVars
  <2> QED
    BY <2>2, <2>3 DEF PostsInv
<1>4. CASE \E h \in Handlers : Post(h)
  <2>1. PICK h \in Handlers : Post(h)
    BY <1>4
  <2>2. /\ phase # "down" /\ hpc' = [hpc EXCEPT ![h] = "check"]
        /\ next' = [next EXCEPT ![h] = MaxLines + 1]
        /\ UNCHANGED <<phase, lives, faults, upsets, took, seen>>
    BY <2>1 DEF Post, HandlerAt, unserved, procVars, historyVars
  <2> QED
    BY <2>2 DEF PostsInv, IngestTypeOK
<1>5. CASE \E h \in Handlers : CheckSeen(h)
  <2>1. PICK h \in Handlers : CheckSeen(h)
    BY <1>5
  <2>2. /\ phase # "down" /\ seen' /\ hpc' = [hpc EXCEPT ![h] = IF seen THEN "reply" ELSE "loop"]
        /\ UNCHANGED <<phase, lives, faults, upsets, took, next>>
    BY <2>1 DEF CheckSeen, HandlerAt, unserved, procVars, historyVars
  <2> QED
    BY <2>2 DEF PostsInv, IngestTypeOK
<1>6. CASE \E h \in Handlers : IngestNext(h)
  <2>1. PICK h \in Handlers : IngestNext(h)
    BY <1>6
  <2>2. /\ phase # "down" /\ hpc[h] = "loop" /\ next[h] \in Posted
        /\ took' = [took EXCEPT ![next[h]] = @ + 1] /\ next' = [next EXCEPT ![h] = @ + 1]
        /\ UNCHANGED <<phase, lives, faults, upsets, hpc, seen>>
    BY <2>1 DEF IngestNext, HandlerAt, Add, unserved, procVars
  <2>3. PICK x \in Posted : x = next[h]
    BY <2>2
  <2>4. x \in Nat /\ Posted \subseteq Nat
    BY TailAssumption, DaemonAssumption DEF Posted
  <2>5. \A t \in Posted : took'[t] = IF t = x THEN took[t] + 1 ELSE took[t]
    BY <1>0, <2>2, <2>3
  <2>6. CASE faults = upsets
    <3>1. took[x] < lives /\ \A t \in Posted : t >= x => took[t] < lives
      BY <2>2, <2>3, <2>4, <2>6 DEF PostsInv
    <3>2. \A t \in Posted : took'[t] <= lives
      BY <1>0, <2>5, <2>6, <3>1 DEF PostsInv
    <3>3. seen
      BY <2>2, <2>6 DEF PostsInv
    <3>4. \A g \in Handlers : hpc[g] = "loop" => g = h
      BY <2>2, <2>6 DEF PostsInv
    <3>5. next'[h] = x + 1
      BY <2>2, <2>3 DEF IngestTypeOK
    <3>6. \A t \in Posted : t >= x + 1 => took'[t] < lives
      BY <1>0, <2>4, <2>5, <3>1
    <3> QED
      BY <2>2, <3>2, <3>3, <3>4, <3>5, <3>6 DEF PostsInv
  <2> QED
    BY <2>2, <2>6 DEF PostsInv
<1>7. CASE \E h \in Handlers : IngestDone(h) \/ Reply(h)
  <2>1. PICK h \in Handlers : IngestDone(h) \/ Reply(h)
    BY <1>7
  <2>2. /\ phase # "down"
        /\ \E label \in {"reply", "idle"} : hpc' = [hpc EXCEPT ![h] = label]
        /\ UNCHANGED <<phase, lives, faults, upsets, took, seen, next>>
    BY <2>1 DEF IngestDone, Reply, HandlerAt, unserved, procVars, historyVars
  <2> QED
    BY <2>2 DEF PostsInv, IngestTypeOK
<1>8. CASE Forget
  <2>1. faults' # upsets' /\ ~seen' /\ UNCHANGED <<phase, hpc>>
    BY <1>0, <1>8 DEF Forget, procVars, historyVars
  <2> QED
    BY <2>1 DEF PostsInv
<1>9. CASE ApartFromPosts
  <2>1. /\ faults' = upsets' => faults = upsets
        /\ UNCHANGED <<lives, hpc, next, seen, took>>
        /\ phase' = phase \/ (phase # "down" /\ phase' # "down")
    BY <1>0, <1>9 DEF ApartFromPosts
  <2> QED
    BY <2>1 DEF PostsInv
<1>10. CASE Terminate \/ LastFlush \/ Tick \/ UNCHANGED vars
  <2>1. UNCHANGED <<lives, hpc, next, seen, took, upsets, faults>>
    BY <1>10 DEF Terminate, LastFlush, Tick, vars, procVars, ingestVars, historyVars
  <2>2. phase' = phase \/ (phase # "down" /\ phase' # "down")
    BY <1>10 DEF Terminate, LastFlush, Tick, vars, procVars
  <2> QED
    BY <1>9, <2>1, <2>2 DEF ApartFromPosts
<1>11. CASE OpenFile \/ FillBuffer \/ ReadGarbage \/ ReachEnd
  <2>1. UNCHANGED <<lives, hpc, next, seen, took, upsets, faults, phase>>
    BY <1>11 DEF OpenFile, FillBuffer, ReadGarbage, ReachEnd, unread, procVars, ingestVars,
                 historyVars
  <2> QED
    BY <1>9, <2>1 DEF ApartFromPosts
<1>12. CASE PollAgain \/ PathMissing \/ Rotated \/ StopTail \/ StopClosed \/ StopRing
  <2>1. UNCHANGED <<lives, hpc, next, seen, took, upsets, faults, phase>>
    BY <1>12 DEF PollAgain, PathMissing, Rotated, StopTail, StopClosed, StopRing, unread,
                 procVars, ingestVars, historyVars
  <2> QED
    BY <1>9, <2>1 DEF ApartFromPosts
<1>13. CASE \E g \in Routines : Flush(g)
  <2>1. ApartFromPosts
    BY <1>13 DEF Flush, procVars, ingestVars, historyVars, ApartFromPosts
  <2> QED
    BY <1>9, <2>1
<1>14. CASE (\E w \in Writers : Write(w)) \/ Disturb \/ WriteRing
  <2>1. UNCHANGED <<lives, hpc, next, seen, took, upsets, phase>>
    BY <1>14 DEF Write, Disturb, WriteRing, outside, procVars, ingestVars, historyVars
  <2>2. faults' \in {faults, faults + 1}
    BY <1>14 DEF Write, Disturb, WriteRing
  <2> QED
    BY <1>9, <2>1, <2>2 DEF ApartFromPosts
<1>15. CASE Trouble
  <2>1. ApartFromPosts
    BY <1>15, TroubleKeeps DEF procVars, ingestVars, ApartFromPosts
  <2> QED
    BY <1>9, <2>1
<1> QED
  BY <1>1, <1>2, <1>3, <1>4, <1>5, <1>6, <1>7, <1>8, <1>10, <1>11, <1>12, <1>13, <1>14, <1>15
     DEF Next, Reader, Handler

-----------------------------------------------------------------------------
(* What the reader hands on.                                               *)

\* The lines in h are those that end at the offsets in E of the text, in this order.
Tells(h, E, text) ==
  /\ Len(h) = Cardinality(E)
  /\ \A a \in 1 .. Len(h) :
       \E k \in E : text[k].line = h[a] /\ Cardinality({j \in E : j < k}) = a - 1

LEMMA TellsSame ==
  ASSUME NEW h, NEW E, NEW text, NEW other, Tells(h, E, text), \A k \in E : other[k] = text[k]
  PROVE  Tells(h, E, other)
  BY DEF Tells

\* One more line, and it ends behind the others.
LEMMA TellsMore ==
  ASSUME NEW h \in Seq(Lines), NEW E \in SUBSET Nat, IsFiniteSet(E), NEW K \in Nat,
         \A k \in E : k < K, NEW text, NEW n \in Lines, text[K].line = n, Tells(h, E, text)
  PROVE  Tells(Append(h, n), E \cup {K}, text)
<1> DEFINE g == Append(h, n)
           F == E \cup {K}
<1>1. /\ g \in Seq(Lines) /\ Len(g) = Len(h) + 1 /\ g[Len(h) + 1] = n
      /\ \A a \in 1 .. Len(h) : g[a] = h[a]
  BY AppendProperties
<1>0. K \notin E /\ ~(K < K) /\ Len(h) \in Nat
  OBVIOUS
<1>2. Cardinality(F) = Cardinality(E) + 1
  BY <1>0, FS_AddElement
<1>3. Len(g) = Cardinality(F)
  BY <1>1, <1>2 DEF Tells
<1>4. ASSUME NEW a \in 1 .. Len(g)
      PROVE  \E k \in F : text[k].line = g[a] /\ Cardinality({j \in F : j < k}) = a - 1
  <2>1. CASE a \in 1 .. Len(h)
    <3>1. PICK k \in E : text[k].line = h[a] /\ Cardinality({j \in E : j < k}) = a - 1
      BY <2>1 DEF Tells
    <3>2. {j \in F : j < k} = {j \in E : j < k}
      BY <3>1
    <3>3. g[a] = h[a] /\ k \in F
      BY <1>1, <2>1, <3>1
    <3> QED
      BY <3>1, <3>2, <3>3
  <2>2. CASE a = Len(h) + 1
    <3>1. {j \in F : j < K} = E
      BY <1>0
    <3>2. Cardinality({j \in F : j < K}) = a - 1
      <4>1. Cardinality(E) = Len(h)
        BY DEF Tells
      <4>2. a - 1 = Len(h)
        BY <1>0, <2>2
      <4> QED
        BY <3>1, <4>1, <4>2
    <3>3. text[K].line = g[a] /\ K \in F
      BY <1>1, <2>2
    <3> QED
      BY <3>2, <3>3
  <2>3. a \in 1 .. Len(h) \/ a = Len(h) + 1
    BY <1>0, <1>1
  <2> QED
    BY <2>1, <2>2, <2>3
<1> QED
  BY <1>3, <1>4 DEF Tells

Following == cur # NoFile /\ cur \notin truncated

LEMMA HandsTells ==
  /\ HandsOnWhatItPassed <=> (Following => Tells(handed, RecordEnds, files[cur]))
  /\ HandsOnWhatItPassed' <=> (Following' => Tells(handed', RecordEnds', files'[cur']))
  BY DEF HandsOnWhatItPassed, Tells, Following

LEMMA ConsumedIsNat ==
  ASSUME TailTypeOK, TextInv, Following
  PROVE  /\ Consumed \in Nat /\ pos = Consumed + Len(buf)
         /\ IsFiniteSet(RecordEnds) /\ RecordEnds \in SUBSET Nat
         /\ \A k \in RecordEnds : k \in 2 .. Consumed
<1>1. Consumed \in Nat /\ pos = Consumed + Len(buf)
  BY DEF TailTypeOK, TextInv, Following, Consumed
<1>2. RecordEnds \in SUBSET (2 .. Consumed)
  BY DEF RecordEnds
<1>3. IsFiniteSet(2 .. Consumed)
  BY <1>1, FS_Interval
<1>4. IsFiniteSet(RecordEnds)
  BY <1>2, <1>3, FS_Subset
<1> QED
  BY <1>1, <1>2, <1>4

\* A step that leaves the reader alone, and what it has read.
LEMMA SameText ==
  ASSUME TailTypeOK, TailTypeOK', Following, TextInv, HandsOnWhatItPassed,
         UNCHANGED readerVars, pos <= Len(files'[cur]),
         \A k \in 1 .. pos : files'[cur][k] = files[cur][k]
  PROVE  TextInv' /\ HandsOnWhatItPassed'
<1>1. /\ Consumed \in Nat /\ pos = Consumed + Len(buf)
      /\ \A k \in RecordEnds : k \in 2 .. Consumed
  BY ConsumedIsNat
<1>2. UNCHANGED <<cur, pos, buf, from, cuts, handed, Consumed>>
  BY DEF readerVars, Consumed
<1>3. pos \in Nat /\ Len(buf) \in Nat /\ pos <= Len(files[cur])
  BY DEF TailTypeOK, TextInv, Following
<1>4. TextInv'
  <2>1. ASSUME NEW k \in 1 .. Len(buf)
        PROVE  buf[k] = files'[cur][Consumed + k]
    <3>1. Consumed + k \in 1 .. pos
      BY <1>1, <1>3
    <3>2. buf[k] = files[cur][Consumed + k]
      BY DEF TextInv, Following
    <3> QED
      BY <3>1, <3>2
  <2>2. Consumed = from \/ Consumed \in cuts \/ files'[cur][Consumed].ends
    <3>1. from \in Nat /\ from <= Consumed
      BY DEF TailTypeOK, TextInv, Following
    <3>2. Consumed = from \/ Consumed \in 1 .. pos
      BY <1>1, <1>3, <3>1
    <3> QED
      BY <3>2 DEF TextInv, Following
  <2> QED
    BY <1>2, <2>1, <2>2 DEF TextInv, Following
<1>5. RecordEnds' = RecordEnds
  <2>1. ASSUME NEW k \in 2 .. Consumed
        PROVE  RecordEndsAt(k)' <=> RecordEndsAt(k)
    <3>1. k \in 1 .. pos /\ k - 1 \in 1 .. pos /\ (k - 2 = 0 \/ k - 2 \in 1 .. pos)
      BY <1>1, <1>3
    <3>2. /\ files'[cur][k] = files[cur][k] /\ files'[cur][k - 1] = files[cur][k - 1]
          /\ k - 2 = 0 \/ files'[cur][k - 2] = files[cur][k - 2]
      BY <3>1
    <3>3. CASE k - 2 = 0
      <4>1. from \in Nat /\ (k - 1 > from => k - 2 = from)
        BY <3>3 DEF TailTypeOK
      <4> QED
        BY <1>2, <3>2, <4>1 DEF RecordEndsAt
    <3>4. CASE files'[cur][k - 2] = files[cur][k - 2]
      BY <1>2, <3>2, <3>4 DEF RecordEndsAt
    <3> QED
      BY <3>2, <3>3, <3>4
  <2> QED
    BY <1>2, <2>1 DEF RecordEnds
<1>6. \A k \in RecordEnds : files'[cur][k] = files[cur][k]
  BY <1>1, <1>3
<1>7. Tells(handed, RecordEnds, files'[cur])
  BY <1>6, HandsTells, TellsSame
<1> QED
  BY <1>2, <1>4, <1>5, <1>7, HandsTells

LEMMA TextOfOpen ==
  ASSUME TailTypeOK, OpensPath
  PROVE  TextInv' /\ HandsOnWhatItPassed'
<1>2. PICK off \in Nat : OpenAt(off) /\ path \in Inodes /\ off <= Len(files[path])
  BY OpensAt
<1>1. files[path] \in Seq(Piece) /\ files' = files /\ cur' = path
  BY <1>2 DEF OpenAt, TailTypeOK, fileVars
<1>3. pos' = off /\ from' = off /\ buf' = << >> /\ cuts' = {} /\ handed' = << >>
  BY <1>2 DEF OpenAt
<1>4. Consumed' = off
  BY <1>2, <1>3 DEF Consumed
<1>5. TextInv'
  BY <1>1, <1>2, <1>3, <1>4 DEF TextInv
<1>6. RecordEnds' = {}
  <2>1. \A k \in 2 .. off : ~RecordEndsAt(k)'
    BY <1>2, <1>3 DEF RecordEndsAt
  <2> QED
    BY <1>4, <2>1 DEF RecordEnds
<1>7. Tells(handed', RecordEnds', files'[cur'])
  BY <1>3, <1>6, FS_EmptySet DEF Tells
<1> QED
  BY <1>5, <1>7, HandsTells

LEMMA TextOfFill ==
  ASSUME TailTypeOK, Following, TextInv, HandsOnWhatItPassed, Fill
  PROVE  TextInv' /\ HandsOnWhatItPassed'
<1>1. /\ Consumed \in Nat /\ pos = Consumed + Len(buf)
      /\ \A k \in RecordEnds : k \in 2 .. Consumed
  BY ConsumedIsNat
<1>2. /\ pos \in Nat /\ buf \in Seq(Piece) /\ Len(buf) \in Nat
      /\ UNCHANGED <<files, cur, truncated, from, cuts, handed>>
  BY DEF TailTypeOK, Fill, fileVars
<1>3. /\ buf' \in Seq(Piece) /\ pos' \in Nat
      /\ pos < pos' /\ pos' <= Len(files[cur])
      /\ Len(buf') = Len(buf) + (pos' - pos)
      /\ \A k \in 1 .. Len(buf) : buf'[k] = buf[k]
      /\ \A k \in 1 .. pos' - pos : buf'[Len(buf) + k] = files[cur][pos + k]
  BY FillReads DEF Following
<1>4. Consumed' = Consumed
  BY <1>1, <1>2, <1>3 DEF Consumed
<1>5. ASSUME NEW k \in 1 .. Len(buf')
      PROVE  buf'[k] = files[cur][Consumed + k]
  <2>1. CASE k <= Len(buf)
    BY <1>2, <1>3, <2>1 DEF TextInv, Following
  <2>2. CASE k > Len(buf)
    <3>1. k - Len(buf) \in 1 .. pos' - pos
      BY <1>2, <1>3, <2>2
    <3>2. Len(buf) + (k - Len(buf)) = k /\ pos + (k - Len(buf)) = Consumed + k
      BY <1>1, <1>2
    <3> QED
      BY <1>3, <3>1, <3>2
  <2> QED
    BY <1>2, <2>1, <2>2
<1>6. TextInv'
  BY <1>2, <1>3, <1>4, <1>5 DEF TextInv, Following
<1>7. RecordEnds' = RecordEnds
  BY <1>2, <1>4 DEF RecordEnds, RecordEndsAt
<1>8. Tells(handed, RecordEnds, files[cur])
  BY HandsTells
<1> QED
  BY <1>2, <1>6, <1>7, <1>8, HandsTells

\* What was dropped at the end of the file had no newline.
LEMMA TextOfHitEnd ==
  ASSUME TailTypeOK, Following, TextInv, HandsOnWhatItPassed, HitEnd
  PROVE  TextInv' /\ HandsOnWhatItPassed'
<1>1. /\ Consumed \in Nat /\ pos = Consumed + Len(buf)
      /\ \A k \in RecordEnds : k \in 2 .. Consumed
  BY ConsumedIsNat
<1>2. /\ pos \in Nat /\ buf \in Seq(Piece) /\ Len(buf) \in Nat /\ cuts \subseteq Nat
      /\ UNCHANGED <<files, cur, truncated, from, handed, pos>> /\ buf' = << >>
      /\ cuts' = IF buf = << >> THEN cuts ELSE cuts \cup {pos}
  BY DEF TailTypeOK, HitEnd, fileVars
<1>3. Consumed' = pos
  BY <1>2 DEF Consumed
<1>4. buf # << >> => Len(buf) > 0
  BY <1>2, EmptySeq
<1>5. TextInv'
  <2>1. pos = Consumed \/ pos \in cuts'
    BY <1>1, <1>2
  <2>2. /\ pos <= Len(files[cur]) /\ from <= Consumed /\ from \in Nat
        /\ \A c \in cuts : from <= c /\ c <= Consumed
        /\ Consumed = from \/ Consumed \in cuts \/ files[cur][Consumed].ends
    BY DEF TextInv, Following, TailTypeOK
  <2>4. from <= pos /\ Consumed <= pos /\ Len(buf') = 0
    BY <1>1, <1>2, <2>2
  <2>3. ASSUME NEW c \in cuts'
        PROVE  from <= c /\ c <= pos
    <3>1. CASE c = pos
      BY <1>2, <2>4, <3>1
    <3>2. CASE c \in cuts
      <4>1. from <= c /\ c <= Consumed /\ c \in Nat
        BY <1>2, <2>2, <3>2
      <4> QED
        BY <1>1, <1>2, <2>4, <4>1
    <3> QED
      BY <1>2, <3>1, <3>2
  <2>5. pos = from \/ pos \in cuts' \/ files[cur][pos].ends
    BY <1>2, <2>1, <2>2
  <2> QED
    BY <1>2, <1>3, <2>2, <2>3, <2>4, <2>5 DEF TextInv
<1>6. RecordEnds' = RecordEnds
  <2>1. ASSUME NEW k \in 2 .. pos, k > Consumed
        PROVE  ~RecordEndsAt(k)'
    <3>1. k - Consumed \in 1 .. Len(buf) /\ Consumed + (k - Consumed) = k
      BY <1>1, <1>2, <2>1
    <3>2. ~buf[k - Consumed].ends
      BY <3>1 DEF HitEnd, HasLine
    <3>3. buf[k - Consumed] = files[cur][k]
      BY <3>1 DEF TextInv, Following
    <3> QED
      BY <1>2, <3>2, <3>3 DEF RecordEndsAt
  <2>2. ASSUME NEW k \in 2 .. Consumed
        PROVE  RecordEndsAt(k)' <=> RecordEndsAt(k)
    <3>1. k - 1 \in cuts' <=> k - 1 \in cuts
      BY <1>1, <1>2
    <3>2. k - 2 \in cuts' <=> k - 2 \in cuts
      BY <1>1, <1>2
    <3> QED
      BY <1>2, <3>1, <3>2 DEF RecordEndsAt
  <2>3. Consumed <= pos
    BY <1>1, <1>2
  <2> QED
    BY <1>1, <1>2, <1>3, <2>1, <2>2, <2>3 DEF RecordEnds
<1>7. Tells(handed, RecordEnds, files[cur])
  BY HandsTells
<1> QED
  BY <1>2, <1>5, <1>6, <1>7, HandsTells

\* A line of the buffer that was consumed, whatever it was.
LEMMA TextOfConsume ==
  ASSUME TailTypeOK, Following, TextInv, HasLine, Consume,
         UNCHANGED <<fileVars, cur, pos, from, cuts>>
  PROVE  /\ TextInv' /\ Consumed' = Consumed + LineEnd /\ LineEnd \in 1 .. Len(buf)
         /\ RecordEnds' = RecordEnds \cup (IF IsRecord THEN {Consumed + 2} ELSE {})
         /\ \A k \in 1 .. Len(buf) : files[cur][Consumed + k] = buf[k]
<1>1. /\ Consumed \in Nat /\ pos = Consumed + Len(buf)
      /\ \A k \in RecordEnds : k \in 2 .. Consumed
  BY ConsumedIsNat
<1>2. /\ pos \in Nat /\ buf \in Seq(Piece) /\ Len(buf) \in Nat /\ cuts \subseteq Nat /\ from \in Nat
      /\ UNCHANGED <<files, cur, truncated, from, cuts, pos>>
  BY DEF TailTypeOK, fileVars
<1>3. PICK e \in 1 .. Len(buf) :
         e = LineEnd /\ buf[e].ends /\ \A k \in 1 .. e - 1 : ~buf[k].ends
  BY <1>2, LineEndIsFirst
<1>4. /\ buf' \in Seq(Piece) /\ Len(buf') = Len(buf) - e
      /\ \A k \in 1 .. Len(buf') : buf'[k] = buf[e + k]
  BY <1>2, <1>3, ConsumeTakesLine
<1>5. Consumed' = Consumed + e
  BY <1>1, <1>2, <1>3, <1>4 DEF Consumed
<1>6. PICK c \in Nat : c = Consumed
  BY <1>1
<1>7. PICK text \in Seq(Piece) : text = files[cur]
  BY DEF TailTypeOK, Following
<1>8. /\ pos <= Len(text) /\ from <= c
      /\ \A k \in 1 .. Len(buf) : buf[k] = text[c + k]
      /\ \A x \in cuts : from <= x /\ x <= c
      /\ c = from \/ c \in cuts \/ text[c].ends
  BY <1>6, <1>7 DEF TextInv, Following
<1>9. TextInv'
  <2>1. ASSUME NEW k \in 1 .. Len(buf')
        PROVE  buf'[k] = text[(c + e) + k]
    <3>1. e + k \in 1 .. Len(buf) /\ c + (e + k) = (c + e) + k
      BY SMTT(30), <1>2, <1>3, <1>4
    <3>2. buf[e + k] = text[c + (e + k)]
      BY <1>8, <3>1
    <3> QED
      BY <1>4, <3>1, <3>2
  <2>2. \A x \in cuts : from <= x /\ x <= c + e
    BY <1>2, <1>3, <1>8
  <2>3. text[c + e].ends /\ from <= c + e
    BY <1>2, <1>3, <1>8
  <2> QED
    BY <1>2, <1>5, <1>6, <1>7, <1>8, <2>1, <2>2, <2>3 DEF TextInv
<1>10. ASSUME NEW k \in 2 .. c + e
       PROVE  RecordEndsAt(k)' <=> RecordEndsAt(k)
  BY <1>2 DEF RecordEndsAt
<1>11. ASSUME NEW k \in 2 .. c + e, k > c
       PROVE  RecordEndsAt(k) <=> IsRecord /\ k = c + 2
  <2>1. PICK d \in 1 .. e : k = c + d
    <3>1. k - c \in 1 .. e /\ k = c + (k - c)
      BY <1>3, <1>11
    <3> QED
      BY <3>1
  <2>2. d \in 1 .. Len(buf) /\ text[k] = buf[d]
    BY <1>3, <1>8, <2>1
  <2>3. RecordEndsAt(k) => d = e
    BY <1>3, <1>7, <2>1, <2>2 DEF RecordEndsAt
  <2>4. CASE d = e /\ e = 1
    <3>1. k - 1 = c
      BY <2>1, <2>4
    <3>2. ~Start(text[k].line).ends
      BY DEF Start
    <3>3. ~RecordEndsAt(k)
      BY <1>7, <1>8, <3>1, <3>2 DEF RecordEndsAt
    <3> QED
      BY <1>3, <2>1, <2>4, <3>3 DEF IsRecord
  <2>5. CASE d = e /\ e = 2
    <3>1. k - 1 = c + 1 /\ k - 2 = c /\ 1 \in 1 .. Len(buf) /\ text[k - 1] = buf[1]
      BY <1>3, <1>8, <2>1, <2>5
    <3>2. k - 1 > from /\ k - 1 \notin cuts
      BY <1>2, <1>8, <3>1
    <3>3. buf[2].ends /\ text[k] = buf[2]
      BY <1>3, <2>2, <2>5
    <3>4. RecordEndsAt(k) <=> buf[1] = Start(buf[2].line)
      BY <1>7, <1>8, <3>1, <3>2, <3>3 DEF RecordEndsAt
    <3> QED
      BY <1>3, <2>1, <2>5, <3>4 DEF IsRecord
  <2>6. CASE d = e /\ e > 2
    <3>1. PICK j \in Nat : j + 2 = e /\ j \in 1 .. e - 1 /\ j \in 1 .. Len(buf) /\ k - 2 = c + j
      <4>1. e - 2 \in Nat
        BY <2>6
      <4> QED
        BY <1>2, <2>1, <2>6, <4>1
    <3>2. ~text[k - 2].ends
      BY <1>3, <1>8, <3>1
    <3>3. k - 2 > c
      BY <3>1
    <3>4. k - 2 # from /\ k - 2 \notin cuts
      BY <1>2, <1>8, <3>3
    <3>5. ~RecordEndsAt(k)
      BY <1>7, <3>2, <3>4 DEF RecordEndsAt
    <3> QED
      BY <1>3, <2>6, <3>5 DEF IsRecord
  <2>7. CASE d # e
    BY <1>3, <2>1, <2>3, <2>7 DEF IsRecord
  <2> QED
    BY <2>4, <2>5, <2>6, <2>7
<1>12. RecordEnds' = RecordEnds \cup (IF IsRecord THEN {c + 2} ELSE {})
  <2>1. IsRecord => e = 2
    BY <1>3 DEF IsRecord
  <2>2. RecordEnds' = {k \in 2 .. c + e : RecordEndsAt(k)}
    BY <1>5, <1>6, <1>10 DEF RecordEnds
  <2>3. RecordEnds = {k \in 2 .. c : RecordEndsAt(k)}
    BY <1>6 DEF RecordEnds
  <2>4. ASSUME NEW k \in 2 .. c + e
        PROVE  RecordEndsAt(k) <=> (k \in 2 .. c /\ RecordEndsAt(k)) \/ (IsRecord /\ k = c + 2)
    <3>1. CASE k > c
      BY <1>11, <3>1
    <3>2. CASE ~(k > c)
      BY <3>2
    <3> QED
      BY <3>1, <3>2
  <2>5. IsRecord => c + 2 \in 2 .. c + e
    BY <2>1
  <2> QED
    BY <1>3, <2>2, <2>3, <2>4, <2>5
<1> QED
  BY <1>3, <1>5, <1>6, <1>7, <1>8, <1>9, <1>12

LEMMA TextOfLook ==
  ASSUME TailTypeOK, Following, TextInv, HandsOnWhatItPassed, TakeRecord \/ TakeGarbage
  PROVE  TextInv' /\ HandsOnWhatItPassed'
<1>1. /\ HasLine /\ Consume /\ UNCHANGED <<fileVars, cur, pos, from, cuts>>
  BY DEF TakeRecord, TakeGarbage
<1>2. /\ TextInv' /\ LineEnd \in 1 .. Len(buf)
      /\ RecordEnds' = RecordEnds \cup (IF IsRecord THEN {Consumed + 2} ELSE {})
      /\ \A k \in 1 .. Len(buf) : files[cur][Consumed + k] = buf[k]
  BY <1>1, TextOfConsume
<1>3. /\ Consumed \in Nat /\ pos = Consumed + Len(buf)
      /\ IsFiniteSet(RecordEnds) /\ RecordEnds \in SUBSET Nat
      /\ \A k \in RecordEnds : k \in 2 .. Consumed
  BY ConsumedIsNat
<1>4. Tells(handed, RecordEnds, files[cur])
  BY HandsTells
<1>5. CASE TakeGarbage
  <2>1. UNCHANGED <<handed, files, cur>> /\ RecordEnds' = RecordEnds
    BY <1>2, <1>5 DEF TakeGarbage, fileVars
  <2> QED
    BY <1>2, <1>4, <2>1, HandsTells
<1>6. CASE TakeRecord
  <2>1. /\ handed' = Append(handed, buf[1].line) /\ IsRecord /\ UNCHANGED <<files, cur>>
        /\ handed \in Seq(Lines) /\ buf \in Seq(Piece)
    BY <1>6 DEF TakeRecord, fileVars, TailTypeOK
  <2>2. LineEnd = 2 /\ buf[1] = Start(buf[2].line) /\ 1 \in 1 .. Len(buf) /\ 2 \in 1 .. Len(buf)
    BY <1>2, <2>1 DEF IsRecord
  <2>3. PICK n \in Lines : n = buf[1].line
    BY <2>1, <2>2, PiecesHaveLines
  <2>4. buf[2].line = n
    BY <2>2, <2>3 DEF Start
  <2>5. PICK text \in Seq(Piece) : text = files[cur]
    BY DEF TailTypeOK, Following
  <2>6. PICK c \in Nat : c = Consumed
    BY <1>3
  <2>7. text[c + 2].line = n
    BY <1>2, <2>2, <2>4, <2>5, <2>6
  <2>8. PICK E \in SUBSET Nat : E = RecordEnds
    BY <1>3
  <2>9. Tells(Append(handed, n), E \cup {c + 2}, text)
    <3>1. IsFiniteSet(E) /\ (\A k \in E : k < c + 2) /\ c + 2 \in Nat
      BY <1>3, <2>6, <2>8
    <3>2. Tells(handed, E, text) /\ handed \in Seq(Lines)
      BY <1>4, <2>1, <2>5, <2>8
    <3> QED
      BY <2>7, <3>1, <3>2, TellsMore
  <2>10. /\ handed' = Append(handed, n) /\ RecordEnds' = E \cup {c + 2}
         /\ files'[cur'] = text
    BY <1>2, <2>1, <2>3, <2>5, <2>6, <2>8
  <2>11. Tells(handed', RecordEnds', files'[cur'])
    BY <2>9, <2>10
  <2> QED
    BY <1>2, <2>11, HandsTells
<1> QED
  BY <1>5, <1>6

LEMMA TextKept ==
  ASSUME TailTypeOK, FileInv, TailTypeOK', TextInv, HandsOnWhatItPassed, TailStep
  PROVE  TextInv' /\ HandsOnWhatItPassed'
<1>1. CASE OpensPath
  BY <1>1, TextOfOpen
<1>2. CASE ~Following'
  BY <1>2 DEF TextInv, HandsOnWhatItPassed, Following
<1>3. CASE Following' /\ ~OpensPath
  <2>1. truncated \subseteq truncated' /\ (cur' = cur \/ Close)
    BY <1>3 DEF TailStep, Forgets, Fill, TakeRecord, TakeGarbage, HitEnd, Close, OutsideStep, WriterStep,
                WriteLine, WriteStart, WriteRest, Quit, Rotate, Truncate, NumberTaken, tailVars,
                fileVars, readerVars
  <2>2. Following /\ cur' = cur
    BY <1>3, <2>1 DEF Close, Following
  <2>3. pos \in Nat /\ pos <= Len(files[cur]) /\ cur \in Inodes /\ files[cur] \in Seq(Piece)
    BY <2>2 DEF TextInv, TailTypeOK, Following
  <2>4. CASE UNCHANGED <<files, readerVars>>
    BY <2>2, <2>3, <2>4, SameText
  <2>5. CASE cur # NoFile /\ Fill
    BY <2>2, <2>5, TextOfFill
  <2>6. CASE cur # NoFile /\ (TakeRecord \/ TakeGarbage)
    BY <2>2, <2>6, TextOfLook
  <2>7. CASE cur # NoFile /\ HitEnd
    BY <2>2, <2>7, TextOfHitEnd
  <2>8. CASE (\E w \in Writers : WriteLine(w) \/ WriteStart(w) \/ WriteRest(w))
             /\ UNCHANGED readerVars
    <3>1. PICK w \in Writers : WriteLine(w) \/ WriteStart(w) \/ WriteRest(w)
      BY <2>8
    <3>2. PICK i \in Inodes, p \in Seq(Piece) : files' = [files EXCEPT ![i] = @ \o p]
      BY <3>1, WriteAppends
    <3>3. files \in [Inodes -> Seq(Piece)]
      BY DEF TailTypeOK
    <3>4. /\ \A j \in Inodes \ {i} : files'[j] = files[j]
          /\ Len(files'[i]) = Len(files[i]) + Len(p)
          /\ \A k \in 1 .. Len(files[i]) : files'[i][k] = files[i][k]
      BY <3>2, <3>3, AppendKeeps
    <3>5. Len(p) \in Nat /\ Len(files[cur]) \in Nat
      BY <2>3
    <3>6. pos <= Len(files'[cur]) /\ \A k \in 1 .. pos : files'[cur][k] = files[cur][k]
      BY SMTT(30), <2>3, <3>4, <3>5
    <3> QED
      BY <2>2, <2>8, <3>6, SameText
  <2>9. CASE Truncate /\ UNCHANGED readerVars
    <3>1. path # cur
      BY <1>3, <2>2, <2>9 DEF Truncate, Following
    <3>2. files'[cur] = files[cur]
      BY <2>3, <2>9, <3>1 DEF Truncate, TailTypeOK
    <3> QED
      BY <2>2, <2>3, <2>9, <3>2, SameText
  <2>10. CASE OutsideStep /\ UNCHANGED <<readerVars, saved, pastVars>>
    BY <2>4, <2>8, <2>9, <2>10 DEF OutsideStep, WriterStep, Quit, Rotate, NumberTaken
  <2>11. ~Close
    BY <1>3 DEF Close, Following
  <2> QED
    BY <1>3, <2>4, <2>5, <2>6, <2>7, <2>10, <2>11 DEF TailStep, Forgets, tailVars, fileVars
<1> QED
  BY <1>1, <1>2, <1>3

-----------------------------------------------------------------------------
(* What a restart passes over.                                             *)

\* The lines that begin in the first n pieces of the text are in S.
AllIn(text, n, S) == \A k \in 1 .. n : BeginsIn(text, k) => text[k].line \in S

LEMMA SkipParts ==
  /\ SkipInv <=> (truncated = {} =>
       /\ skipped \subseteq aheads \cup mangled
       /\ cur # NoFile => AllIn(files[cur], Consumed, Known)
       /\ saved.ino # NoFile =>
            /\ saved.off <= Len(files[saved.ino])
            /\ AllIn(files[saved.ino], saved.off, Known \cup saved.ahead))
  /\ SkipInv' <=> (truncated' = {} =>
       /\ skipped' \subseteq aheads' \cup mangled'
       /\ cur' # NoFile => AllIn(files'[cur'], Consumed', Known')
       /\ saved'.ino # NoFile =>
            /\ saved'.off <= Len(files'[saved'.ino])
            /\ AllIn(files'[saved'.ino], saved'.off, Known' \cup saved'.ahead))
  BY DEF SkipInv, AllIn, BeginsIn

\* Where a text is appended to, no more lines begin in what it had.
LEMMA AllInAppended ==
  ASSUME NEW text \in Seq(Piece), NEW other \in Seq(Piece), Len(text) <= Len(other),
         \A k \in 1 .. Len(text) : other[k] = text[k],
         NEW n \in Nat, n <= Len(text), NEW S, AllIn(text, n, S)
  PROVE  AllIn(other, n, S)
<1>1. SUFFICES ASSUME NEW k \in 1 .. n, BeginsIn(other, k)
               PROVE  other[k].line \in S
  BY DEF AllIn
<1>2. PICK l \in Nat, m \in Nat : l = Len(text) /\ m = Len(other) /\ l <= m
  OBVIOUS
<1>3. k \in 1 .. l /\ (k = 1 \/ k - 1 \in 1 .. l) /\ (k = l \/ k + 1 \in 1 .. l)
  BY <1>2
<1>4. /\ other[k] = text[k] /\ (k = 1 \/ other[k - 1] = text[k - 1])
      /\ k = l \/ other[k + 1] = text[k + 1]
  BY <1>2, <1>3
<1>5. k = m => k = l
  BY <1>2, <1>3
<1>6. BeginsIn(text, k)
  BY <1>1, <1>2, <1>4, <1>5 DEF BeginsIn
<1> QED
  BY <1>4, <1>6 DEF AllIn

LEMMA AllInMore ==
  ASSUME NEW text, NEW n, NEW S, NEW T, S \subseteq T, AllIn(text, n, S)
  PROVE  AllIn(text, n, T)
  BY DEF AllIn

LEMMA SkipOfOpen ==
  ASSUME TailTypeOK, SkipInv, OpensPath
  PROVE  SkipInv'
<1>0. PICK off \in Nat : OpenAt(off) /\ path \in Inodes /\ (off = 0 \/ off = Resume(path))
  BY OpensAt
<1>1. UNCHANGED <<files, truncated, saved, mangled, ever>> /\ cur' = path /\ saved \in Saved
  BY <1>0 DEF OpenAt, TailTypeOK, fileVars
<1>2. /\ pos' = off /\ buf' = << >>
      /\ skipped' = skipped \cup (BegunWithin(path, off) \ ever)
      /\ aheads'  = IF off = 0 THEN aheads ELSE aheads \cup saved.ahead
  BY <1>0 DEF OpenAt
<1>3. Consumed' = off
  BY <1>2 DEF Consumed
<1>4. Known \subseteq Known' /\ aheads \subseteq aheads'
  BY <1>1, <1>2 DEF Known
<1>5. SUFFICES ASSUME truncated = {}
               PROVE  /\ skipped' \subseteq aheads' \cup mangled
                      /\ AllIn(files[path], off, Known')
                      /\ saved.ino # NoFile =>
                           /\ saved.off <= Len(files[saved.ino])
                           /\ AllIn(files[saved.ino], saved.off, Known' \cup saved.ahead)
  BY <1>1, <1>3, SkipParts
<1>6. /\ skipped \subseteq aheads \cup mangled
      /\ saved.ino # NoFile =>
           /\ saved.off <= Len(files[saved.ino])
           /\ AllIn(files[saved.ino], saved.off, Known \cup saved.ahead)
  BY <1>5, SkipParts
<1>7. saved.ino # NoFile => AllIn(files[saved.ino], saved.off, Known' \cup saved.ahead)
  <2>1. Known \cup saved.ahead \subseteq Known' \cup saved.ahead
    BY <1>4
  <2> QED
    BY <1>6, <2>1, AllInMore
<1>8. CASE off = 0
  <2>1. BegunWithin(path, off) = {}
    BY <1>8 DEF BegunWithin
  <2>2. AllIn(files[path], off, Known')
    BY <1>8 DEF AllIn
  <2> QED
    BY <1>2, <1>4, <1>6, <1>7, <2>1, <2>2
<1>9. CASE off # 0
  <2>1. saved.ino = path /\ off = saved.off /\ aheads' = aheads \cup saved.ahead
    BY <1>0, <1>2, <1>9 DEF Resume
  <2>2. path # NoFile
    BY <1>0 DEF OpenAt
  <2>3. AllIn(files[path], off, Known \cup saved.ahead)
    BY <1>6, <2>1, <2>2
  <2>4. Known \cup saved.ahead \subseteq Known'
    BY <1>1, <2>1 DEF Known
  <2>5. AllIn(files[path], off, Known')
    BY <2>3, <2>4, AllInMore
  <2>6. BegunWithin(path, off) \ ever \subseteq aheads' \cup mangled
    <3>1. ASSUME NEW n \in BegunWithin(path, off), n \notin ever
          PROVE  n \in aheads' \cup mangled
      <4>1. PICK k \in 1 .. off : BeginsIn(files[path], k) /\ n = files[path][k].line
        BY DEF BegunWithin, BeginsIn
      <4>2. n \in Known \cup saved.ahead
        BY <2>3, <4>1 DEF AllIn
      <4> QED
        BY <2>1, <3>1, <4>2 DEF Known
    <3> QED
      BY <3>1
  <2> QED
    BY <1>2, <1>4, <1>6, <1>7, <2>5, <2>6
<1> QED
  BY <1>8, <1>9

\* The reader goes on by d pieces; what lines begin in them is known afterwards.
LEMMA AllInFurther ==
  ASSUME NEW text, NEW c \in Nat, NEW d \in Nat, NEW S, NEW T, S \subseteq T, AllIn(text, c, S),
         \A k \in 1 .. d : BeginsIn(text, c + k) => text[c + k].line \in T
  PROVE  AllIn(text, c + d, T)
<1>1. SUFFICES ASSUME NEW k \in 1 .. c + d, BeginsIn(text, k)
               PROVE  text[k].line \in T
  BY DEF AllIn
<1>2. CASE k <= c
  BY <1>1, <1>2 DEF AllIn
<1>3. CASE k > c
  <2>1. k - c \in 1 .. d /\ c + (k - c) = k
    BY <1>3
  <2>2. PICK j \in 1 .. d : c + j = k
    BY <2>1
  <2> QED
    BY <1>1, <2>2
<1> QED
  BY <1>2, <1>3

\* The first line of the buffer begins with a start only where it is a record.
LEMMA SkipOfLook ==
  ASSUME TailTypeOK, cur # NoFile, TextInv, SkipInv, TakeRecord \/ TakeGarbage
  PROVE  SkipInv'
<1>1. /\ HasLine /\ Consume
      /\ UNCHANGED <<fileVars, files, truncated, cur, pos, from, cuts, saved, mangled, skipped,
                     aheads>>
      /\ ever \subseteq ever'
  BY DEF TakeRecord, TakeGarbage, fileVars, pastVars
<1>2. SUFFICES ASSUME truncated = {}
               PROVE  AllIn(files[cur], Consumed', Known')
  <2>1. CASE truncated # {}
    BY <1>1, <2>1, SkipParts
  <2>2. CASE truncated = {}
    <3>1. Known \cup saved.ahead \subseteq Known' \cup saved.ahead
      BY <1>1 DEF Known
    <3>2. saved.ino # NoFile => AllIn(files[saved.ino], saved.off, Known' \cup saved.ahead)
      BY <2>2, <3>1, SkipParts, AllInMore
    <3> QED
      BY <1>1, <1>2, <2>2, <3>2, SkipParts
  <2> QED
    BY <2>1, <2>2
<1>3. Following
  BY <1>2 DEF Following
<1>4. /\ Consumed' = Consumed + LineEnd /\ LineEnd \in 1 .. Len(buf)
      /\ \A k \in 1 .. Len(buf) : files[cur][Consumed + k] = buf[k]
  BY <1>1, <1>3, TextOfConsume
<1>5. Consumed \in Nat /\ pos = Consumed + Len(buf) /\ pos <= Len(files[cur])
  BY <1>3, ConsumedIsNat DEF TextInv, Following
<1>6. PICK c \in Nat, n \in Nat : c = Consumed /\ n = Len(buf) /\ buf \in Seq(Piece)
  <2>1. buf \in Seq(Piece)
    BY DEF TailTypeOK
  <2>2. Len(buf) \in Nat
    BY <2>1
  <2> QED
    BY <1>5, <2>1, <2>2
<1>7. PICK e \in 1 .. n : e = LineEnd /\ buf[e].ends /\ \A k \in 1 .. e - 1 : ~buf[k].ends
  BY <1>1, <1>6, LineEndIsFirst
<1>8. PICK text \in Seq(Piece) : text = files[cur]
  BY <1>3 DEF TailTypeOK, Following
<1>9. /\ \A k \in 1 .. n : text[c + k] = buf[k]
      /\ c + n <= Len(text)
  BY <1>4, <1>5, <1>6, <1>8
<1>10. AllIn(text, c, Known)
  BY <1>2, <1>3, <1>6, <1>8, SkipParts DEF Following
<1>11. ASSUME NEW k \in 1 .. e, BeginsIn(text, c + k)
       PROVE  text[c + k].line \in Known'
  <2>1. k \in 1 .. n /\ text[c + k] = buf[k]
    BY <1>9
  <2>2. k # e
    BY <1>7, <1>11, <2>1 DEF BeginsIn
  <2>3. k = 1
    <3>1. SUFFICES ASSUME k > 1
                   PROVE  FALSE
      OBVIOUS
    <3>2. PICK j \in 1 .. e - 1 : j + 1 = k /\ j \in 1 .. n /\ c + j = (c + k) - 1
      <4>1. k - 1 \in 1 .. e - 1
        BY <3>1
      <4> QED
        BY <4>1
    <3>3. ~text[c + j].ends
      <4>1. ~buf[j].ends /\ text[c + j] = buf[j]
        BY <1>7, <1>9, <3>2
      <4> QED
        BY <4>1
    <3>4. c + k # 1
      BY <3>1
    <3> QED
      BY <1>11, <3>2, <3>3, <3>4 DEF BeginsIn
  <2>4. e > 1 /\ 1 \in 1 .. n /\ 2 \in 1 .. n
    BY <2>2, <2>3
  <2>5. text[c + 1] = buf[1] /\ text[c + 2] = buf[2] /\ c + 1 # Len(text)
    BY <1>9, <2>4
  <2>6. buf[2] = Rest(buf[1].line)
    BY <1>11, <2>3, <2>5 DEF BeginsIn
  <2>7. buf[2].ends /\ buf[2].line = buf[1].line
    BY <2>6 DEF Rest
  <2>8. e = 2
    BY <1>7, <2>4, <2>7
  <2>9. buf[1] = Start(buf[2].line)
    <3>1. buf[1] \in Piece /\ ~buf[1].ends
      BY <1>6, <1>7, <2>4, <2>8
    <3> QED
      BY <2>7, <3>1 DEF Piece, Start
  <2>10. TakeRecord
    BY <1>7, <2>8, <2>9 DEF TakeGarbage, IsRecord
  <2>11. buf[1].line \in Known'
    BY <2>10 DEF TakeRecord, Known
  <2> QED
    BY <2>3, <2>5, <2>11
<1>12. Known \subseteq Known'
  BY <1>1 DEF Known
<1>13. AllIn(text, c + e, Known')
  <2>1. e \in Nat /\ \A k \in 1 .. e : BeginsIn(text, c + k) => text[c + k].line \in Known'
    BY <1>11
  <2> QED
    BY <1>10, <1>12, <2>1, AllInFurther
<1> QED
  BY <1>4, <1>6, <1>7, <1>8, <1>13

LEMMA SkipOfHitEnd ==
  ASSUME TailTypeOK, cur # NoFile, TextInv, SkipInv, HitEnd
  PROVE  SkipInv'
<1>1. /\ UNCHANGED <<files, truncated, cur, pos, saved, ever, skipped, aheads>>
      /\ buf' = << >> /\ mangled' = mangled \cup {buf[k].line : k \in 1 .. Len(buf)}
      /\ pos \in Nat
  BY DEF HitEnd, fileVars, TailTypeOK
<1>2. Known \subseteq Known' /\ Consumed' = pos
  BY <1>1 DEF Known, Consumed
<1>3. CASE truncated # {}
  BY <1>1, <1>3, SkipParts
<1>4. CASE truncated = {}
  <2>1. Following
    BY <1>4 DEF Following
  <2>2. PICK c \in Nat, n \in Nat : c = Consumed /\ n = Len(buf) /\ pos = c + n
    BY <2>1, ConsumedIsNat DEF TailTypeOK
  <2>3. \A k \in 1 .. n : files[cur][c + k] = buf[k]
    BY <2>1, <2>2 DEF TextInv, Following
  <2>4. \A k \in 1 .. n : files[cur][c + k].line \in Known'
    BY <1>1, <2>2, <2>3 DEF Known
  <2>5. AllIn(files[cur], c, Known)
    BY <1>4, <2>2, SkipParts
  <2>6. AllIn(files[cur], c + n, Known')
    BY <1>2, <2>4, <2>5, AllInFurther
  <2>7. Known \cup saved.ahead \subseteq Known' \cup saved.ahead
    BY <1>2
  <2>8. saved.ino # NoFile => AllIn(files[saved.ino], saved.off, Known' \cup saved.ahead)
    BY <1>4, <2>7, SkipParts, AllInMore
  <2> QED
    BY <1>1, <1>2, <1>4, <2>2, <2>6, <2>8, SkipParts
<1> QED
  BY <1>3, <1>4

LEMMA SkipOfSave ==
  ASSUME TailTypeOK, cur # NoFile, TextInv, SkipInv, Save,
         UNCHANGED <<fileVars, readerVars, pastVars>>
  PROVE  SkipInv'
<1>1. /\ UNCHANGED <<files, truncated, cur, pos, buf, mangled, ever, skipped, aheads>>
      /\ saved' = [ino |-> cur, off |-> pos, ahead |-> {buf[k].line : k \in 1 .. Len(buf)}]
  BY DEF Save, fileVars, readerVars, pastVars
<1>2. Known' = Known /\ Consumed' = Consumed
  BY <1>1 DEF Known, Consumed
<1>3. CASE truncated # {}
  BY <1>1, <1>3, SkipParts
<1>4. CASE truncated = {}
  <2>1. Following
    BY <1>4 DEF Following
  <2>2. PICK c \in Nat, n \in Nat : c = Consumed /\ n = Len(buf) /\ pos = c + n
    BY <2>1, ConsumedIsNat DEF TailTypeOK
  <2>3. pos <= Len(files[cur]) /\ \A k \in 1 .. n : files[cur][c + k] = buf[k]
    BY <2>1, <2>2 DEF TextInv, Following
  <2>4. \A k \in 1 .. n : files[cur][c + k].line \in Known \cup saved'.ahead
    BY <1>1, <2>2, <2>3
  <2>5. AllIn(files[cur], c, Known)
    BY <1>4, <2>2, SkipParts
  <2>6. AllIn(files[cur], c + n, Known \cup saved'.ahead)
    BY <2>4, <2>5, AllInFurther
  <2> QED
    BY <1>1, <1>2, <1>4, <2>2, <2>3, <2>5, <2>6, SkipParts
<1> QED
  BY <1>3, <1>4

LEMMA SkipOfWrite ==
  ASSUME TailTypeOK, FileInv, TextInv, SkipInv, NEW w \in Writers,
         WriteLine(w) \/ WriteStart(w) \/ WriteRest(w), UNCHANGED <<readerVars, saved, pastVars>>
  PROVE  SkipInv'
<1>1. PICK i \in Inodes, p \in Seq(Piece) :
         files' = [files EXCEPT ![i] = @ \o p] /\ UNCHANGED truncated
  BY WriteAppends
<1>2. /\ files \in [Inodes -> Seq(Piece)] /\ files' \in [Inodes -> Seq(Piece)]
      /\ \A j \in Inodes \ {i} : files'[j] = files[j]
      /\ Len(files'[i]) = Len(files[i]) + Len(p)
      /\ \A k \in 1 .. Len(files[i]) : files'[i][k] = files[i][k]
  BY <1>1, AppendKeeps DEF TailTypeOK
<1>3. ASSUME NEW j \in Inodes
      PROVE  /\ files[j] \in Seq(Piece) /\ files'[j] \in Seq(Piece)
             /\ Len(files[j]) <= Len(files'[j])
             /\ \A k \in 1 .. Len(files[j]) : files'[j][k] = files[j][k]
  <2>1. /\ files[j] \in Seq(Piece) /\ files'[j] \in Seq(Piece) /\ Len(p) \in Nat
        /\ Len(files[j]) \in Nat
    BY <1>2
  <2>2. CASE j = i
    BY <1>2, <2>1, <2>2
  <2>3. CASE j # i
    <3>1. files'[j] = files[j]
      BY <1>2, <2>3
    <3> QED
      BY <2>1, <3>1
  <2> QED
    BY <2>2, <2>3
<1>4. UNCHANGED <<cur, pos, buf, saved, mangled, ever, skipped, aheads, Known, Consumed>>
  BY DEF readerVars, pastVars, Known, Consumed
<1>5. CASE truncated # {}
  BY <1>1, <1>5, SkipParts
<1>6. CASE truncated = {}
  <2>1. cur # NoFile => AllIn(files'[cur], Consumed, Known)
    <3>1. SUFFICES ASSUME cur # NoFile
                   PROVE  AllIn(files'[cur], Consumed, Known)
      OBVIOUS
    <3>2. Following /\ cur \in Inodes
      BY <1>6, <3>1 DEF Following, TailTypeOK
    <3>3. PICK c \in Nat, l \in Nat : c = Consumed /\ l = Len(files[cur]) /\ c <= l
      <4>1. Consumed \in Nat /\ pos = Consumed + Len(buf) /\ Len(buf) \in Nat
        BY <3>2, ConsumedIsNat DEF TailTypeOK
      <4>2. pos <= Len(files[cur]) /\ Len(files[cur]) \in Nat
        BY <1>3, <3>2 DEF TextInv, Following
      <4> QED
        BY SMTT(30), <4>1, <4>2
    <3>4. AllIn(files[cur], c, Known)
      BY <1>6, <3>1, <3>3, SkipParts
    <3>5. AllIn(files'[cur], c, Known)
      BY <1>3, <3>2, <3>3, <3>4, AllInAppended
    <3> QED
      BY <3>3, <3>5
  <2>2. saved.ino # NoFile =>
          /\ saved.off <= Len(files'[saved.ino])
          /\ AllIn(files'[saved.ino], saved.off, Known \cup saved.ahead)
    <3>1. SUFFICES ASSUME saved.ino # NoFile
                   PROVE  /\ saved.off <= Len(files'[saved.ino])
                          /\ AllIn(files'[saved.ino], saved.off, Known \cup saved.ahead)
      OBVIOUS
    <3>2. PICK j \in Inodes, o \in Nat : j = saved.ino /\ o = saved.off
      BY <3>1 DEF TailTypeOK, Saved
    <3>3. o <= Len(files[j]) /\ AllIn(files[j], o, Known \cup saved.ahead)
      BY <1>6, <3>1, <3>2, SkipParts
    <3>4. Len(files[j]) \in Nat /\ Len(files'[j]) \in Nat /\ Len(files[j]) <= Len(files'[j])
      BY <1>3
    <3>5. AllIn(files'[j], o, Known \cup saved.ahead)
      BY <1>3, <3>3, AllInAppended
    <3> QED
      BY <3>2, <3>3, <3>4, <3>5
  <2> QED
    BY <1>1, <1>4, <1>6, <2>1, <2>2, SkipParts
<1> QED
  BY <1>5, <1>6

LEMMA SkipKept ==
  ASSUME TailTypeOK, FileInv, TextInv, SkipInv, TailStep
  PROVE  SkipInv'
<1>1. CASE OpensPath
  BY <1>1, SkipOfOpen
<1>10. CASE Forgets
  <2>1. UNCHANGED <<files, truncated, cur, skipped, aheads, mangled, Known, Consumed>>
    BY <1>10 DEF Forgets, fileVars, readerVars, pastVars, Known, Consumed
  <2>2. saved'.ino = NoFile
    BY <1>10 DEF Forgets, NotSaved
  <2> QED
    BY <2>1, <2>2, SkipParts
<1>2. CASE cur # NoFile /\ Fill
  <2>1. /\ UNCHANGED <<files, truncated, cur, saved, mangled, ever, skipped, aheads>>
    BY <1>2 DEF Fill, fileVars, pastVars
  <2>2. Known' = Known
    BY <2>1 DEF Known
  <2>3. truncated = {} => Consumed' = Consumed
    <3>1. SUFFICES ASSUME truncated = {}
                   PROVE  Consumed' = Consumed
      OBVIOUS
    <3>2. Following
      BY <1>2, <3>1 DEF Following
    <3>3. Consumed \in Nat /\ pos = Consumed + Len(buf) /\ Len(buf) \in Nat /\ pos \in Nat
      BY <3>2, ConsumedIsNat DEF TailTypeOK
    <3>4. Len(buf') = Len(buf) + (pos' - pos) /\ pos' \in Nat
      BY <1>2, FillReads
    <3> QED
      BY <3>3, <3>4 DEF Consumed
  <2> QED
    BY <2>1, <2>2, <2>3, SkipParts
<1>3. CASE cur # NoFile /\ (TakeRecord \/ TakeGarbage)
  BY <1>3, SkipOfLook
<1>4. CASE cur # NoFile /\ HitEnd
  BY <1>4, SkipOfHitEnd
<1>5. CASE cur # NoFile /\ Save /\ UNCHANGED <<fileVars, readerVars, pastVars>>
  BY <1>5, SkipOfSave
<1>6. CASE Close /\ UNCHANGED <<fileVars, pastVars>> /\ saved' \in {saved, NotSaved}
  <2>1. UNCHANGED <<files, truncated, mangled, ever, skipped, aheads, Known>> /\ cur' = NoFile
    BY <1>6 DEF Close, fileVars, pastVars, Known
  <2>2. saved' = saved \/ saved'.ino = NoFile
    BY <1>6 DEF NotSaved
  <2> QED
    BY <2>1, <2>2, SkipParts
<1>7. CASE /\ UNCHANGED <<files, truncated, cur, pos, buf, saved>>
           /\ UNCHANGED <<mangled, ever, skipped, aheads>>
  <2>1. UNCHANGED <<Known, Consumed>>
    BY <1>7 DEF Known, Consumed
  <2> QED
    BY <1>7, <2>1, SkipParts
<1>8. CASE UNCHANGED tailVars
  BY <1>7, <1>8 DEF tailVars, fileVars, readerVars, pastVars
<1>9. CASE OutsideStep /\ UNCHANGED <<readerVars, saved, pastVars>>
  <2>1. CASE Truncate
    <3>1. truncated' # {}
      BY <2>1 DEF Truncate
    <3> QED
      BY <3>1, SkipParts
  <2>2. CASE \E w \in Writers : WriteLine(w) \/ WriteStart(w) \/ WriteRest(w)
    BY <1>9, <2>2, SkipOfWrite
  <2>3. CASE (\E w \in Writers : Quit(w)) \/ Rotate \/ NumberTaken
    BY <1>7, <1>9, <2>3 DEF Quit, Rotate, NumberTaken, readerVars, pastVars
  <2> QED
    BY <1>9, <2>1, <2>2, <2>3 DEF OutsideStep, WriterStep
<1> QED
  BY <1>1, <1>2, <1>3, <1>4, <1>5, <1>6, <1>8, <1>9, <1>10 DEF TailStep

-----------------------------------------------------------------------------
(* Where the end of a line stands.                                         *)

LEMMA HalfKept ==
  ASSUME TailTypeOK, FileInv, HalfInv, TailStep
  PROVE  HalfInv' /\ \A n \in Lines : Settled(n) => Settled(n)'
<1>0. /\ begun \in Nat /\ half \in [Writers -> Lines \cup {0}] /\ Lines \subseteq Nat \ {0}
  BY TailAssumption DEF TailTypeOK, Lines
<1>9. ASSUME NEW v \in Writers
      PROVE  half[v] \in Nat /\ half[v] <= begun
  <2>1. half[v] \in Lines \cup {0}
    BY <1>0
  <2>2. half[v] \in Nat
    BY <2>1, TailAssumption DEF Lines
  <2>3. half[v] <= begun
    BY DEF HalfInv
  <2> QED
    BY <2>2, <2>3
<1>1. CASE UNCHANGED <<half, begun>>
  BY <1>1 DEF HalfInv, Settled
<1>2. CASE \E w \in Writers : WriteLine(w)
  <2>1. half' = half /\ begun' = begun + 1
    BY <1>2 DEF WriteLine
  <2> QED
    BY <1>0, <1>9, <2>1 DEF HalfInv, Settled
<1>3. CASE \E w \in Writers : WriteStart(w)
  <2>1. PICK w \in Writers : WriteStart(w)
    BY <1>3
  <2>2. half' = [half EXCEPT ![w] = begun + 1] /\ begun' = begun + 1
    BY <2>1 DEF WriteStart
  <2>3. \A v \in Writers : half'[v] = IF v = w THEN begun + 1 ELSE half[v]
    BY <1>0, <2>2
  <2>4. \A v \in Writers : half[v] \in Nat /\ half[v] <= begun
    BY <1>9
  <2>5. HalfInv'
    BY <1>0, <2>2, <2>3, <2>4 DEF HalfInv
  <2>6. ASSUME NEW n \in Lines, Settled(n)
        PROVE  Settled(n)'
    BY <1>0, <2>2, <2>3, <2>6 DEF Settled
  <2> QED
    BY <2>5, <2>6
<1>4. CASE \E w \in Writers : WriteRest(w) \/ Quit(w)
  <2>1. PICK w \in Writers : WriteRest(w) \/ Quit(w)
    BY <1>4
  <2>2. half' = [half EXCEPT ![w] = 0] /\ begun' = begun
    BY <2>1 DEF WriteRest, Quit
  <2>3. \A v \in Writers : half'[v] = IF v = w THEN 0 ELSE half[v]
    BY <1>0, <2>2
  <2>4. \A v \in Writers : half[v] \in Nat /\ half[v] <= begun
    BY <1>9
  <2>5. HalfInv'
    BY <1>0, <2>2, <2>3, <2>4 DEF HalfInv
  <2>6. ASSUME NEW n \in Lines, Settled(n)
        PROVE  Settled(n)'
    BY <1>0, <2>2, <2>3, <2>6 DEF Settled
  <2> QED
    BY <2>5, <2>6
<1>5. CASE NumberTaken
  <2>1. half' = half /\ begun' = begun + 1
    BY <1>5 DEF NumberTaken
  <2> QED
    BY <1>0, <1>9, <2>1 DEF HalfInv, Settled
<1>6. CASE ~OutsideStep
  <2>1. UNCHANGED fileVars
    BY <1>6 DEF TailStep, tailVars, OpensPath, OpenPath, OpenAt, Forgets, Fill, TakeRecord,
                TakeGarbage, HitEnd
  <2> QED
    BY <1>1, <2>1 DEF fileVars
<1>7. CASE Rotate \/ Truncate
  BY <1>1, <1>7 DEF Rotate, Truncate
<1> QED
  BY <1>2, <1>3, <1>4, <1>5, <1>6, <1>7 DEF OutsideStep, WriterStep

\* Steps that only take ends of lines away.
LEMMA EndsShrink ==
  ASSUME EndsInv, NEW d \in Nat, NEW r \in Nat,
         \A n \in Lines : Settled(n) => Settled(n)',
         \A n \in Lines, i \in Inodes, k \in Nat : EndAt(i, k, n)' => EndAt(i, k, n),
         \A n \in Lines, k \in Nat :
           EndInBuf(k, n)' => EndInBuf(k + d, n) /\ UNCHANGED <<cur, pos>>,
         \A i \in Inodes, n \in Lines, k \in Nat : EndAt(i, k, n)' =>
           Len(files[i]) <= Len(files'[i]) /\ Len(files[i]) \in Nat /\ Len(files'[i]) \in Nat,
         pos \in Nat,
         \A n \in Lines, k \in Nat : InRing(k, n)' => InRing(k + r, n)
  PROVE  EndsInv'
<1>1. SUFFICES ASSUME NEW n \in Lines
               PROVE  /\ \A i \in Inodes, k \in Nat : EndAt(i, k, n)' =>
                           /\ Settled(n)'
                           /\ \A j \in Inodes, l \in Nat : EndAt(j, l, n)' => i = j /\ k = l
                           /\ \A l \in Nat : EndInBuf(l, n)' =>
                                i = cur' /\ k <= pos' /\ pos' <= Len(files'[cur'])
                      /\ \A k \in Nat : EndInBuf(k, n)' =>
                           Settled(n)' /\ \A l \in Nat : EndInBuf(l, n)' => k = l
                      /\ \A k \in Nat : InRing(k, n)' =>
                           /\ Settled(n)'
                           /\ \A l \in Nat : InRing(l, n)' => k = l
                           /\ \A l \in Nat : ~EndInBuf(l, n)'
                           /\ \A i \in Inodes, l \in Nat : ~EndAt(i, l, n)'
  BY DEF EndsInv
<1>2. /\ \A i \in Inodes, k \in Nat : EndAt(i, k, n) =>
           /\ Settled(n)
           /\ \A j \in Inodes, l \in Nat : EndAt(j, l, n) => i = j /\ k = l
           /\ \A l \in Nat : EndInBuf(l, n) => i = cur /\ k <= pos /\ pos <= Len(files[cur])
      /\ \A k \in Nat : EndInBuf(k, n) =>
           Settled(n) /\ \A l \in Nat : EndInBuf(l, n) => k = l
      /\ \A k \in Nat : InRing(k, n) =>
           /\ Settled(n)
           /\ \A l \in Nat : InRing(l, n) => k = l
           /\ \A l \in Nat : ~EndInBuf(l, n)
           /\ \A i \in Inodes, l \in Nat : ~EndAt(i, l, n)
  BY DEF EndsInv
<1>3. \A k, l \in Nat : k + d \in Nat /\ k + r \in Nat
                        /\ (k + d = l + d => k = l) /\ (k + r = l + r => k = l)
  OBVIOUS
<1>4. ASSUME NEW i \in Inodes, NEW k \in Nat, EndAt(i, k, n)'
      PROVE  /\ Settled(n)'
             /\ \A j \in Inodes, l \in Nat : EndAt(j, l, n)' => i = j /\ k = l
             /\ \A l \in Nat : EndInBuf(l, n)' =>
                  i = cur' /\ k <= pos' /\ pos' <= Len(files'[cur'])
  <2>1. EndAt(i, k, n)
    BY <1>4
  <2>2. ASSUME NEW l \in Nat, EndInBuf(l, n)'
        PROVE  i = cur' /\ k <= pos' /\ pos' <= Len(files'[cur'])
    <3>1. EndInBuf(l + d, n) /\ UNCHANGED <<cur, pos>>
      BY <2>2
    <3>2. i = cur /\ k <= pos /\ pos <= Len(files[i])
      BY <1>2, <1>3, <2>1, <3>1
    <3>3. Len(files[i]) <= Len(files'[i]) /\ Len(files[i]) \in Nat /\ Len(files'[i]) \in Nat
      BY <1>4
    <3> QED
      BY <3>1, <3>2, <3>3
  <2> QED
    BY <1>2, <2>1, <2>2
<1>5. ASSUME NEW k \in Nat, EndInBuf(k, n)'
      PROVE  Settled(n)' /\ \A l \in Nat : EndInBuf(l, n)' => k = l
  BY <1>2, <1>3, <1>5
<1>6. ASSUME NEW k \in Nat, InRing(k, n)'
      PROVE  /\ Settled(n)'
             /\ \A l \in Nat : InRing(l, n)' => k = l
             /\ \A l \in Nat : ~EndInBuf(l, n)'
             /\ \A i \in Inodes, l \in Nat : ~EndAt(i, l, n)'
  BY <1>2, <1>3, <1>6
<1> QED
  BY <1>4, <1>5, <1>6

LEMMA StartIsNoRest ==
  ASSUME NEW m, NEW n
  PROVE  Start(m) # Rest(n) /\ (Rest(m) = Rest(n) => m = n)
<1>1. ~Start(m).ends /\ Rest(n).ends /\ Rest(m).line = m /\ Rest(n).line = n
  BY DEF Start, Rest
<1> QED
  BY <1>1

\* If a line's end is new, it is that of line m at offset K of file i.
NewEnd(i, K, m) ==
  \A n \in Lines, j \in Inodes, k \in Nat : EndAt(j, k, n)' =>
    EndAt(j, k, n) \/ (j = i /\ k = K /\ n = m)

\* What a worker's write does to file i: it grows, by the end of a line that nobody has ended,
\* or of none, and is the file that the path names if the path named none.
Adds(i, K, m) ==
  /\ NewEnd(i, K, m)
  /\ m \in Lines => ~Settled(m) /\ Settled(m)'
  /\ \A j \in Inodes : /\ Len(files[j]) \in Nat /\ Len(files'[j]) \in Nat
                       /\ Len(files[j]) <= Len(files'[j])
  /\ UNCHANGED path \/ (path = NoFile /\ path' = i /\ i > made)

\* The pieces p at the end of file i: the last of them may be the end of line m.
LEMMA EndsAppended ==
  ASSUME files \in [Inodes -> Seq(Piece)], NEW i \in Inodes, NEW p \in Seq(Piece),
         files' = [files EXCEPT ![i] = @ \o p], NEW m, NEW K, K = Len(files'[i]),
         \A k \in 1 .. Len(p) : \A n \in Lines : p[k] = Rest(n) => k = Len(p) /\ n = m
  PROVE  NewEnd(i, K, m)
<1>1. /\ files' \in [Inodes -> Seq(Piece)]
      /\ \A j \in Inodes \ {i} : files'[j] = files[j]
      /\ Len(files'[i]) = Len(files[i]) + Len(p)
      /\ \A k \in 1 .. Len(files[i]) : files'[i][k] = files[i][k]
      /\ \A k \in 1 .. Len(p) : files'[i][Len(files[i]) + k] = p[k]
  BY AppendKeeps
<1>2. SUFFICES ASSUME NEW n \in Lines, NEW j \in Inodes, NEW k \in Nat,
                      k \in 1 .. Len(files'[j]), files'[j][k] = Rest(n)
               PROVE  EndAt(j, k, n) \/ (j = i /\ k = K /\ n = m)
  BY DEF EndAt, NewEnd
<1>3. CASE j # i
  BY <1>1, <1>2, <1>3 DEF EndAt
<1>4. CASE j = i
  <2>1. PICK a \in Nat, b \in Nat : a = Len(files[i]) /\ b = Len(p) /\ a + b = Len(files'[i])
    <3>1. Len(files[i]) \in Nat /\ Len(p) \in Nat
      OBVIOUS
    <3> QED
      BY <1>1, <3>1
  <2>2. CASE k <= a
    <3>1. k \in 1 .. a
      BY <1>2, <2>2
    <3> QED
      BY <1>1, <1>2, <1>4, <2>1, <3>1 DEF EndAt
  <2>3. CASE k > a
    <3>1. PICK d \in 1 .. b : k = a + d
      <4>1. k - a \in 1 .. b /\ k = a + (k - a)
        BY <1>2, <1>4, <2>1, <2>3
      <4> QED
        BY <4>1
    <3>2. p[d] = Rest(n)
      BY <1>1, <1>2, <1>4, <2>1, <3>1
    <3>3. d = b /\ n = m
      BY <2>1, <3>1, <3>2
    <3> QED
      BY <1>4, <2>1, <3>1, <3>3
  <2> QED
    BY <2>1, <2>2, <2>3
<1> QED
  BY <1>3, <1>4

\* A worker adds the end of a line that nobody has ended, or of none.
LEMMA WriteAdds ==
  ASSUME TailTypeOK, FileInv, HalfInv, NEW w \in Writers,
         WriteLine(w) \/ WriteStart(w) \/ WriteRest(w)
  PROVE  \E i \in Inodes, m \in Nat, K \in Nat : Adds(i, K, m)
<1>0. /\ begun \in 0 .. MaxLines /\ begun \in Nat /\ half \in [Writers -> Lines \cup {0}]
      /\ files \in [Inodes -> Seq(Piece)] /\ Lines \subseteq Nat \ {0} /\ MaxLines \in Nat
      /\ made \in Nat
  BY TailAssumption DEF TailTypeOK, Lines
<1>1. ASSUME NEW p \in Seq(Piece), AppendTo(w, p), NEW m \in Nat,
             m \in Lines => ~Settled(m) /\ Settled(m)',
             \A k \in 1 .. Len(p) : \A n \in Lines : p[k] = Rest(n) => k = Len(p) /\ n = m
      PROVE  \E i \in Inodes, x \in Nat, K \in Nat : Adds(i, K, x)
  <2>1. PICK i \in Inodes :
           /\ files' = [files EXCEPT ![i] = @ \o p]
           /\ UNCHANGED path \/ (path = NoFile /\ path' = i /\ i > made)
    <3>1. PICK i \in Inodes :
             /\ files' = [files EXCEPT ![i] = @ \o p]
             /\ \/ i <= made /\ UNCHANGED <<path, made>>
                \/ i = made + 1 /\ path = NoFile /\ path' = i /\ made' = i
      BY <1>1, AppendToFile
    <3>2. i = made + 1 => i > made
      BY <1>0
    <3> QED
      BY <3>1, <3>2
  <2>2. /\ files' \in [Inodes -> Seq(Piece)]
        /\ \A j \in Inodes \ {i} : files'[j] = files[j]
        /\ Len(files'[i]) = Len(files[i]) + Len(p)
    BY <1>0, <2>1, AppendKeeps
  <2>3. ASSUME NEW j \in Inodes
        PROVE  /\ Len(files[j]) \in Nat /\ Len(files'[j]) \in Nat
               /\ Len(files[j]) <= Len(files'[j])
    <3>1. Len(files[j]) \in Nat /\ Len(files'[j]) \in Nat /\ Len(p) \in Nat
      BY <1>0, <2>2
    <3>2. CASE j = i
      BY <2>2, <3>1, <3>2
    <3>3. CASE j # i
      BY <2>2, <3>1, <3>3
    <3> QED
      BY <3>2, <3>3
  <2>4. PICK K \in Nat : K = Len(files'[i])
    BY <2>3
  <2>5. NewEnd(i, K, m)
    <3>1. files \in [Inodes -> Seq(Piece)]
      BY <1>0
    <3>2. files' = [files EXCEPT ![i] = @ \o p]
      BY <2>1
    <3>3. \A k \in 1 .. Len(p) : \A n \in Lines : p[k] = Rest(n) => k = Len(p) /\ n = m
      BY <1>1
    <3> QED
      BY <2>4, <3>1, <3>2, <3>3, EndsAppended
  <2>6. m \in Lines => ~Settled(m) /\ Settled(m)'
    BY <1>1
  <2>7. Adds(i, K, m)
    BY <2>1, <2>3, <2>5, <2>6 DEF Adds
  <2> QED
    BY <2>7
<1>2. CASE WriteLine(w)
  <2>1. PICK m \in Lines : m = begun + 1
    BY <1>0, <1>2 DEF WriteLine, Lines
  <2>2. Start(m) \in Piece /\ Rest(m) \in Piece
    BY DEF Piece, Start, Rest
  <2>3. PICK p \in Seq(Piece) : p = <<Start(m), Rest(m)>>
    <3>1. <<Start(m), Rest(m)>> \in Seq(Piece)
      BY <2>2
    <3> QED
      BY <3>1
  <2>4. Len(p) = 2 /\ p[1] = Start(m) /\ p[2] = Rest(m)
    BY <2>3
  <2>5. AppendTo(w, p) /\ begun' = begun + 1 /\ half' = half
    BY <1>2, <2>1, <2>3 DEF WriteLine
  <2>6. ~Settled(m)
    BY <1>0, <2>1 DEF Settled
  <2>7. Settled(m)'
    <3>1. ASSUME NEW v \in Writers
          PROVE  half[v] # m
      <4>1. half[v] <= begun
        BY DEF HalfInv
      <4> QED
        BY <1>0, <2>1, <4>1
    <3> QED
      BY <1>0, <2>1, <2>5, <3>1 DEF Settled
  <2>8. \A k \in 1 .. Len(p) : \A n \in Lines : p[k] = Rest(n) => k = Len(p) /\ n = m
    BY <2>4, StartIsNoRest
  <2>9. m \in Nat
    BY <1>0
  <2> QED
    BY <1>1, <2>5, <2>6, <2>7, <2>8, <2>9
<1>3. CASE WriteStart(w)
  <2>1. PICK m \in Lines : m = begun + 1
    BY <1>0, <1>3 DEF WriteStart, Lines
  <2>2. Start(m) \in Piece
    BY DEF Piece, Start
  <2>3. PICK p \in Seq(Piece) : p = <<Start(m)>>
    <3>1. <<Start(m)>> \in Seq(Piece)
      BY <2>2
    <3> QED
      BY <3>1
  <2>4. Len(p) = 1 /\ p[1] = Start(m)
    BY <2>3
  <2>5. AppendTo(w, p)
    BY <1>3, <2>1, <2>3 DEF WriteStart
  <2>6. \A k \in 1 .. Len(p) : \A n \in Lines : p[k] = Rest(n) => k = Len(p) /\ n = 0
    BY <2>4, StartIsNoRest
  <2>7. 0 \in Nat /\ 0 \notin Lines
    BY <1>0
  <2> QED
    BY <1>1, <2>5, <2>6, <2>7
<1>4. CASE WriteRest(w)
  <2>1. PICK m \in Lines : m = half[w]
    BY <1>0, <1>4 DEF WriteRest
  <2>2. Rest(m) \in Piece
    BY DEF Piece, Rest
  <2>3. PICK p \in Seq(Piece) : p = <<Rest(m)>>
    <3>1. <<Rest(m)>> \in Seq(Piece)
      BY <2>2
    <3> QED
      BY <3>1
  <2>4. Len(p) = 1 /\ p[1] = Rest(m)
    BY <2>3
  <2>5. AppendTo(w, p) /\ half' = [half EXCEPT ![w] = 0] /\ begun' = begun
    BY <1>4, <2>1, <2>3 DEF WriteRest
  <2>6. ~Settled(m)
    BY <2>1 DEF Settled
  <2>7. Settled(m)'
    <3>1. m <= begun /\ m # 0
      BY <1>0, <2>1 DEF HalfInv
    <3>2. \A v \in Writers : half[v] = m => v = w
      BY <2>1, <3>1 DEF HalfInv
    <3>3. \A v \in Writers : half'[v] = IF v = w THEN 0 ELSE half[v]
      BY <1>0, <2>5
    <3> QED
      BY <2>5, <3>1, <3>2, <3>3 DEF Settled
  <2>8. \A k \in 1 .. Len(p) : \A n \in Lines : p[k] = Rest(n) => k = Len(p) /\ n = m
    BY <2>4, StartIsNoRest
  <2>9. m \in Nat
    BY <1>0
  <2> QED
    BY <1>1, <2>5, <2>6, <2>7, <2>8, <2>9
<1> QED
  BY <1>2, <1>3, <1>4

LEMMA EndsOfWrite ==
  ASSUME EndsInv, pos \in Nat, NEW i \in Inodes, NEW m \in Nat, NEW K \in Nat, Adds(i, K, m),
         \A n \in Lines : Settled(n) => Settled(n)',
         UNCHANGED <<cur, pos, buf, ring>>
  PROVE  EndsInv'
<1>1. SUFFICES ASSUME NEW n \in Lines
               PROVE  /\ \A j \in Inodes, k \in Nat : EndAt(j, k, n)' =>
                           /\ Settled(n)'
                           /\ \A x \in Inodes, l \in Nat : EndAt(x, l, n)' => j = x /\ k = l
                           /\ \A l \in Nat : EndInBuf(l, n)' =>
                                j = cur' /\ k <= pos' /\ pos' <= Len(files'[cur'])
                      /\ \A k \in Nat : EndInBuf(k, n)' =>
                           Settled(n)' /\ \A l \in Nat : EndInBuf(l, n)' => k = l
                      /\ \A k \in Nat : InRing(k, n)' =>
                           /\ Settled(n)'
                           /\ \A l \in Nat : InRing(l, n)' => k = l
                           /\ \A l \in Nat : ~EndInBuf(l, n)'
                           /\ \A j \in Inodes, l \in Nat : ~EndAt(j, l, n)'
  BY DEF EndsInv
<1>2. /\ \A j \in Inodes, k \in Nat : EndAt(j, k, n) =>
           /\ Settled(n)
           /\ \A x \in Inodes, l \in Nat : EndAt(x, l, n) => j = x /\ k = l
           /\ \A l \in Nat : EndInBuf(l, n) => j = cur /\ k <= pos /\ pos <= Len(files[cur])
      /\ \A k \in Nat : EndInBuf(k, n) =>
           Settled(n) /\ \A l \in Nat : EndInBuf(l, n) => k = l
      /\ \A k \in Nat : InRing(k, n) =>
           /\ Settled(n)
           /\ \A l \in Nat : InRing(l, n) => k = l
           /\ \A l \in Nat : ~EndInBuf(l, n)
           /\ \A j \in Inodes, l \in Nat : ~EndAt(j, l, n)
  BY DEF EndsInv
<1>3. \A k \in Nat : EndInBuf(k, n)' <=> EndInBuf(k, n)
  BY DEF EndInBuf
<1>4. \A k \in Nat : InRing(k, n)' <=> InRing(k, n)
  BY DEF InRing
<1>5. /\ \A j \in Inodes, k \in Nat :
           EndAt(j, k, n)' => EndAt(j, k, n) \/ (j = i /\ k = K /\ n = m)
      /\ n = m => ~Settled(n) /\ Settled(n)'
      /\ \A j \in Inodes : /\ Len(files[j]) \in Nat /\ Len(files'[j]) \in Nat
                           /\ Len(files[j]) <= Len(files'[j])
  BY DEF Adds, NewEnd
<1>6. CASE n = m
  <2>1. /\ \A j \in Inodes, k \in Nat : ~EndAt(j, k, n)
        /\ \A k \in Nat : ~EndInBuf(k, n)
        /\ \A k \in Nat : ~InRing(k, n)
    BY <1>2, <1>5, <1>6
  <2>2. \A j \in Inodes, k \in Nat : EndAt(j, k, n)' => j = i /\ k = K
    BY <1>5, <2>1
  <2> QED
    BY <1>3, <1>4, <1>5, <1>6, <2>1, <2>2
<1>7. CASE n # m
  <2>1. \A j \in Inodes, k \in Nat : EndAt(j, k, n)' => EndAt(j, k, n)
    BY <1>5, <1>7
  <2>2. ASSUME NEW j \in Inodes, NEW k \in Nat, EndAt(j, k, n)'
        PROVE  \A l \in Nat : EndInBuf(l, n)' =>
                 j = cur' /\ k <= pos' /\ pos' <= Len(files'[cur'])
    <3>1. SUFFICES ASSUME NEW l \in Nat, EndInBuf(l, n)
                   PROVE  j = cur /\ k <= pos /\ pos <= Len(files'[cur])
      BY <1>3
    <3>2. j = cur /\ k <= pos /\ pos <= Len(files[j])
      BY <1>2, <2>1, <2>2, <3>1
    <3> QED
      BY <1>5, <3>2
  <2>3. Settled(n) => Settled(n)'
    OBVIOUS
  <2>4. \A j \in Inodes, k \in Nat : EndAt(j, k, n)' =>
          /\ Settled(n)'
          /\ \A x \in Inodes, l \in Nat : EndAt(x, l, n)' => j = x /\ k = l
    BY <1>2, <2>1, <2>3
  <2>5. \A k \in Nat : EndInBuf(k, n)' =>
          Settled(n)' /\ \A l \in Nat : EndInBuf(l, n)' => k = l
    BY <1>2, <1>3, <2>3
  <2>6. \A k \in Nat : InRing(k, n)' =>
          /\ Settled(n)'
          /\ \A l \in Nat : InRing(l, n)' => k = l
          /\ \A l \in Nat : ~EndInBuf(l, n)'
          /\ \A j \in Inodes, l \in Nat : ~EndAt(j, l, n)'
    BY <1>2, <1>3, <1>4, <2>1, <2>3
  <2> QED
    BY <2>2, <2>4, <2>5, <2>6
<1> QED
  BY <1>6, <1>7

\* What is read into the buffer stood behind the position.
LEMMA FilledFrom ==
  ASSUME TailTypeOK, cur # NoFile, Fill, NEW n \in Lines, NEW k \in Nat, EndInBuf(k, n)'
  PROVE  \/ EndInBuf(k, n)
         \/ \E l \in Nat : EndAt(cur, l, n) /\ pos < l /\ l <= pos' /\ l + Len(buf) = k + pos
<1>1. /\ buf' \in Seq(Piece) /\ pos' \in Nat
      /\ pos < pos' /\ pos' <= Len(files[cur])
      /\ Len(buf') = Len(buf) + (pos' - pos)
      /\ \A x \in 1 .. Len(buf) : buf'[x] = buf[x]
      /\ \A x \in 1 .. pos' - pos : buf'[Len(buf) + x] = files[cur][pos + x]
  BY FillReads
<1>2. pos \in Nat /\ buf \in Seq(Piece) /\ Len(buf) \in Nat /\ Len(files[cur]) \in Nat
  <2>1. buf \in Seq(Piece) /\ files[cur] \in Seq(Piece) /\ pos \in Nat
    BY DEF TailTypeOK
  <2> QED
    BY <2>1
<1>3. k \in 1 .. Len(buf') /\ buf'[k] = Rest(n)
  BY DEF EndInBuf
<1>4. CASE k <= Len(buf)
  BY <1>1, <1>2, <1>3, <1>4 DEF EndInBuf
<1>5. CASE k > Len(buf)
  <2>1. PICK x \in 1 .. pos' - pos : k = Len(buf) + x
    <3>1. k - Len(buf) \in 1 .. pos' - pos /\ k = Len(buf) + (k - Len(buf))
      BY <1>1, <1>2, <1>3, <1>5
    <3> QED
      BY <3>1
  <2>2. files[cur][pos + x] = Rest(n)
    BY <1>1, <1>3, <2>1
  <2>3. PICK l \in Nat : l = pos + x
    BY <1>2
  <2>4. l \in 1 .. Len(files[cur]) /\ pos < l /\ l <= pos' /\ l + Len(buf) = k + pos
    BY <1>1, <1>2, <2>1, <2>3
  <2>5. EndAt(cur, l, n)
    BY <2>2, <2>3, <2>4 DEF EndAt
  <2> QED
    BY <2>4, <2>5
<1> QED
  BY <1>2, <1>4, <1>5

LEMMA EndsOfFill ==
  ASSUME TailTypeOK, EndsInv, cur # NoFile, Fill, UNCHANGED ring
  PROVE  EndsInv'
<1>1. /\ UNCHANGED <<files, cur, ring, half, begun>>
      /\ pos \in Nat /\ pos' \in Nat /\ pos < pos' /\ pos' <= Len(files[cur])
      /\ cur \in Inodes /\ Len(buf) \in Nat
  <2>1. buf \in Seq(Piece) /\ cur \in Inodes /\ pos \in Nat
    BY DEF TailTypeOK
  <2> QED
    BY <2>1, FillReads DEF Fill, fileVars
<1>2. SUFFICES ASSUME NEW n \in Lines
               PROVE  /\ \A j \in Inodes, k \in Nat : EndAt(j, k, n) =>
                           /\ Settled(n)
                           /\ \A x \in Inodes, l \in Nat : EndAt(x, l, n) => j = x /\ k = l
                           /\ \A l \in Nat : EndInBuf(l, n)' =>
                                j = cur /\ k <= pos' /\ pos' <= Len(files[cur])
                      /\ \A k \in Nat : EndInBuf(k, n)' =>
                           Settled(n) /\ \A l \in Nat : EndInBuf(l, n)' => k = l
                      /\ \A k \in Nat : InRing(k, n) =>
                           /\ Settled(n)
                           /\ \A l \in Nat : InRing(l, n) => k = l
                           /\ \A l \in Nat : ~EndInBuf(l, n)'
                           /\ \A j \in Inodes, l \in Nat : ~EndAt(j, l, n)
  BY <1>1 DEF EndsInv, EndAt, InRing, Settled
<1>3. /\ \A j \in Inodes, k \in Nat : EndAt(j, k, n) =>
           /\ Settled(n)
           /\ \A x \in Inodes, l \in Nat : EndAt(x, l, n) => j = x /\ k = l
           /\ \A l \in Nat : EndInBuf(l, n) => j = cur /\ k <= pos /\ pos <= Len(files[cur])
      /\ \A k \in Nat : EndInBuf(k, n) =>
           Settled(n) /\ \A l \in Nat : EndInBuf(l, n) => k = l
      /\ \A k \in Nat : InRing(k, n) =>
           /\ Settled(n)
           /\ \A l \in Nat : InRing(l, n) => k = l
           /\ \A l \in Nat : ~EndInBuf(l, n)
           /\ \A j \in Inodes, l \in Nat : ~EndAt(j, l, n)
  BY DEF EndsInv
<1>4. \A k \in Nat : EndInBuf(k, n)' =>
        \/ EndInBuf(k, n)
        \/ \E l \in Nat : EndAt(cur, l, n) /\ pos < l /\ l <= pos' /\ l + Len(buf) = k + pos
  BY FilledFrom
<1>5. ASSUME NEW j \in Inodes, NEW k \in Nat, EndAt(j, k, n), NEW l \in Nat, EndInBuf(l, n)'
      PROVE  j = cur /\ k <= pos' /\ pos' <= Len(files[cur])
  <2>1. CASE EndInBuf(l, n)
    <3>1. j = cur /\ k <= pos
      BY <1>3, <1>5, <2>1
    <3> QED
      BY <1>1, <3>1
  <2>2. CASE \E y \in Nat : EndAt(cur, y, n) /\ pos < y /\ y <= pos'
    BY <1>1, <1>3, <1>5, <2>2
  <2> QED
    BY <1>4, <1>5, <2>1, <2>2
<1>6. ASSUME NEW k \in Nat, EndInBuf(k, n)', NEW l \in Nat, EndInBuf(l, n)'
      PROVE  Settled(n) /\ k = l
  <2>1. CASE EndInBuf(k, n) /\ EndInBuf(l, n)
    BY <1>3, <2>1
  <2>2. CASE EndInBuf(k, n) /\ ~EndInBuf(l, n)
    <3>1. PICK y \in Nat : EndAt(cur, y, n) /\ pos < y
      BY <1>4, <1>6, <2>2
    <3>2. y <= pos
      BY <1>1, <1>3, <2>2, <3>1
    <3> QED
      BY <1>1, <3>1, <3>2
  <2>3. CASE ~EndInBuf(k, n) /\ EndInBuf(l, n)
    <3>1. PICK y \in Nat : EndAt(cur, y, n) /\ pos < y
      BY <1>4, <1>6, <2>3
    <3>2. y <= pos
      BY <1>1, <1>3, <2>3, <3>1
    <3> QED
      BY <1>1, <3>1, <3>2
  <2>4. CASE ~EndInBuf(k, n) /\ ~EndInBuf(l, n)
    <3>1. PICK x \in Nat : EndAt(cur, x, n) /\ x + Len(buf) = k + pos
      BY <1>4, <1>6, <2>4
    <3>2. PICK y \in Nat : EndAt(cur, y, n) /\ y + Len(buf) = l + pos
      BY <1>4, <1>6, <2>4
    <3>3. x = y /\ Settled(n)
      BY <1>1, <1>3, <3>1, <3>2
    <3> QED
      BY <1>1, <3>1, <3>2, <3>3
  <2> QED
    BY <2>1, <2>2, <2>3, <2>4
<1>7. ASSUME NEW k \in Nat, InRing(k, n)
      PROVE  \A l \in Nat : ~EndInBuf(l, n)'
  BY <1>1, <1>3, <1>4, <1>7
<1> QED
  BY <1>3, <1>5, <1>6, <1>7

\* A record that goes to the ring has a number that no line has.
LEMMA EndsOfRing ==
  ASSUME TailTypeOK, ring \in Seq(Lines), HalfInv, EndsInv, WriteRing
  PROVE  EndsInv'
<1>1. /\ begun \in Nat /\ begun + 1 \in Lines /\ begun' = begun + 1 /\ begun < MaxLines
      /\ half \in [Writers -> Lines \cup {0}] /\ Lines \subseteq Nat \ {0}
      /\ UNCHANGED <<files, half, cur, pos, buf>>
  BY TailAssumption DEF WriteRing, TailTypeOK, Lines, readerVars
<1>2. \A w \in Writers : half[w] \in Nat /\ half[w] <= begun
  <2>1. \A w \in Writers : half[w] \in Lines \cup {0}
    BY <1>1
  <2>2. \A w \in Writers : half[w] \in Nat
    BY <2>1, TailAssumption DEF Lines
  <2> QED
    BY <2>2 DEF HalfInv
<1>3. PICK m \in Lines : m = begun + 1
  BY <1>1
<1>4. Settled(m)' /\ ~Settled(m) /\ \A n \in Lines : Settled(n) => Settled(n)'
  BY <1>1, <1>2, <1>3 DEF Settled
<1>5. PICK z \in Nat : z = Len(ring)
  OBVIOUS
<1>6. \A n \in Lines, k \in Nat : InRing(k, n)' => InRing(k, n) \/ (k = z + 1 /\ n = m)
  <2>1. /\ Len(ring') = z + 1 /\ ring'[z + 1] = m
        /\ \A k \in 1 .. z : ring'[k] = ring[k]
    <3>1. ring' = Append(ring, m)
      BY <1>3 DEF WriteRing
    <3> QED
      BY <1>5, <3>1, AppendProperties
  <2>2. \A k \in Nat : k \in 1 .. z + 1 => k \in 1 .. z \/ k = z + 1
    OBVIOUS
  <2> QED
    BY <1>5, <2>1, <2>2 DEF InRing
<1>7. SUFFICES ASSUME NEW n \in Lines
               PROVE  /\ \A j \in Inodes, k \in Nat : EndAt(j, k, n) =>
                           /\ Settled(n)'
                           /\ \A x \in Inodes, l \in Nat : EndAt(x, l, n) => j = x /\ k = l
                           /\ \A l \in Nat : EndInBuf(l, n) =>
                                j = cur /\ k <= pos /\ pos <= Len(files[cur])
                      /\ \A k \in Nat : EndInBuf(k, n) =>
                           Settled(n)' /\ \A l \in Nat : EndInBuf(l, n) => k = l
                      /\ \A k \in Nat : InRing(k, n)' =>
                           /\ Settled(n)'
                           /\ \A l \in Nat : InRing(l, n)' => k = l
                           /\ \A l \in Nat : ~EndInBuf(l, n)
                           /\ \A j \in Inodes, l \in Nat : ~EndAt(j, l, n)
  BY <1>1 DEF EndsInv, EndAt, EndInBuf
<1>8. /\ \A j \in Inodes, k \in Nat : EndAt(j, k, n) =>
           /\ Settled(n)
           /\ \A x \in Inodes, l \in Nat : EndAt(x, l, n) => j = x /\ k = l
           /\ \A l \in Nat : EndInBuf(l, n) => j = cur /\ k <= pos /\ pos <= Len(files[cur])
      /\ \A k \in Nat : EndInBuf(k, n) =>
           Settled(n) /\ \A l \in Nat : EndInBuf(l, n) => k = l
      /\ \A k \in Nat : InRing(k, n) =>
           /\ Settled(n)
           /\ \A l \in Nat : InRing(l, n) => k = l
           /\ \A l \in Nat : ~EndInBuf(l, n)
           /\ \A j \in Inodes, l \in Nat : ~EndAt(j, l, n)
  BY DEF EndsInv
<1>9. CASE n # m
  BY <1>4, <1>6, <1>8, <1>9
<1>10. CASE n = m
  <2>1. /\ \A j \in Inodes, k \in Nat : ~EndAt(j, k, n)
        /\ \A k \in Nat : ~EndInBuf(k, n) /\ ~InRing(k, n)
    BY <1>4, <1>8, <1>10
  <2> QED
    BY <1>4, <1>6, <1>10, <2>1
<1> QED
  BY <1>9, <1>10

\* The tail of the ring, and of the buffer.
LEMMA RingTail ==
  ASSUME ring \in Seq(Lines), ring # << >>, ring' = Tail(ring), NEW n, NEW k \in Nat, InRing(k, n)'
  PROVE  InRing(k + 1, n)
<1>1. PICK z \in Nat : z = Len(ring)
  OBVIOUS
<1>2. /\ Len(ring') = z - 1 /\ \A j \in 1 .. z - 1 : ring'[j] = ring[j + 1]
  BY <1>1, HeadTailProperties
<1>3. k \in 1 .. z - 1 /\ k + 1 \in 1 .. z /\ ring'[k] = n
  <2>1. k \in 1 .. z - 1 /\ ring'[k] = n
    BY <1>2 DEF InRing
  <2> QED
    BY <1>1, <2>1
<1> QED
  BY <1>1, <1>2, <1>3 DEF InRing

LEMMA BufTail ==
  ASSUME buf \in Seq(Piece), HasLine, Consume, NEW n, NEW k \in Nat, EndInBuf(k, n)'
  PROVE  LineEnd \in Nat /\ EndInBuf(k + LineEnd, n)
<1>1. PICK z \in Nat : z = Len(buf)
  OBVIOUS
<1>2. PICK e \in 1 .. z : e = LineEnd
  BY <1>1, LineEndIsFirst
<1>3. Len(buf') = z - e /\ \A j \in 1 .. Len(buf') : buf'[j] = buf[e + j]
  BY <1>1, <1>2, ConsumeTakesLine
<1>4. k \in 1 .. z - e /\ buf'[k] = Rest(n)
  BY <1>3 DEF EndInBuf
<1>5. k + e \in 1 .. z /\ k + e = e + k
  BY <1>4
<1>6. buf[e + k] = Rest(n)
  BY <1>3, <1>4
<1> QED
  BY <1>1, <1>2, <1>5, <1>6 DEF EndInBuf

\* The steps of the file and its reader, when nothing comes or goes by the ring.
LEMMA EndsOfTail ==
  ASSUME TailTypeOK, FileInv, HalfInv, EndsInv, TailStep, UNCHANGED ring
  PROVE  EndsInv'
<1>0. /\ pos \in Nat /\ buf \in Seq(Piece) /\ files \in [Inodes -> Seq(Piece)]
      /\ \A i \in Inodes : Len(files[i]) \in Nat
  BY DEF TailTypeOK
<1>1. \A n \in Lines : Settled(n) => Settled(n)'
  BY HalfKept
<1>2. \A n \in Lines, k \in Nat : InRing(k, n)' => InRing(k + 0, n)
  BY DEF InRing
<1>3. ASSUME UNCHANGED files, NEW d \in Nat,
             \A n \in Lines, k \in Nat :
               EndInBuf(k, n)' => EndInBuf(k + d, n) /\ UNCHANGED <<cur, pos>>
      PROVE  EndsInv'
  <2>1. \A n \in Lines, i \in Inodes, k \in Nat : EndAt(i, k, n)' => EndAt(i, k, n)
    BY <1>3 DEF EndAt
  <2>2. \A i \in Inodes, n \in Lines, k \in Nat : EndAt(i, k, n)' =>
          Len(files[i]) <= Len(files'[i]) /\ Len(files[i]) \in Nat /\ Len(files'[i]) \in Nat
    BY <1>0, <1>3
  <2> QED
    BY <1>0, <1>1, <1>2, <1>3, <2>1, <2>2, EndsShrink
<1>4. CASE UNCHANGED <<files, cur, pos, buf>>
  <2>1. \A n \in Lines, k \in Nat :
           EndInBuf(k, n)' => EndInBuf(k + 0, n) /\ UNCHANGED <<cur, pos>>
    BY <1>4 DEF EndInBuf
  <2> QED
    BY <1>3, <1>4, <2>1
<1>5. CASE UNCHANGED files /\ buf' = << >>
  <2>1. \A n \in Lines, k \in Nat : ~EndInBuf(k, n)'
    BY <1>5 DEF EndInBuf
  <2> QED
    BY <1>3, <1>5, <2>1
<1>6. CASE cur # NoFile /\ Fill
  BY <1>6, EndsOfFill
<1>7. CASE TakeRecord \/ TakeGarbage
  <2>1. HasLine /\ Consume /\ UNCHANGED <<files, cur, pos>>
    BY <1>7 DEF TakeRecord, TakeGarbage, fileVars
  <2>2. LineEnd \in Nat
    BY <1>0, <2>1, LineEndIsFirst
  <2>3. \A n \in Lines, k \in Nat :
           EndInBuf(k, n)' => EndInBuf(k + LineEnd, n) /\ UNCHANGED <<cur, pos>>
    BY <1>0, <2>1, BufTail
  <2> QED
    BY <1>3, <2>1, <2>2, <2>3
<1>8. CASE UNCHANGED readerVars /\ Truncate
  <2>1. /\ UNCHANGED <<cur, pos, buf>> /\ path # NoFile
        /\ files' = [files EXCEPT ![path] = << >>]
    BY <1>8 DEF readerVars, Truncate
  <2>2. ASSUME NEW n \in Lines, NEW i \in Inodes, NEW k \in Nat, EndAt(i, k, n)'
        PROVE  files'[i] = files[i]
    BY <1>0, <2>1, <2>2 DEF EndAt
  <2>3. \A n \in Lines, i \in Inodes, k \in Nat : EndAt(i, k, n)' => EndAt(i, k, n)
    BY <2>2 DEF EndAt
  <2>4. \A n \in Lines, k \in Nat :
           EndInBuf(k, n)' => EndInBuf(k + 0, n) /\ UNCHANGED <<cur, pos>>
    BY <2>1 DEF EndInBuf
  <2>5. \A i \in Inodes, n \in Lines, k \in Nat : EndAt(i, k, n)' =>
          Len(files[i]) <= Len(files'[i]) /\ Len(files[i]) \in Nat /\ Len(files'[i]) \in Nat
    BY <1>0, <2>2
  <2> QED
    BY <1>0, <1>1, <1>2, <2>3, <2>4, <2>5, EndsShrink
<1>9. CASE UNCHANGED readerVars
           /\ \E w \in Writers : WriteLine(w) \/ WriteStart(w) \/ WriteRest(w)
  <2>1. UNCHANGED <<cur, pos, buf, ring>>
    BY <1>9 DEF readerVars
  <2>2. PICK i \in Inodes, m \in Nat, K \in Nat : Adds(i, K, m)
    BY <1>9, WriteAdds
  <2> QED
    BY <1>0, <1>1, <2>1, <2>2, EndsOfWrite
<1>10. CASE UNCHANGED readerVars /\ (Rotate \/ NumberTaken \/ \E w \in Writers : Quit(w))
  BY <1>4, <1>10 DEF readerVars, Rotate, NumberTaken, Quit
<1>11. CASE UNCHANGED tailVars \/ UNCHANGED <<fileVars, readerVars, pastVars>>
  BY <1>4, <1>11 DEF tailVars, fileVars, readerVars
<1>12. CASE OpensPath \/ HitEnd \/ (Close /\ UNCHANGED fileVars)
  BY <1>5, <1>12 DEF OpensPath, OpenPath, OpenAt, HitEnd, Close, fileVars
<1> QED
  BY <1>6, <1>7, <1>8, <1>9, <1>10, <1>11, <1>12 DEF TailStep, Forgets, OutsideStep, WriterStep

LEMMA EndsKept ==
  ASSUME TypeOK, FileInv, HasFileInv, HalfInv, EndsInv, [Next]_vars
  PROVE  EndsInv'
<1>0. TailTypeOK /\ ring \in Seq(Lines) /\ TailStep
  BY NextTail DEF TypeOK
<1>1. CASE WriteRing
  BY <1>0, <1>1, EndsOfRing
<1>2. CASE DrainRing
  <2>1. ring # << >> /\ ring' = Tail(ring) /\ UNCHANGED <<files, cur, pos, buf, begun, half>>
    BY <1>2 DEF DrainRing, tailVars, fileVars, readerVars
  <2>2. pos \in Nat /\ \A i \in Inodes : Len(files[i]) \in Nat
    BY <1>0 DEF TailTypeOK
  <2>3. \A n \in Lines, k \in Nat : InRing(k, n)' => InRing(k + 1, n)
    BY <1>0, <2>1, RingTail
  <2>4. \A n \in Lines : Settled(n) => Settled(n)'
    BY <2>1 DEF Settled
  <2>5. \A n \in Lines, i \in Inodes, k \in Nat : EndAt(i, k, n)' => EndAt(i, k, n)
    BY <2>1 DEF EndAt
  <2>6. \A n \in Lines, k \in Nat :
           EndInBuf(k, n)' => EndInBuf(k + 0, n) /\ UNCHANGED <<cur, pos>>
    BY <2>1 DEF EndInBuf
  <2>7. \A i \in Inodes, n \in Lines, k \in Nat : EndAt(i, k, n)' =>
          Len(files[i]) <= Len(files'[i]) /\ Len(files[i]) \in Nat /\ Len(files'[i]) \in Nat
    BY <2>1, <2>2
  <2> QED
    BY <2>2, <2>3, <2>4, <2>5, <2>6, <2>7, EndsShrink
<1>3. CASE UNCHANGED ring
  BY <1>0, <1>3, EndsOfTail
<1>4. ~WriteRing /\ ~DrainRing => UNCHANGED ring
  <2>1. CASE Reader
    BY <2>1 DEF Reader, OpenFile, FillBuffer, ReadRecord, ReadGarbage, ReachEnd, PollAgain,
                PathMissing, Rotated, StopTail, StopClosed, StopRing
  <2>2. CASE Launch \/ Terminate \/ LastFlush \/ Exit \/ Crash \/ Tick \/ Forget \/ UNCHANGED vars
    BY <2>2 DEF Launch, Terminate, LastFlush, Exit, Crash, Vanish, Tick, Forget, vars
  <2>3. CASE (\E g \in Routines : Flush(g)) \/ (\E h \in Handlers : Post(h) \/ Handler(h))
    BY <2>3 DEF Flush, Post, Handler, CheckSeen, IngestNext, IngestDone, Reply, unserved
  <2>4. CASE (\E w \in Writers : Write(w)) \/ Disturb
    BY <2>4 DEF Write, Disturb
  <2> QED
    BY <2>1, <2>2, <2>3, <2>4, TroubleKeeps DEF Next
<1> QED
  BY <1>1, <1>2, <1>3, <1>4

-----------------------------------------------------------------------------
(* What the reader can still come to.                                      *)

\* A writer that ends no settled line brings none back.
LEMMA ToComeOfWrite ==
  ASSUME TailTypeOK, FileInv, NEW n \in Lines, Settled(n),
         NEW i \in Inodes, NEW m \in Nat, NEW K \in Nat, Adds(i, K, m),
         UNCHANGED <<cur, pos, buf, ring, rpc, saved>>, HasFileInv, ToCome(n)'
  PROVE  ToCome(n)
<1>0. /\ files \in [Inodes -> Seq(Piece)] /\ path \in Inodes \cup {NoFile} /\ pos \in Nat
      /\ saved.off \in Nat /\ saved.ino \in Inodes \cup {NoFile}
      /\ cur \in Inodes \cup {NoFile}
  BY DEF TailTypeOK, Saved
<1>1. \A j \in Inodes, k \in Nat : EndAt(j, k, n)' => EndAt(j, k, n)
  BY DEF Adds, NewEnd
<1>2. \A j \in Inodes : /\ Len(files[j]) \in Nat /\ Len(files'[j]) \in Nat
                        /\ Len(files[j]) <= Len(files'[j])
  BY DEF Adds
<1>3. CASE \E k \in Nat : InRing(k, n)'
  BY <1>3 DEF InRing, ToCome
<1>4. CASE InFile /\ \E k \in Nat : EndInBuf(k, n)'
  BY <1>4 DEF EndInBuf, ToCome
<1>5. CASE InFile /\ \E k \in Nat : EndAt(cur, k, n)' /\ (k > pos \/ pos > Len(files'[cur]))
  <2>1. cur \in Inodes
    BY <1>0, <1>5 DEF InFile, HasFileInv
  <2>2. PICK k \in Nat : EndAt(cur, k, n)' /\ (k > pos \/ pos > Len(files'[cur]))
    BY <1>5
  <2>3. EndAt(cur, k, n)' => EndAt(cur, k, n)
    BY <1>1, <2>1
  <2>4. k > pos \/ pos > Len(files[cur])
    BY <1>0, <1>2, <2>1, <2>2
  <2> QED
    BY <1>5, <2>2, <2>3, <2>4 DEF ToCome
<1>6. CASE InFile /\ \E j \in Inodes, k \in Nat : j > cur /\ EndAt(j, k, n)'
  BY <1>1, <1>6 DEF ToCome
<1>7. CASE /\ ~InFile /\ path' # NoFile
           /\ \E k \in Nat : (EndAt(path, k, n) /\ k > Resume(path))'
  <2>1. PICK p \in Inodes : p = path'
    <3>1. UNCHANGED path \/ path' = i
      BY DEF Adds
    <3> QED
      BY <1>0, <1>7, <3>1
  <2>2. PICK k \in Nat : EndAt(p, k, n)' /\ k > Resume(p)'
    <3>1. PICK k \in Nat : (EndAt(path, k, n) /\ k > Resume(path))'
      BY <1>7
    <3>2. EndAt(p, k, n)' /\ k > Resume(p)'
      BY <2>1, <3>1 DEF EndAt, Resume
    <3> QED
      BY <3>2
  <2>3. EndAt(p, k, n)
    BY <1>1, <2>2
  <2>4. CASE path = p
    <3>1. Resume(p)' >= Resume(p) /\ Resume(p) \in Nat /\ Resume(p)' \in Nat
      BY <1>0, <1>2 DEF Resume
    <3>2. k > Resume(p)
      BY <2>2, <3>1
    <3> QED
      BY <1>7, <2>1, <2>3, <2>4, <3>2 DEF ToCome
  <2>5. CASE path # p
    <3>1. p > made
      BY <2>1, <2>5 DEF Adds
    <3>2. files[p] = << >>
      BY <3>1 DEF FileInv
    <3> QED
      BY <2>3, <3>2 DEF EndAt
  <2> QED
    BY <2>4, <2>5
<1>8. \/ \E k \in Nat : InRing(k, n)'
      \/ InFile /\ \E k \in Nat : EndInBuf(k, n)'
      \/ InFile /\ \E k \in Nat : EndAt(cur, k, n)' /\ (k > pos \/ pos > Len(files'[cur]))
      \/ InFile /\ \E j \in Inodes, k \in Nat : j > cur /\ EndAt(j, k, n)'
      \/ /\ ~InFile /\ path' # NoFile
         /\ \E k \in Nat : (EndAt(path, k, n) /\ k > Resume(path))'
  <2>1. UNCHANGED <<cur, pos>> /\ (InFile' <=> InFile)
    BY DEF InFile
  <2> QED
    BY <2>1 DEF ToCome
<1> QED
  BY <1>3, <1>4, <1>5, <1>6, <1>7, <1>8

\* The reader comes to nothing that it could not come to before.
LEMMA ToComeOfReader ==
  ASSUME TypeOK, FileInv, HasFileInv, NEW n \in Lines, Reader, ToCome(n)'
  PROVE  ToCome(n)
<1>0. /\ TailTypeOK /\ ring \in Seq(Lines) /\ buf \in Seq(Piece) /\ pos \in Nat
      /\ files \in [Inodes -> Seq(Piece)] /\ path \in Inodes \cup {NoFile}
      /\ cur \in Inodes \cup {NoFile} /\ saved.off \in Nat
      /\ Inodes \subseteq Nat \ {0} /\ NoFile = 0
  <2>1. TailTypeOK /\ ring \in Seq(Lines)
    BY DEF TypeOK
  <2>2. saved.off \in Nat
    BY <2>1 DEF TailTypeOK, Saved
  <2>3. Inodes \subseteq Nat \ {0} /\ NoFile = 0
    BY TailAssumption DEF Inodes, NoFile
  <2> QED
    BY <2>1, <2>2, <2>3 DEF TailTypeOK
<1>1. \A i \in Inodes : Len(files[i]) \in Nat
  BY <1>0
<1>2. /\ path \in {NoFile, made} /\ cur <= made /\ made \in Nat
      /\ \A i \in Inodes : i > made => files[i] = << >>
  BY <1>0, TailAssumption DEF FileInv, TailTypeOK
<1>3. \A i \in Inodes, k \in Nat : i > made => ~EndAt(i, k, n)
  BY <1>2 DEF EndAt
<1>4. CASE OpenFile
  <2>1. /\ UNCHANGED <<files, path, ring>> /\ ~InFile /\ InFile' /\ path \in Inodes
        /\ cur' = path /\ pos' = Resume(path) /\ buf' = << >>
    BY <1>0, <1>4 DEF OpenFile, OpenPath, OpenAt, ReaderAt, Goto, InFile, fileVars
  <2>2. pos' \in Nat /\ pos' <= Len(files[path])
    BY <1>0, <1>1, <2>1 DEF Resume
  <2>3. CASE \E k \in Nat : InRing(k, n)'
    BY <2>1, <2>3 DEF InRing, ToCome
  <2>4. ~\E k \in Nat : EndInBuf(k, n)'
    BY <2>1 DEF EndInBuf
  <2>5. CASE \E k \in Nat : (EndAt(cur, k, n) /\ (k > pos \/ pos > Len(files[cur])))'
    <3>1. PICK k \in Nat : EndAt(path, k, n) /\ (k > pos' \/ pos' > Len(files[path]))
      BY <2>1, <2>5 DEF EndAt
    <3>2. k > Resume(path)
      BY <1>1, <2>1, <2>2, <3>1
    <3> QED
      BY <1>0, <2>1, <3>1, <3>2 DEF ToCome
  <2>6. CASE \E i \in Inodes, k \in Nat : (i > cur /\ EndAt(i, k, n))'
    <3>1. PICK i \in Inodes, k \in Nat : i > path /\ EndAt(i, k, n)
      BY <2>1, <2>6 DEF EndAt
    <3> QED
      BY <1>0, <1>2, <1>3, <2>1, <3>1
  <2> QED
    BY <2>1, <2>3, <2>4, <2>5, <2>6 DEF ToCome
<1>5. CASE FillBuffer
  <2>1. /\ Fill /\ InFile /\ InFile' /\ cur # NoFile /\ UNCHANGED <<files, cur, ring>>
    BY <1>5 DEF FillBuffer, Reading, ReaderAt, Goto, Fill, InFile, HasFileInv, fileVars
  <2>2. /\ cur \in Inodes /\ pos' \in Nat /\ pos < pos' /\ pos' <= Len(files[cur])
    BY <1>0, <2>1, FillReads
  <2>3. CASE \E k \in Nat : InRing(k, n)'
    BY <2>1, <2>3 DEF InRing, ToCome
  <2>4. CASE \E k \in Nat : EndInBuf(k, n)'
    <3>1. \/ \E k \in Nat : EndInBuf(k, n)
          \/ \E l \in Nat : EndAt(cur, l, n) /\ pos < l
      BY <1>0, <2>1, <2>4, FilledFrom
    <3>2. (\E l \in Nat : EndAt(cur, l, n) /\ pos < l) => \E l \in Nat : EndAt(cur, l, n) /\ l > pos
      BY <1>0
    <3> QED
      BY <2>1, <3>1, <3>2 DEF ToCome
  <2>5. CASE \E k \in Nat : (EndAt(cur, k, n) /\ (k > pos \/ pos > Len(files[cur])))'
    <3>1. PICK k \in Nat : EndAt(cur, k, n) /\ (k > pos' \/ pos' > Len(files[cur]))
      BY <2>1, <2>5 DEF EndAt
    <3>2. k > pos
      BY <1>0, <1>1, <2>2, <3>1
    <3> QED
      BY <2>1, <3>1, <3>2 DEF ToCome
  <2>6. CASE \E i \in Inodes, k \in Nat : (i > cur /\ EndAt(i, k, n))'
    BY <2>1, <2>6 DEF EndAt, ToCome
  <2> QED
    BY <2>1, <2>3, <2>4, <2>5, <2>6 DEF ToCome
<1>6. ASSUME InFile, UNCHANGED <<files, path, cur, pos>>,
             \A k \in Nat : InRing(k, n)' => InRing(k, n),
             \A k \in Nat : EndInBuf(k, n)' => \E l \in Nat : EndInBuf(l, n),
             InFile'
      PROVE  ToCome(n)
  <2>1. \A i \in Inodes, k \in Nat : EndAt(i, k, n)' <=> EndAt(i, k, n)
    BY <1>6 DEF EndAt
  <2>2. \A k \in Nat : EndAt(cur, k, n)' <=> EndAt(cur, k, n)
    BY <1>6 DEF EndAt
  <2> QED
    BY <1>6, <2>1, <2>2 DEF ToCome
<1>7. CASE ReadRecord \/ ReadGarbage
  <2>1. /\ InFile /\ InFile' /\ HasLine /\ Consume /\ UNCHANGED <<files, path, cur, pos, ring>>
    BY <1>7 DEF ReadRecord, ReadGarbage, Reading, ReaderAt, Goto, TakeRecord, TakeGarbage, InFile,
                fileVars
  <2>2. ASSUME NEW k \in Nat, EndInBuf(k, n)'
        PROVE  \E l \in Nat : EndInBuf(l, n)
    <3>1. LineEnd \in Nat /\ EndInBuf(k + LineEnd, n)
      BY <1>0, <2>1, <2>2, BufTail
    <3>2. k + LineEnd \in Nat
      BY <3>1
    <3> QED
      BY <3>1, <3>2
  <2> QED
    BY <1>6, <2>1, <2>2 DEF InRing
<1>8. CASE ReachEnd
  <2>1. /\ InFile /\ InFile' /\ buf' = << >> /\ UNCHANGED <<files, path, cur, pos, ring>>
    BY <1>8 DEF ReachEnd, Reading, ReaderAt, Goto, HitEnd, InFile, fileVars
  <2> QED
    BY <1>6, <2>1 DEF InRing, EndInBuf
<1>9. CASE PollAgain \/ PathMissing
  <2>1. /\ InFile /\ InFile' /\ UNCHANGED <<files, path, cur, pos, buf, ring>>
    BY <1>9 DEF PollAgain, PathMissing, ReaderAt, Goto, InFile, tailVars, fileVars, readerVars
  <2> QED
    BY <1>6, <2>1 DEF InRing, EndInBuf
<1>10. CASE Rotated
  <2>1. /\ InFile /\ ~InFile' /\ path \notin {cur, NoFile} /\ UNCHANGED <<files, path, ring>>
    BY <1>10 DEF Rotated, ReaderAt, Goto, InFile, fileVars
  <2>2. path \in Inodes /\ path > cur
    BY <1>0, <1>2, <2>1
  <2>3. CASE \E k \in Nat : InRing(k, n)'
    BY <2>1, <2>3 DEF InRing, ToCome
  <2>4. CASE \E k \in Nat : EndAt(path, k, n)'
    BY <2>1, <2>2, <2>4 DEF EndAt, ToCome
  <2> QED
    BY <2>1, <2>3, <2>4 DEF ToCome
<1>11. CASE StopTail
  <2>1. /\ InFile /\ ~InFile' /\ cur \in Inodes /\ UNCHANGED <<files, path, ring>>
        /\ Save \/ path = NoFile
    BY <1>0, <1>11 DEF StopTail, ReaderAt, Goto, InFile, HasFileInv, fileVars
  <2>2. CASE \E k \in Nat : InRing(k, n)'
    BY <2>1, <2>2 DEF InRing, ToCome
  <2>3. CASE path # NoFile /\ \E k \in Nat : (EndAt(path, k, n) /\ k > Resume(path))'
    <3>1. PICK k \in Nat : EndAt(path, k, n) /\ (k > Resume(path))'
      BY <2>1, <2>3 DEF EndAt
    <3>2. CASE path # cur
      <4>1. path > cur /\ path \in Inodes
        BY <1>0, <1>2, <2>3, <3>2
      <4> QED
        BY <2>1, <3>1, <4>1 DEF ToCome
    <3>3. CASE path = cur
      <4>1. saved'.ino = cur /\ saved'.off = pos
        BY <2>1, <2>3 DEF Save
      <4>2. Resume(path)' = IF pos <= Len(files[cur]) THEN pos ELSE 0
        BY <2>1, <3>3, <4>1 DEF Resume
      <4>3. k > pos \/ pos > Len(files[cur])
        BY <1>0, <1>1, <2>1, <3>1, <4>2
      <4> QED
        BY <2>1, <3>1, <3>3, <4>3 DEF ToCome
    <3> QED
      BY <3>2, <3>3
  <2> QED
    BY <2>1, <2>2, <2>3 DEF ToCome
<1>12. CASE StopClosed \/ StopRing
  <2>1. ~InFile /\ ~InFile' /\ UNCHANGED <<files, path, saved, ring>>
    BY <1>12 DEF StopClosed, StopRing, ReaderAt, Goto, InFile, tailVars, fileVars
  <2> QED
    BY <2>1 DEF ToCome, InRing, EndAt, Resume
<1>13. CASE DrainRing
  <2>1. /\ ~InFile /\ ~InFile' /\ UNCHANGED <<files, path, saved>>
        /\ ring # << >> /\ ring' = Tail(ring)
    BY <1>13 DEF DrainRing, ReaderAt, InFile, tailVars, fileVars
  <2>2. CASE \E k \in Nat : InRing(k, n)'
    <3>1. PICK k \in Nat : InRing(k, n)'
      BY <2>2
    <3>2. InRing(k + 1, n) /\ k + 1 \in Nat
      BY <1>0, <2>1, <3>1, RingTail
    <3> QED
      BY <3>2 DEF ToCome
  <2> QED
    BY <2>1, <2>2 DEF ToCome, EndAt, Resume
<1> QED
  BY <1>4, <1>5, <1>7, <1>8, <1>9, <1>10, <1>11, <1>12, <1>13 DEF Reader

\* Nor does any other step but an upset make it come to a line that nobody writes any more.
LEMMA ToComeKept ==
  ASSUME TypeOK, FileInv, HasFileInv, HalfInv, PhaseInv, [Next]_vars, ~Crash, ~Trouble,
         NEW n \in Lines, Settled(n), ToCome(n)'
  PROVE  ToCome(n)
<1>0. /\ TailTypeOK /\ ring \in Seq(Lines) /\ begun \in Nat
      /\ files \in [Inodes -> Seq(Piece)] /\ path \in Inodes \cup {NoFile}
  BY TailAssumption DEF TypeOK, TailTypeOK
<1>1. ASSUME UNCHANGED <<files, path, cur, pos, buf, ring, saved>>, InFile' <=> InFile
      PROVE  ToCome(n)
  BY <1>1 DEF ToCome, InRing, EndInBuf, EndAt, Resume
<1>2. CASE Reader
  BY <1>2, ToComeOfReader
<1>3. CASE Launch
  <2>1. ~InFile /\ ~InFile' /\ UNCHANGED tailVars /\ UNCHANGED ring
    <3>1. rpc' \in {"ring", "open"}
      BY <1>3, DaemonAssumption DEF Launch, FirstStep
    <3> QED
      BY <1>3, <3>1 DEF Launch, PhaseInv, InFile
  <2> QED
    BY <1>1, <2>1 DEF tailVars, fileVars, readerVars
<1>4. CASE Exit
  <2>1. ~InFile /\ ~InFile' /\ UNCHANGED <<files, path, saved, ring>>
    BY <1>4 DEF Exit, Vanish, Goto, PhaseInv, InFile, fileVars
  <2> QED
    BY <2>1 DEF ToCome, InRing, EndAt, Resume
<1>5. CASE Terminate \/ LastFlush \/ Tick \/ Forget \/ UNCHANGED vars
  <2>1. UNCHANGED tailVars /\ UNCHANGED rpc /\ UNCHANGED ring
    BY <1>5 DEF Terminate, LastFlush, Tick, Forget, vars
  <2> QED
    BY <1>1, <2>1 DEF InFile, tailVars, fileVars, readerVars
<1>6. CASE (\E g \in Routines : Flush(g)) \/ (\E h \in Handlers : Post(h) \/ Handler(h))
  <2>1. UNCHANGED tailVars /\ UNCHANGED rpc /\ UNCHANGED ring
    BY <1>6 DEF Flush, Post, Handler, CheckSeen, IngestNext, IngestDone, Reply, unserved
  <2> QED
    BY <1>1, <2>1 DEF InFile, tailVars, fileVars, readerVars
<1>7. CASE \E w \in Writers : Write(w) /\ (WriteLine(w) \/ WriteStart(w) \/ WriteRest(w))
  <2>1. PICK w \in Writers : Write(w) /\ (WriteLine(w) \/ WriteStart(w) \/ WriteRest(w))
    BY <1>7
  <2>2. PICK i \in Inodes, m \in Nat, K \in Nat : Adds(i, K, m)
    BY <1>0, <2>1, WriteAdds
  <2>3. UNCHANGED <<cur, pos, buf, ring, rpc, saved>>
    BY <2>1 DEF Write, readerVars, outside
  <2> QED
    BY <1>0, <2>2, <2>3, ToComeOfWrite
<1>8. CASE \E w \in Writers : Write(w) /\ Quit(w)
  <2>1. UNCHANGED <<files, path, cur, pos, buf, ring, saved, rpc>>
    BY <1>8 DEF Write, Quit, readerVars, outside
  <2> QED
    BY <1>1, <2>1 DEF InFile
<1>9. CASE Disturb
  <2>1. UNCHANGED <<cur, pos, buf, ring, saved, rpc>>
    BY <1>9 DEF Disturb, readerVars, outside
  <2>2. CASE Rotate
    <3>1. UNCHANGED files /\ path' = NoFile
      BY <2>2 DEF Rotate
    <3> QED
      BY <2>1, <3>1 DEF ToCome, InRing, EndInBuf, EndAt, InFile
  <2>3. CASE Truncate
    <3>1. UNCHANGED path /\ path \in Inodes /\ files' = [files EXCEPT ![path] = << >>]
      BY <1>0, <2>3 DEF Truncate
    <3>2. files'[path] = << >>
      BY <1>0, <3>1
    <3>3. \A i : i # path => files'[i] = files[i]
      BY <1>0, <3>1
    <3>4. \A k : ~EndAt(path, k, n)'
      BY <3>1, <3>2 DEF EndAt
    <3>5. \A i, k : EndAt(i, k, n)' => i # path /\ EndAt(i, k, n)
      BY <3>2, <3>3 DEF EndAt
    <3>6. \A k : EndAt(cur, k, n)' => cur # path /\ EndAt(cur, k, n)
      BY <2>1, <3>2, <3>3 DEF EndAt
    <3> QED
      BY <2>1, <3>3, <3>4, <3>5, <3>6 DEF ToCome, InRing, EndInBuf, InFile
  <2> QED
    BY <1>9, <2>2, <2>3 DEF Disturb
<1>10. CASE WriteRing
  <2>1. /\ UNCHANGED <<files, path, cur, pos, buf, saved, rpc>>
        /\ begun' = begun + 1 /\ ring' = Append(ring, begun + 1) /\ begun + 1 \in Lines
    BY <1>0, <1>10, TailAssumption DEF WriteRing, readerVars, outside, Lines
  <2>2. CASE \E k \in Nat : InRing(k, n)'
    <3>1. PICK k \in Nat : k \in 1 .. Len(ring') /\ ring'[k] = n
      BY <2>2 DEF InRing
    <3>2. PICK z \in Nat : z = Len(ring)
      BY <1>0
    <3>3. /\ Len(ring') = z + 1 /\ ring'[z + 1] = begun + 1
          /\ \A j \in 1 .. z : ring'[j] = ring[j]
      BY <1>0, <2>1, <3>2, AppendProperties
    <3>4. k # z + 1
      BY <1>0, <3>1, <3>3 DEF Settled
    <3>5. k \in 1 .. z
      BY <3>1, <3>2, <3>3, <3>4
    <3> QED
      BY <3>1, <3>2, <3>3, <3>5 DEF ToCome, InRing
  <2>3. CASE ~\E k \in Nat : InRing(k, n)'
    BY <2>1, <2>3 DEF ToCome, EndInBuf, EndAt, Resume, InFile
  <2> QED
    BY <2>2, <2>3
<1> QED
  BY <1>2, <1>3, <1>4, <1>5, <1>6, <1>7, <1>8, <1>9, <1>10 DEF Next, Write

\* Only the reader takes lines.
LEMMA LineTaken ==
  ASSUME TypeOK, Conserved, [Next]_vars, NEW n \in Lines
  PROVE  \/ took'[n] <= took[n] /\ took'[n] \in Nat
         \/ ReadRecord /\ n = buf[1].line /\ took'[n] = took[n] + 1
         \/ DrainRing /\ n = Head(ring) /\ took'[n] = took[n] + 1
<1>0. /\ BatchTypeOK /\ n \in Traces /\ took \in [Traces -> Nat] /\ took[n] \in Nat
      /\ n \notin Posted
  BY LinesNotPosted DEF TypeOK, BatchTypeOK
<1>1. CASE UNCHANGED took
  BY <1>0, <1>1
<1>2. CASE Exit \/ Crash
  BY <1>0, <1>2, VanishLoses DEF Exit, Crash
<1>3. CASE ReadRecord
  BY <1>0, <1>3 DEF ReadRecord, Add
<1>4. CASE DrainRing
  BY <1>0, <1>4 DEF DrainRing, Add
<1>5. CASE \E h \in Handlers : IngestNext(h)
  <2>1. PICK h \in Handlers : IngestNext(h)
    BY <1>5
  <2>2. next[h] \in Posted /\ took' = [took EXCEPT ![next[h]] = @ + 1]
    BY <2>1 DEF IngestNext, Add
  <2> QED
    BY <1>0, <2>2
<1>6. CASE OpenFile \/ FillBuffer \/ ReadGarbage \/ ReachEnd \/ PollAgain \/ PathMissing
  BY <1>1, <1>6 DEF OpenFile, FillBuffer, ReadGarbage, ReachEnd, PollAgain, PathMissing, historyVars
<1>7. CASE Rotated \/ StopTail \/ StopClosed \/ StopRing
  BY <1>1, <1>7 DEF Rotated, StopTail, StopClosed, StopRing, historyVars
<1>8. CASE Launch \/ Terminate \/ LastFlush \/ Tick \/ Forget \/ UNCHANGED vars
  BY <1>1, <1>8 DEF Launch, Terminate, LastFlush, Tick, Forget, vars, historyVars
<1>9. CASE \/ \E g \in Routines : Flush(g)
           \/ \E h \in Handlers : Post(h) \/ CheckSeen(h) \/ IngestDone(h) \/ Reply(h)
  BY <1>1, <1>9 DEF Flush, Post, CheckSeen, IngestDone, Reply, historyVars
<1>10. CASE (\E w \in Writers : Write(w)) \/ Disturb \/ WriteRing
  BY <1>1, <1>10 DEF Write, Disturb, WriteRing, outside, historyVars
<1> QED
  BY <1>1, <1>2, <1>3, <1>4, <1>5, <1>6, <1>7, <1>8, <1>9, <1>10, TroubleKeeps
     DEF Next, Reader, Handler

\* A record that is taken from the buffer was still to come, and is gone.
LEMMA RecordIsGone ==
  ASSUME TypeOK, FileInv, HasFileInv, EndsInv, NEW n \in Lines, ReadRecord, n = buf[1].line
  PROVE  Settled(n) /\ ToCome(n) /\ ~ToCome(n)'
<1>1. /\ InFile /\ InFile' /\ HasLine /\ IsRecord /\ Consume
      /\ cur \in Inodes /\ buf \in Seq(Piece) /\ pos \in Nat /\ Len(files[cur]) \in Nat
      /\ UNCHANGED <<files, path, cur, pos, ring>>
  <2>1. /\ InFile /\ InFile' /\ HasLine /\ IsRecord /\ Consume
        /\ UNCHANGED <<files, path, cur, pos, ring>>
    BY DEF ReadRecord, Reading, ReaderAt, Goto, TakeRecord, InFile, fileVars
  <2>2. TailTypeOK /\ cur # NoFile
    BY <2>1 DEF TypeOK, InFile, HasFileInv
  <2>3. /\ cur \in Inodes /\ buf \in Seq(Piece) /\ pos \in Nat
        /\ files \in [Inodes -> Seq(Piece)]
    BY <2>2 DEF TailTypeOK
  <2> QED
    BY <2>1, <2>3
<1>2. /\ LineEnd \in 1 .. Len(buf) /\ buf[LineEnd].ends /\ LineEnd = 2
      /\ buf[1] = Start(buf[2].line)
  BY <1>1, LineEndIsFirst DEF IsRecord
<1>3. buf[2] = Rest(n)
  <2>1. 2 \in 1 .. Len(buf)
    BY <1>2
  <2>2. buf[2] \in Piece
    BY <1>1, <2>1
  <2>3. buf[2].line = n
    BY <1>2 DEF Start
  <2> QED
    BY <1>2, <2>2, <2>3 DEF Piece, Rest
<1>4. EndInBuf(2, n)
  BY <1>2, <1>3 DEF EndInBuf
<1>5. /\ Settled(n) /\ \A l \in Nat : EndInBuf(l, n) => l = 2
      /\ \A k \in Nat : ~InRing(k, n)
      /\ \A i \in Inodes, k \in Nat : EndAt(i, k, n) =>
           i = cur /\ k <= pos /\ pos <= Len(files[cur])
  BY <1>4 DEF EndsInv
<1>6. \A k \in Nat : ~InRing(k, n)'
  BY <1>1, <1>5 DEF InRing
<1>7. ASSUME NEW k \in Nat, EndInBuf(k, n)'
      PROVE  FALSE
  <2>1. EndInBuf(k + 2, n)
    BY <1>1, <1>2, <1>7, BufTail
  <2>2. k + 2 = 2 /\ k \in 1 .. Len(buf')
    BY <1>5, <1>7, <2>1 DEF EndInBuf
  <2> QED
    BY <2>2
<1>8. \A i \in Inodes, k \in Nat : EndAt(i, k, n)' =>
        i = cur /\ k <= pos /\ pos <= Len(files[cur])
  BY <1>1, <1>5 DEF EndAt
<1>9. \A k \in Nat : EndAt(cur, k, n)' => EndAt(cur, k, n)
  BY <1>1 DEF EndAt
<1>10. \A k \in Nat : EndAt(cur, k, n)' => ~(k > pos \/ pos > Len(files[cur]))'
  BY <1>1, <1>5, <1>9
<1>11. cur \in Nat /\ ~\E i \in Inodes, k \in Nat : (i > cur /\ EndAt(i, k, n))'
  BY <1>1, <1>8, TailAssumption DEF Inodes
<1>12. ToCome(n)
  BY <1>1, <1>4 DEF ToCome
<1>13. ~ToCome(n)'
  BY <1>1, <1>6, <1>7, <1>10, <1>11 DEF ToCome
<1> QED
  BY <1>5, <1>12, <1>13

LEMMA DrainedIsGone ==
  ASSUME TypeOK, EndsInv, NEW n \in Lines, DrainRing, n = Head(ring)
  PROVE  Settled(n) /\ ToCome(n) /\ ~ToCome(n)'
<1>1. /\ ring \in Seq(Lines) /\ ring # << >> /\ ring' = Tail(ring)
      /\ UNCHANGED <<files, path, cur, pos, buf, saved>> /\ ~InFile /\ ~InFile'
  BY DEF DrainRing, ReaderAt, InFile, TypeOK, tailVars, fileVars, readerVars
<1>2. InRing(1, n)
  BY <1>1 DEF InRing
<1>3. /\ Settled(n) /\ \A l \in Nat : InRing(l, n) => l = 1
      /\ \A k \in Nat : ~EndInBuf(k, n)
      /\ \A i \in Inodes, k \in Nat : ~EndAt(i, k, n)
  BY <1>2 DEF EndsInv
<1>4. ASSUME NEW k \in Nat, InRing(k, n)'
      PROVE  FALSE
  <2>1. InRing(k + 1, n)
    BY <1>1, <1>4, RingTail
  <2>2. k + 1 = 1 /\ k \in 1 .. Len(ring')
    BY <1>3, <1>4, <2>1 DEF InRing
  <2> QED
    BY <2>2
<1>5. path \in Inodes \cup {NoFile} /\ \A k \in Nat : path # NoFile => ~EndAt(path, k, n)'
  BY <1>1, <1>3 DEF EndAt, TypeOK, TailTypeOK
<1> QED
  BY <1>1, <1>2, <1>3, <1>4, <1>5 DEF ToCome

LEMMA LinesKept ==
  ASSUME TypeOK, FileInv, HasFileInv, HalfInv, EndsInv, PhaseInv, Conserved, LinesInv, [Next]_vars
  PROVE  LinesInv'
<1>0. /\ TailTypeOK /\ TailStep /\ upsets \in Nat
      /\ took \in [Traces -> Nat] /\ Lines \subseteq Traces
  BY NextTail, DaemonAssumption DEF TypeOK, Traces
<1>1. SUFFICES ASSUME upsets' = 0, NEW n \in Lines
               PROVE  took'[n] <= 1 /\ (took'[n] # 0 => Settled(n)' /\ ~ToCome(n)')
  BY DEF LinesInv
<1>2. upsets = 0 /\ ~Crash /\ ~Trouble
  <2>1. Crash \/ Trouble => upsets' = upsets + 1
    BY TroubleKeeps DEF Crash, Upset
  <2>2. ~Crash /\ ~Trouble => upsets' = upsets
    <3>1. CASE Reader
      BY <3>1 DEF Reader, OpenFile, FillBuffer, ReadRecord, ReadGarbage, ReachEnd, PollAgain,
                  PathMissing, Rotated, StopTail, StopClosed, StopRing, DrainRing, Add, historyVars
    <3>2. CASE Launch \/ Terminate \/ LastFlush \/ Exit \/ Tick \/ Forget \/ UNCHANGED vars
      BY <3>2 DEF Launch, Terminate, LastFlush, Exit, Tick, Forget, vars, historyVars
    <3>3. CASE (\E g \in Routines : Flush(g)) \/ (\E h \in Handlers : Post(h) \/ Handler(h))
      BY <3>3 DEF Flush, Post, Handler, CheckSeen, IngestNext, IngestDone, Reply, Add, historyVars
    <3>4. CASE (\E w \in Writers : Write(w)) \/ Disturb \/ WriteRing
      BY <3>4 DEF Write, Disturb, WriteRing, outside, historyVars
    <3> QED
      BY <3>1, <3>2, <3>3, <3>4 DEF Next
  <2> QED
    BY <1>0, <1>1, <2>1, <2>2
<1>3. /\ took[n] \in Nat /\ took[n] <= 1
      /\ took[n] # 0 => Settled(n) /\ ~ToCome(n)
  BY <1>0, <1>2 DEF LinesInv
<1>4. Settled(n) => Settled(n)'
  BY <1>0, HalfKept
<1>5. CASE took'[n] <= took[n] /\ took'[n] \in Nat
  <2>1. took'[n] # 0 => took[n] # 0
    BY <1>3, <1>5
  <2>2. Settled(n) /\ ~ToCome(n) => ~ToCome(n)'
    BY <1>2, ToComeKept
  <2> QED
    BY <1>3, <1>4, <1>5, <2>1, <2>2
<1>6. CASE ReadRecord /\ n = buf[1].line /\ took'[n] = took[n] + 1
  <2>1. Settled(n) /\ ToCome(n) /\ ~ToCome(n)'
    BY <1>6, RecordIsGone
  <2> QED
    BY <1>3, <1>4, <1>6, <2>1
<1>7. CASE DrainRing /\ n = Head(ring) /\ took'[n] = took[n] + 1
  <2>1. Settled(n) /\ ToCome(n) /\ ~ToCome(n)'
    BY <1>7, DrainedIsGone
  <2> QED
    BY <1>3, <1>4, <1>7, <2>1
<1> QED
  BY <1>5, <1>6, <1>7, LineTaken

-----------------------------------------------------------------------------
(* The invariant, and what it says.                                        *)

LEMMA IInvInit == Init => IInv
<1> SUFFICES ASSUME Init
             PROVE  IInv
  OBVIOUS
<1>0. /\ MaxLines \in Nat /\ MaxFiles \in Nat \ {0} /\ MaxFaults \in Nat /\ MaxLives \in Nat \ {0}
      /\ MaxPosts \in Nat /\ PostSize \in Nat \ {0}
  BY TailAssumption, DaemonAssumption
<1>1. TypeOK /\ upsets <= faults
  <2>1. TailTypeOK
    BY <1>0 DEF Init, TailInit, TailTypeOK, Saved, NotSaved, NoFile, Inodes, Lines
  <2>2. BatchTypeOK
    BY DEF Init, BatchTypeOK
  <2>3. ProcTypeOK
    BY <1>0 DEF Init, ProcTypeOK
  <2>4. IngestTypeOK
    <3>1. MaxLines + 1 \in MaxLines + 1 .. MaxLines + PostSize + 1 /\ 0 \in 0 .. MaxPosts
      BY <1>0
    <3> QED
      BY <3>1 DEF Init, IngestTypeOK
  <2> QED
    BY <2>1, <2>2, <2>3, <2>4, TypeParts
<1>2. FlushInv
  BY DEF Init, FlushInv, Routines, Workers
<1>3. FileInv /\ HasFileInv
  BY <1>0 DEF Init, TailInit, FileInv, HasFileInv, NotSaved, NoFile, Inodes
<1>4. HalfInv
  BY <1>0 DEF Init, TailInit, HalfInv
<1>5. EndsInv
  <2>1. \A n, k : ~InRing(k, n) /\ ~EndInBuf(k, n) /\ \A i \in Inodes : ~EndAt(i, k, n)
    BY DEF Init, TailInit, InRing, EndInBuf, EndAt
  <2> QED
    BY <2>1 DEF EndsInv
<1>6. LinesInv
  BY DEF Init, LinesInv, Traces
<1>7. PostsInv
  BY <1>0 DEF Init, PostsInv, Traces
<1>8. Conserved
  <2>1. ASSUME NEW t \in Traces
        PROVE  took[t] = Count(batch, t) + Held(t) + db[t] + failed[t]
    <3>1. Count(batch, t) = 0
      BY CountEmpty DEF Init
    <3>2. Held(t) = 0
      <4>1. hold = [g \in Routines |-> << >>]
        BY DEF Init
      <4>2. Cardinality(Part(hold, Routines, t)) = 0
        BY <4>1, PartEmpty
      <4> QED
        BY <4>2 DEF Held, Part
    <3>3. took[t] = 0 /\ db[t] = 0 /\ failed[t] = 0
      BY DEF Init
    <3> QED
      BY <3>1, <3>2, <3>3
  <2> QED
    BY <2>1 DEF Conserved
<1>9. TextInv /\ HandsOnWhatItPassed
  BY DEF Init, TailInit, TextInv, HandsOnWhatItPassed
<1>10. SkipInv
  BY DEF Init, TailInit, SkipInv, NotSaved
<1> QED
  BY <1>1, <1>2, <1>3, <1>4, <1>5, <1>6, <1>7, <1>8, <1>9, <1>10 DEF IInv

LEMMA IInvKept == IInv /\ [Next]_vars => IInv'
<1> SUFFICES ASSUME IInv, [Next]_vars
             PROVE  IInv'
  OBVIOUS
<1>1. /\ TypeOK /\ TailTypeOK /\ ProcTypeOK /\ IngestTypeOK /\ BatchTypeOK
      /\ FlushInv /\ StoringInv /\ PhaseInv
  BY TypeParts, FlushParts DEF IInv
<1>2. /\ FileInv /\ HasFileInv /\ HalfInv /\ EndsInv /\ LinesInv /\ PostsInv /\ Conserved
      /\ TextInv /\ HandsOnWhatItPassed /\ SkipInv
  BY DEF IInv
<1>3. TailStep /\ BatchStep
  BY <1>1, <1>2, NextTail, NextBatch
<1>4. TailTypeOK' /\ ProcTypeOK' /\ IngestTypeOK' /\ BatchTypeOK'
  BY <1>1, <1>2, <1>3, TailTypes, ProcTypes, IngestTypes, BatchTypes
<1>5. (TypeOK /\ upsets <= faults)'
  BY <1>4, TypeParts
<1>6. FlushInv'
  <2>1. StoringInv' /\ PhaseInv'
    BY <1>1, <1>3, StoringKept, PhaseKept
  <2> QED
    BY <2>1 DEF FlushInv, StoringInv, PhaseInv
<1>7. FileInv' /\ HasFileInv' /\ HalfInv' /\ EndsInv'
  BY <1>1, <1>2, <1>3, FileKept, HasFileKept, HalfKept, EndsKept
<1>8. LinesInv'
  BY <1>1, <1>2, LinesKept
<1>9. PostsInv' /\ Conserved'
  BY <1>1, <1>2, <1>3, PostsKept, ConservedKept
<1>10. TextInv' /\ HandsOnWhatItPassed'
  BY <1>1, <1>2, <1>3, <1>4, TextKept
<1>11. SkipInv'
  BY <1>1, <1>2, <1>3, SkipKept
<1> QED
  BY <1>5, <1>6, <1>7, <1>8, <1>9, <1>10, <1>11 DEF IInv

LEMMA IInvAlways == Spec => []IInv
BY IInvInit, IInvKept, PTL DEF Spec

\* Type correctness of the collector's process, its goroutines, the file and its reader.
THEOREM TypeCorrect == Spec => []TypeOK
<1>1. IInv => TypeOK
  BY DEF IInv
<1> QED
  BY <1>1, IInvAlways, PTL

\* A process that stops in good order leaves in memory only what a request handler has added or
\* is storing, for all numbers of handlers and sizes of the batch (cmdServe).
THEOREM StopsClean == Spec => []StopLeavesOnlyHandlers
<1>1. IInv => StopLeavesOnlyHandlers
  <2> SUFFICES ASSUME IInv, phase = "final", flushing["main"] = "no"
               PROVE  /\ \A g \in Workers : hold[g] = << >>
                      /\ \A k \in 1 .. Len(batch) : batch[k] \in Posted
    BY DEF StopLeavesOnlyHandlers
  <2>1. \A g \in Workers : flushing[g] = "no" /\ g \in Routines
    BY DEF IInv, FlushInv, Workers, Routines
  <2> QED
    BY <2>1 DEF IInv, FlushInv
<1> QED
  BY <1>1, IInvAlways, PTL

\* A trace enters once and from then on is in one place: flushes that race for a batch neither
\* share nor lose it, no line is taken twice before a crash or a failed read or save of a file
\* whatever is rotated, truncated, resumed or read ahead, and no posted batch twice by one
\* process that remembers it
\* (addToBatch, flushBatch, saveState, loadState, batchDedup.Seen).
THEOREM TakenOnceAndKept == Spec => []EachTraceOnce
<1>1. IInv => EachTraceOnce
  BY DEF IInv, LinesInv, PostsInv, EachTraceOnce, TakenOnce, LinesOnce, PostedOnce
<1> QED
  BY <1>1, IInvAlways, PTL

\* The reader hands on every record that stands on a line of a file that is not truncated, once
\* and in order, and what a restart passes over it had read ahead or cut in two (tailJSONL).
THEOREM ReadsExactly == Spec => []ReaderExact
<1>1. IInv => ReaderExact
  BY DEF IInv, SkipInv, ReaderExact, ResumeSkipsReadAhead
<1> QED
  BY <1>1, IInvAlways, PTL

=============================================================================
