------------------------------ MODULE JsonlTail ------------------------------
(***************************************************************************)
(* The JSONL file between the PHP workers and the collector: how a worker  *)
(* appends a record (phpray_jsonl_write in src/extension/phpray.c), what   *)
(* an administrator does to the file, and how the collector follows it     *)
(* (Daemon.tailJSONL in src/collector/daemon.go).                          *)
(*                                                                         *)
(* A record is one line, numbered in the order the workers began them.  It *)
(* is written by one write(), or by two when the kernel takes only part of *)
(* it, so a file is a sequence of pieces: the start of a line, and its     *)
(* rest, which carries the newline.  Offsets count pieces.                 *)
(*                                                                         *)
(* This module says what happens to the file and to the reader's position; *)
(* the module Daemon says when, and what becomes of a line that was read.  *)
(***************************************************************************)
EXTENDS Integers, Sequences, FiniteSets

CONSTANTS
  Writers,     \* PHP workers
  MaxLines,    \* bound: records written
  MaxFiles,    \* bound: files there ever are
  ReadAhead    \* pieces that one read() of the buffered reader brings in

ASSUME TailAssumption ==
  /\ MaxLines \in Nat
  /\ MaxFiles \in Nat \ {0}
  /\ ReadAhead \in Nat \ {0}

Lines  == 1 .. MaxLines
Inodes == 1 .. MaxFiles
NoFile == 0

Piece   == [line : Lines, ends : BOOLEAN]
Start(n) == [line |-> n, ends |-> FALSE]
Rest(n)  == [line |-> n, ends |-> TRUE]

\* What the state file holds.  `ahead' is history: the lines the reader had in its
\* buffer when it saved the offset.
Saved    == [ino : Inodes \cup {NoFile}, off : Nat, ahead : SUBSET Lines]
NotSaved == [ino |-> NoFile, off |-> 0, ahead |-> {}]

VARIABLES
  files,     \* inode -> what was written to it
  path,      \* the inode the configured path names, if any
  made,      \* files made so far
  fd,        \* worker -> the file it has open
  half,      \* worker -> the line it has written the start of
  begun,     \* lines begun
  cur,       \* reader: the open file
  pos,       \* reader: the offset of the descriptor
  buf,       \* reader: what was read from the descriptor and is not consumed
  saved,     \* the state file
  from,      \* history: where this opening of the file began to read,
  cuts,      \*   the offsets at which it threw away a line without its end,
  handed,    \*   and the lines it handed on
  mangled,   \* history: lines thrown away so, ever
  ever,      \* history: lines handed on, ever
  skipped,   \* history: lines a resume passed over though they never were handed on,
  aheads,    \*   and the lines that had been read ahead at the offsets resumed from
  truncated  \* history: the files that were truncated

fileVars   == <<files, path, made, fd, half, begun, truncated>>
readerVars == <<cur, pos, buf, from, cuts, handed>>
pastVars   == <<mangled, ever, skipped, aheads>>
tailVars   == <<fileVars, readerVars, saved, pastVars>>

TailTypeOK ==
  /\ files \in [Inodes -> Seq(Piece)]
  /\ path \in Inodes \cup {NoFile}
  /\ made \in 0 .. MaxFiles
  /\ fd \in [Writers -> Inodes \cup {NoFile}]
  /\ half \in [Writers -> Lines \cup {0}]
  /\ begun \in 0 .. MaxLines
  /\ cur \in Inodes \cup {NoFile}
  /\ pos \in Nat
  /\ buf \in Seq(Piece)
  /\ saved \in Saved
  /\ from \in Nat
  /\ cuts \subseteq Nat
  /\ handed \in Seq(Lines)
  /\ mangled \subseteq Lines
  /\ ever \subseteq Lines
  /\ skipped \subseteq Lines
  /\ aheads \subseteq Lines
  /\ truncated \subseteq Inodes

TailInit ==
  /\ files = [i \in Inodes |-> <<>>]
  /\ path = NoFile
  /\ made = 0
  /\ fd = [w \in Writers |-> NoFile]
  /\ half = [w \in Writers |-> 0]
  /\ begun = 0
  /\ cur = NoFile
  /\ pos = 0
  /\ buf = <<>>
  /\ saved = NotSaved
  /\ from = 0
  /\ cuts = {}
  /\ handed = <<>>
  /\ mangled = {}
  /\ ever = {}
  /\ skipped = {}
  /\ aheads = {}
  /\ truncated = {}

-----------------------------------------------------------------------------
(* The workers *)

\* A worker opens the path at its first record, creating the file if there is none, and
\* keeps the descriptor whatever becomes of the path.
MustCreate(w) == fd[w] = NoFile /\ path = NoFile

Target(w) ==
  IF fd[w] # NoFile THEN fd[w] ELSE IF path # NoFile THEN path ELSE made + 1

\* O_APPEND: a write() goes to the end of the file, in one piece.
AppendTo(w, pieces) ==
  /\ MustCreate(w) => made < MaxFiles
  /\ files' = [files EXCEPT ![Target(w)] = @ \o pieces]
  /\ fd'    = [fd EXCEPT ![w] = Target(w)]
  /\ IF MustCreate(w)
       THEN path' = Target(w) /\ made' = made + 1
       ELSE UNCHANGED <<path, made>>

WriteLine(w) ==
  /\ half[w] = 0
  /\ begun < MaxLines
  /\ begun' = begun + 1
  /\ AppendTo(w, <<Start(begun + 1), Rest(begun + 1)>>)
  /\ UNCHANGED <<half, truncated>>

\* The kernel took part of the record; the loop writes the rest.
WriteStart(w) ==
  /\ half[w] = 0
  /\ begun < MaxLines
  /\ begun' = begun + 1
  /\ half'  = [half EXCEPT ![w] = begun + 1]
  /\ AppendTo(w, <<Start(begun + 1)>>)
  /\ UNCHANGED truncated

WriteRest(w) ==
  /\ half[w] # 0
  /\ half' = [half EXCEPT ![w] = 0]
  /\ AppendTo(w, <<Rest(half[w])>>)
  /\ UNCHANGED <<begun, truncated>>

\* MSHUTDOWN closes the descriptor; a killed worker may leave half a line.
Quit(w) ==
  /\ fd[w] # NoFile
  /\ fd'   = [fd EXCEPT ![w] = NoFile]
  /\ half' = [half EXCEPT ![w] = 0]
  /\ UNCHANGED <<files, path, made, begun, truncated>>

(* The administrator *)

Rotate ==
  /\ path # NoFile
  /\ path' = NoFile
  /\ UNCHANGED <<files, made, fd, half, begun, truncated>>

Truncate ==
  /\ path # NoFile
  /\ files' = [files EXCEPT ![path] = <<>>]
  /\ truncated' = truncated \cup {path}
  /\ UNCHANGED <<path, made, fd, half, begun>>

-----------------------------------------------------------------------------
(* The reader: tailJSONL *)

Min2(a, b) == IF a < b THEN a ELSE b

\* A whole line, on a line of its own, ends at offset k of file i.
WholeAt(i, k) ==
  /\ k \in 2 .. Len(files[i])
  /\ files[i][k].ends
  /\ files[i][k - 1] = Start(files[i][k].line)
  /\ k = 2 \/ files[i][k - 2].ends

\* Lines that begin, on a line of their own, within the first off pieces of file i.
BegunWithin(i, off) ==
  {files[i][k].line : k \in
     {k \in 1 .. off : /\ ~files[i][k].ends
                       /\ k = 1 \/ files[i][k - 1].ends
                       /\ k = Len(files[i]) \/ files[i][k + 1] = Rest(files[i][k].line)}}

\* Mutant: the saved offset is used for whatever file is there.
ResumeAnyFile(i) == IF saved.off <= Len(files[i]) THEN saved.off ELSE 0

Resume(i) ==
  IF saved.ino = i /\ saved.off <= Len(files[i]) THEN saved.off ELSE 0

\* The path is opened and read from the offset off.
OpenAt(off) ==
  /\ path # NoFile
  /\ cur'    = path
  /\ pos'    = off
  /\ from'   = off
  /\ buf'    = <<>>
  /\ cuts'   = {}
  /\ handed' = <<>>
  /\ skipped' = skipped \cup (BegunWithin(path, off) \ ever)
  /\ aheads'  = IF off = 0 THEN aheads ELSE aheads \cup saved.ahead
  /\ UNCHANGED <<fileVars, saved, mangled, ever>>

OpenPath == OpenAt(Resume(path))

\* The reader is gone, with its buffer.
Close ==
  /\ cur' = NoFile
  /\ pos' = 0
  /\ from' = 0
  /\ buf' = <<>>
  /\ cuts' = {}
  /\ handed' = <<>>

\* Mutant: the offset saved is the one this opening began at.
SaveStart == saved' = [ino |-> cur, off |-> from, ahead |-> {}]

\* f.Seek(0, io.SeekCurrent) is where the descriptor is, behind what is in the buffer.
Save ==
  saved' = [ino |-> cur, off |-> pos, ahead |-> {buf[k].line : k \in 1 .. Len(buf)}]

HasLine == \E k \in 1 .. Len(buf) : buf[k].ends

\* Offset in the buffer of the first newline.
LineEnd == CHOOSE k \in 1 .. Len(buf) : buf[k].ends /\ \A j \in 1 .. k - 1 : ~buf[j].ends

\* What ReadString returns is a record: anything else is no JSON.
IsRecord == LineEnd = 2 /\ buf[1] = Start(buf[2].line)

AtEnd == pos >= Len(files[cur])

Fill ==
  /\ ~HasLine
  /\ ~AtEnd
  /\ LET to == Min2(pos + ReadAhead, Len(files[cur]))
     IN  /\ buf' = buf \o SubSeq(files[cur], pos + 1, to)
         /\ pos' = to
  /\ UNCHANGED <<fileVars, cur, from, cuts, handed, saved, pastVars>>

\* Mutant: the buffer is emptied with the line.
ConsumeAll == buf' = <<>>

Consume == buf' = SubSeq(buf, LineEnd + 1, Len(buf))

TakeRecord ==
  /\ HasLine
  /\ IsRecord
  /\ Consume
  /\ handed' = Append(handed, buf[1].line)
  /\ ever' = ever \cup {buf[1].line}
  /\ UNCHANGED <<fileVars, cur, pos, from, cuts, saved, mangled, skipped, aheads>>

TakeGarbage ==
  /\ HasLine
  /\ ~IsRecord
  /\ Consume
  /\ UNCHANGED <<fileVars, cur, pos, from, cuts, handed, saved, pastVars>>

\* ReadString returns io.EOF and what it had; that is dropped.
HitEnd ==
  /\ ~HasLine
  /\ AtEnd
  /\ buf' = <<>>
  /\ cuts' = IF buf = <<>> THEN cuts ELSE cuts \cup {pos}
  /\ mangled' = mangled \cup {buf[k].line : k \in 1 .. Len(buf)}
  /\ UNCHANGED <<fileVars, cur, pos, from, handed, saved, ever, skipped, aheads>>

=============================================================================
