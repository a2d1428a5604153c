----------------------------- MODULE RingAttach -----------------------------
(***************************************************************************)
(* The ring file of one user: how his workers find or build it             *)
(* (phpray_ring_attach in src/extension/ringbuffer.c, called by            *)
(* phpray_ring_current in src/extension/phpray.c), and how the collector   *)
(* keeps open what it finds in the directory (ringSet.rescan in            *)
(* src/collector/ringset.go).                                              *)
(*                                                                         *)
(* A directory maps paths to inodes: the published path ring-<uid>, and    *)
(* for each worker its temporary path ring-<uid>.<pid>.tmp, which the      *)
(* collector's pattern ring-* matches too.  A system call on the directory *)
(* is a step (one that fails, together with the clean-up after it), and so *)
(* is each part of building a header.  A file that lost its last name      *)
(* lives on for those who have mapped it; inode numbers are not used       *)
(* again, which is right while the collector holds the file whose number   *)
(* it compares.                                                            *)
(***************************************************************************)
EXTENDS Naturals

CONSTANTS
  Workers,     \* PHP workers of one user; a worker's name stands for its pid
  Published,   \* the path the ring is published at
  MaxInodes,   \* bound: files there ever are
  MaxDeaths,   \* bound: workers killed
  Starts       \* what may be at the published path to begin with

ASSUME AttachAssumption ==
  /\ Published \notin Workers
  /\ MaxInodes \in Nat \ {0}
  /\ MaxDeaths \in Nat
  /\ Starts \subseteq {"absent", "ready", "stale", "foreign"}

MaxAttempts == 3

Paths  == Workers \cup {Published}
Inodes == 1 .. MaxInodes
NoFile == 0
First  == 1   \* the file that was there to begin with, if any

\* What a file holds: nothing yet; magic and version but no capacity; a ring of the
\* configured size; a ring of another size or version; a file of another user.
FileStates == {"unused", "raw", "half", "ready", "stale", "foreign"}

\* A worker outside ("idle"), or at a system call of phpray_ring_attach.
WorkerStates == {"idle", "open", "unlink", "create", "stamp", "size", "link",
                 "tidy", "compare"}

\* An open ring of the set: the inode number rescan got from Stat, the file that was
\* mapped, and whether the header had its capacity when the reader copied it.
Source   == [ino : Inodes \cup {NoFile}, maps : Inodes \cup {NoFile}, sized : BOOLEAN]
NoSource == [ino |-> NoFile, maps |-> NoFile, sized |-> TRUE]

VARIABLES
  dir,       \* path -> inode
  file,      \* inode -> what it holds
  pc,        \* worker -> where it is
  try,       \* worker -> attempt, counted from 1
  mine,      \* worker -> the file it is building
  ring,      \* worker -> the ring it is attached to
  killed,    \* history: the pids of killed workers, and
  deaths,    \* how many there were
  src,       \* collector: path -> open ring
  scan,      \* collector: "wait", "walk" or "open"
  todo,      \* collector: paths the glob returned that are still to be looked at
  present,   \* collector: paths found to exist in this scan
  found      \* collector: the path about to be opened and its inode number

workerVars    == <<dir, file, pc, try, mine, ring>>
deathVars     == <<killed, deaths>>
collectorVars == <<src, scan, todo, present, found>>
vars == <<workerVars, deathVars, collectorVars>>

Nothing == [path |-> Published, ino |-> NoFile]

TypeOK ==
  /\ dir \in [Paths -> Inodes \cup {NoFile}]
  /\ file \in [Inodes -> FileStates]
  /\ pc \in [Workers -> WorkerStates]
  /\ try \in [Workers -> 1 .. MaxAttempts]
  /\ mine \in [Workers -> Inodes \cup {NoFile}]
  /\ ring \in [Workers -> Inodes \cup {NoFile}]
  /\ killed \subseteq Workers
  /\ deaths \in 0 .. MaxDeaths
  /\ src \in [Paths -> Source]
  /\ scan \in {"wait", "walk", "open"}
  /\ todo \subseteq Paths
  /\ present \subseteq Paths
  /\ found \in [path : Paths, ino : Inodes \cup {NoFile}]

Init ==
  \E start \in Starts :
    /\ dir  = [p \in Paths |-> IF p = Published /\ start # "absent" THEN First ELSE NoFile]
    /\ file = [i \in Inodes |-> IF i = First /\ start # "absent" THEN start ELSE "unused"]
    /\ pc   = [w \in Workers |-> "idle"]
    /\ try  = [w \in Workers |-> 1]
    /\ mine = [w \in Workers |-> NoFile]
    /\ ring = [w \in Workers |-> NoFile]
    /\ killed = {}
    /\ deaths = 0
    /\ src = [p \in Paths |-> NoSource]
    /\ scan = "wait"
    /\ todo = {}
    /\ present = {}
    /\ found = Nothing

-----------------------------------------------------------------------------
(* phpray_ring_attach *)

At(w, label) == pc[w] = label

Go(w, label) == pc' = [pc EXCEPT ![w] = label]

\* phpray_ring_attach returns ring r, or none; its locals are gone.
Finish(w, r) ==
  /\ Go(w, "idle")
  /\ ring' = [ring EXCEPT ![w] = r]
  /\ try'  = [try EXCEPT ![w] = 1]
  /\ mine' = [mine EXCEPT ![w] = NoFile]

\* The file at the published path.
There == dir[Published]

\* Mutant: size and version are not compared.
UsableByOwner(i) == file[i] \in {"ready", "stale"}

Usable(i) == file[i] = "ready"

\* phpray_ring_current: no ring yet, and the back-off after a failure is over.
Begin(w) ==
  /\ At(w, "idle")
  /\ ring[w] = NoFile
  /\ Go(w, "open")
  /\ UNCHANGED <<dir, file, try, mine, ring>>

\* phpray_ring_current: the request runs as another user, whose ring is another file.
\* Unmapping ours leaves the file alone (the handle owns nothing).
Leave(w) ==
  /\ At(w, "idle")
  /\ ring[w] # NoFile
  /\ ring' = [ring EXCEPT ![w] = NoFile]
  /\ UNCHANGED <<dir, file, pc, try, mine>>

\* open, fstat, pread, mmap of what is published: the checks are made on the open file.
Reuse(w) ==
  /\ At(w, "open")
  /\ There # NoFile
  /\ Usable(There)
  /\ Finish(w, There)
  /\ UNCHANGED <<dir, file>>

\* EACCES, ELOOP, no mapping or no memory: give up.
OpenFails(w) ==
  /\ At(w, "open")
  /\ There # NoFile
  /\ file[There] \in {"ready", "foreign"}
  /\ Finish(w, NoFile)
  /\ UNCHANGED <<dir, file>>

Unusable(w) ==
  /\ At(w, "open")
  /\ There # NoFile
  /\ ~Usable(There)
  /\ Go(w, "unlink")
  /\ UNCHANGED <<dir, file, try, mine, ring>>

Missing(w) ==
  /\ At(w, "open")
  /\ There = NoFile
  /\ Go(w, "create")
  /\ UNCHANGED <<dir, file, try, mine, ring>>

\* Whatever is at the path by now; a file of another user stays (sticky directory).
MakeRoom(w) ==
  /\ At(w, "unlink")
  /\ IF There # NoFile /\ file[There] # "foreign"
       THEN dir' = [dir EXCEPT ![Published] = NoFile]
       ELSE UNCHANGED dir
  /\ Go(w, "create")
  /\ UNCHANGED <<file, try, mine, ring>>

Unused == {i \in Inodes \ {First} : file[i] = "unused"}

\* O_EXCL: not over a file left by a killed worker with this pid.
Create(w) ==
  /\ At(w, "create")
  /\ dir[w] = NoFile
  /\ Unused # {}
  /\ LET i == CHOOSE i \in Unused : TRUE
     IN  /\ dir'  = [dir EXCEPT ![w] = i]
         /\ file' = [file EXCEPT ![i] = "raw"]
         /\ mine' = [mine EXCEPT ![w] = i]
  /\ Go(w, "stamp")
  /\ UNCHANGED <<try, ring>>

CreateFails(w) ==
  /\ At(w, "create")
  /\ Finish(w, NoFile)
  /\ UNCHANGED <<dir, file>>

\* The next attempt, unless this was the third.
Again(w) ==
  IF try[w] < MaxAttempts
    THEN /\ Go(w, "open")
         /\ try'  = [try EXCEPT ![w] = @ + 1]
         /\ mine' = [mine EXCEPT ![w] = NoFile]
         /\ UNCHANGED ring
    ELSE Finish(w, NoFile)

DropTmp(w) == dir' = [dir EXCEPT ![w] = NoFile]

\* Mutant: published before the header is complete.
StampThenLink(w) ==
  /\ At(w, "stamp")
  /\ file' = [file EXCEPT ![mine[w]] = "half"]
  /\ Go(w, "link")
  /\ UNCHANGED <<dir, try, mine, ring>>

\* fchmod, ftruncate, mmap, and of ring_init_header magic and version.
Stamp(w) ==
  /\ At(w, "stamp")
  /\ file' = [file EXCEPT ![mine[w]] = "half"]
  /\ Go(w, "size")
  /\ UNCHANGED <<dir, try, mine, ring>>

StampFails(w) ==
  /\ At(w, "stamp")
  /\ DropTmp(w)
  /\ Finish(w, NoFile)
  /\ UNCHANGED file

\* The rest of ring_init_header, from the capacity on.
Size(w) ==
  /\ At(w, "size")
  /\ file' = [file EXCEPT ![mine[w]] = "ready"]
  /\ Go(w, "link")
  /\ UNCHANGED <<dir, try, mine, ring>>\* Mutant: rename, which replaces what is there.
LinkByRename(w) ==
  /\ At(w, "link")
  /\ dir' = [dir EXCEPT ![Published] = mine[w]]
  /\ Go(w, "tidy")
  /\ UNCHANGED <<file, try, mine, ring>>

Link(w) ==
  /\ At(w, "link")
  /\ There = NoFile
  /\ dir' = [dir EXCEPT ![Published] = mine[w]]
  /\ Go(w, "tidy")
  /\ UNCHANGED <<file, try, mine, ring>>

\* Mutant: the temporary file is kept for the next attempt.
LinkExistsKeepingTmp(w) ==
  /\ At(w, "link")
  /\ There # NoFile
  /\ Again(w)
  /\ UNCHANGED <<dir, file>>

\* Mutant: only link is tried again, and for ever.
LinkExistsLinkAgain(w) ==
  /\ At(w, "link")
  /\ There # NoFile
  /\ try' = [try EXCEPT ![w] = @ + 1]
  /\ UNCHANGED <<dir, file, pc, mine, ring>>

\* EEXIST: another worker was faster, or a foreign file is in the way.
LinkExists(w) ==
  /\ At(w, "link")
  /\ There # NoFile
  /\ DropTmp(w)
  /\ Again(w)
  /\ UNCHANGED file

\* link may fail otherwise (a file system without hard links).
LinkFails(w) ==
  /\ At(w, "link")
  /\ DropTmp(w)
  /\ Finish(w, NoFile)
  /\ UNCHANGED file

Tidy(w) ==
  /\ At(w, "tidy")
  /\ DropTmp(w)
  /\ Go(w, "compare")
  /\ UNCHANGED <<file, try, mine, ring>>

\* stat of the path shows another inode: replaced in between.
Replaced(w) == There \notin {NoFile, mine[w]}

\* When nothing is at the path any more, stat fails and the worker keeps its own ring.
\* It ends without one when there is no memory for the handle.
Keep(w) ==
  /\ At(w, "compare")
  /\ ~Replaced(w)
  /\ \E r \in {mine[w], NoFile} : Finish(w, r)
  /\ UNCHANGED <<dir, file>>

JoinWinner(w) ==
  /\ At(w, "compare")
  /\ Replaced(w)
  /\ Again(w)
  /\ UNCHANGED <<dir, file>>

AttachStep(w) ==
  \/ Begin(w) \/ Leave(w)
  \/ Reuse(w) \/ OpenFails(w) \/ Unusable(w) \/ Missing(w) \/ MakeRoom(w)
  \/ Create(w) \/ CreateFails(w) \/ Stamp(w) \/ StampFails(w) \/ Size(w)
  \/ Link(w) \/ LinkExists(w) \/ LinkFails(w)
  \/ Tidy(w) \/ Keep(w) \/ JoinWinner(w)

\* A worker is killed while it attaches, and a new one may come under its pid.  Killed
\* outside it leaves what Leave leaves.
Die(w) ==
  /\ deaths < MaxDeaths
  /\ ~At(w, "idle")
  /\ deaths' = deaths + 1
  /\ killed' = killed \cup {w}
  /\ Finish(w, NoFile)
  /\ UNCHANGED <<dir, file, collectorVars>>

-----------------------------------------------------------------------------
(* ringSet.rescan *)

\* OpenRing takes any version it knows and copies the capacity it finds.
Openable(i) == file[i] \in {"half", "ready", "stale"}

Glob ==
  /\ scan = "wait"
  /\ todo' = {p \in Paths : dir[p] # NoFile}
  /\ scan' = "walk"
  /\ UNCHANGED <<src, present, found>>

\* The matches are sorted: the published path comes before its temporary ones.
NextPath(p) == p \in todo /\ (p = Published \/ Published \notin todo)

Vanished(p) ==
  /\ scan = "walk"
  /\ NextPath(p)
  /\ dir[p] = NoFile
  /\ todo' = todo \ {p}
  /\ UNCHANGED <<src, scan, present, found>>

\* Mutant: an open path is never opened again.
SameName(p) == src[p].ino # NoFile

SameFile(p) == src[p].ino = dir[p]

Unchanged(p) ==
  /\ scan = "walk"
  /\ NextPath(p)
  /\ dir[p] # NoFile
  /\ SameFile(p)
  /\ todo' = todo \ {p}
  /\ present' = present \cup {p}
  /\ UNCHANGED <<src, scan, found>>

\* New, or recreated: then the old ring is closed first.
Differs(p) ==
  /\ scan = "walk"
  /\ NextPath(p)
  /\ dir[p] # NoFile
  /\ ~SameFile(p)
  /\ todo' = todo \ {p}
  /\ present' = present \cup {p}
  /\ src' = [src EXCEPT ![p] = NoSource]
  /\ found' = [path |-> p, ino |-> dir[p]]
  /\ scan' = "open"

\* The file is opened by name again: it need not be the one Stat saw.
Open ==
  /\ scan = "open"
  /\ LET i == dir[found.path]
     IN  src' = IF i # NoFile /\ Openable(i)
                  THEN [src EXCEPT ![found.path] =
                          [ino |-> found.ino, maps |-> i, sized |-> file[i] # "half"]]
                  ELSE src
  /\ scan' = "walk"
  /\ found' = Nothing
  /\ UNCHANGED <<todo, present>>

CloseGone ==
  /\ scan = "walk"
  /\ todo = {}
  /\ src' = [p \in Paths |-> IF p \in present THEN src[p] ELSE NoSource]
  /\ present' = {}
  /\ scan' = "wait"
  /\ UNCHANGED <<todo, found>>

RescanStep ==
  \/ Glob
  \/ \E p \in Paths : Vanished(p) \/ Unchanged(p) \/ Differs(p)
  \/ Open
  \/ CloseGone

-----------------------------------------------------------------------------

Next ==
  \/ \E w \in Workers : AttachStep(w) /\ UNCHANGED <<deathVars, collectorVars>>
  \/ RescanStep /\ UNCHANGED <<workerVars, deathVars>>
  \/ \E w \in Workers : Die(w)

\* ringSetWorker rescans for ever.
Fairness == WF_vars(RescanStep /\ UNCHANGED <<workerVars, deathVars>>)

Spec == Init /\ [][Next]_vars /\ Fairness

-----------------------------------------------------------------------------
(* Properties *)

\* No stale ring was there to be replaced.
NothingToReplace == \A i \in Inodes : file[i] # "stale"

Attached(w) == At(w, "idle") /\ ring[w] # NoFile

\* Under its published name a ring is complete from the first moment, and a reader that
\* came by this name has its capacity (link after ring_init_header).  Of the temporary
\* names this is not true: the collector's pattern matches them.
NamedRingWhole ==
  /\ There # NoFile => file[There] \notin {"unused", "raw", "half"}
  /\ src[Published].sized

\* Unless a stale ring was to be replaced, every worker that has attached writes into
\* the one ring that is published, however the attachments overlapped.
AgreeUnlessStale ==
  NothingToReplace => \A w \in Workers : Attached(w) => ring[w] = There

\* A worker writes only into a finished ring of the configured size and of its own user,
\* and nobody builds anew in a file that a worker writes into.
WritesIntoFinished ==
  \A w \in Workers : Attached(w) => file[ring[w]] = "ready"

\* Both together: neither the collector nor a worker meets a ring that is not finished
\* (phpray_ring_attach, rescan).
RingsFinished == NamedRingWhole /\ WritesIntoFinished

\* With nothing stale and nothing foreign in the way, a second attempt is made only
\* because another worker was faster, and finds his ring: nobody builds twice, and the
\* third attempt is never needed.
SecondAttemptFinds ==
  (\A i \in Inodes : file[i] \notin {"stale", "foreign"}) =>
    \A w \in Workers : try[w] > 1 =>
      try[w] = 2 /\ At(w, "open") /\ There # NoFile /\ Usable(There)

\* A temporary file belongs to a worker that is still building it, or that was killed.
NoLitter ==
  \A w \in Workers :
    \/ dir[w] = NoFile
    \/ pc[w] \in {"stamp", "size", "link", "tidy"}
    \/ w \in killed

\* Both together: however many workers build at once, none runs out of attempts and none
\* leaves anything behind (phpray_ring_attach).
BuildersOrderly == SecondAttemptFinds /\ NoLitter

\* All of it: what is published and used is finished, and building it comes to an end, clean.
RingsOrderly == RingsFinished /\ BuildersOrderly

\* Once the directory has come to rest the collector reads, under every name, the ring
\* that has this name, and nothing else: replaced files included.
Follows ==
  <>[](\A p \in Paths :
         src[p].maps = IF dir[p] # NoFile /\ Openable(dir[p]) THEN dir[p] ELSE NoFile)

\* "workers of one user share it" (docs-site/docs/configuration/extension.md:103), "Safe
\* to call concurrently from several workers of one user" (ringbuffer.h): two workers
\* that have attached write into one ring.  A worker that found the stale ring may
\* unlink the new one that has replaced it meanwhile.
SharedRing ==
  \A v, w \in Workers : Attached(v) /\ Attached(w) => ring[v] = ring[w]

=============================================================================
