-------------------------- MODULE RingAttachProofs --------------------------
(***************************************************************************)
(* Proofs about RingAttach, for any number of workers and files and any    *)
(* number of deaths.                                                       *)
(***************************************************************************)
EXTENDS RingAttach, TLAPS

Building(w) == pc[w] \in {"stamp", "size", "link", "tidy", "compare"}

\* A worker that builds owns a file in the state its place in the code says, and has
\* its temporary name until it is published; any other worker owns none.
WorkerOK(w) ==
  /\ Building(w) <=> mine[w] # NoFile
  /\ At(w, "stamp") => file[mine[w]] = "raw"
  /\ At(w, "size") => file[mine[w]] = "half"
  /\ pc[w] \in {"link", "tidy", "compare"} => file[mine[w]] = "ready"
  /\ ring[w] # NoFile => At(w, "idle") /\ file[ring[w]] = "ready"

WorkersInv == \A w \in Workers : WorkerOK(w)

\* No two workers build the same file.
DistinctInv ==
  \A v, w \in Workers : Building(v) /\ Building(w) /\ v # w => mine[v] # mine[w]

\* What stands at the published path.
NamedInv == There # NoFile => file[There] \in {"ready", "stale", "foreign"}

\* While there is nothing to replace, what is published stays there: who published it
\* still finds it, and who is about to unlink is in front of a foreign file.
AgreeInv ==
  NothingToReplace =>
    \A w \in Workers :
      /\ At(w, "unlink") => There # NoFile /\ file[There] = "foreign"
      /\ pc[w] \in {"tidy", "compare"} => There = mine[w]
      /\ Attached(w) => ring[w] = There

IInv ==
  /\ TypeOK
  /\ WorkersInv
  /\ DistinctInv
  /\ NamedInv
  /\ AgreeInv

-----------------------------------------------------------------------------
(* One step of a worker, and of the rest *)

\* The collector keeps the types.
LEMMA RescanFrame ==
  ASSUME TypeOK, RescanStep, UNCHANGED <<workerVars, deathVars>>
  PROVE  TypeOK'
<1> USE AttachAssumption DEF TypeOK, workerVars, deathVars
<1>1. CASE Glob
  BY <1>1 DEF Glob
<1>2. ASSUME NEW p \in Paths, Vanished(p) PROVE TypeOK'
  BY <1>2 DEF Vanished
<1>3. ASSUME NEW p \in Paths, Unchanged(p) PROVE TypeOK'
  BY <1>3 DEF Unchanged
<1>4. ASSUME NEW p \in Paths, Differs(p) PROVE TypeOK'
  <2>1. NoSource \in Source
    BY DEF NoSource, Source
  <2>2. src' \in [Paths -> Source]
    BY <1>4, <2>1 DEF Differs
  <2>3. dir[p] \in Inodes \cup {NoFile}
    OBVIOUS
  <2> QED BY <1>4, <2>2, <2>3 DEF Differs
<1>5. CASE Open
  <2> DEFINE i == dir[found.path]
             s == [ino |-> found.ino, maps |-> i, sized |-> file[i] # "half"]
  <2>1. s \in Source
    BY DEF Source
  <2>2. src' \in [Paths -> Source]
    BY <1>5, <2>1 DEF Open
  <2>3. found' \in [path : Paths, ino : Inodes \cup {NoFile}]
    BY <1>5 DEF Open, Nothing, Paths
  <2> QED BY <1>5, <2>2, <2>3 DEF Open
<1>6. CASE CloseGone
  <2>1. NoSource \in Source
    BY DEF NoSource, Source
  <2>2. src' \in [Paths -> Source]
    BY <1>6, <2>1 DEF CloseGone
  <2> QED BY <1>6, <2>2 DEF CloseGone
<1> QED BY <1>1, <1>2, <1>3, <1>4, <1>5, <1>6 DEF RescanStep

\* A worker keeps the types.
LEMMA WorkerTypes ==
  ASSUME TypeOK, NEW w \in Workers, AttachStep(w), UNCHANGED <<deathVars, collectorVars>>
  PROVE  TypeOK'
<1> USE AttachAssumption DEF TypeOK, deathVars, collectorVars, Paths, WorkerStates, FileStates,
        MaxAttempts
<1>1. CASE Begin(w)
  BY <1>1 DEF Begin, Go
<1>2. CASE Leave(w)
  BY <1>2 DEF Leave, Go
<1>3. CASE Reuse(w)
  BY <1>3 DEF Reuse, Finish, There, Go
<1>4. CASE OpenFails(w)
  BY <1>4 DEF OpenFails, Finish, Go
<1>5. CASE Unusable(w)
  BY <1>5 DEF Unusable, Go
<1>6. CASE Missing(w)
  BY <1>6 DEF Missing, Go
<1>7. CASE MakeRoom(w)
  BY <1>7 DEF MakeRoom, Go
<1>8. CASE Create(w)
  <2> DEFINE i == CHOOSE i \in Unused : TRUE
  <2>1. i \in Inodes
    BY <1>8 DEF Create, Unused
  <2> QED BY <1>8, <2>1 DEF Create, Go
<1>9. CASE CreateFails(w)
  BY <1>9 DEF CreateFails, Finish, Go
<1>10. CASE Stamp(w)
  BY <1>10 DEF Stamp, Go
<1>11. CASE StampFails(w)
  BY <1>11 DEF StampFails, Finish, DropTmp, Go
<1>12. CASE Size(w)
  BY <1>12 DEF Size, Go
<1>13. CASE Link(w)
  BY <1>13 DEF Link, Go
<1>14. CASE LinkExists(w)
  BY <1>14 DEF LinkExists, Again, Finish, DropTmp, Go
<1>15. CASE LinkFails(w)
  BY <1>15 DEF LinkFails, Finish, DropTmp, Go
<1>16. CASE Tidy(w)
  BY <1>16 DEF Tidy, DropTmp, Go
<1>17. CASE Keep(w)
  BY <1>17 DEF Keep, Finish, Go
<1>18. CASE JoinWinner(w)
  BY <1>18 DEF JoinWinner, Again, Finish, Go
<1> QED BY <1>1, <1>2, <1>3, <1>4, <1>5, <1>6, <1>7, <1>8, <1>9, <1>10, <1>11, <1>12, <1>13,
       <1>14, <1>15, <1>16, <1>17, <1>18 DEF AttachStep

\* A worker's step keeps the four invariants about files and the published path.
LEMMA WorkerInvs ==
  ASSUME IInv, NEW w \in Workers, AttachStep(w), UNCHANGED <<deathVars, collectorVars>>
  PROVE  WorkersInv' /\ DistinctInv' /\ NamedInv' /\ AgreeInv'
<1> USE AttachAssumption DEF IInv, NoFile
<1> USE DEF WorkersInv, WorkerOK, Building, At
<1>1. CASE Begin(w)
  <2>1. WorkersInv'
    BY <1>1 DEF Begin, Go, TypeOK, Inodes
  <2>2. DistinctInv'
    BY <1>1 DEF Begin, Go, TypeOK, DistinctInv, Inodes
  <2>3. NamedInv'
    BY <1>1 DEF Begin, Go, There, TypeOK, NamedInv, Inodes, Paths
  <2>4. AgreeInv'
    BY <1>1 DEF Begin, Go, There, TypeOK, NamedInv, AgreeInv, NothingToReplace, Attached,
           Inodes, Paths
  <2> QED BY <2>1, <2>2, <2>3, <2>4
<1>2. CASE Leave(w)
  <2>1. WorkersInv'
    BY <1>2 DEF Leave, TypeOK, Inodes
  <2>2. DistinctInv'
    BY <1>2 DEF Leave, TypeOK, DistinctInv, Inodes
  <2>3. NamedInv'
    BY <1>2 DEF Leave, There, TypeOK, NamedInv, Inodes, Paths
  <2>4. AgreeInv'
    BY <1>2 DEF Leave, There, TypeOK, NamedInv, AgreeInv, NothingToReplace, Attached, Inodes,
           Paths
  <2> QED BY <2>1, <2>2, <2>3, <2>4
<1>3. CASE Reuse(w)
  <2>1. WorkersInv'
    BY <1>3 DEF Reuse, Finish, Go, There, Usable, TypeOK, Inodes
  <2>2. DistinctInv'
    BY <1>3 DEF Reuse, Finish, Go, There, Usable, TypeOK, DistinctInv, Inodes
  <2>3. NamedInv'
    BY <1>3 DEF Reuse, Finish, Go, There, Usable, TypeOK, NamedInv, Inodes, Paths
  <2>4. AgreeInv'
    BY <1>3 DEF Reuse, Finish, Go, There, Usable, TypeOK, NamedInv, AgreeInv, NothingToReplace,
           Attached, Inodes, Paths
  <2> QED BY <2>1, <2>2, <2>3, <2>4
<1>4. CASE OpenFails(w)
  <2>1. WorkersInv'
    BY <1>4 DEF OpenFails, Finish, Go, There, TypeOK, Inodes
  <2>2. DistinctInv'
    BY <1>4 DEF OpenFails, Finish, Go, There, TypeOK, DistinctInv, Inodes
  <2>3. NamedInv'
    BY <1>4 DEF OpenFails, Finish, Go, There, TypeOK, NamedInv, Inodes, Paths
  <2>4. AgreeInv'
    BY <1>4 DEF OpenFails, Finish, Go, There, TypeOK, NamedInv, AgreeInv, NothingToReplace,
           Attached, Inodes, Paths
  <2> QED BY <2>1, <2>2, <2>3, <2>4
<1>5. CASE Unusable(w)
  <2>1. WorkersInv'
    BY <1>5 DEF Unusable, Go, There, Usable, TypeOK, Inodes
  <2>2. DistinctInv'
    BY <1>5 DEF Unusable, Go, There, Usable, TypeOK, DistinctInv, Inodes
  <2>3. NamedInv'
    BY <1>5 DEF Unusable, Go, There, Usable, TypeOK, NamedInv, Inodes, Paths
  <2>4. AgreeInv'
    BY <1>5 DEF Unusable, Go, There, Usable, TypeOK, NamedInv, AgreeInv, NothingToReplace,
           Attached, Inodes, Paths
  <2> QED BY <2>1, <2>2, <2>3, <2>4
<1>6. CASE Missing(w)
  <2>1. WorkersInv'
    BY <1>6 DEF Missing, Go, There, TypeOK, Inodes
  <2>2. DistinctInv'
    BY <1>6 DEF Missing, Go, There, TypeOK, DistinctInv, Inodes
  <2>3. NamedInv'
    BY <1>6 DEF Missing, Go, There, TypeOK, NamedInv, Inodes, Paths
  <2>4. AgreeInv'
    BY <1>6 DEF Missing, Go, There, TypeOK, NamedInv, AgreeInv, NothingToReplace, Attached,
           Inodes, Paths
  <2> QED BY <2>1, <2>2, <2>3, <2>4
<1>7. CASE MakeRoom(w)
  <2>1. WorkersInv'
    BY <1>7 DEF MakeRoom, Go, There, TypeOK, Inodes
  <2>2. DistinctInv'
    BY <1>7 DEF MakeRoom, Go, There, TypeOK, DistinctInv, Inodes
  <2>3. NamedInv'
    BY <1>7 DEF MakeRoom, Go, There, TypeOK, NamedInv, Inodes, Paths
  <2>4. AgreeInv'
    BY <1>7 DEF MakeRoom, Go, There, TypeOK, NamedInv, AgreeInv, NothingToReplace, Attached,
           Inodes, Paths
  <2> QED BY <2>1, <2>2, <2>3, <2>4
<1>8. CASE Create(w)
  <2> DEFINE i == CHOOSE i \in Unused : TRUE
  <2>0. i \in Inodes /\ i # First /\ file[i] = "unused"
    BY <1>8 DEF Create, Unused
  <2>1. WorkersInv'
    BY <1>8, <2>0 DEF Create, Go, Unused, TypeOK, Inodes
  <2>2. DistinctInv'
    BY <1>8, <2>0 DEF Create, Go, Unused, TypeOK, DistinctInv, Inodes
  <2>3. NamedInv'
    BY <1>8, <2>0 DEF Create, Go, Unused, There, TypeOK, NamedInv, Inodes, Paths
  <2>4. AgreeInv'
    <3>1. UNCHANGED dir[Published]
      BY <1>8, <2>0 DEF Create, TypeOK, Paths
    <3>2. \A j \in Inodes : file[j] \in {"stale", "foreign"} => file'[j] = file[j]
      BY <1>8, <2>0 DEF Create, Go, Unused, TypeOK, Inodes
    <3>3. \A j \in Inodes : file'[j] \in {"stale", "foreign"} => file'[j] = file[j]
      BY <1>8, <2>0 DEF Create, Go, Unused, TypeOK, Inodes
    <3>4. NothingToReplace' => NothingToReplace
      BY <3>2, <3>3 DEF NothingToReplace
    <3>5. \A v \in Workers : v # w => UNCHANGED <<pc[v], mine[v], ring[v]>>
      BY <1>8, <2>0 DEF Create, Go, Unused, TypeOK
    <3>6. pc'[w] \notin {"unlink", "tidy", "compare", "idle"}
      BY <1>8, <2>0 DEF Create, Go, Unused, TypeOK
    <3>7. There \in Inodes \cup {NoFile}
      BY DEF There, TypeOK, Paths
    <3> QED BY <3>1, <3>2, <3>4, <3>5, <3>6, <3>7 DEF AgreeInv, Attached, There
  <2> QED BY <2>1, <2>2, <2>3, <2>4
<1>9. CASE CreateFails(w)
  <2>1. WorkersInv'
    BY <1>9 DEF CreateFails, Finish, Go, TypeOK, Inodes
  <2>2. DistinctInv'
    BY <1>9 DEF CreateFails, Finish, Go, TypeOK, DistinctInv, Inodes
  <2>3. NamedInv'
    BY <1>9 DEF CreateFails, Finish, Go, There, TypeOK, NamedInv, Inodes, Paths
  <2>4. AgreeInv'
    BY <1>9 DEF CreateFails, Finish, Go, There, TypeOK, NamedInv, AgreeInv, NothingToReplace,
           Attached, Inodes, Paths
  <2> QED BY <2>1, <2>2, <2>3, <2>4
<1>10. CASE Stamp(w)
  <2>1. WorkersInv'
    BY <1>10 DEF Stamp, Go, TypeOK, Inodes, DistinctInv
  <2>2. DistinctInv'
    BY <1>10 DEF Stamp, Go, TypeOK, DistinctInv, Inodes
  <2>3. NamedInv'
    BY <1>10 DEF Stamp, Go, There, TypeOK, NamedInv, Inodes, Paths
  <2>4. AgreeInv'
    <3>1. UNCHANGED dir[Published]
      BY <1>10 DEF Stamp, TypeOK, Paths
    <3>2. \A j \in Inodes : file[j] \in {"stale", "foreign"} => file'[j] = file[j]
      BY <1>10 DEF Stamp, Go, TypeOK, Inodes
    <3>3. \A j \in Inodes : file'[j] \in {"stale", "foreign"} => file'[j] = file[j]
      BY <1>10 DEF Stamp, Go, TypeOK, Inodes
    <3>4. NothingToReplace' => NothingToReplace
      BY <3>2, <3>3 DEF NothingToReplace
    <3>5. \A v \in Workers : v # w => UNCHANGED <<pc[v], mine[v], ring[v]>>
      BY <1>10 DEF Stamp, Go, TypeOK
    <3>6. pc'[w] \notin {"unlink", "tidy", "compare", "idle"}
      BY <1>10 DEF Stamp, Go, TypeOK
    <3>7. There \in Inodes \cup {NoFile}
      BY DEF There, TypeOK, Paths
    <3> QED BY <3>1, <3>2, <3>4, <3>5, <3>6, <3>7 DEF AgreeInv, Attached, There
  <2> QED BY <2>1, <2>2, <2>3, <2>4
<1>11. CASE StampFails(w)
  <2>1. WorkersInv'
    BY <1>11 DEF StampFails, DropTmp, Finish, Go, TypeOK, Inodes
  <2>2. DistinctInv'
    BY <1>11 DEF StampFails, DropTmp, Finish, Go, TypeOK, DistinctInv, Inodes
  <2>3. NamedInv'
    BY <1>11 DEF StampFails, DropTmp, Finish, Go, There, TypeOK, NamedInv, Inodes, Paths
  <2>4. AgreeInv'
    BY <1>11 DEF StampFails, DropTmp, Finish, Go, There, TypeOK, NamedInv, AgreeInv,
           NothingToReplace, Attached, Inodes, Paths
  <2> QED BY <2>1, <2>2, <2>3, <2>4
<1>12. CASE Size(w)
  <2>1. WorkersInv'
    BY <1>12 DEF Size, Go, TypeOK, Inodes, DistinctInv
  <2>2. DistinctInv'
    BY <1>12 DEF Size, Go, TypeOK, DistinctInv, Inodes
  <2>3. NamedInv'
    BY <1>12 DEF Size, Go, There, TypeOK, NamedInv, Inodes, Paths
  <2>4. AgreeInv'
    <3>1. UNCHANGED dir[Published]
      BY <1>12 DEF Size, TypeOK, Paths
    <3>2. \A j \in Inodes : file[j] \in {"stale", "foreign"} => file'[j] = file[j]
      BY <1>12 DEF Size, Go, TypeOK, Inodes
    <3>3. \A j \in Inodes : file'[j] \in {"stale", "foreign"} => file'[j] = file[j]
      BY <1>12 DEF Size, Go, TypeOK, Inodes
    <3>4. NothingToReplace' => NothingToReplace
      BY <3>2, <3>3 DEF NothingToReplace
    <3>5. \A v \in Workers : v # w => UNCHANGED <<pc[v], mine[v], ring[v]>>
      BY <1>12 DEF Size, Go, TypeOK
    <3>6. pc'[w] \notin {"unlink", "tidy", "compare", "idle"}
      BY <1>12 DEF Size, Go, TypeOK
    <3>7. There \in Inodes \cup {NoFile}
      BY DEF There, TypeOK, Paths
    <3> QED BY <3>1, <3>2, <3>4, <3>5, <3>6, <3>7 DEF AgreeInv, Attached, There
  <2> QED BY <2>1, <2>2, <2>3, <2>4
<1>13. CASE Link(w)
  <2>1. WorkersInv'
    BY <1>13 DEF Link, Go, There, TypeOK, Inodes
  <2>2. DistinctInv'
    BY <1>13 DEF Link, Go, There, TypeOK, DistinctInv, Inodes
  <2>3. NamedInv'
    BY <1>13 DEF Link, Go, There, TypeOK, NamedInv, Inodes, Paths
  <2>4. AgreeInv'
    BY <1>13 DEF Link, Go, There, TypeOK, NamedInv, AgreeInv, NothingToReplace, Attached,
           Inodes, Paths
  <2> QED BY <2>1, <2>2, <2>3, <2>4
<1>14. CASE LinkExists(w)
  <2>1. WorkersInv'
    BY <1>14 DEF LinkExists, DropTmp, Again, Finish, Go, There, TypeOK, Inodes
  <2>2. DistinctInv'
    BY <1>14 DEF LinkExists, DropTmp, Again, Finish, Go, There, TypeOK, DistinctInv, Inodes
  <2>3. NamedInv'
    BY <1>14 DEF LinkExists, DropTmp, Again, Finish, Go, There, TypeOK, NamedInv, Inodes, Paths
  <2>4. AgreeInv'
    BY <1>14 DEF LinkExists, DropTmp, Again, Finish, Go, There, TypeOK, NamedInv, AgreeInv,
           NothingToReplace, Attached, Inodes, Paths
  <2> QED BY <2>1, <2>2, <2>3, <2>4
<1>15. CASE LinkFails(w)
  <2>1. WorkersInv'
    BY <1>15 DEF LinkFails, DropTmp, Finish, Go, TypeOK, Inodes
  <2>2. DistinctInv'
    BY <1>15 DEF LinkFails, DropTmp, Finish, Go, TypeOK, DistinctInv, Inodes
  <2>3. NamedInv'
    BY <1>15 DEF LinkFails, DropTmp, Finish, Go, There, TypeOK, NamedInv, Inodes, Paths
  <2>4. AgreeInv'
    BY <1>15 DEF LinkFails, DropTmp, Finish, Go, There, TypeOK, NamedInv, AgreeInv,
           NothingToReplace, Attached, Inodes, Paths
  <2> QED BY <2>1, <2>2, <2>3, <2>4
<1>16. CASE Tidy(w)
  <2>1. WorkersInv'
    BY <1>16 DEF Tidy, DropTmp, Go, TypeOK, Inodes
  <2>2. DistinctInv'
    BY <1>16 DEF Tidy, DropTmp, Go, TypeOK, DistinctInv, Inodes
  <2>3. NamedInv'
    BY <1>16 DEF Tidy, DropTmp, Go, There, TypeOK, NamedInv, Inodes, Paths
  <2>4. AgreeInv'
    BY <1>16 DEF Tidy, DropTmp, Go, There, TypeOK, NamedInv, AgreeInv, NothingToReplace,
           Attached, Inodes, Paths
  <2> QED BY <2>1, <2>2, <2>3, <2>4
<1>17. CASE Keep(w)
  <2>1. WorkersInv'
    BY <1>17 DEF Keep, Finish, Go, Replaced, There, TypeOK, Inodes
  <2>2. DistinctInv'
    BY <1>17 DEF Keep, Finish, Go, Replaced, There, TypeOK, DistinctInv, Inodes
  <2>3. NamedInv'
    BY <1>17 DEF Keep, Finish, Go, Replaced, There, TypeOK, NamedInv, Inodes, Paths
  <2>4. AgreeInv'
    BY <1>17 DEF Keep, Finish, Go, Replaced, There, TypeOK, NamedInv, AgreeInv,
           NothingToReplace, Attached, Inodes, Paths
  <2> QED BY <2>1, <2>2, <2>3, <2>4
<1>18. CASE JoinWinner(w)
  <2>1. WorkersInv'
    BY <1>18 DEF JoinWinner, Again, Finish, Go, Replaced, There, TypeOK, Inodes
  <2>2. DistinctInv'
    BY <1>18 DEF JoinWinner, Again, Finish, Go, Replaced, There, TypeOK, DistinctInv, Inodes
  <2>3. NamedInv'
    BY <1>18 DEF JoinWinner, Again, Finish, Go, Replaced, There, TypeOK, NamedInv, Inodes, Paths
  <2>4. AgreeInv'
    BY <1>18 DEF JoinWinner, Again, Finish, Go, Replaced, There, TypeOK, NamedInv, AgreeInv,
           NothingToReplace, Attached, Inodes, Paths
  <2> QED BY <2>1, <2>2, <2>3, <2>4
<1> QED BY <1>1, <1>2, <1>3, <1>4, <1>5, <1>6, <1>7, <1>8, <1>9, <1>10, <1>11, <1>12, <1>13,
       <1>14, <1>15, <1>16, <1>17, <1>18 DEF AttachStep

\* A second attempt is begun only in front of a finished ring, which stays.
LEMMA WorkerSecond ==
  ASSUME IInv, SecondAttemptFinds, NEW w \in Workers, AttachStep(w), UNCHANGED <<deathVars,
         collectorVars>>
  PROVE  SecondAttemptFinds'
<1> USE AttachAssumption DEF IInv, NoFile, TypeOK, WorkersInv, WorkerOK, Building, At,
       SecondAttemptFinds, There, Usable, NamedInv, AgreeInv, NothingToReplace, Inodes, Paths
<1>1. CASE Begin(w)
  BY <1>1 DEF Begin, Go
<1>2. CASE Leave(w)
  BY <1>2 DEF Leave
<1>3. CASE Reuse(w)
  BY <1>3 DEF Reuse, Finish, Go
<1>4. CASE OpenFails(w)
  BY <1>4 DEF OpenFails, Finish, Go
<1>5. CASE Unusable(w)
  BY <1>5 DEF Unusable, Go
<1>6. CASE Missing(w)
  BY <1>6 DEF Missing, Go
<1>7. CASE MakeRoom(w)
  BY <1>7 DEF MakeRoom, Go
<1>8. CASE Create(w)
  <2> DEFINE i == CHOOSE i \in Unused : TRUE
  <2>1. i \in Inodes /\ file[i] = "unused"
    BY <1>8 DEF Create, Unused
  <2>2. file' = [file EXCEPT ![i] = "raw"] /\ UNCHANGED <<try, dir[Published]>>
    BY <1>8 DEF Create
  <2>3. At(w, "create") /\ \A v \in Workers : v # w => pc'[v] = pc[v]
    BY <1>8 DEF Create, Go
  <2> HIDE DEF i
  <2>4. SUFFICES ASSUME \A j \in Inodes : file'[j] \notin {"stale", "foreign"},
                        NEW v \in Workers, try'[v] > 1
                 PROVE  try'[v] = 2 /\ At(v, "open")' /\ There' # NoFile /\ Usable(There)'
    OBVIOUS
  <2>5. \A j \in Inodes : file[j] \notin {"stale", "foreign"}
    BY <2>1, <2>2, <2>4
  <2>6. v # w
    BY <2>2, <2>3, <2>4, <2>5
  <2> QED BY <2>1, <2>2, <2>3, <2>4, <2>5, <2>6
<1>9. CASE CreateFails(w)
  BY <1>9 DEF CreateFails, Finish, Go
<1>10. CASE Stamp(w)
  BY <1>10 DEF Stamp, Go
<1>11. CASE StampFails(w)
  BY <1>11 DEF StampFails, DropTmp, Finish, Go
<1>12. CASE Size(w)
  BY <1>12 DEF Size, Go
<1>13. CASE Link(w)
  BY <1>13 DEF Link, Go
<1>14. CASE LinkExists(w)
  BY <1>14 DEF LinkExists, DropTmp, Again, Finish, Go
<1>15. CASE LinkFails(w)
  BY <1>15 DEF LinkFails, DropTmp, Finish, Go
<1>16. CASE Tidy(w)
  BY <1>16 DEF Tidy, DropTmp, Go
<1>17. CASE Keep(w)
  BY <1>17 DEF Keep, Finish, Go, Replaced
<1>18. CASE JoinWinner(w)
  BY <1>18 DEF JoinWinner, Again, Finish, Go, Replaced
<1> QED BY <1>1, <1>2, <1>3, <1>4, <1>5, <1>6, <1>7, <1>8, <1>9, <1>10, <1>11, <1>12, <1>13,
       <1>14, <1>15, <1>16, <1>17, <1>18 DEF AttachStep

\* A worker gives its temporary name up on every way out.
LEMMA WorkerTidy ==
  ASSUME IInv, NoLitter, NEW w \in Workers, AttachStep(w), UNCHANGED <<deathVars,
         collectorVars>>
  PROVE  NoLitter'
<1> USE AttachAssumption DEF IInv, NoFile, TypeOK, WorkersInv, WorkerOK, Building, At,
       deathVars, NoLitter, Paths
<1>1. CASE Begin(w)
  BY <1>1 DEF Begin, Go
<1>2. CASE Leave(w)
  BY <1>2 DEF Leave
<1>3. CASE Reuse(w)
  BY <1>3 DEF Reuse, Finish, Go, There, Usable
<1>4. CASE OpenFails(w)
  BY <1>4 DEF OpenFails, Finish, Go, There
<1>5. CASE Unusable(w)
  BY <1>5 DEF Unusable, Go, There, Usable
<1>6. CASE Missing(w)
  BY <1>6 DEF Missing, Go, There
<1>7. CASE MakeRoom(w)
  BY <1>7 DEF MakeRoom, Go, There
<1>8. CASE Create(w)
  BY <1>8 DEF Create, Go, Unused
<1>9. CASE CreateFails(w)
  BY <1>9 DEF CreateFails, Finish, Go
<1>10. CASE Stamp(w)
  BY <1>10 DEF Stamp, Go
<1>11. CASE StampFails(w)
  BY <1>11 DEF StampFails, DropTmp, Finish, Go
<1>12. CASE Size(w)
  BY <1>12 DEF Size, Go
<1>13. CASE Link(w)
  BY <1>13 DEF Link, Go, There
<1>14. CASE LinkExists(w)
  BY <1>14 DEF LinkExists, DropTmp, Again, Finish, Go, There
<1>15. CASE LinkFails(w)
  BY <1>15 DEF LinkFails, DropTmp, Finish, Go
<1>16. CASE Tidy(w)
  BY <1>16 DEF Tidy, DropTmp, Go
<1>17. CASE Keep(w)
  BY <1>17 DEF Keep, Finish, Go, Replaced, There
<1>18. CASE JoinWinner(w)
  BY <1>18 DEF JoinWinner, Again, Finish, Go, Replaced, There
<1> QED BY <1>1, <1>2, <1>3, <1>4, <1>5, <1>6, <1>7, <1>8, <1>9, <1>10, <1>11, <1>12, <1>13,
       <1>14, <1>15, <1>16, <1>17, <1>18 DEF AttachStep

\* A killed worker leaves files and names as they are.
LEMMA DeathStep ==
  ASSUME IInv, NEW w \in Workers, Die(w)
  PROVE  IInv'
<1> USE AttachAssumption DEF IInv, Die, Finish, Go
<1>1. TypeOK'
  BY DEF TypeOK, Paths, WorkerStates, MaxAttempts, NoFile, collectorVars
<1>2. WorkersInv'
  BY DEF WorkersInv, WorkerOK, Building, At, TypeOK, NoFile
<1>3. DistinctInv'
  BY DEF DistinctInv, Building, TypeOK
<1>4. NamedInv'
  BY DEF NamedInv, There
<1>5. AgreeInv'
  BY DEF AgreeInv, NothingToReplace, Attached, At, There, TypeOK, NoFile
<1> QED BY <1>1, <1>2, <1>3, <1>4, <1>5

\* Neither does it touch attempts and names of others.
LEMMA DeathKeeps ==
  ASSUME TypeOK, NEW w \in Workers, Die(w)
  PROVE  /\ SecondAttemptFinds => SecondAttemptFinds'
         /\ NoLitter => NoLitter'
<1> USE DEF Die, Finish, Go, TypeOK
<1>1. ASSUME SecondAttemptFinds PROVE SecondAttemptFinds'
  BY <1>1 DEF SecondAttemptFinds, At, There, Usable
<1>2. ASSUME NoLitter PROVE NoLitter'
  BY <1>2 DEF NoLitter
<1> QED BY <1>1, <1>2

\* The collector only reads the directory.
LEMMA RescanKeeps ==
  ASSUME UNCHANGED <<workerVars, deathVars>>
  PROVE  /\ WorkersInv /\ DistinctInv /\ NamedInv /\ AgreeInv
            => (WorkersInv /\ DistinctInv /\ NamedInv /\ AgreeInv)'
         /\ SecondAttemptFinds => SecondAttemptFinds'
         /\ NoLitter => NoLitter'
BY DEF workerVars, deathVars, WorkersInv, WorkerOK, Building, At, DistinctInv, NamedInv,
       AgreeInv, NothingToReplace, Attached, There, SecondAttemptFinds, Usable, NoLitter

-----------------------------------------------------------------------------
(* The invariants *)

\* They hold to begin with, whatever is at the published path.
LEMMA InitIInv == Init => IInv /\ SecondAttemptFinds /\ NoLitter
<1> SUFFICES ASSUME Init PROVE IInv /\ SecondAttemptFinds /\ NoLitter
  OBVIOUS
<1> USE AttachAssumption
<1>1. PICK start \in Starts :
        /\ dir  = [p \in Paths |-> IF p = Published /\ start # "absent" THEN First ELSE NoFile]
        /\ file = [i \in Inodes |-> IF i = First /\ start # "absent" THEN start ELSE "unused"]
  BY DEF Init
<1>2. /\ pc   = [w \in Workers |-> "idle"]
      /\ try  = [w \in Workers |-> 1]
      /\ mine = [w \in Workers |-> NoFile]
      /\ ring = [w \in Workers |-> NoFile]
  BY DEF Init
<1>3. start \in {"absent", "ready", "stale",
       "foreign"} /\ First \in Inodes /\ Published \in Paths
  BY DEF First, Inodes, Paths
<1>4. TypeOK
  <2>1. /\ dir \in [Paths -> Inodes \cup {NoFile}]
        /\ file \in [Inodes -> FileStates]
    BY <1>1, <1>3 DEF FileStates
  <2>2. src \in [Paths -> Source]
    BY DEF Init, NoSource, Source
  <2>3. found \in [path : Paths, ino : Inodes \cup {NoFile}]
    BY DEF Init, Nothing, Paths
  <2> QED BY <1>2, <2>1, <2>2, <2>3 DEF Init, TypeOK, WorkerStates, MaxAttempts
<1>5. WorkersInv /\ DistinctInv /\ SecondAttemptFinds
  BY <1>2 DEF WorkersInv, WorkerOK, Building, At, DistinctInv, SecondAttemptFinds
<1>6. NamedInv
  BY <1>1, <1>3 DEF NamedInv, There, NoFile, First
<1>7. AgreeInv
  BY <1>2 DEF AgreeInv, At, Attached
<1>8. NoLitter
  BY <1>1 DEF NoLitter, Paths
<1> QED BY <1>4, <1>5, <1>6, <1>7, <1>8 DEF IInv

\* Every step keeps them.
LEMMA StepIInv ==
  ASSUME IInv, [Next]_vars
  PROVE  /\ IInv'
         /\ SecondAttemptFinds => SecondAttemptFinds'
         /\ NoLitter => NoLitter'
<1>1. ASSUME NEW w \in Workers, AttachStep(w), UNCHANGED <<deathVars, collectorVars>>
      PROVE  /\ IInv'
             /\ SecondAttemptFinds => SecondAttemptFinds'
             /\ NoLitter => NoLitter'
  BY <1>1, WorkerTypes, WorkerInvs, WorkerSecond, WorkerTidy DEF IInv
<1>2. ASSUME RescanStep, UNCHANGED <<workerVars, deathVars>>
      PROVE  /\ IInv'
             /\ SecondAttemptFinds => SecondAttemptFinds'
             /\ NoLitter => NoLitter'
  BY <1>2, RescanFrame, RescanKeeps DEF IInv
<1>3. ASSUME NEW w \in Workers, Die(w)
      PROVE  /\ IInv'
             /\ SecondAttemptFinds => SecondAttemptFinds'
             /\ NoLitter => NoLitter'
  BY <1>3, DeathStep, DeathKeeps DEF IInv
<1>4. CASE UNCHANGED vars
  <2>1. TypeOK'
    BY <1>4 DEF IInv, TypeOK, vars, workerVars, deathVars, collectorVars
  <2> QED BY <1>4, <2>1, RescanKeeps DEF IInv, vars
<1> QED BY <1>1, <1>2, <1>3, <1>4 DEF Next

\* The inductive invariant, and the two properties that are inductive next to it.
THEOREM Inductive == Spec => [](IInv /\ SecondAttemptFinds /\ NoLitter)
<1>1. IInv /\ SecondAttemptFinds /\ NoLitter /\ [Next]_vars
        => (IInv /\ SecondAttemptFinds /\ NoLitter)'
  BY StepIInv
<1> QED BY InitIInv, <1>1, PTL DEF Spec

\* Every value keeps its kind.
THEOREM TypeCorrect == Spec => []TypeOK
BY Inductive, PTL DEF IInv

\* A worker writes only into a finished ring of its own user (phpray_ring_attach).
THEOREM WritesSound == Spec => []WritesIntoFinished
<1>1. IInv => WritesIntoFinished
  BY DEF IInv, WorkersInv, WorkerOK, WritesIntoFinished, Attached
<1> QED BY <1>1, Inductive, PTL

\* Unless a stale ring was to be replaced, all attached workers share the published ring.
THEOREM WorkersAgree == Spec => []AgreeUnlessStale
<1>1. IInv => AgreeUnlessStale
  BY DEF IInv, AgreeInv, AgreeUnlessStale
<1> QED BY <1>1, Inductive, PTL

\* The second of the three attempts succeeds unless something stale or foreign is there.
THEOREM NoThirdAttempt == Spec => []SecondAttemptFinds
BY Inductive, PTL

\* Temporary files are left behind by killed workers only.
THEOREM TmpOwned == Spec => []NoLitter
BY Inductive, PTL

\* However many workers build at once, none runs out of attempts or leaves a file behind.
THEOREM BuildersEnd == Spec => []BuildersOrderly
<1>1. SecondAttemptFinds /\ NoLitter => BuildersOrderly
  BY DEF BuildersOrderly
<1> QED BY <1>1, Inductive, PTL

\* The reader of the published name copied a capacity.
SizedInv == src[Published].sized

\* Every step keeps it: what can be opened by the published name is complete.
LEMMA StepSized ==
  ASSUME IInv, SizedInv, [Next]_vars
  PROVE  SizedInv'
<1> USE AttachAssumption DEF IInv, TypeOK, SizedInv
<1> DEFINE Kept == UNCHANGED src
<1>1. ASSUME Kept PROVE SizedInv'
  BY <1>1
<1>2. ASSUME NEW w \in Workers, AttachStep(w), UNCHANGED <<deathVars, collectorVars>> PROVE Kept
  BY <1>2 DEF collectorVars
<1>3. ASSUME NEW w \in Workers, Die(w) PROVE Kept
  BY <1>3 DEF Die, collectorVars
<1>4. CASE UNCHANGED vars
  BY <1>4 DEF vars, collectorVars
<1>5. CASE Glob \/ \E p \in Paths : Vanished(p) \/ Unchanged(p)
  BY <1>5 DEF Glob, Vanished, Unchanged
<1>6. ASSUME NEW p \in Paths, Differs(p) PROVE SizedInv'
  BY <1>6 DEF Differs, NoSource
<1>7. CASE Open
  <2>1. There # NoFile => file[There] # "half"
    BY DEF NamedInv
  <2>2. CASE found.path # Published
    BY <1>7, <2>2 DEF Open, Paths
  <2>3. CASE found.path = Published /\ There # NoFile /\ Openable(There)
    <3> DEFINE s == [ino |-> found.ino, maps |-> There, sized |-> file[There] # "half"]
    <3>1. src' = [src EXCEPT ![Published] = s]
      BY <1>7, <2>3 DEF Open, There
    <3>2. src'[Published] = s
      BY <3>1 DEF Paths
    <3>3. s.sized
      BY <2>1, <2>3
    <3> HIDE DEF s
    <3> QED BY <3>2, <3>3
  <2>4. CASE found.path = Published /\ ~(There # NoFile /\ Openable(There))
    BY <1>7, <2>4 DEF Open, There
  <2> QED BY <2>2, <2>3, <2>4
<1>8. CASE CloseGone
  BY <1>8 DEF CloseGone, NoSource, Paths
<1> QED BY <1>1, <1>2, <1>3, <1>4, <1>5, <1>6, <1>7, <1>8 DEF Next, RescanStep

\* What carries the published name is complete, and whoever opens it by this name sees
\* the capacity (link after ring_init_header).
THEOREM PublishedWhole == Spec => []NamedRingWhole
<1>1. Init => SizedInv
  BY DEF SizedInv, Init, NoSource, Paths
<1>2. IInv /\ SizedInv => NamedRingWhole
  BY DEF IInv, NamedInv, SizedInv, NamedRingWhole
<1>3. IInv /\ SizedInv /\ [Next]_vars => SizedInv'
  BY StepSized
<1> QED BY <1>1, <1>2, <1>3, Inductive, PTL DEF Spec

\* Neither the collector, by the published name, nor a worker meets an unfinished ring.
THEOREM RingsComplete == Spec => []RingsFinished
<1>1. NamedRingWhole /\ WritesIntoFinished => RingsFinished
  BY DEF RingsFinished
<1> QED BY <1>1, PublishedWhole, WritesSound, PTL

\* What is published and used is finished, and building it comes to an end, clean.
THEOREM RingsBuilt == Spec => []RingsOrderly
<1>1. RingsFinished /\ BuildersOrderly => RingsOrderly
  BY DEF RingsOrderly
<1> QED BY <1>1, RingsComplete, BuildersEnd, PTL

=============================================================================
