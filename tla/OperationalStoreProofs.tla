----------------------- MODULE OperationalStoreProofs -----------------------
(***************************************************************************)
(* Theorems about OperationalStore, for every number of days, every limit  *)
(* and every number of times the process is killed: its types, that no     *)
(* acknowledged event is lost before the retention, that a read returns     *)
(* what it must, and that a published archive is never rewritten.          *)
(***************************************************************************)
EXTENDS OperationalStore, SequenceTheorems, TLAPS

MaintainStages ==
  {"archiving", "packed", "renamed", "published", "expiring", "half"}

\* A stage belongs to the work that runs.
StageOfWork ==
  /\ stage = "written" => Running("append") /\ Here(live, queue[1].day)
  /\ stage \in MaintainStages => Running("maintain")
  /\ process = "down" => queue = <<>>
  /\ process = "starting" => queue = <<Maintain>>
  /\ today <= clock

\* The day whose last write is not synchronised.
Unsynced(d) == stage = "written" /\ queue[1].day = d

\* What an acknowledgement rests on.
Kept(d) ==
  /\ Here(live, d) => live[d] >= acked[d]
  /\ Unsynced(d) => live[d] >= acked[d] + 1
  /\ ~Here(live, d) /\ acked[d] > 0 => Verified(d) /\ archive[d] >= acked[d]

\* What the running maintenance knows of the day it handles.
Known(d) ==
  /\ stage \in {"archiving", "packed", "renamed", "published"} /\ d \in todo
       => Here(live, d)
  /\ At("packed", d) => ~Here(manifest, d)
  /\ At("renamed", d) => ~Here(manifest, d) /\ archive[d] = live[d]
  /\ At("published", d) => Matches(d)
  /\ stage \in {"expiring", "half"} /\ d \in todo => Age(d) >= RetentionDays
  /\ At("half", d) => acked[d] = 0

\* The inductive invariant.
IInv ==
  /\ TypeOK
  /\ StageOfWork
  /\ \A d \in Days : Kept(d) /\ Known(d)

LEMMA Initially == Init => IInv
<1> SUFFICES ASSUME Init PROVE IInv
  OBVIOUS
<1>1. TypeOK
  <2>1. 0 \in Days /\ Absent \in Lengths /\ 0 \in 0..MaxStops
    BY StoreAssumption DEF Days, Lengths
  <2>2. <<>> \in Seq(Works) /\ Len(<<>>) <= QueueLimit
    BY StoreAssumption
  <2> QED
    BY <2>1, <2>2 DEF Init, TypeOK, NoReader, Readers
<1>2. StageOfWork
  BY DEF Init, StageOfWork, MaintainStages
<1>3. ASSUME NEW d \in Days PROVE Kept(d) /\ Known(d)
  BY <1>3 DEF Init, Kept, Known, Unsynced, At, Here, Absent
<1> QED
  BY <1>1, <1>2, <1>3 DEF IInv

-----------------------------------------------------------------------------
(* What the chain holds.                                                   *)

LEMMA Sequences ==
  ASSUME NEW S, NEW q \in Seq(S), NEW w \in S
  PROVE  /\ Len(q) \in Nat
         /\ Append(q, w) \in Seq(S) /\ Append(q, w) # <<>>
         /\ Len(Append(q, w)) = Len(q) + 1
         /\ <<w>> \in Seq(S) /\ <<w>> # <<>> /\ <<w>>[1] = w /\ Len(<<w>>) = 1
         /\ q # <<>> => /\ q[1] \in S /\ Tail(q) \in Seq(S)
                        /\ Len(Tail(q)) = Len(q) - 1
                        /\ Append(q, w)[1] = q[1]
<1>1. /\ Append(q, w) \in Seq(S) /\ Append(q, w) # <<>>
      /\ Len(Append(q, w)) = Len(q) + 1 /\ Len(q) \in Nat
  BY AppendProperties, LenProperties
<1>2. <<w>> \in Seq(S) /\ <<w>> # <<>> /\ <<w>>[1] = w /\ Len(<<w>>) = 1
  OBVIOUS
<1>3. ASSUME q # <<>>
      PROVE  q[1] \in S /\ Tail(q) \in Seq(S) /\ Len(Tail(q)) = Len(q) - 1
  BY <1>3
<1>4. ASSUME q # <<>> PROVE Append(q, w)[1] = q[1]
  BY <1>4
<1> QED
  BY <1>1, <1>2, <1>3, <1>4

LEMMA TailOfOne ==
  ASSUME NEW w
  PROVE  Tail(<<w>>) = <<>>
  OBVIOUS

LEMMA WorksAre ==
  /\ Maintain \in Works
  /\ \A d \in Days : AppendOf(d) \in Works
  /\ \A w \in Works : w.day \in Days
<1>1. 0 \in Days
  BY StoreAssumption DEF Days
<1> QED
  BY <1>1 DEF Works, Maintain, AppendOf

\* The queue may be extended, and its first work taken away or kept.
LEMMA Chain ==
  ASSUME TypeOK, NEW w \in Works
  PROVE  /\ Append(queue, w) \in Seq(Works) /\ Append(queue, w) # <<>>
         /\ Len(queue) < QueueLimit => Len(Append(queue, w)) <= QueueLimit
         /\ <<w>> \in Seq(Works) /\ <<w>> # <<>> /\ <<w>>[1] = w
         /\ Len(<<w>>) <= QueueLimit
         /\ queue # <<>> => /\ queue[1] \in Works /\ queue[1].day \in Days
                            /\ Tail(queue) \in Seq(Works)
                            /\ Len(Tail(queue)) <= QueueLimit
                            /\ Append(queue, w)[1] = queue[1]
<1>1. queue \in Seq(Works) /\ Len(queue) <= QueueLimit
  BY DEF TypeOK
<1>2. QueueLimit \in Nat \ {0}
  BY StoreAssumption
<1> QED
  BY <1>1, <1>2, Sequences, WorksAre

\* A length is the number of writes of a file, or says that there is none.
LEMMA DaysAre ==
  /\ \A d \in Days : d \in Nat
  /\ \A n : n \in Lengths <=> (n = Absent \/ n \in 0..DayLimit)
  /\ Absent = -1 /\ 0 \in Days /\ DayLimit \in Nat
  /\ \A n \in Days : n < LastDay => n + 1 \in Days
  BY StoreAssumption DEF Days, Lengths, Absent

-----------------------------------------------------------------------------
(* A maintenance that throws, and the steps of an append.                  *)

\* A maintenance that throws ends the chain of an agent that does not start.
LEMMA Fails ==
  ASSUME IInv, Fail, queue # <<>>
  PROVE  StageOfWork'
<1>1. stage' = "idle" /\ today' = 0 /\ clock' = clock /\ queue' = Tail(queue)
  BY DEF Fail, Settle, Reset
<1>2. today' <= clock'
  BY <1>1, DaysAre DEF IInv, TypeOK
<1>3. process' = "down" => process = "starting"
  BY DEF Fail, IInv, StageOfWork
<1>4. process' # "starting"
  BY DEF Fail, IInv, TypeOK
<1>5. process' = "down" => queue' = <<>>
  BY <1>1, <1>3, TailOfOne DEF IInv, StageOfWork
<1> QED
  BY <1>1, <1>2, <1>4, <1>5 DEF StageOfWork, MaintainStages

\* A write that may be lost was not acknowledged.
LEMMA Loses ==
  ASSUME IInv, MayLose
  PROVE  /\ live' \in [Days -> Lengths]
         /\ \A d \in Days : /\ Here(live, d) <=> live'[d] # Absent
                            /\ Here(live, d) => live'[d] >= acked[d]
<1>1. CASE UNCHANGED live
  BY <1>1 DEF IInv, TypeOK, Kept, Here
<1>2. CASE stage = "written" /\ live' = [live EXCEPT ![queue[1].day] = @ - 1]
  <2> DEFINE w == queue[1].day
  <2>1. w \in Days
    BY <1>2, Chain, WorksAre DEF IInv, TypeOK, StageOfWork, Running
  <2>2. live[w] \in 0..DayLimit /\ acked[w] \in Nat /\ live[w] >= acked[w] + 1
    BY <1>2, <2>1, DaysAre DEF IInv, TypeOK, StageOfWork, Kept, Unsynced, Here
  <2>3. live[w] - 1 \in 0..DayLimit /\ live[w] - 1 >= acked[w]
    BY <2>2, DaysAre
  <2>6. live \in [Days -> Lengths]
    BY DEF IInv, TypeOK
  <2>7. live'[w] = live[w] - 1 /\ \A d \in Days : d # w => live'[d] = live[d]
    BY <1>2, <2>1, <2>6
  <2>4. ASSUME NEW d \in Days
        PROVE  /\ Here(live, d) <=> live'[d] # Absent
               /\ Here(live, d) => live'[d] >= acked[d]
    <3>1. CASE d = w
      BY <3>1, <2>2, <2>3, <2>7, DaysAre DEF Here
    <3>2. CASE d # w
      BY <3>2, <2>7 DEF IInv, Kept, Here
    <3> QED
      BY <3>1, <3>2
  <2>5. live' \in [Days -> Lengths]
    BY <1>2, <2>1, <2>3, <2>6, DaysAre
  <2> QED
    BY <2>4, <2>5
<1> QED
  BY <1>1, <1>2 DEF MayLose

\* An append never begins the live file of a day that is archived.
LEMMA Writes ==
  ASSUME IInv, AppendWrite
  PROVE  /\ queue[1].day \in Days
         /\ live' \in [Days -> Lengths]
         /\ \A d \in Days : d # queue[1].day => live'[d] = live[d]
         /\ live'[queue[1].day] \in Nat
         /\ live'[queue[1].day] >= acked[queue[1].day] + 1
<1> DEFINE w == queue[1].day
<1>1. w \in Days
  BY Chain, WorksAre DEF IInv, TypeOK, AppendWrite, Running
<1>2. Size(w) + 1 \in 0..DayLimit
  <2>1. Size(w) \in 0..DayLimit
    <3>1. live[w] \in Lengths
      BY <1>1 DEF IInv, TypeOK
    <3> QED
      BY <3>1, DaysAre DEF Size, Here
  <2>2. ~(Size(w) + 1 > DayLimit)
    BY DEF AppendWrite, Refused
  <2> QED
    BY <2>1, <2>2, DaysAre
<1>3. live' = [live EXCEPT ![w] = Size(w) + 1]
  BY DEF AppendWrite
<1>4. Size(w) >= acked[w]
  <2>1. acked[w] \in Nat /\ Kept(w)
    BY <1>1 DEF IInv, TypeOK
  <2>2. CASE Here(live, w)
    BY <2>1, <2>2 DEF Kept, Size
  <2>3. CASE ~Here(live, w)
    <3>1. ~Here(archive, w)
      BY <2>3 DEF AppendWrite, Refused
    <3>2. ~(Verified(w) /\ archive[w] >= acked[w]) \/ acked[w] <= Absent
      BY <2>1, <3>1 DEF Here, Absent
    <3>3. acked[w] = 0
      BY <2>1, <2>3, <3>2 DEF Kept, Absent
    <3> QED
      BY <2>3, <3>3 DEF Size
  <2> QED
    BY <2>2, <2>3
<1>5. acked[w] \in Nat /\ Size(w) \in Int
  <2>1. acked[w] \in Nat /\ live[w] \in Lengths
    BY <1>1 DEF IInv, TypeOK
  <2>2. live[w] \in Int
    BY <2>1, DaysAre
  <2> QED
    BY <2>1, <2>2 DEF Size
<1>6. live'[w] = Size(w) + 1 /\ \A d \in Days : d # w => live'[d] = live[d]
  BY <1>1, <1>3 DEF IInv, TypeOK
<1>7. live' \in [Days -> Lengths]
  BY <1>1, <1>2, <1>3, DaysAre DEF IInv, TypeOK
<1> QED
  BY <1>1, <1>2, <1>4, <1>5, <1>6, <1>7

\* What is acknowledged is in the live file.
LEMMA Syncs ==
  ASSUME IInv, AppendSync
  PROVE  /\ queue[1].day \in Days
         /\ acked' = [acked EXCEPT ![queue[1].day] = live[queue[1].day]]
         /\ acked' \in [Days -> Nat]
<1> DEFINE w == queue[1].day
<1>1. w \in Days
  BY Chain, WorksAre DEF IInv, TypeOK, AppendSync, Running
<1>2. live[w] \in Nat /\ acked[w] \in Nat /\ live[w] > acked[w]
  <2>1. acked[w] \in Nat /\ live[w] \in Lengths
    BY <1>1, DaysAre DEF IInv, TypeOK
  <2>2. Unsynced(w)
    BY <1>1, DaysAre DEF StageOfWork, Unsynced, AppendSync
  <2>3. live[w] # Absent /\ live[w] > acked[w]
    BY <1>1, <2>1, <2>2, DaysAre DEF IInv, Kept, Here
  <2> QED
    BY <2>1, <2>3, DaysAre
<1>3. acked' = [acked EXCEPT ![w] = live[w]]
  BY <1>2 DEF AppendSync
<1> QED
  BY <1>1, <1>2, <1>3 DEF IInv, TypeOK

-----------------------------------------------------------------------------
(* One step.                                                               *)

LEMMA TypesKept ==
  ASSUME IInv, [Next]_vars
  PROVE  TypeOK'
<1>1. CASE Start
  BY <1>1, Chain, WorksAre, DaysAre, StoreAssumption
     DEF IInv, TypeOK, Kept, Unsynced, Start, disk
<1>2. CASE Stop
  <2>1. live' \in [Days -> Lengths]
    BY <1>2, Loses DEF Stop
  <2>2. NoReader \in Readers
    BY DaysAre DEF NoReader, Readers
  <2>3. <<>> \in Seq(Works) /\ Len(<<>>) <= QueueLimit
    BY StoreAssumption
  <2> QED
    BY <1>2, <2>1, <2>2, <2>3, DaysAre, StoreAssumption
       DEF IInv, TypeOK, Stop, Reset
<1>3. CASE Tick
  BY <1>3, Chain, WorksAre, DaysAre, StoreAssumption
     DEF IInv, TypeOK, Kept, Unsynced, Tick, work, disk
<1>4. CASE RequestAppend
  BY <1>4, Chain, WorksAre, DaysAre, StoreAssumption
     DEF IInv, TypeOK, Kept, Unsynced, RequestAppend, Enqueue, disk
<1>5. CASE RequestMaintain
  BY <1>5, Chain, WorksAre, DaysAre, StoreAssumption
     DEF IInv, TypeOK, Kept, Unsynced, RequestMaintain, Enqueue, disk
<1>6. CASE AppendRefused
  BY <1>6, Chain, WorksAre, DaysAre, StoreAssumption
     DEF IInv, TypeOK, Kept, Unsynced, AppendRefused, Running, Settle, Reset,
         disk
<1>7. CASE AppendWrite
  BY <1>7, Writes DEF IInv, TypeOK, AppendWrite, Running
<1>8. CASE AppendSync
  <2>1. acked' \in [Days -> Nat]
    BY <1>8, Syncs
  <2> QED
    BY <1>8, <2>1, Chain, WorksAre, DaysAre
       DEF IInv, TypeOK, AppendSync, Running, Settle, Reset, disk
<1>9. CASE AppendFails
  <2>1. live' \in [Days -> Lengths]
    BY <1>9, Loses DEF AppendFails
  <2> QED
    BY <1>9, <2>1, Chain, WorksAre, DaysAre
       DEF IInv, TypeOK, AppendFails, Running, Settle, Reset
<1>10. CASE MaintainBegin
  BY <1>10, Chain, WorksAre, DaysAre, StoreAssumption
     DEF IInv, TypeOK, Kept, Unsynced, MaintainBegin, Running, disk
<1>11. CASE ExpireBegin
  BY <1>11, Chain, WorksAre, DaysAre, StoreAssumption
     DEF IInv, TypeOK, Kept, Unsynced, ExpireBegin, Running, Goto, disk
<1>12. CASE MaintainEnd
  BY <1>12, Chain, WorksAre, DaysAre, StoreAssumption
     DEF IInv, TypeOK, Kept, Unsynced, MaintainEnd, Running, Reset, disk
<1>13. ASSUME NEW e \in Days, ArchiveKnown(e) PROVE TypeOK'
  BY <1>13, Chain, WorksAre, DaysAre, StoreAssumption
     DEF IInv, TypeOK, Kept, Unsynced, ArchiveKnown, At, Running, Goto, disk
<1>14. ASSUME NEW e \in Days, ArchiveDiffers(e) PROVE TypeOK'
  BY <1>14, Chain, WorksAre, DaysAre, StoreAssumption
     DEF IInv, TypeOK, Kept, Unsynced, ArchiveDiffers, At, Running, Fail,
         Settle, Reset, disk
<1>15. ASSUME NEW e \in Days, ArchivePack(e) PROVE TypeOK'
  BY <1>15, Chain, WorksAre, DaysAre, StoreAssumption
     DEF IInv, TypeOK, Kept, Unsynced, ArchivePack, At, Running, Goto, disk
<1>16. ASSUME NEW e \in Days, ArchiveRename(e) PROVE TypeOK'
  BY <1>16, Chain, WorksAre, DaysAre, StoreAssumption
     DEF IInv, TypeOK, Kept, Unsynced, ArchiveRename, At, Running, Goto
<1>17. ASSUME NEW e \in Days, ArchivePublish(e) PROVE TypeOK'
  BY <1>17, Chain, WorksAre, DaysAre, StoreAssumption
     DEF IInv, TypeOK, Kept, Unsynced, ArchivePublish, At, Running, Goto
<1>18. ASSUME NEW e \in Days, ArchiveNext(e) PROVE TypeOK'
  BY <1>18, Chain, WorksAre, DaysAre, StoreAssumption
     DEF IInv, TypeOK, Kept, Unsynced, ArchiveNext, At, Running, Goto
<1>20. ASSUME NEW e \in Days, ExpireMissing(e) PROVE TypeOK'
  BY <1>20, Chain, WorksAre, DaysAre, StoreAssumption
     DEF IInv, TypeOK, Kept, Unsynced, ExpireMissing, At, Running, Fail,
         Settle, Reset, disk
<1>21. ASSUME NEW e \in Days, ExpireArchive(e) PROVE TypeOK'
  BY <1>21, Chain, WorksAre, DaysAre, StoreAssumption
     DEF IInv, TypeOK, Kept, Unsynced, ExpireArchive, At, Running, Goto
<1>22. ASSUME NEW e \in Days, ExpireManifest(e) PROVE TypeOK'
  BY <1>22, Chain, WorksAre, DaysAre, StoreAssumption
     DEF IInv, TypeOK, Kept, Unsynced, ExpireManifest, At, Running, Goto
<1>23. CASE Reading
  <2>1. reader' \in Readers
    <3>1. reader \in Readers
      BY DEF IInv, TypeOK
    <3>2. CASE ReadFile
      <4>1. live[reader.day] \in Int /\ archive[reader.day] \in Int
        BY <3>1, DaysAre DEF IInv, TypeOK, Readers
      <4> QED
        BY <3>1, <3>2, <4>1 DEF ReadFile, Read, Readers
    <3>3. CASE ReadEnd
      BY <3>3, DaysAre DEF ReadEnd, Read, NoReader, Readers
    <3>4. ASSUME NEW e \in Days, ReadBegin(e) PROVE reader' \in Readers
      BY <3>4 DEF IInv, TypeOK, ReadBegin, Read, Readers, Here
    <3>5. CASE ListLive
      BY <3>1, <3>5 DEF ListLive, Read, Readers, Here
    <3>6. CASE ChooseFile
      BY <3>1, <3>6 DEF ChooseFile, Read, Readers
    <3> QED
      BY <1>23, <3>2, <3>3, <3>4, <3>5, <3>6, StoreAssumption DEF Reading, Days
  <2>2. UNCHANGED <<clock, disk, process, work, failing, stops, acked>>
    BY <1>23 DEF Reading, ReadFile, ReadEnd, ReadBegin, ListLive, ChooseFile, Read
  <2> QED
    BY <2>1, <2>2 DEF IInv, TypeOK, work, disk
<1>24. CASE UNCHANGED vars
  BY <1>24, Chain, WorksAre, DaysAre, StoreAssumption
     DEF IInv, TypeOK, Kept, Unsynced, vars, work, disk
<1> QED
  BY <1>1, <1>2, <1>3, <1>4, <1>5, <1>6, <1>7, <1>8, <1>9, <1>10, <1>11,
     <1>12, <1>13, <1>14, <1>15, <1>16, <1>17, <1>18, <1>20, <1>21,
     <1>22, <1>23, <1>24
     DEF Next, Appending, Maintenance

LEMMA StageKept ==
  ASSUME IInv, [Next]_vars
  PROVE  StageOfWork'
<1>1. CASE Start
  BY <1>1 DEF IInv, TypeOK, StageOfWork, MaintainStages, Start
<1>2. CASE Stop
  BY <1>2, TailOfOne, Chain, WorksAre, DaysAre, StoreAssumption
     DEF IInv, TypeOK, StageOfWork, MaintainStages, Kept, Unsynced, Running,
         Here, Maintain, AppendOf, Stop, Reset, MayLose
<1>3. CASE Tick
  BY <1>3, TailOfOne, Chain, WorksAre, DaysAre, StoreAssumption
     DEF IInv, TypeOK, StageOfWork, MaintainStages, Kept, Unsynced, Running,
         Here, Maintain, AppendOf, Tick, work, disk
<1>4. CASE RequestAppend
  BY <1>4, TailOfOne, Chain, WorksAre, DaysAre, StoreAssumption
     DEF IInv, TypeOK, StageOfWork, MaintainStages, Kept, Unsynced, Running,
         Here, Maintain, AppendOf, RequestAppend, Enqueue, disk
<1>5. CASE RequestMaintain
  BY <1>5, TailOfOne, Chain, WorksAre, DaysAre, StoreAssumption
     DEF IInv, TypeOK, StageOfWork, MaintainStages, Kept, Unsynced, Running,
         Here, Maintain, AppendOf, RequestMaintain, Enqueue, disk
<1>6. CASE AppendRefused
  BY <1>6, TailOfOne, Chain, WorksAre, DaysAre, StoreAssumption
     DEF IInv, TypeOK, StageOfWork, MaintainStages, Kept, Unsynced, Running,
         Here, Maintain, AppendOf, AppendRefused, Settle, Reset, disk
<1>7. CASE AppendWrite
  BY <1>7, Writes, DaysAre
     DEF IInv, StageOfWork, MaintainStages, AppendWrite, Running, Here
<1>8. CASE AppendSync
  BY <1>8, TailOfOne, Chain, WorksAre, DaysAre, StoreAssumption
     DEF IInv, TypeOK, StageOfWork, MaintainStages, Kept, Unsynced, Running,
         Here, Maintain, AppendOf, AppendSync, Settle, Reset, disk
<1>9. CASE AppendFails
  BY <1>9, TailOfOne, Chain, WorksAre, DaysAre, StoreAssumption
     DEF IInv, TypeOK, StageOfWork, MaintainStages, Kept, Unsynced, Running,
         Here, Maintain, AppendOf, AppendFails, Settle, Reset, MayLose
<1>10. CASE MaintainBegin
  <2>1. clock \in Nat
    BY DaysAre DEF IInv, TypeOK
  <2> QED
    BY <1>10, <2>1 DEF IInv, StageOfWork, MaintainStages, MaintainBegin, Running
<1>11. CASE ExpireBegin
  BY <1>11, TailOfOne, Chain, WorksAre, DaysAre, StoreAssumption
     DEF IInv, TypeOK, StageOfWork, MaintainStages, Kept, Unsynced, Running,
         Here, Maintain, AppendOf, ExpireBegin, Goto, disk
<1>12. CASE MaintainEnd
  BY <1>12, TailOfOne, Chain, WorksAre, DaysAre, StoreAssumption
     DEF IInv, TypeOK, StageOfWork, MaintainStages, Kept, Unsynced, Running,
         Here, Maintain, AppendOf, MaintainEnd, Reset, disk
<1>13. ASSUME NEW e \in Days, ArchiveKnown(e) PROVE StageOfWork'
  BY <1>13, TailOfOne, Chain, WorksAre, DaysAre, StoreAssumption
     DEF IInv, TypeOK, StageOfWork, MaintainStages, Kept, Unsynced, Running,
         Here, Maintain, AppendOf, ArchiveKnown, At, Goto, disk
<1>14. ASSUME NEW e \in Days, ArchiveDiffers(e) PROVE StageOfWork'
  BY <1>14, Fails DEF ArchiveDiffers, At, Running
<1>15. ASSUME NEW e \in Days, ArchivePack(e) PROVE StageOfWork'
  BY <1>15, TailOfOne, Chain, WorksAre, DaysAre, StoreAssumption
     DEF IInv, TypeOK, StageOfWork, MaintainStages, Kept, Unsynced, Running,
         Here, Maintain, AppendOf, ArchivePack, At, Goto, disk
<1>16. ASSUME NEW e \in Days, ArchiveRename(e) PROVE StageOfWork'
  BY <1>16, TailOfOne, Chain, WorksAre, DaysAre, StoreAssumption
     DEF IInv, TypeOK, StageOfWork, MaintainStages, Kept, Unsynced, Running,
         Here, Maintain, AppendOf, ArchiveRename, At, Goto
<1>17. ASSUME NEW e \in Days, ArchivePublish(e) PROVE StageOfWork'
  BY <1>17, TailOfOne, Chain, WorksAre, DaysAre, StoreAssumption
     DEF IInv, TypeOK, StageOfWork, MaintainStages, Kept, Unsynced, Running,
         Here, Maintain, AppendOf, ArchivePublish, At, Goto
<1>18. ASSUME NEW e \in Days, ArchiveNext(e) PROVE StageOfWork'
  BY <1>18, TailOfOne, Chain, WorksAre, DaysAre, StoreAssumption
     DEF IInv, TypeOK, StageOfWork, MaintainStages, Kept, Unsynced, Running,
         Here, Maintain, AppendOf, ArchiveNext, At, Goto
<1>20. ASSUME NEW e \in Days, ExpireMissing(e) PROVE StageOfWork'
  BY <1>20, Fails DEF ExpireMissing, At, Running
<1>21. ASSUME NEW e \in Days, ExpireArchive(e) PROVE StageOfWork'
  BY <1>21, TailOfOne, Chain, WorksAre, DaysAre, StoreAssumption
     DEF IInv, TypeOK, StageOfWork, MaintainStages, Kept, Unsynced, Running,
         Here, Maintain, AppendOf, ExpireArchive, At, Goto
<1>22. ASSUME NEW e \in Days, ExpireManifest(e) PROVE StageOfWork'
  BY <1>22, TailOfOne, Chain, WorksAre, DaysAre, StoreAssumption
     DEF IInv, TypeOK, StageOfWork, MaintainStages, Kept, Unsynced, Running,
         Here, Maintain, AppendOf, ExpireManifest, At, Goto
<1>23. CASE Reading
  <2>1. UNCHANGED <<clock, disk, process, work, failing, stops, acked>>
    BY <1>23 DEF Reading, ReadFile, ReadEnd, ReadBegin, ListLive, ChooseFile, Read
  <2> QED
    BY <2>1 DEF IInv, StageOfWork, Running, Here, work, disk
<1>24. CASE UNCHANGED vars
  BY <1>24 DEF IInv, StageOfWork, Running, Here, vars, work, disk
<1> QED
  BY <1>1, <1>2, <1>3, <1>4, <1>5, <1>6, <1>7, <1>8, <1>9, <1>10, <1>11,
     <1>12, <1>13, <1>14, <1>15, <1>16, <1>17, <1>18, <1>20, <1>21,
     <1>22, <1>23, <1>24
     DEF Next, Appending, Maintenance

LEMMA KeptKept ==
  ASSUME IInv, [Next]_vars, NEW d \in Days
  PROVE  Kept(d)'
<1>1. CASE Start
  BY <1>1
     DEF IInv, TypeOK, StageOfWork, Kept, Unsynced, Verified, Here, Start, disk
<1>2. CASE Stop
  BY <1>2, Loses DEF IInv, Kept, Unsynced, Verified, Here, Stop, Reset
<1>3. CASE Tick
  BY <1>3, Chain, WorksAre, DaysAre
     DEF IInv, TypeOK, Kept, StageOfWork, MaintainStages, Unsynced, Verified,
         Here, Tick, work, disk
<1>4. CASE RequestAppend
  BY <1>4, Chain, WorksAre, DaysAre
     DEF IInv, TypeOK, Kept, StageOfWork, MaintainStages, Unsynced, Verified,
         Here, RequestAppend, Enqueue, disk
<1>5. CASE RequestMaintain
  BY <1>5, Chain, WorksAre, DaysAre
     DEF IInv, TypeOK, Kept, StageOfWork, MaintainStages, Unsynced, Verified,
         Here, RequestMaintain, Enqueue, disk
<1>6. CASE AppendRefused
  BY <1>6, Chain, WorksAre, DaysAre
     DEF IInv, TypeOK, Kept, StageOfWork, MaintainStages, Unsynced, Verified,
         Here, AppendRefused, Running, Settle, Reset, disk
<1>7. CASE AppendWrite
  <2>1. acked[d] \in Nat /\ live'[queue[1].day] # Absent
    <3>1. acked[d] \in Nat
      BY DaysAre DEF IInv, TypeOK
    <3>2. live'[queue[1].day] # Absent
      BY <1>7, Writes, DaysAre
    <3> QED
      BY <3>1, <3>2
  <2>2. UNCHANGED <<archive, manifest, queue, acked>> /\ stage' = "written"
    BY <1>7 DEF AppendWrite
  <2>3. CASE d = queue[1].day
    BY <1>7, <2>1, <2>2, <2>3, Writes DEF Kept, Unsynced, Here
  <2>4. CASE d # queue[1].day
    BY <1>7, <2>2, <2>4, Writes DEF IInv, Kept, Unsynced, Verified, Here
  <2> QED
    BY <2>3, <2>4
<1>8. CASE AppendSync
  <2>1. acked \in [Days -> Nat] /\ live \in [Days -> Lengths]
    BY DEF IInv, TypeOK
  <2>2. UNCHANGED <<live, archive, manifest>> /\ stage' = "idle"
    BY <1>8 DEF AppendSync, Settle, Reset, disk
  <2>3. CASE d = queue[1].day
    <3>1. acked'[d] = live[d] /\ Here(live, d) /\ live[d] \in Int
      BY <1>8, <2>1, <2>3, Syncs, DaysAre
         DEF IInv, StageOfWork, Running, AppendSync
    <3> QED
      BY <2>2, <3>1 DEF Kept, Unsynced, Here
  <2>4. CASE d # queue[1].day
    <3>1. acked'[d] = acked[d]
      BY <1>8, <2>1, <2>4, Syncs
    <3> QED
      BY <2>2, <3>1 DEF IInv, Kept, Unsynced, Verified, Here
  <2> QED
    BY <2>3, <2>4
<1>9. CASE AppendFails
  BY <1>9, Loses
     DEF IInv, Kept, Unsynced, Verified, Here, AppendFails, Settle, Reset
<1>10. CASE MaintainBegin
  BY <1>10, Chain, WorksAre, DaysAre
     DEF IInv, TypeOK, Kept, StageOfWork, MaintainStages, Unsynced, Verified,
         Here, MaintainBegin, Running, disk
<1>11. CASE ExpireBegin
  BY <1>11, Chain, WorksAre, DaysAre
     DEF IInv, TypeOK, Kept, StageOfWork, MaintainStages, Unsynced, Verified,
         Here, ExpireBegin, Running, Goto, disk
<1>12. CASE MaintainEnd
  BY <1>12, Chain, WorksAre, DaysAre
     DEF IInv, TypeOK, Kept, StageOfWork, MaintainStages, Unsynced, Verified,
         Here, MaintainEnd, Running, Reset, disk
<1>13. ASSUME NEW e \in Days, ArchiveKnown(e) PROVE Kept(d)'
  BY <1>13, Chain, WorksAre, DaysAre
     DEF IInv, TypeOK, Kept, StageOfWork, MaintainStages, Unsynced, Verified,
         Here, ArchiveKnown, At, Running, Goto, disk
<1>14. ASSUME NEW e \in Days, ArchiveDiffers(e) PROVE Kept(d)'
  BY <1>14, Chain, WorksAre, DaysAre
     DEF IInv, TypeOK, Kept, StageOfWork, MaintainStages, Unsynced, Verified,
         Here, ArchiveDiffers, At, Running, Fail, Settle, Reset, disk
<1>15. ASSUME NEW e \in Days, ArchivePack(e) PROVE Kept(d)'
  BY <1>15, Chain, WorksAre, DaysAre
     DEF IInv, TypeOK, Kept, StageOfWork, MaintainStages, Unsynced, Verified,
         Here, ArchivePack, At, Running, Goto, disk
<1>16. ASSUME NEW e \in Days, ArchiveRename(e) PROVE Kept(d)'
  BY <1>16, Chain, WorksAre, DaysAre
     DEF IInv, TypeOK, Kept, StageOfWork, MaintainStages, Unsynced, Verified,
         Here, Known, ArchiveRename, At, Running, Goto
<1>17. ASSUME NEW e \in Days, ArchivePublish(e) PROVE Kept(d)'
  BY <1>17, Chain, WorksAre, DaysAre
     DEF IInv, TypeOK, Kept, StageOfWork, MaintainStages, Unsynced, Verified,
         Here, Known, ArchivePublish, At, Running, Goto
<1>18. ASSUME NEW e \in Days, ArchiveNext(e) PROVE Kept(d)'
  BY <1>18, Chain, WorksAre, DaysAre
     DEF IInv, TypeOK, Kept, StageOfWork, MaintainStages, Unsynced, Verified,
         Here, Known, Matches, At, ArchiveNext, Running, Goto
<1>20. ASSUME NEW e \in Days, ExpireMissing(e) PROVE Kept(d)'
  BY <1>20, Chain, WorksAre, DaysAre
     DEF IInv, TypeOK, Kept, StageOfWork, MaintainStages, Unsynced, Verified,
         Here, ExpireMissing, At, Running, Fail, Settle, Reset, disk
<1>21. ASSUME NEW e \in Days, ExpireArchive(e) PROVE Kept(d)'
  BY <1>21 DEF IInv, TypeOK, Kept, Unsynced, Verified, Here, ExpireArchive, At, Goto
<1>22. ASSUME NEW e \in Days, ExpireManifest(e) PROVE Kept(d)'
  <2>1. acked[e] = 0
    BY <1>22 DEF IInv, Known, ExpireManifest
  <2> QED
    BY <1>22, <2>1
       DEF IInv, TypeOK, Kept, Unsynced, Verified, Here, ExpireManifest, At, Goto
<1>23. CASE Reading
  BY <1>23, Chain, WorksAre, DaysAre
     DEF IInv, TypeOK, Kept, StageOfWork, MaintainStages, Unsynced, Verified,
         Here, Reading, ReadFile, ReadEnd, ReadBegin, ListLive, ChooseFile, Read, NoReader, work, disk
<1>24. CASE UNCHANGED vars
  BY <1>24, Chain, WorksAre, DaysAre
     DEF IInv, TypeOK, Kept, StageOfWork, MaintainStages, Unsynced, Verified,
         Here, vars, work, disk
<1> QED
  BY <1>1, <1>2, <1>3, <1>4, <1>5, <1>6, <1>7, <1>8, <1>9, <1>10, <1>11,
     <1>12, <1>13, <1>14, <1>15, <1>16, <1>17, <1>18, <1>20, <1>21,
     <1>22, <1>23, <1>24
     DEF Next, Appending, Maintenance

LEMMA KnownKept ==
  ASSUME IInv, [Next]_vars, NEW d \in Days
  PROVE  Known(d)'
<1>1. CASE Start
  BY <1>1, Chain, WorksAre, DaysAre
     DEF IInv, TypeOK, Known, StageOfWork, MaintainStages, Verified, Here,
         Matches, Age, Running, At, Start, disk
<1>2. CASE Stop
  BY <1>2, Chain, WorksAre, DaysAre
     DEF IInv, TypeOK, Known, StageOfWork, MaintainStages, Verified, Here,
         Matches, Age, Running, At, Stop, Reset, MayLose
<1>3. CASE Tick
  BY <1>3, Chain, WorksAre, DaysAre
     DEF IInv, TypeOK, Known, StageOfWork, MaintainStages, Verified, Here,
         Matches, Age, Running, At, Tick, work, disk
<1>4. CASE RequestAppend
  BY <1>4, Chain, WorksAre, DaysAre
     DEF IInv, TypeOK, Known, StageOfWork, MaintainStages, Verified, Here,
         Matches, Age, Running, At, RequestAppend, Enqueue, disk
<1>5. CASE RequestMaintain
  BY <1>5, Chain, WorksAre, DaysAre
     DEF IInv, TypeOK, Known, StageOfWork, MaintainStages, Verified, Here,
         Matches, Age, Running, At, RequestMaintain, Enqueue, disk
<1>6. CASE AppendRefused
  BY <1>6, Chain, WorksAre, DaysAre
     DEF IInv, TypeOK, Known, StageOfWork, MaintainStages, Verified, Here,
         Matches, Age, Running, At, AppendRefused, Settle, Reset, disk
<1>7. CASE AppendWrite
  BY <1>7, Chain, WorksAre, DaysAre
     DEF IInv, TypeOK, Known, StageOfWork, MaintainStages, Verified, Here,
         Matches, Age, Running, At, AppendWrite, Refused, Size
<1>8. CASE AppendSync
  BY <1>8, Chain, WorksAre, DaysAre
     DEF IInv, TypeOK, Known, StageOfWork, MaintainStages, Verified, Here,
         Matches, Age, Running, At, AppendSync, Settle, Reset, disk
<1>9. CASE AppendFails
  BY <1>9, Chain, WorksAre, DaysAre
     DEF IInv, TypeOK, Known, StageOfWork, MaintainStages, Verified, Here,
         Matches, Age, Running, At, AppendFails, Settle, Reset, MayLose
<1>10. CASE MaintainBegin
  BY <1>10, Chain, WorksAre, DaysAre
     DEF IInv, TypeOK, Known, StageOfWork, MaintainStages, Verified, Here,
         Matches, Age, Running, At, MaintainBegin, disk
<1>11. CASE ExpireBegin
  BY <1>11, Chain, WorksAre, DaysAre
     DEF IInv, TypeOK, Known, StageOfWork, MaintainStages, Verified, Here,
         Matches, Age, Running, At, ExpireBegin, Goto, disk
<1>12. CASE MaintainEnd
  BY <1>12, Chain, WorksAre, DaysAre
     DEF IInv, TypeOK, Known, StageOfWork, MaintainStages, Verified, Here,
         Matches, Age, Running, At, MaintainEnd, Reset, disk
<1>13. ASSUME NEW e \in Days, ArchiveKnown(e) PROVE Known(d)'
  <2>1. /\ stage = "archiving" /\ stage' = "published"
        /\ UNCHANGED <<queue, todo, live, archive, manifest>>
    BY <1>13 DEF ArchiveKnown, Goto, At, disk
  <2>2. At("archiving", e) /\ Matches(e)
    BY <1>13 DEF ArchiveKnown
  <2>3. At("published", d)' => d = e
    BY <2>1, <2>2, DaysAre DEF At
  <2>4. d \in todo => Here(live, d)
    BY <2>1 DEF IInv, Known
  <2> QED
    BY <2>1, <2>2, <2>3, <2>4 DEF Known, Here, At, Matches, Verified
<1>14. ASSUME NEW e \in Days, ArchiveDiffers(e) PROVE Known(d)'
  BY <1>14, Chain, WorksAre, DaysAre
     DEF IInv, TypeOK, Known, StageOfWork, MaintainStages, Verified, Here,
         Matches, Age, Running, At, ArchiveDiffers, Fail, Settle, Reset, disk
<1>15. ASSUME NEW e \in Days, ArchivePack(e) PROVE Known(d)'
  BY <1>15, Chain, WorksAre, DaysAre
     DEF IInv, TypeOK, Known, StageOfWork, MaintainStages, Verified, Here,
         Matches, Age, Running, At, ArchivePack, Goto, disk
<1>16. ASSUME NEW e \in Days, ArchiveRename(e) PROVE Known(d)'
  <2>1. /\ stage = "packed" /\ stage' = "renamed" /\ archive' = [archive EXCEPT ![e] = live[e]]
        /\ UNCHANGED <<queue, todo, live, manifest>>
    BY <1>16 DEF ArchiveRename, Goto, At
  <2>2. At("packed", e) /\ ~Here(manifest, e)
    BY <1>16 DEF IInv, Known, ArchiveRename
  <2>3. At("renamed", d)' => d = e
    BY <2>1, <2>2, DaysAre DEF At
  <2>4. At("renamed", d)' => ~Here(manifest, d)' /\ archive'[d] = live'[d]
    BY <2>1, <2>2, <2>3 DEF IInv, TypeOK, Here
  <2>5. d \in todo => Here(live, d)
    BY <2>1 DEF IInv, Known
  <2> QED
    BY <2>1, <2>4, <2>5 DEF Known, Here, At
<1>17. ASSUME NEW e \in Days, ArchivePublish(e) PROVE Known(d)'
  <2>1. /\ stage = "renamed" /\ stage' = "published" /\ queue' = queue /\ todo' = todo
        /\ manifest' = [manifest EXCEPT ![e] = live[e]]
        /\ live' = live /\ archive' = archive
    BY <1>17 DEF ArchivePublish, Goto, At
  <2>2. Here(live, e) /\ archive[e] = live[e] /\ At("renamed", e)
    BY <1>17 DEF IInv, Known, ArchivePublish, At
  <2>3. At("published", d)' => d = e
    BY <2>1, <2>2, DaysAre DEF At
  <2>4. At("published", d)' => Matches(d)'
    BY <2>1, <2>2, <2>3 DEF IInv, TypeOK, Matches, Verified, Here
  <2>5. d \in todo => Here(live, d)
    BY <2>1 DEF IInv, Known
  <2> QED
    BY <2>1, <2>4, <2>5 DEF Known, Here, At
<1>18. ASSUME NEW e \in Days, ArchiveNext(e) PROVE Known(d)'
  BY <1>18, Chain, WorksAre, DaysAre
     DEF IInv, TypeOK, Known, StageOfWork, MaintainStages, Verified, Here,
         Matches, Age, Running, At, ArchiveNext, Goto
<1>20. ASSUME NEW e \in Days, ExpireMissing(e) PROVE Known(d)'
  BY <1>20, Chain, WorksAre, DaysAre
     DEF IInv, TypeOK, Known, StageOfWork, MaintainStages, Verified, Here,
         Matches, Age, Running, At, ExpireMissing, Fail, Settle, Reset, disk
<1>21. ASSUME NEW e \in Days, ExpireArchive(e) PROVE Known(d)'
  BY <1>21, Chain, WorksAre, DaysAre
     DEF IInv, TypeOK, Known, StageOfWork, MaintainStages, Verified, Here,
         Matches, Age, Running, At, ExpireArchive, Goto
<1>22. ASSUME NEW e \in Days, ExpireManifest(e) PROVE Known(d)'
  BY <1>22, Chain, WorksAre, DaysAre
     DEF IInv, TypeOK, Known, StageOfWork, MaintainStages, Verified, Here,
         Matches, Age, Running, At, ExpireManifest, Goto
<1>23. CASE Reading
  BY <1>23, Chain, WorksAre, DaysAre
     DEF IInv, TypeOK, Known, StageOfWork, MaintainStages, Verified, Here,
         Matches, Age, Running, At, Reading, ReadFile, ReadEnd, ReadBegin, ListLive, ChooseFile, Read,
         NoReader, work, disk
<1>24. CASE UNCHANGED vars
  BY <1>24, Chain, WorksAre, DaysAre
     DEF IInv, TypeOK, Known, StageOfWork, MaintainStages, Verified, Here,
         Matches, Age, Running, At, vars, work, disk
<1> QED
  BY <1>1, <1>2, <1>3, <1>4, <1>5, <1>6, <1>7, <1>8, <1>9, <1>10, <1>11,
     <1>12, <1>13, <1>14, <1>15, <1>16, <1>17, <1>18, <1>20, <1>21,
     <1>22, <1>23, <1>24
     DEF Next, Appending, Maintenance

LEMMA Inductive == IInv /\ [Next]_vars => IInv'
  BY TypesKept, StageKept, KeptKept, KnownKept DEF IInv

\* An archive that verifies is only removed, past the retention.
LEMMA ImmutableStep ==
  ASSUME IInv, Next, NEW d \in Days, Verified(d), archive'[d] # archive[d]
  PROVE  archive'[d] = Absent /\ clock - d >= RetentionDays /\ ~Here(live, d)
<1>1. ASSUME NEW e \in Days, ArchiveRename(e) PROVE FALSE
  BY <1>1 DEF IInv, TypeOK, Known, ArchiveRename, Verified
<1>2. ASSUME NEW e \in Days, ExpireArchive(e)
      PROVE  archive'[d] = Absent /\ clock - d >= RetentionDays /\ ~Here(live, d)
  <2>1. d = e /\ archive'[d] = Absent /\ ~Here(live, d)
    BY <1>2 DEF IInv, TypeOK, ExpireArchive
  <2>2. today - d >= RetentionDays /\ today <= clock
    BY <1>2, <2>1 DEF IInv, Known, StageOfWork, ExpireArchive, At, Age
  <2>3. today \in Nat /\ clock \in Nat /\ d \in Nat /\ RetentionDays \in Nat
    BY DaysAre, StoreAssumption DEF IInv, TypeOK
  <2> QED
    BY <2>1, <2>2, <2>3
<1>3. CASE UNCHANGED archive
  BY <1>3
<1>4. Start \/ Stop \/ Tick \/ RequestAppend \/ RequestMaintain \/ Appending
        \/ MaintainBegin \/ ExpireBegin \/ MaintainEnd \/ Reading
        => UNCHANGED archive
  BY DEF Start, Stop, Tick, RequestAppend, RequestMaintain, Enqueue, Appending,
         AppendRefused, AppendWrite, AppendSync, AppendFails, MaintainBegin,
         ExpireBegin, MaintainEnd, Reading, ReadFile, ReadEnd, ReadBegin, ListLive, ChooseFile, Read, disk
<1>5. ASSUME NEW e \in Days,
             \/ ArchiveKnown(e) \/ ArchiveDiffers(e) \/ ArchivePack(e)
             \/ ArchivePublish(e) \/ ArchiveNext(e)
             \/ ExpireMissing(e) \/ ExpireManifest(e)
      PROVE  UNCHANGED archive
  BY <1>5 DEF ArchiveKnown, ArchiveDiffers, ArchivePack, ArchivePublish,
              ArchiveNext, ExpireMissing, ExpireManifest, Fail, disk
<1> QED
  BY <1>1, <1>2, <1>3, <1>4, <1>5 DEF Next, Maintenance

\* A manifest that vouches for its archive stays until the retention.
LEMMA ManifestStep ==
  ASSUME IInv, Next, NEW d \in Days, Verified(d), manifest'[d] # manifest[d]
  PROVE  clock - d >= RetentionDays
<1>1. ASSUME NEW e \in Days, ArchivePublish(e) PROVE FALSE
  BY <1>1 DEF IInv, TypeOK, Known, ArchivePublish, Verified
<1>2. ASSUME NEW e \in Days, ExpireManifest(e)
      PROVE  clock - d >= RetentionDays
  <2>1. d = e
    BY <1>2 DEF IInv, TypeOK, ExpireManifest
  <2>2. today - d >= RetentionDays /\ today <= clock
    BY <1>2, <2>1 DEF IInv, Known, StageOfWork, ExpireManifest, At, Age
  <2>3. today \in Nat /\ clock \in Nat /\ d \in Nat /\ RetentionDays \in Nat
    BY DaysAre, StoreAssumption DEF IInv, TypeOK
  <2> QED
    BY <2>2, <2>3
<1>3. CASE UNCHANGED manifest
  BY <1>3
<1>4. Start \/ Stop \/ Tick \/ RequestAppend \/ RequestMaintain \/ Appending
        \/ MaintainBegin \/ ExpireBegin \/ MaintainEnd \/ Reading
        => UNCHANGED manifest
  BY DEF Start, Stop, Tick, RequestAppend, RequestMaintain, Enqueue, Appending,
         AppendRefused, AppendWrite, AppendSync, AppendFails, MaintainBegin,
         ExpireBegin, MaintainEnd, Reading, ReadFile, ReadEnd, ReadBegin, ListLive, ChooseFile, Read, disk
<1>5. ASSUME NEW e \in Days,
             \/ ArchiveKnown(e) \/ ArchiveDiffers(e) \/ ArchivePack(e)
             \/ ArchiveRename(e) \/ ArchiveNext(e)
             \/ ExpireMissing(e) \/ ExpireArchive(e)
      PROVE  UNCHANGED manifest
  BY <1>5 DEF ArchiveKnown, ArchiveDiffers, ArchivePack, ArchiveRename,
              ArchiveNext, ExpireMissing, ExpireArchive, Fail, disk
<1> QED
  BY <1>1, <1>2, <1>3, <1>4, <1>5 DEF Next, Maintenance

\* An acknowledgement is only forgotten with its archive, past the retention.
LEMMA AckedStep ==
  ASSUME IInv, Next, NEW d \in Days, ~(acked'[d] >= acked[d])
  PROVE  clock - d >= RetentionDays
<1>1. acked[d] \in Nat
  BY DEF IInv, TypeOK
<1>2. CASE AppendSync
  <2>1. /\ queue[1].day \in Days /\ live[queue[1].day] >= acked[queue[1].day]
        /\ acked' = [acked EXCEPT ![queue[1].day] = live[queue[1].day]]
    BY <1>2, Syncs DEF IInv, AppendSync, StageOfWork, Kept
  <2> QED
    BY <1>1, <2>1 DEF IInv, TypeOK
<1>3. ASSUME NEW e \in Days, ExpireArchive(e)
      PROVE  clock - d >= RetentionDays
  <2>1. d = e
    BY <1>1, <1>3 DEF IInv, TypeOK, ExpireArchive
  <2>2. today - d >= RetentionDays /\ today <= clock
    BY <1>3, <2>1 DEF IInv, Known, StageOfWork, ExpireArchive, At, Age
  <2>3. today \in Nat /\ clock \in Nat /\ d \in Nat /\ RetentionDays \in Nat
    BY DaysAre, StoreAssumption DEF IInv, TypeOK
  <2> QED
    BY <2>2, <2>3
<1>4. CASE UNCHANGED acked
  BY <1>1, <1>4
<1>5. Start \/ Stop \/ Tick \/ RequestAppend \/ RequestMaintain
        \/ AppendRefused \/ AppendWrite \/ AppendFails
        \/ MaintainBegin \/ ExpireBegin \/ MaintainEnd \/ Reading
        => UNCHANGED acked
  BY DEF Start, Stop, Tick, RequestAppend, RequestMaintain, Enqueue,
         AppendRefused, AppendWrite, AppendFails, MaintainBegin,
         ExpireBegin, MaintainEnd, Reading, ReadFile, ReadEnd, ReadBegin, ListLive, ChooseFile, Read
<1>6. ASSUME NEW e \in Days,
             \/ ArchiveKnown(e) \/ ArchiveDiffers(e) \/ ArchivePack(e)
             \/ ArchiveRename(e) \/ ArchivePublish(e) \/ ArchiveNext(e)
             \/ ExpireMissing(e) \/ ExpireManifest(e)
      PROVE  UNCHANGED acked
  BY <1>6 DEF ArchiveKnown, ArchiveDiffers, ArchivePack, ArchiveRename,
              ArchivePublish, ArchiveNext, ExpireMissing, ExpireManifest, Fail
<1> QED
  BY <1>2, <1>3, <1>4, <1>5, <1>6 DEF Next, Appending, Maintenance

-----------------------------------------------------------------------------
(* The reader.                                                             *)

\* What has been acknowledged when a reader begins stays, and the file it chose
\* holds it, until the retention.
ReaderConsistent ==
  clock - reader.day < RetentionDays =>
    /\ reader.stage \in {"listing", "listed", "live"} =>
         acked[reader.day] >= reader.due
    /\ reader.stage = "archive" /\ reader.due > 0 =>
         Verified(reader.day) /\ archive[reader.day] >= reader.due
    /\ reader.stage = "listing" => reader.got = 0
    /\ reader.stage = "done" =>
         \/ reader.got >= reader.due
         \/ /\ ~reader.found
            /\ Verified(reader.day) /\ archive[reader.day] >= reader.due

LEMMA ReaderAre ==
  ASSUME TypeOK
  PROVE  /\ reader.day \in Days /\ reader.day \in Nat /\ reader.due \in Nat
         /\ reader.stage \in {"idle", "listing", "listed", "live", "archive", "done"}
         /\ reader.found \in BOOLEAN
         /\ clock \in Nat /\ RetentionDays \in Nat
BY DaysAre, StoreAssumption DEF TypeOK, Readers

\* The reader rests while the others go on.
LEMMA ReaderWaits ==
  ASSUME IInv, ReaderConsistent, Next, UNCHANGED reader, clock' >= clock, clock' \in Nat
  PROVE  ReaderConsistent'
<1> PICK d \in Days : d = reader.day
  BY ReaderAre DEF IInv
<1>1. d \in Nat /\ clock \in Nat /\ reader.due \in Nat /\ RetentionDays \in Nat
  BY ReaderAre DEF IInv
<1> SUFFICES ASSUME clock' - d < RetentionDays
             PROVE  /\ reader.stage \in {"listing", "listed", "live"} =>
                         acked'[d] >= reader.due
                    /\ reader.stage = "archive" /\ reader.due > 0 =>
                         Verified(d)' /\ archive'[d] >= reader.due
                    /\ reader.stage = "listing" => reader.got = 0
                    /\ reader.stage = "done" =>
                         \/ reader.got >= reader.due
                         \/ /\ ~reader.found
                            /\ Verified(d)' /\ archive'[d] >= reader.due
  BY DEF ReaderConsistent, Verified, Here
<1>2. clock - d < RetentionDays /\ ~(clock - d >= RetentionDays)
  BY <1>1
<1>3. acked'[d] >= acked[d] /\ acked[d] \in Nat /\ acked'[d] \in Nat
  BY <1>2, AckedStep, Inductive DEF IInv, TypeOK
<1>4. Verified(d) => archive'[d] = archive[d] /\ manifest'[d] = manifest[d]
  BY <1>2, ImmutableStep, ManifestStep
<1> QED
  BY <1>1, <1>2, <1>3, <1>4 DEF ReaderConsistent, Verified, Here

\* The reader lists the days, chooses a file, reads it, or gives up.
LEMMA ReaderActs ==
  ASSUME IInv, ReaderConsistent, Reading
  PROVE  ReaderConsistent'
<1> PICK e \in Days : e = reader.day
  BY ReaderAre DEF IInv
<1>a. reader.due \in Nat /\ acked[e] \in Nat /\ Kept(e)
  BY ReaderAre DEF IInv, TypeOK
<1>1. ASSUME NEW d \in ReadDays, ReadBegin(d) PROVE ReaderConsistent'
  <2>1. d \in Days /\ acked[d] \in Nat
    BY StoreAssumption DEF IInv, TypeOK, Days
  <2>2. /\ reader'.day = d /\ reader'.due = acked[d] /\ reader'.got = 0
        /\ reader'.stage = "listing"
        /\ UNCHANGED <<clock, acked>>
    BY <1>1 DEF ReadBegin, Read
  <2> QED
    BY <2>1, <2>2 DEF ReaderConsistent
<1>2. CASE ReadFile
  <2>1. /\ reader'.day = e /\ reader'.due = reader.due /\ reader'.stage = "done"
        /\ reader'.got = IF reader.stage = "live" THEN live[e] ELSE archive[e]
        /\ reader.stage \in {"live", "archive"} /\ UNCHANGED clock
    BY <1>2 DEF ReadFile, Read, IInv, TypeOK, Readers
  <2>2. /\ reader.stage = "live" => live[e] >= acked[e] /\ live[e] \in Nat
        /\ reader.stage = "archive" => archive[e] \in Nat
    BY <1>2, <2>1, DaysAre DEF ReadFile, Readable, IInv, TypeOK, Kept, Verified, Here
  <2> QED
    BY <1>a, <2>1, <2>2 DEF ReaderConsistent
<1>3. CASE ReadEnd
  BY <1>3 DEF ReadEnd, Read, NoReader, ReaderConsistent
<1>4. CASE ListLive
  <2>1. /\ reader'.day = e /\ reader'.due = reader.due /\ reader'.got = reader.got
        /\ reader'.stage = IF reader'.found THEN "listed" ELSE "done"
        /\ reader'.found = (reader.found \/ Here(live, e))
        /\ reader.stage = "listing" /\ UNCHANGED <<clock, disk, acked>>
    BY <1>4 DEF ListLive, Read, IInv, TypeOK, Readers
  <2>2. CASE reader'.found
    BY <2>1, <2>2 DEF ReaderConsistent
  <2>3. CASE ~reader'.found
    <3>1. acked[e] > 0 => Verified(e) /\ archive[e] >= acked[e]
      BY <1>a, <2>1, <2>3 DEF Kept
    <3>2. archive[e] \in Int
      BY DaysAre DEF IInv, TypeOK
    <3>3. UNCHANGED <<live, archive, manifest>> /\ Verified(e)' = Verified(e)
      BY <2>1 DEF disk, Verified, Here
    <3> QED
      BY <1>a, <2>1, <2>3, <3>1, <3>2, <3>3 DEF ReaderConsistent
  <2> QED
    BY <2>2, <2>3
<1>5. CASE ChooseFile
  <2>1. /\ reader'.day = e /\ reader'.due = reader.due
        /\ reader'.stage = IF Here(live, e) THEN "live" ELSE "archive"
        /\ reader.stage = "listed" /\ UNCHANGED <<clock, disk, acked>>
    BY <1>5 DEF ChooseFile, Read, IInv, TypeOK, Readers
  <2>2. archive[e] \in Int
    BY DaysAre DEF IInv, TypeOK
  <2>3. UNCHANGED <<live, archive, manifest>> /\ Verified(e)' = Verified(e)
    BY <2>1 DEF disk, Verified, Here
  <2>4. CASE Here(live, e)
    BY <2>1, <2>4 DEF ReaderConsistent
  <2>5. CASE ~Here(live, e)
    BY <1>a, <2>1, <2>2, <2>3, <2>5 DEF ReaderConsistent, Kept
  <2> QED
    BY <2>4, <2>5
<1> QED
  BY <1>1, <1>2, <1>3, <1>4, <1>5 DEF Reading

LEMMA ReaderStep == IInv /\ ReaderConsistent /\ [Next]_vars => ReaderConsistent'
<1> SUFFICES ASSUME IInv, ReaderConsistent, [Next]_vars PROVE ReaderConsistent'
  OBVIOUS
<1>1. CASE UNCHANGED vars
  BY <1>1 DEF vars, disk, ReaderConsistent, Verified, Here
<1>2. CASE Reading
  BY <1>2, ReaderActs
<1>3. CASE Stop
  BY <1>3 DEF Stop, NoReader, ReaderConsistent
<1>4. CASE Next /\ ~Reading /\ ~Stop
  <2>1. UNCHANGED reader
    BY <1>4 DEF Next, Start, Tick, RequestAppend, RequestMaintain, Enqueue, Appending,
         AppendRefused, AppendWrite, AppendSync, AppendFails, Maintenance,
         MaintainBegin, ExpireBegin, MaintainEnd, ArchiveKnown, ArchiveDiffers,
         ArchivePack, ArchiveRename, ArchivePublish, ArchiveNext, ExpireMissing,
         ExpireArchive, ExpireManifest, Fail, Goto
  <2>2. clock' = clock \/ clock' = clock + 1
    BY <1>4 DEF Next, Start, Tick, RequestAppend, RequestMaintain, Enqueue, Appending,
         AppendRefused, AppendWrite, AppendSync, AppendFails, Maintenance,
         MaintainBegin, ExpireBegin, MaintainEnd, ArchiveKnown, ArchiveDiffers,
         ArchivePack, ArchiveRename, ArchivePublish, ArchiveNext, ExpireMissing,
         ExpireArchive, ExpireManifest, Fail, Goto
  <2>3. clock' >= clock /\ clock' \in Nat
    BY <2>2, ReaderAre DEF IInv
  <2> QED
    BY <1>4, <2>1, <2>3, ReaderWaits
<1> QED
  BY <1>1, <1>2, <1>3, <1>4

-----------------------------------------------------------------------------

\* Every reachable state of the agent satisfies the inductive invariant.
THEOREM Invariant == Spec => []IInv
<1>1. IInv /\ [Next]_vars => IInv'
  BY Inductive
<1> QED
  BY Initially, <1>1, PTL DEF Spec

\* The types of the agent's state, for every number of days and every limit.
THEOREM TypesCorrect == Spec => []TypeOK
<1>1. IInv => TypeOK
  BY DEF IInv
<1> QED
  BY Invariant, <1>1, PTL

\* Whatever step of append or maintain the process is killed at, an event it
\* acknowledged is in the live file or in a verified archive until the retention.
THEOREM AcknowledgedKept == Spec => []NothingLost
<1>1. IInv => NothingLost
  BY DaysAre DEF IInv, Kept, NothingLost, Here
<1> QED
  BY Invariant, <1>1, PTL

\* A reader that chose the live file just before the maintenance removed it, or
\* the archive while the day was moved, gets an error or every event that was
\* acknowledged before it began, until the retention.  If days() lists the day
\* nowhere, which it may while the day is moved, all of that is in its archive.
THEOREM ReadsKept == Spec => []ReadsComplete
<1>1. Init => ReaderConsistent
  BY DEF Init, NoReader, ReaderConsistent
<1>2. Spec => []ReaderConsistent
  BY <1>1, ReaderStep, Invariant, PTL DEF Spec
<1>3. ReaderConsistent => ReadsComplete
  BY DEF ReaderConsistent, ReadsComplete
<1> QED
  BY <1>2, <1>3, PTL

\* A published archive is never rewritten, and removed only past the retention.
THEOREM ArchiveKept == Spec => ArchiveImmutable
<1> DEFINE Step(d) ==
      Verified(d) /\ archive'[d] # archive[d] =>
         /\ archive'[d] = Absent
         /\ clock - d >= RetentionDays
         /\ ~Here(live, d)
<1>1. IInv /\ [Next]_vars => [\A d \in Days : Step(d)]_vars
  BY ImmutableStep
<1> QED
  BY Invariant, <1>1, PTL DEF Spec, ArchiveImmutable

=============================================================================
