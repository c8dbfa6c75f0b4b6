-------------------------- MODULE OperationalStore --------------------------
(***************************************************************************)
(* The event log of the operations agent: one live file per day, appended  *)
(* to and synchronised before an event is acknowledged; a maintenance that *)
(* compresses the ended days, verifies and publishes each archive with a   *)
(* manifest, removes live files that are old enough and archives past the  *)
(* retention; a reader that runs beside both.                              *)
(*                                                                         *)
(* Appends and maintenances are serialised by one promise chain, but each  *)
(* is a sequence of system calls: the process may stop between any two,    *)
(* the clock may move on, and a reader is not in the chain.  A file is the *)
(* number of writes it holds: files only grow, so of two copies of a day   *)
(* the longer one holds the shorter.                                       *)
(***************************************************************************)
EXTENDS Integers, Sequences

CONSTANTS
  LastDay,        \* the clock of the model stops there
  HotDays,        \* a live file this old is removed once archived
  RetentionDays,  \* an archive this old is removed
  DayLimit,       \* maxDayBytes, in writes
  QueueLimit,     \* works pending in the chain
  MaxStops,       \* how often the process may be killed
  BusyDays,       \* the days events are sent on, beside the start of the agent
  ReadDays        \* the days that are read

ASSUME StoreAssumption ==
  /\ LastDay \in Nat /\ HotDays \in Nat \ {0} /\ RetentionDays \in Nat
  /\ RetentionDays > HotDays
  /\ DayLimit \in Nat /\ QueueLimit \in Nat \ {0} /\ MaxStops \in Nat
  /\ BusyDays \subseteq 0..LastDay /\ ReadDays \subseteq 0..LastDay

Days == 0..LastDay

Absent == -1

VARIABLES
  clock,      \* the day it is
  live,       \* live/<day>.jsonl
  archive,    \* archives/<day>.jsonl.gz
  manifest,   \* archives/<day>.json: the length it vouches for
  process,    \* "down", "starting" (init) or "up"
  queue,      \* the works of the chain, the first one running
  stage,      \* where the running work is
  today,      \* maintain: the day it evaluated when it began
  todo,       \* maintain: the days listed and not yet handled
  failing,    \* maintenanceError, or a start that failed
  stops,
  acked,      \* history: the length of the day at its last acknowledgement
  reader      \* a query: the day read, its stage, whether days() has found it,
              \* what it must return and what it does

disk  == <<live, archive, manifest>>
work  == <<queue, stage, today, todo>>
vars  == <<clock, disk, process, work, failing, stops, acked, reader>>

Here(file, d) == file[d] # Absent

\* verifyArchive: the archive is the one its manifest vouches for.
Verified(d) == Here(manifest, d) /\ archive[d] = manifest[d]

\* A work of the chain: an append of the day its caller read, or a maintenance.
Maintain == [op |-> "maintain", day |-> 0]
AppendOf(d) == [op |-> "append", day |-> d]

NoReader == [stage |-> "idle", day |-> 0, found |-> FALSE, due |-> 0, got |-> 0]

Init ==
  /\ clock = 0
  /\ live = [d \in Days |-> Absent]
  /\ archive = [d \in Days |-> Absent]
  /\ manifest = [d \in Days |-> Absent]
  /\ process = "down"
  /\ queue = <<>> /\ stage = "idle" /\ today = 0 /\ todo = {}
  /\ failing = FALSE /\ stops = 0
  /\ acked = [d \in Days |-> 0]
  /\ reader = NoReader

(***************************************************************************)
(* The process and the chain                                               *)
(***************************************************************************)

\* No work is running.
Reset == stage' = "idle" /\ today' = 0 /\ todo' = {}

\* A write that was not synchronised may be in the file or not.
MayLose ==
  \/ UNCHANGED live
  \/ stage = "written" /\ live' = [live EXCEPT ![queue[1].day] = @ - 1]

\* createAgent: init is a maintenance, and nothing else runs before it ends.
Start ==
  /\ process = "down"
  /\ process' = "starting"
  /\ queue' = <<Maintain>>
  /\ failing' = FALSE
  /\ UNCHANGED <<clock, disk, stage, today, todo, stops, acked, reader>>

\* The process is killed.
Stop ==
  /\ process # "down" /\ stops < MaxStops
  /\ stops' = stops + 1
  /\ process' = "down" /\ queue' = <<>> /\ Reset
  /\ reader' = NoReader
  /\ MayLose
  /\ UNCHANGED <<clock, archive, manifest, failing, acked>>

Tick ==
  /\ clock < LastDay
  /\ clock' = clock + 1
  /\ UNCHANGED <<disk, process, work, failing, stops, acked, reader>>

\* serialize: a full chain refuses the work; only its counter would change.
Enqueue(w) ==
  /\ process = "up" /\ Len(queue) < QueueLimit
  /\ queue' = Append(queue, w)
  /\ UNCHANGED <<clock, disk, process, stage, today, todo, failing, stops,
                 acked, reader>>

\* append reads the clock when it is called, not when its work runs.
RequestAppend == clock \in BusyDays /\ Enqueue(AppendOf(clock))

\* The archive timer of the agent.
RequestMaintain == Enqueue(Maintain)

Running(op) == queue # <<>> /\ queue[1].op = op

\* The running work settled and the next one may begin.
Settle == queue' = Tail(queue) /\ Reset

(***************************************************************************)
(* append                                                                  *)
(***************************************************************************)

Size(d) == IF Here(live, d) THEN live[d] ELSE 0

\* Faulty variant: the last write passes the limit of the day.
RefusedLate(d) ==
  \/ ~Here(live, d) /\ Here(archive, d)
  \/ Size(d) > DayLimit

\* Clock points into an archived day, or the limit of the day.
Refused(d) ==
  \/ ~Here(live, d) /\ Here(archive, d)
  \/ Size(d) + 1 > DayLimit

\* The limit of the whole disk, a number of bytes, may refuse any append too.
AppendRefused ==
  /\ Running("append") /\ stage = "idle"
  /\ Settle
  /\ UNCHANGED <<clock, disk, process, failing, stops, acked, reader>>

AppendWrite ==
  /\ Running("append") /\ stage = "idle" /\ ~Refused(queue[1].day)
  /\ LET d == queue[1].day IN live' = [live EXCEPT ![d] = Size(d) + 1]
  /\ stage' = "written"
  /\ UNCHANGED <<clock, archive, manifest, process, queue, today, todo,
                 failing, stops, acked, reader>>

\* The write is on the disk: the caller gets its acknowledgement.
AppendSync ==
  /\ Running("append") /\ stage = "written"
  /\ LET d == queue[1].day IN
     acked' = [acked EXCEPT ![d] = IF live[d] > @ THEN live[d] ELSE @ + 1]
  /\ Settle
  /\ UNCHANGED <<clock, disk, process, failing, stops, reader>>

\* The write or its synchronisation fails: no acknowledgement, though the file
\* may keep what was written.
AppendFails ==
  /\ Running("append") /\ stage = "written"
  /\ MayLose
  /\ Settle
  /\ UNCHANGED <<clock, archive, manifest, process, failing, stops, acked,
                 reader>>

(***************************************************************************)
(* maintain                                                                *)
(***************************************************************************)

Age(d) == today - d

\* The running maintenance goes on to a stage.
Goto(s) ==
  /\ stage' = s
  /\ UNCHANGED <<clock, process, queue, today, failing, stops, reader>>

\* Faulty variant: the rejection is swallowed.
FailQuiet ==
  /\ Settle
  /\ process' = IF process = "starting" THEN "down" ELSE process
  /\ UNCHANGED <<clock, disk, failing, stops, acked, reader>>

\* It throws: the agent reports it, or does not start at all.
Fail ==
  /\ Settle /\ failing' = TRUE
  /\ process' = IF process = "starting" THEN "down" ELSE process
  /\ UNCHANGED <<clock, disk, stops, acked, reader>>

MaintainBegin ==
  /\ Running("maintain") /\ stage = "idle"
  /\ today' = clock
  /\ todo' = {d \in Days : Here(live, d) /\ d < clock}
  /\ stage' = "archiving"
  /\ UNCHANGED <<clock, disk, process, queue, failing, stops, acked, reader>>

\* readdir is sorted.  The stages of a day are archiving, packed (compressed,
\* verified and synchronised beside its destination), renamed and published.
At(s, d) ==
  /\ Running("maintain") /\ stage = s
  /\ d \in todo /\ \A e \in todo : d <= e

\* Faulty variant: the hash of the live file is not compared.
MatchesItsManifest(d) == Verified(d)

Matches(d) == Verified(d) /\ manifest[d] = live[d]

ArchiveKnown(d) ==
  /\ At("archiving", d) /\ Matches(d)
  /\ Goto("published") /\ UNCHANGED <<disk, todo, acked>>

ArchiveDiffers(d) ==
  At("archiving", d) /\ Here(manifest, d) /\ ~Matches(d) /\ Fail

\* Faulty variant: a day archived before is packed again.
ArchivePackAgain(d) ==
  At("archiving", d) /\ Goto("packed") /\ UNCHANGED <<disk, todo, acked>>

ArchivePack(d) ==
  /\ At("archiving", d) /\ ~Here(manifest, d)
  /\ Goto("packed") /\ UNCHANGED <<disk, todo, acked>>

ArchiveRename(d) ==
  /\ At("packed", d)
  /\ archive' = [archive EXCEPT ![d] = live[d]]
  /\ Goto("renamed") /\ UNCHANGED <<live, manifest, todo, acked>>

ArchivePublish(d) ==
  /\ At("renamed", d)
  /\ manifest' = [manifest EXCEPT ![d] = live[d]]
  /\ Goto("published") /\ UNCHANGED <<live, archive, todo, acked>>

ArchiveNext(d) ==
  /\ At("published", d)
  /\ live' = IF Age(d) >= HotDays THEN [live EXCEPT ![d] = Absent] ELSE live
  /\ todo' = todo \ {d}
  /\ Goto("archiving") /\ UNCHANGED <<archive, manifest, acked>>

ExpireBegin ==
  /\ Running("maintain") /\ stage = "archiving" /\ todo = {}
  /\ todo' = {d \in Days : Here(manifest, d) /\ Age(d) >= RetentionDays}
  /\ Goto("expiring") /\ UNCHANGED <<disk, acked>>

\* unlink of an archive that is not there throws.  A day with a live file would
\* be skipped, but every day this old has just been archived and lost its own.
ExpireMissing(d) ==
  At("expiring", d) /\ ~Here(live, d) /\ ~Here(archive, d) /\ Fail

\* The first of the two removals of a day.
ExpireArchive(d) ==
  /\ At("expiring", d) /\ ~Here(live, d) /\ Here(archive, d)
  /\ archive' = [archive EXCEPT ![d] = Absent]
  /\ acked' = [acked EXCEPT ![d] = 0]
  /\ Goto("half") /\ UNCHANGED <<live, manifest, todo>>

ExpireManifest(d) ==
  /\ At("half", d)
  /\ manifest' = [manifest EXCEPT ![d] = Absent]
  /\ todo' = todo \ {d}
  /\ Goto("expiring") /\ UNCHANGED <<live, archive, acked>>

\* After the first maintenance the agent is up and records that it started.
MaintainEnd ==
  /\ Running("maintain") /\ stage = "expiring" /\ todo = {}
  /\ Reset /\ failing' = FALSE /\ process' = "up"
  /\ queue' = IF process = "up" THEN Tail(queue) ELSE <<AppendOf(clock)>>
  /\ UNCHANGED <<clock, disk, stops, acked, reader>>

(***************************************************************************)
(* query: days, then rows of each day found; outside the chain             *)
(***************************************************************************)

Read(r) ==
  /\ reader' = r
  /\ UNCHANGED <<clock, disk, process, work, failing, stops, acked>>

\* days lists the archives first, by their manifests.
ReadBegin(d) ==
  /\ process = "up" /\ reader.stage = "idle"
  /\ Read([stage |-> "listing", day |-> d, found |-> Here(manifest, d),
           due |-> acked[d], got |-> 0])

\* Then the live files.  A query succeeds without the rows of a day that is in
\* neither list; an export of it is answered that there is none.
ListLive ==
  /\ reader.stage = "listing"
  /\ LET found == reader.found \/ Here(live, reader.day) IN
     Read([reader EXCEPT !.found = found,
                         !.stage = IF found THEN "listed" ELSE "done"])

\* Faulty variant: the archive is preferred to the live file.
ChooseArchive ==
  /\ reader.stage = "listed"
  /\ Read([reader EXCEPT !.stage =
             IF Here(manifest, reader.day) THEN "archive" ELSE "live"])

\* rows: exists(live) says which file will be read.
ChooseFile ==
  /\ reader.stage = "listed"
  /\ Read([reader EXCEPT !.stage =
             IF Here(live, reader.day) THEN "live" ELSE "archive"])

\* stat and the stream: the file chosen is read up to the length it has now.
\* The caller gets an error if it went away or the archive does not verify.
Readable == IF reader.stage = "live" THEN Here(live, reader.day)
                                     ELSE Verified(reader.day)

ReadFile ==
  /\ reader.stage \in {"live", "archive"} /\ Readable
  /\ LET file == IF reader.stage = "live" THEN live ELSE archive IN
     Read([reader EXCEPT !.stage = "done", !.got = file[reader.day]])

\* Answered, or failed: a file of any day that was listed is gone when days
\* looks into it, or the one chosen is not readable.
ReadEnd ==
  /\ \/ reader.stage \in {"listing", "done"}
     \/ reader.stage \in {"live", "archive"} /\ ~Readable
  /\ Read(NoReader)

Maintenance ==
  \/ MaintainBegin \/ ExpireBegin \/ MaintainEnd
  \/ \E d \in Days :
       \/ ArchiveKnown(d) \/ ArchiveDiffers(d) \/ ArchivePack(d)
       \/ ArchiveRename(d) \/ ArchivePublish(d) \/ ArchiveNext(d)
       \/ ExpireMissing(d) \/ ExpireArchive(d) \/ ExpireManifest(d)

Appending == AppendRefused \/ AppendWrite \/ AppendSync \/ AppendFails

Reading ==
  ListLive \/ ChooseFile \/ ReadFile \/ ReadEnd \/ \E d \in ReadDays : ReadBegin(d)

Next ==
  \/ Start \/ Stop \/ Tick \/ RequestAppend \/ RequestMaintain
  \/ Appending \/ Maintenance \/ Reading

Spec == Init /\ [][Next]_vars

\* The chain runs, the timer fires and the supervisor of the container starts
\* the process again.
Fairness ==
  /\ WF_vars(Start)
  /\ WF_vars(Appending \/ Maintenance)
  /\ SF_vars(RequestMaintain)

FairSpec == Spec /\ Fairness

(***************************************************************************)
(* Properties                                                              *)
(***************************************************************************)

Lengths == {Absent} \cup 0..DayLimit

Works == [op : {"append", "maintain"}, day : Days]

Readers ==
  [stage : {"idle", "listing", "listed", "live", "archive", "done"}, day : Days,
   found : BOOLEAN, due : Nat, got : Int]

\* Every variable has its type, no file passes the limit of its day, the chain
\* has no more works than its limit, and one is in a stage only while it runs.
TypeOK ==
  /\ clock \in Days /\ today \in Days /\ todo \subseteq Days
  /\ live \in [Days -> Lengths]
  /\ archive \in [Days -> Lengths]
  /\ manifest \in [Days -> Lengths]
  /\ process \in {"down", "starting", "up"}
  /\ queue \in Seq(Works) /\ Len(queue) <= QueueLimit
  /\ stage \in {"idle", "written", "archiving", "packed", "renamed",
                "published", "expiring", "half"}
  /\ queue = <<>> => stage = "idle"
  /\ failing \in BOOLEAN /\ stops \in 0..MaxStops
  /\ acked \in [Days -> Nat]
  /\ reader \in Readers

\* Until the retention removes its day, an event acknowledged to its sender is
\* in the live file or in an archive that verifies, whatever step the process
\* is killed at and however late its append ran.
NothingLost ==
  \A d \in Days :
    acked[d] > 0 => \/ live[d] >= acked[d]
                    \/ Verified(d) /\ archive[d] >= acked[d]

\* A query that succeeds while the maintenance moves a day returns every event
\* of it acknowledged before, until the retention.  The exception is a day that
\* days found in neither list: it was published after the archives were listed
\* and removed before the live files were, and all of it is in its archive.
ReadsComplete ==
  reader.stage = "done" /\ clock - reader.day < RetentionDays =>
    \/ reader.got >= reader.due
    \/ /\ ~reader.found
       /\ Verified(reader.day) /\ archive[reader.day] >= reader.due

\* Once published, an archive is never rewritten, and it leaves only past the
\* retention and when no live file of its day is left.
ArchiveImmutable ==
  [][\A d \in Days :
       Verified(d) /\ archive'[d] # archive[d] =>
         /\ archive'[d] = Absent
         /\ clock - d >= RetentionDays
         /\ ~Here(live, d)]_vars

\* A day that ended is archived, or the agent says that maintenance fails.
EndedDayArchived ==
  \A d \in Days :
    Here(live, d) /\ d < clock ~> Here(manifest, d) \/ ~Here(live, d) \/ failing
=============================================================================
