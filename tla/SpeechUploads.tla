---------------------------- MODULE SpeechUploads ----------------------------
(***************************************************************************)
(* The audio of an upload on its way through three stores that share no    *)
(* transaction: the reservation and the job in the database, the object in *)
(* the private bucket.  A request reserves, stores its object and commits  *)
(* a job that takes the place of the reservation; whatever goes wrong in   *)
(* between leaves a reservation as the ledger of the object, for the       *)
(* cleanup to settle.  The source of a job that is over is removed behind  *)
(* a fence that a retry of the job respects.                               *)
(*                                                                         *)
(* SpeechDurable says how a job comes to its end; here it just does.       *)
(* The row of a job and its object carry the name of the request that      *)
(* created them: rows are never moved to another object.                   *)
(***************************************************************************)
EXTENDS Integers, FiniteSets

CONSTANTS
  Requests,    \* uploads of one audio, each for an object of its own
  Removers,    \* cleanups and deletions under way, of any API process
  Nobody,      \* no deletion owns the fence of a source
  MaxUploads,  \* SPEECH_MAX_UPLOADS: reservations that stand
  MaxMishaps   \* bound: crashes and answers that are lost

ASSUME UploadsAssumption ==
  /\ Nobody \notin Removers
  /\ MaxUploads \in Nat /\ MaxMishaps \in Nat

VARIABLES
  dictation,  \* the audio is sent for dictation: its source expires
  pc,       \* where a request is
  resv,     \* its row of SpeechUploadReservation
  named,    \* the row has a sourceKey
  landing,  \* objects whose transfer may still complete in the store
  store,    \* the objects of the bucket
  doomed,   \* objects whose removal may still take effect
  job,      \* the row of TranscriptionJob
  looked,   \* retries that found the source and will go on
  rm,       \* the removers
  mishaps,
  unsure    \* history: jobs whose creation was committed and not answered

requests == <<pc, resv, named, landing>>
objects  == <<store, doomed>>
history  == <<dictation, unsure>>
vars == <<requests, objects, job, looked, rm, mishaps, history>>

NoRow == [status |-> "none", lease |-> FALSE, aged |-> FALSE, fence |-> "none",
          token |-> Nobody, deleted |-> FALSE]
NewRow == [NoRow EXCEPT !.status = "active"]
Idle == [step |-> "idle", why |-> "none", key |-> "none"]

Init ==
  /\ dictation \in BOOLEAN
  /\ pc = [r \in Requests |-> "idle"]
  /\ resv = [r \in Requests |-> "none"]
  /\ named = {} /\ landing = {} /\ store = {} /\ doomed = {}
  /\ job = [r \in Requests |-> NoRow]
  /\ looked = {}
  /\ rm = [x \in Removers |-> Idle]
  /\ mishaps = 0
  /\ unsure = {}

Goto(r, s) == pc' = [pc EXCEPT ![r] = s]
DropRow(r) == resv' = [resv EXCEPT ![r] = "none"] /\ named' = named \ {r}
Mishap == mishaps < MaxMishaps /\ mishaps' = mishaps + 1

\* A row with the dedupKey of the audio.
Known == \E q \in Requests : job[q].status # "none"

Over(r) == job[r].status \in {"failed", "done"}
-----------------------------------------------------------------------------
(* Time. *)

\* expiresAt of a reservation passes, and then the minute the cleanup grants
\* it: what was under way in the store has happened by then or never does.
ReservationAges(r) ==
  /\ \/ resv[r] = "live" /\ resv' = [resv EXCEPT ![r] = "expired"]
     \/ /\ resv[r] = "expired" /\ r \notin landing
        /\ pc[r] # "transfer"
        /\ resv' = [resv EXCEPT ![r] = "old"]
  /\ UNCHANGED <<pc, named, landing, objects, job, looked, rm, mishaps, history>>

\* sourceExpiresAt of a dictation, or the retention of a job that is over; and
\* the minute in which nobody may repeat a deletion.
SourceAges(r) ==
  /\ \/ /\ job[r].status # "none" /\ ~job[r].aged
        /\ Over(r) \/ dictation
        /\ job' = [job EXCEPT ![r].aged = TRUE]
     \/ /\ job[r].fence = "fresh"
        /\ job' = [job EXCEPT ![r].fence = "stale"]
  /\ UNCHANGED <<requests, objects, looked, rm, mishaps, history>>

\* An object whose sender hears no more lands in the bucket after all, or not.
Lands(r) ==
  /\ r \in landing /\ pc[r] # "transfer"
  /\ landing' = landing \ {r}
  /\ store' \in {store, store \cup {r}}
  /\ UNCHANGED <<pc, resv, named, doomed, job, looked, rm, mishaps, history>>

\* A removal that was given up takes effect after all, or not.
VanishesLate(r) ==
  /\ r \in doomed
  /\ doomed' = doomed \ {r}
  /\ store' \in {store, store \ {r}}
  /\ UNCHANGED <<requests, job, looked, rm, mishaps, history>>

\* SpeechSourceStorage.remove answers TRUE once the object is gone.  FALSE
\* says nothing: its request may be answered, under way or lost.
Remove(r, answer) ==
  IF answer THEN store' = store \ {r} /\ UNCHANGED <<doomed, mishaps>>
  ELSE /\ Mishap
       /\ \/ store' = store \ {r} /\ UNCHANGED doomed
          \/ doomed' = doomed \cup {r} /\ UNCHANGED store
-----------------------------------------------------------------------------
(* A request. *)

\* reserveUpload counts the reservations that have not expired.
Reserve(r) ==
  /\ pc[r] = "idle"
  /\ Cardinality({q \in Requests : resv[q] = "live"}) < MaxUploads
  /\ resv' = [resv EXCEPT ![r] = "live"]
  /\ Goto(r, "receive")
  /\ UNCHANGED <<named, landing, objects, job, looked, rm, mishaps, history>>

\* The body is not received, or a job with this dedupKey is the answer: the
\* middleware releases the reservation, which names no source.
Release(r) ==
  /\ pc[r] = "receive"
  /\ DropRow(r)
  /\ Goto(r, "end")
  /\ UNCHANGED <<landing, objects, job, looked, rm, mishaps, history>>

\* Faulty variant: the row is named whether the cleanup has left it or not.
TransferAnyway(r) ==
  /\ pc[r] = "receive" /\ ~Known
  /\ named' = named \cup {r}
  /\ IF resv[r] = "live"
       THEN Goto(r, "transfer") /\ landing' = landing \cup {r}
       ELSE Goto(r, "end") /\ UNCHANGED landing
  /\ UNCHANGED <<resv, objects, job, looked, rm, mishaps, history>>

\* The reservation, if the cleanup has left it, gets the name of the object;
\* the transfer starts if it can end before the reservation does.
Transfer(r) ==
  /\ pc[r] = "receive" /\ ~Known
  /\ resv[r] # "none"
  /\ named' = named \cup {r}
  /\ IF resv[r] = "live"
       THEN Goto(r, "transfer") /\ landing' = landing \cup {r}
       ELSE Goto(r, "end") /\ UNCHANGED landing
  /\ UNCHANGED <<resv, objects, job, looked, rm, mishaps, history>>

Stored(r) ==
  /\ pc[r] = "transfer"
  /\ store' = store \cup {r} /\ landing' = landing \ {r}
  /\ Goto(r, "commit")
  /\ UNCHANGED <<resv, named, doomed, job, looked, rm, mishaps, history>>

\* putObject fails or has taken longer than transferBudget.
TransferFails(r) ==
  /\ pc[r] = "transfer"
  /\ Goto(r, "undo")
  /\ UNCHANGED <<resv, named, landing, objects, job, looked, rm, mishaps, history>>

\* createJob looks at the row again.
ReservationStands(r) == resv[r] = "live" /\ r \in named

\* createJob: one transaction, which may commit without an answer.
CreateJob(r) ==
  /\ pc[r] = "commit"
  /\ ~Known /\ ReservationStands(r)
  /\ job' = [job EXCEPT ![r] = NewRow]
  /\ DropRow(r)
  /\ \/ Goto(r, "end") /\ UNCHANGED <<unsure, mishaps>>
     \/ Mishap /\ unsure' = unsure \cup {r} /\ Goto(r, "undo")
  /\ UNCHANGED <<dictation, landing, objects, looked, rm>>

\* Another request has created the job meanwhile; the reservation stays.
FindJob(r) ==
  /\ pc[r] = "commit"
  /\ Known
  /\ Goto(r, "redundant")
  /\ UNCHANGED <<resv, named, landing, objects, job, looked, rm, mishaps, history>>

\* The reservation has expired, a quota is exhausted, or the database fails.
CreateFails(r) ==
  /\ pc[r] = "commit"
  /\ Goto(r, "undo")
  /\ UNCHANGED <<resv, named, landing, objects, job, looked, rm, mishaps, history>>

\* Faulty variant: the ledger goes with the request.
UndoForgets(r) ==
  /\ pc[r] = "undo"
  /\ \E answer \in BOOLEAN : Remove(r, answer)
  /\ DropRow(r)
  /\ Goto(r, "end")
  /\ UNCHANGED <<landing, job, looked, rm, history>>

\* The catch of enqueueStoredAudio: the reservation stays for what may follow.
Undo(r) ==
  /\ pc[r] = "undo"
  /\ \E answer \in BOOLEAN : Remove(r, answer)
  /\ Goto(r, "end")
  /\ UNCHANGED <<resv, named, landing, job, looked, rm, history>>

\* The second object of an audio: its reservation goes when it surely is gone.
DropRedundant(r) ==
  /\ pc[r] = "redundant"
  /\ \E answer \in BOOLEAN :
       /\ Remove(r, answer)
       /\ IF answer THEN DropRow(r) ELSE UNCHANGED <<resv, named>>
  /\ Goto(r, "end")
  /\ UNCHANGED <<landing, job, looked, rm, history>>

\* The API process dies: nothing of the request runs any more.
Crash(r) ==
  /\ pc[r] \notin {"idle", "end"}
  /\ Mishap
  /\ Goto(r, "end")
  /\ UNCHANGED <<resv, named, landing, objects, job, looked, rm, history>>
-----------------------------------------------------------------------------
(* The jobs. *)

\* A worker takes the lease of an active job; workers, users and the
\* reconciliation end it, with the lease given back or still in force.
Work(r) ==
  /\ job[r].status = "active"
  /\ \E status \in {"active", "failed", "done"}, lease \in BOOLEAN :
       job' = [job EXCEPT ![r].status = status, ![r].lease = lease]
  /\ UNCHANGED <<requests, objects, looked, rm, mishaps, history>>

LeaseLapses(r) ==
  /\ job[r].lease /\ Over(r)
  /\ job' = [job EXCEPT ![r].lease = FALSE]
  /\ UNCHANGED <<requests, objects, looked, rm, mishaps, history>>

\* TranscriptionService.retry looks for the object, and goes on in a
\* transaction that looks at the row only.  Of a job that has not failed yet
\* it would find the same object.
LookForSource(r) ==
  /\ job[r].status = "failed" /\ ~job[r].deleted
  /\ ~(dictation /\ job[r].aged)
  /\ r \in store
  /\ looked' = looked \cup {r}
  /\ UNCHANGED <<requests, objects, job, rm, mishaps, history>>

\* Faulty variant: a deletion under way is no reason to refuse.
RetryableUnfenced(r) ==
  /\ job[r].status = "failed" /\ ~job[r].lease
  /\ ~job[r].deleted
  /\ ~(dictation /\ job[r].aged)

Retryable(r) ==
  /\ job[r].status = "failed" /\ ~job[r].lease
  /\ ~job[r].deleted /\ job[r].fence = "none"
  /\ ~(dictation /\ job[r].aged)

Retry(r) ==
  /\ r \in looked
  /\ looked' = looked \ {r}
  /\ job' = IF Retryable(r)
              THEN [job EXCEPT ![r].status = "active", ![r].aged = dictation /\ job[r].aged]
              ELSE job
  /\ UNCHANGED <<requests, objects, rm, mishaps, history>>
-----------------------------------------------------------------------------
(* Removal behind the fence, for the cleanup of sources and for delete. *)

Set(x, step, why, key) ==
  rm' = [rm EXCEPT ![x] = [step |-> step, why |-> why, key |-> key]]
Rest(x) == rm' = [rm EXCEPT ![x] = Idle]

\* Faulty variant: jobs that failed keep their source for a retry.
ListDone(x, r) ==
  /\ rm[x] = Idle
  /\ job[r].status = "done" /\ job[r].aged /\ ~job[r].lease /\ ~job[r].deleted
  /\ Set(x, "fence", "cleanup", r)
  /\ UNCHANGED <<requests, objects, job, looked, mishaps, history>>

\* The list the cleanup works through was read before.
List(x, r) ==
  /\ rm[x] = Idle
  /\ Over(r) /\ job[r].aged /\ ~job[r].lease /\ ~job[r].deleted
  /\ Set(x, "fence", "cleanup", r)
  /\ UNCHANGED <<requests, objects, job, looked, mishaps, history>>

\* delete(): an active job is cancelled first.
Delete(x, r) ==
  /\ rm[x] = Idle
  /\ job[r].status # "none"
  /\ job' = IF Over(r) THEN job ELSE [job EXCEPT ![r].status = "done"]
  /\ Set(x, "fence", "delete", r)
  /\ UNCHANGED <<requests, objects, looked, mishaps, history>>

Fenceable(r) == Over(r) /\ ~job[r].lease /\ job[r].fence # "fresh"

Fence(x) ==
  LET r == rm[x].key IN
  /\ rm[x].step = "fence"
  /\ IF Fenceable(r)
       THEN /\ job' = [job EXCEPT ![r].fence = "fresh", ![r].token = x]
            /\ Set(x, "remove", rm[x].why, r)
       ELSE Rest(x) /\ UNCHANGED job
  /\ UNCHANGED <<requests, objects, looked, mishaps, history>>

\* Without a sure answer the fence stays.
RemoveSource(x) ==
  LET r == rm[x].key IN
  /\ rm[x].step = "remove"
  /\ \E answer \in BOOLEAN :
       /\ Remove(r, answer)
       /\ IF answer THEN Set(x, "mark", rm[x].why, r) ELSE Rest(x)
  /\ UNCHANGED <<requests, job, looked, history>>

\* sourceDeletedAt, where the fence still is the one of this deletion.
Mark(x) ==
  LET r == rm[x].key IN
  /\ rm[x].step = "mark"
  /\ job' = IF job[r].token = x
              THEN [job EXCEPT ![r].deleted = TRUE, ![r].fence = "none", ![r].token = Nobody]
              ELSE job
  /\ IF rm[x].why = "delete" THEN Set(x, "erase", "delete", r) ELSE Rest(x)
  /\ UNCHANGED <<requests, objects, looked, mishaps, history>>

\* The row goes unless the job runs again.
Erase(x) ==
  LET r == rm[x].key IN
  /\ rm[x].step = "erase"
  /\ job' = IF Over(r) /\ ~job[r].lease THEN [job EXCEPT ![r] = NoRow] ELSE job
  /\ looked' = IF job'[r] = NoRow THEN looked \ {r} ELSE looked
  /\ Rest(x)
  /\ UNCHANGED <<requests, objects, mishaps, history>>
-----------------------------------------------------------------------------
(* The cleanup of reservations. *)

\* Faulty variant: a reservation without a source is left to its request.
SweepNamed(x, r) ==
  /\ rm[x] = Idle
  /\ resv[r] = "old" /\ r \in named
  /\ IF job[r].status = "none"
       THEN Set(x, "sweep", "cleanup", r) /\ UNCHANGED <<resv, named>>
       ELSE DropRow(r) /\ UNCHANGED rm
  /\ UNCHANGED <<pc, landing, objects, job, looked, mishaps, history>>

\* A reservation without an object of its own just goes.
Sweep(x, r) ==
  /\ rm[x] = Idle
  /\ resv[r] = "old"
  /\ IF r \in named /\ job[r].status = "none"
       THEN Set(x, "sweep", "cleanup", r) /\ UNCHANGED <<resv, named>>
       ELSE DropRow(r) /\ UNCHANGED rm
  /\ UNCHANGED <<pc, landing, objects, job, looked, mishaps, history>>

SweepObject(x) ==
  LET r == rm[x].key IN
  /\ rm[x].step = "sweep"
  /\ \E answer \in BOOLEAN :
       /\ Remove(r, answer)
       /\ IF answer THEN DropRow(r) ELSE UNCHANGED <<resv, named>>
  /\ Rest(x)
  /\ UNCHANGED <<pc, landing, job, looked, history>>

Interrupt(x) ==
  /\ rm[x] # Idle
  /\ Mishap
  /\ Rest(x)
  /\ UNCHANGED <<requests, objects, job, looked, history>>
-----------------------------------------------------------------------------
Proceed(r) ==
  \/ Release(r) \/ Transfer(r) \/ Stored(r) \/ TransferFails(r)
  \/ CreateJob(r) \/ FindJob(r) \/ CreateFails(r) \/ Undo(r) \/ DropRedundant(r)

Request(r) == Reserve(r) \/ Proceed(r) \/ Crash(r)

Time(r) == ReservationAges(r) \/ SourceAges(r) \/ Lands(r) \/ VanishesLate(r)

Job(r) == Work(r) \/ LeaseLapses(r) \/ LookForSource(r) \/ Retry(r)

Carry(x) ==
  Fence(x) \/ RemoveSource(x) \/ Mark(x) \/ Erase(x) \/ SweepObject(x)

Removal(x) ==
  \/ \E r \in Requests : List(x, r) \/ Delete(x, r) \/ Sweep(x, r)
  \/ Carry(x) \/ Interrupt(x)

Next ==
  \/ \E r \in Requests : Request(r) \/ Time(r) \/ Job(r)
  \/ \E x \in Removers : Removal(x)

Spec == Init /\ [][Next]_vars

\* Time passes, every await has a bound, and the cleanup runs every minute.
\* Nothing is owed by users, workers and the store, whose failures are bounded.
Fairness ==
  /\ WF_vars(\E r \in Requests : Proceed(r) \/ ReservationAges(r) \/ Lands(r))
  /\ \A r \in Requests :
       /\ WF_vars(Over(r) /\ (SourceAges(r) \/ LeaseLapses(r)))
       /\ SF_vars(\E x \in Removers : List(x, r) \/ Sweep(x, r))
  /\ \A x \in Removers : WF_vars(Carry(x))

FairSpec == Spec /\ Fairness
-----------------------------------------------------------------------------
TypeOK ==
  /\ dictation \in BOOLEAN
  /\ pc \in [Requests -> {"idle", "receive", "transfer", "commit", "redundant", "undo", "end"}]
  /\ resv \in [Requests -> {"none", "live", "expired", "old"}]
  /\ named \subseteq {r \in Requests : resv[r] # "none"}
  /\ landing \subseteq Requests /\ store \subseteq Requests /\ doomed \subseteq Requests
  /\ job \in [Requests -> [status : {"none", "active", "failed", "done"}, lease : BOOLEAN,
                           aged : BOOLEAN, fence : {"none", "fresh", "stale"},
                           token : Removers \cup {Nobody}, deleted : BOOLEAN]]
  /\ looked \subseteq {r \in Requests : job[r].status # "none"}
  /\ rm \in [Removers -> [step : {"idle", "fence", "remove", "mark", "erase", "sweep"},
                          why : {"none", "cleanup", "delete"},
                          key : Requests \cup {"none"}]]
  /\ mishaps \in 0..MaxMishaps
  /\ unsure \subseteq Requests

\* Every object in the bucket, or still on its way there, is on record for
\* the cleanup to find: a reservation names it, or a job that does not take
\* it for deleted.
ObjectsOnRecord ==
  \A r \in store \cup landing :
    r \in named \/ (job[r].status # "none" /\ ~job[r].deleted)

\* A job that is to run, or may still be running, has its source, and no
\* removal of it is under way.  Exempt is the job whose creation was committed
\* without an answer: the request removes its source.
SourceOfActiveJob ==
  \A r \in Requests \ unsure :
    job[r].status = "active" \/ job[r].lease
      => /\ r \in store \ doomed
         /\ \A x \in Removers : rm[x].key = r => rm[x].step \notin {"remove", "mark", "sweep"}

\* Whatever becomes of a request, its reservation goes, and its object too
\* unless it is the source of a job.
LedgerSettles ==
  \A r \in Requests :
    pc[r] # "idle" ~> resv[r] = "none" /\ (r \in store => job[r].status # "none")

\* The source of a job that is over does not outlive its retention.
SourcesGo ==
  \A r \in Requests :
    Over(r) /\ job[r].aged ~> r \notin store \/ job[r].status = "active"
=============================================================================
