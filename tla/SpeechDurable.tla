--------------------------- MODULE SpeechDurable ---------------------------
(***************************************************************************)
(* The durable authority of the speech pool: the rows of TranscriptionJob  *)
(* and SpeechOutbox, and the transactions SpeechDurableService and         *)
(* TranscriptionService run on them.  Every transaction is Serializable    *)
(* and first locks the row of the pool, so each one is one atomic step.    *)
(*                                                                         *)
(* Nothing is assumed of the network or of the workers: a control request  *)
(* may be repeated, late, or arrive after its worker is gone.  A request   *)
(* other than a claim quotes a grant made at some earlier time, any grant, *)
(* however old; a claim quotes any generation the job has had.  A request  *)
(* the code answers without a write is a stuttering step.                  *)
(***************************************************************************)
EXTENDS Integers, FiniteSets

CONSTANTS
  Jobs,               \* job identifiers (randomUUID: never used twice)
  Workers,            \* identities of the transcription workers
  NoWorker,           \* workerId of a row that was never claimed
  GlobalConcurrency,  \* SPEECH_GLOBAL_CONCURRENCY
  MaxAttempts,        \* SPEECH_MAX_ATTEMPTS
  MaxPendingJobs,     \* SPEECH_MAX_PENDING_JOBS
  LeaseLength,        \* SPEECH_LEASE_SECONDS
  ReclaimGrace,       \* the 5 s of reclaimBefore
  DeadlineLength,     \* SPEECH_JOB_DEADLINE_SECONDS
  OutboxRetention,    \* the 24 h a published outbox row is kept
  MaxChunk,           \* bound: largest nextChunkIndex
  MaxGeneration,      \* bound: largest generation
  MaxTime             \* bound: last instant of the clock

ASSUME ConstantsAssumption ==
  /\ IsFiniteSet(Jobs)
  /\ NoWorker \notin Workers
  /\ GlobalConcurrency \in Nat \ {0}
  /\ MaxAttempts \in Nat \ {0}
  /\ MaxPendingJobs \in Nat \ {0}
  /\ LeaseLength \in Nat \ {0}
  /\ ReclaimGrace \in Nat
  /\ DeadlineLength \in Nat \ {0}
  /\ OutboxRetention \in Nat /\ OutboxRetention >= DeadlineLength
  /\ MaxChunk \in Nat
  /\ MaxGeneration \in Nat \ {0}
  /\ MaxTime \in Nat

VARIABLES
  now,     \* the clock the replicas of the API share
  job,     \* the rows of TranscriptionJob
  outbox,  \* the rows of SpeechOutbox
  issued,  \* history: how many executions each job was granted
  grants,  \* history: those executions, which late requests may still quote
  running  \* history: the executions in lease that have not reported a stop

vars == <<now, job, outbox, issued, grants, running>>

Active   == {"queued", "processing"}
Terminal == {"completed", "failed", "cancelled"}
Gone     == {"absent", "deleted"}          \* no row: before and after

None    == 0     \* a null executionId
NoLease == -1    \* a null leaseExpiresAt
Pending == -1    \* publishedAt of a row still to be published

JobRow ==
  [status: Active \cup Terminal \cup Gone, generation: Nat, attempts: Nat,
   execution: Nat, worker: Workers \cup {NoWorker}, lease: Int,
   deadline: Nat, checkpoint: Nat, text: Nat]

OutboxRow == [job: Jobs, generation: Nat, publishedAt: Int]

Grant == [job: Jobs, generation: Nat, execution: Nat, worker: Workers]

Engine == [job: Jobs, execution: Nat, until: Nat]

NoRow(status) ==
  [status |-> status, generation |-> 0, attempts |-> 0, execution |-> None,
   worker |-> NoWorker, lease |-> NoLease, deadline |-> 0, checkpoint |-> 0,
   text |-> None]

\* What the transactions make of a row.
NewJob(deadline) ==
  [NoRow("queued") EXCEPT !.generation = 1, !.attempts = 1, !.deadline = deadline]

Retried(row, deadline) ==
  [row EXCEPT !.status = "queued", !.generation = row.generation + 1,
              !.attempts = 1, !.execution = None, !.lease = NoLease,
              !.deadline = deadline]

Requeued(row, attempts, checkpoint, text) ==
  [row EXCEPT !.status = "queued", !.generation = row.generation + 1,
              !.attempts = attempts, !.execution = None, !.lease = NoLease,
              !.checkpoint = checkpoint, !.text = text]

Claimed(row, execution, worker, lease) ==
  [row EXCEPT !.status = "processing", !.execution = execution,
              !.worker = worker, !.lease = lease]

Renewed(row, lease, checkpoint, text) ==
  [row EXCEPT !.lease = lease, !.checkpoint = checkpoint, !.text = text]

Finished(row, status, text) ==
  [row EXCEPT !.status = status, !.lease = NoLease, !.text = text]

Min2(a, b) == IF a <= b THEN a ELSE b
-----------------------------------------------------------------------------
(* Queries of the transactions. *)

IsActive(j)   == job[j].status \in Active
IsTerminal(j) == job[j].status \in Terminal

LeaseAfter(row, t) == row.lease # NoLease /\ row.lease > t

\* Faulty variant: counts only the jobs still being processed.
OccupyingProcessing == {j \in Jobs : /\ job[j].status = "processing"
                                     /\ LeaseAfter(job[j], now - ReclaimGrace)}

\* What the claim counts: an execution that may still be running somewhere.
Occupying == {j \in Jobs : /\ job[j].execution # None
                           /\ LeaseAfter(job[j], now - ReclaimGrace)}

Pool == {j \in Jobs : IsActive(j)}

\* Uploads being received also count against the quota (SpeechUploads); none
\* is the case that refuses the fewest requests.
QuotaAllows == Cardinality(Pool) < MaxPendingJobs

LeaseExpiry(j) == Min2(now + LeaseLength, job[j].deadline)

\* The engine of the grant that request r quotes.
EngineOf(r) == {e \in running : e.job = r.job /\ e.execution = r.execution}

NewOutbox(j, g) == [job |-> j, generation |-> g, publishedAt |-> Pending]

HasOutbox(j, g) == \E r \in outbox : r.job = j /\ r.generation = g

\* Faulty variant: the conflict is looked for on the job alone.
WriteOutboxOnce(j, g) ==
  outbox' = IF \E r \in outbox : r.job = j THEN outbox
            ELSE outbox \cup {NewOutbox(j, g)}

\* writeOutbox: the upsert on (jobId, generation).
WriteOutbox(j, g) ==
  outbox' = {r \in outbox : ~(r.job = j /\ r.generation = g)}
              \cup {NewOutbox(j, g)}

Init ==
  /\ now = 0
  /\ job = [j \in Jobs |-> NoRow("absent")]
  /\ outbox = {}
  /\ issued = [j \in Jobs |-> 0]
  /\ grants = {}
  /\ running = {}
-----------------------------------------------------------------------------
(* Requests of the users of the API. *)

\* createJob.  The job and its outbox row are one transaction.
CreateJob(j) ==
  /\ job[j].status = "absent"
  /\ QuotaAllows
  /\ now + DeadlineLength < MaxTime
  /\ job' = [job EXCEPT ![j] = NewJob(now + DeadlineLength)]
  /\ WriteOutbox(j, 1)
  /\ UNCHANGED <<now, issued, grants, running>>

\* Faulty variant: gives the capacity back before the engine has stopped.
CancelFreeing(j) ==
  /\ IsActive(j)
  /\ job' = [job EXCEPT ![j] = [@ EXCEPT !.status = "cancelled", !.lease = NoLease]]
  /\ UNCHANGED <<now, outbox, issued, grants, running>>

\* cancel.  The token and the lease stay until the death of the engine is
\* confirmed or the lease expires.
Cancel(j) ==
  /\ IsActive(j)
  /\ job' = [job EXCEPT ![j].status = "cancelled"]
  /\ UNCHANGED <<now, outbox, issued, grants, running>>

\* Only a failed job whose last lease has expired, within the quota; its source
\* may be gone, which only refuses more.
Retryable(j) ==
  /\ job[j].status = "failed"
  /\ ~LeaseAfter(job[j], now)
  /\ QuotaAllows

\* retry.
Retry(j) ==
  /\ Retryable(j)
  /\ job[j].generation < MaxGeneration
  /\ now + DeadlineLength < MaxTime
  /\ job' = [job EXCEPT ![j] = Retried(job[j], now + DeadlineLength)]
  /\ WriteOutbox(j, job[j].generation + 1)
  /\ UNCHANGED <<now, issued, grants, running>>

\* The transaction that ends delete: the rows of a job nobody executes.
Delete(j) ==
  /\ IsTerminal(j)
  /\ ~LeaseAfter(job[j], now - ReclaimGrace)
  /\ job' = [job EXCEPT ![j] = NoRow("deleted")]
  /\ outbox' = {r \in outbox : r.job # j}
  /\ UNCHANGED <<now, issued, grants, running>>
-----------------------------------------------------------------------------
(* control: one request of a worker. *)

SameExecution(r) ==
  /\ job[r.job].execution # None
  /\ job[r.job].execution = r.execution
  /\ job[r.job].generation = r.generation
  /\ job[r.job].worker = r.worker

\* The checks every request on a job that is not terminal has to pass.
Admitted(j, g) ==
  /\ IsActive(j)
  /\ job[j].deadline > now
  /\ job[j].generation = g

\* Any request that finds the absolute deadline behind fails the job.  The
\* token and the lease stay.
DeadlineExceeded(j) ==
  /\ IsActive(j)
  /\ job[j].deadline <= now
  /\ job' = [job EXCEPT ![j].status = "failed"]
  /\ UNCHANGED <<now, outbox, issued, grants, running>>

\* Faulty variant: a claim sent again is granted again.
ClaimableAgain(j) == IsActive(j)

Claimable(j) == job[j].status = "queued" /\ job[j].execution = None

Claim(j, g, w) ==
  /\ Admitted(j, g)
  /\ Claimable(j)
  /\ Cardinality(Occupying) < GlobalConcurrency
  /\ LET e == issued[j] + 1
     IN  /\ job' = [job EXCEPT ![j] = Claimed(job[j], e, w, LeaseExpiry(j))]
         /\ issued' = [issued EXCEPT ![j] = e]
         /\ grants' = grants \cup {[job |-> j, generation |-> job[j].generation,
                                    execution |-> e, worker |-> w]}
         /\ running' = running \cup {[job |-> j, execution |-> e,
                                      until |-> LeaseExpiry(j)]}
  /\ UNCHANGED <<now, outbox>>

\* Faulty variant: a lapsed lease can still be renewed.
InChargeLapsed(r) ==
  /\ Admitted(r.job, r.generation)
  /\ SameExecution(r)
  /\ job[r.job].status = "processing"

\* Faulty variant: whoever holds any grant of the job speaks for it.
InChargeAnyone(r) ==
  LeaseAfter(job[r.job], now) /\ job[r.job].status = "processing"

\* The execution the request quotes is the one in charge, and in time.
InCharge(r) ==
  /\ Admitted(r.job, r.generation)
  /\ SameExecution(r)
  /\ LeaseAfter(job[r.job], now)
  /\ job[r.job].status = "processing"

\* Faulty variant: a checkpoint may go back.
CheckpointAny(j, c) == TRUE

\* validateCheckpoint refuses an index behind the stored one.  It also lets
\* through a checkpoint without an index, and one of the stored index with
\* another text; the engine produces neither, for it numbers every checkpoint
\* one past the one it was granted (nextChunkIndex + 1, provider.js), so these
\* requests are not enumerated.
CheckpointAccepted(j, c) == c >= job[j].checkpoint

\* A checkpoint that advances brings the text recognized so far; the same
\* index stands for a request without a checkpoint.
TextAfter(r, c) == IF c = job[r.job].checkpoint THEN job[r.job].text ELSE r.execution

\* lease and checkpoint: renew the lease, keep the checkpoint if there is one.
RenewLease(r, c) ==
  /\ InCharge(r)
  /\ CheckpointAccepted(r.job, c)
  /\ job' = [job EXCEPT ![r.job] =
               Renewed(job[r.job], LeaseExpiry(r.job), c, TextAfter(r, c))]
  /\ running' = {[e EXCEPT !.until = LeaseExpiry(r.job)] : e \in EngineOf(r)}
                  \cup (running \ EngineOf(r))
  /\ UNCHANGED <<now, outbox, issued, grants>>

\* finish of the execution in charge.
Finish(r, status) ==
  /\ InCharge(r)
  /\ job' = [job EXCEPT ![r.job] =
               Finished(job[r.job], status, IF status = "completed" THEN r.execution
                                            ELSE job[r.job].text)]
  /\ running' = running \ EngineOf(r)
  /\ UNCHANGED <<now, outbox, issued, grants>>

\* finish of a job that is terminal already: the supervisor has stopped the
\* engine, and the lease is given back.
ConfirmStopped(r) ==
  /\ IsTerminal(r.job)
  /\ SameExecution(r)
  /\ job' = [job EXCEPT ![r.job].lease = NoLease]
  /\ running' = running \ EngineOf(r)
  /\ UNCHANGED <<now, outbox, issued, grants>>

\* Back to the queue under a new generation, with its outbox row.
Requeue(j, attempts, checkpoint, text) ==
  /\ job[j].generation < MaxGeneration
  /\ job' = [job EXCEPT ![j] = Requeued(job[j], attempts, checkpoint, text)]
  /\ WriteOutbox(j, job[j].generation + 1)
  /\ UNCHANGED <<now, issued, grants>>

\* release after a window: the attempt is not spent.
Yield(r, c) ==
  /\ InCharge(r)
  /\ CheckpointAccepted(r.job, c)
  /\ Requeue(r.job, job[r.job].attempts, c, TextAfter(r, c))
  /\ running' = running \ EngineOf(r)

\* release after a failure, with attempts left.
ReleaseForRetry(r, c) ==
  /\ InCharge(r)
  /\ CheckpointAccepted(r.job, c)
  /\ job[r.job].attempts < MaxAttempts
  /\ Requeue(r.job, job[r.job].attempts + 1, c, TextAfter(r, c))
  /\ running' = running \ EngineOf(r)

\* release after a failure that spends the last attempt.
ReleaseExhausted(r) ==
  /\ InCharge(r)
  /\ job[r.job].attempts >= MaxAttempts
  /\ job' = [job EXCEPT ![r.job] =
               Finished(job[r.job], "failed", job[r.job].text)]
  /\ running' = running \ EngineOf(r)
  /\ UNCHANGED <<now, outbox, issued, grants>>
-----------------------------------------------------------------------------
(* recoverStaleJobs: one transaction for a job the scan has found.  The    *)
(* scan reads the clock once, at t, before its transactions run.           *)

LeaseLapsed(j, t) ==
  /\ job[j].status = "processing"
  /\ job[j].lease # NoLease
  /\ job[j].lease < t - ReclaimGrace

\* Faulty variant: the absolute deadline is left to the workers.
GivesUpLapsed(j, t) == LeaseLapsed(j, t) /\ job[j].attempts >= MaxAttempts

\* Faulty variant: trusts the status the scan has read, not the row.
GivesUpUnread(j, t) == job[j].status \notin Gone /\ job[j].deadline <= t

GivesUp(j, t) ==
  /\ IsActive(j)
  /\ \/ job[j].deadline <= t
     \/ LeaseLapsed(j, t) /\ job[j].attempts >= MaxAttempts

RecoverFailed(j, t) ==
  /\ GivesUp(j, t)
  /\ job' = [job EXCEPT ![j].status = "failed"]
  /\ UNCHANGED <<now, outbox, issued, grants, running>>

\* Faulty variant: another attempt whatever their number.
TriesAgainAlways(j, t) == LeaseLapsed(j, t) /\ job[j].deadline > t

TriesAgain(j, t) ==
  /\ LeaseLapsed(j, t)
  /\ job[j].deadline > t
  /\ job[j].attempts < MaxAttempts

RecoverLapsed(j, t) ==
  /\ TriesAgain(j, t)
  /\ Requeue(j, job[j].attempts + 1, job[j].checkpoint, job[j].text)
  /\ UNCHANGED running

RecoverOutbox(j, t) ==
  /\ job[j].status = "queued"
  /\ job[j].deadline > t
  /\ ~HasOutbox(j, job[j].generation)
  /\ WriteOutbox(j, job[j].generation)
  /\ UNCHANGED <<now, job, issued, grants, running>>

RecoverStale(j, t) ==
  RecoverFailed(j, t) \/ RecoverLapsed(j, t) \/ RecoverOutbox(j, t)
-----------------------------------------------------------------------------
(* The outbox rows and the clock. *)

\* dispatchOutbox marks a row published, whether or not its job still wants
\* the publication.
MarkPublished(r) ==
  /\ r.publishedAt = Pending
  /\ outbox' = (outbox \ {r}) \cup {[r EXCEPT !.publishedAt = now]}
  /\ UNCHANGED <<now, job, issued, grants, running>>

\* cleanupExpiredUploads drops the rows published longer ago than retention.
PurgeOutbox(r) ==
  /\ r.publishedAt # Pending
  /\ r.publishedAt < now - OutboxRetention
  /\ outbox' = outbox \ {r}
  /\ UNCHANGED <<now, job, issued, grants, running>>

Tick ==
  /\ now < MaxTime
  /\ now' = now + 1
  /\ running' = {e \in running : e.until > now'}
  /\ UNCHANGED <<job, outbox, issued, grants>>

Request(r) ==
  \/ \E c \in 0..MaxChunk : RenewLease(r, c) \/ Yield(r, c) \/ ReleaseForRetry(r, c)
  \/ \E status \in Terminal : Finish(r, status)
  \/ ReleaseExhausted(r)
  \/ ConfirmStopped(r)

Next ==
  \/ Tick
  \/ \E j \in Jobs :
       \/ CreateJob(j) \/ Cancel(j) \/ Retry(j) \/ Delete(j)
       \/ DeadlineExceeded(j)
       \/ \E g \in 1..job[j].generation, w \in Workers : Claim(j, g, w)
       \/ \E t \in 0..now : RecoverStale(j, t)
  \/ \E r \in grants : Request(r)
  \/ \E r \in outbox : MarkPublished(r) \/ PurgeOutbox(r)

Spec == Init /\ [][Next]_vars

\* The timer of recoverStaleJobs runs in every replica of the API, and time
\* passes.  No worker, user or broker owes the pool anything.
Fairness ==
  /\ WF_vars(Tick)
  /\ \A j \in Jobs : WF_vars(RecoverStale(j, now))

FairSpec == Spec /\ Fairness
-----------------------------------------------------------------------------
(* What the authority promises. *)

TypeOK ==
  /\ now \in Nat
  /\ job \in [Jobs -> JobRow]
  /\ \A j \in Jobs : job[j].attempts <= MaxAttempts
  /\ outbox \subseteq OutboxRow
  /\ issued \in [Jobs -> Nat]
  /\ grants \subseteq Grant
  /\ running \subseteq Engine

\* No more engines run at once than SPEECH_GLOBAL_CONCURRENCY allows: the
\* executions whose lease has not lapsed and whose worker has not reported
\* that it stopped, whatever became of their jobs meanwhile.
EnginesWithinCapacity == Cardinality(running) <= GlobalConcurrency

\* An execution is never forgotten while its engine may run: the row of its
\* job still names it and holds its lease, even when the job was cancelled,
\* failed at its deadline or was given up by the recovery.
NoEngineForgotten ==
  \A e \in running : /\ job[e.job].execution = e.execution
                     /\ job[e.job].lease = e.until

\* A generation of a job is executed at most once: a message delivered twice,
\* or a claim repeated after its reply was lost, starts nothing.
OneGrantPerGeneration ==
  \A a, b \in grants :
    a.job = b.job /\ a.generation = b.generation => a = b

\* A queued job that still has time is on its way to the workers: the outbox
\* has the row of its current generation, whatever was purged.
QueuedIsInOutbox ==
  \A j \in Jobs : job[j].status = "queued" /\ job[j].deadline > now
                    => HasOutbox(j, job[j].generation)

\* The pool never has more pending jobs than its quota, retries included.
PendingWithinQuota == Cardinality(Pool) <= MaxPendingJobs

\* What a job shows as its result was recognized by the last execution it was
\* granted, within its lease and its deadline.
ResultOfLastExecution ==
  \A j \in Jobs : job[j].status = "completed" =>
    /\ job[j].execution = issued[j]
    /\ job[j].text = issued[j]

\* The progress of a job survives everything that happens to it: no late
\* request of an older execution takes the text or the checkpoint back, as
\* long as engines number their checkpoints as provider.js does.
ProgressKept ==
  [][\A j \in Jobs : job'[j].status # "deleted" =>
       /\ job'[j].text >= job[j].text
       /\ job'[j].checkpoint >= job[j].checkpoint]_vars

\* Whoever asks, in whatever order: a completed or cancelled job keeps its
\* outcome until it is deleted, and a failed one returns only to the queue,
\* under a new generation and with its attempts restored.
OutcomeIsFinal ==
  [][\A j \in Jobs :
       /\ job[j].status \in {"completed", "cancelled"} =>
            job'[j].status \in {job[j].status, "deleted"}
       /\ job[j].status = "failed" /\ job'[j].status # "failed" =>
            \/ job'[j].status = "deleted"
            \/ /\ job'[j].status = "queued"
               /\ job'[j].generation = job[j].generation + 1
               /\ job'[j].attempts = 1]_vars

\* Every job ends, even if no worker ever answers and the broker loses every
\* message: the recovery closes it at its absolute deadline.
EveryJobEnds == \A j \in Jobs : IsActive(j) ~> ~IsActive(j)

\* The leases in force, read from the rows alone.
LeasesOfRows ==
  {[holder |-> <<j, job[j].execution>>, until |-> job[j].lease] :
     j \in {k \in Jobs : /\ job[k].execution # None
                         /\ LeaseAfter(job[k], now)}}

LP == INSTANCE LeasePool WITH
        Capacity <- GlobalConcurrency,
        Holders <- Jobs \X (1..MaxGeneration),
        clock <- now,
        held <- LeasesOfRows,
        used <- {<<r.job, r.execution>> : r \in grants}

\* The rows implement the pool of leases: through claims, renewals, lost
\* replies, cancellations, deadlines, recoveries and retries, what they say
\* is held changes only as a lease may.
ImplementsLeasePool == LP!Spec
=============================================================================
