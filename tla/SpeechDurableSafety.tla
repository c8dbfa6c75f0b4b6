------------------------- MODULE SpeechDurableSafety -------------------------
(***************************************************************************)
(* The safety of SpeechDurable: an inductive invariant, the theorems that  *)
(* follow from it, and the refinement of the pool of leases.               *)
(*                                                                         *)
(* Some twenty actions change a row in eleven ways.  The steps are first   *)
(* sorted into those ways (lemma StepKinds), each written as facts about   *)
(* the fields before and after; the invariant is then preserved by each.   *)
(***************************************************************************)
EXTENDS SpeechDurableProofs

-----------------------------------------------------------------------------
(* The inductive invariant.                                                *)

\* What the fields of a row say of one another and of the history.
RowsConsistent ==
  \A j \in Jobs :
    /\ job[j].status \in Gone => job[j].execution = None /\ job[j].lease = NoLease
    /\ job[j].status = "queued" => job[j].execution = None /\ job[j].lease = NoLease
    /\ job[j].status = "completed" =>
         job[j].execution = issued[j] /\ job[j].text = issued[j]
    /\ job[j].execution # None => job[j].execution = issued[j]
    /\ job[j].text <= issued[j]
    /\ job[j].status \notin Gone => job[j].deadline <= now + DeadlineLength

\* A grant belongs to a generation its job has left, or has claimed.
GrantsConsistent ==
  \A r \in grants :
    /\ job[r.job].status # "absent"
    /\ job[r.job].status # "deleted" => r.generation <= job[r.job].generation
    /\ job[r.job].status = "queued" => r.generation < job[r.job].generation

\* Every engine that may run is in the row of its job, which holds its lease.
EnginesConsistent ==
  /\ NoEngineForgotten
  /\ \A e \in running : e.until > now /\ e.execution # None

\* The jobs whose lease is in force.
Holding == {j \in Jobs : job[j].execution # None /\ LeaseAfter(job[j], now)}

HoldingWithinCapacity == Cardinality(Holding) <= GlobalConcurrency

\* The row of the current generation is purged only after the deadline.
OutboxConsistent ==
  \A r \in outbox :
    /\ job[r.job].status \notin Gone
    /\ r.generation = job[r.job].generation
    => \/ r.publishedAt = Pending
       \/ r.publishedAt + DeadlineLength >= job[r.job].deadline

IInv ==
  /\ TypeOK /\ RowsConsistent
  /\ GrantsConsistent /\ OneGrantPerGeneration
  /\ EnginesConsistent /\ HoldingWithinCapacity
  /\ OutboxConsistent /\ QueuedIsInOutbox
  /\ PendingWithinQuota
-----------------------------------------------------------------------------
(* The kinds of steps.                                                     *)

OthersKept(j) == \A k \in Jobs : k # j => job'[k] = job[k]

\* The engine the row of j names is not running after the step.
EngineStopped(j) ==
  /\ running' \subseteq running
  /\ \A e \in running' : ~(e.job = j /\ e.execution = job[j].execution)

CreatedStep(j) ==
  /\ job[j].status = "absent"
  /\ QuotaAllows
  /\ OthersKept(j)
  /\ job'[j].status = "queued" /\ job'[j].execution = None
  /\ job'[j].lease = NoLease /\ job'[j].text = None
  /\ job'[j].generation = 1
  /\ job'[j].deadline = now + DeadlineLength
  /\ WriteOutbox(j, job'[j].generation)
  /\ UNCHANGED <<now, issued, grants, running>>

\* Cancel, DeadlineExceeded, RecoverFailed.
ClosedStep(j) ==
  /\ IsActive(j)
  /\ OthersKept(j)
  /\ job'[j].status \in {"failed", "cancelled"}
  /\ job'[j].execution = job[j].execution /\ job'[j].lease = job[j].lease
  /\ job'[j].text = job[j].text /\ job'[j].generation = job[j].generation
  /\ job'[j].deadline = job[j].deadline
  /\ job'[j].checkpoint = job[j].checkpoint
  /\ UNCHANGED <<now, outbox, issued, grants, running>>

RetriedStep(j) ==
  /\ job[j].status = "failed"
  /\ ~LeaseAfter(job[j], now)
  /\ QuotaAllows
  /\ OthersKept(j)
  /\ job'[j].status = "queued" /\ job'[j].execution = None
  /\ job'[j].lease = NoLease /\ job'[j].text = job[j].text
  /\ job'[j].generation = job[j].generation + 1
  /\ job'[j].generation <= MaxGeneration
  /\ job'[j].attempts = 1
  /\ job'[j].deadline = now + DeadlineLength
  /\ job'[j].checkpoint = job[j].checkpoint
  /\ WriteOutbox(j, job'[j].generation)
  /\ UNCHANGED <<now, issued, grants, running>>

DeletedStep(j) ==
  /\ IsTerminal(j)
  /\ ~LeaseAfter(job[j], now - ReclaimGrace)
  /\ OthersKept(j)
  /\ job'[j].status = "deleted" /\ job'[j].execution = None
  /\ job'[j].lease = NoLease /\ job'[j].text = None
  /\ outbox' = {r \in outbox : r.job # j}
  /\ UNCHANGED <<now, issued, grants, running>>

ClaimedStep(j) ==
  /\ job[j].status = "queued"
  /\ job[j].execution = None
  /\ job[j].deadline > now
  /\ Cardinality(Occupying) < GlobalConcurrency
  /\ OthersKept(j)
  /\ job'[j].status = "processing" /\ job'[j].execution = issued[j] + 1
  /\ job'[j].lease = LeaseExpiry(j) /\ job'[j].text = job[j].text
  /\ job'[j].generation = job[j].generation
  /\ job'[j].deadline = job[j].deadline
  /\ job'[j].checkpoint = job[j].checkpoint
  /\ issued' = [issued EXCEPT ![j] = issued[j] + 1]
  /\ \E w \in Workers :
       grants' = grants \cup {[job |-> j, generation |-> job[j].generation,
                               execution |-> issued[j] + 1, worker |-> w]}
  /\ running' = running \cup {[job |-> j, execution |-> issued[j] + 1,
                               until |-> LeaseExpiry(j)]}
  /\ UNCHANGED <<now, outbox>>

RenewedStep(j) ==
  /\ job[j].status = "processing"
  /\ job[j].execution # None
  /\ job[j].deadline > now
  /\ LeaseAfter(job[j], now)
  /\ OthersKept(j)
  /\ job'[j].status = "processing" /\ job'[j].execution = job[j].execution
  /\ job'[j].lease = LeaseExpiry(j)
  /\ job'[j].text \in {job[j].text, job[j].execution}
  /\ job'[j].generation = job[j].generation
  /\ job'[j].deadline = job[j].deadline
  /\ job'[j].checkpoint >= job[j].checkpoint
  /\ \A e \in running' :
       \/ e \in running /\ ~(e.job = j /\ e.execution = job[j].execution)
       \/ /\ e.job = j /\ e.execution = job[j].execution
          /\ e.until = LeaseExpiry(j)
  /\ UNCHANGED <<now, outbox, issued, grants>>

\* Finish and ReleaseExhausted, and ConfirmStopped of a job that has ended.
StoppedStep(j) ==
  /\ job[j].execution # None
  /\ OthersKept(j)
  /\ job'[j].lease = NoLease
  /\ \/ /\ IsTerminal(j)
        /\ job'[j].status = job[j].status /\ job'[j].text = job[j].text
     \/ /\ job[j].status = "processing"
        /\ job'[j].status \in Terminal
        /\ job'[j].text \in {job[j].text, job[j].execution}
        /\ job'[j].status = "completed" => job'[j].text = job[j].execution
  /\ job'[j].execution = job[j].execution
  /\ job'[j].generation = job[j].generation
  /\ job'[j].deadline = job[j].deadline
  /\ job'[j].checkpoint = job[j].checkpoint
  /\ EngineStopped(j)
  /\ UNCHANGED <<now, outbox, issued, grants>>

\* Yield, ReleaseForRetry, RecoverLapsed.
RequeuedStep(j) ==
  /\ job[j].status = "processing"
  /\ OthersKept(j)
  /\ job'[j].status = "queued" /\ job'[j].execution = None
  /\ job'[j].lease = NoLease
  /\ \/ job'[j].text = job[j].text
     \/ job[j].execution # None /\ job'[j].text = job[j].execution
  /\ job'[j].generation = job[j].generation + 1
  /\ job'[j].generation <= MaxGeneration
  /\ job'[j].deadline = job[j].deadline
  /\ job'[j].checkpoint >= job[j].checkpoint
  /\ WriteOutbox(j, job'[j].generation)
  /\ \/ EngineStopped(j)
     \/ running' = running /\ ~LeaseAfter(job[j], now)
  /\ UNCHANGED <<now, issued, grants>>

OutboxStep ==
  /\ \/ \E j \in Jobs : /\ job[j].status = "queued"
                        /\ WriteOutbox(j, job[j].generation)
     \/ \E r \in outbox : MarkPublished(r) \/ PurgeOutbox(r)
  /\ UNCHANGED <<now, job, issued, grants, running>>

RowStep(j) ==
  \/ CreatedStep(j) \/ ClosedStep(j) \/ RetriedStep(j) \/ DeletedStep(j)
  \/ ClaimedStep(j) \/ RenewedStep(j) \/ StoppedStep(j) \/ RequeuedStep(j)

LEMMA RequeueFacts ==
  ASSUME TypeOK, NEW j \in Jobs, NEW a, NEW c, NEW t, Requeue(j, a, c, t)
  PROVE  /\ OthersKept(j)
         /\ job'[j].status = "queued" /\ job'[j].execution = None
         /\ job'[j].lease = NoLease /\ job'[j].text = t
         /\ job'[j].generation = job[j].generation + 1
         /\ job'[j].generation <= MaxGeneration
         /\ job'[j].deadline = job[j].deadline
         /\ job'[j].checkpoint = c
         /\ WriteOutbox(j, job'[j].generation)
         /\ UNCHANGED <<now, issued, grants>>
<1>1. job' = [job EXCEPT ![j] = Requeued(job[j], a, c, t)] /\ job \in [Jobs -> JobRow]
  BY DEF Requeue, TypeOK
<1>2. job'[j] = Requeued(job[j], a, c, t)
  BY <1>1
<1>3. /\ job'[j].status = "queued" /\ job'[j].execution = None
      /\ job'[j].lease = NoLease /\ job'[j].text = t
      /\ job'[j].generation = job[j].generation + 1
      /\ job'[j].generation <= MaxGeneration
      /\ job'[j].deadline = job[j].deadline
      /\ job'[j].checkpoint = c
  <2>1. job[j] \in JobRow /\ job[j].generation < MaxGeneration
    BY <1>1 DEF Requeue
  <2> QED
    BY <1>2, <2>1, ConstantsAssumption DEF Requeued, JobRow
<1> QED
  BY <1>1, <1>3 DEF Requeue, OthersKept

LEMMA StepKinds ==
  ASSUME TypeOK, [Next]_vars
  PROVE  Tick \/ OutboxStep \/ UNCHANGED vars \/ \E j \in Jobs : RowStep(j)
<1> DEFINE Goal == Tick \/ OutboxStep \/ UNCHANGED vars \/ \E j \in Jobs : RowStep(j)
<1> HIDE DEF Goal
<1> SUFFICES Goal
  BY DEF Goal
<1>0. job \in [Jobs -> JobRow] /\ \A j \in Jobs : job[j] \in JobRow
  BY DEF TypeOK
<1>1. CASE Tick
  BY <1>1 DEF Goal
<1>2. ASSUME NEW j \in Jobs, CreateJob(j) PROVE Goal
  <2>1. CreatedStep(j)
    <3>1. job'[j] = NewJob(now + DeadlineLength) /\ OthersKept(j)
      BY <1>0, <1>2 DEF CreateJob, OthersKept
    <3>2. /\ job'[j].status = "queued" /\ job'[j].execution = None
          /\ job'[j].lease = NoLease /\ job'[j].text = None
          /\ job'[j].generation = 1 /\ job'[j].deadline = now + DeadlineLength
      BY <3>1 DEF NewJob, NoRow
    <3> QED
      BY <1>2, <3>1, <3>2 DEF CreateJob, CreatedStep
  <2> QED
    BY <2>1 DEF Goal, RowStep
<1>3. ASSUME NEW j \in Jobs, NEW status \in {"failed", "cancelled"}, IsActive(j),
             job' = [job EXCEPT ![j].status = status],
             UNCHANGED <<now, outbox, issued, grants, running>>
      PROVE  Goal
  <2>1. job'[j] = [job[j] EXCEPT !.status = status] /\ OthersKept(j)
    BY <1>0, <1>3 DEF OthersKept
  <2>2. ClosedStep(j)
    BY <1>0, <1>3, <2>1 DEF ClosedStep, JobRow
  <2> QED
    BY <2>2 DEF Goal, RowStep
<1>4. ASSUME NEW j \in Jobs, Cancel(j) \/ DeadlineExceeded(j) PROVE Goal
  BY <1>3, <1>4 DEF Cancel, DeadlineExceeded
<1>5. ASSUME NEW j \in Jobs, Retry(j) PROVE Goal
  <2>1. job'[j] = Retried(job[j], now + DeadlineLength) /\ OthersKept(j)
    BY <1>0, <1>5 DEF Retry, OthersKept
  <2>2. RetriedStep(j)
    BY <1>0, <1>5, <2>1, ConstantsAssumption
       DEF Retry, Retryable, Retried, RetriedStep, JobRow
  <2> QED
    BY <2>2 DEF Goal, RowStep
<1>6. ASSUME NEW j \in Jobs, Delete(j) PROVE Goal
  <2>1. job'[j] = NoRow("deleted") /\ OthersKept(j)
    BY <1>0, <1>6 DEF Delete, OthersKept
  <2>2. DeletedStep(j)
    BY <1>6, <2>1 DEF Delete, DeletedStep, NoRow
  <2> QED
    BY <2>2 DEF Goal, RowStep
<1>7. ASSUME NEW j \in Jobs, NEW g, NEW w \in Workers, Claim(j, g, w) PROVE Goal
  <2>1. job'[j] = Claimed(job[j], issued[j] + 1, w, LeaseExpiry(j)) /\ OthersKept(j)
    BY <1>0, <1>7 DEF Claim, OthersKept
  <2>2. /\ job'[j].status = "processing" /\ job'[j].execution = issued[j] + 1
        /\ job'[j].lease = LeaseExpiry(j) /\ job'[j].text = job[j].text
        /\ job'[j].generation = job[j].generation
        /\ job'[j].deadline = job[j].deadline
        /\ job'[j].checkpoint = job[j].checkpoint
    BY <1>0, <2>1 DEF Claimed, JobRow
  <2>3. ClaimedStep(j)
    BY <1>7, <2>1, <2>2 DEF Claim, Claimable, Admitted, ClaimedStep
  <2> QED
    BY <2>3 DEF Goal, RowStep
<1>8. ASSUME NEW j \in Jobs, NEW t \in 0..now, RecoverStale(j, t) PROVE Goal
  <2>1. CASE RecoverFailed(j, t)
    BY <1>3, <2>1 DEF RecoverFailed, GivesUp
  <2>2. CASE RecoverLapsed(j, t)
    <3>1. /\ ~LeaseAfter(job[j], now) /\ job[j].status = "processing"
          /\ job[j].checkpoint >= job[j].checkpoint
      BY <1>0, <2>2, ConstantsAssumption
         DEF RecoverLapsed, TriesAgain, LeaseLapsed, LeaseAfter, TypeOK, JobRow
    <3>2. RequeuedStep(j)
      <4>1. Requeue(j, job[j].attempts + 1, job[j].checkpoint, job[j].text)
            /\ running' = running
        BY <2>2 DEF RecoverLapsed
      <4> QED
        BY <3>1, <4>1, RequeueFacts DEF RequeuedStep
    <3> QED
      BY <3>2 DEF Goal, RowStep
  <2>3. CASE RecoverOutbox(j, t)
    <3>1. OutboxStep
      BY <2>3 DEF RecoverOutbox, OutboxStep
    <3> QED
      BY <3>1 DEF Goal
  <2> QED
    BY <1>8, <2>1, <2>2, <2>3 DEF RecoverStale
<1>9. ASSUME NEW r \in grants, Request(r) PROVE Goal
  <2> DEFINE j == r.job
  <2>0. j \in Jobs /\ job[j] \in JobRow
    BY <1>0 DEF TypeOK, Grant
  <2> HIDE DEF j
  <2>1. ASSUME running' = running \ EngineOf(r), SameExecution(r)
        PROVE  EngineStopped(j)
    BY <2>1 DEF EngineStopped, EngineOf, SameExecution, j
  <2>2. ASSUME NEW c \in 0..MaxChunk, RenewLease(r, c) PROVE Goal
    <3>1. job'[j] = Renewed(job[j], LeaseExpiry(j), c, TextAfter(r, c)) /\ OthersKept(j)
      BY <1>0, <2>0, <2>2 DEF RenewLease, OthersKept, j
    <3>2. /\ job'[j].status = job[j].status /\ job'[j].execution = job[j].execution
          /\ job'[j].lease = LeaseExpiry(j) /\ job'[j].text = TextAfter(r, c)
          /\ job'[j].generation = job[j].generation
          /\ job'[j].deadline = job[j].deadline
          /\ job'[j].checkpoint = c
      BY <2>0, <3>1 DEF Renewed, JobRow
    <3>3. /\ job[j].status = "processing" /\ job[j].execution # None
          /\ job[j].execution = r.execution
          /\ job[j].deadline > now /\ LeaseAfter(job[j], now)
          /\ c >= job[j].checkpoint
      BY <2>2 DEF RenewLease, InCharge, Admitted, SameExecution, CheckpointAccepted, j
    <3>4. TextAfter(r, c) \in {job[j].text, job[j].execution}
      BY <3>3 DEF TextAfter, j
    <3>5. \A e \in running' :
            \/ e \in running /\ ~(e.job = j /\ e.execution = job[j].execution)
            \/ /\ e.job = j /\ e.execution = job[j].execution
               /\ e.until = LeaseExpiry(j)
      <4>1. \A e \in EngineOf(r) : e \in Engine
        BY DEF EngineOf, TypeOK
      <4>2. \A e \in EngineOf(r) : /\ e.job = j /\ e.execution = job[j].execution
        BY <3>3 DEF EngineOf, j
      <4>3. \A e \in EngineOf(r) :
              LET f == [e EXCEPT !.until = LeaseExpiry(r.job)]
              IN  f.job = e.job /\ f.execution = e.execution /\ f.until = LeaseExpiry(j)
        BY <4>1 DEF Engine, j
      <4> QED
        BY <2>2, <3>3, <4>2, <4>3 DEF RenewLease, EngineOf, j
    <3>6. RenewedStep(j)
      BY <2>2, <3>1, <3>2, <3>3, <3>4, <3>5 DEF RenewLease, RenewedStep
    <3> QED
      BY <2>0, <3>6 DEF Goal, RowStep
  <2>3. ASSUME NEW c \in 0..MaxChunk, NEW a, InCharge(r), c >= job[j].checkpoint,
               Requeue(j, a, c, TextAfter(r, c)), running' = running \ EngineOf(r)
        PROVE  Goal
    <3>1. /\ job[j].status = "processing" /\ job[j].execution # None
          /\ job[j].execution = r.execution /\ SameExecution(r)
      BY <2>3 DEF InCharge, SameExecution, j
    <3>2. TextAfter(r, c) \in {job[j].text, job[j].execution}
      BY <3>1 DEF TextAfter, j
    <3>3. RequeuedStep(j)
      BY <2>0, <2>1, <2>3, <3>1, <3>2, RequeueFacts DEF RequeuedStep
    <3> QED
      BY <2>0, <3>3 DEF Goal, RowStep
  <2>4. ASSUME NEW c \in 0..MaxChunk, Yield(r, c) \/ ReleaseForRetry(r, c) PROVE Goal
    BY <2>3, <2>4 DEF Yield, ReleaseForRetry, CheckpointAccepted, j
  <2>5. ASSUME NEW status \in Terminal, NEW t, InCharge(r),
               job' = [job EXCEPT ![j] = Finished(job[j], status, t)],
               t \in {job[j].text, job[j].execution},
               status = "completed" => t = job[j].execution,
               running' = running \ EngineOf(r),
               UNCHANGED <<now, outbox, issued, grants>>
        PROVE  Goal
    <3>1. job'[j] = Finished(job[j], status, t) /\ OthersKept(j)
      BY <1>0, <2>0, <2>5 DEF OthersKept
    <3>2. /\ job'[j].status = status /\ job'[j].execution = job[j].execution
          /\ job'[j].lease = NoLease /\ job'[j].text = t
          /\ job'[j].generation = job[j].generation
          /\ job'[j].deadline = job[j].deadline
          /\ job'[j].checkpoint = job[j].checkpoint
      BY <2>0, <3>1 DEF Finished, JobRow
    <3>3. job[j].status = "processing" /\ job[j].execution # None /\ SameExecution(r)
      BY <2>5 DEF InCharge, SameExecution, j
    <3>4. StoppedStep(j)
      BY <2>1, <2>5, <3>1, <3>2, <3>3 DEF StoppedStep
    <3> QED
      BY <2>0, <3>4 DEF Goal, RowStep
  <2>6. ASSUME NEW status \in Terminal, Finish(r, status) PROVE Goal
    <3>1. InCharge(r) /\ job[j].execution = r.execution
      BY <2>6 DEF Finish, InCharge, SameExecution, j
    <3> QED
      BY <2>5, <2>6, <3>1 DEF Finish, j
  <2>7. CASE ReleaseExhausted(r)
    BY <2>5, <2>7, Values DEF ReleaseExhausted, j
  <2>8. CASE ConfirmStopped(r)
    <3>1. job'[j] = [job[j] EXCEPT !.lease = NoLease] /\ OthersKept(j)
      BY <1>0, <2>0, <2>8 DEF ConfirmStopped, OthersKept, j
    <3>2. /\ job'[j].status = job[j].status /\ job'[j].execution = job[j].execution
          /\ job'[j].lease = NoLease /\ job'[j].text = job[j].text
          /\ job'[j].generation = job[j].generation
          /\ job'[j].deadline = job[j].deadline
          /\ job'[j].checkpoint = job[j].checkpoint
      BY <2>0, <3>1 DEF JobRow
    <3>3. IsTerminal(j) /\ job[j].execution # None /\ SameExecution(r)
      BY <2>8 DEF ConfirmStopped, SameExecution, j
    <3>4. StoppedStep(j)
      BY <2>1, <2>8, <3>1, <3>2, <3>3 DEF StoppedStep, ConfirmStopped
    <3> QED
      BY <2>0, <3>4 DEF Goal, RowStep
  <2> QED
    BY <1>9, <2>2, <2>4, <2>6, <2>7, <2>8 DEF Request
<1>10. ASSUME NEW r \in outbox, MarkPublished(r) \/ PurgeOutbox(r) PROVE Goal
  <2>1. OutboxStep
    BY <1>10 DEF MarkPublished, PurgeOutbox, OutboxStep
  <2> QED
    BY <2>1 DEF Goal
<1>11. CASE UNCHANGED vars
  BY <1>11 DEF Goal
<1> QED
  BY <1>1, <1>2, <1>4, <1>5, <1>6, <1>7, <1>8, <1>9, <1>10, <1>11 DEF Next

-----------------------------------------------------------------------------
(* The invariant holds initially, and every kind of step preserves it.     *)

LEMMA IInvInit == Init => IInv
<1> SUFFICES ASSUME Init PROVE IInv
  OBVIOUS
<1>1. TypeOK
  BY TypeOKInit
<1>2. \A j \in Jobs : job[j].status = "absent" /\ job[j].execution = None
                      /\ job[j].lease = NoLease /\ job[j].text = None
  BY DEF Init, NoRow
<1>3. RowsConsistent
  BY <1>2 DEF RowsConsistent, Init, Gone, None
<1>4. Holding = {} /\ Pool = {}
  BY <1>2 DEF Holding, Pool, IsActive, Active
<1>5. Cardinality({}) = 0
  BY FS_EmptySet
<1>6. HoldingWithinCapacity /\ PendingWithinQuota
  BY <1>4, <1>5, ConstantsAssumption DEF HoldingWithinCapacity, PendingWithinQuota
<1>7. /\ GrantsConsistent /\ OneGrantPerGeneration /\ EnginesConsistent
      /\ OutboxConsistent
  BY DEF Init, GrantsConsistent, OneGrantPerGeneration, EnginesConsistent,
         NoEngineForgotten, OutboxConsistent
<1>8. QueuedIsInOutbox
  BY <1>2 DEF QueuedIsInOutbox
<1> QED
  BY <1>1, <1>3, <1>6, <1>7, <1>8 DEF IInv

\* What types make of the operands the proofs below compare.
LEMMA OperandTypes ==
  ASSUME TypeOK
  PROVE  /\ now \in Nat
         /\ \A j \in Jobs :
              /\ job[j].lease \in Int /\ job[j].deadline \in Nat
              /\ job[j].generation \in Nat /\ job[j].execution \in Nat
              /\ job[j].text \in Nat /\ issued[j] \in Nat
         /\ \A r \in outbox :
              r.job \in Jobs /\ r.generation \in Nat /\ r.publishedAt \in Int
         /\ \A r \in grants :
              r.job \in Jobs /\ r.generation \in Nat /\ r.execution \in Nat
         /\ \A e \in running :
              e.job \in Jobs /\ e.execution \in Nat /\ e.until \in Nat
BY DEF TypeOK, JobRow, OutboxRow, Grant, Engine

LEMMA RowsConsistentStep ==
  ASSUME TypeOK, RowsConsistent, TypeOK',
         Tick \/ OutboxStep \/ \E j \in Jobs : RowStep(j)
  PROVE  RowsConsistent'
<1> USE OperandTypes, ConstantsAssumption
<1>1. CASE Tick
  BY <1>1 DEF Tick, RowsConsistent
<1>2. CASE OutboxStep
  BY <1>2 DEF OutboxStep, RowsConsistent
<1>3. ASSUME NEW j \in Jobs, RowStep(j) PROVE RowsConsistent'
  <2>1. CASE CreatedStep(j)
    BY <2>1, Values DEF CreatedStep, OthersKept, RowsConsistent, None
  <2>2. CASE ClosedStep(j)
    BY <2>2, Values DEF ClosedStep, OthersKept, RowsConsistent, IsActive
  <2>3. CASE RetriedStep(j)
    BY <2>3, Values DEF RetriedStep, OthersKept, RowsConsistent
  <2>4. CASE DeletedStep(j)
    BY <2>4, Values DEF DeletedStep, OthersKept, RowsConsistent, None
  <2>5. CASE ClaimedStep(j)
    <3>1. issued'[j] = issued[j] + 1 /\ \A k \in Jobs : k # j => issued'[k] = issued[k]
      BY <2>5 DEF ClaimedStep, TypeOK
    <3> QED
      BY <2>5, <3>1, Values DEF ClaimedStep, OthersKept, RowsConsistent
  <2>6. CASE RenewedStep(j)
    BY <2>6, Values DEF RenewedStep, OthersKept, RowsConsistent
  <2>7. CASE StoppedStep(j)
    BY <2>7, Values DEF StoppedStep, OthersKept, RowsConsistent, IsTerminal
  <2>8. CASE RequeuedStep(j)
    BY <2>8, Values DEF RequeuedStep, OthersKept, RowsConsistent
  <2> QED
    BY <1>3, <2>1, <2>2, <2>3, <2>4, <2>5, <2>6, <2>7, <2>8 DEF RowStep
<1> QED
  BY <1>1, <1>2, <1>3

LEMMA GrantsStep ==
  ASSUME TypeOK, RowsConsistent, GrantsConsistent, OneGrantPerGeneration,
         Tick \/ OutboxStep \/ \E j \in Jobs : RowStep(j)
  PROVE  GrantsConsistent' /\ OneGrantPerGeneration'
<1> USE OperandTypes
<1>1. CASE Tick \/ OutboxStep
  BY <1>1 DEF Tick, OutboxStep, GrantsConsistent, OneGrantPerGeneration
<1>2. ASSUME NEW j \in Jobs, CreatedStep(j) \/ ClosedStep(j) \/ RetriedStep(j)
               \/ DeletedStep(j) \/ RenewedStep(j) \/ StoppedStep(j) \/ RequeuedStep(j)
      PROVE GrantsConsistent' /\ OneGrantPerGeneration'
  <2>1. grants' = grants
    BY <1>2 DEF CreatedStep, ClosedStep, RetriedStep, DeletedStep, RenewedStep,
                StoppedStep, RequeuedStep
  <2>2. OthersKept(j)
    BY <1>2 DEF CreatedStep, ClosedStep, RetriedStep, DeletedStep, RenewedStep,
                StoppedStep, RequeuedStep
  <2>3. OneGrantPerGeneration'
    BY <2>1 DEF OneGrantPerGeneration
  <2>4. ASSUME NEW r \in grants, r.job = j
        PROVE  /\ job'[j].status # "absent"
               /\ job'[j].status # "deleted" => r.generation <= job'[j].generation
               /\ job'[j].status = "queued" => r.generation < job'[j].generation
    <3>1. /\ job[j].status # "absent"
          /\ job[j].status # "deleted" => r.generation <= job[j].generation
          /\ job[j].status = "queued" => r.generation < job[j].generation
      BY <2>4 DEF GrantsConsistent
    <3>2. CASE CreatedStep(j)
      BY <3>1, <3>2 DEF CreatedStep
    <3>3. CASE ClosedStep(j)
      BY <3>1, <3>3, Values DEF ClosedStep, IsActive
    <3>4. CASE RetriedStep(j)
      BY <3>1, <3>4 DEF RetriedStep
    <3>5. CASE DeletedStep(j)
      BY <3>5 DEF DeletedStep
    <3>6. CASE RenewedStep(j)
      BY <3>1, <3>6 DEF RenewedStep
    <3>7. CASE StoppedStep(j)
      BY <3>1, <3>7, Values DEF StoppedStep, IsTerminal
    <3>8. CASE RequeuedStep(j)
      BY <3>1, <3>8 DEF RequeuedStep
    <3> QED
      BY <1>2, <3>2, <3>3, <3>4, <3>5, <3>6, <3>7, <3>8
  <2> QED
    BY <2>1, <2>2, <2>3, <2>4 DEF GrantsConsistent, OthersKept
<1>3. ASSUME NEW j \in Jobs, ClaimedStep(j)
      PROVE GrantsConsistent' /\ OneGrantPerGeneration'
  <2>1. PICK w \in Workers :
          grants' = grants \cup {[job |-> j, generation |-> job[j].generation,
                                  execution |-> issued[j] + 1, worker |-> w]}
    BY <1>3 DEF ClaimedStep
  <2>2. \A r \in grants : r.job = j => r.generation < job[j].generation
    BY <1>3 DEF ClaimedStep, GrantsConsistent
  <2>3. OneGrantPerGeneration'
    BY <2>1, <2>2 DEF OneGrantPerGeneration
  <2>4. GrantsConsistent'
    BY <1>3, <2>1, <2>2 DEF GrantsConsistent, ClaimedStep, OthersKept
  <2> QED
    BY <2>3, <2>4
<1> QED
  BY <1>1, <1>2, <1>3 DEF RowStep

LEMMA EnginesStep ==
  ASSUME TypeOK, RowsConsistent, EnginesConsistent,
         Tick \/ OutboxStep \/ \E j \in Jobs : RowStep(j)
  PROVE  EnginesConsistent'
<1> USE OperandTypes
<1>0. \A e \in running : /\ e.job \in Jobs /\ e.execution # None
                         /\ e.until > now /\ e.until \in Nat
                         /\ job[e.job].execution = e.execution
                         /\ job[e.job].lease = e.until
  BY DEF EnginesConsistent, NoEngineForgotten
<1> DEFINE Consistent(e) == /\ e.until > now' /\ e.execution # None
                            /\ job'[e.job].execution = e.execution
                            /\ job'[e.job].lease = e.until
<1> SUFFICES ASSUME NEW e \in running' PROVE Consistent(e)
  BY DEF EnginesConsistent, NoEngineForgotten
<1>1. CASE Tick
  BY <1>0, <1>1 DEF Tick
<1>2. CASE OutboxStep
  BY <1>0, <1>2 DEF OutboxStep
<1>3. ASSUME NEW j \in Jobs, OthersKept(j), now' = now, e \in running, e.job # j
      PROVE  Consistent(e)
  BY <1>0, <1>3 DEF OthersKept
\* No engine is named by a row without a lease in force.
<1>4. ASSUME NEW j \in Jobs, ~LeaseAfter(job[j], now) \/ job[j].execution = None,
             e \in running
      PROVE  e.job # j
  <2>1. CASE job[j].execution = None
    BY <1>0, <1>4, <2>1
  <2>2. CASE ~LeaseAfter(job[j], now)
    BY <1>0, <1>4, <2>2, Values DEF LeaseAfter, NoLease
  <2> QED
    BY <1>4, <2>1, <2>2
<1>5. ASSUME NEW j \in Jobs, RowStep(j) PROVE Consistent(e)
  <2>1. CASE CreatedStep(j)
    <3>1. job[j].execution = None
      BY <2>1, Values DEF CreatedStep, RowsConsistent
    <3> QED
      BY <1>3, <1>4, <2>1, <3>1 DEF CreatedStep
  <2>2. CASE ClosedStep(j)
    BY <1>0, <2>2 DEF ClosedStep, OthersKept
  <2>3. CASE RetriedStep(j)
    BY <1>3, <1>4, <2>3 DEF RetriedStep
  <2>4. CASE DeletedStep(j)
    <3>1. ~LeaseAfter(job[j], now)
      BY <2>4, ConstantsAssumption DEF DeletedStep, LeaseAfter
    <3> QED
      BY <1>3, <1>4, <2>4, <3>1 DEF DeletedStep
  <2>5. CASE ClaimedStep(j)
    <3>1. CASE e \in running
      BY <1>3, <1>4, <2>5, <3>1 DEF ClaimedStep
    <3>2. CASE e = [job |-> j, execution |-> issued[j] + 1, until |-> LeaseExpiry(j)]
      <4>1. LeaseExpiry(j) > now
        BY <2>5, LeaseExpiryBounds DEF ClaimedStep
      <4> QED
        BY <2>5, <3>2, <4>1 DEF ClaimedStep, None
    <3> QED
      BY <2>5, <3>1, <3>2 DEF ClaimedStep
  <2>6. CASE RenewedStep(j)
    <3>1. LeaseExpiry(j) > now
      BY <2>6, LeaseExpiryBounds DEF RenewedStep
    <3> QED
      BY <1>0, <2>6, <3>1 DEF RenewedStep, OthersKept
  <2>7. CASE StoppedStep(j)
    BY <1>0, <1>3, <2>7 DEF StoppedStep, EngineStopped
  <2>8. CASE RequeuedStep(j)
    <3>1. e \in running /\ e.job # j
      BY <1>0, <1>4, <2>8 DEF RequeuedStep, EngineStopped
    <3> QED
      BY <1>3, <2>8, <3>1 DEF RequeuedStep
  <2> QED
    BY <1>5, <2>1, <2>2, <2>3, <2>4, <2>5, <2>6, <2>7, <2>8 DEF RowStep
<1> QED
  BY <1>1, <1>2, <1>5

LEMMA AddOne ==
  ASSUME NEW S, IsFiniteSet(S), NEW x
  PROVE  IsFiniteSet(S \cup {x}) /\ Cardinality(S \cup {x}) <= Cardinality(S) + 1
<1>1. Cardinality(S) \in Nat
  BY FS_CardinalityType
<1>2. /\ IsFiniteSet(S \cup {x})
      /\ Cardinality(S \cup {x}) = IF x \in S THEN Cardinality(S) ELSE Cardinality(S) + 1
  BY FS_AddElement
<1> HIDE DEF Cardinality
<1> QED
  BY <1>1, <1>2

LEMMA HoldingStep ==
  ASSUME TypeOK, HoldingWithinCapacity,
         Tick \/ OutboxStep \/ \E j \in Jobs : RowStep(j)
  PROVE  HoldingWithinCapacity'
<1> USE OperandTypes, ConstantsAssumption
<1>1. /\ IsFiniteSet(Holding) /\ Cardinality(Holding) \in Nat
      /\ IsFiniteSet(Occupying) /\ Cardinality(Occupying) \in Nat
  <2>1. Holding \subseteq Jobs /\ Occupying \subseteq Jobs
    BY DEF Holding, Occupying
  <2> QED
    BY <2>1, FS_Subset, FS_CardinalityType
<1>2. ASSUME Holding' \subseteq Holding PROVE HoldingWithinCapacity'
  <2>1. IsFiniteSet(Holding') /\ Cardinality(Holding') <= Cardinality(Holding)
    BY <1>1, <1>2, FS_Subset
  <2>2. Cardinality(Holding') \in Nat
    BY <2>1, FS_CardinalityType
  <2> QED
    BY <1>1, <2>1, <2>2 DEF HoldingWithinCapacity
<1>3. CASE Tick
  <2>1. Holding' \subseteq Holding
    BY <1>3, Values DEF Tick, Holding, LeaseAfter
  <2> QED
    BY <1>2, <2>1
<1>4. CASE OutboxStep
  <2>1. Holding' \subseteq Holding
    BY <1>4 DEF OutboxStep, Holding, LeaseAfter
  <2> QED
    BY <1>2, <2>1
<1>5. ASSUME NEW j \in Jobs, OthersKept(j), now' = now,
             \/ job'[j].execution = None
             \/ job'[j].lease = NoLease
             \/ job'[j].execution = job[j].execution /\ job'[j].lease = job[j].lease
             \/ job[j].execution # None /\ LeaseAfter(job[j], now)
      PROVE  HoldingWithinCapacity'
  <2>1. Holding' \subseteq Holding
    BY <1>5 DEF OthersKept, Holding, LeaseAfter
  <2> QED
    BY <1>2, <2>1
<1>6. ASSUME NEW j \in Jobs, ClaimedStep(j) PROVE HoldingWithinCapacity'
  <2>1. Holding' \subseteq Occupying \cup {j}
    BY <1>6, Values DEF ClaimedStep, OthersKept, Holding, Occupying, LeaseAfter
  <2>2. /\ IsFiniteSet(Occupying \cup {j})
        /\ Cardinality(Occupying \cup {j}) <= Cardinality(Occupying) + 1
    BY <1>1, AddOne
  <2>3. /\ Cardinality(Occupying \cup {j}) \in Nat
        /\ IsFiniteSet(Holding')
        /\ Cardinality(Holding') <= Cardinality(Occupying \cup {j})
    BY <2>1, <2>2, FS_Subset, FS_CardinalityType
  <2>4. Cardinality(Holding') \in Nat
    BY <2>3, FS_CardinalityType
  <2>5. Cardinality(Occupying) < GlobalConcurrency
    BY <1>6 DEF ClaimedStep
  <2> QED
    BY <1>1, <2>2, <2>3, <2>4, <2>5 DEF HoldingWithinCapacity
<1> QED
  BY <1>3, <1>4, <1>5, <1>6 DEF RowStep, CreatedStep, ClosedStep, RetriedStep,
     DeletedStep, RenewedStep, StoppedStep, RequeuedStep

LEMMA OutboxConsistentStep ==
  ASSUME TypeOK, RowsConsistent, OutboxConsistent, TypeOK',
         Tick \/ OutboxStep \/ \E j \in Jobs : RowStep(j)
  PROVE  OutboxConsistent'
<1> USE OperandTypes, ConstantsAssumption
<1> DEFINE Kept(r) ==
      job'[r.job].status \notin Gone /\ r.generation = job'[r.job].generation
        => \/ r.publishedAt = Pending
           \/ r.publishedAt + DeadlineLength >= job'[r.job].deadline
<1> SUFFICES ASSUME NEW r \in outbox' PROVE Kept(r)
  BY DEF OutboxConsistent
<1>0. r.job \in Jobs
  BY DEF TypeOK, OutboxRow
<1>1. CASE r \in outbox /\ job'[r.job] = job[r.job]
  BY <1>1 DEF OutboxConsistent
<1>2. CASE r.publishedAt = Pending
  BY <1>2
<1>3. CASE Tick
  BY <1>1, <1>3 DEF Tick
<1>4. CASE OutboxStep
  <2>1. job' = job
    BY <1>4 DEF OutboxStep
  <2>2. ASSUME NEW j \in Jobs, WriteOutbox(j, job[j].generation) PROVE Kept(r)
    BY <1>1, <1>2, <2>1, <2>2 DEF WriteOutbox, NewOutbox
  <2>3. ASSUME NEW s \in outbox, MarkPublished(s) PROVE Kept(r)
    <3>1. CASE r \in outbox
      BY <1>1, <2>1, <3>1
    <3>2. CASE r = [s EXCEPT !.publishedAt = now]
      <4>1. r.publishedAt = now /\ r.job = s.job
        BY <3>2 DEF TypeOK, OutboxRow
      <4>2. job[r.job].status \notin Gone => job[r.job].deadline <= now + DeadlineLength
        BY <1>0 DEF RowsConsistent
      <4> QED
        BY <1>0, <2>1, <4>1, <4>2
    <3> QED
      BY <2>3, <3>1, <3>2 DEF MarkPublished
  <2>4. ASSUME NEW s \in outbox, PurgeOutbox(s) PROVE Kept(r)
    BY <1>1, <2>1, <2>4 DEF PurgeOutbox
  <2> QED
    BY <1>4, <2>2, <2>3, <2>4 DEF OutboxStep
\* The generation the step announces is pending.
<1>5. ASSUME NEW j \in Jobs, OthersKept(j), WriteOutbox(j, job'[j].generation)
      PROVE  Kept(r)
  <2>1. CASE r.job = j /\ r \in outbox
    BY <1>5, <2>1, <1>2 DEF WriteOutbox, NewOutbox
  <2>2. CASE r.job # j
    BY <1>0, <1>1, <1>5, <2>2 DEF WriteOutbox, NewOutbox, OthersKept
  <2>3. CASE r = NewOutbox(j, job'[j].generation)
    BY <1>2, <2>3 DEF NewOutbox
  <2> QED
    BY <1>5, <2>1, <2>2, <2>3 DEF WriteOutbox
<1>6. ASSUME NEW j \in Jobs, OthersKept(j), outbox' = outbox,
             job[j].status \notin Gone, job'[j].generation = job[j].generation,
             job'[j].deadline = job[j].deadline
      PROVE  Kept(r)
  BY <1>0, <1>6 DEF OthersKept, OutboxConsistent
<1>7. ASSUME NEW j \in Jobs, RowStep(j) PROVE Kept(r)
  <2>1. CASE CreatedStep(j) \/ RetriedStep(j) \/ RequeuedStep(j)
    BY <1>5, <2>1 DEF CreatedStep, RetriedStep, RequeuedStep
  <2>2. CASE ClosedStep(j) \/ ClaimedStep(j) \/ RenewedStep(j) \/ StoppedStep(j)
    BY <1>6, <2>2, Values DEF ClosedStep, ClaimedStep, RenewedStep, StoppedStep,
                              IsActive, IsTerminal
  <2>3. CASE DeletedStep(j)
    BY <1>0, <1>1, <2>3, Values DEF DeletedStep, OthersKept
  <2> QED
    BY <1>7, <2>1, <2>2, <2>3 DEF RowStep
<1> QED
  BY <1>3, <1>4, <1>7

LEMMA QueuedIsInOutboxStep ==
  ASSUME TypeOK, OutboxConsistent, QueuedIsInOutbox,
         Tick \/ OutboxStep \/ \E j \in Jobs : RowStep(j)
  PROVE  QueuedIsInOutbox'
<1> USE OperandTypes, ConstantsAssumption
<1> DEFINE Announced(k) == \E r \in outbox' : /\ r.job = k
                                              /\ r.generation = job'[k].generation
<1> SUFFICES ASSUME NEW k \in Jobs, job'[k].status = "queued", job'[k].deadline > now'
             PROVE  Announced(k)
  BY DEF QueuedIsInOutbox, HasOutbox
<1>1. ASSUME job'[k] = job[k], now' = now
      PROVE  \E r \in outbox : r.job = k /\ r.generation = job'[k].generation
  BY <1>1 DEF QueuedIsInOutbox, HasOutbox
<1>2. ASSUME NEW j \in Jobs, NEW g, WriteOutbox(j, g), now' = now,
             job'[k] = job[k] \/ (j = k /\ g = job'[k].generation)
      PROVE  Announced(k)
  <2>1. NewOutbox(j, g) \in outbox' /\ NewOutbox(j, g).job = j
        /\ NewOutbox(j, g).generation = g
    BY <1>2 DEF WriteOutbox, NewOutbox
  <2>2. CASE j = k /\ g = job'[k].generation
    BY <2>1, <2>2
  <2>3. CASE job'[k] = job[k] /\ ~(j = k /\ g = job'[k].generation)
    <3>1. PICK r \in outbox : r.job = k /\ r.generation = job'[k].generation
      BY <1>1, <1>2, <2>3
    <3>2. r \in outbox'
      BY <1>2, <2>3, <3>1 DEF WriteOutbox
    <3> QED
      BY <3>1, <3>2
  <2> QED
    BY <1>2, <2>2, <2>3
<1>3. CASE Tick
  BY <1>3 DEF Tick, QueuedIsInOutbox, HasOutbox
<1>4. CASE OutboxStep
  <2>1. job' = job /\ now' = now
    BY <1>4 DEF OutboxStep
  <2>2. ASSUME NEW j \in Jobs, WriteOutbox(j, job[j].generation) PROVE Announced(k)
    BY <1>2, <2>1, <2>2
  <2>3. PICK r \in outbox : r.job = k /\ r.generation = job'[k].generation
    BY <1>1, <2>1
  <2>4. ASSUME NEW s \in outbox, MarkPublished(s) PROVE Announced(k)
    <3>1. CASE r # s
      BY <2>3, <2>4, <3>1 DEF MarkPublished
    <3>2. CASE r = s
      <4>1. /\ [s EXCEPT !.publishedAt = now] \in outbox'
            /\ [s EXCEPT !.publishedAt = now].job = s.job
            /\ [s EXCEPT !.publishedAt = now].generation = s.generation
        BY <2>4 DEF MarkPublished, TypeOK, OutboxRow
      <4> QED
        BY <2>3, <3>2, <4>1
    <3> QED
      BY <3>1, <3>2
  <2>5. ASSUME NEW s \in outbox, PurgeOutbox(s) PROVE Announced(k)
    <3>1. r # s
      <4>1. s.publishedAt + DeadlineLength < now /\ s.publishedAt # Pending
        BY <2>5 DEF PurgeOutbox
      <4>2. job[k].deadline > now /\ job[k].status \notin Gone
        BY <2>1, Values
      <4> QED
        BY <2>1, <2>3, <4>1, <4>2 DEF OutboxConsistent
    <3> QED
      BY <2>3, <2>5, <3>1 DEF PurgeOutbox
  <2> QED
    BY <1>4, <2>2, <2>4, <2>5 DEF OutboxStep
<1>5. ASSUME NEW j \in Jobs, RowStep(j) PROVE Announced(k)
  <2>1. CASE CreatedStep(j) \/ RetriedStep(j) \/ RequeuedStep(j)
    <3>1. WriteOutbox(j, job'[j].generation) /\ now' = now /\ OthersKept(j)
      BY <2>1 DEF CreatedStep, RetriedStep, RequeuedStep
    <3> QED
      BY <1>2, <3>1 DEF OthersKept
  <2>2. CASE ClosedStep(j) \/ ClaimedStep(j) \/ RenewedStep(j) \/ StoppedStep(j)
    <3>1. now' = now /\ outbox' = outbox /\ OthersKept(j) /\ job'[j].status # "queued"
      BY <2>2, Values DEF ClosedStep, ClaimedStep, RenewedStep, StoppedStep, IsTerminal
    <3> QED
      BY <1>1, <3>1 DEF OthersKept
  <2>3. CASE DeletedStep(j)
    <3>1. k # j /\ job'[k] = job[k] /\ now' = now
      BY <2>3 DEF DeletedStep, OthersKept
    <3> QED
      BY <1>1, <2>3, <3>1 DEF DeletedStep
  <2> QED
    BY <1>5, <2>1, <2>2, <2>3 DEF RowStep
<1> QED
  BY <1>3, <1>4, <1>5

LEMMA QuotaStep ==
  ASSUME TypeOK, PendingWithinQuota,
         Tick \/ OutboxStep \/ \E j \in Jobs : RowStep(j)
  PROVE  PendingWithinQuota'
<1> USE ConstantsAssumption
<1>1. IsFiniteSet(Pool) /\ Cardinality(Pool) \in Nat
  <2>1. Pool \subseteq Jobs
    BY DEF Pool
  <2> QED
    BY <2>1, FS_Subset, FS_CardinalityType
<1>2. ASSUME Pool' \subseteq Pool PROVE PendingWithinQuota'
  <2>1. IsFiniteSet(Pool') /\ Cardinality(Pool') <= Cardinality(Pool)
    BY <1>1, <1>2, FS_Subset
  <2>2. Cardinality(Pool') \in Nat
    BY <2>1, FS_CardinalityType
  <2> QED
    BY <1>1, <2>1, <2>2 DEF PendingWithinQuota
<1>3. ASSUME NEW j \in Jobs, QuotaAllows, OthersKept(j) PROVE PendingWithinQuota'
  <2>1. Pool' \subseteq Pool \cup {j}
    BY <1>3 DEF Pool, IsActive, OthersKept
  <2>2. /\ IsFiniteSet(Pool \cup {j})
        /\ Cardinality(Pool \cup {j}) <= Cardinality(Pool) + 1
    BY <1>1, AddOne
  <2>3. /\ Cardinality(Pool \cup {j}) \in Nat
        /\ IsFiniteSet(Pool') /\ Cardinality(Pool') <= Cardinality(Pool \cup {j})
    BY <2>1, <2>2, FS_Subset, FS_CardinalityType
  <2>4. Cardinality(Pool') \in Nat
    BY <2>3, FS_CardinalityType
  <2> QED
    BY <1>1, <1>3, <2>2, <2>3, <2>4 DEF PendingWithinQuota, QuotaAllows
<1>4. CASE Tick \/ OutboxStep
  <2>1. Pool' \subseteq Pool
    BY <1>4 DEF Tick, OutboxStep, Pool, IsActive
  <2> QED
    BY <1>2, <2>1
<1>5. ASSUME NEW j \in Jobs, RowStep(j) PROVE PendingWithinQuota'
  <2>1. CASE CreatedStep(j) \/ RetriedStep(j)
    BY <1>3, <2>1 DEF CreatedStep, RetriedStep
  <2>2. CASE ClosedStep(j) \/ DeletedStep(j) \/ StoppedStep(j)
    <3>1. Pool' \subseteq Pool
      BY <2>2, Values DEF ClosedStep, DeletedStep, StoppedStep, OthersKept, Pool,
                          IsActive, IsTerminal
    <3> QED
      BY <1>2, <3>1
  <2>3. CASE ClaimedStep(j) \/ RenewedStep(j) \/ RequeuedStep(j)
    <3>1. Pool' \subseteq Pool
      BY <2>3, Values DEF ClaimedStep, RenewedStep, RequeuedStep, OthersKept, Pool, IsActive
    <3> QED
      BY <1>2, <3>1
  <2> QED
    BY <1>5, <2>1, <2>2, <2>3 DEF RowStep
<1> QED
  BY <1>4, <1>5

LEMMA IInvStep == IInv /\ [Next]_vars => IInv'
<1> SUFFICES ASSUME IInv, [Next]_vars PROVE IInv'
  OBVIOUS
<1>1. TypeOK /\ TypeOK'
  BY TypeOKStep DEF IInv
<1>2. CASE UNCHANGED vars
  <2>1. /\ RowsConsistent' /\ GrantsConsistent' /\ OneGrantPerGeneration'
    BY <1>2 DEF IInv, vars, RowsConsistent, GrantsConsistent, OneGrantPerGeneration
  <2>2. EnginesConsistent' /\ HoldingWithinCapacity' /\ PendingWithinQuota'
    BY <1>2 DEF IInv, vars, EnginesConsistent, NoEngineForgotten, HoldingWithinCapacity,
                Holding, LeaseAfter, PendingWithinQuota, Pool, IsActive
  <2>3. OutboxConsistent' /\ QueuedIsInOutbox'
    BY <1>2 DEF IInv, vars, OutboxConsistent, QueuedIsInOutbox, HasOutbox
  <2> QED
    BY <1>1, <2>1, <2>2, <2>3 DEF IInv
<1>3. CASE Tick \/ OutboxStep \/ \E j \in Jobs : RowStep(j)
  BY <1>1, <1>3, RowsConsistentStep, GrantsStep, EnginesStep, HoldingStep,
     OutboxConsistentStep, QueuedIsInOutboxStep, QuotaStep DEF IInv
<1> QED
  BY <1>1, <1>2, <1>3, StepKinds

\* The invariant of the durable authority.
THEOREM Invariance == Spec => []IInv
BY IInvInit, IInvStep, PTL DEF Spec

-----------------------------------------------------------------------------
(* What follows from the invariant.                                        *)

\* The engines are counted by the jobs that hold a lease in force.
LEMMA EnginesAreHeld == IInv => EnginesWithinCapacity
<1> SUFFICES ASSUME IInv PROVE EnginesWithinCapacity
  OBVIOUS
<1> USE ConstantsAssumption
<1> DEFINE engineOf == [j \in Holding |-> [job |-> j, execution |-> job[j].execution,
                                          until |-> job[j].lease]]
           Named == {engineOf[j] : j \in Holding}
<1>0. TypeOK /\ EnginesConsistent /\ HoldingWithinCapacity
  BY DEF IInv
<1>1. IsFiniteSet(Holding) /\ Cardinality(Holding) \in Nat
  <2>1. Holding \subseteq Jobs
    BY DEF Holding
  <2> QED
    BY <2>1, FS_Subset, FS_CardinalityType
<1>2. IsFiniteSet(Named) /\ Cardinality(Named) <= Cardinality(Holding)
  <2>1. engineOf \in Surjection(Holding, Named)
    BY DEF Surjection
  <2> HIDE DEF engineOf, Named
  <2> QED
    BY <1>1, <2>1, FS_Surjection
<1>3. running \subseteq Named
  <2> SUFFICES ASSUME NEW e \in running PROVE e \in Named
    OBVIOUS
  <2>1. /\ e = [job |-> e.job, execution |-> e.execution, until |-> e.until]
        /\ e.job \in Jobs /\ e.until \in Nat
    BY <1>0 DEF TypeOK, Engine
  <2>2. /\ job[e.job].execution = e.execution /\ job[e.job].lease = e.until
        /\ e.until > now /\ e.execution # None
    BY <1>0 DEF EnginesConsistent, NoEngineForgotten
  <2>3. e.job \in Holding
    BY <2>1, <2>2 DEF Holding, LeaseAfter, NoLease
  <2> QED
    BY <2>1, <2>2, <2>3
<1>4. Cardinality(running) <= Cardinality(Named) /\ IsFiniteSet(running)
  BY <1>2, <1>3, FS_Subset
<1>5. Cardinality(running) \in Nat /\ Cardinality(Named) \in Nat
  BY <1>2, <1>4, FS_CardinalityType
<1> QED
  BY <1>0, <1>1, <1>2, <1>4, <1>5 DEF HoldingWithinCapacity, EnginesWithinCapacity

\* However many jobs, workers, attempts and generations there are, no more
\* engines run at once than SPEECH_GLOBAL_CONCURRENCY allows.
THEOREM CapacityRespected == Spec => []EnginesWithinCapacity
BY Invariance, EnginesAreHeld, PTL

\* The row of a job names its engine and holds its lease for as long as the
\* engine may run, whatever has become of the job.
THEOREM EnginesRemembered == Spec => []NoEngineForgotten
<1>1. IInv => NoEngineForgotten
  BY DEF IInv, EnginesConsistent
<1> QED
  BY <1>1, Invariance, PTL

\* No generation of a job is granted twice.
THEOREM GrantedOnce == Spec => []OneGrantPerGeneration
<1>1. IInv => OneGrantPerGeneration
  BY DEF IInv
<1> QED
  BY <1>1, Invariance, PTL

\* A queued job with time left has the outbox row that announces it.
THEOREM QueuedIsAnnounced == Spec => []QueuedIsInOutbox
<1>1. IInv => QueuedIsInOutbox
  BY DEF IInv
<1> QED
  BY <1>1, Invariance, PTL

\* Retries, releases and recoveries included, the pool stays in its quota.
THEOREM QuotaRespected == Spec => []PendingWithinQuota
<1>1. IInv => PendingWithinQuota
  BY DEF IInv
<1> QED
  BY <1>1, Invariance, PTL

\* The result of a completed job is that of the last execution it was granted.
THEOREM LastExecutionDecides == Spec => []ResultOfLastExecution
<1>1. IInv => ResultOfLastExecution
  BY DEF IInv, RowsConsistent, ResultOfLastExecution
<1> QED
  BY <1>1, Invariance, PTL
-----------------------------------------------------------------------------
(* What the steps promise: the rows implement the pool of leases of        *)
(* LeasePool, an outcome is final, and progress is kept.                   *)

\* A generation has at most one execution, so the executions of a job are
\* numbered within its generations, and so are the holders of leases.
Numbered ==
  /\ \A j \in Jobs :
       /\ job[j].status = "absent" =>
            issued[j] = 0 /\ job[j].text = None /\ job[j].checkpoint = 0
       /\ job[j].status \notin Gone => issued[j] <= job[j].generation
       /\ job[j].status = "queued" => issued[j] < job[j].generation
       /\ job[j].status \notin Gone => job[j].generation <= MaxGeneration
       /\ issued[j] <= MaxGeneration
  /\ \A r \in grants : r.execution <= issued[r.job]

\* The invariant of the theorems below.
SInv == IInv /\ Numbered
-----------------------------------------------------------------------------
LEMMA CheckpointType ==
  ASSUME TypeOK, NEW j \in Jobs
  PROVE  job[j].checkpoint \in Nat
BY DEF TypeOK, JobRow

LEMMA NumberedInit == Init => Numbered
BY ConstantsAssumption DEF Init, Numbered, NoRow, None, Gone

LEMMA NumberedStep ==
  ASSUME TypeOK, RowsConsistent, Numbered,
         Tick \/ OutboxStep \/ \E j \in Jobs : RowStep(j)
  PROVE  Numbered'
<1> USE OperandTypes, ConstantsAssumption
<1>1. CASE Tick
  BY <1>1 DEF Tick, Numbered
<1>2. CASE OutboxStep
  BY <1>2 DEF OutboxStep, Numbered
<1>3. ASSUME NEW j \in Jobs, RowStep(j) PROVE Numbered'
  <2>1. CASE CreatedStep(j)
    BY <2>1, Values DEF CreatedStep, OthersKept, Numbered
  <2>2. CASE ClosedStep(j)
    BY <2>2, Values DEF ClosedStep, OthersKept, Numbered, IsActive
  <2>3. CASE RetriedStep(j)
    BY <2>3, Values DEF RetriedStep, OthersKept, Numbered
  <2>4. CASE DeletedStep(j)
    BY <2>4, Values DEF DeletedStep, OthersKept, Numbered
  <2>5. CASE ClaimedStep(j)
    <3>1. issued'[j] = issued[j] + 1 /\ \A k \in Jobs : k # j => issued'[k] = issued[k]
      BY <2>5 DEF ClaimedStep, TypeOK
    <3>2. \A r \in grants' : r.execution <= issued'[r.job]
      BY <2>5, <3>1 DEF ClaimedStep, Numbered
    <3> QED
      BY <2>5, <3>1, <3>2, Values DEF ClaimedStep, OthersKept, Numbered
  <2>6. CASE RenewedStep(j)
    BY <2>6, Values DEF RenewedStep, OthersKept, Numbered
  <2>7. CASE StoppedStep(j)
    BY <2>7, Values DEF StoppedStep, OthersKept, Numbered, IsTerminal
  <2>8. CASE RequeuedStep(j)
    BY <2>8, Values DEF RequeuedStep, OthersKept, Numbered
  <2> QED
    BY <1>3, <2>1, <2>2, <2>3, <2>4, <2>5, <2>6, <2>7, <2>8 DEF RowStep
<1> QED
  BY <1>1, <1>2, <1>3

LEMMA SInvStep == SInv /\ [Next]_vars => SInv'
<1> SUFFICES ASSUME SInv, [Next]_vars PROVE SInv'
  OBVIOUS
<1>1. IInv' /\ TypeOK /\ RowsConsistent
  BY IInvStep DEF SInv, IInv
<1>2. CASE UNCHANGED vars
  BY <1>1, <1>2 DEF vars, SInv, Numbered
<1>3. CASE Tick \/ OutboxStep \/ \E j \in Jobs : RowStep(j)
  BY <1>1, <1>3, NumberedStep DEF SInv
<1> QED
  BY <1>1, <1>2, <1>3, StepKinds

LEMMA SInvariance == Spec => []SInv
<1>1. Init => SInv
  BY IInvInit, NumberedInit DEF SInv
<1> QED
  BY <1>1, SInvStep, PTL DEF Spec
-----------------------------------------------------------------------------
(* The leases in force, row by row.                                        *)

LeaseOf(j) == [holder |-> <<j, job[j].execution>>, until |-> job[j].lease]

Used == {<<r.job, r.execution>> : r \in grants}

LEMMA LeasesAreHeld == LeasesOfRows = {LeaseOf(j) : j \in Holding}
BY DEF LeasesOfRows, LeaseOf, Holding

LEMMA LeasesWithinCapacity ==
  ASSUME TypeOK
  PROVE  /\ Cardinality(LeasesOfRows) \in Nat /\ Cardinality(Occupying) \in Nat
         /\ Cardinality(LeasesOfRows) <= Cardinality(Occupying)
<1> USE ConstantsAssumption
<1> DEFINE lease == [j \in Holding |-> LeaseOf(j)]
<1>1. Holding \subseteq Occupying /\ Occupying \subseteq Jobs
  BY OperandTypes DEF Holding, Occupying, LeaseAfter
<1>2. /\ IsFiniteSet(Occupying) /\ IsFiniteSet(Holding)
      /\ Cardinality(Holding) <= Cardinality(Occupying)
  BY <1>1, FS_Subset
<1>3. lease \in Surjection(Holding, LeasesOfRows)
  BY LeasesAreHeld DEF Surjection
<1> HIDE DEF lease
<1>4. IsFiniteSet(LeasesOfRows) /\ Cardinality(LeasesOfRows) <= Cardinality(Holding)
  BY <1>2, <1>3, FS_Surjection
<1>5. /\ Cardinality(LeasesOfRows) \in Nat /\ Cardinality(Holding) \in Nat
      /\ Cardinality(Occupying) \in Nat
  BY <1>2, <1>4, FS_CardinalityType
<1> QED
  BY <1>2, <1>4, <1>5

\* LeasePool counts as this module does.
LEMMA SameCardinality ==
  ASSUME NEW S
  PROVE  LP!Cardinality(S) = Cardinality(S)
BY DEF LP!Cardinality, Cardinality

\* A step that changes one row changes at most the lease of that row.
LEMMA LeasesAfter ==
  ASSUME NEW j \in Jobs, OthersKept(j), UNCHANGED now
  PROVE  /\ j \notin Holding /\ j \notin Holding' => LeasesOfRows' = LeasesOfRows
         /\ j \in Holding /\ j \notin Holding' =>
              LeasesOfRows' = LeasesOfRows \ {LeaseOf(j)}
         /\ j \notin Holding /\ j \in Holding' =>
              LeasesOfRows' = LeasesOfRows \cup {LeaseOf(j)'}
         /\ j \in Holding /\ j \in Holding' =>
              LeasesOfRows' = (LeasesOfRows \ {LeaseOf(j)}) \cup {LeaseOf(j)'}
<1>1. LeasesOfRows = {LeaseOf(k) : k \in Holding}
  BY LeasesAreHeld
<1>2. LeasesOfRows' = {LeaseOf(k)' : k \in Holding'}
  BY DEF LeasesOfRows, LeaseOf, Holding
<1>3. \A k \in Jobs : k # j => /\ LeaseOf(k)' = LeaseOf(k)
                               /\ k \in Holding' <=> k \in Holding
  BY DEF OthersKept, LeaseOf, Holding
<1>4. \A k \in Jobs : k # j => LeaseOf(k) # LeaseOf(j)
  <2> SUFFICES ASSUME NEW k \in Jobs, k # j PROVE LeaseOf(k).holder # LeaseOf(j).holder
    OBVIOUS
  <2> QED
    BY DEF LeaseOf
<1>5. Holding \subseteq Jobs /\ Holding' \subseteq Jobs
  BY DEF Holding
<1> QED
  BY <1>1, <1>2, <1>3, <1>4, <1>5
-----------------------------------------------------------------------------
(* Every step of the authority is a step of the pool of leases, or none.   *)

LeaseStep == [LP!Next]_<<now, LeasesOfRows, Used>>

\* What leaves the row of j without a lease it has not had before.
LEMMA LeaseEnded ==
  ASSUME NEW j \in Jobs, OthersKept(j), UNCHANGED <<now, grants>>, j \notin Holding'
  PROVE  LeaseStep
<1>1. Used' = Used
  BY DEF Used
<1>2. CASE j \in Holding
  <2>1. LeaseOf(j) \in LeasesOfRows /\ LeasesOfRows' = LeasesOfRows \ {LeaseOf(j)}
    BY <1>2, LeasesAfter, LeasesAreHeld
  <2>2. LP!GiveBack(LeaseOf(j))
    BY <1>1, <2>1 DEF LP!GiveBack, Used
  <2> QED
    BY <2>1, <2>2 DEF LeaseStep, LP!Next
<1>3. CASE j \notin Holding
  BY <1>1, <1>3, LeasesAfter DEF LeaseStep
<1> QED
  BY <1>2, <1>3

LEMMA LeaseGranted ==
  ASSUME SInv, NEW j \in Jobs, ClaimedStep(j)
  PROVE  LeaseStep
<1> USE OperandTypes, ConstantsAssumption
<1> DEFINE e == issued[j] + 1
           until == LeaseExpiry(j)
<1>0. TypeOK /\ Numbered
  BY DEF SInv, IInv
<1>1. until \in (now + 1)..(now + LeaseLength)
  BY <1>0 DEF ClaimedStep, LeaseExpiry, Min2
<1>2. e \in 1..MaxGeneration
  BY <1>0, Values DEF ClaimedStep, Numbered
<1>3. <<j, e>> \notin Used
  BY <1>0 DEF Used, Numbered
<1>4. Used' = Used \cup {<<j, e>>}
  <2>1. PICK w \in Workers :
          grants' = grants \cup {[job |-> j, generation |-> job[j].generation,
                                  execution |-> e, worker |-> w]}
    BY DEF ClaimedStep
  <2> DEFINE r == [job |-> j, generation |-> job[j].generation,
                   execution |-> e, worker |-> w]
  <2>2. grants' = grants \cup {r} /\ r.job = j /\ r.execution = e
    BY <2>1
  <2> HIDE DEF r
  <2> QED
    BY <2>2 DEF Used
<1>5. LeasesOfRows' = LeasesOfRows \cup {[holder |-> <<j, e>>, until |-> until]}
  <2>1. j \notin Holding /\ OthersKept(j) /\ UNCHANGED now
    BY DEF ClaimedStep, Holding
  <2>2. j \in Holding' /\ LeaseOf(j)' = [holder |-> <<j, e>>, until |-> until]
    BY <1>0, <1>1 DEF ClaimedStep, Holding, LeaseOf, LeaseAfter, None, NoLease
  <2> QED
    BY <2>1, <2>2, LeasesAfter
<1>6. Cardinality(LeasesOfRows) < GlobalConcurrency
  <2>1. Cardinality(Occupying) < GlobalConcurrency
    BY DEF ClaimedStep
  <2> QED
    BY <1>0, <2>1, LeasesWithinCapacity
<1>7. UNCHANGED now
  BY DEF ClaimedStep
<1> HIDE DEF e, until
<1>8. PICK h \in Jobs \X (1..MaxGeneration), t \in LP!Until :
        h = <<j, e>> /\ t = until
  BY <1>1, <1>2 DEF LP!Until
<1>9. LP!Acquire(h, t)
  BY <1>3, <1>4, <1>5, <1>6, <1>7, <1>8, SameCardinality DEF LP!Acquire, Used
<1> QED
  BY <1>9 DEF LeaseStep, LP!Next

LEMMA LeaseRenewed ==
  ASSUME SInv, NEW j \in Jobs, RenewedStep(j)
  PROVE  LeaseStep
<1> USE OperandTypes, ConstantsAssumption
<1> DEFINE until == LeaseExpiry(j)
<1>0. TypeOK
  BY DEF SInv, IInv
<1>1. until \in (now + 1)..(now + LeaseLength)
  BY <1>0 DEF RenewedStep, LeaseExpiry, Min2
<1>2. j \in Holding /\ j \in Holding' /\ OthersKept(j) /\ UNCHANGED <<now, grants>>
  BY <1>0, <1>1 DEF RenewedStep, Holding, LeaseAfter, NoLease
<1>3. LeaseOf(j)' = [holder |-> LeaseOf(j).holder, until |-> until]
  BY DEF RenewedStep, LeaseOf
<1>4. LeasesOfRows' = (LeasesOfRows \ {LeaseOf(j)}) \cup {LeaseOf(j)'}
  BY <1>2, LeasesAfter
<1>5. LeaseOf(j) \in LeasesOfRows
  BY <1>2, LeasesAreHeld
<1> HIDE DEF until
<1>6. LP!Renew(LeaseOf(j), until)
  BY <1>2, <1>3, <1>4 DEF LP!Renew
<1> QED
  BY <1>1, <1>5, <1>6 DEF LeaseStep, LP!Next, LP!Until

LEMMA LeasesLapse ==
  ASSUME SInv, Tick
  PROVE  LeaseStep
<1> USE OperandTypes
<1>0. TypeOK
  BY DEF SInv, IInv
<1>1. \A j \in Jobs : LeaseOf(j)' = LeaseOf(j)
  BY DEF Tick, LeaseOf
<1>2. \A j \in Jobs : j \in Holding' <=> j \in Holding /\ job[j].lease > now'
  BY <1>0 DEF Tick, Holding, LeaseAfter
<1>3. LeasesOfRows' = {LeaseOf(j)' : j \in Holding'}
  BY DEF LeasesOfRows, LeaseOf, Holding
<1>4. Holding \subseteq Jobs /\ Holding' \subseteq Jobs
  BY DEF Holding
<1>5. \A j \in Jobs : LeaseOf(j).until = job[j].lease
  BY DEF LeaseOf
<1>6. LeasesOfRows' = {l \in LeasesOfRows : l.until > now'}
  BY <1>1, <1>2, <1>3, <1>4, <1>5, LeasesAreHeld
<1>7. LP!Tick
  BY <1>6 DEF LP!Tick, Tick
<1> QED
  BY <1>7 DEF LeaseStep, LP!Next

LEMMA LeaseSteps ==
  ASSUME SInv, [Next]_vars
  PROVE  LeaseStep
<1> USE OperandTypes, ConstantsAssumption
<1>0. TypeOK /\ RowsConsistent
  BY DEF SInv, IInv
<1>1. CASE UNCHANGED vars \/ OutboxStep
  BY <1>1 DEF LeaseStep, OutboxStep, vars, LeasesOfRows, Used
<1>2. CASE Tick
  BY <1>2, LeasesLapse
<1>3. ASSUME NEW j \in Jobs, RowStep(j) PROVE LeaseStep
  <2>1. CASE CreatedStep(j)
    <3>1. j \notin Holding'
      BY <2>1 DEF CreatedStep, Holding
    <3> QED
      BY <2>1, <3>1, LeaseEnded DEF CreatedStep
  <2>2. CASE ClosedStep(j)
    <3>1. LeasesOfRows' = LeasesOfRows
      <4>1. LeaseOf(j)' = LeaseOf(j) /\ (j \in Holding' <=> j \in Holding)
        BY <2>2 DEF ClosedStep, Holding, LeaseOf, LeaseAfter
      <4>2. j \in Holding => LeaseOf(j) \in LeasesOfRows
        BY LeasesAreHeld
      <4>3. OthersKept(j) /\ UNCHANGED now
        BY <2>2 DEF ClosedStep
      <4> QED
        BY <4>1, <4>2, <4>3, LeasesAfter
    <3> QED
      BY <2>2, <3>1 DEF ClosedStep, LeaseStep, Used
  <2>3. CASE RetriedStep(j)
    <3>1. j \notin Holding'
      BY <2>3 DEF RetriedStep, Holding
    <3> QED
      BY <2>3, <3>1, LeaseEnded DEF RetriedStep
  <2>4. CASE DeletedStep(j)
    <3>1. j \notin Holding'
      BY <2>4 DEF DeletedStep, Holding
    <3> QED
      BY <2>4, <3>1, LeaseEnded DEF DeletedStep
  <2>5. CASE ClaimedStep(j)
    BY <2>5, LeaseGranted
  <2>6. CASE RenewedStep(j)
    BY <2>6, LeaseRenewed
  <2>7. CASE StoppedStep(j)
    <3>1. j \notin Holding'
      BY <2>7 DEF StoppedStep, Holding, LeaseAfter
    <3> QED
      BY <2>7, <3>1, LeaseEnded DEF StoppedStep
  <2>8. CASE RequeuedStep(j)
    <3>1. j \notin Holding'
      BY <2>8 DEF RequeuedStep, Holding
    <3> QED
      BY <2>8, <3>1, LeaseEnded DEF RequeuedStep
  <2> QED
    BY <1>3, <2>1, <2>2, <2>3, <2>4, <2>5, <2>6, <2>7, <2>8 DEF RowStep
<1> QED
  BY <1>0, <1>1, <1>2, <1>3, StepKinds

\* The rows implement the pool of leases: whatever requests, recoveries and
\* retries do, the leases the rows hold change only as those of LeasePool,
\* granted within SPEECH_GLOBAL_CONCURRENCY and to no holder twice.
THEOREM PoolImplemented == Spec => ImplementsLeasePool
<1>1. Init => LP!Init
  <2> SUFFICES ASSUME Init PROVE LP!Init
    OBVIOUS
  <2>1. \A j \in Jobs : job[j].execution = None
    BY DEF Init, NoRow
  <2>2. LeasesOfRows = {}
    BY <2>1 DEF LeasesOfRows
  <2> QED
    BY <2>2 DEF Init, LP!Init
<1>2. SInv /\ [Next]_vars
      => [LP!Next]_<<now, LeasesOfRows, {<<r.job, r.execution>> : r \in grants}>>
  BY LeaseSteps DEF LeaseStep, Used
<1> QED
  BY <1>1, <1>2, SInvariance, PTL DEF Spec, ImplementsLeasePool, LP!Spec
-----------------------------------------------------------------------------
(* Outcomes and progress.                                                  *)

\* Whoever asks, a completed or cancelled job keeps its outcome until it is
\* deleted, and a failed one returns only to the queue, as a retry.
THEOREM OutcomeKept == Spec => OutcomeIsFinal
<1> DEFINE Final(j) ==
       /\ job[j].status \in {"completed", "cancelled"} =>
            job'[j].status \in {job[j].status, "deleted"}
       /\ job[j].status = "failed" /\ job'[j].status # "failed" =>
            \/ job'[j].status = "deleted"
            \/ /\ job'[j].status = "queued"
               /\ job'[j].generation = job[j].generation + 1
               /\ job'[j].attempts = 1
<1>1. ASSUME SInv, [Next]_vars, NEW k \in Jobs PROVE Final(k)
  <2>0. TypeOK
    BY <1>1 DEF SInv, IInv
  <2>1. CASE UNCHANGED vars \/ Tick \/ OutboxStep
    BY <2>1 DEF vars, Tick, OutboxStep
  <2>2. ASSUME NEW j \in Jobs, RowStep(j), k # j PROVE Final(k)
    <3>1. OthersKept(j)
      BY <2>2 DEF RowStep, CreatedStep, ClosedStep, RetriedStep, DeletedStep,
                  ClaimedStep, RenewedStep, StoppedStep, RequeuedStep
    <3> QED
      BY <2>2, <3>1 DEF OthersKept
  <2>3. ASSUME RowStep(k) PROVE Final(k)
    BY <2>3, Values DEF RowStep, CreatedStep, ClosedStep, RetriedStep, DeletedStep,
             ClaimedStep, RenewedStep, StoppedStep, RequeuedStep, IsActive, Active
  <2> QED
    BY <1>1, <2>0, <2>1, <2>2, <2>3, StepKinds
<1>2. SInv /\ [Next]_vars => [\A j \in Jobs : Final(j)]_vars
  BY <1>1
<1> QED
  BY <1>2, SInvariance, PTL DEF Spec, OutcomeIsFinal

\* No late request of an older execution takes the text or the checkpoint of
\* a job back, nor does any recovery, retry or cancellation.
THEOREM ProgressIsKept == Spec => ProgressKept
<1> DEFINE Kept(j) == job'[j].status # "deleted" =>
                        /\ job'[j].text >= job[j].text
                        /\ job'[j].checkpoint >= job[j].checkpoint
<1>1. ASSUME SInv, [Next]_vars, NEW k \in Jobs PROVE Kept(k)
  <2>0. TypeOK /\ TypeOK' /\ RowsConsistent /\ Numbered
    BY <1>1, SInvStep DEF SInv, IInv
  <2>1. /\ job[k].text \in Nat /\ job[k].checkpoint \in Nat
        /\ job'[k].text \in Nat /\ job'[k].checkpoint \in Nat
    BY <2>0 DEF TypeOK, JobRow
  <2>2. CASE job'[k] = job[k]
    BY <2>1, <2>2
  <2>3. ASSUME NEW j \in Jobs, RowStep(j), k # j PROVE job'[k] = job[k]
    <3>1. OthersKept(j)
      BY <2>3 DEF RowStep, CreatedStep, ClosedStep, RetriedStep, DeletedStep,
                  ClaimedStep, RenewedStep, StoppedStep, RequeuedStep
    <3> QED
      BY <2>3, <3>1 DEF OthersKept
  <2>4. ASSUME RowStep(k) PROVE Kept(k)
    <3>1. job[k].execution # None => job[k].execution >= job[k].text
      BY <2>0, OperandTypes DEF RowsConsistent
    <3>2. job[k].status = "absent" => job[k].text = 0 /\ job[k].checkpoint = 0
      BY <2>0 DEF Numbered, None
    <3>3. CASE CreatedStep(k)
      BY <2>1, <3>2, <3>3 DEF CreatedStep
    <3>4. CASE ClosedStep(k) \/ RetriedStep(k) \/ DeletedStep(k) \/ ClaimedStep(k)
      BY <2>1, <3>4 DEF ClosedStep, RetriedStep, DeletedStep, ClaimedStep
    <3>5. CASE RenewedStep(k) \/ StoppedStep(k) \/ RequeuedStep(k)
      BY <2>1, <3>1, <3>5 DEF RenewedStep, StoppedStep, RequeuedStep
    <3> QED
      BY <2>4, <3>3, <3>4, <3>5 DEF RowStep
  <2>5. CASE UNCHANGED vars \/ Tick \/ OutboxStep
    BY <2>2, <2>5 DEF vars, Tick, OutboxStep
  <2> QED
    BY <1>1, <2>0, <2>2, <2>3, <2>4, <2>5, StepKinds
<1>2. SInv /\ [Next]_vars => [\A j \in Jobs : Kept(j)]_vars
  BY <1>1
<1> QED
  BY <1>2, SInvariance, PTL DEF Spec, ProgressKept
=============================================================================
