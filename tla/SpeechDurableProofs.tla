------------------------ MODULE SpeechDurableProofs ------------------------
(* The theorems about SpeechDurable. *)
EXTENDS SpeechDurable, FiniteSetTheorems, TLAPS

-----------------------------------------------------------------------------
(* Lemmas about the rows: what a transaction makes of a row is a row.      *)

LEMMA Values ==
  /\ None \in Nat /\ NoLease \in Int /\ Pending \in Int
  /\ Active = {"queued", "processing"}
  /\ Terminal = {"completed", "failed", "cancelled"}
  /\ Gone = {"absent", "deleted"}
BY DEF None, NoLease, Pending, Active, Terminal, Gone

LEMMA NoRowType ==
  ASSUME NEW status \in Active \cup Terminal \cup Gone
  PROVE  NoRow(status) \in JobRow
<1>1. None \in Nat /\ NoLease \in Int
  BY Values
<1> QED
  BY <1>1 DEF NoRow, JobRow

LEMMA NewJobType ==
  ASSUME NEW deadline \in Nat
  PROVE  NewJob(deadline) \in JobRow
<1>1. "queued" \in Active \cup Terminal \cup Gone
  BY Values
<1>2. None \in Nat /\ NoLease \in Int
  BY Values
<1> QED
  BY <1>1, <1>2 DEF NewJob, NoRow, JobRow

LEMMA RetriedType ==
  ASSUME NEW row \in JobRow, NEW deadline \in Nat
  PROVE  Retried(row, deadline) \in JobRow
<1>1. "queued" \in Active \cup Terminal \cup Gone
  BY Values
<1>2. None \in Nat /\ NoLease \in Int /\ row.generation + 1 \in Nat
  BY Values DEF JobRow
<1> QED
  BY <1>1, <1>2 DEF Retried, JobRow

LEMMA RequeuedType ==
  ASSUME NEW row \in JobRow, NEW a \in Nat, NEW c \in Nat, NEW t \in Nat
  PROVE  Requeued(row, a, c, t) \in JobRow
<1>1. "queued" \in Active \cup Terminal \cup Gone
  BY Values
<1>2. None \in Nat /\ NoLease \in Int /\ row.generation + 1 \in Nat
  BY Values DEF JobRow
<1> QED
  BY <1>1, <1>2 DEF Requeued, JobRow

LEMMA ClaimedType ==
  ASSUME NEW row \in JobRow, NEW e \in Nat, NEW w \in Workers, NEW l \in Int
  PROVE  Claimed(row, e, w, l) \in JobRow
<1>1. "processing" \in Active \cup Terminal \cup Gone
  BY Values
<1> QED
  BY <1>1 DEF Claimed, JobRow

LEMMA RenewedType ==
  ASSUME NEW row \in JobRow, NEW l \in Int, NEW c \in Nat, NEW t \in Nat
  PROVE  Renewed(row, l, c, t) \in JobRow
BY DEF Renewed, JobRow

LEMMA FinishedType ==
  ASSUME NEW row \in JobRow, NEW status \in Terminal, NEW t \in Nat
  PROVE  Finished(row, status, t) \in JobRow
<1>1. NoLease \in Int
  BY Values
<1> QED
  BY <1>1 DEF Finished, JobRow

LEMMA EditedType ==
  ASSUME NEW row \in JobRow
  PROVE  /\ \A status \in Terminal : [row EXCEPT !.status = status] \in JobRow
         /\ [row EXCEPT !.lease = NoLease] \in JobRow
<1>1. NoLease \in Int
  BY Values
<1> QED
  BY <1>1 DEF JobRow

LEMMA LeaseExpiryBounds ==
  ASSUME TypeOK, NEW j \in Jobs
  PROVE  /\ LeaseExpiry(j) \in Nat
         /\ LeaseExpiry(j) <= job[j].deadline
         /\ LeaseExpiry(j) <= now + LeaseLength
         /\ job[j].deadline > now => LeaseExpiry(j) > now
BY ConstantsAssumption DEF TypeOK, JobRow, LeaseExpiry, Min2

-----------------------------------------------------------------------------
(* Type correctness. *)

LEMMA TypeOKInit == Init => TypeOK
<1> SUFFICES ASSUME Init PROVE TypeOK
  OBVIOUS
<1>1. NoRow("absent") \in JobRow
  BY NoRowType, Values
<1>2. NoRow("absent").attempts = 0
  BY DEF NoRow
<1> QED
  BY <1>1, <1>2, ConstantsAssumption DEF Init, TypeOK

LEMMA WriteOutboxType ==
  ASSUME TypeOK, NEW j \in Jobs, NEW g \in Nat, WriteOutbox(j, g)
  PROVE  outbox' \subseteq OutboxRow
BY Values DEF TypeOK, WriteOutbox, NewOutbox, OutboxRow

\* A step that replaces the row of one job keeps the types.
LEMMA RowStepType ==
  ASSUME TypeOK, NEW j \in Jobs, NEW q \in JobRow, q.attempts <= MaxAttempts,
         job' = [job EXCEPT ![j] = q]
  PROVE  /\ job' \in [Jobs -> JobRow]
         /\ \A k \in Jobs : job'[k].attempts <= MaxAttempts
BY DEF TypeOK

LEMMA RequeueType ==
  ASSUME TypeOK, NEW j \in Jobs, NEW a \in Nat, NEW c \in Nat, NEW t \in Nat,
         a <= MaxAttempts, Requeue(j, a, c, t), running' \subseteq running
  PROVE  TypeOK'
<1>1. outbox' \subseteq OutboxRow
  BY WriteOutboxType DEF Requeue, TypeOK, JobRow
<1>2. job[j] \in JobRow
  BY DEF TypeOK
<1>3. Requeued(job[j], a, c, t) \in JobRow
  BY <1>2, RequeuedType
<1>4. Requeued(job[j], a, c, t).attempts = a
  BY DEF Requeued, JobRow
<1>5. job' \in [Jobs -> JobRow] /\ \A k \in Jobs : job'[k].attempts <= MaxAttempts
  BY <1>3, <1>4, RowStepType DEF Requeue
<1> QED
  BY <1>1, <1>5 DEF TypeOK, Requeue

LEMMA TypeOKStep == TypeOK /\ [Next]_vars => TypeOK'
<1> SUFFICES ASSUME TypeOK, [Next]_vars PROVE TypeOK'
  OBVIOUS
<1> USE ConstantsAssumption
<1>1. CASE Tick
  BY <1>1 DEF TypeOK, Tick
<1>2. ASSUME NEW j \in Jobs, CreateJob(j) PROVE TypeOK'
  <2>1. outbox' \subseteq OutboxRow
    BY <1>2, WriteOutboxType DEF CreateJob
  <2>2. now + DeadlineLength \in Nat
    BY DEF TypeOK
  <2>3. NewJob(now + DeadlineLength) \in JobRow
    BY <2>2, NewJobType
  <2>4. NewJob(now + DeadlineLength).attempts = 1
    BY DEF NewJob, NoRow
  <2>5. job' \in [Jobs -> JobRow] /\ \A k \in Jobs : job'[k].attempts <= MaxAttempts
    <3>1. NewJob(now + DeadlineLength).attempts <= MaxAttempts
      BY <2>4
    <3>2. job' = [job EXCEPT ![j] = NewJob(now + DeadlineLength)]
      BY <1>2 DEF CreateJob
    <3> HIDE ConstantsAssumption
    <3> QED
      BY <2>3, <3>1, <3>2, RowStepType
  <2> QED
    BY <1>2, <2>1, <2>5 DEF TypeOK, CreateJob
<1>3. ASSUME NEW j \in Jobs, NEW status \in Terminal,
             job' = [job EXCEPT ![j].status = status],
             UNCHANGED <<now, outbox, issued, grants, running>>
      PROVE TypeOK'
  <2>1. job[j] \in JobRow /\ job[j].attempts <= MaxAttempts
    BY DEF TypeOK
  <2>2. [job[j] EXCEPT !.status = status] \in JobRow
    BY <2>1, EditedType
  <2>3. job' \in [Jobs -> JobRow] /\ \A k \in Jobs : job'[k].attempts <= MaxAttempts
    BY <1>3, <2>2 DEF TypeOK
  <2> QED
    BY <1>3, <2>3 DEF TypeOK
<1>4. ASSUME NEW j \in Jobs, Retry(j) PROVE TypeOK'
  <2>1. outbox' \subseteq OutboxRow
    BY <1>4, WriteOutboxType DEF Retry, TypeOK, JobRow
  <2>2. now + DeadlineLength \in Nat /\ job[j] \in JobRow
    BY DEF TypeOK
  <2>3. Retried(job[j], now + DeadlineLength) \in JobRow
    BY <2>2, RetriedType
  <2>4. job' \in [Jobs -> JobRow] /\ \A k \in Jobs : job'[k].attempts <= MaxAttempts
    <3>1. Retried(job[j], now + DeadlineLength).attempts = 1
      BY <2>2 DEF Retried, JobRow
    <3>2. Retried(job[j], now + DeadlineLength).attempts <= MaxAttempts
      BY <3>1
    <3>3. job' = [job EXCEPT ![j] = Retried(job[j], now + DeadlineLength)]
      BY <1>4 DEF Retry
    <3> HIDE ConstantsAssumption
    <3> QED
      BY <2>3, <3>2, <3>3, RowStepType
  <2> QED
    BY <1>4, <2>1, <2>4 DEF TypeOK, Retry
<1>5. ASSUME NEW j \in Jobs, Delete(j) PROVE TypeOK'
  <2>1. NoRow("deleted") \in JobRow
    BY NoRowType, Values
  <2>2. NoRow("deleted").attempts = 0
    BY DEF NoRow
  <2> QED
    BY <1>5, <2>1, <2>2, RowStepType DEF TypeOK, Delete
<1>6. ASSUME NEW j \in Jobs, Cancel(j) \/ DeadlineExceeded(j) PROVE TypeOK'
  BY <1>3, <1>6, Values DEF Cancel, DeadlineExceeded
<1>7. ASSUME NEW j \in Jobs, NEW g \in 1..job[j].generation, NEW w \in Workers,
             Claim(j, g, w)
      PROVE  TypeOK'
  <2>1. /\ job[j] \in JobRow /\ job[j].attempts <= MaxAttempts
        /\ job[j].generation \in Nat /\ issued[j] + 1 \in Nat
    BY DEF TypeOK, JobRow
  <2>2. job' = [job EXCEPT ![j] = Claimed(job[j], issued[j] + 1, w, LeaseExpiry(j))]
    BY <1>7 DEF Claim
  <2>3. job' \in [Jobs -> JobRow] /\ \A k \in Jobs : job'[k].attempts <= MaxAttempts
    <3>1. LeaseExpiry(j) \in Int
      BY LeaseExpiryBounds
    <3>2. Claimed(job[j], issued[j] + 1, w, LeaseExpiry(j)) \in JobRow
      BY <2>1, <3>1, ClaimedType
    <3>3. Claimed(job[j], issued[j] + 1, w, LeaseExpiry(j)).attempts = job[j].attempts
      BY <2>1 DEF Claimed, JobRow
    <3> QED
      BY <2>1, <2>2, <3>2, <3>3, RowStepType
  <2>4. grants' \subseteq Grant /\ running' \subseteq Engine
    BY <1>7, <2>1, LeaseExpiryBounds DEF Claim, TypeOK, Grant, Engine
  <2> QED
    BY <1>7, <2>1, <2>3, <2>4 DEF TypeOK, Claim
<1>8. ASSUME NEW j \in Jobs, NEW t \in 0..now, RecoverStale(j, t) PROVE TypeOK'
  <2>1. CASE RecoverFailed(j, t)
    BY <1>3, <2>1, Values DEF RecoverFailed
  <2>2. CASE RecoverLapsed(j, t)
    <3>1. /\ job[j].attempts + 1 \in Nat /\ job[j].attempts + 1 <= MaxAttempts
          /\ job[j].checkpoint \in Nat /\ job[j].text \in Nat
      BY <2>2 DEF RecoverLapsed, TriesAgain, TypeOK, JobRow
    <3> QED
      BY <2>2, <3>1, RequeueType DEF RecoverLapsed
  <2>3. CASE RecoverOutbox(j, t)
    <3>1. outbox' \subseteq OutboxRow
      BY <2>3, WriteOutboxType DEF RecoverOutbox, TypeOK, JobRow
    <3> QED
      BY <2>3, <3>1 DEF TypeOK, RecoverOutbox
  <2> QED
    BY <1>8, <2>1, <2>2, <2>3 DEF RecoverStale
<1>9. ASSUME NEW r \in grants, Request(r) PROVE TypeOK'
  <2>1. /\ r.job \in Jobs /\ r.execution \in Nat
        /\ job[r.job] \in JobRow /\ job[r.job].attempts \in Nat
        /\ job[r.job].attempts <= MaxAttempts /\ job[r.job].text \in Nat
    BY DEF TypeOK, Grant, JobRow
  <2>2. ASSUME NEW c \in 0..MaxChunk
        PROVE  c \in Nat /\ TextAfter(r, c) \in Nat
    BY <2>1 DEF TextAfter
  <2>3. ASSUME NEW c \in 0..MaxChunk, RenewLease(r, c) PROVE TypeOK'
    <3>1. running' \subseteq Engine
      BY <2>1, <2>3, LeaseExpiryBounds DEF RenewLease, TypeOK, Engine, EngineOf
    <3>2. job' \in [Jobs -> JobRow] /\ \A k \in Jobs : job'[k].attempts <= MaxAttempts
      <4>1. LeaseExpiry(r.job) \in Int
        BY <2>1, LeaseExpiryBounds
      <4>2. Renewed(job[r.job], LeaseExpiry(r.job), c, TextAfter(r, c)) \in JobRow
        BY <2>1, <2>2, <4>1, RenewedType
      <4>3. Renewed(job[r.job], LeaseExpiry(r.job), c, TextAfter(r, c)).attempts
              = job[r.job].attempts
        BY <2>1 DEF Renewed, JobRow
      <4> QED
        BY <2>1, <2>3, <4>2, <4>3, RowStepType DEF RenewLease
    <3> QED
      BY <2>3, <3>1, <3>2 DEF RenewLease, TypeOK
  <2>4. ASSUME NEW c \in 0..MaxChunk, Yield(r, c) PROVE TypeOK'
    BY <2>1, <2>2, <2>4, RequeueType DEF Yield
  <2>5. ASSUME NEW c \in 0..MaxChunk, ReleaseForRetry(r, c) PROVE TypeOK'
    <3>1. job[r.job].attempts + 1 \in Nat /\ job[r.job].attempts + 1 <= MaxAttempts
      BY <2>1, <2>5 DEF ReleaseForRetry
    <3> QED
      BY <2>1, <2>2, <2>5, <3>1, RequeueType DEF ReleaseForRetry
  <2>6. ASSUME NEW status \in Terminal, NEW t \in Nat,
               job' = [job EXCEPT ![r.job] = Finished(job[r.job], status, t)],
               running' \subseteq running, UNCHANGED <<now, outbox, issued, grants>>
        PROVE  TypeOK'
    <3>1. Finished(job[r.job], status, t) \in JobRow
      BY <2>1, FinishedType
    <3>2. job' \in [Jobs -> JobRow] /\ \A k \in Jobs : job'[k].attempts <= MaxAttempts
      <4>1. Finished(job[r.job], status, t).attempts = job[r.job].attempts
        BY <2>1 DEF Finished, JobRow
      <4> QED
        BY <2>1, <2>6, <3>1, <4>1, RowStepType
    <3> QED
      BY <2>6, <3>2 DEF TypeOK
  <2>7. ASSUME NEW status \in Terminal, Finish(r, status) PROVE TypeOK'
    BY <2>1, <2>6, <2>7 DEF Finish
  <2>8. CASE ReleaseExhausted(r)
    BY <2>1, <2>6, <2>8, Values DEF ReleaseExhausted
  <2>9. CASE ConfirmStopped(r)
    <3>1. [job[r.job] EXCEPT !.lease = NoLease] \in JobRow
      BY <2>1, EditedType
    <3> QED
      BY <2>1, <2>9, <3>1 DEF ConfirmStopped, TypeOK
  <2> QED
    BY <1>9, <2>3, <2>4, <2>5, <2>7, <2>8, <2>9 DEF Request
<1>10. ASSUME NEW r \in outbox, MarkPublished(r) \/ PurgeOutbox(r) PROVE TypeOK'
  BY <1>10 DEF TypeOK, MarkPublished, PurgeOutbox, OutboxRow
<1>11. CASE UNCHANGED vars
  BY <1>11 DEF TypeOK, vars
<1> QED
  BY <1>1, <1>2, <1>4, <1>5, <1>6, <1>7, <1>8, <1>9, <1>10, <1>11 DEF Next

\* Every reachable state is well typed, and no job is ever attempted more
\* often than SPEECH_MAX_ATTEMPTS allows.
THEOREM TypeCorrect == Spec => []TypeOK
BY TypeOKInit, TypeOKStep, PTL DEF Spec
=============================================================================
