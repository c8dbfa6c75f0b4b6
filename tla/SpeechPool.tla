----------------------------- MODULE SpeechPool -----------------------------
(***************************************************************************)
(* A job on its way through the speech pool: the row and the outbox of the *)
(* authority, the dispatchers of the replicas of the API, the broker, the  *)
(* control channel and the workers.  SpeechDurable models the authority    *)
(* alone, against any request at all; here the requests are those the      *)
(* workers send, so that what is lost or duplicated on the way shows.      *)
(*                                                                         *)
(* There is no clock.  A lease lapses at any moment its engine is not      *)
(* computing: armLease stops the engine before the lease ends.  A job      *)
(* fails at any moment at its deadline.  The attempts are not counted, so  *)
(* a release or a recovery may always find the last one spent.             *)
(*                                                                         *)
(* The messages are those the outbox publishes, to the queue of their mode *)
(* and pool, so they pass the checks at the start of handle: the path that *)
(* dead-letters an invalid message and acknowledges it without a claim is  *)
(* left out.  So is what the broker drops by age or for room: the          *)
(* x-message-ttl of the queues, and the drop-head of the dead letters.     *)
(***************************************************************************)
EXTENDS Integers, FiniteSets

CONSTANTS
  Jobs,           \* job identifiers
  Workers,        \* the transcription workers
  Dispatchers,    \* the replicas of the API, as publishers of the outbox
  Nobody,         \* a null dispatchToken, a null executionId
  Capacity,       \* SPEECH_GLOBAL_CONCURRENCY
  Prefetch,       \* deliveries a worker holds without acknowledgement
  DeliveryLimit,  \* x-delivery-limit: returns to the queue before dead-letter
  MaxGeneration,  \* bound: largest generation
  MaxLosses       \* bound: how often something is lost, late or crashes

ASSUME PoolAssumption ==
  /\ Nobody \notin Workers \cup Dispatchers
  /\ IsFiniteSet(Dispatchers)
  /\ Capacity \in Nat \ {0}
  /\ Prefetch \in Nat \ {0}
  /\ DeliveryLimit \in Nat
  /\ MaxGeneration \in Nat \ {0}
  /\ MaxLosses \in Nat

VARIABLES
  row,         \* the rows of TranscriptionJob
  outbox,      \* the rows of SpeechOutbox, by job and generation
  dispatcher,  \* where dispatchOutbox is in each replica
  queue,       \* messages ready in the broker
  dead,        \* messages moved to the dead-letter queue
  held,        \* messages delivered to each worker, not acknowledged
  worker,      \* where handle is in each worker
  requests,    \* control requests not consumed yet
  losses       \* faults so far

vars == <<row, outbox, dispatcher, queue, dead, held, worker, requests, losses>>

Generations == 1..MaxGeneration
Terminal    == {"completed", "failed", "cancelled"}

\* An execution is named by its generation: no generation is granted twice
\* (SpeechDurable, OneGrantPerGeneration).  A lapsed lease is one the claim no
\* longer counts and the recovery takes back.
Row == [status: {"absent", "queued", "processing"} \cup Terminal,
        generation: 0..MaxGeneration, owner: Workers \cup {Nobody},
        lease: {"none", "held", "lapsed"}]

Entry == [state: {"none", "pending", "publishing", "published"},
          token: Dispatchers \cup {Nobody}]

\* Copies of one publication differ in copy; returns counts its redeliveries.
Message == [job: Jobs, generation: Generations, copy: 1..(MaxLosses + 1),
            returns: 0..(DeliveryLimit + 1)]

NoMessage == [job |-> Nobody, generation |-> 0, copy |-> 0, returns |-> 0]

\* What a worker asks of the authority.
Actions == {"claim", "complete", "fail", "cancel", "yield", "retry"}

\* The answers it tells apart: an execution, full capacity, or a durable
\* outcome that lets it acknowledge the message.
Answers == {"none", "granted", "full", "settled"}

Request == [worker: Workers, action: Actions, job: Jobs,
            generation: Generations, live: BOOLEAN]

Free == [pc |-> "idle", job |-> Nobody, generation |-> 0]

Init ==
  /\ row = [j \in Jobs |-> [status |-> "absent", generation |-> 0,
                            owner |-> Nobody, lease |-> "none"]]
  /\ outbox = [j \in Jobs |-> [g \in Generations |->
                                 [state |-> "none", token |-> Nobody]]]
  /\ dispatcher = [d \in Dispatchers |-> Free]
  /\ queue = {}
  /\ dead = {}
  /\ held = [w \in Workers |-> {}]
  /\ worker = [w \in Workers |-> [pc |-> "off", message |-> NoMessage,
                                  action |-> "claim", answer |-> "none"]]
  /\ requests = {}
  /\ losses = 0

Fault == losses < MaxLosses /\ losses' = losses + 1
-----------------------------------------------------------------------------
(* The authority. *)

Announced(j, g) ==
  [outbox EXCEPT ![j][g] = [state |-> "pending", token |-> Nobody]]

CreateJob(j) ==
  /\ row[j].status = "absent"
  /\ row' = [row EXCEPT ![j].status = "queued", ![j].generation = 1]
  /\ outbox' = Announced(j, 1)
  /\ UNCHANGED <<dispatcher, queue, dead, held, worker, requests, losses>>

\* cancel by a user, or the absolute deadline; the execution keeps its lease.
CloseJob(j, status) ==
  /\ row[j].status \in {"queued", "processing"}
  /\ row' = [row EXCEPT ![j].status = status]
  /\ UNCHANGED <<outbox, dispatcher, queue, dead, held, worker, requests, losses>>

Requeue(j) ==
  /\ row[j].generation < MaxGeneration
  /\ row' = [row EXCEPT ![j] = [status |-> "queued",
                                generation |-> row[j].generation + 1,
                                owner |-> Nobody, lease |-> "none"]]
  /\ outbox' = Announced(j, row[j].generation + 1)

\* recoverStaleJobs: another attempt, or none is left.
RecoverLapsed(j) ==
  /\ row[j].status = "processing"
  /\ row[j].lease = "lapsed"
  /\ \/ Requeue(j)
     \/ row' = [row EXCEPT ![j].status = "failed"] /\ UNCHANGED outbox
  /\ UNCHANGED <<dispatcher, queue, dead, held, worker, requests, losses>>

\* retry, asked by a user.
RetryFailed(j) ==
  /\ row[j].status = "failed"
  /\ row[j].lease # "held"
  /\ Requeue(j)
  /\ UNCHANGED <<dispatcher, queue, dead, held, worker, requests, losses>>

Occupying == {j \in Jobs : row[j].owner # Nobody /\ row[j].lease = "held"}

Claimable(q) ==
  /\ row[q.job].status = "queued"
  /\ row[q.job].generation = q.generation

Grant(q) ==
  row' = [row EXCEPT ![q.job].status = "processing",
                     ![q.job].owner = q.worker, ![q.job].lease = "held"]

SameExecution(q) ==
  /\ row[q.job].owner = q.worker
  /\ row[q.job].generation = q.generation

InCharge(q) ==
  /\ SameExecution(q)
  /\ row[q.job].status = "processing"
  /\ row[q.job].lease = "held"

Outcome ==
  [complete |-> "completed", fail |-> "failed", cancel |-> "cancelled"]

Closes(q) == q.action \in DOMAIN Outcome

\* The worker has stopped the execution of a job that ended meanwhile.
ConfirmsStop(q) ==
  Closes(q) /\ SameExecution(q) /\ row[q.job].status \in Terminal

\* Terminal job, older generation, claimed already, or lease lost.
Refused(q) ==
  IF q.action = "claim" THEN ~Claimable(q) ELSE ~InCharge(q) /\ ~ConfirmsStop(q)

\* control: what it makes of row and outbox, and what it answers.
Control(q, answer) ==
  \/ /\ q.action = "claim" /\ Claimable(q)
     /\ IF Cardinality(Occupying) < Capacity
        THEN Grant(q) /\ answer = "granted"
        ELSE UNCHANGED row /\ answer = "full"
     /\ UNCHANGED outbox
  \/ /\ Closes(q) /\ InCharge(q)
     /\ row' = [row EXCEPT ![q.job].status = Outcome[q.action],
                           ![q.job].lease = "none"]
     /\ answer = "settled"
     /\ UNCHANGED outbox
  \/ /\ q.action \in {"yield", "retry"} /\ InCharge(q)
     /\ Requeue(q.job)
     /\ answer = "settled"
  \/ /\ q.action = "retry" /\ InCharge(q)
     /\ row' = [row EXCEPT ![q.job].status = "failed", ![q.job].lease = "none"]
     /\ answer = "settled"
     /\ UNCHANGED outbox
  \/ /\ ConfirmsStop(q)
     /\ row' = [row EXCEPT ![q.job].lease = "none"]
     /\ answer = "settled"
     /\ UNCHANGED outbox
  \/ /\ Refused(q)
     /\ answer = "settled"
     /\ UNCHANGED <<row, outbox>>

\* consumeControl: the reply reaches the worker that waits for it.  A request
\* its worker no longer waits for is answered into the void.
Consume(q) ==
  \E answer \in Answers \ {"none"} :
    /\ q \in requests
    /\ Control(q, answer)
    /\ requests' = requests \ {q}
    /\ worker' = IF q.live THEN [worker EXCEPT ![q.worker].answer = answer]
                 ELSE worker
    /\ UNCHANGED <<dispatcher, queue, dead, held, losses>>

\* The transaction commits, the reply fails, and the broker delivers the
\* request to another replica, which runs it again.
ConsumeReplyLost(q) ==
  /\ q \in requests
  /\ Fault
  /\ \E answer \in Answers \ {"none"} : Control(q, answer)
  /\ UNCHANGED <<dispatcher, queue, dead, held, worker, requests>>

\* The request expires in the control queue.
DropRequest(q) ==
  /\ q \in requests
  /\ Fault
  /\ requests' = requests \ {q}
  /\ UNCHANGED <<row, outbox, dispatcher, queue, dead, held, worker>>
-----------------------------------------------------------------------------
(* dispatchOutbox in one replica of the API. *)

\* Faulty variant: the lock of a replica that stopped is kept for ever.
LockableOnce(j, g) == outbox[j][g].state = "pending"

Lockable(j, g) == outbox[j][g].state \in {"pending", "publishing"}

\* The replicas that still work under the token of the entry.
Lockers(j, g) ==
  {d \in Dispatchers : /\ outbox[j][g].token = d
                       /\ dispatcher[d].pc # "idle"
                       /\ dispatcher[d].job = j /\ dispatcher[d].generation = g}

\* An entry passes to another token when its lock of 30 s has expired: that of
\* a replica still at work expires only if the replica is slow.
Lock(d, j, g) ==
  /\ dispatcher[d].pc = "idle"
  /\ Lockable(j, g)
  /\ IF Lockers(j, g) = {} THEN UNCHANGED losses ELSE Fault
  /\ outbox' = [outbox EXCEPT ![j][g] = [state |-> "publishing", token |-> d]]
  /\ dispatcher' = [dispatcher EXCEPT ![d] = [pc |-> "locked", job |-> j,
                                              generation |-> g]]
  /\ UNCHANGED <<row, queue, dead, held, worker, requests>>

At(d, pc) ==
  dispatcher' = [dispatcher EXCEPT ![d].pc = pc]

\* The row of the job is read between the lock and the publication.  A job past
\* its deadline is not published either; CloseJob has ended it here by then.
ReadJob(d) ==
  /\ dispatcher[d].pc = "locked"
  /\ LET j == dispatcher[d].job
     IN  IF row[j].status = "queued" /\ row[j].generation = dispatcher[d].generation
         THEN At(d, "publishing") ELSE At(d, "sent")
  /\ UNCHANGED <<row, outbox, queue, dead, held, worker, requests, losses>>

Messages == queue \cup dead \cup UNION {held[w] : w \in Workers}

Published(j, g) ==
  LET used == {m.copy : m \in {n \in Messages : n.job = j /\ n.generation = g}}
  IN  [job |-> j, generation |-> g, returns |-> 0,
       copy |-> CHOOSE c \in 1..(Cardinality(used) + 1) : c \notin used]

Enqueue(d) ==
  queue' = queue \cup {Published(dispatcher[d].job, dispatcher[d].generation)}

\* publishSpeechConfirmed resolves: routed and confirmed.
PublishConfirmed(d) ==
  /\ dispatcher[d].pc = "publishing"
  /\ Enqueue(d)
  /\ At(d, "sent")
  /\ UNCHANGED <<row, outbox, dead, held, worker, requests, losses>>

\* Faulty variant: a failed publication is taken for a published one.
AfterFailureSent == "sent"

\* It rejects: returned, refused, closed or out of time, and the message may
\* be in the queue nevertheless.
AfterFailure == "failed"

PublishFailed(d) ==
  /\ dispatcher[d].pc = "publishing"
  /\ Fault
  /\ Enqueue(d) \/ UNCHANGED queue
  /\ At(d, AfterFailure)
  /\ UNCHANGED <<row, outbox, dead, held, worker, requests>>

\* Both writes that end a publication are guarded by its token.
Settle(d) ==
  /\ dispatcher[d].pc \in {"sent", "failed"}
  /\ LET j == dispatcher[d].job
         g == dispatcher[d].generation
     IN  IF outbox[j][g].token = d
         THEN outbox' = [outbox EXCEPT ![j][g] =
                [state |-> IF dispatcher[d].pc = "sent" THEN "published"
                           ELSE "pending",
                 token |-> Nobody]]
         ELSE UNCHANGED outbox
  /\ dispatcher' = [dispatcher EXCEPT ![d] = Free]
  /\ UNCHANGED <<row, queue, dead, held, worker, requests, losses>>

\* The replica stops: its token stays on the row.
CrashDispatcher(d) ==
  /\ dispatcher[d].pc # "idle"
  /\ Fault
  /\ dispatcher' = [dispatcher EXCEPT ![d] = Free]
  /\ UNCHANGED <<row, outbox, queue, dead, held, worker, requests>>
-----------------------------------------------------------------------------
(* The broker and a worker. *)

Deliver(w, m) ==
  /\ worker[w].pc \notin {"off", "dying"}
  /\ m \in queue
  /\ Cardinality(held[w]) < Prefetch
  /\ queue' = queue \ {m}
  /\ held' = [held EXCEPT ![w] = @ \cup {m}]
  /\ UNCHANGED <<row, outbox, dispatcher, dead, worker, requests, losses>>

\* The channel of a worker is gone: everything it has not acknowledged goes
\* back, or to the dead letters after too many returns.
Returned(w) == {[m EXCEPT !.returns = m.returns + 1] : m \in held[w]}

\* Faulty variant: a message returns without limit.
ReturnAlways(w) ==
  /\ queue' = queue \cup Returned(w)
  /\ held' = [held EXCEPT ![w] = {}]
  /\ UNCHANGED dead

ReturnHeld(w) ==
  /\ queue' = queue \cup {m \in Returned(w) : m.returns <= DeliveryLimit}
  /\ dead' = dead \cup {m \in Returned(w) : m.returns > DeliveryLimit}
  /\ held' = [held EXCEPT ![w] = {}]

\* Nobody waits for the pending request any more; it may still be consumed.
Abandoned(w) ==
  {[q EXCEPT !.live = FALSE] : q \in {p \in requests : p.worker = w /\ p.live}}
    \cup {q \in requests : ~(q.worker = w /\ q.live)}

Idle == [pc |-> "idle", message |-> NoMessage, action |-> "claim", answer |-> "none"]

Connect(w) ==
  /\ worker[w].pc = "off"
  /\ worker' = [worker EXCEPT ![w] = Idle]
  /\ UNCHANGED <<row, outbox, dispatcher, queue, dead, held, requests, losses>>

\* handle sends one request and waits for its reply.
Ask(w, m, action) ==
  /\ worker' = [worker EXCEPT ![w] =
                  [pc |-> IF action = "claim" THEN "claiming" ELSE "reporting",
                   message |-> m, action |-> action, answer |-> "none"]]
  /\ requests' = requests \cup {[worker |-> w, action |-> action, job |-> m.job,
                                 generation |-> m.generation, live |-> TRUE]}

StartClaim(w, m) ==
  /\ worker[w].pc = "idle"
  /\ m \in held[w]
  /\ Ask(w, m, "claim")
  /\ UNCHANGED <<row, outbox, dispatcher, queue, dead, held, losses>>

Computing(w, j, g) ==
  /\ worker[w].pc \in {"running", "dying"}
  /\ worker[w].message.job = j
  /\ worker[w].message.generation = g

\* Faulty variant: the lease in the reply is not looked at.
LeaseInTime(m) == TRUE

\* armLease: the timer of a lease that has lapsed fires at once.
LeaseStands(m) ==
  /\ row[m.job].generation = m.generation
  /\ row[m.job].lease = "held"

StartEngine(w) ==
  /\ worker[w].pc = "claiming" /\ worker[w].answer = "granted"
  /\ LeaseStands(worker[w].message)
  /\ worker' = [worker EXCEPT ![w].pc = "running", ![w].answer = "none"]
  /\ UNCHANGED <<row, outbox, dispatcher, queue, dead, held, requests, losses>>

\* A grant that comes too late is released, one that came while the worker
\* only rechecked a waiting job is given back at once (recheckWaitingJob).
GiveBackGrant(w) ==
  /\ worker[w].pc = "claiming" /\ worker[w].answer = "granted"
  /\ LET m == worker[w].message
     IN  \/ ~LeaseStands(m) /\ Ask(w, m, "retry")
         \/ m.generation < MaxGeneration /\ Ask(w, m, "yield")
  /\ UNCHANGED <<row, outbox, dispatcher, queue, dead, held, losses>>

\* No capacity: the message stays unacknowledged and is tried again.
Defer(w) ==
  /\ worker[w].pc = "claiming" /\ worker[w].answer = "full"
  /\ worker' = [worker EXCEPT ![w] = Idle]
  /\ UNCHANGED <<row, outbox, dispatcher, queue, dead, held, requests, losses>>

\* The engine ends a window or the job, fails, loses its lease or is told to
\* stop; it has stopped when the request leaves.
EndEngine(w, action) ==
  /\ worker[w].pc = "running"
  /\ action = "yield" => worker[w].message.generation < MaxGeneration
  /\ Ask(w, worker[w].message, action)
  /\ UNCHANGED <<row, outbox, dispatcher, queue, dead, held, losses>>

\* Faulty variant: an answer in the negative is acknowledged as well.
AcknowledgeableAny(w) == worker[w].answer # "none"

\* The outcome is durable, whichever it is.
Acknowledgeable(w) == worker[w].answer = "settled"

Acknowledge(w) ==
  /\ worker[w].pc \in {"claiming", "reporting"}
  /\ Acknowledgeable(w)
  /\ held' = [held EXCEPT ![w] = @ \ {worker[w].message}]
  /\ worker' = [worker EXCEPT ![w] = Idle]
  /\ UNCHANGED <<row, outbox, dispatcher, queue, dead, requests, losses>>

\* CONTROL_TIMEOUT and the like, or the socket is gone: onConnectionLost.  An
\* engine that computes dies only afterwards.
LoseConnection(w) ==
  /\ worker[w].pc \notin {"off", "dying"}
  /\ Fault
  /\ ReturnHeld(w)
  /\ requests' = Abandoned(w)
  /\ worker' = [worker EXCEPT ![w] =
                  IF worker[w].pc = "running" THEN [@ EXCEPT !.pc = "dying"]
                  ELSE [Idle EXCEPT !.pc = "off"]]
  /\ UNCHANGED <<row, outbox, dispatcher>>

\* A request whose reply will never come runs into the same timeout, which
\* costs no further fault.
TimeOut(w) ==
  /\ worker[w].pc \in {"claiming", "reporting"}
  /\ worker[w].answer = "none"
  /\ ~\E q \in requests : q.worker = w /\ q.live
  /\ ReturnHeld(w)
  /\ worker' = [worker EXCEPT ![w] = [Idle EXCEPT !.pc = "off"]]
  /\ UNCHANGED <<row, outbox, dispatcher, requests, losses>>

EngineDies(w) ==
  /\ worker[w].pc = "dying"
  /\ worker' = [worker EXCEPT ![w] = [Idle EXCEPT !.pc = "off"]]
  /\ UNCHANGED <<row, outbox, dispatcher, queue, dead, held, requests, losses>>

\* No heartbeat renews the lease: its engine no longer computes.
LapseLease(j) ==
  /\ row[j].lease = "held"
  /\ ~\E w \in Workers : Computing(w, j, row[j].generation)
  /\ row' = [row EXCEPT ![j].lease = "lapsed"]
  /\ UNCHANGED <<outbox, dispatcher, queue, dead, held, worker, requests, losses>>
-----------------------------------------------------------------------------
Authority ==
  \/ \E j \in Jobs : \/ CreateJob(j)
                     \/ \E status \in {"cancelled", "failed"} : CloseJob(j, status)
                     \/ RecoverLapsed(j) \/ RetryFailed(j)
                     \/ LapseLease(j)
  \/ \E q \in requests : Consume(q) \/ ConsumeReplyLost(q) \/ DropRequest(q)

Dispatch(d) ==
  \/ \E j \in Jobs, g \in Generations : Lock(d, j, g)
  \/ ReadJob(d) \/ PublishConfirmed(d) \/ PublishFailed(d) \/ Settle(d)
  \/ CrashDispatcher(d)

Work(w) ==
  \/ \E m \in queue : Deliver(w, m)
  \/ \E m \in held[w] : StartClaim(w, m)
  \/ \E action \in Actions \ {"claim"} : EndEngine(w, action)
  \/ Connect(w) \/ StartEngine(w) \/ GiveBackGrant(w) \/ Defer(w)
  \/ Acknowledge(w) \/ LoseConnection(w) \/ TimeOut(w) \/ EngineDies(w)

Next ==
  \/ Authority
  \/ \E d \in Dispatchers : Dispatch(d)
  \/ \E w \in Workers : Work(w)

Spec == Init /\ [][Next]_vars

\* Timers poll and reconnect, requests and engines end: nothing of the pool
\* stops by itself.  Users owe nothing, and no job is helped by its deadline.
Fairness ==
  /\ \A j \in Jobs : WF_vars(RecoverLapsed(j)) /\ WF_vars(LapseLease(j))
  /\ WF_vars(\E q \in requests : Consume(q))
  /\ \A d \in Dispatchers :
       /\ WF_vars(\E j \in Jobs, g \in Generations : Lock(d, j, g))
       /\ WF_vars(ReadJob(d)) /\ WF_vars(PublishConfirmed(d)) /\ WF_vars(Settle(d))
  /\ \A w \in Workers :
       /\ WF_vars(\E m \in queue : Deliver(w, m))
       /\ WF_vars(\E m \in held[w] : StartClaim(w, m))
       /\ WF_vars(\E action \in Actions \ {"claim"} : EndEngine(w, action))
       /\ WF_vars(StartEngine(w) \/ GiveBackGrant(w) \/ Defer(w) \/ Acknowledge(w))
       /\ WF_vars(Connect(w)) /\ WF_vars(TimeOut(w)) /\ WF_vars(EngineDies(w))

FairSpec == Spec /\ Fairness
-----------------------------------------------------------------------------
TypeOK ==
  /\ row \in [Jobs -> Row]
  /\ outbox \in [Jobs -> [Generations -> Entry]]
  /\ \A d \in Dispatchers :
       /\ dispatcher[d].pc \in {"idle", "locked", "publishing", "sent", "failed"}
       /\ dispatcher[d].pc # "idle" => /\ dispatcher[d].job \in Jobs
                                       /\ dispatcher[d].generation \in Generations
  /\ Messages \subseteq Message
  /\ \A m \in Messages \ dead : m.returns <= DeliveryLimit
  /\ \A w \in Workers :
       /\ worker[w].pc \in {"off", "idle", "claiming", "running", "reporting", "dying"}
       /\ worker[w].message \in Message \cup {NoMessage}
       /\ worker[w].action \in Actions
       /\ worker[w].answer \in Answers
  /\ requests \subseteq Request
  /\ losses \in 0..MaxLosses

\* A queued job can still reach a worker: its generation waits in the outbox,
\* or a message of it is in the broker, ready, delivered, or among the dead
\* letters, from where only its deadline ends it.
QueuedIsReachable ==
  \A j \in Jobs : row[j].status = "queued" =>
    \/ outbox[j][row[j].generation].state \in {"pending", "publishing"}
    \/ \E m \in Messages : m.job = j /\ m.generation = row[j].generation

\* Whoever computes is the execution the authority knows, under a lease it
\* counts: a message delivered twice, or a grant that arrives late, starts no
\* engine beside another one.
EngineHoldsLease ==
  \A w \in Workers : worker[w].pc \in {"running", "dying"} =>
    LET m == worker[w].message
    IN  /\ row[m.job].generation = m.generation
        /\ row[m.job].owner = w
        /\ row[m.job].lease = "held"

\* A message leaves the broker only when nobody can claim its generation any
\* more: what became of it is durable before its acknowledgement.  (Of the
\* messages of this model: an invalid one is acknowledged without a claim.)
AcknowledgedIsSettled ==
  [][\A m \in Messages :
       (~\E n \in Messages' : n.job = m.job /\ n.generation = m.generation
                                /\ n.copy = m.copy)
         => ~(/\ row[m.job].status = "queued"
              /\ row[m.job].generation = m.generation)]_vars

\* Every job ends without the help of its deadline, however its messages,
\* replies, replicas and workers failed, unless the broker put its message
\* among the dead letters.
JobsSettle ==
  \A j \in Jobs :
    row[j].status \in {"queued", "processing"} ~>
      \/ row[j].status \in Terminal
      \/ \E m \in dead : m.job = j /\ m.generation = row[j].generation
=============================================================================
