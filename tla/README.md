# Formal models of ARGWS Connect API

This directory holds TLA+ models of ARGWS Connect API, the TLC configurations
that check them on small instances, and proofs about them for TLAPS. Paths in
this document are relative to the repository.

## 1. The system

ARGWS Connect API is a messaging gateway: one server process (replicated at
will) exposes WhatsApp and other channels over HTTP, keeps its state in a SQL
database through Prisma, and talks to its workers over RabbitMQ. The parts
with logic of their own, and what makes each correct:

| Component | State it keeps | Operations | Hard behaviour | What makes it correct |
|---|---|---|---|---|
| Durable speech authority `speech-durable.service.ts` | rows of `TranscriptionJob`, `SpeechOutbox`, `SpeechUploadReservation` | `createJob`, `cancel`, `retry`, `control` (claim, lease, checkpoint, finish, release), `reserveUpload` | requests repeated, late or lost; clocks and leases; cancellation while the native engine still runs | at most the configured number of engines; at most one execution per generation; the last execution decides; every job ends |
| Transcription service `transcription.service.ts` | broker connection, timers, in-flight flags | upload and enqueue, outbox dispatcher, control consumer, recovery, cleanup, `delete` | several replicas run the same timers; scans act on old reads; object store and database cannot commit together | a queued job is announced; no audio is deleted while a job needs it; no orphan object for ever |
| Transcription worker `transcription-service/src/coordinator.js`, `provider.js` | deliveries, current execution, residency slot | consume, claim, run windows, renew, yield, finish, acknowledge | acknowledgement against commit; lease lost while the engine runs; channel loss | a message is acknowledged only when its outcome is durable; engines stop when their lease does |
| Admission and residency `admission.js` | exclusive-consumer slots | acquire, hand off, release | connection loss frees a slot whose process is dying | one resident engine per slot |
| Object store of sources `speech-source-storage.ts`, `speech-upload.middleware.ts` | objects of the bucket | upload, exists, remove | no transaction with the database; answers lost, effects that come late | every object is on record; a job that runs has its source; what was abandoned goes |
| Fair scheduler `fair-scheduler.js` | queue per tenant, round-robin cursor | add, take | starvation | every waiting tenant is served |
| Inference process `inference-client.js`, `process-supervisor.js`, `inference-guardian.js` | pending requests, child process | request, abort, timeout, kill | answer racing a timeout or an abort; child death | each request settles once; no child outlives its supervisor |
| Call engine `voip/engine/call/*` | calls by id, state of each, winner among the devices | offer, start, accept, reject, end, waiting calls | an await in every operation: glare, late signaling, failure half way | the limit holds; media that are open can be ended; a waiting call is served; the first answer wins |
| Provider session migration `provider-session-migration.service.ts`, `instance.controller.ts` | provider of the record, two session snapshots, runtime objects, the lock of the instance | preflight, cutover, start, accept, roll back; the request for a QR code | failure and restart at any step; runtimes read before the lock | the provider of the record has a complete session; the answer is true; the lock is given back |
| Instance monitor `monitor.service.ts` | live instances | load, register, close, remove | removal racing reconnection | one runtime per instance |
| Operations agent `operations-agent/store.cjs` | a live file, an archive and a manifest per day; a chain of works | append, maintain, read | killed between any two file operations; midnight; readers beside the maintenance | what was acknowledged is kept; an archive is immutable |
| Channels (Meta Cloud, Find Hub), chatbots, event delivery | mostly database rows and external sessions | one message at a time | external protocols, retries | not modelled |
| Caches, diagnostics, user interface, deployment tools | none of interest | | | not modelled |

The speech pool is the part with the hardest protocol in the repository: a
database, a broker, several API replicas and several workers must agree on who
executes which job. The other four models are independent of it and of each
other; the uploads feed it with jobs.

How the parts of the speech pool interact:

```
 users ── createJob, cancel, retry ──► authority (SQL rows, outbox) ◄── recoverStaleJobs (timer)
                                          │ outbox rows        ▲
                         dispatchOutbox   │                    │ consumeControl
                         (every replica)  ▼                    │ (every replica)
                                       broker ── deliveries ─► coordinator ── control requests
                                          ▲                    │
                                          └ residency slot ────┤
                                                               ▼
                                                     inference process
```

## 2. Modules

| Module | Models | Abstracts |
|---|---|---|
| `SpeechDurable` | the authority alone, with clock, leases, attempts, checkpoints | the workers: any request that can exist may arrive at any time |
| `LeasePool` | what the authority promises: a pool of leases | jobs, requests, queues |
| `SpeechPool` | authority, outbox dispatchers, broker, control channel and workers together | time, attempts, checkpoints |
| `SpeechWorker` | coordinators around one residency slot, by the awaits of `handle` | what the authority answers |
| `SpeechUploads` | the audio of a job through reservation, object store and row: upload, commit, removal behind the fence, retry, cleanup | the execution of the job |
| `OperationalStore` | the event log of the operations agent, one action per file operation | the contents of the events |
| `ProviderMigration` | one instance: migrations, requests for a QR code, runtimes, lock, boot | the conversion of credentials |
| `CallManager` | the calls of one engine, one action per stretch between two awaits | media, relays, stanzas |
| `SpeechDurableProofs`, `SpeechDurableSafety` | theorems about `SpeechDurable` | |
| `SpeechPoolProofs`, `SpeechWorkerProofs`, `SpeechUploadsProofs`, `OperationalStoreProofs`, `ProviderMigrationProofs`, `CallManagerProofs` | theorems about the module each names | |
| `MC...` | values and symmetry sets of the runs | |

Each module opens the part the one before leaves to chance: `SpeechDurable`
accepts any request, `SpeechPool` sends only those workers send but takes the
worker for a machine of six states, and `SpeechWorker` takes it apart.
`SpeechUploads` is the part before `createJob` and after the end of a job.

Definitions whose comment says *Faulty variant* are no part of the
specifications. Each is a definition below it with a plausible bug, and shows
that a property fails with that bug.

### SpeechDurable

Each transaction of `SpeechDurableService` runs `Serializable` and first locks
the row of the pool (`speech-durable.service.ts:24-41`), so a transaction is
one action.

| State | In the code |
|---|---|
| `job[j]` | the row of `TranscriptionJob`: status, generation, attempts, executionId, workerId, leaseExpiresAt, deadlineAt, checkpoint.nextChunkIndex, text |
| `outbox` | rows of `SpeechOutbox`: job, generation, publishedAt |
| `now` | the clock; a unit stands for a few seconds |
| `issued`, `grants`, `running` | history: executions granted, the grants a late request may quote, and the executions in lease whose worker has not reported a stop |

`executionId` is a random UUID in the code; here it is the number of the grant
of its job, so two executions of one job differ as two UUIDs do. `text` is the
number of the last execution that wrote it. `deleted` and `absent` stand for a
job without a row.

A claim quotes any generation the job has had; every other request quotes any
grant ever made, so duplicates, reorderings and requests of dead workers are
all included. A request answered without a write is a stutter. A recovery acts
on a scan made at any earlier instant `t`.

A checkpoint carries an index. `validateCheckpoint`
(`speech-durable.service.ts:559-565`) would also take one without an index, or
one of the stored index with another text. The engine sends neither
(`provider.js:382` numbers each checkpoint one past the one it was granted), so
the model does not enumerate them, and `ProgressKept` holds of such engines.

An execution leaves `running` when its lease lapses. The code justifies it:
`armLease` (`coordinator.js:639-647`) stops the engine 3 s and the kill grace
before the lease in its last reply ends.

### LeasePool

The abstract specification: a pool of at most `Capacity` leases, granted to
holders that never had one, renewed, given back or lapsing. `SpeechDurable`
implements it with the leases read from the rows (`LeasesOfRows`).

### SpeechPool

| State | In the code |
|---|---|
| `row`, `outbox` | as in `SpeechDurable`, without numbers: a lease is held or lapsed, an outbox entry has `status` and `dispatchToken` |
| `dispatcher[d]` | where `dispatchOutbox` is in replica `d`: after the lock, before and after the publication |
| `queue`, `held[w]`, `dead` | messages ready, delivered without acknowledgement, dead-lettered |
| `worker[w]` | where `handle` is: waiting for a claim, computing, reporting, dying after a lost connection |
| `requests` | control requests on their way; `live` while their worker waits |
| `losses` | faults so far, bounded by `MaxLosses` |

A fault is a lost reply with redelivery of the request, an expired request, a
failed publication (whose message may have arrived), a replica that stops, a
replica so slow that its lock expires, or a lost connection of a worker. They
strike at every point. The time-outs they cause are free. A job may fail at
any moment, which stands for its deadline. The broker is external: messages
are unordered, one that is not acknowledged returns when its channel goes, and
goes to the dead letters after `DeliveryLimit` returns
(`queueArguments`, `coordinator.js:69-81`). Two things are left out: the
messages that `handle` finds invalid, which it dead-letters and acknowledges
without a claim (`coordinator.js:616-627`; the outbox publishes none), and what
the broker drops by age or for room (`x-message-ttl` of every queue, `drop-head`
of the dead letters). `AcknowledgedIsSettled` speaks of the messages of the model.

### SpeechWorker

A coordinator runs in one event loop, so an action is what happens between two
awaits.

| State | In the code |
|---|---|
| `slot` | owner of the exclusive queue `speech.residency.v2...` |
| `link[w]` | `this.connection` set (`up`), its socket alone open while the barrier works (`lingering`), or neither |
| `barrier[w]` | `lossBarrier`: unloading the engine, then closing the connection |
| `resident[w]`, `releasing[w]`, `requested[w]`, `cooldown[w]` | `residentLease`, `residencyReleaseTask`, `residencyRequestedAt`, `residencyCooldownUntil` |
| `engine[w]` | the native process; `unloading` after `provider.stop`, `resetting` after `provider.cancel` or a crash, when the client survives |
| `stage[w]`, `current[w]`, `aborted[w]` | the await of `handle`, whether its channel is still `this.channel`, and its abort signal |
| `backlog[w]` | deliveries in the scheduler |
| `late[w]` | history: the engine was started for a delivery whose channel had been lost before |

`mode`, chosen once among `Modes`, is `pool`, where the slot is taken at
connection and kept, or that of the separate `legacy` services, which compete
for it with work in hand. In both, the consumer channel may close alone
(`coordinator.js:355`): the socket then lingers until the barrier has unloaded
the engine, and the answer to a claim may still arrive. The
authority answers anything. A lease that runs out, a refused heartbeat and a
cancellation are one action, `Terminate`, possible in every stage with a
context. An engine that never dies (`PROCESS_TERMINATION_FAILED`) and the
shutdown of a worker are not modelled.

### SpeechUploads

| State | In the code |
|---|---|
| `pc[r]` | where the request is: middleware (`receive`), `enqueueStoredAudio` (`transfer`, `commit`, `redundant`, `undo`) |
| `resv[r]`, `named` | its row of `SpeechUploadReservation`, by what `expiresAt` allows (`old`: a minute after), and whether it has a `sourceKey` |
| `store`, `landing`, `doomed` | objects of the bucket; uploads that may still complete; removals that may still take effect |
| `job[r]` | the row: over or not, in lease or not, past its retention (`aged`), the fence of a deletion and its token, `sourceDeletedAt` |
| `looked` | retries between the look at the object store (`transcription.service.ts:573`) and the transaction |
| `rm[x]` | a cleanup or a deletion, between the fence, the removal, the mark and the row |
| `mishaps` | crashes and answers lost so far, bounded by `MaxMishaps` |

All requests carry the same audio, which is the case that shares a row; uploads
of different audios share only the count of reservations. The model takes from
the code that what an operation given up may still do in the object store
happens within the minute the cleanup leaves (`transcription.service.ts:1148`):
`ReservationAges` waits for it. Nothing else bounds such an effect, and the
properties need it. The job whose creation was committed without an answer
(`unsure`) is exempt from `SourceOfActiveJob`: `transcription.service.ts:527`
removes its source, the job fails and a retry answers 410.

### OperationalStore

`live`, `archive` and `manifest` are the files of each day, `queue` and `stage`
the promise chain of `serialize` and where its first work is, `reader` a query
of one day, which is not in the chain: `days` lists the archives (`ReadBegin`)
and then the live files (`ListLive`), and `rows` looks for the live file
(`ChooseFile`) before it reads one (`ReadFile`). Maintenance runs in between at
will. `found` says whether a listing had the day, `due` what was acknowledged
before the query, `got` what it read. A file is the number of its writes.
The process is killed between any two file operations; a write that was not
synchronised may then be lost. `acked[d]` is history: how long the file of the
day was when its last write was acknowledged.

### ProviderMigration

| State | In the code |
|---|---|
| `integration`, `snapshot` | the record of the instance and the sessions stored for each provider; they survive a restart |
| `registered`, `runtime`, `booting` | `waInstances[name]`, the service objects with their client, the one being loaded |
| `tail`, `req[q].waits` | the promise chain of `withAuthenticationLock` |
| `req[q]` | where the request is and what it read: runtime, source, whether to stay connected, the backup |
| `escaped` | history: a request acted on a runtime that had been replaced, or a client was closed while it was created |

A migration is `connecting` while it awaits `connectToWhatsapp` of the target
(`instance.controller.ts:774`) and `validating` while it polls for the
connection; only the poll has a limit. The update that names the target (777)
may commit and its answer be lost. A request is `hung` when a call it awaits
under the lock never settles (`Hang`). Restarts, rejected calls, lost answers and
drops of the connection share the bound `MaxMishaps`; to hang needs none.

### CallManager

A session is a record, `calls` the map, `tasks` the operations that wait at an
await. A call id is not a session: a call offered again gets another one, and
an operation of the earlier session deletes the map entry by id. A rejected
await counts against `MaxFaults`. The relay of a connecting call may connect at
any time.

`open` says that a session holds a codec or sockets. `cleanup` lets go of them,
but three operations open them without looking whether a cleanup has come in
between: `initMedia` after `MLowCodec.create` (`WaCallMediaSession.js:142`), the
accepted answer (933-934) and the acknowledgement of our offer (1063-1074, `Ack`
and `Acked`). `reopened` is history: this happened to the session. The transport
stanza (995-1002) finds its session in the map and opens sockets in the same
turn, in which no session of the map is cleaned, so it is no action of its own.
Two abstractions: `cleanup` and the `calls.delete` after it are one step,
although the deletion follows a microtask later where the two are in different
functions; and of two offers of one id that are decrypted at once, the second is
refused by `createSession`, as the session of the first has not ended. Where it
ended in between, the second is taken for a later offer.

## 3. What is checked

| Run | Question | Bounds | States |
|---|---|---|---|
| `two_jobs` | Can two jobs ever hold more engines than allowed, whatever is cancelled, lost or late? Do the rows implement `LeasePool`? | two jobs, one engine, lease 2, grace 0, deadline 4, time 5, two generations | 2.5 M |
| `one_job` | One grant per generation, outbox, result of the last execution, progress, final outcomes, termination, under every late request | one job, three generations, two attempts, a checkpoint, lease 2, grace 1, deadline 5, time 7 | 0.6 M |
| `pool_faults` | Can a queued job become unreachable, or an engine run that the authority does not know? | one job, two workers, two replicas, two generations, two faults | 4.0 M |
| `pool_contention` | Is anything acknowledged too early while two workers compete? | two jobs, two workers, one engine, two deliveries each, one fault | 0.7 M |
| `pool_recovery` | Does every job end without its deadline? | one job, two workers, two generations, one fault | 0.2 M |
| `slot` | One engine per slot, dead at a hand-off; does an aborted execution compute, does every delivery leave `handle`, does anyone starve? In both modes. | two coordinators, connections and channels lost at will | 0.3 M |
| `disconnect` | Does a lost connection always end the engine? It does not, see section 5. | as before, in a pool | |
| `uploads` | Is every object on record, has every active job its source, does everything abandoned go? | two uploads of one audio, one remover, two mishaps | 0.3 M |
| `days` | Is an acknowledged event kept, an archive immutable, a read complete, an ended day archived? | four days, two with events, two writes a day, a chain of two, one reader, one kill | 0.5 M |
| `handoff` | Has the record its session, is the answer true, is the lock given back, are there two clients? | two migrations and a request for a QR code, two mishaps, calls that hang | 1.0 M |
| `calls` | Does the limit hold, can open media be ended, is a waiting call served, does the first answer win? | two incoming and one outgoing call, two devices, limit 1, three sessions, two tasks, one rejected await | 2.1 M |
| `caller` | Does a call end with its caller? It does not, see section 5. | one call | |

Why these bounds are enough. Capacity is a count compared with a
limit; two jobs against a limit of one reach both sides of it. Three
generations let a request of the first execution meet the third. Two replicas
and two faults are needed for a publication to fail after its lock has passed
to another replica, and for a message to be copied and its delivery lost. The
deadlines of `SpeechDurable` lie before `MaxTime`, so that every run reaches
them. One fault at every point is what `pool_recovery` needs: the fairness
takes over after the last one. The third coordinator of a slot only waits like
the second. Two uploads are one that wins and one that is redundant; a second
remover was tried with symmetry and safety alone (1.3 M states) and changes
nothing. Of the four days of `OperationalStore` the first passes every age:
hot, archived, expired. Two migrations and a connection queue three deep at
the lock, and the second migration goes back to the first provider. In
`CallManager` three sessions let an offer replace one and another call wait.

Named bounds: `MaxTime`, `MaxGeneration`, `MaxChunk`, `MaxLosses`,
`MaxMishaps`, `MaxStops`, `LastDay`, `Runtimes`, `MaxSessions`, `MaxTasks`,
`MaxFaults`. The jobs of
`SpeechPool` stop yielding at `MaxGeneration`, so `JobsSettle` speaks of
executions that do not yield for ever.

Deadlock is not checked: time, generations and faults are bounded, so the
models of the authority and of the pool may stop, and a coordinator, a lock or a call
engine without work waits. `days` does check it.

Fairness:

- `SpeechDurable`: `recoverStaleJobs` runs every 15 s in every replica
  (`transcription.service.ts:1020-1024`) and time passes. Workers, users and
  broker owe nothing, so `EveryJobEnds` says that the authority alone closes
  every job.
- `SpeechPool`: the timers of dispatcher (1 s), recovery (15 s) and
  reconnection (5 s) fire again and again, requests are consumed or time out
  (10 s), engines end by their deadline per window. Users owe nothing, and no
  deadline of a job helps.
- `SpeechWorker`: the event loop goes on; every request has a timeout, every
  engine dies when it is killed, and `acquire` is tried again. Strong fairness
  is assumed twice: of `EndCooldown`, because the cool-down is a time span that
  ends whatever happens meanwhile, and of `Hint`, because the hint is repeated
  in each round of `acquire`, of at most 5 s, while the owner holds the slot
  again and again. `RESIDENCY_HANDOFF_MS` (6 s) exceeds that round, which is
  why a cool-down ends only after whoever waits has tried.
- `SpeechUploads`: every await of a request has a time limit, time passes, and
  the cleanup runs every minute (`transcription.service.ts:1211-1222`). It is
  strong for each source and reservation, because a remover works through its
  list one at a time and so is not always ready. Nothing makes users or workers
  act, and the mishaps are bounded.
- `OperationalStore`: the chain runs, the container restarts the agent, and the
  timer fires every minute (`server.cjs:141`); strong, because a full chain
  refuses the work.
- `ProviderMigration`: a request goes on or hangs. That a call it awaits settles
  is not assumed, because the code gives it no limit: `connectToWhatsapp` asks
  WhatsApp for its version without one (`whatsapp.baileys.service.ts:667`)
  before the sixty seconds of `waitForProviderMigrationConnection` start, and
  Zapo's store opens a pool without one
  (`provider-session-migration.service.ts:287`). Only the two polls end by a
  clock. `RequestsEnd` says that every request ends unless one of them hangs.
  Connections need not open.
- `CallManager`: safety only. Nothing in the code bounds how long a call rings.

## 4. What is proved

Every invariant and every action property of the runs that pass is proved, for
every value of the constants: any number of jobs, workers, replicas, uploads,
days, requests and calls. Each invariant of a run is model-checked first; the
inductive ones were too, before they were proved.

`SpeechDurableProofs` and `SpeechDurableSafety` prove, from
`ConstantsAssumption` alone (finitely many jobs, `NoWorker` no
worker, positive limits, and an outbox retention no shorter than the deadline
of a job):

| Theorem | Property |
|---|---|
| `TypeCorrect` | `TypeOK`, which includes that no job is attempted more often than `SPEECH_MAX_ATTEMPTS` |
| `CapacityRespected` | `EnginesWithinCapacity` |
| `EnginesRemembered` | `NoEngineForgotten` |
| `GrantedOnce` | `OneGrantPerGeneration` |
| `QueuedIsAnnounced` | `QueuedIsInOutbox` |
| `QuotaRespected` | `PendingWithinQuota` |
| `LastExecutionDecides` | `ResultOfLastExecution` |
| `PoolImplemented` | `ImplementsLeasePool` |
| `OutcomeKept` | `OutcomeIsFinal` |
| `ProgressIsKept` | `ProgressKept` |

None of the properties is inductive. The invariant `IInv` that carries them is

    TypeOK /\ RowsConsistent /\ GrantsConsistent /\ OneGrantPerGeneration
           /\ EnginesConsistent /\ HoldingWithinCapacity /\ OutboxConsistent
           /\ QueuedIsInOutbox /\ PendingWithinQuota

`RowsConsistent` says what the fields of a row imply of each other (a
processing row has an execution, a queued one none; a result is that of the
last execution). `GrantsConsistent` ties the history of grants to the
generations of the rows, which is what makes a second grant of one generation
impossible. `EnginesConsistent` says that every engine that may run is the
execution in the row of its job, with its lease in force;
`HoldingWithinCapacity` counts those leases, and capacity follows by a
surjection from the leases onto the engines. `OutboxConsistent` says when the
row of a generation may be purged, and needs the assumption on the retention.

The proof of a step does not visit each handler for each conjunct. `StepKinds`
shows that every action is, for the row it touches, one of a few kinds
(created, granted, renewed, ended, requeued, ...), and each conjunct is then
shown for the kinds.

The same kinds carry the refinement. `LeasesAfter` says that a step changes at
most the lease of its own row; a claim is then an `Acquire`, a renewal a
`Renew`, a stop or a return to the queue a `GiveBack` or, when the lease had
lapsed before, a stutter, and the clock a `Tick`. That a claim takes a holder
of `LeasePool` that never had a lease needs one more invariant, `Numbered`:
the executions of a job never outnumber its generations.

`OperationalStoreProofs` proves from `StoreAssumption` (the retention exceeds
the hot days, limits are natural numbers):

| Theorem | Property |
|---|---|
| `TypesCorrect` | `TypeOK` |
| `AcknowledgedKept` | `NothingLost` |
| `ArchiveKept` | `ArchiveImmutable` |
| `ReadsKept` | `ReadsComplete`, with its exception of a day in neither listing |

The invariant adds to the types what each stage of the running work implies of
the files of its day: a day that is packed has no manifest, one that is renamed
has an archive of the length of its live file, one that expires has no live
file. `ArchiveImmutable` follows for each step from the invariant before it.
`ReadsComplete` needs `ReaderConsistent`: a reader that lists or chose the live
file is owed no more than is acknowledged, one that chose the archive has a verified archive that long, and one that
found its day nowhere missed an archive published after the first listing, which
holds all it is owed. All of them rest on one fact shown for every step, that before the
retention an acknowledgement is never forgotten and a verified archive keeps its
manifest, so that a file that goes away under a reader is an error, never a gap.

`SpeechUploadsProofs` proves from `UploadsAssumption` (natural bounds,
and a mark for nobody that is no remover):

| Theorem | Property |
|---|---|
| `TypesCorrect` | `TypeOK` |
| `NoOrphan` | `ObjectsOnRecord` |
| `ActiveHasSource` | `SourceOfActiveJob` |

The two properties depend on each other. Whether a removal may go ahead
depends on what a request or a remover saw before its last await, so `IInv` has
one part per actor: `RequestConsistent` (what the stage of a request tells of
its object), `RowConsistent` (a job that is active or in lease has no fence; a
source leaves only behind one) and `RemoverConsistent` (the object a remover
works on is named by no request in progress). The fence of a deletion is what
makes them inductive: without it a retry between the look of the cleanup and
its removal leaves an active job with no source.

`CallManagerProofs` proves from `CallAssumption` (finitely
many devices, some call id, a limit of at least one):

| Theorem | Property |
|---|---|
| `TypesCorrect` | `TypeOK` |
| `LimitHolds` | `WithinCapacity` |
| `MediaCanBeEnded` | `OpenIsRegistered` |
| `RoomIsOffered` | `WaitingIsServed` |
| `FirstWins` | `FirstAnswerWins` |

The invariant adds what an operation at an await still knows of its session
(`TaskConsistent`), that only one acceptance and one end of a session are in
flight (`OneOfAKind`), and that the map holds the last session of each call
(`LatestInMap`). `calls.delete` goes by the id of the call, so an operation may
delete the entry of a later session; `LatestInMap` is what shows that what an
end loses that way is the later session of an id offered again. `MediaCanBeEnded`
rests on three more parts, which speak of the media a session holds and never had
reopened (`Holds`): a session off the map that holds any has its rejection in
flight or an earlier session of its id (`OffMap`), and a session that ended
holds none unless its rejection is in flight (`EndedIsClosed`). `Opening` and
`OpenedKeeps` show that an operation which opens media late makes the session a
reopened one, and so breaks neither. The steps are proved through three
lemmas: `OneKeeps` for the operations that change one session, `CreateKeeps` for
those that make one, `SettleKeeps` for those that end one and look for a waiting
call.

`SpeechPoolProofs` proves from `PoolAssumption` (positive limits, finitely many
replicas of the API, and a mark for nobody that is neither worker nor replica):

| Theorem | Property |
|---|---|
| `TypesCorrect` | `TypeOK` |
| `NothingIsForgotten` | `QueuedIsReachable` |
| `ComputingIsCovered` | `EngineHoldsLease` |
| `ComputingWithinCapacity` | no more engines compute over all the workers than `SPEECH_GLOBAL_CONCURRENCY` |
| `NoEarlyAcknowledgement` | `AcknowledgedIsSettled` |

The invariant has a part for each actor. What matters of a generation is whether
it was announced (`Issued`) and whether it can still be claimed (`Past`), and no
step takes either back.

- `EntryConsistent`, `DispatcherConsistent`: nothing is under way for a
  generation that was not announced; a replica that goes to mark an entry
  published has a copy in the broker, or its generation is past.
- `WorkerConsistent`: a worker with a grant in hand is the owner of record or the
  job went on to a later generation; one that computes is the owner and its lease
  is held; one that was answered *settled* has a message that is past.
- `RequestConsistent`: a request for an outcome names a generation whose engine
  has stopped, and a worker has one request it waits for. This is what a reply
  that is lost, a request consumed twice or after its worker gave up, could break.
- `CopiesCounted`: the copies of a message, the replicas that may still add one
  and the entry that waits for one are at most one more than the faults. A copy is
  told from another by a number up to `MaxLosses + 1`, so this shows that the
  bound of the model is never in the way of a publication: a fresh number is there
  for each (`FreshCopy`).

The steps are proved through four lemmas: `BrokerMoves` (broker and workers),
`DispatchMoves` (one replica at one entry), `AuthorityMoves` (one row), and
`OnlyWorker` (one worker). The row of a job does one of two things, `Renewed` or
`Moved`; `LeaseRespected` says when that takes no lease from an engine that
computes. `AcknowledgedIsSettled` follows for each step, because a copy leaves only
when `Acknowledge` finds its generation past. The capacity counts the rows in
lease, and the workers that compute are mapped into them one to one.

`SpeechWorkerProofs` proves from `WorkerAssumption`:

| Theorem | Property |
|---|---|
| `TypesCorrect` | `TypeOK` |
| `AbortedStops` | `AbortedNeverComputes` |
| `EngineIsOfOwner` | `EngineOfOwner` |
| `OnlyLateEnginesStay` | `DisconnectStopsEngine` fails only for an engine started late |

The invariant ties, per coordinator, the stage of `handle` to the delivery it
works on (`DeliveryConsistent`), the barrier of a lost connection to its socket
(`LinkConsistent`) and the engine to the ownership of the slot
(`EngineConsistent`). There is no hypothesis on how channels are lost. What the
finding `disconnect` breaks is named instead: `late` marks an engine that was
started for a delivery whose channel was lost, in either mode, and the two
theorems on engines say that everything else is as the comment of
`onConnectionLost` claims.

`ProviderMigrationProofs` proves from `MigrationAssumption`:

| Theorem | Property |
|---|---|
| `RequestsTakeTurns` | `TypeOK`, which includes that at most one request is past the queue of the lock and not finished |
| `SessionKept` | `SessionOfRecord` |
| `TruthfulAnswers` | `AnswersAreTrue` |
| `OneClientAtATime` | `OneClientUnlessEscaped` |

The lock of `withAuthenticationLock` is a chain of promises: each request waits for the one
before. The invariant says that there is an enumeration of the requests in which
each waits for an earlier one (`LockInOrder`), whence at most one is past its
wait. `MigrationConsistent` says, for each stage of a migration, which of record,
registry and sessions it has changed already (a request that hangs keeps what it
had), and `ClientsConsistent` which
runtime a connected client belongs to.

Only model-checked: every liveness property (`EveryJobEnds`, `JobsSettle`,
`HandleEnds`, `SlotIsHandedOver`, `EndedDayArchived`, `RequestsEnd`,
`LedgerSettles`, `SourcesGo`), because TLAPS does not prove `ENABLED` or fairness.
They hold for the bounds of section 3.

## 5. Findings

`disconnect`: a comment of `onConnectionLost` (`coordinator.js:420`) says
"Disconnect must stop computation before a replacement lease can be used", and
`docs/guides/speech.md:19` that only the owner of the slot keeps an engine
resident. The run shows a pool coordinator whose consumer channel closes while
`handle` waits for the answer to its claim (`coordinator.js:658`). The barrier
unloads the engine and closes the connection; there is no context to abort yet.
The answer still arrives on the control channel, and `handle`, which looks at its
channel only before the claim, downloads the audio and calls `loadProvider`. That
looks only at `this.stopping`, creates a client and starts a process. The
coordinator has no slot, its barrier is through, and another coordinator may
load its own engine. A lost connection leads to the same state when `handle`
waits in `loadProvider` for an idle unload (`coordinator.js:283`), which the
barrier awaits too: both go on, and the abort of the context is looked at only
when the model is loaded. Coordinators in the legacy mode are exposed in the same
way. The timer of the lease stops the process at the latest, so that the
authority's capacity (`EngineHoldsLease` of `SpeechPool`) is not exceeded, but
two engines are resident until then. `OnlyLateEnginesStay` shows that this is
the only way.

`caller`: `docs/operations/zapo-multidevice-calls.md:109` asks that, when A ends
the call while B rings, "inclusive imediatamente após iniciar", no session stays
active in B. `handleCallOffer` puts the call in the map only when the key of the
offer is decrypted (`WaCallManager.js:147`); a terminate that comes before finds
no session and is ignored (`WaCallManager.js:370-373`). The session created
afterwards rings with nobody to end it, for there is no timer on ringing, and
holds its place under the limit.

Others were met, which no run reports. Where one of them would break a property,
the property names it as its exception:

- Two clients of one account are possible when a request waited for the lock
  with a runtime that a migration then replaced (`instance.controller.ts:696`).
  `OneClientUnlessEscaped` shows that this and a client closed while it is
  created are the only ways.
- A query misses a day that is archived and removed between the two listings of
  `days` (`store.cjs:198-212`), which happens to a day older than `hotDays` whose
  archive is late. It answers without the day instead of failing, although
  `docs/operations/deploy-and-statistics.md` says "Limite atingido ou corrupção
  causa erro explícito, nunca totais parciais apresentados como completos." With
  the live files listed before the archives `ReadsComplete` would hold without
  its exception.
- A migration or a request for a QR code whose call never settles keeps the lock
  of its instance until the process restarts (see the fairness of
  `ProviderMigration`).
- Media opened again after cleanup stay open. For an outgoing call: a device
  answers, or the server acknowledges the offer, the sending of the offer then
  fails, `startCall` cleans and forgets the session without ending it
  (`WaCallManager.js:64-67`), and the operation in flight connects the relays
  (`WaCallMediaSession.js:934`, 1074). `OpenIsRegistered` exempts `reopened`.
- An agent killed between the two removals of `store.cjs:188` finds a manifest
  without its archive, and every later maintenance throws there, after it has
  archived the ended days: no retention is applied to the archives listed after
  that one. The failure is reported (`failing`).
- After the source of a failed job is gone, a retry asks for a new upload
  (`transcription.service.ts:575`), but `findDuplicate` answers that upload with
  the failed job until it is deleted.

## 6. Not modelled

- Of the uploads: the quotas by scope, bytes and duration, and `reassign`. They
  are sums computed in one serializable transaction; `SpeechDurable` has the
  quota on pending jobs.
- The fair scheduler: 34 sequential lines. `SpeechWorker` abstracts its order.
- Inference client, guardian and process group beyond what `SpeechWorker` says
  of `engine`; the shutdown of a coordinator; an engine that does not die.
- Of the calls: mute, hold, groups, keep-alive, and everything of the media and
  transport below the state of a session. `CallManager` takes parsed signaling.
- Of the providers: messages, groups and media, which adapt external libraries;
  creation and removal of instances; `restartInstance`
  (`instance.controller.ts:648-693`), which closes and creates clients without
  the lock; the conversion of credentials.
- Find Hub, chatbots, Meta Cloud, event delivery: adapters of external
  protocols with rows of their own. They would be the next to read, Find Hub
  first, for its runtime keeps sessions with retries.
- Audio conversion, model download, user interfaces, deployment tools, caches,
  diagnostics: pure input and output, or no protocol of their own.

The reasons are repeated per component in `PROJECT.json`. The map covers a
small share of the repository, since most of it is adapters, user interface and
tools; the models cover the parts in which several actors share state.

Next: the supervision of the inference process, and that `SpeechPool`, with its
workers and replicas, implements the authority of `SpeechDurable` without its clock.
