---------------------------- MODULE SpeechWorker ----------------------------
(***************************************************************************)
(* The coordinators of the transcription workers around one residency      *)
(* slot: the exclusive queue of the broker that says who may keep a native *)
(* engine resident.  A coordinator is a single event loop, so a step of    *)
(* this module is what happens between two awaits: connecting and losing   *)
(* the connection, the stages of handle, loading and stopping the engine,  *)
(* and handing the slot to another coordinator that asks for it.           *)
(*                                                                         *)
(* The authority answers anything here; SpeechPool and SpeechDurable say   *)
(* what it answers.  In mode "pool" a coordinator takes the slot when it   *)
(* connects and keeps it; in mode "legacy" it competes for the slot when   *)
(* it has work and gives it back.                                          *)
(***************************************************************************)
EXTENDS Integers

CONSTANTS
  Workers,          \* the coordinators
  Nobody,           \* the exclusive queue is not declared
  Modes,            \* the modes they may all be configured for
  PoolPrefetch      \* unacknowledged deliveries of a coordinator of a pool

ASSUME WorkerAssumption ==
  /\ Nobody \notin Workers
  /\ Modes \subseteq {"pool", "legacy"}
  /\ PoolPrefetch \in Nat \ {0}

VARIABLES
  mode,       \* SPEECH_WORKER_MODE of them all: "pool" or "legacy"
  slot,       \* the owner of the exclusive queue, as the broker sees it
  link,       \* the connection: this.connection set, or its socket alone
  barrier,    \* lossBarrier
  resident,   \* residentLease is set
  engine,     \* the native process
  stage,      \* where handle is
  current,    \* the delivery in handle came on this.channel
  aborted,    \* context.abort of handle
  backlog,    \* deliveries in the scheduler
  releasing,  \* residencyReleaseTask
  requested,  \* residencyRequestedAt: another coordinator asked for the slot
  cooldown,   \* residencyCooldownUntil lies ahead
  late        \* history: the engine was started for a delivery whose channel
              \* had been lost before

vars == <<mode, slot, link, barrier, resident, engine, stage, current, aborted,
          backlog, releasing, requested, cooldown, late>>

connection == <<mode, link, barrier>>
delivery   == <<stage, current, aborted, backlog>>
residency  == <<slot, resident, releasing, requested, cooldown>>
process    == <<engine, late>>

Prefetch == IF mode = "pool" THEN PoolPrefetch ELSE 1

\* The stages of handle in which it has a context to abort.
Waiting == {"residency"}
Active  == {"downloading", "loading", "recovering", "warming", "computing",
            "reporting", "failing"}
Stages  == {"idle", "claiming"} \cup Waiting \cup Active

Init ==
  /\ mode \in Modes
  /\ slot = Nobody
  /\ link = [w \in Workers |-> "down"]
  /\ barrier = [w \in Workers |-> "none"]
  /\ resident = [w \in Workers |-> FALSE]
  /\ engine = [w \in Workers |-> "none"]
  /\ stage = [w \in Workers |-> "idle"]
  /\ current = [w \in Workers |-> FALSE]
  /\ aborted = [w \in Workers |-> FALSE]
  /\ backlog = [w \in Workers |-> 0]
  /\ releasing = [w \in Workers |-> "none"]
  /\ requested = [w \in Workers |-> FALSE]
  /\ cooldown = [w \in Workers |-> FALSE]
  /\ late = [w \in Workers |-> FALSE]

Goto(w, s) == stage' = [stage EXCEPT ![w] = s]

Running == {"loading", "ready", "computing"}

\* A native process is started.
Start(w) ==
  /\ engine' = [engine EXCEPT ![w] = "loading"]
  /\ late' = [late EXCEPT ![w] = ~current[w]]

\* What a process that is loaded does.
Compute(w) == engine' = [engine EXCEPT ![w] = "computing"] /\ UNCHANGED late
Idle(w)    == engine' = [engine EXCEPT ![w] = "ready"] /\ UNCHANGED late

\* unloadProvider: the client is dropped with its process, dying or not.
Unload(w) ==
  /\ engine' = [engine EXCEPT ![w] = IF @ = "none" THEN "none" ELSE "unloading"]
  /\ UNCHANGED late

\* InferenceClient.reset: the process goes, the client stays for the next one.
Reset(w) ==
  /\ engine' = [engine EXCEPT ![w] = IF @ \in Running THEN "resetting" ELSE @]
  /\ UNCHANGED late
-----------------------------------------------------------------------------
(* The connection. *)

\* Faulty variant: no wait for the lossBarrier.
ConnectAtOnce(w) ==
  /\ link[w] = "down"
  /\ link' = [link EXCEPT ![w] = "up"]
  /\ requested' = [requested EXCEPT ![w] = FALSE]
  /\ UNCHANGED <<mode, slot, barrier, resident, process, delivery, releasing, cooldown>>

\* connect: only behind the lossBarrier of the connection before.
Connect(w) ==
  /\ link[w] = "down" /\ barrier[w] = "none"
  /\ link' = [link EXCEPT ![w] = "up"]
  /\ requested' = [requested EXCEPT ![w] = FALSE]
  /\ UNCHANGED <<mode, slot, barrier, resident, process, delivery, releasing, cooldown>>

\* onConnectionLost, with the socket open or gone: the references and the
\* scheduler go, the context of handle is aborted if there is one, and the
\* barrier first unloads the engine, then closes what is left of the socket.
Lost(w, socket) ==
  /\ link' = [link EXCEPT ![w] = socket]
  /\ barrier' = [barrier EXCEPT ![w] = IF engine[w] # "none" THEN "stopping"
                                       ELSE IF socket = "down" THEN "none"
                                       ELSE "closing"]
  /\ Unload(w)
  /\ resident' = [resident EXCEPT ![w] = FALSE]
  /\ slot' = IF socket = "down" /\ slot = w THEN Nobody ELSE slot
  /\ backlog' = [backlog EXCEPT ![w] = 0]
  /\ current' = [current EXCEPT ![w] = FALSE]
  /\ aborted' = [aborted EXCEPT ![w] = @ \/ stage[w] \in Active \cup Waiting]
  /\ UNCHANGED <<mode, releasing, requested, cooldown>>

\* The broker or the network drops the connection.
Drop(w) ==
  /\ link[w] = "up"
  /\ Lost(w, "down")
  /\ UNCHANGED stage

\* The broker closes the consumer channel alone; the control channel stays.
CloseChannel(w) ==
  /\ link[w] = "up"
  /\ Lost(w, "lingering")
  /\ UNCHANGED stage

CloseSocket(w) ==
  /\ barrier[w] = "closing"
  /\ barrier' = [barrier EXCEPT ![w] = "none"]
  /\ link' = [link EXCEPT ![w] = "down"]
  /\ slot' = IF slot = w THEN Nobody ELSE slot
  /\ UNCHANGED <<mode, resident, process, delivery, releasing, requested, cooldown>>
-----------------------------------------------------------------------------
(* The engine. *)

\* The group of processes is gone; the barrier may go on.
EngineStopped(w) ==
  /\ engine[w] \in {"unloading", "resetting"}
  /\ engine' = [engine EXCEPT ![w] = "none"]
  /\ late' = [late EXCEPT ![w] = FALSE]
  /\ barrier' = [barrier EXCEPT ![w] =
                   IF barrier[w] # "stopping" THEN barrier[w]
                   ELSE IF link[w] = "lingering" THEN "closing" ELSE "none"]
  /\ UNCHANGED <<mode, link, delivery, residency>>

\* Crash, stall or deadline of a chunk: reset stops what is left of it.
EngineFails(w) ==
  /\ engine[w] \in Running
  /\ Reset(w)
  /\ UNCHANGED <<connection, delivery, residency>>

\* The idle timer of a pool coordinator: the engine goes, the slot stays.
UnloadIdle(w) ==
  /\ mode = "pool"
  /\ engine[w] = "ready" /\ stage[w] = "idle" /\ backlog[w] = 0
  /\ Unload(w)
  /\ UNCHANGED <<connection, delivery, residency>>
-----------------------------------------------------------------------------
(* The residency slot. *)

\* ensureResidency: in connect in mode "pool", in handle in mode "legacy".
Acquire(w) ==
  /\ link[w] = "up" /\ ~resident[w] /\ releasing[w] = "none" /\ ~cooldown[w]
  /\ mode = "legacy" => stage[w] = "residency" /\ current[w]
  /\ slot = Nobody
  /\ slot' = w
  /\ resident' = [resident EXCEPT ![w] = TRUE]
  /\ UNCHANGED <<connection, process, delivery, releasing, requested, cooldown>>

\* requestResidency and handleResidencyRequest: a hint each round of waiting.
Hint(w, owner) ==
  /\ mode = "legacy"
  /\ stage[w] = "residency" /\ current[w] /\ ~resident[w]
  /\ link[owner] = "up"
  /\ resident[owner] \/ releasing[owner] # "none"
  /\ requested' = [requested EXCEPT ![owner] = TRUE]
  /\ UNCHANGED <<connection, process, delivery, slot, resident, releasing, cooldown>>

StartRelease(w) ==
  /\ Unload(w)
  /\ releasing' = [releasing EXCEPT ![w] = "unloading"]
  /\ UNCHANGED resident

\* releaseResidency, on a request once the delivery in hand is through, or
\* when the idle timer of a legacy coordinator fires.
ReleaseResidency(w) ==
  /\ mode = "legacy"
  /\ resident[w] /\ releasing[w] = "none" /\ stage[w] = "idle"
  /\ requested[w] \/ backlog[w] = 0
  /\ StartRelease(w)
  /\ UNCHANGED <<connection, delivery, slot, requested, cooldown>>

\* The engine is unloaded: the slot follows, unless its connection was lost.
ReleaseSlot(w) ==
  /\ releasing[w] = "unloading" /\ engine[w] = "none"
  /\ releasing' = [releasing EXCEPT ![w] = IF resident[w] THEN "deleting" ELSE "none"]
  /\ resident' = [resident EXCEPT ![w] = FALSE]
  /\ UNCHANGED <<connection, process, delivery, slot, requested, cooldown>>

\* Faulty variant: the owner competes again at once.
CooldownAfterNone(w) == FALSE

CooldownAfter(w) == requested[w]

\* deleteQueue.  After a request the owner leaves the others time for a try.
DeleteSlot(w) ==
  /\ releasing[w] = "deleting"
  /\ slot' = IF slot = w THEN Nobody ELSE slot
  /\ releasing' = [releasing EXCEPT ![w] = "none"]
  /\ cooldown' = [cooldown EXCEPT ![w] = CooldownAfter(w)]
  /\ requested' = [requested EXCEPT ![w] = FALSE]
  /\ UNCHANGED <<connection, process, delivery, resident>>

\* RESIDENCY_HANDOFF_MS is longer than the longest wait between two tries of
\* acquire: whoever waits has tried before the cooldown ends.
EndCooldown(w) ==
  /\ cooldown[w]
  /\ slot # Nobody \/ \A o \in Workers \ {w} :
                       ~(stage[o] = "residency" /\ current[o] /\ ~cooldown[o])
  /\ cooldown' = [cooldown EXCEPT ![w] = FALSE]
  /\ UNCHANGED <<connection, process, delivery, slot, resident, releasing, requested>>
-----------------------------------------------------------------------------
(* handle: one delivery at a time. *)

Consuming(w) == link[w] = "up" /\ (mode = "pool" => resident[w])

Deliver(w) ==
  /\ Consuming(w)
  /\ backlog[w] + (IF stage[w] # "idle" /\ current[w] THEN 1 ELSE 0) < Prefetch
  /\ backlog' = [backlog EXCEPT ![w] = @ + 1]
  /\ UNCHANGED <<connection, process, residency, stage, current, aborted>>

\* The pump takes the next delivery, unless the slot has to be handed over.
Take(w) ==
  /\ stage[w] = "idle" /\ backlog[w] > 0
  /\ releasing[w] = "none" /\ ~(resident[w] /\ requested[w])
  /\ backlog' = [backlog EXCEPT ![w] = @ - 1]
  /\ Goto(w, "residency")
  /\ current' = [current EXCEPT ![w] = TRUE]
  /\ aborted' = [aborted EXCEPT ![w] = FALSE]
  /\ UNCHANGED <<connection, process, residency>>

Claim(w) ==
  /\ stage[w] = "residency" /\ current[w] /\ resident[w]
  /\ Goto(w, "claiming")
  /\ UNCHANGED <<connection, process, residency, current, aborted, backlog>>

\* The delivery is through: acknowledged, or left to the broker.
End(w) ==
  /\ Goto(w, "idle")
  /\ UNCHANGED <<connection, process, residency, current, aborted, backlog>>

\* It waits in the scheduler and is taken again.
Defer(w) ==
  /\ Goto(w, "idle")
  /\ backlog' = [backlog EXCEPT ![w] = @ + 1]
  /\ UNCHANGED <<connection, process, residency, current, aborted>>

\* A wait for the slot ends with its connection, or when the job is rechecked
\* meanwhile (recheckWaitingJob), which runs no engine.
EndWait(w) ==
  /\ stage[w] = "residency"
  /\ \/ ~current[w] /\ End(w)
     \/ current[w] /\ ~resident[w] /\ mode = "legacy" /\ (End(w) \/ Defer(w))

\* A reply needs the control channel of the request: open with the connection,
\* and still open while the barrier stops the engine of a lost channel.
ReplyMayArrive(w) ==
  current[w] \/ (link[w] = "lingering" /\ barrier[w] = "stopping")

\* The code does not look at the channel again when the claim is granted.
ClaimGranted(w) ==
  /\ stage[w] = "claiming" /\ ReplyMayArrive(w)
  /\ Goto(w, "downloading")
  /\ UNCHANGED <<connection, process, residency, current, aborted, backlog>>

\* Faulty variant: deferred whatever has become of its channel.
ClaimRefusedStale(w) ==
  /\ stage[w] = "claiming"
  /\ End(w) \/ Defer(w)

ClaimRefused(w) ==
  /\ stage[w] = "claiming" /\ current[w]
  /\ End(w) \/ Defer(w)

\* CONTROL_TIMEOUT and the like: handle gives the connection up itself.
GiveUpLink(w) ==
  /\ Lost(w, "lingering")
  /\ Goto(w, "idle")

ClaimFails(w) ==
  /\ stage[w] = "claiming"
  /\ IF current[w] THEN GiveUpLink(w) ELSE End(w)

\* loadProvider, in the same step unless something has to die first: an unload
\* in progress, or the reset of the process this client had.
Downloaded(w) ==
  /\ stage[w] = "downloading"
  /\ IF aborted[w] THEN Goto(w, "failing") /\ UNCHANGED process
     ELSE CASE engine[w] = "none" ->
                 Goto(w, "warming") /\ Start(w)
            [] engine[w] = "ready" ->
                 Goto(w, "computing") /\ Compute(w)
            [] engine[w] = "unloading" -> Goto(w, "loading") /\ UNCHANGED process
            [] OTHER -> Goto(w, "recovering") /\ UNCHANGED process
  /\ UNCHANGED <<connection, residency, current, aborted, backlog>>

\* A job of another engine or model, or past its deadline, and any failure of
\* the download.
DownloadFails(w) ==
  /\ stage[w] = "downloading"
  /\ Goto(w, "failing")
  /\ UNCHANGED <<connection, process, residency, current, aborted, backlog>>

\* Behind the unload a process is started without another look at the
\* connection or at the abort.
LoadEngine(w) ==
  /\ stage[w] = "loading" /\ engine[w] = "none"
  /\ Start(w) /\ Goto(w, "warming")
  /\ UNCHANGED <<connection, residency, current, aborted, backlog>>

\* Behind the reset warmup starts another process, unless the loss of the
\* connection has stopped the client meanwhile.
Recovered(w) ==
  /\ stage[w] = "recovering" /\ engine[w] = "none"
  /\ IF current[w]
       THEN Goto(w, "warming") /\ Start(w)
       ELSE Goto(w, "failing") /\ UNCHANGED process
  /\ UNCHANGED <<connection, residency, current, aborted, backlog>>

\* Faulty variant: no look at the abort once the model is loaded.
EngineReadyAlways(w) ==
  /\ stage[w] = "warming" /\ engine[w] = "loading"
  /\ Goto(w, "computing") /\ Compute(w)
  /\ UNCHANGED <<connection, residency, current, aborted, backlog>>

EngineReady(w) ==
  /\ stage[w] = "warming" /\ engine[w] = "loading"
  /\ IF aborted[w]
       THEN Goto(w, "failing") /\ Idle(w)
       ELSE Goto(w, "computing") /\ Compute(w)
  /\ UNCHANGED <<connection, residency, current, aborted, backlog>>

Computed(w) ==
  /\ stage[w] = "computing" /\ engine[w] = "computing"
  /\ Idle(w)
  /\ Goto(w, IF aborted[w] THEN "failing" ELSE "reporting")
  /\ UNCHANGED <<connection, residency, current, aborted, backlog>>

\* Faulty variant: reset leaves a pending startup unsettled.
EngineGoneComputing(w) ==
  /\ stage[w] = "computing" /\ engine[w] = "none"
  /\ Goto(w, "failing")
  /\ UNCHANGED <<connection, process, residency, current, aborted, backlog>>

\* The process has gone under handle, which hears of it once it is dead.
EngineGone(w) ==
  /\ stage[w] \in {"warming", "computing"} /\ engine[w] = "none"
  /\ Goto(w, "failing")
  /\ UNCHANGED <<connection, process, residency, current, aborted, backlog>>

\* terminateForControl: the heartbeat is refused or not answered, the lease
\* timer fires, or the user cancels.
Terminate(w) ==
  /\ stage[w] \in Active
  /\ aborted' = [aborted EXCEPT ![w] = TRUE]
  /\ Reset(w)
  /\ UNCHANGED <<connection, residency, stage, current, backlog>>

\* The catch of handle stops an engine whose work is aborted and waits for its
\* death, unless its client was dropped.
StopAborted(w) ==
  /\ stage[w] = "failing" /\ aborted[w]
  /\ engine[w] \in Running
  /\ Reset(w)
  /\ UNCHANGED <<connection, delivery, residency>>

\* finish or release, then the acknowledgement on the channel it came on; a
\* failure of control gives the connection up.
Report(w) ==
  /\ \/ stage[w] = "reporting"
     \/ stage[w] = "failing" /\ (aborted[w] => engine[w] \in {"none", "unloading"})
  /\ IF current[w] THEN End(w) \/ GiveUpLink(w) ELSE End(w)
-----------------------------------------------------------------------------
Broker(w) == Connect(w) \/ Drop(w) \/ CloseChannel(w) \/ CloseSocket(w)

Engine(w) == EngineStopped(w) \/ EngineFails(w) \/ UnloadIdle(w)

Slot(w) ==
  \/ Acquire(w) \/ (\E o \in Workers \ {w} : Hint(w, o))
  \/ ReleaseResidency(w) \/ ReleaseSlot(w) \/ DeleteSlot(w) \/ EndCooldown(w)

Handle(w) ==
  \/ Deliver(w) \/ Take(w) \/ EndWait(w) \/ Claim(w)
  \/ ClaimGranted(w) \/ ClaimRefused(w) \/ ClaimFails(w)
  \/ Downloaded(w) \/ DownloadFails(w) \/ LoadEngine(w) \/ Recovered(w)
  \/ EngineReady(w) \/ Computed(w) \/ EngineGone(w) \/ Terminate(w) \/ StopAborted(w) \/ Report(w)

Next == \E w \in Workers : Broker(w) \/ Engine(w) \/ Slot(w) \/ Handle(w)

Spec == Init /\ [][Next]_vars

\* handle goes on by itself: its await settles, whatever it settles to.
Advance(w) ==
  \/ Take(w) \/ Claim(w) \/ (~current[w] /\ EndWait(w))
  \/ ClaimGranted(w) \/ ClaimRefused(w) \/ ClaimFails(w)
  \/ Downloaded(w) \/ LoadEngine(w) \/ Recovered(w) \/ EngineReady(w)
  \/ Computed(w) \/ EngineGone(w) \/ StopAborted(w) \/ Report(w)

\* The event loop goes on, requests are answered or time out, processes start,
\* compute and die, acquire and connect are tried again.  A hint is repeated
\* in every round of acquire, so one of them finds an owner that is owner
\* again and again.  Nothing is owed by the broker and the users.
Fairness ==
  \A w \in Workers :
    /\ WF_vars(Connect(w)) /\ WF_vars(CloseSocket(w)) /\ WF_vars(EngineStopped(w))
    /\ WF_vars(Acquire(w)) /\ WF_vars(ReleaseSlot(w)) /\ WF_vars(DeleteSlot(w))
    /\ SF_vars(EndCooldown(w))
    /\ WF_vars(requested[w] /\ ReleaseResidency(w))
    /\ \A o \in Workers \ {w} : SF_vars(Hint(w, o))
    /\ WF_vars(Advance(w))

FairSpec == Spec /\ Fairness
-----------------------------------------------------------------------------
TypeOK ==
  /\ mode \in Modes
  /\ slot \in Workers \cup {Nobody}
  /\ link \in [Workers -> {"down", "up", "lingering"}]
  /\ barrier \in [Workers -> {"none", "stopping", "closing"}]
  /\ resident \in [Workers -> BOOLEAN]
  /\ engine \in [Workers -> {"none", "unloading", "resetting"} \cup Running]
  /\ stage \in [Workers -> Stages]
  /\ current \in [Workers -> BOOLEAN]
  /\ aborted \in [Workers -> BOOLEAN]
  /\ backlog \in [Workers -> 0..Prefetch]
  /\ releasing \in [Workers -> {"none", "unloading", "deleting"}]
  /\ requested \in [Workers -> BOOLEAN]
  /\ cooldown \in [Workers -> BOOLEAN]
  /\ late \in [Workers -> BOOLEAN]

\* Disconnect must stop computation before a replacement lease can be used:
\* once the barrier of a lost connection is through, its coordinator has no
\* engine left (coordinator.js:420).
DisconnectStopsEngine ==
  \A w \in Workers :
    link[w] = "down" /\ barrier[w] = "none" => engine[w] = "none"

\* An engine, dying or not, is that of the owner of the slot, or its connection
\* was dropped and the barrier in the way of the next one is stopping it.  The
\* exception is an engine started late, for a delivery whose channel was lost
\* while handle waited: what the code says of it, DisconnectStopsEngine, fails.
EngineOfOwner ==
  \A w \in Workers :
    engine[w] # "none" /\ ~late[w] =>
      slot = w \/ (link[w] = "down" /\ barrier[w] = "stopping")

\* An execution that was cancelled, lost its lease or lost its connection does
\* not compute any more, wherever in handle it was caught.  One whose claim is
\* granted when its channel is lost already is not aborted by that loss, for
\* it had no context then.
AbortedNeverComputes ==
  \A w \in Workers : aborted[w] => engine[w] # "computing"

\* Every delivery whose coordinator has the slot leaves handle: no await of it
\* lasts for ever, which would stop the pump for all that follow.
HandleEnds ==
  \A w \in Workers : []<>(stage[w] \in {"idle"} \cup Waiting)

\* Who has work and waits for the slot gets it, however much work its owner
\* has, as long as the connections last.
SlotIsHandedOver ==
  <>[](\A w \in Workers : link[w] = "up") =>
    \A w \in Workers : []<>(stage[w] \notin Waiting)
=============================================================================
