------------------------- MODULE SpeechWorkerProofs -------------------------
(***************************************************************************)
(* Theorems about SpeechWorker, for every number of coordinators and every *)
(* prefetch: no aborted execution computes, and an engine that was not     *)
(* started behind the loss of its channel is that of the owner of the slot *)
(* or on its way out.                                                      *)
(***************************************************************************)
EXTENDS SpeechWorker, TLAPS

Engines == {"none", "unloading", "resetting"} \cup Running

Types ==
  /\ mode \in Modes
  /\ slot \in Workers \cup {Nobody}
  /\ link \in [Workers -> {"down", "up", "lingering"}]
  /\ barrier \in [Workers -> {"none", "stopping", "closing"}]
  /\ resident \in [Workers -> BOOLEAN]
  /\ engine \in [Workers -> Engines]
  /\ stage \in [Workers -> Stages]
  /\ current \in [Workers -> BOOLEAN]
  /\ aborted \in [Workers -> BOOLEAN]
  /\ backlog \in [Workers -> Nat]
  /\ releasing \in [Workers -> {"none", "unloading", "deleting"}]
  /\ requested \in [Workers -> BOOLEAN]
  /\ cooldown \in [Workers -> BOOLEAN]
  /\ late \in [Workers -> BOOLEAN]

\* The deliveries a coordinator has of its connection, one of them in handle,
\* and its abort.
DeliveryConsistent(w) ==
  /\ backlog[w] + (IF stage[w] # "idle" /\ current[w] THEN 1 ELSE 0) <= Prefetch
  /\ aborted[w] => engine[w] # "computing"

\* A connection that lives, what it owns, and the delivery it brought.
LinkConsistent(w) ==
  /\ link[w] = "up" => barrier[w] = "none"
  /\ link[w] # "up" => backlog[w] = 0
  /\ resident[w] => slot = w /\ link[w] = "up"
  /\ stage[w] # "idle" => releasing[w] = "none"
  /\ stage[w] # "idle" /\ current[w] => link[w] = "up"
  /\ stage[w] \notin {"idle", "residency"} /\ current[w] => resident[w]

\* An engine is stopped before the slot is given away or its connection is
\* forgotten, unless it was started late.
EngineConsistent(w) ==
  /\ releasing[w] = "deleting" => ~resident[w] /\ engine[w] = "none"
  /\ link[w] # "up" /\ barrier[w] # "stopping" => engine[w] = "none" \/ late[w]
  /\ engine[w] # "none" /\ ~late[w] =>
       slot = w \/ (link[w] = "down" /\ barrier[w] = "stopping")

Consistent(w) == DeliveryConsistent(w) /\ LinkConsistent(w) /\ EngineConsistent(w)

\* The inductive invariant.
IInv == Types /\ \A w \in Workers : Consistent(w)
-----------------------------------------------------------------------------
(* The steps.                                                              *)

\* A step of w touches nothing of another coordinator, and the slot only when w
\* has it or nobody.
Moves(w) ==
  /\ mode' = mode
  /\ slot' = slot \/ (slot = w /\ slot' = Nobody) \/ (slot = Nobody /\ slot' = w)
  /\ \A o \in Workers : o # w =>
       /\ link'[o] = link[o] /\ barrier'[o] = barrier[o]
       /\ resident'[o] = resident[o] /\ engine'[o] = engine[o]
       /\ stage'[o] = stage[o] /\ current'[o] = current[o]
       /\ aborted'[o] = aborted[o] /\ backlog'[o] = backlog[o]
       /\ releasing'[o] = releasing[o] /\ late'[o] = late[o]

LEMMA OthersKept ==
  ASSUME IInv, NEW w \in Workers, Types', Moves(w), Consistent(w)'
  PROVE  IInv'
<1> SUFFICES ASSUME NEW o \in Workers, o # w PROVE Consistent(o)'
  BY DEF IInv
<1>1. Types /\ Consistent(o)
  BY DEF IInv
<1>2. DeliveryConsistent(o)'
  BY <1>1 DEF Moves, Consistent, DeliveryConsistent, Prefetch
<1>3. LinkConsistent(o)' /\ EngineConsistent(o)'
  BY <1>1, WorkerAssumption DEF Moves, Consistent, LinkConsistent, EngineConsistent
<1> QED
  BY <1>2, <1>3 DEF Consistent

\* What a step of a coordinator keeps.
Kept(w) == Types' /\ Moves(w) /\ Consistent(w)'

LEMMA LostKeeps ==
  ASSUME Types, NEW w \in Workers, Consistent(w), NEW socket \in {"down", "lingering"},
         link[w] = "up", Lost(w, socket), Goto(w, "idle") \/ UNCHANGED stage
  PROVE  Kept(w)
<1> USE WorkerAssumption
    DEF Lost, Unload, Goto, Engines, Running, Stages, Waiting, Active
<1>1. Types'
  BY DEF Types
<1>2. Moves(w)
  BY DEF Types, Moves
<1>3. /\ link'[w] = socket /\ resident'[w] = FALSE /\ backlog'[w] = 0
      /\ current'[w] = FALSE /\ releasing'[w] = releasing[w] /\ late'[w] = late[w]
      /\ stage'[w] \in {"idle", stage[w]}
      /\ engine'[w] = IF engine[w] = "none" THEN "none" ELSE "unloading"
      /\ engine[w] # "none" => barrier'[w] = "stopping"
      /\ aborted'[w] = (aborted[w] \/ stage[w] \in Active \cup Waiting)
      /\ slot' = IF socket = "down" /\ slot = w THEN Nobody ELSE slot
  BY DEF Types
<1>4. DeliveryConsistent(w)'
  BY <1>1, <1>3 DEF DeliveryConsistent, Prefetch, Types
<1>5. LinkConsistent(w)'
  BY <1>3 DEF Consistent, LinkConsistent
<1>6. EngineConsistent(w)'
  BY <1>3 DEF Consistent, LinkConsistent, EngineConsistent, Types
<1> QED
  BY <1>1, <1>2, <1>4, <1>5, <1>6 DEF Kept, Consistent

LEMMA DropKeeps ==
  ASSUME IInv, NEW w \in Workers, Drop(w) \/ CloseChannel(w) PROVE Kept(w)
<1> Types /\ Consistent(w)
  BY DEF IInv
<1> QED
  BY LostKeeps DEF Drop, CloseChannel

\* handle ends, or gives its connection up.
LEMMA EndKeeps ==
  ASSUME IInv, NEW w \in Workers, stage[w] # "idle",
         End(w) \/ (current[w] /\ GiveUpLink(w))
  PROVE  Kept(w)
<1> Types /\ Consistent(w)
  BY DEF IInv
<1>1. CASE End(w)
  BY <1>1, WorkerAssumption
  DEF End, Goto, connection, delivery, residency, process, Kept, Moves, Types, Engines,
      Running, Stages, Waiting, Active, Consistent,
      DeliveryConsistent, LinkConsistent, EngineConsistent, Prefetch
<1>2. CASE current[w] /\ GiveUpLink(w)
  <2>1. link[w] = "up" /\ Lost(w, "lingering") /\ Goto(w, "idle")
    BY <1>2 DEF GiveUpLink, Consistent, LinkConsistent
  <2> QED
    BY <2>1, LostKeeps
<1> QED
  BY <1>1, <1>2

LEMMA BrokerKeeps == ASSUME IInv, NEW w \in Workers, Broker(w) PROVE Kept(w)
<1> Types /\ Consistent(w)
  BY DEF IInv
<1> USE WorkerAssumption
    DEF connection, delivery, residency, process, Kept, Moves, Types, Engines, Running,
        Stages, Waiting, Active, Consistent, DeliveryConsistent,
        LinkConsistent, EngineConsistent, Prefetch
<1>1. CASE Connect(w)
  BY <1>1 DEF Connect
<1>2. CASE CloseSocket(w)
  BY <1>2 DEF CloseSocket
<1> QED
  BY <1>1, <1>2, DropKeeps DEF Broker

LEMMA EngineKeeps == ASSUME IInv, NEW w \in Workers, Engine(w) PROVE Kept(w)
<1> Types /\ Consistent(w)
  BY DEF IInv
<1> USE WorkerAssumption
    DEF connection, delivery, residency, process, Kept, Moves, Types, Engines, Running,
        Stages, Waiting, Active, Consistent, DeliveryConsistent,
        LinkConsistent, EngineConsistent, Prefetch
<1>1. CASE EngineStopped(w)
  BY <1>1 DEF EngineStopped
<1>2. CASE EngineFails(w)
  BY <1>2 DEF EngineFails, Reset
<1>3. CASE UnloadIdle(w)
  BY <1>3 DEF UnloadIdle, Unload
<1> QED
  BY <1>1, <1>2, <1>3 DEF Engine

LEMMA SlotKeeps == ASSUME IInv, NEW w \in Workers, Slot(w) PROVE Kept(w)
<1> Types /\ Consistent(w)
  BY DEF IInv
<1> USE WorkerAssumption
    DEF connection, delivery, residency, process, Kept, Moves, Types, Engines, Running,
        Stages, Waiting, Active, Consistent, DeliveryConsistent,
        LinkConsistent, EngineConsistent, Prefetch
<1>1. CASE Acquire(w)
  BY <1>1 DEF Acquire
<1>2. CASE \E x \in Workers \ {w} : Hint(w, x)
  BY <1>2 DEF Hint
<1>3. CASE ReleaseResidency(w)
  BY <1>3 DEF ReleaseResidency, StartRelease, Unload
<1>4. CASE ReleaseSlot(w)
  BY <1>4 DEF ReleaseSlot
<1>5. CASE DeleteSlot(w)
  BY <1>5 DEF DeleteSlot, CooldownAfter
<1>6. CASE EndCooldown(w)
  BY <1>6 DEF EndCooldown
<1> QED
  BY <1>1, <1>2, <1>3, <1>4, <1>5, <1>6 DEF Slot

LEMMA EndsKeep ==
  ASSUME IInv, NEW w \in Workers, ClaimFails(w) \/ Report(w) PROVE Kept(w)
BY EndKeeps DEF ClaimFails, Report

LEMMA HandleKeeps == ASSUME IInv, NEW w \in Workers, Handle(w) PROVE Kept(w)
<1> Types /\ Consistent(w)
  BY DEF IInv
<1> USE WorkerAssumption
    DEF connection, delivery, residency, process, Kept, Moves, Types, Engines, Running,
        Stages, Waiting, Active, Consistent, DeliveryConsistent,
        LinkConsistent, EngineConsistent, Prefetch
<1>1. CASE Deliver(w)
  BY <1>1 DEF Deliver, Consuming
<1>2. CASE Take(w)
  BY <1>2 DEF Take, Goto
<1>3. CASE EndWait(w)
  BY <1>3 DEF EndWait, End, Defer, Goto
<1>4. CASE Claim(w)
  BY <1>4 DEF Claim, Goto
<1>5. CASE ClaimGranted(w)
  BY <1>5 DEF ClaimGranted, ReplyMayArrive, Goto
<1>6. CASE ClaimRefused(w)
  BY <1>6 DEF ClaimRefused, End, Defer, Goto
<1>7. CASE Downloaded(w)
  <2>1. CASE aborted[w]
    BY <1>7, <2>1 DEF Downloaded, Goto
  <2>2. CASE ~aborted[w] /\ engine[w] = "none"
    <3>1. stage[w] = "downloading" /\ Goto(w, "warming") /\ Start(w)
      BY <1>7, <2>2 DEF Downloaded
    <3> QED
      BY <1>7, <2>2, <3>1 DEF Downloaded, Goto, Start
  <2>3. CASE ~aborted[w] /\ engine[w] = "ready"
    BY <1>7, <2>3 DEF Downloaded, Goto, Compute
  <2>4. CASE ~aborted[w] /\ engine[w] \notin {"none", "ready"}
    BY <1>7, <2>4 DEF Downloaded, Goto
  <2> QED
    BY <2>1, <2>2, <2>3, <2>4
<1>8. CASE DownloadFails(w)
  BY <1>8 DEF DownloadFails, Goto
<1>9. CASE LoadEngine(w)
  BY <1>9 DEF LoadEngine, Goto, Start
<1>10. CASE Recovered(w)
  BY <1>10 DEF Recovered, Goto, Start
<1>11. CASE EngineReady(w)
  BY <1>11 DEF EngineReady, Goto, Compute, Idle
<1>12. CASE Computed(w)
  BY <1>12 DEF Computed, Goto, Idle
<1>13. CASE EngineGone(w)
  BY <1>13 DEF EngineGone, Goto
<1>14. CASE Terminate(w)
  BY <1>14 DEF Terminate, Reset
<1>15. CASE StopAborted(w)
  BY <1>15 DEF StopAborted, Reset
<1> QED
  BY <1>1, <1>2, <1>3, <1>4, <1>5, <1>6, <1>7, <1>8, <1>9, <1>10, <1>11, <1>12, <1>13, <1>14, <1>15, EndsKeep DEF Handle

LEMMA InitIInv == Init => IInv
<1> SUFFICES ASSUME Init PROVE IInv
  OBVIOUS
<1>1. Types
  BY DEF Init, Types, Engines, Running, Stages
<1>2. Prefetch \in Nat
  BY WorkerAssumption DEF Prefetch
<1>3. ASSUME NEW w \in Workers PROVE Consistent(w)
  BY <1>2 DEF Init, Consistent, DeliveryConsistent, LinkConsistent,
              EngineConsistent, Active
<1> QED
  BY <1>1, <1>3 DEF IInv

LEMMA NextIInv == IInv /\ [Next]_vars => IInv'
<1> SUFFICES ASSUME IInv, [Next]_vars PROVE IInv'
  OBVIOUS
<1>1. CASE UNCHANGED vars
  BY <1>1 DEF vars, connection, delivery, residency, process, IInv, Types, Consistent, DeliveryConsistent,
              LinkConsistent, EngineConsistent, Prefetch
<1>2. ASSUME NEW w \in Workers, Broker(w) \/ Engine(w) \/ Slot(w) \/ Handle(w)
      PROVE  IInv'
  <2>1. Kept(w)
    BY <1>2, BrokerKeeps, EngineKeeps, SlotKeeps, HandleKeeps
  <2> QED
    BY <2>1, OthersKept DEF Kept
<1> QED
  BY <1>1, <1>2 DEF Next

\* Every reachable state of the coordinators satisfies the inductive invariant.
THEOREM Invariance == Spec => []IInv
BY InitIInv, NextIInv, PTL DEF Spec
-----------------------------------------------------------------------------
(* The properties.                                                         *)

\* Every variable has its type; a coordinator never holds more deliveries than
\* the prefetch of its channel, the one in handle included.
THEOREM TypesCorrect == Spec => []TypeOK
<1>1. IInv => TypeOK
  <2> SUFFICES ASSUME IInv PROVE TypeOK
    OBVIOUS
  <2>1. Prefetch \in Nat
    BY WorkerAssumption DEF Prefetch
  <2>2. ASSUME NEW w \in Workers PROVE backlog[w] \in 0..Prefetch
    <3>1. backlog[w] \in Nat /\ DeliveryConsistent(w)
      BY DEF IInv, Types, Consistent
    <3> QED
      BY <2>1, <3>1 DEF DeliveryConsistent
  <2> QED
    BY <2>2 DEF IInv, Types, TypeOK, Engines
<1> QED
  BY <1>1, Invariance, PTL

\* handle computes for no execution that was cancelled, lost its lease or lost its
\* connection: wherever in handle the abort came, every start of the engine looks
\* at it, and an engine that computes is stopped.
THEOREM AbortedStops == Spec => []AbortedNeverComputes
<1>1. IInv => AbortedNeverComputes
  BY DEF IInv, Consistent, DeliveryConsistent, AbortedNeverComputes
<1> QED
  BY <1>1, Invariance, PTL

\* A native engine, dying or not, is that of the owner of the exclusive queue, or
\* the barrier of its dropped connection is stopping it: releaseResidency unloads
\* before it deletes the queue, onConnectionLost before it connects again, and a
\* delivery of the connection runs with the slot.  The exception is the engine that
\* a delivery starts whose channel was lost before.
THEOREM EngineIsOfOwner == Spec => []EngineOfOwner
<1>1. IInv => EngineOfOwner
  BY DEF IInv, Consistent, EngineConsistent, EngineOfOwner
<1> QED
  BY <1>1, Invariance, PTL

\* DisconnectStopsEngine fails in one way only: once the barrier of a lost
\* connection is through, an engine that its coordinator has left was started late.
THEOREM OnlyLateEnginesStay ==
  Spec => [](\A w \in Workers :
               link[w] = "down" /\ barrier[w] = "none" => engine[w] = "none" \/ late[w])
<1>1. IInv => \A w \in Workers :
                link[w] = "down" /\ barrier[w] = "none" => engine[w] = "none" \/ late[w]
  BY DEF IInv, Consistent, EngineConsistent
<1> QED
  BY <1>1, Invariance, PTL
=============================================================================
