-------------------------- MODULE SpeechPoolProofs --------------------------
(***************************************************************************)
(* Theorems about SpeechPool, for every number of jobs, workers, replicas, *)
(* generations and faults: whoever computes holds the lease, as many as    *)
(* the capacity, a queued job can be reached, and no message leaves the    *)
(* broker before its time.                                                 *)
(***************************************************************************)
EXTENDS SpeechPool, FiniteSetTheorems, TLAPS

Dispatcher == [pc : {"idle", "locked", "publishing", "sent", "failed"},
               job : Jobs \cup {Nobody}, generation : 0..MaxGeneration]

Worker == [pc : {"off", "idle", "claiming", "running", "reporting", "dying"},
           message : Message \cup {NoMessage}, action : Actions, answer : Answers]

Types ==
  /\ row \in [Jobs -> Row]
  /\ outbox \in [Jobs -> [Generations -> Entry]]
  /\ dispatcher \in [Dispatchers -> Dispatcher]
  /\ \A d \in Dispatchers : dispatcher[d].pc # "idle" =>
       dispatcher[d].job \in Jobs /\ dispatcher[d].generation \in Generations
  /\ queue \subseteq {m \in Message : m.returns <= DeliveryLimit}
  /\ dead \subseteq Message
  /\ held \in [Workers -> SUBSET {m \in Message : m.returns <= DeliveryLimit}]
  /\ worker \in [Workers -> Worker]
  /\ \A w \in Workers : worker[w].pc \notin {"off", "idle"} =>
       worker[w].message \in Message
  /\ requests \subseteq Request
  /\ losses \in 0..MaxLosses

\* The generation was announced.
Issued(j, g) == g <= row[j].generation

\* Nobody can claim the generation any more.
Past(j, g) ==
  \/ row[j].generation > g
  \/ row[j].generation = g /\ row[j].status \notin {"absent", "queued"}

\* The copies of the messages of a generation.
Copies(j, g) == {m.copy : m \in {n \in Messages : n.job = j /\ n.generation = g}}

RowConsistent(j) == row[j].status = "absent" <=> row[j].generation = 0

\* Nothing is under way for a generation that was not announced.
EntryConsistent(j, g) ==
  /\ outbox[j][g].state # "none" \/ Copies(j, g) # {} => Issued(j, g)
  /\ outbox[j][g].state # "publishing" => outbox[j][g].token = Nobody

DispatcherConsistent(d) ==
  LET j == dispatcher[d].job
      g == dispatcher[d].generation
  IN  /\ dispatcher[d].pc # "idle" => Issued(j, g)
      /\ dispatcher[d].pc = "sent" => Past(j, g) \/ Copies(j, g) # {}

\* The replicas that may still add a copy, or have the entry announced again.
Publishers(j, g) ==
  {d \in Dispatchers : /\ dispatcher[d].pc \in {"locked", "publishing", "failed"}
                       /\ dispatcher[d].job = j /\ dispatcher[d].generation = g}

\* The entry waits for a replica.
ToPublish(j, g) ==
  IF \/ outbox[j][g].state = "pending"
     \/ outbox[j][g].state = "publishing" /\ Lockers(j, g) = {}
  THEN 1 ELSE 0

\* Every copy but one costs a fault.
CopiesCounted(j, g) ==
  Cardinality(Copies(j, g)) + Cardinality(Publishers(j, g)) + ToPublish(j, g)
    <= losses + 1

\* Worker w, in state s, has the grant of its message in hand, or computes under it.
Executing(s) ==
  \/ s.pc \in {"running", "dying"}
  \/ s.pc = "claiming" /\ s.answer = "granted"

WorkerConsistent(w, s) ==
  LET j == s.message.job
      g == s.message.generation
  IN  /\ s.pc \notin {"off", "idle"} => Issued(j, g)
      /\ Executing(s) => row[j].generation > g \/ (Past(j, g) /\ row[j].owner = w)
      /\ s.pc \in {"running", "dying"} =>
           row[j].generation = g /\ row[j].lease = "held"
      /\ s.pc \in {"claiming", "reporting"} /\ s.answer = "settled" => Past(j, g)

\* The worker, in state s, asks for an outcome after it stopped, and waits for
\* one reply.
RequestConsistent(q, s) ==
  LET same == s.message.job = q.job /\ s.message.generation = q.generation
  IN  /\ Issued(q.job, q.generation)
      /\ q.action # "claim" =>
           Past(q.job, q.generation) /\ ~(Executing(s) /\ same)
      /\ q.live =>
           /\ s.pc = IF q.action = "claim" THEN "claiming" ELSE "reporting"
           /\ s.action = q.action /\ s.answer = "none" /\ same

\* The inductive invariant.
IInv ==
  /\ Types
  /\ \A j \in Jobs : RowConsistent(j)
  /\ \A j \in Jobs, g \in Generations : EntryConsistent(j, g) /\ CopiesCounted(j, g)
  /\ \A d \in Dispatchers : DispatcherConsistent(d)
  /\ \A w \in Workers : WorkerConsistent(w, worker[w])
  /\ \A q \in requests : RequestConsistent(q, worker[q.worker])
  /\ QueuedIsReachable
-----------------------------------------------------------------------------
(* The messages.                                                           *)

LEMMA MessageParts ==
  ASSUME NEW m
  PROVE  m \in Messages <=> m \in queue \/ m \in dead \/ \E w \in Workers : m \in held[w]
BY DEF Messages

LEMMA MessageTypes ==
  ASSUME Types
  PROVE  Messages \subseteq Message
BY DEF Types, Messages

LEMMA MessageFields ==
  ASSUME NEW m \in Message
  PROVE  /\ m.job \in Jobs /\ m.generation \in Generations
         /\ m.copy \in 1..(MaxLosses + 1) /\ m.returns \in 0..(DeliveryLimit + 1)
BY DEF Message

LEMMA CopyOf ==
  ASSUME NEW j, NEW g, NEW c
  PROVE  c \in Copies(j, g) <=>
           \E m \in Messages : m.job = j /\ m.generation = g /\ m.copy = c
BY DEF Copies

LEMMA CopiesFinite ==
  ASSUME Types, NEW j, NEW g
  PROVE  /\ Copies(j, g) \subseteq 1..(MaxLosses + 1)
         /\ IsFiniteSet(Copies(j, g)) /\ Cardinality(Copies(j, g)) \in Nat
<1>1. Copies(j, g) \subseteq 1..(MaxLosses + 1)
  BY MessageTypes, MessageFields, CopyOf
<1>2. IsFiniteSet(1..(MaxLosses + 1))
  BY PoolAssumption, FS_Interval
<1> QED
  BY <1>1, <1>2, FS_Subset, FS_CardinalityType

LEMMA PublishersFinite ==
  ASSUME NEW j, NEW g
  PROVE  IsFiniteSet(Publishers(j, g)) /\ Cardinality(Publishers(j, g)) \in Nat
<1>1. Publishers(j, g) \subseteq Dispatchers
  BY DEF Publishers
<1> QED
  BY <1>1, PoolAssumption, FS_Subset, FS_CardinalityType

\* The traffic of the broker: no copy is new, and one is missing only where
\* nobody can claim its generation any more.
Traffic == \A j \in Jobs, g \in Generations :
  /\ Copies(j, g)' \subseteq Copies(j, g)
  /\ Copies(j, g)' = Copies(j, g) \/ Past(j, g)

LEMMA SameTraffic ==
  ASSUME UNCHANGED <<queue, dead, held>>
  PROVE  Messages' = Messages /\ \A j, g : Copies(j, g)' = Copies(j, g)
BY DEF Messages, Copies

LEMMA MovedTraffic ==
  ASSUME \A m \in Messages : \E n \in Messages' :
           n.job = m.job /\ n.generation = m.generation /\ n.copy = m.copy,
         \A n \in Messages' : \E m \in Messages :
           n.job = m.job /\ n.generation = m.generation /\ n.copy = m.copy
  PROVE  Traffic
<1> SUFFICES ASSUME NEW j \in Jobs, NEW g \in Generations
             PROVE  Copies(j, g)' = Copies(j, g)
  BY DEF Traffic
<1>1. \A c : c \in Copies(j, g)' <=>
         \E n \in Messages' : n.job = j /\ n.generation = g /\ n.copy = c
  BY DEF Copies
<1>2. \A c : c \in Copies(j, g)' <=> c \in Copies(j, g)
  BY <1>1, CopyOf
<1> QED
  BY <1>2

LEMMA ReturnedMessage ==
  ASSUME NEW m \in Message, m.returns <= DeliveryLimit
  PROVE  LET n == [m EXCEPT !.returns = m.returns + 1] IN
         /\ n \in Message
         /\ n.job = m.job /\ n.generation = m.generation /\ n.copy = m.copy
         /\ n.returns = m.returns + 1
<1>1. m.returns \in 0..(DeliveryLimit + 1)
  BY MessageFields
<1>2. m.returns + 1 \in 0..(DeliveryLimit + 1)
  BY <1>1, PoolAssumption
<1> QED
  BY <1>2 DEF Message

LEMMA ReturnHeldTraffic ==
  ASSUME Types, NEW w \in Workers, ReturnHeld(w)
  PROVE  /\ queue' \subseteq {m \in Message : m.returns <= DeliveryLimit}
         /\ dead' \subseteq Message
         /\ held' \in [Workers -> SUBSET {m \in Message : m.returns <= DeliveryLimit}]
         /\ Traffic
<1> DEFINE Ret(m) == [m EXCEPT !.returns = m.returns + 1]
<1>1. \A m \in held[w] : m \in Message /\ m.returns <= DeliveryLimit
  BY DEF Types
<1>2. \A m \in held[w] : /\ Ret(m) \in Message /\ Ret(m).copy = m.copy
                         /\ Ret(m).job = m.job /\ Ret(m).generation = m.generation
  BY <1>1, ReturnedMessage
<1>3. Returned(w) = {Ret(m) : m \in held[w]}
  BY DEF Returned
<1> HIDE DEF Ret
<1>4. Returned(w) \subseteq Message
  BY <1>2, <1>3
<1>5. /\ queue' = queue \cup {m \in Returned(w) : m.returns <= DeliveryLimit}
      /\ dead' = dead \cup {m \in Returned(w) : m.returns > DeliveryLimit}
      /\ held' = [held EXCEPT ![w] = {}]
  BY DEF ReturnHeld
<1>6. /\ held' \in [Workers -> SUBSET {m \in Message : m.returns <= DeliveryLimit}]
      /\ held'[w] = {} /\ \A o \in Workers : o # w => held'[o] = held[o]
  BY <1>5 DEF Types
<1>7. \A m \in Message : m.returns <= DeliveryLimit \/ m.returns > DeliveryLimit
  BY MessageFields, PoolAssumption
<1>8. \A n : n \in Messages' <=> n \in queue' \/ n \in dead' \/ \E o \in Workers : n \in held'[o]
  BY DEF Messages
<1>9. \A n : n \in Messages' <=>
        n \in queue \/ n \in dead \/ n \in Returned(w)
        \/ \E o \in Workers : o # w /\ n \in held[o]
  BY <1>4, <1>5, <1>6, <1>7, <1>8
<1>10. \A m \in Messages : \E n \in Messages' :
         n.job = m.job /\ n.generation = m.generation /\ n.copy = m.copy
  BY <1>2, <1>3, <1>9, MessageParts
<1>11. \A n \in Messages' : \E m \in Messages :
         n.job = m.job /\ n.generation = m.generation /\ n.copy = m.copy
  BY <1>2, <1>3, <1>9, MessageParts
<1> QED
  BY <1>4, <1>5, <1>6, <1>10, <1>11, MovedTraffic DEF Types
-----------------------------------------------------------------------------
(* The steps of the broker and of the workers.                             *)

LEMMA SomeCopy ==
  ASSUME NEW j, NEW g
  PROVE  Copies(j, g) # {} <=> \E m \in Messages : m.job = j /\ m.generation = g
BY DEF Copies

LEMMA RowFields ==
  ASSUME Types, NEW j \in Jobs
  PROVE  /\ row[j] \in Row
         /\ row[j].generation \in 0..MaxGeneration
         /\ row[j].status \in {"absent", "queued", "processing"} \cup Terminal
BY DEF Types, Row

LEMMA QueuedGeneration ==
  ASSUME IInv, NEW j \in Jobs, row[j].status = "queued"
  PROVE  row[j].generation \in Generations /\ ~Past(j, row[j].generation)
<1>1. row[j].generation \in 0..MaxGeneration /\ RowConsistent(j)
  BY RowFields DEF IInv
<1> QED
  BY <1>1, PoolAssumption DEF RowConsistent, Generations, Past

\* What the steps of the broker and of the workers leave as it is.
LEMMA BrokerMoves ==
  ASSUME IInv, Types', UNCHANGED <<row, outbox, dispatcher>>, losses' >= losses, Traffic,
         \A w \in Workers : WorkerConsistent(w, worker[w])',
         \A q \in requests' : RequestConsistent(q, worker[q.worker])'
  PROVE  IInv'
<1>1. Types
  BY DEF IInv
<1>2. \A j \in Jobs : RowConsistent(j)'
  BY DEF IInv, RowConsistent
<1>3. ASSUME NEW j \in Jobs, NEW g \in Generations
      PROVE  EntryConsistent(j, g)' /\ CopiesCounted(j, g)'
  <2>1. /\ EntryConsistent(j, g) /\ CopiesCounted(j, g)
        /\ Copies(j, g)' \subseteq Copies(j, g)
    BY DEF IInv, Traffic
  <2>2. Publishers(j, g)' = Publishers(j, g) /\ ToPublish(j, g)' = ToPublish(j, g)
    BY DEF Publishers, ToPublish, Lockers
  <2>3. /\ Cardinality(Copies(j, g)') <= Cardinality(Copies(j, g))
        /\ Cardinality(Copies(j, g)) \in Nat /\ Cardinality(Copies(j, g)') \in Nat
    BY <1>1, <2>1, CopiesFinite, FS_Subset, FS_CardinalityType
  <2>4. /\ Cardinality(Publishers(j, g)) \in Nat /\ ToPublish(j, g) \in Nat
        /\ losses \in Nat /\ losses' \in Nat
    BY <1>1, PublishersFinite, PoolAssumption DEF ToPublish, Types
  <2> QED
    BY <2>1, <2>2, <2>3, <2>4 DEF EntryConsistent, CopiesCounted, Issued
<1>4. ASSUME NEW d \in Dispatchers PROVE DispatcherConsistent(d)'
  <2>1. DispatcherConsistent(d)
    BY DEF IInv
  <2>2. dispatcher[d].pc # "idle" =>
          dispatcher[d].job \in Jobs /\ dispatcher[d].generation \in Generations
    BY <1>1 DEF Types
  <2>3. PICK j, g : j = dispatcher[d].job /\ g = dispatcher[d].generation
    OBVIOUS
  <2>4. dispatcher[d].pc = "sent" => Past(j, g) \/ Copies(j, g)' # {}
    BY <2>1, <2>2, <2>3 DEF DispatcherConsistent, Traffic
  <2> QED
    BY <2>1, <2>3, <2>4 DEF DispatcherConsistent, Issued, Past
<1>5. QueuedIsReachable'
  <2> SUFFICES ASSUME NEW j \in Jobs, row[j].status = "queued",
                      outbox[j][row[j].generation].state \notin {"pending", "publishing"}
               PROVE  \E m \in Messages' : m.job = j /\ m.generation = row[j].generation
    BY DEF QueuedIsReachable
  <2>1. PICK g \in Generations : g = row[j].generation /\ ~Past(j, g)
    BY QueuedGeneration
  <2>2. Copies(j, g) # {}
    BY <2>1, SomeCopy DEF IInv, QueuedIsReachable
  <2>3. Copies(j, g)' # {}
    BY <2>1, <2>2 DEF Traffic
  <2> QED
    BY <2>1, <2>3 DEF Copies
<1> QED
  BY <1>2, <1>3, <1>4, <1>5 DEF IInv

\* The row does not change what is known of a worker or of a request.
LEMMA RowStays ==
  ASSUME UNCHANGED row
  PROVE  /\ \A w, s : WorkerConsistent(w, s) => WorkerConsistent(w, s)'
         /\ \A q, s : RequestConsistent(q, s) => RequestConsistent(q, s)'
BY DEF WorkerConsistent, RequestConsistent, Issued, Past

LEMMA StateOf ==
  ASSUME Types, NEW w \in Workers
  PROVE  worker[w] \in Worker
BY DEF Types

\* A worker that has no reply to expect has no live request.
LEMMA NoLiveRequest ==
  ASSUME IInv, NEW w \in Workers,
         worker[w].pc \notin {"claiming", "reporting"} \/ worker[w].answer # "none",
         NEW q \in requests, q.worker = w
  PROVE  ~q.live
BY DEF IInv, RequestConsistent

\* Only the state of one worker changes, and its requests stay consistent.
LEMMA OnlyWorker ==
  ASSUME IInv, NEW w \in Workers, NEW s \in Worker,
         s.pc \notin {"off", "idle"} => s.message \in Message,
         worker' = [worker EXCEPT ![w] = s],
         UNCHANGED <<row, outbox, dispatcher>>,
         losses' \in 0..MaxLosses, losses' >= losses,
         queue' \subseteq {m \in Message : m.returns <= DeliveryLimit},
         dead' \subseteq Message,
         held' \in [Workers -> SUBSET {m \in Message : m.returns <= DeliveryLimit}],
         Traffic, requests' \subseteq Request,
         WorkerConsistent(w, s),
         \A q \in requests' : q.worker # w => RequestConsistent(q, worker[q.worker]),
         \A q \in requests' : q.worker = w => RequestConsistent(q, s)
  PROVE  IInv'
<1>1. Types
  BY DEF IInv
<1>2. /\ worker' \in [Workers -> Worker] /\ worker'[w] = s
      /\ \A o \in Workers : o # w => worker'[o] = worker[o]
  BY <1>1 DEF Types
<1>3. Types'
  BY <1>1, <1>2 DEF Types
<1>4. ASSUME NEW o \in Workers PROVE WorkerConsistent(o, worker[o])'
  <2>1. PICK r : r = worker'[o]
    OBVIOUS
  <2>2. WorkerConsistent(o, r)
    BY <1>2, <2>1 DEF IInv
  <2> QED
    BY <2>1, <2>2, RowStays
<1>5. ASSUME NEW q \in requests' PROVE RequestConsistent(q, worker[q.worker])'
  <2>1. q.worker \in Workers
    BY DEF Request
  <2>2. PICK r : r = worker'[q.worker]
    OBVIOUS
  <2>3. RequestConsistent(q, r)
    BY <1>2, <2>1, <2>2
  <2> QED
    BY <2>2, <2>3, RowStays
<1> QED
  BY <1>3, <1>4, <1>5, BrokerMoves

LEMMA Losses ==
  ASSUME Types, Fault \/ UNCHANGED losses
  PROVE  losses' \in 0..MaxLosses /\ losses' >= losses
BY PoolAssumption DEF Types, Fault

LEMMA AtRest ==
  ASSUME IInv, NEW w \in Workers, NEW s, s.pc \in {"off", "idle"}
  PROVE  /\ WorkerConsistent(w, s)
         /\ \A q \in requests : q.worker = w /\ ~q.live => RequestConsistent(q, s)
BY DEF IInv, WorkerConsistent, RequestConsistent, Executing

LEMMA IdleType ==
  /\ Idle \in Worker /\ [Idle EXCEPT !.pc = "off"] \in Worker
  /\ Idle.pc = "idle" /\ [Idle EXCEPT !.pc = "off"].pc = "off"
BY DEF Idle, Worker, Actions, Answers

LEMMA OthersRequests ==
  ASSUME IInv
  PROVE  \A q \in requests : RequestConsistent(q, worker[q.worker])
BY DEF IInv

LEMMA NothingMoves ==
  ASSUME Types, UNCHANGED <<queue, dead, held>>
  PROVE  /\ Traffic
         /\ queue' \subseteq {m \in Message : m.returns <= DeliveryLimit}
         /\ dead' \subseteq Message
         /\ held' \in [Workers -> SUBSET {m \in Message : m.returns <= DeliveryLimit}]
BY SameTraffic DEF Traffic, Types

\* The worker rests, and none of its requests is waited for.
LEMMA Rests ==
  ASSUME IInv, NEW w \in Workers, NEW s \in Worker, s.pc \in {"off", "idle"},
         worker' = [worker EXCEPT ![w] = s],
         UNCHANGED <<row, outbox, dispatcher, requests, losses>>,
         \A q \in requests : q.worker = w => ~q.live,
         queue' \subseteq {m \in Message : m.returns <= DeliveryLimit},
         dead' \subseteq Message,
         held' \in [Workers -> SUBSET {m \in Message : m.returns <= DeliveryLimit}],
         Traffic
  PROVE  IInv'
<1>1. Types /\ requests' \subseteq Request
  BY DEF IInv, Types
<1>2. WorkerConsistent(w, s)
  BY AtRest
<1>3. \A q \in requests' : q.worker = w => RequestConsistent(q, s)
  BY AtRest
<1>4. \A q \in requests' : q.worker # w => RequestConsistent(q, worker[q.worker])
  BY OthersRequests
<1>5. losses' \in 0..MaxLosses /\ losses' >= losses
  BY <1>1, Losses
<1> QED
  BY <1>1, <1>2, <1>3, <1>4, <1>5, OnlyWorker

LEMMA ConnectIInv == ASSUME IInv, NEW w \in Workers, Connect(w) PROVE IInv'
<1>1. worker[w].pc = "off" /\ worker' = [worker EXCEPT ![w] = Idle]
      /\ UNCHANGED <<row, outbox, dispatcher, queue, dead, held, requests, losses>>
  BY DEF Connect
<1>2. \A q \in requests : q.worker = w => ~q.live
  BY <1>1, NoLiveRequest
<1>3. Types
  BY DEF IInv
<1> QED
  BY <1>1, <1>2, <1>3, IdleType, NothingMoves, Rests

LEMMA DeferIInv == ASSUME IInv, NEW w \in Workers, Defer(w) PROVE IInv'
<1>1. worker[w].answer = "full" /\ worker' = [worker EXCEPT ![w] = Idle]
      /\ UNCHANGED <<row, outbox, dispatcher, queue, dead, held, requests, losses>>
  BY DEF Defer
<1>2. \A q \in requests : q.worker = w => ~q.live
  BY <1>1, NoLiveRequest
<1>3. Types
  BY DEF IInv
<1> QED
  BY <1>1, <1>2, <1>3, IdleType, NothingMoves, Rests

LEMMA EngineDiesIInv == ASSUME IInv, NEW w \in Workers, EngineDies(w) PROVE IInv'
<1>1. worker[w].pc = "dying" /\ worker' = [worker EXCEPT ![w] = [Idle EXCEPT !.pc = "off"]]
      /\ UNCHANGED <<row, outbox, dispatcher, queue, dead, held, requests, losses>>
  BY DEF EngineDies
<1>2. \A q \in requests : q.worker = w => ~q.live
  BY <1>1, NoLiveRequest
<1>3. Types
  BY DEF IInv
<1> QED
  BY <1>1, <1>2, <1>3, IdleType, NothingMoves, Rests

LEMMA TimeOutIInv == ASSUME IInv, NEW w \in Workers, TimeOut(w) PROVE IInv'
<1>1. /\ \A q \in requests : q.worker = w => ~q.live
      /\ ReturnHeld(w) /\ worker' = [worker EXCEPT ![w] = [Idle EXCEPT !.pc = "off"]]
      /\ UNCHANGED <<row, outbox, dispatcher, requests, losses>>
  BY DEF TimeOut
<1>2. Types
  BY DEF IInv
<1> QED
  BY <1>1, <1>2, IdleType, ReturnHeldTraffic, Rests

LEMMA AbandonedRequests ==
  ASSUME IInv, NEW w \in Workers
  PROVE  /\ Abandoned(w) \subseteq Request
         /\ \A q \in Abandoned(w) : q.worker = w => ~q.live
         /\ \A q \in Abandoned(w) : q.worker # w => q \in requests
         /\ \A q \in Abandoned(w) : \E p \in requests :
              /\ q.worker = p.worker /\ q.action = p.action
              /\ q.job = p.job /\ q.generation = p.generation
<1>1. requests \subseteq Request
  BY DEF IInv, Types
<1>2. ASSUME NEW q \in Abandoned(w)
      PROVE  \/ q \in requests /\ ~(q.worker = w /\ q.live)
             \/ \E p \in requests : p.worker = w /\ p.live /\ q = [p EXCEPT !.live = FALSE]
  BY DEF Abandoned
<1>3. ASSUME NEW p \in Request, NEW q, q = [p EXCEPT !.live = FALSE]
      PROVE  /\ q \in Request /\ ~q.live /\ q.worker = p.worker
             /\ q.action = p.action /\ q.job = p.job /\ q.generation = p.generation
  BY <1>3 DEF Request
<1> QED
  BY <1>1, <1>2, <1>3

LEMMA LoseConnectionIInv ==
  ASSUME IInv, NEW w \in Workers, LoseConnection(w) PROVE IInv'
<1> DEFINE s == IF worker[w].pc = "running" THEN [worker[w] EXCEPT !.pc = "dying"]
                ELSE [Idle EXCEPT !.pc = "off"]
<1>1. Types /\ WorkerConsistent(w, worker[w]) /\ worker[w] \in Worker
  BY StateOf DEF IInv
<1>2. /\ Fault /\ ReturnHeld(w) /\ requests' = Abandoned(w)
      /\ worker' = [worker EXCEPT ![w] = s]
      /\ UNCHANGED <<row, outbox, dispatcher>>
  BY DEF LoseConnection
<1>3. CASE worker[w].pc = "running"
  <2>1. /\ s \in Worker /\ s.pc = "dying" /\ s.message = worker[w].message
        /\ s.message \in Message
    BY <1>1, <1>3 DEF Worker, Types
  <2> HIDE DEF s
  <2>2. WorkerConsistent(w, s)
    BY <1>1, <1>3, <2>1 DEF WorkerConsistent, Executing
  <2>3. ASSUME NEW q \in Abandoned(w), q.worker = w PROVE RequestConsistent(q, s)
    <3>1. PICK p \in requests :
            /\ q.worker = p.worker /\ q.action = p.action
            /\ q.job = p.job /\ q.generation = p.generation
      BY AbandonedRequests
    <3>2. ~q.live /\ RequestConsistent(p, worker[w])
      BY <2>3, <3>1, AbandonedRequests, OthersRequests
    <3> QED
      BY <1>3, <2>1, <3>1, <3>2 DEF RequestConsistent, Executing
  <2> QED
    BY <1>1, <1>2, <2>1, <2>2, <2>3, AbandonedRequests, ReturnHeldTraffic, Losses,
       OthersRequests, OnlyWorker
<1>4. CASE worker[w].pc # "running"
  <2>1. s \in Worker /\ s.pc = "off"
    BY <1>4, IdleType
  <2> HIDE DEF s
  <2>2. WorkerConsistent(w, s)
    BY <2>1, AtRest
  <2>3. ASSUME NEW q \in Abandoned(w), q.worker = w PROVE RequestConsistent(q, s)
    <3>1. PICK p \in requests :
            /\ q.worker = p.worker /\ q.action = p.action
            /\ q.job = p.job /\ q.generation = p.generation
      BY AbandonedRequests
    <3>2. ~q.live /\ RequestConsistent(p, worker[w])
      BY <2>3, <3>1, AbandonedRequests, OthersRequests
    <3> QED
      BY <2>1, <3>1, <3>2 DEF RequestConsistent, Executing
  <2> QED
    BY <1>1, <1>2, <2>1, <2>2, <2>3, AbandonedRequests, ReturnHeldTraffic, Losses,
       OthersRequests, OnlyWorker
<1> QED
  BY <1>3, <1>4

LEMMA AskIInv ==
  ASSUME IInv, NEW w \in Workers, NEW m \in Message, NEW action \in Actions,
         Ask(w, m, action),
         worker[w].pc \notin {"claiming", "reporting"} \/ worker[w].answer # "none",
         Issued(m.job, m.generation),
         action # "claim" => Past(m.job, m.generation),
         UNCHANGED <<row, outbox, dispatcher, queue, dead, held, losses>>
  PROVE  IInv'
<1> DEFINE s == [pc |-> IF action = "claim" THEN "claiming" ELSE "reporting",
                 message |-> m, action |-> action, answer |-> "none"]
           r == [worker |-> w, action |-> action, job |-> m.job,
                 generation |-> m.generation, live |-> TRUE]
<1>1. Types /\ requests \subseteq Request
  BY DEF IInv, Types
<1>2. worker' = [worker EXCEPT ![w] = s] /\ requests' = requests \cup {r}
  BY DEF Ask
<1>3. /\ s \in Worker /\ s.message = m /\ s.answer = "none" /\ s.action = action
      /\ s.pc = IF action = "claim" THEN "claiming" ELSE "reporting"
  BY DEF Worker, Answers
<1>4. /\ r \in Request /\ r.worker = w /\ r.action = action /\ r.job = m.job
      /\ r.generation = m.generation /\ r.live
  BY MessageFields DEF Request
<1> HIDE DEF s, r
<1>5. ~Executing(s)
  BY <1>3 DEF Executing
<1>6. WorkerConsistent(w, s)
  BY <1>3, <1>5 DEF WorkerConsistent
<1>7. RequestConsistent(r, s)
  BY <1>3, <1>4, <1>5 DEF RequestConsistent
<1>8. ASSUME NEW q \in requests, q.worker = w PROVE RequestConsistent(q, s)
  <2>1. ~q.live /\ RequestConsistent(q, worker[w])
    BY <1>8, NoLiveRequest, OthersRequests
  <2> QED
    BY <1>5, <2>1 DEF RequestConsistent
<1>9. /\ requests' \subseteq Request
      /\ \A q \in requests' : q.worker = w => RequestConsistent(q, s)
      /\ \A q \in requests' : q.worker # w => RequestConsistent(q, worker[q.worker])
  BY <1>1, <1>2, <1>4, <1>7, <1>8, OthersRequests
<1>10. losses' \in 0..MaxLosses /\ losses' >= losses
  BY <1>1, Losses
<1>11. s.message \in Message
  BY <1>3
<1> QED
  BY <1>1, <1>2, <1>3, <1>6, <1>9, <1>10, <1>11, NothingMoves, OnlyWorker

LEMMA HeldMessage ==
  ASSUME IInv, NEW w \in Workers, NEW m \in held[w]
  PROVE  m \in Message /\ m \in Messages /\ Issued(m.job, m.generation)
<1>1. m \in Message /\ m \in Messages
  BY MessageParts DEF IInv, Types
<1>2. EntryConsistent(m.job, m.generation) /\ Copies(m.job, m.generation) # {}
  BY <1>1, MessageFields, SomeCopy DEF IInv
<1> QED
  BY <1>1, <1>2 DEF EntryConsistent

LEMMA StartClaimIInv ==
  ASSUME IInv, NEW w \in Workers, NEW m \in held[w], StartClaim(w, m) PROVE IInv'
<1>1. worker[w].pc = "idle" /\ Ask(w, m, "claim")
      /\ UNCHANGED <<row, outbox, dispatcher, queue, dead, held, losses>>
  BY DEF StartClaim
<1> QED
  BY <1>1, HeldMessage, AskIInv DEF Actions

\* Of the grant in hand.
LEMMA GrantInHand ==
  ASSUME IInv, NEW w \in Workers, Executing(worker[w])
  PROVE  LET m == worker[w].message IN
         m \in Message /\ Issued(m.job, m.generation) /\ Past(m.job, m.generation)
<1>1. WorkerConsistent(w, worker[w]) /\ Types
  BY DEF IInv
<1> QED
  BY <1>1 DEF WorkerConsistent, Executing, Past, Types

LEMMA GiveBackGrantIInv ==
  ASSUME IInv, NEW w \in Workers, GiveBackGrant(w) PROVE IInv'
<1>1. worker[w].pc = "claiming" /\ worker[w].answer = "granted"
      /\ UNCHANGED <<row, outbox, dispatcher, queue, dead, held, losses>>
  BY DEF GiveBackGrant
<1>2. PICK action \in {"retry", "yield"} : Ask(w, worker[w].message, action)
  BY DEF GiveBackGrant
<1>3. Executing(worker[w])
  BY <1>1 DEF Executing
<1> QED
  BY <1>1, <1>2, <1>3, GrantInHand, AskIInv DEF Actions

LEMMA EndEngineIInv ==
  ASSUME IInv, NEW w \in Workers, NEW action \in Actions \ {"claim"},
         EndEngine(w, action)
  PROVE  IInv'
<1>1. worker[w].pc = "running" /\ Ask(w, worker[w].message, action)
      /\ UNCHANGED <<row, outbox, dispatcher, queue, dead, held, losses>>
  BY DEF EndEngine
<1>2. Executing(worker[w])
  BY <1>1 DEF Executing
<1> QED
  BY <1>1, <1>2, GrantInHand, AskIInv

LEMMA StartEngineIInv ==
  ASSUME IInv, NEW w \in Workers, StartEngine(w) PROVE IInv'
<1> DEFINE s == [worker[w] EXCEPT !.pc = "running", !.answer = "none"]
<1>1. Types /\ requests \subseteq Request /\ worker[w] \in Worker
      /\ WorkerConsistent(w, worker[w])
  BY StateOf DEF IInv, Types
<1>2. /\ worker[w].pc = "claiming" /\ worker[w].answer = "granted"
      /\ LeaseStands(worker[w].message)
      /\ UNCHANGED <<row, outbox, dispatcher, queue, dead, held, requests, losses>>
  BY DEF StartEngine
<1>3. s \in Worker /\ s.pc = "running" /\ s.message = worker[w].message
  BY <1>1 DEF Worker, Answers
<1>4. worker' = [worker EXCEPT ![w] = s]
  BY <1>1 DEF StartEngine, Worker
<1> HIDE DEF s
<1>5. s.message \in Message /\ s.message.generation \in Nat
  BY <1>1, <1>2, <1>3, MessageFields DEF Types, Generations
<1>6. WorkerConsistent(w, s)
  BY <1>1, <1>2, <1>3, <1>5 DEF WorkerConsistent, Executing, LeaseStands
<1>7. ASSUME NEW q \in requests, q.worker = w PROVE RequestConsistent(q, s)
  <2>1. ~q.live /\ RequestConsistent(q, worker[w])
    BY <1>2, <1>7, NoLiveRequest, OthersRequests
  <2> QED
    BY <1>2, <1>3, <2>1 DEF RequestConsistent, Executing
<1> QED
  BY <1>1, <1>2, <1>3, <1>4, <1>5, <1>6, <1>7, NothingMoves, Losses, OthersRequests,
     OnlyWorker

LEMMA AcknowledgeTraffic ==
  ASSUME IInv, NEW w \in Workers, Acknowledge(w)
  PROVE  /\ held' \in [Workers -> SUBSET {m \in Message : m.returns <= DeliveryLimit}]
         /\ Traffic
<1> PICK m : m = worker[w].message
  OBVIOUS
<1>1. /\ worker[w].pc \in {"claiming", "reporting"} /\ worker[w].answer = "settled"
      /\ held' = [held EXCEPT ![w] = @ \ {m}] /\ UNCHANGED <<queue, dead>>
  BY DEF Acknowledge, Acknowledgeable
<1>2. Types /\ WorkerConsistent(w, worker[w])
  BY DEF IInv
<1>3. m \in Message /\ Past(m.job, m.generation)
  BY <1>1, <1>2 DEF WorkerConsistent, Types
<1>4. /\ held' \in [Workers -> SUBSET {n \in Message : n.returns <= DeliveryLimit}]
      /\ held'[w] = held[w] \ {m} /\ \A o \in Workers : o # w => held'[o] = held[o]
  BY <1>1, <1>2 DEF Types
<1>5. \A n : n \in Messages' <=> n \in queue' \/ n \in dead' \/ \E o \in Workers : n \in held'[o]
  BY DEF Messages
<1>6. \A n : (n \in Messages' => n \in Messages) /\ (n \in Messages /\ n # m => n \in Messages')
  BY <1>1, <1>4, <1>5, MessageParts
<1>7. ASSUME NEW j \in Jobs, NEW g \in Generations
      PROVE  Copies(j, g)' \subseteq Copies(j, g) /\ (Copies(j, g)' = Copies(j, g) \/ Past(j, g))
  <2>1. \A c : c \in Copies(j, g)' <=>
          \E n \in Messages' : n.job = j /\ n.generation = g /\ n.copy = c
    BY DEF Copies
  <2>2. Copies(j, g)' \subseteq Copies(j, g)
    BY <1>6, <2>1, CopyOf
  <2>3. ~Past(j, g) => Copies(j, g) \subseteq Copies(j, g)'
    BY <1>3, <1>6, <2>1, CopyOf
  <2> QED
    BY <2>2, <2>3
<1> QED
  BY <1>4, <1>7 DEF Traffic

LEMMA AcknowledgeIInv ==
  ASSUME IInv, NEW w \in Workers, Acknowledge(w) PROVE IInv'
<1>1. worker[w].answer = "settled" /\ worker' = [worker EXCEPT ![w] = Idle]
      /\ UNCHANGED <<row, outbox, dispatcher, queue, dead, requests, losses>>
  BY DEF Acknowledge, Acknowledgeable
<1>2. \A q \in requests : q.worker = w => ~q.live
  BY <1>1, NoLiveRequest
<1>3. queue' \subseteq {m \in Message : m.returns <= DeliveryLimit} /\ dead' \subseteq Message
  BY <1>1 DEF IInv, Types
<1> QED
  BY <1>1, <1>2, <1>3, IdleType, AcknowledgeTraffic, Rests

LEMMA DeliverTraffic ==
  ASSUME Types, NEW w \in Workers, NEW m \in queue, Deliver(w, m)
  PROVE  /\ queue' \subseteq {n \in Message : n.returns <= DeliveryLimit}
         /\ held' \in [Workers -> SUBSET {n \in Message : n.returns <= DeliveryLimit}]
         /\ Traffic
<1>1. /\ queue' = queue \ {m} /\ held' = [held EXCEPT ![w] = @ \cup {m}]
      /\ UNCHANGED dead
  BY DEF Deliver
<1>2. /\ held' \in [Workers -> SUBSET {n \in Message : n.returns <= DeliveryLimit}]
      /\ held'[w] = held[w] \cup {m} /\ \A o \in Workers : o # w => held'[o] = held[o]
  BY <1>1 DEF Types
<1>3. \A n : n \in Messages' <=> n \in queue' \/ n \in dead' \/ \E o \in Workers : n \in held'[o]
  BY DEF Messages
<1>4. Messages' = Messages
  BY <1>1, <1>2, <1>3, MessageParts
<1> QED
  BY <1>1, <1>2, <1>4, MovedTraffic DEF Types

LEMMA DeliverIInv ==
  ASSUME IInv, NEW w \in Workers, NEW m \in queue, Deliver(w, m) PROVE IInv'
<1>1. Types
  BY DEF IInv
<1>2. UNCHANGED <<row, outbox, dispatcher, dead, worker, requests, losses>>
  BY DEF Deliver
<1>3. Types' /\ Traffic
  BY <1>1, <1>2, DeliverTraffic DEF Types
<1>4. losses' >= losses
  BY <1>1, <1>2, Losses
<1>5. ASSUME NEW o \in Workers PROVE WorkerConsistent(o, worker[o])'
  BY <1>2 DEF IInv, WorkerConsistent, Issued, Past
<1>6. ASSUME NEW q \in requests' PROVE RequestConsistent(q, worker[q.worker])'
  BY <1>2 DEF IInv, RequestConsistent, Issued, Past
<1> QED
  BY <1>2, <1>3, <1>4, <1>5, <1>6, BrokerMoves

LEMMA WorkIInv == ASSUME IInv, NEW w \in Workers, Work(w) PROVE IInv'
BY DeliverIInv, StartClaimIInv, EndEngineIInv, ConnectIInv, StartEngineIInv,
   GiveBackGrantIInv, DeferIInv, AcknowledgeIInv, LoseConnectionIInv, TimeOutIInv,
   EngineDiesIInv
DEF Work
-----------------------------------------------------------------------------
(* The steps of the dispatchers.                                           *)

LEMMA EntryFields ==
  ASSUME Types, NEW j \in Jobs, NEW g \in Generations
  PROVE  outbox[j][g] \in Entry
BY DEF Types

\* Dispatcher d works at generation g of job j, or at nothing.
At1(d, j, g) ==
  dispatcher[d].pc = "idle" \/ (dispatcher[d].job = j /\ dispatcher[d].generation = g)

\* A step of dispatcher d at generation g of job j.
OneDispatcher(d, j, g) ==
  /\ UNCHANGED <<row, worker, requests>> /\ losses' >= losses
  /\ \A o \in Dispatchers : o # d => dispatcher'[o] = dispatcher[o]
  /\ At1(d, j, g) /\ At1(d, j, g)'
  /\ \A x \in Jobs, y \in Generations : x # j \/ y # g =>
       outbox'[x][y] = outbox[x][y] /\ Copies(x, y)' = Copies(x, y)
  /\ Copies(j, g) \subseteq Copies(j, g)'

LEMMA Elsewhere ==
  ASSUME NEW d \in Dispatchers, NEW j \in Jobs, NEW g \in Generations,
         OneDispatcher(d, j, g), NEW x \in Jobs, NEW y \in Generations, x # j \/ y # g
  PROVE  Publishers(x, y)' = Publishers(x, y) /\ ToPublish(x, y)' = ToPublish(x, y)
<1>1. Publishers(x, y)' = Publishers(x, y)
  BY DEF Publishers, OneDispatcher, At1
<1>2. Lockers(x, y)' = Lockers(x, y)
  BY DEF Lockers, OneDispatcher, At1
<1> QED
  BY <1>1, <1>2 DEF ToPublish, OneDispatcher

LEMMA DispatchMoves ==
  ASSUME IInv, NEW d \in Dispatchers, NEW j \in Jobs, NEW g \in Generations, Types',
         OneDispatcher(d, j, g), EntryConsistent(j, g)', CopiesCounted(j, g)',
         DispatcherConsistent(d)',
         row[j].status = "queued" /\ row[j].generation = g =>
           outbox'[j][g].state \in {"pending", "publishing"} \/ Copies(j, g)' # {}
  PROVE  IInv'
<1>1. Types /\ Types' /\ QueuedIsReachable
  BY DEF IInv
<1>2. \A x \in Jobs : RowConsistent(x)'
  BY DEF IInv, RowConsistent, OneDispatcher
<1>3. ASSUME NEW x \in Jobs, NEW y \in Generations
      PROVE  EntryConsistent(x, y)' /\ CopiesCounted(x, y)'
  <2>1. CASE x = j /\ y = g
    BY <2>1
  <2>2. CASE x # j \/ y # g
    <3>1. EntryConsistent(x, y) /\ CopiesCounted(x, y)
      BY DEF IInv
    <3>2. /\ outbox'[x][y] = outbox[x][y] /\ Copies(x, y)' = Copies(x, y)
          /\ row' = row /\ losses' >= losses
      BY <2>2 DEF OneDispatcher
    <3>3. Publishers(x, y)' = Publishers(x, y) /\ ToPublish(x, y)' = ToPublish(x, y)
      BY <2>2, Elsewhere
    <3>4. /\ Cardinality(Copies(x, y)) \in Nat /\ Cardinality(Publishers(x, y)) \in Nat
          /\ ToPublish(x, y) \in Nat /\ losses \in Nat /\ losses' \in Nat
      BY <1>1, CopiesFinite, PublishersFinite, PoolAssumption DEF ToPublish, Types
    <3> QED
      BY <3>1, <3>2, <3>3, <3>4 DEF EntryConsistent, CopiesCounted, Issued
  <2> QED
    BY <2>1, <2>2
<1>4. \A x \in Jobs, y \in Generations : Copies(x, y) \subseteq Copies(x, y)'
  BY DEF OneDispatcher
<1>5. ASSUME NEW o \in Dispatchers, o # d PROVE DispatcherConsistent(o)'
  <2>1. PICK x, y : x = dispatcher[o].job /\ y = dispatcher[o].generation
    OBVIOUS
  <2>2. DispatcherConsistent(o) /\ dispatcher'[o] = dispatcher[o] /\ row' = row
        /\ (dispatcher[o].pc # "idle" => x \in Jobs /\ y \in Generations)
    BY <1>1, <1>5, <2>1 DEF IInv, OneDispatcher, Types
  <2>3. dispatcher[o].pc = "sent" => Past(x, y) \/ Copies(x, y)' # {}
    BY <1>4, <2>1, <2>2 DEF DispatcherConsistent
  <2> QED
    BY <2>1, <2>2, <2>3 DEF DispatcherConsistent, Issued, Past
<1>6. \A w \in Workers : WorkerConsistent(w, worker[w])'
  BY DEF IInv, OneDispatcher, WorkerConsistent, Issued, Past
<1>7. \A q \in requests' : RequestConsistent(q, worker[q.worker])'
  BY DEF IInv, OneDispatcher, RequestConsistent, Issued, Past
<1>8. QueuedIsReachable'
  <2> SUFFICES ASSUME NEW x \in Jobs, row[x].status = "queued",
                      outbox'[x][row[x].generation].state \notin {"pending", "publishing"}
               PROVE  \E m \in Messages' : m.job = x /\ m.generation = row[x].generation
    BY DEF QueuedIsReachable, OneDispatcher
  <2>1. PICK y \in Generations : y = row[x].generation
    BY QueuedGeneration
  <2>2. CASE x = j /\ y = g
    BY <2>1, <2>2 DEF Copies
  <2>3. CASE x # j \/ y # g
    <3>1. outbox'[x][y] = outbox[x][y] /\ Copies(x, y)' = Copies(x, y)
      BY <2>3 DEF OneDispatcher
    <3>2. Copies(x, y) # {}
      BY <1>1, <2>1, <3>1, SomeCopy DEF QueuedIsReachable
    <3> QED
      BY <2>1, <3>1, <3>2 DEF Copies
  <2> QED
    BY <2>2, <2>3
<1> QED
  BY <1>2, <1>3, <1>5, <1>6, <1>7, <1>8 DEF IInv

\* The messages do not change.
LEMMA NoCopy ==
  ASSUME UNCHANGED <<queue, dead, held>>
  PROVE  \A x, y : Copies(x, y)' = Copies(x, y)
BY SameTraffic

LEMMA Numbers ==
  ASSUME Types, NEW j \in Jobs, NEW g \in Generations
  PROVE  /\ Cardinality(Copies(j, g)) \in Nat /\ Cardinality(Publishers(j, g)) \in Nat
         /\ ToPublish(j, g) \in {0, 1} /\ losses \in Nat
BY CopiesFinite, PublishersFinite, PoolAssumption DEF ToPublish, Types

LEMMA LockIInv ==
  ASSUME IInv, NEW d \in Dispatchers, NEW j \in Jobs, NEW g \in Generations, Lock(d, j, g)
  PROVE  IInv'
<1> DEFINE e == [state |-> "publishing", token |-> d]
           s == [pc |-> "locked", job |-> j, generation |-> g]
<1>1. /\ Types /\ EntryConsistent(j, g) /\ CopiesCounted(j, g)
      /\ outbox[j] \in [Generations -> Entry]
  BY DEF IInv, Types
<1>2. /\ dispatcher[d].pc = "idle" /\ Lockable(j, g)
      /\ outbox' = [outbox EXCEPT ![j][g] = e] /\ dispatcher' = [dispatcher EXCEPT ![d] = s]
      /\ UNCHANGED <<row, queue, dead, held, worker, requests>>
      /\ Fault \/ (Lockers(j, g) = {} /\ UNCHANGED losses)
  BY DEF Lock
<1>3. e \in Entry /\ s \in Dispatcher
  BY DEF Entry, Dispatcher, Generations
<1>4. /\ outbox' \in [Jobs -> [Generations -> Entry]] /\ outbox'[j][g] = e
      /\ \A x \in Jobs, y \in Generations : x # j \/ y # g => outbox'[x][y] = outbox[x][y]
  BY <1>1, <1>2, <1>3 DEF Types
<1>5. /\ dispatcher' \in [Dispatchers -> Dispatcher] /\ dispatcher'[d] = s
      /\ \A o \in Dispatchers : o # d => dispatcher'[o] = dispatcher[o]
  BY <1>1, <1>2, <1>3 DEF Types
<1>6. e.state = "publishing" /\ e.token = d
      /\ s.pc = "locked" /\ s.job = j /\ s.generation = g
  OBVIOUS
<1> HIDE DEF e, s
<1>7. losses' \in 0..MaxLosses /\ losses' >= losses
  BY <1>1, <1>2, Losses
<1>8. Types'
  BY <1>1, <1>2, <1>4, <1>5, <1>6, <1>7 DEF Types
<1>9. \A x, y : Copies(x, y)' = Copies(x, y)
  BY <1>2, NoCopy
<1>10. OneDispatcher(d, j, g)
  BY <1>2, <1>4, <1>5, <1>6, <1>7, <1>9 DEF OneDispatcher, At1
<1>11. Issued(j, g)
  BY <1>1, <1>2 DEF EntryConsistent, Lockable
<1>12. EntryConsistent(j, g)' /\ DispatcherConsistent(d)'
  BY <1>2, <1>4, <1>5, <1>6, <1>11 DEF EntryConsistent, DispatcherConsistent, Issued
<1>13. CopiesCounted(j, g)'
  <2>1. d \in Lockers(j, g)'
    BY <1>4, <1>5, <1>6 DEF Lockers
  <2>2. ToPublish(j, g)' = 0
    BY <1>4, <1>6, <2>1 DEF ToPublish
  <2>3. Publishers(j, g)' = Publishers(j, g) \cup {d} /\ d \notin Publishers(j, g)
    BY <1>2, <1>5, <1>6 DEF Publishers
  <2>4. Cardinality(Publishers(j, g)') = Cardinality(Publishers(j, g)) + 1
    BY <2>3, PublishersFinite, FS_AddElement
  <2>5. losses' = losses + 1 \/ (losses' = losses /\ ToPublish(j, g) = 1)
    BY <1>2 DEF Fault, ToPublish, Lockable
  <2> QED
    BY <1>1, <1>9, <2>2, <2>4, <2>5, Numbers DEF CopiesCounted
<1>14. outbox'[j][g].state \in {"pending", "publishing"}
  BY <1>4, <1>6
<1> QED
  BY <1>8, <1>10, <1>12, <1>13, <1>14, DispatchMoves

\* What a dispatcher at work has.
LEMMA Working ==
  ASSUME IInv, NEW d \in Dispatchers, dispatcher[d].pc # "idle"
  PROVE  \E j \in Jobs, g \in Generations :
           /\ dispatcher[d].job = j /\ dispatcher[d].generation = g
           /\ EntryConsistent(j, g) /\ CopiesCounted(j, g) /\ Issued(j, g)
           /\ dispatcher[d].pc = "sent" => Past(j, g) \/ Copies(j, g) # {}
BY DEF IInv, Types, DispatcherConsistent

LEMMA DispatcherGoes ==
  ASSUME Types, NEW d \in Dispatchers, NEW pc \in {"locked", "publishing", "sent", "failed"},
         At(d, pc), dispatcher[d].pc # "idle"
  PROVE  /\ dispatcher' \in [Dispatchers -> Dispatcher]
         /\ dispatcher'[d].pc = pc /\ dispatcher'[d].job = dispatcher[d].job
         /\ dispatcher'[d].generation = dispatcher[d].generation
         /\ \A o \in Dispatchers : o # d => dispatcher'[o] = dispatcher[o]
         /\ \A o \in Dispatchers : dispatcher'[o].pc # "idle" =>
              dispatcher'[o].job \in Jobs /\ dispatcher'[o].generation \in Generations
<1> DEFINE s == [dispatcher[d] EXCEPT !.pc = pc]
<1>1. dispatcher[d] \in Dispatcher
  BY DEF Types
<1>2. /\ s \in Dispatcher /\ s.pc = pc /\ s.job = dispatcher[d].job
      /\ s.generation = dispatcher[d].generation
  BY <1>1 DEF Dispatcher
<1>3. dispatcher' = [dispatcher EXCEPT ![d] = s]
  BY DEF At
<1> HIDE DEF s
<1> QED
  BY <1>2, <1>3 DEF Types

LEMMA ReadJobIInv == ASSUME IInv, NEW d \in Dispatchers, ReadJob(d) PROVE IInv'
<1>1. Types /\ QueuedIsReachable
  BY DEF IInv
<1>2. /\ dispatcher[d].pc = "locked"
      /\ UNCHANGED <<row, outbox, queue, dead, held, worker, requests, losses>>
  BY DEF ReadJob
<1>3. PICK j \in Jobs, g \in Generations :
        /\ dispatcher[d].job = j /\ dispatcher[d].generation = g
        /\ EntryConsistent(j, g) /\ CopiesCounted(j, g) /\ Issued(j, g)
  BY <1>2, Working
<1>4. PICK pc \in {"publishing", "sent"} :
        At(d, pc) /\ (pc = "sent" =>
                       ~(row[j].status = "queued" /\ row[j].generation = g))
  BY <1>3 DEF ReadJob
<1>5. /\ dispatcher' \in [Dispatchers -> Dispatcher]
      /\ dispatcher'[d].pc = pc /\ dispatcher'[d].job = j
      /\ dispatcher'[d].generation = g
      /\ \A o \in Dispatchers : o # d => dispatcher'[o] = dispatcher[o]
      /\ \A o \in Dispatchers : dispatcher'[o].pc # "idle" =>
           dispatcher'[o].job \in Jobs /\ dispatcher'[o].generation \in Generations
  BY <1>1, <1>2, <1>3, <1>4, DispatcherGoes
<1>6. Types'
  BY <1>1, <1>2, <1>5 DEF Types
<1>7. \A x, y : Copies(x, y)' = Copies(x, y)
  BY <1>2, NoCopy
<1>8. OneDispatcher(d, j, g)
  BY <1>1, <1>2, <1>3, <1>5, <1>7, Losses DEF OneDispatcher, At1
<1>9. pc = "sent" => Past(j, g)
  <2>1. g \in Nat \ {0} /\ row[j].generation \in Nat /\ RowConsistent(j)
    BY <1>1, RowFields DEF Generations, IInv
  <2> QED
    BY <1>3, <1>4, <2>1 DEF Past, Issued, RowConsistent
<1>10. EntryConsistent(j, g)' /\ DispatcherConsistent(d)'
  BY <1>2, <1>3, <1>5, <1>7, <1>9
  DEF EntryConsistent, DispatcherConsistent, Issued, Past
<1>11. CopiesCounted(j, g)'
  <2>1. Lockers(j, g)' = Lockers(j, g)
    BY <1>2, <1>3, <1>4, <1>5 DEF Lockers
  <2>2. ToPublish(j, g)' = ToPublish(j, g)
    BY <1>2, <2>1 DEF ToPublish
  <2>3. Publishers(j, g)' \subseteq Publishers(j, g)
    BY <1>2, <1>3, <1>4, <1>5 DEF Publishers
  <2>4. Cardinality(Publishers(j, g)') <= Cardinality(Publishers(j, g))
        /\ Cardinality(Publishers(j, g)') \in Nat
    BY <2>3, PublishersFinite, FS_Subset, FS_CardinalityType
  <2> QED
    BY <1>1, <1>2, <1>3, <1>7, <2>2, <2>4, Numbers DEF CopiesCounted
<1>12. row[j].status = "queued" /\ row[j].generation = g =>
         outbox'[j][g].state \in {"pending", "publishing"} \/ Copies(j, g)' # {}
  BY <1>1, <1>2, <1>7, SomeCopy DEF QueuedIsReachable
<1> QED
  BY <1>6, <1>8, <1>10, <1>11, <1>12, DispatchMoves

\* A copy that is not on its way yet can be told from those that are.
LEMMA FreshCopy ==
  ASSUME Types, NEW j \in Jobs, NEW g \in Generations,
         Cardinality(Copies(j, g)) <= MaxLosses
  PROVE  /\ Published(j, g) \in Message
         /\ Published(j, g).job = j /\ Published(j, g).generation = g
         /\ Published(j, g).returns = 0 /\ Published(j, g).copy \notin Copies(j, g)
<1> DEFINE n == Cardinality(Copies(j, g))
           c == CHOOSE x \in 1..(n + 1) : x \notin Copies(j, g)
<1>1. IsFiniteSet(Copies(j, g)) /\ n \in Nat
  BY CopiesFinite
<1>2. IsFiniteSet(1..(n + 1)) /\ Cardinality(1..(n + 1)) = n + 1
  BY <1>1, FS_Interval
<1>3. ~(1..(n + 1) \subseteq Copies(j, g))
  <2>1. (1..(n + 1) \subseteq Copies(j, g)) => Cardinality(1..(n + 1)) <= n
    BY <1>1, FS_Subset
  <2> QED
    BY <1>1, <1>2, <2>1
<1>4. c \in 1..(n + 1) /\ c \notin Copies(j, g)
  BY <1>3
<1>5. Published(j, g) = [job |-> j, generation |-> g, returns |-> 0, copy |-> c]
  BY DEF Published, Copies
<1>6. n + 1 <= MaxLosses + 1 /\ DeliveryLimit \in Nat /\ MaxLosses \in Nat
  BY <1>1, PoolAssumption
<1>7. c \in 1..(MaxLosses + 1) /\ 0 \in 0..(DeliveryLimit + 1)
  BY <1>1, <1>4, <1>6
<1> HIDE DEF c
<1> QED
  BY <1>4, <1>5, <1>7 DEF Message

LEMMA Publication ==
  ASSUME Types, NEW j \in Jobs, NEW g \in Generations,
         Cardinality(Copies(j, g)) <= MaxLosses,
         queue' = queue \cup {Published(j, g)}, UNCHANGED <<dead, held>>
  PROVE  /\ queue' \subseteq {m \in Message : m.returns <= DeliveryLimit}
         /\ Copies(j, g) \subseteq Copies(j, g)' /\ Copies(j, g)' # {}
         /\ Cardinality(Copies(j, g)') = Cardinality(Copies(j, g)) + 1
         /\ \A x \in Jobs, y \in Generations : x # j \/ y # g =>
              Copies(x, y)' = Copies(x, y)
<1>1. PICK m \in Message : /\ m = Published(j, g) /\ m.job = j /\ m.generation = g
                           /\ m.returns = 0 /\ m.copy \notin Copies(j, g)
  BY FreshCopy
<1>2. \A n : n \in Messages' <=> n \in Messages \/ n = m
  BY <1>1 DEF Messages
<1>3. \A x, y, c : c \in Copies(x, y)' <=>
         \E n \in Messages' : n.job = x /\ n.generation = y /\ n.copy = c
  BY DEF Copies
<1>4. \A c : c \in Copies(j, g)' <=> c \in Copies(j, g) \/ c = m.copy
  BY <1>1, <1>2, <1>3, CopyOf
<1>5. Copies(j, g)' = Copies(j, g) \cup {m.copy}
  BY <1>4
<1>6. Cardinality(Copies(j, g)') = Cardinality(Copies(j, g)) + 1
  <2>1. PICK S : S = Copies(j, g) /\ IsFiniteSet(S) /\ m.copy \notin S
    BY <1>1, CopiesFinite
  <2>2. Cardinality(S \cup {m.copy}) = Cardinality(S) + 1
    BY <2>1, FS_AddElement
  <2> QED
    BY <1>5, <2>1, <2>2
<1>7. ASSUME NEW x \in Jobs, NEW y \in Generations, x # j \/ y # g
      PROVE  Copies(x, y)' = Copies(x, y)
  <2>1. \A c : c \in Copies(x, y)' <=> c \in Copies(x, y)
    BY <1>1, <1>2, <1>3, <1>7, CopyOf
  <2> QED
    BY <2>1
<1>8. queue' \subseteq {n \in Message : n.returns <= DeliveryLimit}
  BY <1>1, PoolAssumption DEF Types
<1> QED
  BY <1>5, <1>6, <1>7, <1>8

\* The end of a publication: its dispatcher goes on to pc, and may have added
\* a copy; a failure costs a fault.
LEMMA PublishIInv ==
  ASSUME IInv, NEW d \in Dispatchers, NEW pc \in {"sent", "failed"},
         dispatcher[d].pc = "publishing", At(d, pc),
         Enqueue(d) \/ (pc = "failed" /\ UNCHANGED queue),
         pc = "sent" => UNCHANGED losses, pc = "failed" => Fault,
         UNCHANGED <<row, outbox, dead, held, worker, requests>>
  PROVE  IInv'
<1>1. Types /\ QueuedIsReachable
  BY DEF IInv
<1>2. PICK j \in Jobs, g \in Generations :
        /\ dispatcher[d].job = j /\ dispatcher[d].generation = g
        /\ EntryConsistent(j, g) /\ CopiesCounted(j, g) /\ Issued(j, g)
  BY Working
<1>3. /\ dispatcher' \in [Dispatchers -> Dispatcher]
      /\ dispatcher'[d].pc = pc /\ dispatcher'[d].job = j
      /\ dispatcher'[d].generation = g
      /\ \A o \in Dispatchers : o # d => dispatcher'[o] = dispatcher[o]
      /\ \A o \in Dispatchers : dispatcher'[o].pc # "idle" =>
           dispatcher'[o].job \in Jobs /\ dispatcher'[o].generation \in Generations
  BY <1>1, <1>2, DispatcherGoes
<1>4. losses' \in 0..MaxLosses /\ losses' >= losses
  BY <1>1, Losses
<1>5. d \in Publishers(j, g)
  BY <1>2 DEF Publishers
<1>6. Cardinality(Publishers(j, g)) >= 1
  BY <1>5, PublishersFinite, FS_EmptySet
<1>7. Cardinality(Copies(j, g)) <= MaxLosses
  BY <1>1, <1>2, <1>6, Numbers, PoolAssumption DEF CopiesCounted, Types
<1>8. /\ queue' \subseteq {m \in Message : m.returns <= DeliveryLimit}
      /\ Copies(j, g) \subseteq Copies(j, g)'
      /\ \A x \in Jobs, y \in Generations : x # j \/ y # g =>
           Copies(x, y)' = Copies(x, y)
  <2>1. CASE Enqueue(d)
    BY <1>1, <1>2, <1>7, <2>1, Publication DEF Enqueue
  <2>2. CASE UNCHANGED queue
    BY <1>1, <2>2, NoCopy DEF Types
  <2> QED
    BY <2>1, <2>2
<1>9. /\ Cardinality(Copies(j, g)') \in {Cardinality(Copies(j, g)), Cardinality(Copies(j, g)) + 1}
      /\ pc = "sent" => Copies(j, g)' # {}
  <2>1. CASE Enqueue(d)
    BY <1>1, <1>2, <1>7, <2>1, Publication DEF Enqueue
  <2>2. CASE pc = "failed" /\ UNCHANGED queue
    BY <2>2, NoCopy
  <2> QED
    BY <2>1, <2>2
<1>10. Types'
  BY <1>1, <1>3, <1>4, <1>8 DEF Types
<1>11. OneDispatcher(d, j, g)
  BY <1>2, <1>3, <1>4, <1>8 DEF OneDispatcher, At1
<1>12. EntryConsistent(j, g)' /\ DispatcherConsistent(d)'
  BY <1>2, <1>3, <1>9 DEF EntryConsistent, DispatcherConsistent, Issued
<1>13. CopiesCounted(j, g)'
  <2>1. Lockers(j, g)' = Lockers(j, g)
    BY <1>2, <1>3 DEF Lockers
  <2>2. ToPublish(j, g)' = ToPublish(j, g)
    BY <2>1 DEF ToPublish
  <2>3. CASE pc = "sent"
    <3>1. Publishers(j, g)' = Publishers(j, g) \ {d}
      BY <1>2, <1>3, <2>3 DEF Publishers
    <3>2. Cardinality(Publishers(j, g)') = Cardinality(Publishers(j, g)) - 1
      <4>1. PICK S : S = Publishers(j, g)
        OBVIOUS
      <4>2. IsFiniteSet(S) /\ d \in S
        BY <1>5, <4>1, PublishersFinite
      <4>3. Cardinality(S \ {d}) = Cardinality(S) - 1
        BY <4>2, FS_RemoveElement
      <4> QED
        BY <3>1, <4>1, <4>3
    <3> QED
      BY <1>1, <1>2, <1>9, <2>2, <2>3, <3>2, Numbers DEF CopiesCounted
  <2>4. CASE pc = "failed"
    <3>1. Publishers(j, g)' = Publishers(j, g)
      BY <1>2, <1>3, <2>4 DEF Publishers
    <3> QED
      BY <1>1, <1>2, <1>9, <2>2, <2>4, <3>1, Numbers DEF CopiesCounted, Fault
  <2> QED
    BY <2>3, <2>4
<1>14. row[j].status = "queued" /\ row[j].generation = g =>
         outbox'[j][g].state \in {"pending", "publishing"} \/ Copies(j, g)' # {}
  <2>1. row[j].status = "queued" /\ row[j].generation = g =>
          outbox[j][g].state \in {"pending", "publishing"} \/ Copies(j, g) # {}
    BY <1>1, SomeCopy DEF QueuedIsReachable
  <2> QED
    BY <1>8, <2>1
<1> QED
  BY <1>10, <1>11, <1>12, <1>13, <1>14, DispatchMoves

LEMMA Freed ==
  ASSUME Types, NEW d \in Dispatchers, dispatcher' = [dispatcher EXCEPT ![d] = Free]
  PROVE  /\ dispatcher' \in [Dispatchers -> Dispatcher] /\ dispatcher'[d].pc = "idle"
         /\ \A o \in Dispatchers : o # d => dispatcher'[o] = dispatcher[o]
         /\ \A o \in Dispatchers : dispatcher'[o].pc # "idle" =>
              dispatcher'[o].job \in Jobs /\ dispatcher'[o].generation \in Generations
<1>1. Free \in Dispatcher /\ Free.pc = "idle"
  BY PoolAssumption DEF Free, Dispatcher
<1> QED
  BY <1>1 DEF Types

LEMMA SettleIInv == ASSUME IInv, NEW d \in Dispatchers, Settle(d) PROVE IInv'
<1>1. Types /\ QueuedIsReachable
  BY DEF IInv
<1>2. /\ dispatcher[d].pc \in {"sent", "failed"}
      /\ dispatcher' = [dispatcher EXCEPT ![d] = Free]
      /\ UNCHANGED <<row, queue, dead, held, worker, requests, losses>>
  BY DEF Settle
<1>3. PICK j \in Jobs, g \in Generations :
        /\ dispatcher[d].job = j /\ dispatcher[d].generation = g
        /\ EntryConsistent(j, g) /\ CopiesCounted(j, g) /\ Issued(j, g)
        /\ dispatcher[d].pc = "sent" => Past(j, g) \/ Copies(j, g) # {}
  BY <1>2, Working
<1>4. /\ dispatcher' \in [Dispatchers -> Dispatcher] /\ dispatcher'[d].pc = "idle"
      /\ \A o \in Dispatchers : o # d => dispatcher'[o] = dispatcher[o]
      /\ \A o \in Dispatchers : dispatcher'[o].pc # "idle" =>
           dispatcher'[o].job \in Jobs /\ dispatcher'[o].generation \in Generations
  BY <1>1, <1>2, Freed
<1>5. PICK e \in Entry :
        /\ outbox' = [outbox EXCEPT ![j][g] = e]
        /\ \/ outbox[j][g].token # d /\ e = outbox[j][g]
           \/ /\ outbox[j][g].token = d /\ e.token = Nobody
              /\ e.state = IF dispatcher[d].pc = "sent" THEN "published" ELSE "pending"
  <2>1. CASE outbox[j][g].token = d
    <3> DEFINE e == [state |-> IF dispatcher[d].pc = "sent" THEN "published" ELSE "pending",
                     token |-> Nobody]
    <3>1. outbox' = [outbox EXCEPT ![j][g] = e]
      BY <1>3, <2>1 DEF Settle
    <3>2. /\ e \in Entry /\ e.token = Nobody
          /\ e.state = IF dispatcher[d].pc = "sent" THEN "published" ELSE "pending"
      BY DEF Entry
    <3> QED
      BY <2>1, <3>1, <3>2
  <2>2. CASE outbox[j][g].token # d
    <3>1. outbox' = outbox
      BY <1>3, <2>2 DEF Settle
    <3>2. outbox = [outbox EXCEPT ![j][g] = outbox[j][g]]
      BY <1>1 DEF Types
    <3> QED
      BY <1>1, <2>2, <3>1, <3>2, EntryFields
  <2> QED
    BY <2>1, <2>2
<1>6. /\ outbox' \in [Jobs -> [Generations -> Entry]] /\ outbox'[j][g] = e
      /\ \A x \in Jobs, y \in Generations : x # j \/ y # g => outbox'[x][y] = outbox[x][y]
  <2>1. outbox[j] \in [Generations -> Entry]
    BY <1>1 DEF Types
  <2> QED
    BY <1>1, <1>5, <2>1 DEF Types
<1>7. Types'
  BY <1>1, <1>2, <1>4, <1>6 DEF Types
<1>8. \A x, y : Copies(x, y)' = Copies(x, y)
  BY <1>2, NoCopy
<1>9. OneDispatcher(d, j, g)
  BY <1>1, <1>2, <1>3, <1>4, <1>6, <1>8, Losses DEF OneDispatcher, At1
<1>10. EntryConsistent(j, g)' /\ DispatcherConsistent(d)'
  BY <1>2, <1>3, <1>4, <1>5, <1>6, <1>8 DEF EntryConsistent, DispatcherConsistent, Issued
<1>11. CopiesCounted(j, g)'
  <2>1. \A o \in Dispatchers : o # d => (o \in Publishers(j, g)' <=> o \in Publishers(j, g))
    BY <1>4 DEF Publishers
  <2>2. d \notin Publishers(j, g)' /\ Publishers(j, g)' \subseteq Dispatchers
        /\ Publishers(j, g) \subseteq Dispatchers
    BY <1>4 DEF Publishers
  <2>3. CASE dispatcher[d].pc = "sent"
    <3>1. d \notin Publishers(j, g)
      BY <2>3 DEF Publishers
    <3>2. Publishers(j, g)' = Publishers(j, g)
      BY <2>1, <2>2, <3>1
    <3>3. ToPublish(j, g)' <= ToPublish(j, g)
      <4>1. CASE outbox[j][g].token = d
        <5>1. ToPublish(j, g)' = 0
          BY <1>5, <1>6, <2>3, <4>1 DEF ToPublish
        <5> QED
          BY <1>1, <5>1, Numbers
      <4>2. CASE outbox[j][g].token # d
        <5>1. outbox'[j][g] = outbox[j][g]
          BY <1>5, <1>6, <4>2
        <5>2. Lockers(j, g)' = Lockers(j, g)
          BY <1>4, <4>2, <5>1 DEF Lockers
        <5>3. ToPublish(j, g)' = ToPublish(j, g)
          BY <5>1, <5>2 DEF ToPublish
        <5> QED
          BY <1>1, <5>3, Numbers
      <4> QED
        BY <4>1, <4>2
    <3>4. ToPublish(j, g)' \in {0, 1}
      BY DEF ToPublish
    <3> QED
      BY <1>1, <1>2, <1>3, <1>8, <3>2, <3>3, <3>4, Numbers DEF CopiesCounted
  <2>4. CASE dispatcher[d].pc = "failed"
    <3>1. d \in Publishers(j, g)
      BY <1>3, <2>4 DEF Publishers
    <3>2. Publishers(j, g)' = Publishers(j, g) \ {d}
      BY <2>1, <2>2
    <3>3. Cardinality(Publishers(j, g)') = Cardinality(Publishers(j, g)) - 1
      BY <3>1, <3>2, PublishersFinite, FS_RemoveElement
    <3>4. ToPublish(j, g)' \in {0, 1}
      BY DEF ToPublish
    <3> QED
      BY <1>1, <1>2, <1>3, <1>8, <3>3, <3>4, Numbers DEF CopiesCounted
  <2> QED
    BY <1>2, <2>3, <2>4
<1>12. row[j].status = "queued" /\ row[j].generation = g =>
         outbox'[j][g].state \in {"pending", "publishing"} \/ Copies(j, g)' # {}
  <2>1. row[j].status = "queued" /\ row[j].generation = g => ~Past(j, g)
    BY QueuedGeneration
  <2>2. row[j].status = "queued" /\ row[j].generation = g =>
          outbox[j][g].state \in {"pending", "publishing"} \/ Copies(j, g) # {}
    BY <1>1, SomeCopy DEF QueuedIsReachable
  <2> QED
    BY <1>2, <1>3, <1>5, <1>6, <1>8, <2>1, <2>2
<1> QED
  BY <1>7, <1>9, <1>10, <1>11, <1>12, DispatchMoves

LEMMA CrashDispatcherIInv ==
  ASSUME IInv, NEW d \in Dispatchers, CrashDispatcher(d) PROVE IInv'
<1>1. Types /\ QueuedIsReachable
  BY DEF IInv
<1>2. /\ dispatcher[d].pc # "idle" /\ Fault
      /\ dispatcher' = [dispatcher EXCEPT ![d] = Free]
      /\ UNCHANGED <<row, outbox, queue, dead, held, worker, requests>>
  BY DEF CrashDispatcher
<1>3. PICK j \in Jobs, g \in Generations :
        /\ dispatcher[d].job = j /\ dispatcher[d].generation = g
        /\ EntryConsistent(j, g) /\ CopiesCounted(j, g) /\ Issued(j, g)
  BY <1>2, Working
<1>4. /\ dispatcher' \in [Dispatchers -> Dispatcher] /\ dispatcher'[d].pc = "idle"
      /\ \A o \in Dispatchers : o # d => dispatcher'[o] = dispatcher[o]
      /\ \A o \in Dispatchers : dispatcher'[o].pc # "idle" =>
           dispatcher'[o].job \in Jobs /\ dispatcher'[o].generation \in Generations
  BY <1>1, <1>2, Freed
<1>5. losses' \in 0..MaxLosses /\ losses' >= losses /\ losses' = losses + 1
  BY <1>1, <1>2, Losses DEF Fault
<1>6. Types'
  BY <1>1, <1>2, <1>4, <1>5 DEF Types
<1>7. \A x, y : Copies(x, y)' = Copies(x, y)
  BY <1>2, NoCopy
<1>8. OneDispatcher(d, j, g)
  BY <1>2, <1>3, <1>4, <1>5, <1>7 DEF OneDispatcher, At1
<1>9. EntryConsistent(j, g)' /\ DispatcherConsistent(d)'
  BY <1>2, <1>3, <1>4, <1>7 DEF EntryConsistent, DispatcherConsistent, Issued
<1>10. CopiesCounted(j, g)'
  <2>1. Publishers(j, g)' \subseteq Publishers(j, g)
    BY <1>4 DEF Publishers
  <2>2. Cardinality(Publishers(j, g)') <= Cardinality(Publishers(j, g))
        /\ Cardinality(Publishers(j, g)') \in Nat
    BY <2>1, PublishersFinite, FS_Subset, FS_CardinalityType
  <2>3. CASE dispatcher[d].pc \in {"locked", "publishing", "failed"} \/ ToPublish(j, g) = 0
    <3>1. ToPublish(j, g)' \in {0, 1}
      BY DEF ToPublish
    <3> QED
      BY <1>1, <1>3, <1>5, <1>7, <2>2, <3>1, Numbers DEF CopiesCounted
  <2>4. CASE ToPublish(j, g) = 1
    <3>1. ToPublish(j, g)' \in {0, 1}
      BY DEF ToPublish
    <3> QED
      BY <1>1, <1>3, <1>5, <1>7, <2>2, <2>4, <3>1, Numbers DEF CopiesCounted
  <2> QED
    BY <1>1, <2>3, <2>4, Numbers
<1>11. row[j].status = "queued" /\ row[j].generation = g =>
         outbox'[j][g].state \in {"pending", "publishing"} \/ Copies(j, g)' # {}
  <2>1. row[j].status = "queued" /\ row[j].generation = g =>
          outbox[j][g].state \in {"pending", "publishing"} \/ Copies(j, g) # {}
    BY <1>1, SomeCopy DEF QueuedIsReachable
  <2> QED
    BY <1>2, <1>7, <2>1
<1> QED
  BY <1>6, <1>8, <1>9, <1>10, <1>11, DispatchMoves

LEMMA DispatchIInv == ASSUME IInv, NEW d \in Dispatchers, Dispatch(d) PROVE IInv'
<1>1. CASE \E j \in Jobs, g \in Generations : Lock(d, j, g)
  BY <1>1, LockIInv
<1>2. CASE ReadJob(d)
  BY <1>2, ReadJobIInv
<1>3. CASE PublishConfirmed(d)
  BY <1>3, PublishIInv DEF PublishConfirmed
<1>4. CASE PublishFailed(d)
  BY <1>4, PublishIInv DEF PublishFailed, AfterFailure
<1>5. CASE Settle(d)
  BY <1>5, SettleIInv
<1>6. CASE CrashDispatcher(d)
  BY <1>6, CrashDispatcherIInv
<1> QED
  BY <1>1, <1>2, <1>3, <1>4, <1>5, <1>6 DEF Dispatch
-----------------------------------------------------------------------------
(* The steps of the authority.                                             *)

\* Job j is announced again, under its next generation.
Renewed(j) ==
  /\ row[j].generation < MaxGeneration
  /\ row'[j].generation = row[j].generation + 1 /\ row'[j].status = "queued"
  /\ outbox' = Announced(j, row[j].generation + 1)

\* Job j goes on under its generation, and never back into the queue.
Moved(j) ==
  /\ row'[j].generation = row[j].generation
  /\ \/ row'[j].status = row[j].status
     \/ row[j].status # "absent" /\ row'[j].status \notin {"absent", "queued"}
  /\ UNCHANGED outbox

\* A step of the authority at job j.
OneJob(j) ==
  /\ UNCHANGED <<dispatcher, queue, dead, held>>
  /\ losses' \in 0..MaxLosses /\ losses' >= losses
  /\ row' \in [Jobs -> Row] /\ \A x \in Jobs : x # j => row'[x] = row[x]
  /\ Renewed(j) \/ Moved(j)

\* It takes no lease from an engine that computes, and no job from its owner.
LeaseRespected(j) ==
  /\ \/ row'[j].generation > row[j].generation
     \/ row'[j].owner = row[j].owner
     \/ row[j].status = "queued"
  /\ row[j].lease = "held" /\ (\E w \in Workers : Computing(w, j, row[j].generation))
       => row'[j].generation = row[j].generation /\ row'[j].lease = "held"

LEMMA Forward ==
  ASSUME Types, NEW j \in Jobs, OneJob(j), NEW x \in Jobs, NEW g \in Generations
  PROVE  /\ row'[x].generation >= row[x].generation
         /\ Issued(x, g) => Issued(x, g)'
         /\ Past(x, g) => Past(x, g)'
<1>1. row[x].generation \in Nat /\ g \in Nat
  BY RowFields, PoolAssumption DEF Generations
<1>2. \/ row'[x].generation = row[x].generation /\ row'[x].status = row[x].status
      \/ row'[x].generation = row[x].generation + 1
      \/ row'[x].generation = row[x].generation
           /\ row'[x].status \notin {"absent", "queued"}
  BY DEF OneJob, Renewed, Moved
<1> QED
  BY <1>1, <1>2 DEF Issued, Past

LEMMA AnnouncedEntries ==
  ASSUME Types, NEW j \in Jobs, NEW g \in Generations, outbox' = Announced(j, g)
  PROVE  /\ outbox' \in [Jobs -> [Generations -> Entry]]
         /\ outbox'[j][g].state = "pending" /\ outbox'[j][g].token = Nobody
         /\ \A x \in Jobs, y \in Generations : x # j \/ y # g => outbox'[x][y] = outbox[x][y]
<1> DEFINE e == [state |-> "pending", token |-> Nobody]
<1>1. e \in Entry /\ e.state = "pending" /\ e.token = Nobody
  BY DEF Entry
<1>2. outbox' = [outbox EXCEPT ![j][g] = e] /\ outbox[j] \in [Generations -> Entry]
  BY DEF Announced, Types
<1> HIDE DEF e
<1> QED
  BY <1>1, <1>2 DEF Types

LEMMA AuthorityMoves ==
  ASSUME IInv, NEW j \in Jobs, OneJob(j), worker' \in [Workers -> Worker],
         \A w \in Workers : worker'[w].pc \notin {"off", "idle"} =>
           worker'[w].message \in Message,
         requests' \subseteq Request,
         \A w \in Workers : WorkerConsistent(w, worker[w])',
         \A q \in requests' : RequestConsistent(q, worker[q.worker])'
  PROVE  IInv'
<1>1. Types /\ QueuedIsReachable
  BY DEF IInv
<1>2. /\ UNCHANGED <<dispatcher, queue, dead, held>>
      /\ losses' \in 0..MaxLosses /\ losses' >= losses
      /\ row' \in [Jobs -> Row] /\ \A x \in Jobs : x # j => row'[x] = row[x]
      /\ Renewed(j) \/ Moved(j)
  BY DEF OneJob
<1>3. \A x, y : Copies(x, y)' = Copies(x, y)
  BY <1>2, NoCopy
<1>4. Renewed(j) => row[j].generation + 1 \in Generations
  BY <1>1, RowFields, PoolAssumption DEF Renewed, Generations
<1>5. outbox' \in [Jobs -> [Generations -> Entry]]
  BY <1>1, <1>2, <1>4, AnnouncedEntries DEF Renewed, Moved, Types
<1>6. Types'
  BY <1>1, <1>2, <1>5 DEF Types
<1>7. ASSUME NEW x \in Jobs PROVE RowConsistent(x)'
  <2>1. RowConsistent(x) /\ row[x].generation \in Nat
    BY <1>1, RowFields DEF IInv
  <2> QED
    BY <1>2, <2>1 DEF RowConsistent, Renewed, Moved
<1>8. ASSUME NEW x \in Jobs, NEW y \in Generations
      PROVE  EntryConsistent(x, y)' /\ CopiesCounted(x, y)'
  <2>1. EntryConsistent(x, y) /\ CopiesCounted(x, y)
    BY DEF IInv
  <2>2. Publishers(x, y)' = Publishers(x, y)
    BY <1>2 DEF Publishers
  <2>3. Issued(x, y) => Issued(x, y)'
    BY <1>1, Forward
  <2>4. CASE outbox'[x][y] = outbox[x][y]
    <3>1. Lockers(x, y)' = Lockers(x, y)
      BY <1>2, <2>4 DEF Lockers
    <3>2. ToPublish(x, y)' = ToPublish(x, y)
      BY <2>4, <3>1 DEF ToPublish
    <3>3. losses' \in Nat
      BY <1>2, PoolAssumption
    <3> QED
      BY <1>1, <1>2, <1>3, <2>1, <2>2, <2>3, <2>4, <3>2, <3>3, Numbers
      DEF EntryConsistent, CopiesCounted
  <2>5. CASE outbox'[x][y] # outbox[x][y]
    <3>1. Renewed(j)
      BY <1>2, <2>5 DEF Moved
    <3>2. /\ x = j /\ y = row[j].generation + 1
          /\ outbox'[x][y].state = "pending" /\ outbox'[x][y].token = Nobody
      BY <1>1, <1>4, <2>5, <3>1, AnnouncedEntries DEF Renewed
    <3>3. row[j].generation \in Nat
      BY <1>1, RowFields
    <3>4. Issued(x, y)' /\ ~Issued(x, y)
      BY <3>1, <3>2, <3>3 DEF Issued, Renewed
    <3>5. Copies(x, y) = {}
      BY <2>1, <3>4 DEF EntryConsistent
    <3>6. Publishers(x, y) = {}
      BY <3>4 DEF Publishers, IInv, DispatcherConsistent
    <3>7. Cardinality(Copies(x, y)') = 0 /\ Cardinality(Publishers(x, y)') = 0
      BY <1>3, <2>2, <3>5, <3>6, FS_EmptySet
    <3>8. ToPublish(x, y)' \in {0, 1} /\ losses' \in Nat
      BY <1>2, PoolAssumption DEF ToPublish
    <3>9. CopiesCounted(x, y)'
      BY <3>7, <3>8 DEF CopiesCounted
    <3>10. Copies(x, y)' = {}
      BY <1>3, <3>5
    <3> QED
      BY <3>2, <3>4, <3>9, <3>10 DEF EntryConsistent
  <2> QED
    BY <2>4, <2>5
<1>9. ASSUME NEW d \in Dispatchers PROVE DispatcherConsistent(d)'
  <2>1. DispatcherConsistent(d) /\ dispatcher' = dispatcher
    BY <1>2 DEF IInv
  <2>2. PICK x, y : x = dispatcher[d].job /\ y = dispatcher[d].generation
    OBVIOUS
  <2>3. dispatcher[d].pc # "idle" => x \in Jobs /\ y \in Generations
    BY <1>1, <2>2 DEF Types
  <2>4. dispatcher[d].pc # "idle" => Issued(x, y)'
    BY <1>1, <2>1, <2>2, <2>3, Forward DEF DispatcherConsistent
  <2>5. dispatcher[d].pc = "sent" => Past(x, y)' \/ Copies(x, y)' # {}
    BY <1>1, <1>3, <2>1, <2>2, <2>3, Forward DEF DispatcherConsistent
  <2> QED
    BY <2>1, <2>2, <2>4, <2>5 DEF DispatcherConsistent, Issued, Past
<1>10. QueuedIsReachable'
  <2> SUFFICES ASSUME NEW x \in Jobs, row'[x].status = "queued",
                      outbox'[x][row'[x].generation].state \notin {"pending", "publishing"}
               PROVE  \E m \in Messages' : m.job = x /\ m.generation = row'[x].generation
    BY DEF QueuedIsReachable
  <2>1. x = j => Moved(j)
    BY <1>1, <1>2, <1>4, AnnouncedEntries DEF Renewed
  <2>2. row[x].status = "queued" /\ row'[x].generation = row[x].generation
    BY <1>2, <2>1 DEF Moved
  <2>3. row[x].generation \in Generations
    BY <2>2, QueuedGeneration
  <2>4. outbox'[x][row[x].generation] = outbox[x][row[x].generation]
    BY <1>1, <1>2, <1>4, <2>1, <2>3, AnnouncedEntries DEF Renewed, Moved
  <2>5. Messages' = Messages
    BY <1>2, SameTraffic
  <2> QED
    BY <1>1, <2>2, <2>4, <2>5 DEF QueuedIsReachable
<1> QED
  BY <1>6, <1>7, <1>8, <1>9, <1>10 DEF IInv

LEMMA WorkerKept ==
  ASSUME Types, NEW j \in Jobs, OneJob(j), LeaseRespected(j), NEW w \in Workers, NEW s,
         WorkerConsistent(w, s),
         s.pc \notin {"off", "idle"} => s.message \in Message,
         s.pc \in {"running", "dying"} => worker[w] = s
  PROVE  WorkerConsistent(w, s)'
<1> DEFINE x == s.message.job
           g == s.message.generation
<1>1. CASE s.pc \in {"off", "idle"}
  BY <1>1 DEF WorkerConsistent, Executing
<1>2. CASE s.pc \notin {"off", "idle"}
  <2>1. x \in Jobs /\ g \in Generations
    BY <1>2, MessageFields
  <2>2. /\ row'[x].generation >= row[x].generation
        /\ Issued(x, g) => Issued(x, g)'
        /\ Past(x, g) => Past(x, g)'
    BY <2>1, Forward
  <2>3. row[x].generation \in Nat /\ row'[x].generation \in Nat /\ g \in Nat
    BY <2>1, RowFields, PoolAssumption DEF OneJob, Row, Generations
  <2>4. ASSUME Executing(s)
        PROVE  row'[x].generation > g \/ (Past(x, g)' /\ row'[x].owner = w)
    <3>1. row[x].generation > g \/ (Past(x, g) /\ row[x].owner = w)
      BY <2>4 DEF WorkerConsistent
    <3>2. CASE row[x].generation > g
      BY <2>2, <2>3, <3>2
    <3>3. CASE row[x].generation = g /\ Past(x, g) /\ row[x].owner = w
      <4>1. row[x].status # "queued"
        BY <2>3, <3>3 DEF Past
      <4>2. row'[x].generation > g \/ row'[x].owner = row[x].owner
        BY <2>1, <3>3, <4>1 DEF LeaseRespected, OneJob
      <4> QED
        BY <2>2, <3>3, <4>2
    <3> QED
      BY <2>3, <3>1, <3>2, <3>3 DEF Past
  <2>5. ASSUME s.pc \in {"running", "dying"}
        PROVE  row'[x].generation = g /\ row'[x].lease = "held"
    <3>1. row[x].generation = g /\ row[x].lease = "held"
      BY <2>5 DEF WorkerConsistent
    <3>2. Computing(w, x, g)
      BY <2>5 DEF Computing
    <3> QED
      BY <2>1, <3>1, <3>2 DEF LeaseRespected, OneJob
  <2>6. WorkerConsistent(w, s)' <=>
          /\ Issued(x, g)'
          /\ Executing(s) => row'[x].generation > g \/ (Past(x, g)' /\ row'[x].owner = w)
          /\ s.pc \in {"running", "dying"} => row'[x].generation = g /\ row'[x].lease = "held"
          /\ s.pc \in {"claiming", "reporting"} /\ s.answer = "settled" => Past(x, g)'
    BY <1>2 DEF WorkerConsistent, Executing
  <2> QED
    BY <1>2, <2>2, <2>4, <2>5, <2>6 DEF WorkerConsistent
<1> QED
  BY <1>1, <1>2

LEMMA RequestKept ==
  ASSUME Types, NEW j \in Jobs, OneJob(j), NEW q \in Request, NEW s, RequestConsistent(q, s)
  PROVE  RequestConsistent(q, s)'
<1>1. q.job \in Jobs /\ q.generation \in Generations
  BY DEF Request
<1> QED
  BY <1>1, Forward DEF RequestConsistent, Executing

\* A step of the authority alone.
LEMMA JobMoves ==
  ASSUME IInv, NEW j \in Jobs, OneJob(j), LeaseRespected(j), UNCHANGED <<worker, requests>>
  PROVE  IInv'
<1>1. Types
  BY DEF IInv
<1>2. ASSUME NEW w \in Workers PROVE WorkerConsistent(w, worker[w])'
  <2>1. PICK s : s = worker[w]
    OBVIOUS
  <2>2. WorkerConsistent(w, s)
    BY <2>1 DEF IInv
  <2>3. s.pc \notin {"off", "idle"} => s.message \in Message
    BY <1>1, <2>1 DEF Types
  <2>4. WorkerConsistent(w, s)'
    BY <1>1, <2>1, <2>2, <2>3, WorkerKept
  <2> QED
    BY <2>1, <2>4
<1>3. ASSUME NEW q \in requests' PROVE RequestConsistent(q, worker[q.worker])'
  <2>1. q \in requests /\ q \in Request
    BY <1>1 DEF Types
  <2>2. PICK s : s = worker[q.worker]
    OBVIOUS
  <2>3. RequestConsistent(q, s)
    BY <2>1, <2>2 DEF IInv
  <2>4. RequestConsistent(q, s)'
    BY <1>1, <2>1, <2>3, RequestKept
  <2> QED
    BY <2>2, <2>4
<1> QED
  BY <1>1, <1>2, <1>3, AuthorityMoves DEF Types

LEMMA NoComputing ==
  ASSUME Types, NEW j \in Jobs, NEW w \in Workers, Computing(w, j, row[j].generation)
  PROVE  /\ row[j].generation \in Generations
         /\ worker[w].message.job = j /\ worker[w].message.generation = row[j].generation
         /\ worker[w].pc \in {"running", "dying"}
<1>1. worker[w].message \in Message
  BY DEF Types, Computing
<1> QED
  BY <1>1, MessageFields DEF Computing

\* The row of one job is replaced.
LEMMA RowReplaced ==
  ASSUME Types, NEW j \in Jobs, NEW r \in Row, row' = [row EXCEPT ![j] = r]
  PROVE  row' \in [Jobs -> Row] /\ row'[j] = r /\ \A x \in Jobs : x # j => row'[x] = row[x]
BY DEF Types

LEMMA RequeueMoves ==
  ASSUME Types, NEW j \in Jobs, Requeue(j), row[j].status # "absent",
         UNCHANGED <<dispatcher, queue, dead, held>>, Fault \/ UNCHANGED losses,
         row[j].lease # "held" \/ ~\E w \in Workers : Computing(w, j, row[j].generation)
  PROVE  OneJob(j) /\ LeaseRespected(j)
<1> DEFINE r == [status |-> "queued", generation |-> row[j].generation + 1,
                 owner |-> Nobody, lease |-> "none"]
<1>1. /\ row[j].generation < MaxGeneration /\ row' = [row EXCEPT ![j] = r]
      /\ outbox' = Announced(j, row[j].generation + 1)
  BY DEF Requeue
<1>2. row[j].generation \in Nat /\ row[j].generation + 1 \in 0..MaxGeneration
  BY <1>1, RowFields, PoolAssumption
<1>3. r \in Row /\ r.status = "queued" /\ r.generation = row[j].generation + 1
  BY <1>2 DEF Row
<1> HIDE DEF r
<1>4. row' \in [Jobs -> Row] /\ row'[j] = r /\ \A x \in Jobs : x # j => row'[x] = row[x]
  BY <1>1, <1>3, RowReplaced
<1>5. Renewed(j)
  BY <1>1, <1>3, <1>4 DEF Renewed
<1>6. OneJob(j)
  BY <1>4, <1>5, Losses DEF OneJob
<1>7. row'[j].generation > row[j].generation
  BY <1>2, <1>3, <1>4
<1> QED
  BY <1>6, <1>7 DEF LeaseRespected

\* The row goes on under its generation.
LEMMA RowGoesOn ==
  ASSUME Types, NEW j \in Jobs, NEW r \in Row, row' = [row EXCEPT ![j] = r],
         r.generation = row[j].generation,
         \/ r.status = row[j].status
         \/ row[j].status # "absent" /\ r.status \notin {"absent", "queued"},
         r.owner = row[j].owner \/ row[j].status = "queued",
         \/ r.lease = row[j].lease \/ r.lease = "held"
         \/ ~\E w \in Workers : Computing(w, j, row[j].generation),
         UNCHANGED <<outbox, dispatcher, queue, dead, held>>, Fault \/ UNCHANGED losses
  PROVE  OneJob(j) /\ LeaseRespected(j)
<1>1. row' \in [Jobs -> Row] /\ row'[j] = r /\ \A x \in Jobs : x # j => row'[x] = row[x]
  BY RowReplaced
<1>2. Moved(j)
  BY <1>1 DEF Moved
<1>3. OneJob(j)
  BY <1>1, <1>2, Losses DEF OneJob
<1> QED
  BY <1>1, <1>3 DEF LeaseRespected

LEMMA RowWithStatus ==
  ASSUME Types, NEW j \in Jobs, NEW status \in {"queued", "processing"} \cup Terminal, NEW r,
         r = [row[j] EXCEPT !.status = status]
  PROVE  /\ r \in Row /\ r.status = status /\ r.generation = row[j].generation
         /\ r.owner = row[j].owner /\ r.lease = row[j].lease
BY RowFields DEF Row

LEMMA RowWithLease ==
  ASSUME Types, NEW j \in Jobs, NEW lease \in {"none", "lapsed"}, NEW r,
         r = [row[j] EXCEPT !.lease = lease]
  PROVE  /\ r \in Row /\ r.status = row[j].status /\ r.generation = row[j].generation
         /\ r.owner = row[j].owner /\ r.lease = lease
BY RowFields DEF Row

LEMMA CreateJobIInv == ASSUME IInv, NEW j \in Jobs, CreateJob(j) PROVE IInv'
<1> DEFINE r == [row[j] EXCEPT !.status = "queued", !.generation = 1]
<1>1. Types /\ RowConsistent(j)
  BY DEF IInv
<1>2. /\ row[j].status = "absent" /\ row' = [row EXCEPT ![j] = r]
      /\ outbox' = Announced(j, 1)
      /\ UNCHANGED <<dispatcher, queue, dead, held, worker, requests, losses>>
  BY DEF CreateJob
<1>3. row[j].generation = 0
  BY <1>1, <1>2 DEF RowConsistent
<1>4. r \in Row /\ r.status = "queued" /\ r.generation = 1 /\ r.owner = row[j].owner
  <2>1. 1 \in 0..MaxGeneration /\ row[j] \in Row
    BY <1>1, RowFields, PoolAssumption
  <2> QED
    BY <2>1 DEF Row
<1> HIDE DEF r
<1>5. row' \in [Jobs -> Row] /\ row'[j] = r /\ \A x \in Jobs : x # j => row'[x] = row[x]
  BY <1>1, <1>2, <1>4, RowReplaced
<1>6. Renewed(j)
  BY <1>2, <1>3, <1>4, <1>5, PoolAssumption DEF Renewed
<1>7. OneJob(j)
  BY <1>1, <1>2, <1>5, <1>6, Losses DEF OneJob
<1>8. ~\E w \in Workers : Computing(w, j, row[j].generation)
  BY <1>1, <1>3, NoComputing DEF Generations
<1>9. LeaseRespected(j)
  BY <1>4, <1>5, <1>8 DEF LeaseRespected
<1> QED
  BY <1>2, <1>7, <1>9, JobMoves

LEMMA CloseJobIInv ==
  ASSUME IInv, NEW j \in Jobs, NEW status \in {"cancelled", "failed"}, CloseJob(j, status)
  PROVE  IInv'
<1> DEFINE r == [row[j] EXCEPT !.status = status]
<1>1. Types
  BY DEF IInv
<1>2. /\ row[j].status \in {"queued", "processing"} /\ row' = [row EXCEPT ![j] = r]
      /\ UNCHANGED <<outbox, dispatcher, queue, dead, held, worker, requests, losses>>
  BY DEF CloseJob
<1>3. /\ r \in Row /\ r.status = status /\ r.generation = row[j].generation
      /\ r.owner = row[j].owner /\ r.lease = row[j].lease
  BY <1>1, RowWithStatus DEF Terminal
<1> HIDE DEF r
<1>4. OneJob(j) /\ LeaseRespected(j)
  BY <1>1, <1>2, <1>3, RowGoesOn
<1> QED
  BY <1>2, <1>4, JobMoves

LEMMA RecoverLapsedIInv == ASSUME IInv, NEW j \in Jobs, RecoverLapsed(j) PROVE IInv'
<1>1. Types
  BY DEF IInv
<1>2. /\ row[j].status = "processing" /\ row[j].lease = "lapsed"
      /\ UNCHANGED <<dispatcher, queue, dead, held, worker, requests, losses>>
  BY DEF RecoverLapsed
<1>3. CASE Requeue(j)
  <2>1. OneJob(j) /\ LeaseRespected(j)
    BY <1>1, <1>2, <1>3, RequeueMoves
  <2> QED
    BY <1>2, <2>1, JobMoves
<1>4. CASE row' = [row EXCEPT ![j].status = "failed"] /\ UNCHANGED outbox
  <2> DEFINE r == [row[j] EXCEPT !.status = "failed"]
  <2>1. row' = [row EXCEPT ![j] = r]
    BY <1>4
  <2>2. /\ r \in Row /\ r.status = "failed" /\ r.generation = row[j].generation
        /\ r.owner = row[j].owner /\ r.lease = row[j].lease
    BY <1>1, RowWithStatus DEF Terminal
  <2> HIDE DEF r
  <2>3. OneJob(j) /\ LeaseRespected(j)
    BY <1>1, <1>2, <1>4, <2>1, <2>2, RowGoesOn
  <2> QED
    BY <1>2, <2>3, JobMoves
<1> QED
  BY <1>3, <1>4 DEF RecoverLapsed

LEMMA RetryFailedIInv == ASSUME IInv, NEW j \in Jobs, RetryFailed(j) PROVE IInv'
<1>1. Types
  BY DEF IInv
<1>2. /\ row[j].status = "failed" /\ row[j].lease # "held" /\ Requeue(j)
      /\ UNCHANGED <<dispatcher, queue, dead, held, worker, requests, losses>>
  BY DEF RetryFailed
<1>3. OneJob(j) /\ LeaseRespected(j)
  BY <1>1, <1>2, RequeueMoves
<1> QED
  BY <1>2, <1>3, JobMoves

LEMMA LapseLeaseIInv == ASSUME IInv, NEW j \in Jobs, LapseLease(j) PROVE IInv'
<1> DEFINE r == [row[j] EXCEPT !.lease = "lapsed"]
<1>1. Types
  BY DEF IInv
<1>2. /\ ~\E w \in Workers : Computing(w, j, row[j].generation)
      /\ row' = [row EXCEPT ![j] = r]
      /\ UNCHANGED <<outbox, dispatcher, queue, dead, held, worker, requests, losses>>
  BY DEF LapseLease
<1>3. /\ r \in Row /\ r.status = row[j].status /\ r.generation = row[j].generation
      /\ r.owner = row[j].owner
  BY <1>1, RowWithLease
<1> HIDE DEF r
<1>4. OneJob(j) /\ LeaseRespected(j)
  BY <1>1, <1>2, <1>3, RowGoesOn
<1> QED
  BY <1>2, <1>4, JobMoves

\* The engine of an execution has stopped when its worker asks for an outcome.
LEMMA OutcomeStops ==
  ASSUME IInv, NEW q \in requests, q.action # "claim", SameExecution(q)
  PROVE  ~\E w \in Workers : Computing(w, q.job, row[q.job].generation)
<1> SUFFICES ASSUME NEW w \in Workers, Computing(w, q.job, row[q.job].generation)
             PROVE  FALSE
  OBVIOUS
<1>1. Types /\ q \in Request /\ WorkerConsistent(w, worker[w])
      /\ RequestConsistent(q, worker[q.worker])
  BY DEF IInv, Types
<1>2. q.job \in Jobs /\ row[q.job].generation \in Nat
  BY <1>1, RowFields, PoolAssumption DEF Request
<1>3. /\ worker[w].pc \in {"running", "dying"} /\ worker[w].message.job = q.job
      /\ worker[w].message.generation = row[q.job].generation
  BY DEF Computing
<1>4. row[q.job].owner = w
  BY <1>1, <1>2, <1>3 DEF WorkerConsistent, Executing
<1>5. q.worker = w /\ row[q.job].generation = q.generation
  BY <1>4 DEF SameExecution
<1> QED
  BY <1>1, <1>3, <1>5 DEF RequestConsistent, Executing

\* A claim that is refused names a generation nobody can claim any more.
LEMMA RefusedClaim ==
  ASSUME IInv, NEW q \in requests, Refused(q)
  PROVE  Past(q.job, q.generation)
<1>1. Types /\ q \in Request /\ RequestConsistent(q, worker[q.worker])
  BY DEF IInv, Types
<1>2. q.job \in Jobs /\ q.generation \in Nat \ {0} /\ row[q.job].generation \in Nat
      /\ RowConsistent(q.job)
  BY <1>1, RowFields, PoolAssumption DEF Request, Generations, IInv
<1>3. CASE q.action = "claim"
  BY <1>1, <1>2, <1>3 DEF Refused, Claimable, RequestConsistent, Issued, Past, RowConsistent
<1>4. CASE q.action # "claim"
  BY <1>1, <1>4 DEF RequestConsistent
<1> QED
  BY <1>3, <1>4

\* What a granted and a settled answer say.
LEMMA ControlMoves ==
  ASSUME IInv, NEW q \in requests, NEW answer, Control(q, answer),
         UNCHANGED <<dispatcher, queue, dead, held>>, Fault \/ UNCHANGED losses
  PROVE  /\ q.job \in Jobs /\ OneJob(q.job) /\ LeaseRespected(q.job)
         /\ answer = "granted" =>
              /\ q.action = "claim" /\ Claimable(q)
              /\ row'[q.job].generation = q.generation
              /\ row'[q.job].status = "processing" /\ row'[q.job].owner = q.worker
         /\ answer = "settled" => Past(q.job, q.generation)
<1> DEFINE j == q.job
<1>1. /\ Types /\ q \in Request /\ RequestConsistent(q, worker[q.worker])
      /\ RowConsistent(j)
  BY DEF IInv, Types, Request
<1>2. j \in Jobs /\ q.worker \in Workers /\ row[j] \in Row
  BY <1>1, RowFields DEF Request
<1>3. row = [row EXCEPT ![j] = row[j]]
  BY <1>1, <1>2 DEF Types
<1>4. q.action # "claim" => Past(j, q.generation)
  BY <1>1 DEF RequestConsistent
<1>5. SameExecution(q) => row[j].status # "absent"
  BY <1>1 DEF SameExecution, RowConsistent, Request, Generations
<1>6. CASE q.action = "claim" /\ Claimable(q)
             /\ Grant(q) /\ answer = "granted" /\ UNCHANGED outbox
  <2> DEFINE r == [row[j] EXCEPT !.status = "processing", !.owner = q.worker,
                                 !.lease = "held"]
  <2>1. row' = [row EXCEPT ![j] = r]
    BY <1>6 DEF Grant
  <2>2. /\ r \in Row /\ r.status = "processing" /\ r.owner = q.worker
        /\ r.lease = "held" /\ r.generation = row[j].generation
    BY <1>2 DEF Row
  <2>3. row[j].status = "queued" /\ row[j].generation = q.generation
    BY <1>6 DEF Claimable
  <2> HIDE DEF r
  <2>4. OneJob(j) /\ LeaseRespected(j)
    BY <1>1, <1>2, <1>6, <2>1, <2>2, <2>3, RowGoesOn
  <2>5. row'[j] = r
    BY <1>1, <1>2, <2>1, <2>2, RowReplaced
  <2> QED
    BY <1>2, <1>6, <2>2, <2>3, <2>4, <2>5
<1>7. CASE answer # "granted" /\ UNCHANGED <<row, outbox>>
             /\ (answer = "settled" => Refused(q))
  <2>1. row' = [row EXCEPT ![j] = row[j]]
    BY <1>3, <1>7
  <2>2. OneJob(j) /\ LeaseRespected(j)
    BY <1>1, <1>2, <1>7, <2>1, RowGoesOn
  <2> QED
    BY <1>2, <1>7, <2>2, RefusedClaim
<1>8. CASE /\ q.action # "claim" /\ SameExecution(q) /\ answer = "settled" /\ UNCHANGED outbox
           /\ \E status \in Terminal :
                row' = [row EXCEPT ![j].status = status, ![j].lease = "none"]
  <2>1. PICK status \in Terminal :
          row' = [row EXCEPT ![j].status = status, ![j].lease = "none"]
    BY <1>8
  <2> DEFINE r == [row[j] EXCEPT !.status = status, !.lease = "none"]
  <2>2. row' = [row EXCEPT ![j] = r]
    BY <1>1, <1>2, <2>1 DEF Types
  <2>3. /\ r \in Row /\ r.status = status /\ r.generation = row[j].generation
        /\ r.owner = row[j].owner
    BY <1>2 DEF Row
  <2>4. status \notin {"absent", "queued"} /\ row[j].status # "absent"
    BY <1>5, <1>8 DEF Terminal
  <2>5. ~\E w \in Workers : Computing(w, j, row[j].generation)
    BY <1>8, OutcomeStops
  <2> HIDE DEF r
  <2>6. OneJob(j) /\ LeaseRespected(j)
    BY <1>1, <1>2, <1>8, <2>2, <2>3, <2>4, <2>5, RowGoesOn
  <2> QED
    BY <1>2, <1>4, <1>8, <2>6
<1>9. CASE /\ q.action # "claim" /\ SameExecution(q) /\ answer = "settled" /\ UNCHANGED outbox
           /\ row' = [row EXCEPT ![j].lease = "none"]
  <2> DEFINE r == [row[j] EXCEPT !.lease = "none"]
  <2>1. row' = [row EXCEPT ![j] = r]
    BY <1>9
  <2>2. /\ r \in Row /\ r.status = row[j].status /\ r.generation = row[j].generation
        /\ r.owner = row[j].owner
    BY <1>2 DEF Row
  <2>3. ~\E w \in Workers : Computing(w, j, row[j].generation)
    BY <1>9, OutcomeStops
  <2> HIDE DEF r
  <2>4. OneJob(j) /\ LeaseRespected(j)
    BY <1>1, <1>2, <1>9, <2>1, <2>2, <2>3, RowGoesOn
  <2> QED
    BY <1>2, <1>4, <1>9, <2>4
<1>10. CASE /\ q.action # "claim" /\ SameExecution(q) /\ answer = "settled"
            /\ Requeue(q.job)
  <2>1. ~\E w \in Workers : Computing(w, j, row[j].generation)
    BY <1>10, OutcomeStops
  <2>2. OneJob(j) /\ LeaseRespected(j)
    BY <1>1, <1>2, <1>5, <1>10, <2>1, RequeueMoves
  <2> QED
    BY <1>2, <1>4, <1>10, <2>2
<1>11. /\ Closes(q) => q.action # "claim" /\ Outcome[q.action] \in Terminal
       /\ InCharge(q) => SameExecution(q)
  BY DEF Closes, Outcome, Terminal, InCharge
<1> QED
  BY <1>6, <1>7, <1>8, <1>9, <1>10, <1>11 DEF Control, ConfirmsStop, Terminal

LEMMA ConsumeReplyLostIInv ==
  ASSUME IInv, NEW q \in requests, ConsumeReplyLost(q) PROVE IInv'
<1>1. PICK answer \in Answers : Control(q, answer)
  BY DEF ConsumeReplyLost
<1>2. Fault /\ UNCHANGED <<dispatcher, queue, dead, held, worker, requests>>
  BY DEF ConsumeReplyLost
<1>3. q.job \in Jobs /\ OneJob(q.job) /\ LeaseRespected(q.job)
  BY <1>1, <1>2, ControlMoves
<1> QED
  BY <1>2, <1>3, JobMoves

LEMMA DropRequestIInv ==
  ASSUME IInv, NEW q \in requests, DropRequest(q) PROVE IInv'
<1>1. /\ Types /\ Fault /\ requests' \subseteq requests
      /\ UNCHANGED <<row, outbox, dispatcher, queue, dead, held, worker>>
  BY DEF IInv, DropRequest
<1>2. losses' \in 0..MaxLosses /\ losses' >= losses
  BY <1>1, Losses
<1>3. Types'
  BY <1>1, <1>2 DEF Types
<1>4. \A w \in Workers : WorkerConsistent(w, worker[w])'
  BY <1>1 DEF IInv, WorkerConsistent, Issued, Past
<1>5. \A p \in requests' : RequestConsistent(p, worker[p.worker])'
  BY <1>1 DEF IInv, RequestConsistent, Issued, Past
<1> QED
  BY <1>1, <1>2, <1>3, <1>4, <1>5, NothingMoves, BrokerMoves

LEMMA SameRequest ==
  ASSUME NEW p \in Request, NEW q \in Request, p.worker = q.worker, p.action = q.action,
         p.job = q.job, p.generation = q.generation, p.live = q.live
  PROVE  p = q
BY DEF Request

\* The worker has the answer in hand.
LEMMA AnswerHeard ==
  ASSUME IInv, NEW q \in requests, q.live, NEW answer \in Answers, Control(q, answer),
         UNCHANGED <<dispatcher, queue, dead, held, losses>>,
         NEW s, s = [worker[q.worker] EXCEPT !.answer = answer]
  PROVE  /\ s \in Worker /\ s.message \in Message
         /\ WorkerConsistent(q.worker, s)'
         /\ \A p \in requests \ {q} : p.worker = q.worker => RequestConsistent(p, s)'
<1> DEFINE w == q.worker
           j == q.job
           g == q.generation
<1>1. Types /\ q \in Request /\ w \in Workers /\ j \in Jobs /\ g \in Generations
  BY DEF IInv, Types, Request
<1>2. PICK r : /\ r = worker[w] /\ RequestConsistent(q, r) /\ WorkerConsistent(w, r)
               /\ r \in Worker
  BY <1>1, StateOf DEF IInv
<1>3. /\ r.pc = IF q.action = "claim" THEN "claiming" ELSE "reporting"
      /\ r.action = q.action /\ r.answer = "none"
      /\ r.message.job = j /\ r.message.generation = g /\ r.message \in Message
  BY <1>1, <1>2 DEF RequestConsistent, Types
<1>4. /\ s \in Worker /\ s.pc = r.pc /\ s.message = r.message /\ s.action = r.action
      /\ s.answer = answer
  BY <1>2 DEF Worker
<1>5. /\ OneJob(j) /\ LeaseRespected(j)
      /\ answer = "granted" =>
           /\ q.action = "claim" /\ Claimable(q) /\ row'[j].generation = g
           /\ row'[j].status = "processing" /\ row'[j].owner = w
      /\ answer = "settled" => Past(j, g)
  BY ControlMoves
<1>6. Issued(j, g)' /\ (Past(j, g) => Past(j, g)')
  BY <1>1, <1>2, <1>5, Forward DEF RequestConsistent
<1>7. answer = "granted" => Past(j, g)' /\ ~Past(j, g)
  BY <1>1, <1>5 DEF Past, Claimable, Generations
<1>8. WorkerConsistent(w, s)'
  <2>1. WorkerConsistent(w, s)' <=>
          /\ Issued(j, g)'
          /\ Executing(s) => row'[j].generation > g \/ (Past(j, g)' /\ row'[j].owner = w)
          /\ s.pc \in {"claiming", "reporting"} /\ s.answer = "settled" => Past(j, g)'
    BY <1>3, <1>4 DEF WorkerConsistent, Executing
  <2>2. Executing(s) => answer = "granted"
    BY <1>3, <1>4 DEF Executing
  <2> QED
    BY <1>4, <1>5, <1>6, <1>7, <2>1, <2>2
<1>9. ASSUME NEW p \in requests \ {q}, p.worker = w PROVE RequestConsistent(p, s)'
  <2>1. p \in Request /\ RequestConsistent(p, r)
    BY <1>1, <1>2, <1>9 DEF IInv, Types
  <2>2. p.job \in Jobs /\ p.generation \in Generations
    BY <2>1 DEF Request
  <2>3. RequestConsistent(p, r)'
    BY <1>1, <1>5, <2>1, RequestKept
  <2>4. ~p.live
    BY <1>1, <1>3, <1>9, <2>1, SameRequest DEF RequestConsistent
  <2>5. p.action # "claim" => ~(Executing(s) /\ p.job = j /\ p.generation = g)
    BY <1>3, <1>4, <1>7, <2>1 DEF RequestConsistent, Executing
  <2> QED
    BY <1>3, <1>4, <2>3, <2>4, <2>5 DEF RequestConsistent, Executing
<1> QED
  BY <1>3, <1>4, <1>8, <1>9

LEMMA ConsumeIInv == ASSUME IInv, NEW q \in requests, Consume(q) PROVE IInv'
<1>1. PICK answer \in Answers \ {"none"} :
        /\ Control(q, answer) /\ requests' = requests \ {q}
        /\ worker' = IF q.live THEN [worker EXCEPT ![q.worker].answer = answer] ELSE worker
        /\ UNCHANGED <<dispatcher, queue, dead, held, losses>>
  BY DEF Consume
<1>2. Types /\ q.worker \in Workers
  BY DEF IInv, Types, Request
<1>3. q.job \in Jobs /\ OneJob(q.job) /\ LeaseRespected(q.job)
  BY <1>1, ControlMoves
<1>4. PICK s : s = [worker[q.worker] EXCEPT !.answer = answer]
  OBVIOUS
<1>5. q.live => /\ s \in Worker /\ s.message \in Message
                /\ WorkerConsistent(q.worker, s)'
                /\ \A p \in requests \ {q} : p.worker = q.worker => RequestConsistent(p, s)'
  BY <1>1, <1>4, AnswerHeard
<1>6. /\ q.live => worker'[q.worker] = s
      /\ ~q.live => worker'[q.worker] = worker[q.worker]
      /\ \A o \in Workers : o # q.worker => worker'[o] = worker[o]
      /\ worker' \in [Workers -> Worker]
      /\ \A o \in Workers : worker'[o].pc \notin {"off", "idle"} =>
           worker'[o].message \in Message
  BY <1>1, <1>2, <1>4, <1>5 DEF Types
<1>7. ASSUME NEW w \in Workers, w # q.worker \/ ~q.live
      PROVE  WorkerConsistent(w, worker[w])'
  <2>1. PICK r : r = worker[w] /\ r = worker'[w]
    BY <1>6, <1>7
  <2>2. /\ WorkerConsistent(w, r)
        /\ (r.pc \notin {"off", "idle"} => r.message \in Message)
    BY <1>2, <2>1 DEF IInv, Types
  <2>3. WorkerConsistent(w, r)'
    BY <1>2, <1>3, <2>1, <2>2, WorkerKept
  <2> QED
    BY <2>1, <2>3
<1>8. ASSUME NEW w \in Workers PROVE WorkerConsistent(w, worker[w])'
  <2>1. CASE w = q.worker /\ q.live
    BY <1>5, <1>6, <2>1
  <2> QED
    BY <1>7, <2>1
<1>9. ASSUME NEW p \in requests' PROVE RequestConsistent(p, worker[p.worker])'
  <2>1. p \in requests \ {q} /\ p \in Request /\ p.worker \in Workers
    BY <1>1, <1>2 DEF Types, Request
  <2>2. CASE p.worker = q.worker /\ q.live
    BY <1>5, <1>6, <2>1, <2>2
  <2>3. CASE p.worker # q.worker \/ ~q.live
    <3>1. PICK r : r = worker[p.worker] /\ r = worker'[p.worker]
      BY <1>6, <2>1, <2>3
    <3>2. RequestConsistent(p, r)
      BY <2>1, <3>1 DEF IInv
    <3>3. RequestConsistent(p, r)'
      BY <1>2, <1>3, <2>1, <3>2, RequestKept
    <3> QED
      BY <3>1, <3>3
  <2> QED
    BY <2>2, <2>3
<1>10. requests' \subseteq Request
  BY <1>1, <1>2 DEF Types
<1> QED
  BY <1>3, <1>6, <1>8, <1>9, <1>10, AuthorityMoves

LEMMA AuthorityIInv == ASSUME IInv, Authority PROVE IInv'
<1>1. CASE \E j \in Jobs : CreateJob(j)
  BY <1>1, CreateJobIInv
<1>2. CASE \E j \in Jobs : \E status \in {"cancelled", "failed"} : CloseJob(j, status)
  BY <1>2, CloseJobIInv
<1>3. CASE \E j \in Jobs : RecoverLapsed(j)
  BY <1>3, RecoverLapsedIInv
<1>4. CASE \E j \in Jobs : RetryFailed(j)
  BY <1>4, RetryFailedIInv
<1>5. CASE \E j \in Jobs : LapseLease(j)
  BY <1>5, LapseLeaseIInv
<1>6. CASE \E q \in requests : Consume(q)
  BY <1>6, ConsumeIInv
<1>7. CASE \E q \in requests : ConsumeReplyLost(q)
  BY <1>7, ConsumeReplyLostIInv
<1>8. CASE \E q \in requests : DropRequest(q)
  BY <1>8, DropRequestIInv
<1> QED
  BY <1>1, <1>2, <1>3, <1>4, <1>5, <1>6, <1>7, <1>8 DEF Authority
-----------------------------------------------------------------------------
(* The theorems.                                                           *)

LEMMA InitIInv == ASSUME Init PROVE IInv
<1>1. /\ row = [j \in Jobs |-> [status |-> "absent", generation |-> 0,
                                owner |-> Nobody, lease |-> "none"]]
      /\ outbox = [j \in Jobs |-> [g \in Generations |->
                                     [state |-> "none", token |-> Nobody]]]
      /\ dispatcher = [d \in Dispatchers |-> Free]
      /\ queue = {} /\ dead = {} /\ held = [w \in Workers |-> {}]
      /\ requests = {} /\ losses = 0
  BY DEF Init
<1> DEFINE off == [pc |-> "off", message |-> NoMessage, action |-> "claim",
                   answer |-> "none"]
<1>2. worker = [w \in Workers |-> off] /\ off.pc = "off" /\ off \in Worker
  BY DEF Init, Worker, Actions, Answers
<1> HIDE DEF off
<1>3. Free \in Dispatcher /\ Free.pc = "idle"
  BY PoolAssumption DEF Free, Dispatcher
<1>4. Messages = {}
  BY <1>1 DEF Messages
<1>5. row \in [Jobs -> Row] /\ losses \in 0..MaxLosses
  BY <1>1, PoolAssumption DEF Row
<1>6. Types
  BY <1>1, <1>2, <1>3, <1>5 DEF Types, Entry
<1>7. ASSUME NEW j \in Jobs PROVE RowConsistent(j) /\ row[j].status # "queued"
  BY <1>1 DEF RowConsistent
<1>8. ASSUME NEW j \in Jobs, NEW g \in Generations
      PROVE  EntryConsistent(j, g) /\ CopiesCounted(j, g)
  <2>1. outbox[j][g].state = "none" /\ outbox[j][g].token = Nobody
    BY <1>1
  <2>2. Copies(j, g) = {} /\ Publishers(j, g) = {}
    BY <1>1, <1>3, <1>4 DEF Copies, Publishers
  <2>3. ToPublish(j, g) = 0
    BY <2>1 DEF ToPublish
  <2> QED
    BY <1>1, <2>1, <2>2, <2>3, FS_EmptySet DEF EntryConsistent, CopiesCounted
<1>9. \A d \in Dispatchers : DispatcherConsistent(d)
  BY <1>1, <1>3 DEF DispatcherConsistent
<1>10. \A w \in Workers : WorkerConsistent(w, worker[w])
  BY <1>2 DEF WorkerConsistent, Executing
<1> QED
  BY <1>1, <1>6, <1>7, <1>8, <1>9, <1>10 DEF IInv, QueuedIsReachable

LEMMA StutterIInv == ASSUME IInv, UNCHANGED vars PROVE IInv'
<1>1. /\ UNCHANGED <<row, outbox, dispatcher, queue, dead, held, worker, requests, losses>>
      /\ Types
  BY DEF vars, IInv
<1>2. Types'
  BY <1>1 DEF Types
<1>3. \A w \in Workers : WorkerConsistent(w, worker[w])'
  BY <1>1 DEF IInv, WorkerConsistent, Issued, Past
<1>4. \A q \in requests' : RequestConsistent(q, worker[q.worker])'
  BY <1>1 DEF IInv, RequestConsistent, Issued, Past
<1> QED
  BY <1>1, <1>2, <1>3, <1>4, Losses, NothingMoves, BrokerMoves

LEMMA NextIInv == ASSUME IInv, [Next]_vars PROVE IInv'
<1>1. CASE Authority
  BY <1>1, AuthorityIInv
<1>2. CASE \E d \in Dispatchers : Dispatch(d)
  BY <1>2, DispatchIInv
<1>3. CASE \E w \in Workers : Work(w)
  BY <1>3, WorkIInv
<1>4. CASE UNCHANGED vars
  BY <1>4, StutterIInv
<1> QED
  BY <1>1, <1>2, <1>3, <1>4 DEF Next

\* The invariant is inductive: it holds of every state of the pool.
THEOREM Invariance == Spec => []IInv
<1>1. Init => IInv
  BY InitIInv
<1>2. IInv /\ [Next]_vars => IInv'
  BY NextIInv
<1> QED
  BY <1>1, <1>2, PTL DEF Spec

LEMMA IInvTypeOK == ASSUME IInv PROVE TypeOK
<1>1. /\ Types /\ Messages \subseteq Message
  BY MessageTypes DEF IInv
<1>2. \A m \in Messages \ dead : m.returns <= DeliveryLimit
  BY <1>1, MessageParts DEF Types
<1>3. ASSUME NEW d \in Dispatchers
      PROVE  /\ dispatcher[d].pc \in {"idle", "locked", "publishing", "sent", "failed"}
             /\ dispatcher[d].pc # "idle" => /\ dispatcher[d].job \in Jobs
                                             /\ dispatcher[d].generation \in Generations
  BY <1>1 DEF Types, Dispatcher
<1>4. ASSUME NEW w \in Workers
      PROVE  /\ worker[w].pc \in {"off", "idle", "claiming", "running", "reporting", "dying"}
             /\ worker[w].message \in Message \cup {NoMessage}
             /\ worker[w].action \in Actions /\ worker[w].answer \in Answers
  BY <1>1, StateOf DEF Worker
<1> QED
  BY <1>1, <1>2, <1>3, <1>4 DEF TypeOK, Types

\* Every variable keeps its type; in particular a message outside the dead
\* letters has returned at most DeliveryLimit times, and a copy is told apart
\* from the others with no more numbers than faults allow.
THEOREM TypesCorrect == Spec => []TypeOK
<1>1. IInv => TypeOK
  BY IInvTypeOK
<1> QED
  BY <1>1, Invariance, PTL

\* A queued job is never out of reach: dispatchOutbox has its generation still
\* to publish, or a message of it is in the broker, whatever the replicas, the
\* publications and the workers lose on the way.
THEOREM NothingIsForgotten == Spec => []QueuedIsReachable
<1>1. IInv => QueuedIsReachable
  BY DEF IInv
<1> QED
  BY <1>1, Invariance, PTL

\* The engine of a worker computes only for the execution of record, under a
\* lease the authority counts: a claim answered twice, a reply that arrives
\* late and a request consumed after its worker gave up start no second engine.
THEOREM ComputingIsCovered == Spec => []EngineHoldsLease
<1>1. ASSUME IInv, NEW w \in Workers, worker[w].pc \in {"running", "dying"}
      PROVE  /\ row[worker[w].message.job].generation = worker[w].message.generation
             /\ row[worker[w].message.job].owner = w
             /\ row[worker[w].message.job].lease = "held"
  <2>1. WorkerConsistent(w, worker[w]) /\ worker[w].message \in Message
    BY <1>1 DEF IInv, Types
  <2>2. worker[w].message.generation \in Nat
    BY <2>1, MessageFields DEF Generations
  <2> QED
    BY <1>1, <2>1, <2>2 DEF WorkerConsistent, Executing
<1>2. IInv => EngineHoldsLease
  BY <1>1 DEF EngineHoldsLease
<1> QED
  BY <1>2, Invariance, PTL

\* No copy leaves the broker as long as its generation can be claimed.
Kept == \A j \in Jobs, g \in Generations :
          Copies(j, g) \subseteq Copies(j, g)' \/ Past(j, g)

LEMMA DispatchKeeps == ASSUME NEW d \in Dispatchers, Dispatch(d) PROVE Kept
<1>1. queue \subseteq queue' /\ UNCHANGED <<dead, held>>
  BY DEF Dispatch, Lock, ReadJob, PublishConfirmed, PublishFailed, Settle,
         CrashDispatcher, Enqueue
<1>2. Messages \subseteq Messages'
  BY <1>1 DEF Messages
<1> QED
  BY <1>2 DEF Kept, Copies

LEMMA WorkKeeps == ASSUME IInv, NEW w \in Workers, Work(w) PROVE Kept
<1>1. Types
  BY DEF IInv
<1>2. Traffic
  <2>1. CASE UNCHANGED <<queue, dead, held>>
    BY <1>1, <2>1, NothingMoves
  <2>2. CASE \E m \in queue : Deliver(w, m)
    BY <1>1, <2>2, DeliverTraffic
  <2>3. CASE Acknowledge(w)
    BY <2>3, AcknowledgeTraffic
  <2>4. CASE ReturnHeld(w)
    BY <1>1, <2>4, ReturnHeldTraffic
  <2> QED
    BY <2>1, <2>2, <2>3, <2>4
    DEF Work, StartClaim, EndEngine, Connect, StartEngine, GiveBackGrant, Defer,
        LoseConnection, TimeOut, EngineDies
<1> QED
  BY <1>2 DEF Kept, Traffic

LEMMA AuthorityKeeps == ASSUME Authority PROVE Kept
<1>1. UNCHANGED <<queue, dead, held>>
  BY DEF Authority, CreateJob, CloseJob, RecoverLapsed, RetryFailed, LapseLease,
         Consume, ConsumeReplyLost, DropRequest
<1> QED
  BY <1>1, NoCopy DEF Kept

\* A worker acknowledges a message, and its copy is gone, only when nobody can
\* claim the generation any more: what became of it is durable by then.
THEOREM NoEarlyAcknowledgement == Spec => AcknowledgedIsSettled
<1> DEFINE Step ==
      \A m \in Messages :
        (~\E n \in Messages' : n.job = m.job /\ n.generation = m.generation
                                 /\ n.copy = m.copy)
          => ~(/\ row[m.job].status = "queued"
               /\ row[m.job].generation = m.generation)
<1>1. ASSUME IInv, [Next]_vars PROVE Kept
  <2>1. CASE UNCHANGED vars
    BY <2>1, NoCopy DEF vars, Kept
  <2> QED
    BY <1>1, <2>1, DispatchKeeps, WorkKeeps, AuthorityKeeps DEF Next
<1>2. ASSUME IInv, [Next]_vars PROVE Step
  <2> SUFFICES ASSUME NEW m \in Messages, row[m.job].status = "queued",
                      row[m.job].generation = m.generation
               PROVE  \E n \in Messages' : n.job = m.job /\ n.generation = m.generation
                                             /\ n.copy = m.copy
    OBVIOUS
  <2>1. m \in Message /\ m.job \in Jobs
    BY <1>2, MessageTypes, MessageFields DEF IInv
  <2>2. PICK j \in Jobs, g \in Generations :
          j = m.job /\ g = m.generation /\ ~Past(j, g)
    BY <1>2, <2>1, QueuedGeneration
  <2>3. m.copy \in Copies(j, g)
    BY <2>2, CopyOf
  <2>4. m.copy \in Copies(j, g)'
    BY <1>1, <1>2, <2>2, <2>3 DEF Kept
  <2> QED
    BY <2>2, <2>4 DEF Copies
<1>3. IInv /\ [Next]_vars => [Step]_vars
  BY <1>2
<1>4. Spec => [][Step]_vars
  BY <1>3, Invariance, PTL DEF Spec
<1> QED
  BY <1>4 DEF AcknowledgedIsSettled
-----------------------------------------------------------------------------
(* The capacity.                                                           *)

OccupyingBounded == IsFiniteSet(Occupying) /\ Cardinality(Occupying) <= Capacity

\* Only a grant takes another slot of the capacity.
LEMMA SlotTaken ==
  ASSUME Types, [Next]_vars,
         NEW x \in Jobs, x \in Occupying', x \notin Occupying
  PROVE  \E q \in requests : q.job = x /\ Grant(q) /\ Cardinality(Occupying) < Capacity
<1>1. \A j \in Jobs : row[j] \in Row
  BY RowFields
<1>2. \A j : j \in Occupying <=> j \in Jobs /\ row[j].owner # Nobody /\ row[j].lease = "held"
  BY DEF Occupying
<1>3. \A j : j \in Occupying' <=>
        j \in Jobs /\ row'[j].owner # Nobody /\ row'[j].lease = "held"
  BY DEF Occupying
<1>4. row'[x] # row[x]
  BY <1>2, <1>3
<1>5. ASSUME NEW j \in Jobs, NEW r, row' = [row EXCEPT ![j] = r],
             (r.owner = row[j].owner /\ r.lease = row[j].lease) \/ r.lease # "held"
      PROVE  FALSE
  BY <1>2, <1>3, <1>5 DEF Types
<1>6. ASSUME NEW j \in Jobs,
             \/ CreateJob(j) \/ \E status \in {"cancelled", "failed"} : CloseJob(j, status)
             \/ row' = [row EXCEPT ![j].status = "failed"]
      PROVE  FALSE
  <2>1. PICK r :
          /\ row' = [row EXCEPT ![j] = r]
          /\ \E status \in {"queued", "cancelled", "failed"} :
               \/ r = [row[j] EXCEPT !.status = status]
               \/ r = [row[j] EXCEPT !.status = status, !.generation = 1]
    BY <1>6 DEF CreateJob, CloseJob
  <2>2. r.owner = row[j].owner /\ r.lease = row[j].lease
    BY <1>1, <2>1 DEF Row
  <2> QED
    BY <1>5, <2>1, <2>2
<1>7. ASSUME NEW j \in Jobs, Requeue(j) PROVE FALSE
  BY <1>2, <1>3, <1>7 DEF Requeue, Types
<1>8. ASSUME NEW j \in Jobs, NEW l \in {"none", "lapsed"},
             \/ row' = [row EXCEPT ![j].lease = l]
             \/ \E status \in Terminal :
                  row' = [row EXCEPT ![j].status = status, ![j].lease = l]
      PROVE  FALSE
  <2>1. PICK r :
          /\ row' = [row EXCEPT ![j] = r]
          /\ \/ r = [row[j] EXCEPT !.lease = l]
             \/ \E status \in Terminal : r = [row[j] EXCEPT !.status = status, !.lease = l]
    <3>1. CASE row' = [row EXCEPT ![j].lease = l]
      <4>1. row' = [row EXCEPT ![j] = [row[j] EXCEPT !.lease = l]]
        BY <3>1
      <4> QED
        BY <4>1
    <3>2. CASE \E status \in Terminal :
                 row' = [row EXCEPT ![j].status = status, ![j].lease = l]
      <4>1. PICK status \in Terminal :
              row' = [row EXCEPT ![j].status = status, ![j].lease = l]
        BY <3>2
      <4>2. row' = [row EXCEPT ![j] = [row[j] EXCEPT !.status = status, !.lease = l]]
        BY <1>1, <4>1
      <4> QED
        BY <4>2
    <3> QED
      BY <1>8, <3>1, <3>2
  <2>2. r.lease = l
    BY <1>1, <2>1 DEF Row
  <2> QED
    BY <1>5, <2>1, <2>2
<1>9. ASSUME NEW q \in requests, NEW answer, Control(q, answer)
      PROVE  q.job = x /\ Grant(q) /\ Cardinality(Occupying) < Capacity
  <2>1. q.job \in Jobs
    BY DEF Types, Request
  <2>2. \/ Grant(q) /\ Cardinality(Occupying) < Capacity
        \/ UNCHANGED row \/ Requeue(q.job)
        \/ row' = [row EXCEPT ![q.job].lease = "none"]
        \/ \E status \in Terminal :
             row' = [row EXCEPT ![q.job].status = status, ![q.job].lease = "none"]
    BY <1>9 DEF Control, Outcome, Closes, Terminal
  <2>3. Grant(q) => q.job = x
    BY <1>4, <2>1 DEF Grant, Types
  <2> QED
    BY <1>4, <1>7, <1>8, <2>1, <2>2, <2>3
<1>10. CASE Authority
  BY <1>4, <1>6, <1>7, <1>8, <1>9, <1>10
  DEF Authority, RecoverLapsed, RetryFailed, LapseLease, Consume, ConsumeReplyLost,
      DropRequest
<1>11. ~(\E d \in Dispatchers : Dispatch(d))
  BY <1>4 DEF Dispatch, Lock, ReadJob, PublishConfirmed, PublishFailed, Settle,
              CrashDispatcher
<1>12. ~(\E w \in Workers : Work(w))
  BY <1>4 DEF Work, Deliver, StartClaim, EndEngine, Connect, StartEngine, GiveBackGrant,
              Defer, Acknowledge, LoseConnection, TimeOut, EngineDies
<1> QED
  BY <1>4, <1>10, <1>11, <1>12 DEF Next, vars

LEMMA CapacityStep == Types /\ OccupyingBounded /\ [Next]_vars => OccupyingBounded'
<1> SUFFICES ASSUME Types, OccupyingBounded, [Next]_vars PROVE OccupyingBounded'
  OBVIOUS
<1> PICK S, T : S = Occupying /\ T = Occupying'
  OBVIOUS
<1>1. IsFiniteSet(S) /\ Cardinality(S) \in Nat /\ Cardinality(S) <= Capacity
      /\ Capacity \in Nat
  BY FS_CardinalityType, PoolAssumption DEF OccupyingBounded
<1>2. CASE T \subseteq S
  <2>1. IsFiniteSet(T) /\ Cardinality(T) <= Cardinality(S) /\ Cardinality(T) \in Nat
    BY <1>1, <1>2, FS_Subset, FS_CardinalityType
  <2> QED
    BY <1>1, <2>1 DEF OccupyingBounded
<1>3. ASSUME NEW x \in T, x \notin S PROVE OccupyingBounded'
  <2>1. x \in Jobs
    BY DEF Occupying
  <2>2. PICK q \in requests : q.job = x /\ Grant(q) /\ Cardinality(S) < Capacity
    BY <1>3, <2>1, SlotTaken
  <2>3. \A y \in Jobs : y # x => row'[y] = row[y]
    BY <2>2 DEF Grant, Types
  <2>4. T \subseteq S \cup {x}
    BY <2>3 DEF Occupying
  <2>5. IsFiniteSet(S \cup {x}) /\ Cardinality(S \cup {x}) = Cardinality(S) + 1
    BY <1>1, <1>3, FS_AddElement
  <2>6. IsFiniteSet(T) /\ Cardinality(T) <= Cardinality(S) + 1 /\ Cardinality(T) \in Nat
    BY <2>4, <2>5, FS_Subset, FS_CardinalityType
  <2> QED
    BY <1>1, <2>2, <2>6 DEF OccupyingBounded
<1> QED
  BY <1>2, <1>3

\* The workers whose engine computes.
Engines == {w \in Workers : worker[w].pc \in {"running", "dying"}}

\* Over all the workers, and whatever replies and connections are lost, no more
\* engines compute at once than SPEECH_GLOBAL_CONCURRENCY: a worker that lost its
\* connection keeps its slot until its engine is dead, as armLease stops the
\* engine before its lease ends.
THEOREM ComputingWithinCapacity ==
  Spec => [](IsFiniteSet(Engines) /\ Cardinality(Engines) <= Capacity)
<1>1. Init => OccupyingBounded
  <2> SUFFICES ASSUME Init PROVE OccupyingBounded
    OBVIOUS
  <2>1. Occupying = {}
    BY DEF Init, Occupying
  <2> QED
    BY <2>1, FS_EmptySet, PoolAssumption DEF OccupyingBounded
<1>2. IInv => Types
  BY DEF IInv
<1>3. Spec => []OccupyingBounded
  BY <1>1, <1>2, CapacityStep, Invariance, PTL DEF Spec
<1>4. ASSUME IInv, OccupyingBounded
      PROVE  IsFiniteSet(Engines) /\ Cardinality(Engines) <= Capacity
  <2> DEFINE f == [w \in Engines |-> worker[w].message.job]
  <2>1. ASSUME NEW w \in Engines
        PROVE  LET j == worker[w].message.job
               IN  j \in Jobs /\ row[j].owner = w /\ row[j].lease = "held"
    <3>1. WorkerConsistent(w, worker[w]) /\ worker[w].message \in Message /\ w \in Workers
      BY <1>4 DEF IInv, Types, Engines
    <3>2. worker[w].message.generation \in Nat /\ worker[w].message.job \in Jobs
      BY <3>1, MessageFields DEF Generations
    <3> QED
      BY <3>1, <3>2 DEF WorkerConsistent, Executing, Engines
  <2>2. f \in [Engines -> Occupying]
    BY <2>1, PoolAssumption DEF Occupying, Engines
  <2>3. \A v, w \in Engines : f[v] = f[w] => v = w
    BY <2>1
  <2>4. f \in Injection(Engines, Occupying)
    BY <2>2, <2>3 DEF Injection, IsInjective
  <2>5. IsFiniteSet(Engines) /\ Cardinality(Engines) <= Cardinality(Occupying)
    BY <1>4, <2>4, FS_Injection DEF OccupyingBounded
  <2> QED
    BY <1>4, <2>5, FS_CardinalityType, PoolAssumption DEF OccupyingBounded
<1> QED
  BY <1>3, <1>4, Invariance, PTL
=============================================================================
