----------------------------- MODULE CallManager ----------------------------
(***************************************************************************)
(* The calls of one engine: the map of sessions, the limit on concurrent   *)
(* calls, incoming calls that wait for room, and the operations that the   *)
(* API and the stanzas of WhatsApp start.  An operation runs up to its     *)
(* first await in one step and goes on as a task, so that any other        *)
(* operation may run in between.  A call id is not a session: the peer may *)
(* offer a call again, and then a new session has the same id.             *)
(*                                                                         *)
(* Media, relays, encryption and the contents of stanzas are left out, but *)
(* for whether a session holds any: cleanup lets go of codec and sockets,  *)
(* and an operation that was in flight by then may open them again.  A     *)
(* relay is taken to connect at any time once the call connects.  The      *)
(* transport stanza opens sockets in the turn in which it finds its session*)
(* in the map, where none is cleaned, so it is no action of its own.       *)
(***************************************************************************)
EXTENDS Integers, FiniteSets, FiniteSetsExt

CONSTANTS
  Incoming,     \* ids of calls that the peer offers
  Outgoing,     \* ids of calls that startCall generates
  Devices,      \* the devices of the peer that an outgoing call rings
  NoDevice,     \* no device
  MaxCalls,     \* maxConcurrentCalls
  MaxSessions,  \* how many sessions are ever created
  MaxTasks,     \* how many operations wait at once when another one begins
  MaxFaults     \* how many awaited calls reject

Ids == Incoming \cup Outgoing
Sessions == 1..MaxSessions

ASSUME CallAssumption ==
  /\ Incoming \cap Outgoing = {} /\ Ids # {}
  /\ IsFiniteSet(Devices) /\ NoDevice \notin Devices
  /\ MaxCalls \in Nat \ {0} /\ MaxSessions \in Nat
  /\ MaxTasks \in Nat /\ MaxFaults \in Nat

VARIABLES
  calls,    \* the sessions in the map
  session,  \* every session made, in the order of the map
  made,     \* how many were
  tasks,    \* operations that wait for an awaited call
  over,     \* the calls that the peer terminated
  faults,   \* rejected calls so far
  forgot    \* history: room was made and no waiting call was looked for

vars == <<calls, session, made, tasks, over, faults, forgot>>

\* CallInfo and the flags of the session.  Both ringing states are one: "out"
\* tells them apart.  "reopened" is history: media was opened after cleanup.
States == {"none", "initiating", "ringing", "connecting", "active", "ended"}

Blank(id, out, state, blocked) ==
  [id |-> id, out |-> out, state |-> state, blocked |-> blocked, open |-> TRUE,
   reopened |-> FALSE, by |-> NoDevice, ending |-> FALSE, accepting |-> FALSE,
   busy |-> {}]

Task(op, s, id, dev) == [op |-> op, s |-> s, id |-> id, dev |-> dev]

Init ==
  /\ calls = {} /\ made = 0 /\ tasks = {} /\ over = {} /\ faults = 0
  /\ session = [s \in Sessions |->
       [Blank(CHOOSE i \in Ids : TRUE, FALSE, "none", FALSE) EXCEPT !.open = FALSE]]
  /\ forgot = FALSE

(***************************************************************************)
(* The map and the limit                                                   *)
(***************************************************************************)

\* activeCallCount
Active(C, S) == {s \in C : S[s].state # "ended" /\ ~S[s].blocked}

Room(C, S) == Cardinality(Active(C, S)) < MaxCalls

Waiting(C, S) == {s \in C : ~S[s].out /\ S[s].state = "ringing" /\ S[s].blocked}

\* calls.delete: by the id of the call.
Without(id) == {s \in calls : session[s].id # id}

\* The transition to ended, if the session has not ended, and cleanup.  The
\* refusals are not read again.
Closed(s) == [session EXCEPT ![s].state = "ended", ![s].open = FALSE,
                             ![s].by = NoDevice, ![s].busy = {}]

\* Codec or sockets are opened, whether or not the session was cleaned meanwhile.
Opened(s) == [session EXCEPT ![s].open = TRUE,
                             ![s].reopened = @ \/ ~session[s].open]

\* maybeUnblockWaitingCalls, up to its first await.
Settle(C, S, T) ==
  /\ calls' = C
  /\ IF Room(C, S) /\ Waiting(C, S) # {}
     THEN LET w == Min(Waiting(C, S)) IN
          /\ session' = [S EXCEPT ![w].blocked = FALSE]
          /\ tasks' = T \cup {Task("unblock", w, S[w].id, NoDevice)}
     ELSE session' = S /\ tasks' = T

\* createSession.  It refuses a second offer that was in flight with the first; one
\* that is decrypted only after the session ended is taken for a later offer.
Create(id, out, state, blocked, then) ==
  LET s == made + 1 IN
  /\ made' = s
  /\ session' = [session EXCEPT ![s] = Blank(id, out, state, blocked)]
  /\ calls' = calls \cup {s}
  /\ tasks' = {t \in tasks : t.id # id \/ t.op \notin {"offer", "start"}}
                \cup {Task(op, s, id, NoDevice) : op \in then}

Becoming == Cardinality({t \in tasks : t.op \in {"offer", "start"}})

Fault == faults < MaxFaults /\ faults' = faults + 1

\* An operation starts on a session that the map has.
Begin(op, s, id, dev) ==
  /\ Cardinality(tasks) < MaxTasks
  /\ tasks' = tasks \cup {Task(op, s, id, dev)}

On(t, op) == t \in tasks /\ t.op = op

Others(t) == tasks \ {t}

Next1(t, op) == Others(t) \cup {[t EXCEPT !.op = op]}

(***************************************************************************)
(* Incoming calls                                                          *)
(***************************************************************************)

\* An offer of a call whose session has ended replaces the session.
Offer(id) ==
  /\ id \in Incoming \ over /\ made + Becoming < MaxSessions
  /\ \A s \in calls : session[s].id = id => session[s].state = "ended"
  /\ calls' = Without(id)
  /\ session' = [s \in Sessions |->
       IF s \in calls /\ session[s].id = id THEN [session[s] EXCEPT !.open = FALSE]
       ELSE session[s]]
  /\ Begin("offer", 0, id, NoDevice)
  /\ UNCHANGED <<made, over, faults, forgot>>

\* The key of the call is decrypted.
OfferDecrypted(t) ==
  /\ On(t, "offer")
  /\ IF Room(calls, session) THEN Create(t.id, FALSE, "ringing", FALSE, {"activate"})
     ELSE Create(t.id, FALSE, "ringing", TRUE, {})
  /\ UNCHANGED <<over, faults, forgot>>

\* The codec is created, or the call fails.  What is sent then changes nothing.
Activated(t) ==
  /\ On(t, "activate")
  /\ \/ session' = Opened(t.s) /\ tasks' = Others(t) /\ UNCHANGED <<calls, faults>>
     \/ Fault /\ Settle(Without(t.id), Closed(t.s), Others(t))
  /\ UNCHANGED <<made, over, forgot>>

\* The codec is created, or the loop of maybeUnblockWaitingCalls is left by an
\* exception.
Unblocked(t) ==
  /\ On(t, "unblock")
  /\ \/ /\ session' = Opened(t.s) /\ tasks' = Next1(t, "announce")
        /\ UNCHANGED <<calls, faults, forgot>>
     \/ /\ Fault /\ tasks' = Others(t) /\ UNCHANGED <<calls, session>>
        /\ forgot' = (forgot \/ Room(calls, session))
  /\ UNCHANGED <<made, over>>

\* The peer is told, and the loop goes on.
Announced(t) ==
  /\ On(t, "announce")
  /\ Settle(calls, session, Others(t))
  /\ UNCHANGED <<made, over, faults, forgot>>

CanAccept(s) ==
  ~session[s].out /\ session[s].state = "ringing" /\ ~session[s].blocked

Available(s) == CanAccept(s) /\ ~session[s].ending

\* acceptCall: concurrent requests share one acceptance.
Accept(s) ==
  /\ s \in calls /\ Available(s)
  /\ \A t \in tasks : t.s = s => t.op \notin {"accept", "answer"}
  /\ Begin("accept", s, session[s].id, NoDevice)
  /\ UNCHANGED <<calls, session, made, over, faults, forgot>>

\* The stanza is built; what is sent before it may fail.
Prepared(t) ==
  /\ On(t, "accept")
  /\ tasks' = IF Available(t.s) THEN Next1(t, "answer") ELSE Others(t)
  /\ UNCHANGED <<calls, session, made, over, faults, forgot>>

Answered(t) ==
  /\ On(t, "answer") /\ tasks' = Others(t)
  /\ \/ /\ UNCHANGED faults
        /\ session' = IF Available(t.s) THEN [session EXCEPT ![t.s].state = "connecting"]
                      ELSE session
     \/ Fault /\ UNCHANGED session
  /\ UNCHANGED <<calls, made, over, forgot>>

\* rejectCall, and its end when the stanza was sent or not.
Reject(s) ==
  /\ s \in calls /\ ~session[s].out /\ session[s].state = "ringing"
  /\ session' = [session EXCEPT ![s].state = "ended"]
  /\ Begin("reject", s, session[s].id, NoDevice)
  /\ UNCHANGED <<calls, made, over, faults, forgot>>

Rejected(t) ==
  /\ On(t, "reject")
  /\ Settle(Without(t.id), Closed(t.s), Others(t))
  /\ UNCHANGED <<made, over, faults, forgot>>

\* An accept from our own phone, while the call rings here.
AcceptOfOwn(s) ==
  /\ s \in calls /\ ~session[s].out /\ session[s].state = "ringing"
  /\ Begin("elsewhere", s, session[s].id, NoDevice)
  /\ UNCHANGED <<calls, session, made, over, faults, forgot>>

Elsewhere(t) ==
  /\ On(t, "elsewhere")
  /\ IF session[t.s].state = "ringing"
     THEN Settle(Without(t.id), Closed(t.s), Others(t))
     ELSE tasks' = Others(t) /\ UNCHANGED <<calls, session>>
  /\ UNCHANGED <<made, over, faults, forgot>>

(***************************************************************************)
(* Outgoing calls                                                          *)
(***************************************************************************)

Start(id) ==
  /\ id \in Outgoing /\ made + Becoming < MaxSessions
  /\ \A s \in 1..made : session[s].id # id
  /\ Room(calls, session)
  /\ Begin("start", 0, id, NoDevice)
  /\ UNCHANGED <<calls, session, made, over, faults, forgot>>

\* Faulty variant: the limit is not checked again.
ResolvedUnchecked(t) ==
  /\ On(t, "start")
  /\ Create(t.id, TRUE, "initiating", FALSE, {"dial"})
  /\ UNCHANGED <<over, faults, forgot>>

\* The peer is resolved; the limit is checked again.
Resolved(t) ==
  /\ On(t, "start")
  /\ IF Room(calls, session) THEN Create(t.id, TRUE, "initiating", FALSE, {"dial"})
     ELSE tasks' = Others(t) /\ UNCHANGED <<calls, session, made>>
  /\ UNCHANGED <<over, faults, forgot>>

\* Faulty variant: the session is forgotten and not cleaned.
AbandonOpen(t) ==
  /\ calls' = Without(t.id) /\ tasks' = Others(t) /\ UNCHANGED session
  /\ forgot' = (forgot \/ Waiting(calls, session) # {})

\* The catch of startCall: the session is cleaned and forgotten, in the state it
\* is in; nobody looks for a waiting call.
Abandon(t) ==
  /\ session' = [session EXCEPT ![t.s].open = FALSE, ![t.s].by = NoDevice]
  /\ calls' = Without(t.id) /\ tasks' = Others(t)
  /\ forgot' = (forgot \/ Waiting(calls, session) # {})

\* Media and the offer are ready.  What initMedia opens on a session that was ended
\* meanwhile is closed in the same step: the transition fails.
Dialled(t) ==
  /\ On(t, "dial")
  /\ \/ /\ session[t.s].state = "initiating"
        /\ session' = [session EXCEPT ![t.s].state = "ringing"]
        /\ tasks' = Next1(t, "ring") /\ UNCHANGED <<calls, faults, forgot>>
     \/ session[t.s].state # "initiating" /\ Abandon(t) /\ UNCHANGED faults
     \/ Fault /\ Abandon(t)
  /\ UNCHANGED <<made, over>>

\* The offer was sent, or not.
Offered(t) ==
  /\ On(t, "ring")
  /\ \/ tasks' = Others(t) /\ UNCHANGED <<calls, session, faults, forgot>>
     \/ Fault /\ Abandon(t)
  /\ UNCHANGED <<made, over>>

\* A device accepts.  One acceptance is handled at a time.
AcceptBy(s, d) ==
  /\ s \in calls /\ session[s].out /\ session[s].state = "ringing"
  /\ session[s].by = NoDevice /\ ~session[s].accepting /\ ~session[s].ending
  /\ session' = [session EXCEPT ![s].accepting = TRUE]
  /\ Begin("accepted", s, session[s].id, d)
  /\ UNCHANGED <<calls, made, over, faults, forgot>>

\* Faulty variant: the early return leaves the flag.
WonLeaves(t) ==
  /\ On(t, "accepted")
  /\ IF session[t.s].state = "ended" \/ session[t.s].ending
     THEN tasks' = Others(t) /\ UNCHANGED session
     ELSE session' = [session EXCEPT ![t.s].by = t.dev] /\ tasks' = Next1(t, "won")
  /\ UNCHANGED <<calls, made, over, faults, forgot>>

\* The device is not ours and its key is decrypted.
Won(t) ==
  /\ On(t, "accepted")
  /\ IF session[t.s].state = "ended" \/ session[t.s].ending
     THEN session' = [session EXCEPT ![t.s].accepting = FALSE] /\ tasks' = Others(t)
     ELSE session' = [session EXCEPT ![t.s].by = t.dev] /\ tasks' = Next1(t, "won")
  /\ UNCHANGED <<calls, made, over, faults, forgot>>

\* remote_accepted, unless the call is in another state by now.
Connecting(t) ==
  /\ On(t, "won") /\ tasks' = Next1(t, "connecting")
  /\ session' = IF session[t.s].state = "ringing"
                THEN [session EXCEPT ![t.s].state = "connecting"] ELSE session
  /\ UNCHANGED <<calls, made, over, faults, forgot>>

\* The other devices were told, or the call ended meanwhile.  The relays, where some
\* are known, are connected although startCall may have cleaned the session.
Told(t) ==
  LET lost == session[t.s].state = "ended" \/ session[t.s].ending IN
  /\ On(t, "connecting") /\ tasks' = Others(t)
  /\ \E S \in IF lost THEN {session} ELSE {session, Opened(t.s)} :
       session' = [S EXCEPT ![t.s].accepting = FALSE]
  /\ UNCHANGED <<calls, made, over, faults, forgot>>

\* The answer of the server to our offer, and its end when the preaccept was sent:
\* the relays are connected whatever the session has become.
Ack(s) ==
  /\ s \in calls /\ session[s].out /\ session[s].state \notin {"initiating", "ended"}
  /\ Begin("ack", s, session[s].id, NoDevice)
  /\ UNCHANGED <<calls, session, made, over, faults, forgot>>

Acked(t) ==
  /\ On(t, "ack") /\ tasks' = Others(t)
  /\ session' = Opened(t.s)
  /\ UNCHANGED <<calls, made, over, faults, forgot>>

\* A device is busy or declines.  The call ends when all of them are busy or when
\* one that may speak for them declines; whose device it is takes awaits.
RejectBy(s, d) ==
  /\ s \in calls /\ session[s].out /\ session[s].state # "ended"
  /\ ~session[s].accepting /\ session[s].by \in {NoDevice, d}
  /\ \E busy \in BOOLEAN :
       /\ session' = IF busy THEN [session EXCEPT ![s].busy = @ \cup {d}] ELSE session
       /\ IF busy /\ session'[s].busy # Devices THEN UNCHANGED tasks
          ELSE Begin(IF session[s].by = NoDevice THEN "refused" ELSE "hung up",
                     s, session[s].id, d)
  /\ UNCHANGED <<calls, made, over, faults, forgot>>

\* Faulty variant: the session is not looked at again after the awaits.
RefusedBlindly(t) ==
  /\ On(t, "refused") \/ On(t, "hung up")
  /\ IF session[t.s].ending THEN tasks' = Others(t) /\ UNCHANGED session
     ELSE tasks' = Next1(t, "end") /\ session' = [session EXCEPT ![t.s].ending = TRUE]
  /\ UNCHANGED <<calls, made, over, faults, forgot>>

\* The session is looked at again.  An end in progress is joined.
Refused(t) ==
  LET p == session[t.s]
      winner == IF t.op = "refused" THEN NoDevice ELSE t.dev
      stale == p.state = "ended" \/ p.accepting \/ p.by # winner IN
  /\ On(t, "refused") \/ On(t, "hung up")
  /\ IF stale \/ p.ending THEN tasks' = Others(t) /\ UNCHANGED session
     ELSE tasks' = Next1(t, "end") /\ session' = [session EXCEPT ![t.s].ending = TRUE]
  /\ UNCHANGED <<calls, made, over, faults, forgot>>

(***************************************************************************)
(* Calls of both kinds                                                     *)
(***************************************************************************)

\* onRelayConnected
Relay(s) ==
  /\ session[s].open /\ session[s].state = "connecting"
  /\ session' = [session EXCEPT ![s].state = "active"]
  /\ UNCHANGED <<calls, made, tasks, over, faults, forgot>>

\* endCall: a call that is being ended is not ended twice.
End(s) ==
  /\ s \in calls /\ session[s].state # "ended" /\ ~session[s].ending
  /\ session' = [session EXCEPT ![s].ending = TRUE]
  /\ Begin("end", s, session[s].id, NoDevice)
  /\ UNCHANGED <<calls, made, over, faults, forgot>>

\* Faulty variant: nobody looks for a waiting call.
EndSentOnly(t) ==
  /\ On(t, "end")
  /\ \/ calls' = Without(t.id) /\ session' = [Closed(t.s) EXCEPT ![t.s].ending = FALSE]
        /\ UNCHANGED faults
     \/ Fault /\ session' = [session EXCEPT ![t.s].ending = FALSE] /\ UNCHANGED calls
  /\ tasks' = Others(t)
  /\ UNCHANGED <<made, over, forgot>>

\* The call ends once its stanzas are sent; otherwise it stays as it is.
EndSent(t) ==
  /\ On(t, "end")
  /\ \/ /\ Settle(Without(t.id),
                  IF session[t.s].state = "ended"
                  THEN [session EXCEPT ![t.s].ending = FALSE]
                  ELSE [Closed(t.s) EXCEPT ![t.s].ending = FALSE],
                  Others(t))
        /\ UNCHANGED faults
     \/ /\ Fault /\ tasks' = Others(t) /\ UNCHANGED calls
        /\ session' = [session EXCEPT ![t.s].ending = FALSE]
  /\ UNCHANGED <<made, over, forgot>>

\* The peer terminates a call that it knows of.
Terminate(id) ==
  LET here == {s \in calls : session[s].id = id} IN
  /\ id \in Ids \ over /\ over' = over \cup {id}
  /\ \/ \E t \in tasks : t.id = id /\ t.op = "offer"
     \/ \E s \in 1..made : session[s].id = id /\ session[s].state # "initiating"
  /\ IF here = {} THEN UNCHANGED <<calls, session, tasks>>
     ELSE LET s == CHOOSE s \in here : TRUE IN
          Settle(Without(id), IF session[s].state = "ended" THEN session ELSE Closed(s),
                 tasks)
  /\ UNCHANGED <<made, faults, forgot>>

Step(t) ==
  \/ OfferDecrypted(t) \/ Activated(t) \/ Unblocked(t) \/ Announced(t) \/ Prepared(t)
  \/ Answered(t) \/ Acked(t)
  \/ Rejected(t) \/ Elsewhere(t) \/ Resolved(t) \/ Dialled(t) \/ Offered(t)
  \/ Won(t) \/ Connecting(t) \/ Told(t) \/ Refused(t) \/ EndSent(t)

Next ==
  \/ \E id \in Ids : Offer(id) \/ Start(id) \/ Terminate(id)
  \/ \E s \in 1..made :
       \/ Accept(s) \/ Reject(s) \/ AcceptOfOwn(s) \/ Relay(s) \/ End(s) \/ Ack(s)
       \/ \E d \in Devices : AcceptBy(s, d) \/ RejectBy(s, d)
  \/ \E t \in tasks : Step(t)

Spec == Init /\ [][Next]_vars

(***************************************************************************)
(* Properties                                                              *)
(***************************************************************************)

\* Every variable has its type, and the flags of a session tell which of its
\* operations are in flight.
TypeOK ==
  /\ made \in 0..MaxSessions /\ calls \subseteq 1..made
  /\ session \in [Sessions ->
       [id : Ids, out : BOOLEAN, state : States, blocked : BOOLEAN, open : BOOLEAN,
        reopened : BOOLEAN, by : Devices \cup {NoDevice}, ending : BOOLEAN, accepting : BOOLEAN,
        busy : SUBSET Devices]]
  /\ \A t \in tasks : t.s \in 0..made /\ t.id \in Ids /\ t.dev \in Devices \cup {NoDevice}
  /\ over \subseteq Ids /\ faults \in 0..MaxFaults
  /\ forgot \in BOOLEAN
  /\ \A s \in 1..made :
       /\ session[s].accepting <=>
            \E t \in tasks : t.s = s /\ t.op \in {"accepted", "won", "connecting"}
       /\ session[s].ending <=> \E t \in tasks : t.s = s /\ t.op = "end"

\* The limit on concurrent calls holds at every moment, whatever was checked
\* before an await, and a call id names one session.
WithinCapacity ==
  /\ Cardinality(Active(calls, session)) <= MaxCalls
  /\ \A r, s \in calls : session[r].id = session[s].id => r = s

\* A session that holds media and sockets is in the map, where it can be ended, or
\* its rejection is being sent and closes it next.  Two kinds of session may be lost
\* and stay open: one of a call that was offered again while the end of its earlier
\* session was in progress, as that end deletes the call by its id; and one whose
\* media an operation in flight opened again after cleanup.
OpenIsRegistered ==
  \A s \in 1..made :
    session[s].open /\ ~session[s].reopened =>
      \/ s \in calls
      \/ \E t \in tasks : t.s = s /\ t.op = "reject"
      \/ \E r \in 1..(s - 1) : session[r].id = session[s].id

\* The first device that answers stays the winner until the call ends, and the
\* refusal of another one does not end it.
FirstAnswerWins ==
  [][\A s \in 1..made :
       session[s].by # NoDevice /\ session'[s].open =>
         /\ session'[s].by = session[s].by
         /\ \A t \in tasks' :
              t.s = s /\ t.op = "end" => t.dev \in {NoDevice, session[s].by}]_vars

\* When there is room and a call waits for it, an operation is in flight that
\* looks for it when it ends, unless startCall failed or the activation of another
\* call did: then nobody does.
WaitingIsServed ==
  Room(calls, session) /\ Waiting(calls, session) # {} =>
    forgot \/ \E t \in tasks : t.op \in {"reject", "unblock", "announce"}

\* No session of a call that its caller has ended stays.
NoneAfterTheCaller ==
  tasks = {} =>
    \A s \in calls : session[s].id \in over => session[s].state = "ended"
=============================================================================
