-------------------------- MODULE CallManagerProofs --------------------------
(***************************************************************************)
(* Theorems about CallManager, for every number of calls, devices and      *)
(* operations in flight: its types, the limit on calls, that open media    *)
(* can be ended, that a waiting call is served and that the first device   *)
(* to answer keeps the call.                                               *)
(***************************************************************************)
EXTENDS CallManager, FiniteSetTheorems, WellFoundedInduction, TLAPS

Records == [id : Ids, out : BOOLEAN, state : States, blocked : BOOLEAN,
            open : BOOLEAN, reopened : BOOLEAN, by : Devices \cup {NoDevice},
            ending : BOOLEAN, accepting : BOOLEAN, busy : SUBSET Devices]

Accepting == {"accepted", "won", "connecting"}
Becomes == {"offer", "start"}

Tasks == [op : Accepting \cup Becomes \cup
                 {"activate", "unblock", "announce", "ack", "accept", "answer", "reject", "elsewhere",
                  "dial", "ring", "refused", "hung up", "end"},
          s : 0..MaxSessions, id : Ids, dev : Devices \cup {NoDevice}]

\* What an operation in flight knows of its session.
TaskConsistent(t) ==
  /\ t.op \in Becomes => \A s \in calls : session[s].id # t.id
  /\ t.op \notin Becomes => t.s \in 1..made /\ session[t.s].id = t.id
  /\ t.op = "dial" => session[t.s].out
  /\ t.op = "accepted" => session[t.s].by = NoDevice
  /\ t.op = "end" => session[t.s].by \in {NoDevice, t.dev} \/ t.dev = NoDevice

\* One acceptance and one end of a session are in flight at a time.
OneOfAKind ==
  \A t, u \in tasks :
    /\ t.s = u.s
    /\ {t.op, u.op} \subseteq Accepting \/ {t.op, u.op} = {"end"}
    => t = u

\* The session in the map is the last one made for its call.
LatestInMap ==
  \A s \in calls, r \in 1..made : session[r].id = session[s].id => r <= s

\* Every call that is about to become a session has room for it.
Slots ==
  LET B == {t \in tasks : t.op \in Becomes} IN
  IsFiniteSet(B) /\ made + Cardinality(B) <= MaxSessions

\* A session that was not opened again after cleanup.
Holds(p) == p.open /\ ~p.reopened

\* Whoever holds media and is not in the map has ended, or is a later session of its
\* call.
OffMap ==
  \A s \in 1..made :
    Holds(session[s]) => \/ s \in calls
                         \/ session[s].state = "ended"
                         \/ \E r \in 1..(s - 1) : session[r].id = session[s].id

\* A session that has ended and holds media is being rejected.
EndedIsClosed ==
  \A s \in 1..made :
    session[s].state = "ended" /\ Holds(session[s]) =>
      \E t \in tasks : t.s = s /\ t.op = "reject"

\* The inductive invariant.
IInv ==
  /\ TypeOK
  /\ tasks \subseteq Tasks
  /\ \A t \in tasks : TaskConsistent(t)
  /\ OneOfAKind
  /\ LatestInMap /\ Slots
  /\ Cardinality(Active(calls, session)) <= MaxCalls
  /\ OffMap /\ EndedIsClosed
  /\ WaitingIsServed

-----------------------------------------------------------------------------
(* Counting the calls, and the least one that waits.                       *)

LEMMA Least ==
  ASSUME NEW S, S \subseteq Nat, S # {}
  PROVE  Min(S) \in S
<1> DEFINE R == OpToRel(<, Nat)
<1>1. PICK x \in S : \A y \in S : <<y, x>> \notin R
  <2>1. IsWellFoundedOn(R, Nat)
    BY NatLessThanWellFounded
  <2> HIDE DEF R
  <2> QED
    BY <2>1, WFMin
<1>2. \A a, b \in Nat : a < b => <<a, b>> \in R
  BY DEF OpToRel
<1> HIDE DEF R
<1>3. \A y \in S : x <= y
  <2> SUFFICES ASSUME NEW y \in S PROVE x <= y
    OBVIOUS
  <2>1. ~(y < x)
    BY <1>1, <1>2
  <2>2. x \in Nat /\ y \in Nat
    OBVIOUS
  <2> QED
    BY <2>1, <2>2
<1> QED
  BY <1>1, <1>3 DEF Min

LEMMA SessionsAre ==
  /\ Sessions \subseteq Nat
  /\ \A s \in Sessions : s \in 1..MaxSessions /\ s \in 0..MaxSessions
BY CallAssumption DEF Sessions

LEMMA Finite ==
  ASSUME NEW C, C \subseteq Sessions
  PROVE  IsFiniteSet(C) /\ Cardinality(C) \in Nat
<1>1. IsFiniteSet(Sessions)
  BY CallAssumption, FS_Interval DEF Sessions
<1> QED
  BY <1>1, FS_Subset, FS_CardinalityType

\* Of two sets of sessions.
LEMMA Fewer ==
  ASSUME NEW C, NEW D, C \subseteq Sessions, D \subseteq Sessions, C \subseteq D
  PROVE  Cardinality(C) <= Cardinality(D)
BY Finite, FS_Subset

LEMMA OneMore ==
  ASSUME NEW C, NEW D, NEW s, C \subseteq Sessions, D \subseteq Sessions,
         C \subseteq D \cup {s}, Cardinality(D) < MaxCalls
  PROVE  Cardinality(C) <= MaxCalls
<1>1. IsFiniteSet(D) /\ Cardinality(D) \in Nat
  BY Finite
<1>2. IsFiniteSet(D \cup {s}) /\ Cardinality(D \cup {s}) <= Cardinality(D) + 1
  BY <1>1, FS_AddElement
<1>3. Cardinality(C) <= Cardinality(D \cup {s})
  BY <1>2, FS_Subset
<1>4. Cardinality(C) \in Nat /\ Cardinality(D \cup {s}) \in Nat
  BY <1>2, Finite, FS_CardinalityType
<1> QED
  BY <1>1, <1>2, <1>3, <1>4, CallAssumption

-----------------------------------------------------------------------------
(* maybeUnblockWaitingCalls.                                               *)

\* What a session keeps when it is unblocked.
Alive(S, P, s) ==
  /\ P[s].id = S[s].id /\ P[s].out = S[s].out /\ P[s].state = S[s].state
  /\ P[s].open = S[s].open /\ P[s].reopened = S[s].reopened /\ P[s].by = S[s].by /\ P[s].ending = S[s].ending
  /\ P[s].accepting = S[s].accepting /\ P[s].busy = S[s].busy
  /\ P[s].blocked => S[s].blocked

LEMMA SettleFacts ==
  ASSUME NEW C, NEW S, NEW T, C \subseteq Sessions, S \in [Sessions -> Records],
         T \subseteq Tasks, Settle(C, S, T), Cardinality(Active(C, S)) <= MaxCalls
  PROVE  /\ calls' = C
         /\ session' \in [Sessions -> Records]
         /\ \A s \in Sessions : Alive(S, session', s)
         /\ tasks' \subseteq Tasks /\ T \subseteq tasks'
         /\ \A t \in tasks' \ T : t.op = "unblock" /\ t.s \in C /\ t.id = S[t.s].id
         /\ Cardinality(Active(calls', session')) <= MaxCalls
         /\ Room(calls', session') /\ Waiting(calls', session') # {}
              => \E t \in tasks' : t.op = "unblock"
<1> DEFINE w == Min(Waiting(C, S))
           u == Task("unblock", w, S[w].id, NoDevice)
           served == Room(C, S) /\ Waiting(C, S) # {}
<1>1. CASE ~served
  <2>1. calls' = C /\ session' = S /\ tasks' = T
    BY <1>1 DEF Settle
  <2> QED
    BY <1>1, <2>1 DEF Alive
<1>2. CASE served
  <2>1. w \in Waiting(C, S)
    <3>1. Waiting(C, S) \subseteq Nat
      BY SessionsAre DEF Waiting
    <3> QED
      BY <1>2, <3>1, Least
  <2>2. calls' = C /\ session' = [S EXCEPT ![w].blocked = FALSE] /\ tasks' = T \cup {u}
    BY <1>2 DEF Settle
  <2>3. w \in C /\ w \in Sessions
    BY <2>1 DEF Waiting
  <2> HIDE DEF w
  <2>4. session' \in [Sessions -> Records]
    BY <2>2, <2>3 DEF Records
  <2>5. \A s \in Sessions : Alive(S, session', s) /\ (s # w => session'[s] = S[s])
    BY <2>2, <2>3 DEF Records, Alive
  <2>6. u \in Tasks /\ u.op = "unblock" /\ u.s = w /\ u.id = S[w].id
    <3>1. S[w].id \in Ids /\ w \in 0..MaxSessions
      BY <2>3, SessionsAre DEF Records
    <3> QED
      BY <3>1 DEF Tasks, Task
  <2>7. Active(calls', session') \subseteq Active(C, S) \cup {w}
    BY <2>2, <2>5 DEF Active
  <2>8. Cardinality(Active(calls', session')) <= MaxCalls
    <3>1. Cardinality(Active(C, S)) < MaxCalls
      BY <1>2 DEF Room
    <3>2. Active(C, S) \subseteq Sessions /\ Active(calls', session') \subseteq Sessions
      BY <2>2 DEF Active
    <3> QED
      BY <2>7, <3>1, <3>2, OneMore
  <2> HIDE DEF u
  <2> QED
    BY <2>2, <2>3, <2>4, <2>5, <2>6, <2>8
<1> QED
  BY <1>1, <1>2

\* No call is about to become a session that was not before.
LEMMA SlotsKept ==
  ASSUME IInv, made' = made, \A t \in tasks' : t.op \in Becomes => t \in tasks
  PROVE  Slots'
<1> DEFINE B == {t \in tasks : t.op \in Becomes}
           D == {t \in tasks' : t.op \in Becomes}
<1>1. D \subseteq B /\ IsFiniteSet(B) /\ made + Cardinality(B) <= MaxSessions
  BY DEF IInv, Slots
<1> HIDE DEF B, D
<1>2. IsFiniteSet(D) /\ Cardinality(D) <= Cardinality(B)
  BY <1>1, FS_Subset
<1>3. Cardinality(D) \in Nat /\ Cardinality(B) \in Nat
  BY <1>1, <1>2, FS_CardinalityType
<1>4. made + Cardinality(D) <= MaxSessions
  <2>1. made \in Nat /\ MaxSessions \in Nat
    BY CallAssumption DEF IInv, TypeOK
  <2> QED
    BY <1>1, <1>2, <1>3, <2>1
<1> QED
  BY <1>2, <1>4 DEF Slots, D

\* What an operation that settles may do to a session before.
Ends(S, s) ==
  /\ S[s].id = session[s].id /\ S[s].out = session[s].out
  /\ S[s].blocked = session[s].blocked
  /\ S[s].accepting = session[s].accepting
  /\ S[s].state \in {session[s].state, "ended"}
  /\ Holds(S[s]) => Holds(session[s])
  /\ S[s].by \in {session[s].by, NoDevice}

\* The invariant after any operation that ends a session, or none, and then
\* looks for a waiting call.
LEMMA SettleKeeps ==
  ASSUME IInv, NEW C, NEW S, NEW T, C \subseteq calls, S \in [Sessions -> Records],
         T \subseteq tasks, Settle(C, S, T),
         made' = made, over' \subseteq Ids, faults' \in 0..MaxFaults, forgot' \in BOOLEAN,
         \A s \in Sessions : Ends(S, s),
         \A s \in 1..made : S[s].ending <=> \E t \in T : t.s = s /\ t.op = "end",
         \A t \in tasks \ T : t.op \notin Accepting,
         \A s \in 1..made : S[s].state = "ended" /\ Holds(S[s]) =>
                             \E t \in T : t.s = s /\ t.op = "reject",
         \A s \in calls \ C :
           Holds(S[s]) => \/ S[s].state = "ended"
                          \/ \E r \in 1..(s - 1) : session[r].id = session[s].id
  PROVE  IInv'
<1>1. /\ calls \subseteq 1..made /\ 1..made \subseteq Sessions /\ made \in 0..MaxSessions
      /\ session \in [Sessions -> Records]
  BY CallAssumption DEF IInv, TypeOK, Sessions, Records
<1>2. Cardinality(Active(C, S)) <= MaxCalls
  <2>1. Active(C, S) \subseteq Active(calls, session)
    BY <1>1 DEF Active, Ends
  <2>2. Active(C, S) \subseteq Sessions /\ Active(calls, session) \subseteq Sessions
    BY <1>1 DEF Active
  <2>3. Cardinality(Active(C, S)) <= Cardinality(Active(calls, session))
    BY <2>1, <2>2, Fewer
  <2>4. /\ Cardinality(Active(C, S)) \in Nat /\ Cardinality(Active(calls, session)) \in Nat
        /\ Cardinality(Active(calls, session)) <= MaxCalls /\ MaxCalls \in Nat
    BY <2>2, Finite, CallAssumption DEF IInv
  <2> QED
    BY <2>3, <2>4
<1>3. /\ calls' = C
      /\ session' \in [Sessions -> Records]
      /\ \A s \in Sessions : Alive(S, session', s)
      /\ tasks' \subseteq Tasks /\ T \subseteq tasks'
      /\ \A t \in tasks' \ T : t.op = "unblock" /\ t.s \in C /\ t.id = S[t.s].id
      /\ Cardinality(Active(calls', session')) <= MaxCalls
      /\ Room(calls', session') /\ Waiting(calls', session') # {}
           => \E t \in tasks' : t.op = "unblock"
  <2>1. C \subseteq Sessions /\ T \subseteq Tasks
    BY <1>1 DEF IInv
  <2> QED
    BY <1>2, <2>1, SettleFacts
<1>4. \A s \in Sessions :
        /\ session'[s].id = session[s].id /\ session'[s].out = session[s].out
        /\ session'[s].accepting = session[s].accepting
        /\ session'[s].ending = S[s].ending
        /\ session'[s].state = S[s].state /\ session'[s].state \in {session[s].state, "ended"}
        /\ Holds(session'[s]) <=> Holds(S[s])
        /\ Holds(session'[s]) => Holds(session[s])
        /\ session'[s].by \in {session[s].by, NoDevice}
  BY <1>3 DEF Alive, Ends, Holds
<1>5. TypeOK'
  <2>1. \A s \in 1..made :
          session'[s].accepting <=> \E t \in tasks' : t.s = s /\ t.op \in Accepting
    BY <1>1, <1>3, <1>4 DEF IInv, TypeOK, Accepting
  <2>2. \A s \in 1..made :
          session'[s].ending <=> \E t \in tasks' : t.s = s /\ t.op = "end"
    BY <1>1, <1>3, <1>4
  <2>3. \A t \in tasks' : t.s \in 0..made /\ t.id \in Ids /\ t.dev \in Devices \cup {NoDevice}
    <3>1. \A t \in T : t.s \in 0..made
      BY DEF IInv, TypeOK
    <3>2. \A t \in tasks' \ T : t.s \in 0..made
      BY <1>1, <1>3
    <3> QED
      BY <1>3, <3>1, <3>2 DEF Tasks
  <2> QED
    BY <1>1, <1>3, <2>1, <2>2, <2>3 DEF TypeOK, Accepting, Records
<1>6. \A t \in tasks' : TaskConsistent(t)'
  <2>1. ASSUME NEW t \in T PROVE TaskConsistent(t)'
    <3>1. TaskConsistent(t) /\ (t.op \notin Becomes => t.s \in Sessions)
      BY <1>1 DEF IInv, TaskConsistent
    <3>2. \A s \in C : s \in Sessions /\ s \in calls
      BY <1>1
    <3>3. t.op = "dial" \/ t.op = "accepted" \/ t.op = "end" => t.op \notin Becomes
      BY DEF Becomes
    <3> QED
      BY <1>3, <1>4, <3>1, <3>2, <3>3 DEF TaskConsistent
  <2>2. ASSUME NEW t \in tasks' \ T PROVE TaskConsistent(t)'
    <3>1. t.op = "unblock" /\ t.s \in 1..made /\ t.s \in Sessions /\ t.id = S[t.s].id
      BY <1>1, <1>3, <2>2
    <3>2. session'[t.s].id = t.id
      BY <1>4, <3>1 DEF Ends
    <3> QED
      BY <3>1, <3>2 DEF TaskConsistent, Becomes
  <2> QED
    BY <2>1, <2>2
<1>7. OneOfAKind'
  BY <1>3 DEF IInv, OneOfAKind, Accepting
<1>8. LatestInMap'
  BY <1>1, <1>3, <1>4 DEF IInv, LatestInMap
<1>9. OffMap' /\ EndedIsClosed'
  <2>1. OffMap'
    BY <1>1, <1>3, <1>4 DEF IInv, OffMap
  <2>2. EndedIsClosed'
    BY <1>1, <1>3, <1>4 DEF EndedIsClosed
  <2> QED
    BY <2>1, <2>2
<1>10. WaitingIsServed'
  BY <1>3 DEF WaitingIsServed
<1>11. Slots'
  <2>1. \A t \in tasks' : t.op \in Becomes => t \in tasks
    BY <1>3 DEF Becomes
  <2> QED
    BY <2>1, SlotsKept
<1> QED
  BY <1>3, <1>5, <1>6, <1>7, <1>8, <1>9, <1>10, <1>11 DEF IInv

-----------------------------------------------------------------------------
(* The other operations, one by one.                                       *)

\* No session becomes active.
LEMMA NoMore ==
  ASSUME IInv, calls' \subseteq Sessions, calls \subseteq Sessions,
         Active(calls', session') \subseteq Active(calls, session)
  PROVE  Cardinality(Active(calls', session')) <= MaxCalls
<1>1. Active(calls', session') \subseteq Sessions /\ Active(calls, session) \subseteq Sessions
  BY DEF Active
<1>2. Cardinality(Active(calls', session')) <= Cardinality(Active(calls, session))
  BY <1>1, Fewer
<1>3. /\ Cardinality(Active(calls', session')) \in Nat
      /\ Cardinality(Active(calls, session)) \in Nat /\ MaxCalls \in Nat
  BY <1>1, Finite, CallAssumption
<1> QED
  BY <1>2, <1>3 DEF IInv

\* No room is made, no call begins to wait, and whoever looks for one still will.
LEMMA StillServed ==
  ASSUME IInv, calls' \subseteq Sessions, calls \subseteq Sessions,
         Active(calls, session) \subseteq Active(calls', session'),
         Waiting(calls', session') \subseteq Waiting(calls, session),
         \A t \in tasks : t.op \in {"reject", "unblock", "announce"} => t \in tasks',
         forgot => forgot'
  PROVE  WaitingIsServed'
<1>1. Active(calls', session') \subseteq Sessions /\ Active(calls, session) \subseteq Sessions
  BY DEF Active
<1>2. Cardinality(Active(calls, session)) <= Cardinality(Active(calls', session'))
  BY <1>1, Fewer
<1>3. /\ Cardinality(Active(calls', session')) \in Nat
      /\ Cardinality(Active(calls, session)) \in Nat /\ MaxCalls \in Nat
  BY <1>1, Finite, CallAssumption
<1>4. Room(calls', session') => Room(calls, session)
  BY <1>2, <1>3 DEF Room
<1> QED
  BY <1>4 DEF IInv, WaitingIsServed

\* What an operation that ends no call may do to a session.
Kept(s) ==
  /\ session'[s].id = session[s].id /\ session'[s].out = session[s].out
  /\ session'[s].blocked = session[s].blocked
  /\ Holds(session'[s]) => Holds(session[s])
  /\ session[s].state = "ended" => session'[s].state = "ended"

\* Of two acceptances, or two ends, of a session.
Clash(t, u) ==
  /\ t.s = u.s
  /\ {t.op, u.op} \subseteq Accepting \/ {t.op, u.op} = {"end"}

\* The flags of a session tell which of its operations are in flight.
Flagged(s, T) ==
  /\ session[s].accepting <=> \E t \in T : t.s = s /\ t.op \in Accepting
  /\ session[s].ending <=> \E t \in T : t.s = s /\ t.op = "end"

\* The invariant after any operation that makes no session and settles nothing.
LEMMA QuietKeeps ==
  ASSUME IInv, made' = made, calls' \subseteq calls,
         session' \in [Sessions -> Records], \A s \in Sessions : Kept(s),
         over' = over, faults' \in 0..MaxFaults, forgot' \in BOOLEAN,
         tasks' \subseteq Tasks,
         \A t \in tasks' \ tasks : t.s \in 0..made /\ TaskConsistent(t)',
         \A t \in tasks' \cap tasks :
           t.op \in {"accepted", "end"} =>
             session'[t.s].by \in {session[t.s].by, NoDevice},
         \A s \in 1..made : Flagged(s, tasks)',
         \A t \in tasks' \ tasks, u \in tasks' : Clash(t, u) => t = u,
         \A s \in calls \ calls' :
           Holds(session'[s]) => \E r \in 1..(s - 1) : session[r].id = session[s].id,
         \A s \in calls : s \in Sessions /\ session'[s].state # "ended"
                            => session[s].state # "ended",
         EndedIsClosed', WaitingIsServed', Slots'
  PROVE  IInv'
<1>1. /\ calls \subseteq 1..made /\ 1..made \subseteq Sessions /\ made \in 0..MaxSessions
      /\ session \in [Sessions -> Records]
  BY CallAssumption DEF IInv, TypeOK, Sessions, Records
<1>2. \A s \in Sessions :
        /\ session'[s].id = session[s].id /\ session'[s].out = session[s].out
        /\ session'[s].blocked = session[s].blocked
        /\ Holds(session'[s]) => Holds(session[s])
        /\ session[s].state = "ended" => session'[s].state = "ended"
  BY DEF Kept
<1>3. Cardinality(Active(calls', session')) <= MaxCalls
  <2>1. Active(calls', session') \subseteq Active(calls, session)
    BY <1>1, <1>2 DEF Active
  <2> QED
    BY <1>1, <2>1, NoMore
<1>4. TypeOK'
  <2>1. \A t \in tasks' : t.s \in 0..made
    BY DEF IInv, TypeOK
  <2>2. \A t \in tasks' : t.id \in Ids /\ t.dev \in Devices \cup {NoDevice}
    BY DEF Tasks
  <2>3. over' \subseteq Ids /\ calls' \subseteq 1..made
    BY <1>1 DEF IInv, TypeOK
  <2> QED
    BY <1>1, <2>1, <2>2, <2>3 DEF TypeOK, Flagged, Accepting, Records
<1>5. \A t \in tasks' : TaskConsistent(t)'
  <2> SUFFICES ASSUME NEW t \in tasks' \cap tasks PROVE TaskConsistent(t)'
    OBVIOUS
  <2>1. TaskConsistent(t) /\ (t.op \notin Becomes => t.s \in Sessions)
    BY <1>1 DEF IInv, TaskConsistent
  <2>2. t.op = "dial" \/ t.op = "accepted" \/ t.op = "end" => t.op \notin Becomes
    BY DEF Becomes
  <2>3. t.op \in Becomes => \A s \in calls' : session'[s].id # t.id
    BY <1>1, <1>2, <2>1 DEF TaskConsistent
  <2>4. t.op \notin Becomes => t.s \in 1..made' /\ session'[t.s].id = t.id
    BY <1>1, <1>2, <2>1 DEF TaskConsistent
  <2>5. t.op = "dial" => session'[t.s].out
    BY <1>2, <2>1, <2>2 DEF TaskConsistent
  <2>6. t.op = "accepted" => session'[t.s].by = NoDevice
    BY <2>1 DEF TaskConsistent
  <2>7. t.op = "end" => session'[t.s].by \in {NoDevice, t.dev} \/ t.dev = NoDevice
    BY <2>1 DEF TaskConsistent
  <2> QED
    BY <2>3, <2>4, <2>5, <2>6, <2>7 DEF TaskConsistent
<1>6. OneOfAKind'
  <2> SUFFICES ASSUME NEW t \in tasks', NEW u \in tasks', Clash(t, u) PROVE t = u
    BY DEF OneOfAKind, Clash
  <2>1. Clash(u, t)
    BY DEF Clash
  <2>2. CASE t \in tasks /\ u \in tasks
    BY <2>2 DEF IInv, OneOfAKind, Clash
  <2> QED
    BY <2>1, <2>2
<1>7. LatestInMap'
  BY <1>1, <1>2 DEF IInv, LatestInMap
<1>8. OffMap'
  <2> SUFFICES ASSUME NEW s \in 1..made, Holds(session'[s])
               PROVE  \/ s \in calls'
                      \/ session'[s].state = "ended"
                      \/ \E r \in 1..(s - 1) : session'[r].id = session'[s].id
    BY DEF OffMap
  <2>1. \/ s \in calls
        \/ session[s].state = "ended"
        \/ \E r \in 1..(s - 1) : session[r].id = session[s].id
    BY <1>1, <1>2 DEF IInv, OffMap
  <2>2. \A r \in 1..(s - 1) : r \in Sessions
    BY <1>1 DEF Sessions
  <2> QED
    BY <1>1, <1>2, <2>1, <2>2
<1> QED
  BY <1>3, <1>4, <1>5, <1>6, <1>7, <1>8 DEF IInv

\* A session that changes and whose call neither ends nor begins to wait.
LEMMA OneServed ==
  ASSUME IInv, NEW x \in 1..made, NEW p \in Records,
         session' = [session EXCEPT ![x] = p], calls' = calls, forgot' = forgot,
         p.out = session[x].out, p.blocked = session[x].blocked,
         p.state = "ended" => session[x].state = "ended",
         p.state = "ringing" => session[x].state = "ringing" \/ p.out,
         \A t \in tasks : t.op \in {"reject", "unblock", "announce"} => t \in tasks'
  PROVE  WaitingIsServed'
<1>1. /\ calls \subseteq Sessions /\ session \in [Sessions -> Records] /\ x \in Sessions
  BY CallAssumption DEF IInv, TypeOK, Sessions, Records
<1>2. session'[x] = p /\ \A s \in Sessions : s # x => session'[s] = session[s]
  BY <1>1
<1>3. Active(calls, session) \subseteq Active(calls', session')
  BY <1>1, <1>2 DEF Active
<1>4. Waiting(calls', session') \subseteq Waiting(calls, session)
  BY <1>1, <1>2 DEF Waiting
<1> QED
  BY <1>1, <1>3, <1>4, StillServed

\* One session changes to p.
SessionChange(x, p) ==
  /\ p \in Records /\ session' = [session EXCEPT ![x] = p]
  /\ p.id = session[x].id /\ p.out = session[x].out /\ p.blocked = session[x].blocked
  /\ Holds(p) => Holds(session[x])
  /\ session[x].state = "ended" => p.state = "ended"

\* The operations O of that session are over and N begin.
TaskChange(x, p, O, N) ==
  /\ tasks' = (tasks \ O) \cup N /\ O \subseteq tasks /\ N \subseteq Tasks
  /\ \A t \in O \cup N : t.s = x
  /\ \A t \in N : /\ t.op \notin Becomes \cup {"dial"} /\ t.id = p.id
                  /\ t.op = "accepted" => p.by = NoDevice
                  /\ t.op = "end" => p.by \in {NoDevice, t.dev} \/ t.dev = NoDevice
  /\ \/ p.by \in {session[x].by, NoDevice}
     \/ \A t \in tasks \cap tasks' : t.s = x => t.op \notin {"accepted", "end"}
  /\ p.accepting <=> \E t \in tasks' : t.s = x /\ t.op \in Accepting
  /\ p.ending <=> \E t \in tasks' : t.s = x /\ t.op = "end"
  /\ \A t \in N, u \in tasks' : Clash(t, u) => t = u
  /\ \A t \in O : t.op # "reject"
  /\ p.state = "ended" /\ Holds(p) =>
       session[x].state = "ended" \/ \E t \in N : t.op = "reject"

\* What else the operation changes.
CallChange(x, p, O) ==
  /\ made' = made /\ calls' \subseteq calls /\ over' = over
  /\ faults' \in 0..MaxFaults /\ forgot' \in BOOLEAN
  /\ \A s \in calls \ calls' :
       (s = x /\ ~Holds(p)) \/ \E r \in 1..(s - 1) : session[r].id = session[s].id
  /\ \/ WaitingIsServed'
     \/ /\ calls' = calls /\ forgot' = forgot
        /\ p.state = "ended" => session[x].state = "ended"
        /\ p.state = "ringing" => session[x].state = "ringing" \/ p.out
        /\ \A t \in O : t.op \notin {"reject", "unblock", "announce"}

\* The same when one session changes, and operations of it end or begin.
LEMMA OneKeeps ==
  ASSUME IInv, NEW x \in 1..made, NEW p, NEW O, NEW N,
         SessionChange(x, p), TaskChange(x, p, O, N), CallChange(x, p, O)
  PROVE  IInv'
<1> USE DEF SessionChange, TaskChange, Holds, CallChange, Holds
<1>1. /\ calls \subseteq 1..made /\ 1..made \subseteq Sessions /\ made \in 0..MaxSessions
      /\ session \in [Sessions -> Records] /\ x \in Sessions
  BY CallAssumption DEF IInv, TypeOK, Sessions, Records
<1>2. /\ session' \in [Sessions -> Records] /\ session'[x] = p
      /\ \A s \in Sessions : s # x => session'[s] = session[s]
  BY <1>1
<1>3. \A s \in Sessions : Kept(s)
  BY <1>1, <1>2 DEF Kept
<1>4. tasks' \subseteq Tasks
  BY DEF IInv
<1>5. \A t \in tasks' \ tasks : t.s \in 0..made /\ TaskConsistent(t)'
  <2> SUFFICES ASSUME NEW t \in N PROVE t.s \in 0..made /\ TaskConsistent(t)'
    OBVIOUS
  <2>1. t.s = x /\ x \in 1..made'
    OBVIOUS
  <2>2. x \in 0..made
    BY <1>1
  <2> QED
    BY <1>2, <2>1, <2>2 DEF TaskConsistent
<1>6. \A t \in tasks' \cap tasks :
        t.op \in {"accepted", "end"} => session'[t.s].by \in {session[t.s].by, NoDevice}
  <2> SUFFICES ASSUME NEW t \in tasks' \cap tasks, t.op \in {"accepted", "end"}
               PROVE  session'[t.s].by \in {session[t.s].by, NoDevice}
    OBVIOUS
  <2>1. t.s \in Sessions
    BY <1>1 DEF IInv, TaskConsistent, Becomes
  <2>2. CASE t.s # x
    BY <1>2, <2>1, <2>2
  <2>3. CASE t.s = x
    BY <1>2, <2>3
  <2> QED
    BY <2>2, <2>3
<1>7. \A s \in 1..made : Flagged(s, tasks)'
  <2> SUFFICES ASSUME NEW s \in 1..made PROVE Flagged(s, tasks)'
    OBVIOUS
  <2>1. CASE s = x
    BY <1>2, <2>1 DEF Flagged
  <2>2. CASE s # x
    <3>1. \A t : t.s = s => (t \in tasks' <=> t \in tasks)
      BY <2>2
    <3>2. session'[s] = session[s]
      BY <1>1, <1>2, <2>2
    <3> QED
      BY <3>1, <3>2 DEF Flagged, IInv, TypeOK, Accepting
  <2> QED
    BY <2>1, <2>2
<1>13. EndedIsClosed'
  <2> SUFFICES ASSUME NEW s \in 1..made, session'[s].state = "ended", Holds(session'[s])
               PROVE  \E t \in tasks' : t.s = s /\ t.op = "reject"
    BY DEF EndedIsClosed
  <2>1. \A t \in tasks : t.op = "reject" => t \in tasks'
    OBVIOUS
  <2>2. CASE session[s].state = "ended"
    BY <1>1, <1>3, <2>1, <2>2 DEF IInv, EndedIsClosed, Kept
  <2>3. CASE session[s].state # "ended"
    <3>1. s = x
      BY <1>1, <1>2, <2>3
    <3> QED
      BY <1>2, <2>3, <3>1
  <2> QED
    BY <2>2, <2>3
<1>8. \A s \in calls \ calls' :
        Holds(session'[s]) => \E r \in 1..(s - 1) : session[r].id = session[s].id
  BY <1>2
<1>9. \A s \in calls : s \in Sessions /\ session'[s].state # "ended"
                         => session[s].state # "ended"
  BY <1>3 DEF Kept
<1>10. \A t \in tasks' \ tasks, u \in tasks' : Clash(t, u) => t = u
  OBVIOUS
<1>11. WaitingIsServed'
  BY OneServed
<1>12. Slots'
  BY SlotsKept
<1> QED
  BY <1>11, <1>12, <1>2, <1>3, <1>4, <1>5, <1>6, <1>7, <1>8, <1>9, <1>10, <1>13,
     QuietKeeps

\* What the invariant says of a session and of an operation.
LEMMA Known ==
  ASSUME IInv
  PROVE  /\ made \in 0..MaxSessions /\ 1..made \subseteq Sessions /\ calls \subseteq 1..made
         /\ session \in [Sessions -> Records]
         /\ over \subseteq Ids /\ faults \in 0..MaxFaults /\ forgot \in BOOLEAN
         /\ \A s \in 1..made : session[s] \in Records /\ Flagged(s, tasks)
         /\ \A t \in tasks : t \in Tasks /\ TaskConsistent(t)
         /\ \A t, u \in tasks : Clash(t, u) => t = u
<1>1. /\ made \in 0..MaxSessions /\ 1..made \subseteq Sessions /\ calls \subseteq 1..made
      /\ session \in [Sessions -> Records]
      /\ over \subseteq Ids /\ faults \in 0..MaxFaults /\ forgot \in BOOLEAN
  BY CallAssumption DEF IInv, TypeOK, Sessions, Records
<1>2. \A s \in 1..made : session[s] \in Records /\ Flagged(s, tasks)
  BY <1>1 DEF IInv, TypeOK, Flagged, Accepting
<1>3. \A t \in tasks : t \in Tasks /\ TaskConsistent(t)
  BY DEF IInv
<1>4. \A t, u \in tasks : Clash(t, u) => t = u
  BY DEF IInv, OneOfAKind, Clash
<1> QED
  BY <1>1, <1>2, <1>3, <1>4

\* An operation that begins on a session.
LEMMA NewTask ==
  ASSUME IInv, NEW x \in 1..made, NEW d, d \in Devices \cup {NoDevice}, NEW op,
         op \in {"accept", "ack", "reject", "elsewhere", "accepted", "refused", "hung up", "end"},
         NEW u, u = Task(op, x, session[x].id, d)
  PROVE  u \in Tasks
<1>1. x \in 0..MaxSessions
  BY Known, SessionsAre
<1>2. session[x].id \in Ids
  <2>1. session[x] \in Records
    BY Known
  <2> QED
    BY <2>1 DEF Records
<1> QED
  BY <1>1, <1>2 DEF Task, Tasks, Becomes, Accepting

\* An operation of a session that goes on.
LEMMA NextTask ==
  ASSUME IInv, NEW t \in tasks, t.op \notin Becomes, NEW op,
         op \in {"answer", "announce", "ring", "won", "connecting", "end"},
         NEW u, u = [t EXCEPT !.op = op]
  PROVE  u \in Tasks
<1>1. t \in Tasks
  BY Known
<1> QED
  BY <1>1 DEF Tasks, Accepting

LEMMA NextFields ==
  ASSUME IInv, NEW t \in tasks, NEW op, NEW u, u = [t EXCEPT !.op = op]
  PROVE  u.op = op /\ u.s = t.s /\ u.id = t.id /\ u.dev = t.dev
<1>1. t \in Tasks
  BY Known
<1> QED
  BY <1>1 DEF Tasks

LEMMA AcceptStep ==
  ASSUME IInv, NEW s \in 1..made, Accept(s)
  PROVE  IInv'
<1> DEFINE u == Task("accept", s, session[s].id, NoDevice)
<1>1. u = Task("accept", s, session[s].id, NoDevice) /\ tasks' = (tasks \ {}) \cup {u}
  BY DEF Accept, Begin
<1> HIDE DEF u
<1>2. u \in Tasks /\ u.op = "accept" /\ u.s = s /\ u.id = session[s].id
  BY <1>1, NewTask DEF Task
<1>3. SessionChange(s, session[s])
  BY Known DEF Accept, SessionChange, Holds
<1>4. TaskChange(s, session[s], {}, {u})
  <2>1. Flagged(s, tasks)
    BY Known
  <2> QED
    BY <1>1, <1>2, <2>1 DEF TaskChange, Holds, Flagged, Clash, Accepting, Becomes
<1>5. CallChange(s, session[s], {})
  BY Known DEF Accept, CallChange, Holds
<1> QED
  BY <1>3, <1>4, <1>5, OneKeeps

LEMMA AnsweredStep ==
  ASSUME IInv, NEW t \in tasks, Answered(t)
  PROVE  IInv'
<1> DEFINE x == t.s
           p == session'[x]
<1>1. x \in 1..made /\ session[x] \in Records /\ x \in Sessions /\ Flagged(x, tasks)
  BY Known DEF Answered, On, TaskConsistent, Becomes
<1>2. /\ session' = [session EXCEPT ![x] = p] /\ p \in Records
      /\ p.id = session[x].id /\ p.out = session[x].out /\ p.blocked = session[x].blocked
      /\ p.open = session[x].open /\ p.reopened = session[x].reopened
      /\ p.by = session[x].by
      /\ p.accepting = session[x].accepting /\ p.ending = session[x].ending
      /\ p.state \in {session[x].state, "connecting"}
      /\ session[x].state = "ended" => p.state = "ended"
  BY <1>1, Known DEF Answered, Available, CanAccept, Records, States
<1> HIDE DEF p
<1>3. SessionChange(x, p)
  BY <1>2 DEF SessionChange, Holds
<1>4. TaskChange(x, p, {t}, {})
  BY <1>1, <1>2 DEF Answered, Others, On, TaskChange, Holds, Flagged, Accepting
<1>5. CallChange(x, p, {t})
  BY <1>2, Known, CallAssumption DEF Answered, On, Fault, CallChange, Holds
<1> QED
  BY <1>1, <1>3, <1>4, <1>5, OneKeeps

LEMMA PreparedStep ==
  ASSUME IInv, NEW t \in tasks, Prepared(t)
  PROVE  IInv'
<1> DEFINE x == t.s
           u == [t EXCEPT !.op = "answer"]
           N == IF Available(x) THEN {u} ELSE {}
<1>1. x \in 1..made /\ session[x] \in Records /\ Flagged(x, tasks) /\ t.op = "accept"
  BY Known DEF Prepared, On, TaskConsistent, Becomes
<1>2. t.id = session[x].id
  BY <1>1, Known DEF TaskConsistent, Becomes
<1>3. u \in Tasks
  BY <1>1, NextTask DEF Becomes
<1>4. u.op = "answer" /\ u.s = x /\ u.id = t.id
  BY NextFields
<1>5. tasks' = (tasks \ {t}) \cup N
  BY DEF Prepared, Next1, Others
<1> HIDE DEF u
<1>6. SessionChange(x, session[x])
  BY <1>1, Known DEF Prepared, SessionChange, Holds
<1>7. TaskChange(x, session[x], {t}, N)
  BY <1>1, <1>2, <1>3, <1>4, <1>5 DEF TaskChange, Holds, Flagged, Accepting, Clash, Becomes
<1>8. CallChange(x, session[x], {t})
  BY <1>1, Known DEF Prepared, CallChange, Holds
<1> QED
  BY <1>1, <1>6, <1>7, <1>8, OneKeeps

\* The session that a failed startCall forgets has ended or is older than the one
\* in the map.
LEMMA AbandonKeeps ==
  ASSUME IInv, NEW t \in tasks, t.op \in {"dial", "ring"}, Abandon(t),
         made' = made, over' = over, faults' \in 0..MaxFaults
  PROVE  IInv'
<1> DEFINE x == t.s
           p == [session[x] EXCEPT !.open = FALSE, !.by = NoDevice]
<1>1. /\ x \in 1..made /\ session[x] \in Records /\ Flagged(x, tasks)
      /\ t.id = session[x].id /\ x \in Sessions
  BY Known DEF TaskConsistent, Becomes
<1>2. /\ p \in Records
      /\ p.id = session[x].id /\ p.out = session[x].out /\ p.blocked = session[x].blocked
      /\ p.open = FALSE /\ p.by = NoDevice /\ p.state = session[x].state
      /\ p.accepting = session[x].accepting /\ p.ending = session[x].ending
  BY <1>1 DEF Records
<1>3. session' = [session EXCEPT ![x] = p] /\ tasks' = (tasks \ {t}) \cup {}
  BY <1>1, Known DEF Abandon, Others
<1> HIDE DEF p
<1>4. SessionChange(x, p)
  BY <1>2, <1>3 DEF SessionChange, Holds
<1>5. TaskChange(x, p, {t}, {})
  BY <1>1, <1>2, <1>3 DEF TaskChange, Holds, Flagged, Accepting
<1>6. \A s \in calls \ calls' :
        s = x \/ \E r \in 1..(s - 1) : session[r].id = session[s].id
  <2> SUFFICES ASSUME NEW s \in calls, s \notin calls', s # x
               PROVE  x \in 1..(s - 1) /\ session[x].id = session[s].id
    OBVIOUS
  <2>1. session[s].id = session[x].id
    BY <1>1 DEF Abandon, Without
  <2>2. x <= s
    BY <1>1, <2>1 DEF IInv, LatestInMap
  <2>3. s \in 1..made /\ made \in Nat
    BY Known
  <2> QED
    BY <1>1, <2>1, <2>2, <2>3
<1>7. WaitingIsServed'
  <2>1. Waiting(calls', session') \subseteq Waiting(calls, session)
    BY <1>1, <1>2, <1>3, Known DEF Abandon, Without, Waiting
  <2> QED
    BY <2>1 DEF Abandon, WaitingIsServed
<1>8. CallChange(x, p, {t})
  BY <1>2, <1>6, <1>7, Known DEF Abandon, Without, CallChange, Holds
<1> QED
  BY <1>1, <1>4, <1>5, <1>8, OneKeeps

LEMMA RejectStep ==
  ASSUME IInv, NEW s \in 1..made, Reject(s)
  PROVE  IInv'
<1> DEFINE p == [session[s] EXCEPT !.state = "ended"]
           u == Task("reject", s, session[s].id, NoDevice)
<1>1. session[s] \in Records /\ Flagged(s, tasks)
  BY Known
<1>2. /\ p \in Records
      /\ p.id = session[s].id /\ p.out = session[s].out /\ p.blocked = session[s].blocked
      /\ p.open = session[s].open /\ p.reopened = session[s].reopened
      /\ p.by = session[s].by /\ p.state = "ended"
      /\ p.accepting = session[s].accepting /\ p.ending = session[s].ending
  BY <1>1 DEF Records, States
<1>3. session' = [session EXCEPT ![s] = p]
  BY <1>1, Known DEF Reject
<1>4. u = Task("reject", s, session[s].id, NoDevice) /\ tasks' = (tasks \ {}) \cup {u}
  BY DEF Reject, Begin
<1> HIDE DEF p, u
<1>5. u \in Tasks /\ u.op = "reject" /\ u.s = s /\ u.id = session[s].id
  BY <1>4, NewTask DEF Task
<1>6. SessionChange(s, p)
  BY <1>2, <1>3 DEF SessionChange, Holds
<1>7. TaskChange(s, p, {}, {u})
  BY <1>1, <1>2, <1>4, <1>5 DEF TaskChange, Holds, Flagged, Clash, Accepting, Becomes
<1>8. CallChange(s, p, {})
  BY <1>4, <1>5, Known DEF Reject, CallChange, Holds, WaitingIsServed
<1> QED
  BY <1>6, <1>7, <1>8, OneKeeps

LEMMA AcceptOfOwnStep ==
  ASSUME IInv, NEW s \in 1..made, AcceptOfOwn(s)
  PROVE  IInv'
<1> DEFINE u == Task("elsewhere", s, session[s].id, NoDevice)
<1>1. u = Task("elsewhere", s, session[s].id, NoDevice) /\ tasks' = (tasks \ {}) \cup {u}
  BY DEF AcceptOfOwn, Begin
<1> HIDE DEF u
<1>2. u \in Tasks /\ u.op = "elsewhere" /\ u.s = s /\ u.id = session[s].id
  BY <1>1, NewTask DEF Task
<1>3. SessionChange(s, session[s])
  BY Known DEF AcceptOfOwn, SessionChange, Holds
<1>4. TaskChange(s, session[s], {}, {u})
  <2>1. Flagged(s, tasks)
    BY Known
  <2> QED
    BY <1>1, <1>2, <2>1 DEF TaskChange, Holds, Flagged, Clash, Accepting, Becomes
<1>5. CallChange(s, session[s], {})
  BY Known DEF AcceptOfOwn, CallChange, Holds
<1> QED
  BY <1>3, <1>4, <1>5, OneKeeps

LEMMA AcceptByStep ==
  ASSUME IInv, NEW s \in 1..made, NEW d \in Devices, AcceptBy(s, d)
  PROVE  IInv'
<1> DEFINE p == [session[s] EXCEPT !.accepting = TRUE]
           u == Task("accepted", s, session[s].id, d)
<1>1. session[s] \in Records /\ Flagged(s, tasks)
  BY Known
<1>2. /\ p \in Records
      /\ p.id = session[s].id /\ p.out = session[s].out /\ p.blocked = session[s].blocked
      /\ p.open = session[s].open /\ p.reopened = session[s].reopened
      /\ p.by = session[s].by /\ p.state = session[s].state
      /\ p.accepting = TRUE /\ p.ending = session[s].ending
  BY <1>1 DEF Records
<1>3. session' = [session EXCEPT ![s] = p]
  BY <1>1, Known DEF AcceptBy
<1>4. u = Task("accepted", s, session[s].id, d) /\ tasks' = (tasks \ {}) \cup {u}
  BY DEF AcceptBy, Begin
<1> HIDE DEF p, u
<1>5. u \in Tasks /\ u.op = "accepted" /\ u.s = s /\ u.id = session[s].id
  BY <1>4, NewTask DEF Task
<1>6. SessionChange(s, p)
  BY <1>2, <1>3 DEF SessionChange, Holds
<1>7. TaskChange(s, p, {}, {u})
  <2>1. ~session[s].accepting /\ session[s].by = NoDevice
    BY DEF AcceptBy
  <2> QED
    BY <1>1, <1>2, <1>4, <1>5, <2>1 DEF TaskChange, Holds, Flagged, Clash, Accepting, Becomes
<1>8. CallChange(s, p, {})
  BY <1>2, Known DEF AcceptBy, CallChange, Holds
<1> QED
  BY <1>6, <1>7, <1>8, OneKeeps

LEMMA EndStep ==
  ASSUME IInv, NEW s \in 1..made, End(s)
  PROVE  IInv'
<1> DEFINE p == [session[s] EXCEPT !.ending = TRUE]
           u == Task("end", s, session[s].id, NoDevice)
<1>1. session[s] \in Records /\ Flagged(s, tasks)
  BY Known
<1>2. /\ p \in Records
      /\ p.id = session[s].id /\ p.out = session[s].out /\ p.blocked = session[s].blocked
      /\ p.open = session[s].open /\ p.reopened = session[s].reopened
      /\ p.by = session[s].by /\ p.state = session[s].state
      /\ p.accepting = session[s].accepting /\ p.ending = TRUE
  BY <1>1 DEF Records
<1>3. session' = [session EXCEPT ![s] = p]
  BY <1>1, Known DEF End
<1>4. u = Task("end", s, session[s].id, NoDevice) /\ tasks' = (tasks \ {}) \cup {u}
  BY DEF End, Begin
<1> HIDE DEF p, u
<1>5. u \in Tasks /\ u.op = "end" /\ u.s = s /\ u.id = session[s].id /\ u.dev = NoDevice
  BY <1>4, NewTask DEF Task
<1>6. SessionChange(s, p)
  BY <1>2, <1>3 DEF SessionChange, Holds
<1>7. TaskChange(s, p, {}, {u})
  <2>1. ~session[s].ending
    BY DEF End
  <2> QED
    BY <1>1, <1>2, <1>4, <1>5, <2>1 DEF TaskChange, Holds, Flagged, Clash, Accepting, Becomes
<1>8. CallChange(s, p, {})
  BY <1>2, Known DEF End, CallChange, Holds
<1> QED
  BY <1>6, <1>7, <1>8, OneKeeps

LEMMA RelayStep ==
  ASSUME IInv, NEW s \in 1..made, Relay(s)
  PROVE  IInv'
<1> DEFINE p == [session[s] EXCEPT !.state = "active"]
<1>1. session[s] \in Records /\ Flagged(s, tasks) /\ session[s].state = "connecting"
  BY Known DEF Relay
<1>2. /\ p \in Records
      /\ p.id = session[s].id /\ p.out = session[s].out /\ p.blocked = session[s].blocked
      /\ p.open = session[s].open /\ p.reopened = session[s].reopened
      /\ p.by = session[s].by /\ p.state = "active"
      /\ p.accepting = session[s].accepting /\ p.ending = session[s].ending
  BY <1>1 DEF Records, States
<1>3. session' = [session EXCEPT ![s] = p] /\ tasks' = (tasks \ {}) \cup {}
  BY <1>1, Known DEF Relay
<1> HIDE DEF p
<1>4. SessionChange(s, p)
  BY <1>1, <1>2, <1>3 DEF SessionChange, Holds
<1>5. TaskChange(s, p, {}, {})
  BY <1>1, <1>2, <1>3 DEF TaskChange, Holds, Flagged, Accepting
<1>6. CallChange(s, p, {})
  BY <1>2, Known DEF Relay, CallChange, Holds
<1> QED
  BY <1>4, <1>5, <1>6, OneKeeps

LEMMA RejectByStep ==
  ASSUME IInv, NEW s \in 1..made, NEW d \in Devices, RejectBy(s, d)
  PROVE  IInv'
<1> DEFINE p == session'[s]
           op == IF session[s].by = NoDevice THEN "refused" ELSE "hung up"
           u == Task(op, s, session[s].id, d)
<1>1. session[s] \in Records /\ Flagged(s, tasks) /\ s \in Sessions
  BY Known
<1>2. /\ session' = [session EXCEPT ![s] = p] /\ p \in Records
      /\ p.id = session[s].id /\ p.out = session[s].out /\ p.blocked = session[s].blocked
      /\ p.open = session[s].open /\ p.reopened = session[s].reopened
      /\ p.by = session[s].by /\ p.state = session[s].state
      /\ p.accepting = session[s].accepting /\ p.ending = session[s].ending
  <2>1. PICK b \in SUBSET Devices : session' = [session EXCEPT ![s].busy = b]
    <3>1. session = [session EXCEPT ![s].busy = session[s].busy] /\ session[s].busy \subseteq Devices
      BY <1>1, Known DEF Records
    <3> QED
      BY <3>1 DEF RejectBy
  <2> QED
    BY <1>1, <2>1, Known DEF Records
<1>3. tasks' = tasks \/ tasks' = (tasks \ {}) \cup {u}
  BY DEF RejectBy, Begin
<1>4. u = Task(op, s, session[s].id, d) /\ op \in {"refused", "hung up"}
  OBVIOUS
<1>5. CallChange(s, p, {})
  BY <1>2, Known DEF RejectBy, CallChange, Holds
<1> HIDE DEF p, u, op
<1>6. u \in Tasks /\ u.op = op /\ u.s = s /\ u.id = session[s].id
  BY <1>4, NewTask DEF Task
<1>7. SessionChange(s, p)
  BY <1>2 DEF SessionChange, Holds
<1>8. CASE tasks' = tasks
  <2>1. TaskChange(s, p, {}, {})
    BY <1>1, <1>2, <1>8 DEF TaskChange, Holds, Flagged, Accepting
  <2> QED
    BY <1>5, <1>7, <2>1, OneKeeps
<1>9. CASE tasks' = (tasks \ {}) \cup {u}
  <2>1. u.op \notin Accepting \cup Becomes \cup {"end", "dial"}
    BY <1>4, <1>6 DEF Accepting, Becomes
  <2>2. \A v \in tasks' : ~Clash(u, v)
    BY <2>1 DEF Clash
  <2>3. p.accepting <=> \E v \in tasks' : v.s = s /\ v.op \in Accepting
    BY <1>1, <1>2, <1>9, <2>1 DEF Flagged
  <2>4. p.ending <=> \E v \in tasks' : v.s = s /\ v.op = "end"
    BY <1>1, <1>2, <1>9, <2>1 DEF Flagged
  <2>5. u.op # "accepted"
    BY <2>1 DEF Accepting
  <2>6. TaskChange(s, p, {}, {u})
    BY <1>2, <1>6, <1>9, <2>1, <2>2, <2>3, <2>4, <2>5 DEF TaskChange, Holds
  <2> QED
    BY <1>5, <1>7, <2>6, OneKeeps
<1> QED
  BY <1>3, <1>8, <1>9

LEMMA DialledStep ==
  ASSUME IInv, NEW t \in tasks, Dialled(t)
  PROVE  IInv'
<1> DEFINE x == t.s
           u == [t EXCEPT !.op = "ring"]
<1>1. /\ x \in 1..made /\ session[x] \in Records /\ Flagged(x, tasks) /\ t.op = "dial"
      /\ t.id = session[x].id /\ session[x].out
  BY Known DEF Dialled, On, TaskConsistent, Becomes
<1>2. CASE /\ session[x].state = "initiating"
           /\ session' = [session EXCEPT ![x].state = "ringing"]
           /\ tasks' = Next1(t, "ring") /\ UNCHANGED <<calls, faults, forgot>>
  <2> DEFINE p == [session[x] EXCEPT !.state = "ringing"]
  <2>1. /\ p \in Records
        /\ p.id = session[x].id /\ p.out = session[x].out /\ p.blocked = session[x].blocked
        /\ p.open = session[x].open /\ p.reopened = session[x].reopened
      /\ p.by = session[x].by /\ p.state = "ringing"
        /\ p.accepting = session[x].accepting /\ p.ending = session[x].ending
    BY <1>1 DEF Records, States
  <2>2. session' = [session EXCEPT ![x] = p] /\ tasks' = (tasks \ {t}) \cup {u}
    BY <1>1, <1>2, Known DEF Next1, Others
  <2> HIDE DEF p
  <2>3. u \in Tasks
    BY <1>1, NextTask DEF Becomes
  <2>4. u.op = "ring" /\ u.s = x /\ u.id = t.id
    BY NextFields
  <2> HIDE DEF u
  <2>5. SessionChange(x, p)
    BY <1>2, <2>1, <2>2 DEF SessionChange, Holds
  <2>6. TaskChange(x, p, {t}, {u})
    BY <1>1, <2>1, <2>2, <2>3, <2>4 DEF TaskChange, Holds, Flagged, Accepting, Clash, Becomes
  <2>7. CallChange(x, p, {t})
    BY <1>1, <1>2, <2>1, Known DEF Dialled, CallChange, Holds
  <2> QED
    BY <1>1, <2>5, <2>6, <2>7, OneKeeps
<1>3. CASE Abandon(t) /\ faults' \in 0..MaxFaults
  BY <1>1, <1>3, AbandonKeeps DEF Dialled
<1>4. faults \in 0..MaxFaults /\ (Fault => faults' \in 0..MaxFaults)
  BY Known, CallAssumption DEF Fault
<1> QED
  BY <1>2, <1>3, <1>4 DEF Dialled

LEMMA OfferedStep ==
  ASSUME IInv, NEW t \in tasks, Offered(t)
  PROVE  IInv'
<1> DEFINE x == t.s
<1>1. /\ x \in 1..made /\ session[x] \in Records /\ Flagged(x, tasks) /\ t.op = "ring"
      /\ t.id = session[x].id
  BY Known DEF Offered, On, TaskConsistent, Becomes
<1>2. CASE tasks' = Others(t) /\ UNCHANGED <<calls, session, faults, forgot>>
  <2>1. session' = session /\ tasks' = (tasks \ {t}) \cup {}
    BY <1>2 DEF Others
  <2>2. SessionChange(x, session[x])
    BY <1>1, <2>1, Known DEF SessionChange, Holds
  <2>3. TaskChange(x, session[x], {t}, {})
    BY <1>1, <2>1 DEF TaskChange, Holds, Flagged, Accepting
  <2>4. CallChange(x, session[x], {t})
    BY <1>1, <1>2, Known DEF Offered, CallChange, Holds
  <2> QED
    BY <1>1, <2>2, <2>3, <2>4, OneKeeps
<1>3. CASE Abandon(t) /\ faults' \in 0..MaxFaults
  BY <1>1, <1>3, AbandonKeeps DEF Offered
<1>4. Fault => faults' \in 0..MaxFaults
  BY Known, CallAssumption DEF Fault
<1> QED
  BY <1>2, <1>3, <1>4 DEF Offered

LEMMA WonStep ==
  ASSUME IInv, NEW t \in tasks, Won(t)
  PROVE  IInv'
<1> DEFINE x == t.s
<1>1. /\ x \in 1..made /\ session[x] \in Records /\ Flagged(x, tasks) /\ t.op = "accepted"
      /\ t.id = session[x].id /\ session[x].by = NoDevice /\ t \in Tasks /\ x \in Sessions
  BY Known DEF Won, On, TaskConsistent, Becomes
<1>2. \A v \in tasks : v.s = x /\ v.op \in Accepting => v = t
  BY <1>1, Known DEF Clash, Accepting
<1>3. CASE session[x].state = "ended" \/ session[x].ending
  <2> DEFINE p == [session[x] EXCEPT !.accepting = FALSE]
  <2>1. /\ p \in Records
        /\ p.id = session[x].id /\ p.out = session[x].out /\ p.blocked = session[x].blocked
        /\ p.open = session[x].open /\ p.reopened = session[x].reopened
      /\ p.by = session[x].by /\ p.state = session[x].state
        /\ p.accepting = FALSE /\ p.ending = session[x].ending
    BY <1>1 DEF Records
  <2>2. session' = [session EXCEPT ![x] = p] /\ tasks' = (tasks \ {t}) \cup {}
    BY <1>1, <1>3, Known DEF Won, Others
  <2> HIDE DEF p
  <2>3. SessionChange(x, p)
    BY <2>1, <2>2 DEF SessionChange, Holds
  <2>4. TaskChange(x, p, {t}, {})
    BY <1>1, <1>2, <2>1, <2>2 DEF TaskChange, Holds, Flagged, Accepting
  <2>5. CallChange(x, p, {t})
    BY <1>1, <2>1, Known DEF Won, CallChange, Holds
  <2> QED
    BY <1>1, <2>3, <2>4, <2>5, OneKeeps
<1>4. CASE ~(session[x].state = "ended" \/ session[x].ending)
  <2> DEFINE p == [session[x] EXCEPT !.by = t.dev]
             u == [t EXCEPT !.op = "won"]
  <2>1. /\ p \in Records
        /\ p.id = session[x].id /\ p.out = session[x].out /\ p.blocked = session[x].blocked
        /\ p.open = session[x].open /\ p.reopened = session[x].reopened
      /\ p.by = t.dev /\ p.state = session[x].state
        /\ p.accepting = session[x].accepting /\ p.ending = session[x].ending
    BY <1>1 DEF Records, Tasks
  <2>2. session' = [session EXCEPT ![x] = p] /\ tasks' = (tasks \ {t}) \cup {u}
    BY <1>1, <1>4, Known DEF Won, Next1, Others
  <2> HIDE DEF p
  <2>3. u \in Tasks
    BY <1>1, NextTask DEF Becomes
  <2>4. u.op = "won" /\ u.s = x /\ u.id = t.id
    BY NextFields
  <2> HIDE DEF u
  <2>5. SessionChange(x, p)
    BY <2>1, <2>2 DEF SessionChange, Holds
  <2>6. TaskChange(x, p, {t}, {u})
    <3>1. \A v \in tasks \cap tasks' : v.s = x => v.op \notin {"accepted", "end"}
      BY <1>1, <1>2, <1>4, <2>2, <2>4 DEF Flagged, Accepting
    <3>2. \A v \in tasks' : Clash(u, v) => u = v
      BY <1>2, <2>2, <2>4 DEF Clash, Accepting
    <3>3. p.accepting <=> \E v \in tasks' : v.s = x /\ v.op \in Accepting
      BY <1>1, <2>1, <2>2, <2>4 DEF Flagged, Accepting
    <3>4. p.ending <=> \E v \in tasks' : v.s = x /\ v.op = "end"
      BY <1>1, <2>1, <2>2, <2>4 DEF Flagged
    <3> QED
      BY <1>1, <2>1, <2>2, <2>3, <2>4, <3>1, <3>2, <3>3, <3>4 DEF TaskChange, Holds, Becomes
  <2>7. CallChange(x, p, {t})
    BY <1>1, <2>1, Known DEF Won, CallChange, Holds
  <2> QED
    BY <1>1, <2>5, <2>6, <2>7, OneKeeps
<1> QED
  BY <1>3, <1>4

LEMMA ConnectingStep ==
  ASSUME IInv, NEW t \in tasks, Connecting(t)
  PROVE  IInv'
<1> DEFINE x == t.s
           p == session'[x]
           u == [t EXCEPT !.op = "connecting"]
<1>1. /\ x \in 1..made /\ session[x] \in Records /\ Flagged(x, tasks) /\ t.op = "won"
      /\ t.id = session[x].id /\ t \in Tasks /\ x \in Sessions
  BY Known DEF Connecting, On, TaskConsistent, Becomes
<1>2. \A v \in tasks : v.s = x /\ v.op \in Accepting => v = t
  BY <1>1, Known DEF Clash, Accepting
<1>3. /\ session' = [session EXCEPT ![x] = p] /\ p \in Records
      /\ p.id = session[x].id /\ p.out = session[x].out /\ p.blocked = session[x].blocked
      /\ p.open = session[x].open /\ p.reopened = session[x].reopened
      /\ p.by = session[x].by
      /\ p.accepting = session[x].accepting /\ p.ending = session[x].ending
      /\ p.state \in {session[x].state, "connecting"}
      /\ session[x].state = "ended" => p.state = "ended"
  BY <1>1, Known DEF Connecting, Records, States
<1>4. tasks' = (tasks \ {t}) \cup {u}
  BY DEF Connecting, Next1, Others
<1>5. u \in Tasks
  BY <1>1, NextTask DEF Becomes
<1>6. u.op = "connecting" /\ u.s = x /\ u.id = t.id
  BY NextFields
<1> HIDE DEF p, u
<1>7. SessionChange(x, p)
  BY <1>3 DEF SessionChange, Holds
<1>8. TaskChange(x, p, {t}, {u})
  <2>1. \A v \in tasks' : Clash(u, v) => u = v
    BY <1>2, <1>4, <1>6 DEF Clash, Accepting
  <2>2. p.accepting <=> \E v \in tasks' : v.s = x /\ v.op \in Accepting
    BY <1>1, <1>3, <1>4, <1>6 DEF Flagged, Accepting
  <2>3. p.ending <=> \E v \in tasks' : v.s = x /\ v.op = "end"
    BY <1>1, <1>3, <1>4, <1>6 DEF Flagged
  <2> QED
    BY <1>1, <1>3, <1>4, <1>5, <1>6, <2>1, <2>2, <2>3 DEF TaskChange, Holds, Becomes
<1>9. CallChange(x, p, {t})
  BY <1>1, <1>3, Known DEF Connecting, CallChange, Holds
<1> QED
  BY <1>1, <1>7, <1>8, <1>9, OneKeeps

\* The session whose media is opened.
LEMMA OpenedIs ==
  ASSUME IInv, NEW x \in 1..made, NEW p, p = Opened(x)[x]
  PROVE  /\ p \in Records /\ Opened(x) = [session EXCEPT ![x] = p]
         /\ p.id = session[x].id /\ p.out = session[x].out /\ p.blocked = session[x].blocked
         /\ p.by = session[x].by /\ p.state = session[x].state
         /\ p.accepting = session[x].accepting /\ p.ending = session[x].ending
         /\ Holds(p) => Holds(session[x])
<1>1. x \in Sessions /\ session \in [Sessions -> Records] /\ session[x] \in Records
  BY Known
<1>2. p = [session[x] EXCEPT !.open = TRUE,
                             !.reopened = session[x].reopened \/ ~session[x].open]
  BY <1>1 DEF Opened, Records
<1>3. Opened(x) = [session EXCEPT ![x] = p]
  BY <1>1, <1>2 DEF Opened, Records
<1>4. /\ p.id = session[x].id /\ p.out = session[x].out /\ p.blocked = session[x].blocked
      /\ p.by = session[x].by /\ p.state = session[x].state
      /\ p.accepting = session[x].accepting /\ p.ending = session[x].ending
      /\ Holds(p) => Holds(session[x])
  BY <1>1, <1>2 DEF Records, Holds
<1>5. p \in Records
  BY <1>1, <1>2 DEF Records
<1> QED
  BY <1>3, <1>4, <1>5

\* An operation opens media and is over, or goes on by N.
Opening(t, N) ==
  /\ t.op \in {"activate", "ack", "unblock"} /\ session' = Opened(t.s)
  /\ N \subseteq Tasks /\ tasks' = (tasks \ {t}) \cup N
  /\ \A u \in N : u.op = "announce" /\ u.s = t.s /\ u.id = t.id
  /\ calls' = calls /\ made' = made /\ over' = over /\ faults' = faults /\ forgot' = forgot

LEMMA OpenedKeeps ==
  ASSUME IInv, NEW t \in tasks, NEW N, Opening(t, N), WaitingIsServed'
  PROVE  IInv'
<1> USE DEF Opening
<1> DEFINE x == t.s
           p == Opened(x)[x]
<1>1. /\ x \in 1..made /\ session[x] \in Records /\ Flagged(x, tasks)
      /\ t.id = session[x].id
  BY Known DEF TaskConsistent, Becomes
<1>2. /\ p \in Records /\ session' = [session EXCEPT ![x] = p]
      /\ p.id = session[x].id /\ p.out = session[x].out /\ p.blocked = session[x].blocked
      /\ p.by = session[x].by /\ p.state = session[x].state
      /\ p.accepting = session[x].accepting /\ p.ending = session[x].ending
      /\ Holds(p) => Holds(session[x])
  BY <1>1, OpenedIs
<1> HIDE DEF p
<1>3. SessionChange(x, p)
  BY <1>2 DEF SessionChange
<1>4. TaskChange(x, p, {t}, N)
  BY <1>1, <1>2 DEF TaskChange, Flagged, Accepting, Becomes, Clash
<1>5. CallChange(x, p, {t})
  BY <1>1, Known DEF CallChange
<1> QED
  BY <1>1, <1>3, <1>4, <1>5, OneKeeps

\* Nobody waits because of it.
LEMMA OpenedServed ==
  ASSUME IInv, NEW t \in tasks, t.op \in {"activate", "ack"},
         tasks' = (tasks \ {t}) \cup {}, session' = Opened(t.s), calls' = calls,
         forgot' = forgot
  PROVE  WaitingIsServed'
<1> DEFINE x == t.s
           p == Opened(x)[x]
<1>1. x \in 1..made
  BY Known DEF TaskConsistent, Becomes
<1>2. /\ p \in Records /\ session' = [session EXCEPT ![x] = p]
      /\ p.out = session[x].out /\ p.blocked = session[x].blocked
      /\ p.state = session[x].state
  BY <1>1, OpenedIs
<1> HIDE DEF p
<1>3. \A u \in tasks : u.op \in {"reject", "unblock", "announce"} => u \in tasks'
  OBVIOUS
<1> QED
  BY <1>1, <1>2, <1>3, OneServed

LEMMA AckStep ==
  ASSUME IInv, NEW s \in 1..made, Ack(s)
  PROVE  IInv'
<1> DEFINE u == Task("ack", s, session[s].id, NoDevice)
<1>1. u = Task("ack", s, session[s].id, NoDevice) /\ tasks' = (tasks \ {}) \cup {u}
  BY DEF Ack, Begin
<1> HIDE DEF u
<1>2. u \in Tasks /\ u.op = "ack" /\ u.s = s /\ u.id = session[s].id
  BY <1>1, NewTask DEF Task
<1>3. SessionChange(s, session[s])
  BY Known DEF Ack, SessionChange
<1>4. TaskChange(s, session[s], {}, {u})
  <2>1. Flagged(s, tasks)
    BY Known
  <2> QED
    BY <1>1, <1>2, <2>1 DEF TaskChange, Flagged, Clash, Accepting, Becomes
<1>5. CallChange(s, session[s], {})
  BY Known DEF Ack, CallChange
<1> QED
  BY <1>3, <1>4, <1>5, OneKeeps

LEMMA AckedStep ==
  ASSUME IInv, NEW t \in tasks, Acked(t)
  PROVE  IInv'
<1>1. /\ t.op = "ack" /\ session' = Opened(t.s) /\ tasks' = (tasks \ {t}) \cup {}
      /\ UNCHANGED <<calls, made, over, faults, forgot>>
  BY DEF Acked, On, Others
<1>2. WaitingIsServed'
  BY <1>1, OpenedServed
<1>3. Opening(t, {})
  BY <1>1 DEF Opening
<1> QED
  BY <1>2, <1>3, OpenedKeeps

LEMMA ToldStep ==
  ASSUME IInv, NEW t \in tasks, Told(t)
  PROVE  IInv'
<1> DEFINE x == t.s
<1>1. /\ x \in 1..made /\ session[x] \in Records /\ Flagged(x, tasks)
      /\ t.op = "connecting" /\ x \in Sessions /\ session \in [Sessions -> Records]
  BY Known DEF Told, On, TaskConsistent, Becomes
<1>2. \A v \in tasks : v.s = x /\ v.op \in Accepting => v = t
  BY <1>1, Known DEF Clash, Accepting
<1>3. PICK S \in {session, Opened(x)} : session' = [S EXCEPT ![x].accepting = FALSE]
  BY DEF Told
<1> DEFINE q == S[x]
           p == [q EXCEPT !.accepting = FALSE]
<1>4. /\ q \in Records /\ S = [session EXCEPT ![x] = q]
      /\ q.id = session[x].id /\ q.out = session[x].out /\ q.blocked = session[x].blocked
      /\ q.by = session[x].by /\ q.state = session[x].state /\ q.ending = session[x].ending
      /\ Holds(q) => Holds(session[x])
  <2>1. CASE S = session
    BY <1>1, <2>1
  <2>2. CASE S = Opened(x)
    BY <1>1, <2>2, OpenedIs
  <2> QED
    BY <2>1, <2>2
<1> HIDE DEF q
<1>5. /\ p \in Records
      /\ p.id = session[x].id /\ p.out = session[x].out /\ p.blocked = session[x].blocked
      /\ p.by = session[x].by /\ p.state = session[x].state
      /\ p.accepting = FALSE /\ p.ending = session[x].ending
      /\ Holds(p) => Holds(session[x])
  BY <1>4 DEF Records, Holds
<1>6. session' = [session EXCEPT ![x] = p] /\ tasks' = (tasks \ {t}) \cup {}
  BY <1>1, <1>3, <1>4 DEF Told, Others
<1> HIDE DEF p
<1>7. SessionChange(x, p)
  BY <1>5, <1>6 DEF SessionChange
<1>8. TaskChange(x, p, {t}, {})
  BY <1>1, <1>2, <1>5, <1>6 DEF TaskChange, Flagged, Accepting
<1>9. CallChange(x, p, {t})
  BY <1>1, <1>5, Known DEF Told, CallChange
<1> QED
  BY <1>1, <1>7, <1>8, <1>9, OneKeeps

LEMMA RefusedStep ==
  ASSUME IInv, NEW t \in tasks, Refused(t)
  PROVE  IInv'
<1> DEFINE x == t.s
           winner == IF t.op = "refused" THEN NoDevice ELSE t.dev
           stale == session[x].state = "ended" \/ session[x].accepting \/ session[x].by # winner
<1>1. t.op \in {"refused", "hung up"}
  BY DEF Refused, On
<1>2. /\ x \in 1..made /\ session[x] \in Records /\ Flagged(x, tasks)
      /\ t.id = session[x].id /\ t \in Tasks /\ x \in Sessions
  BY <1>1, Known DEF TaskConsistent, Becomes
<1>3. CASE stale \/ session[x].ending
  <2>1. session' = session /\ tasks' = (tasks \ {t}) \cup {}
    BY <1>3 DEF Refused, Others
  <2>2. SessionChange(x, session[x])
    BY <1>2, <2>1, Known DEF SessionChange, Holds
  <2>3. TaskChange(x, session[x], {t}, {})
    BY <1>1, <1>2, <2>1 DEF TaskChange, Holds, Flagged, Accepting
  <2>4. CallChange(x, session[x], {t})
    BY <1>1, Known DEF Refused, CallChange, Holds
  <2> QED
    BY <1>2, <2>2, <2>3, <2>4, OneKeeps
<1>4. CASE ~(stale \/ session[x].ending)
  <2> DEFINE p == [session[x] EXCEPT !.ending = TRUE]
             u == [t EXCEPT !.op = "end"]
  <2>1. /\ p \in Records
        /\ p.id = session[x].id /\ p.out = session[x].out /\ p.blocked = session[x].blocked
        /\ p.open = session[x].open /\ p.reopened = session[x].reopened
      /\ p.by = session[x].by /\ p.state = session[x].state
        /\ p.accepting = session[x].accepting /\ p.ending = TRUE
    BY <1>2 DEF Records
  <2>2. session' = [session EXCEPT ![x] = p] /\ tasks' = (tasks \ {t}) \cup {u}
    BY <1>2, <1>4, Known DEF Refused, Next1, Others
  <2>3. p.by \in {NoDevice, t.dev} /\ ~session[x].ending
    BY <1>4, <2>1
  <2> HIDE DEF p
  <2>4. u \in Tasks
    BY <1>1, NextTask DEF Becomes
  <2>5. u.op = "end" /\ u.s = x /\ u.id = t.id /\ u.dev = t.dev
    BY NextFields
  <2> HIDE DEF u
  <2>6. SessionChange(x, p)
    BY <2>1, <2>2 DEF SessionChange, Holds
  <2>7. TaskChange(x, p, {t}, {u})
    <3>1. \A v \in tasks : v.s = x => v.op # "end"
      BY <1>2, <2>3 DEF Flagged
    <3>2. \A v \in tasks' : Clash(u, v) => u = v
      BY <2>2, <2>5, <3>1 DEF Clash, Accepting
    <3>3. p.accepting <=> \E v \in tasks' : v.s = x /\ v.op \in Accepting
      BY <1>1, <1>2, <2>1, <2>2, <2>5 DEF Flagged, Accepting
    <3>4. p.ending <=> \E v \in tasks' : v.s = x /\ v.op = "end"
      BY <2>1, <2>2, <2>5
    <3> QED
      BY <1>1, <1>2, <2>1, <2>2, <2>3, <2>4, <2>5, <3>2, <3>3, <3>4 DEF TaskChange, Holds, Becomes
  <2>8. CallChange(x, p, {t})
    BY <1>1, <2>1, Known DEF Refused, CallChange, Holds
  <2> QED
    BY <1>2, <2>6, <2>7, <2>8, OneKeeps
<1> QED
  BY <1>3, <1>4

\* An operation that changes no session is over.
LEMMA OverKeeps ==
  ASSUME IInv, NEW t \in tasks, t.op \notin Becomes \cup Accepting \cup {"end", "reject"},
         tasks' = Others(t), session' = session, CallChange(t.s, session[t.s], {t})
  PROVE  IInv'
<1> DEFINE x == t.s
<1>1. x \in 1..made /\ session[x] \in Records /\ Flagged(x, tasks)
  BY Known DEF TaskConsistent, Becomes
<1>2. tasks' = (tasks \ {t}) \cup {}
  BY DEF Others
<1>3. SessionChange(x, session[x])
  BY <1>1, Known DEF SessionChange, Holds
<1>4. TaskChange(x, session[x], {t}, {})
  BY <1>1, <1>2 DEF TaskChange, Holds, Flagged, Accepting
<1> QED
  BY <1>1, <1>3, <1>4, OneKeeps

\* A call that finds no room after all makes no session.
LEMMA ResolvedFull ==
  ASSUME IInv, NEW t \in tasks, Resolved(t), ~Room(calls, session)
  PROVE  IInv'
<1>1. /\ tasks' = tasks \ {t} /\ calls' = calls /\ session' = session /\ made' = made
      /\ over' = over /\ faults' = faults /\ forgot' = forgot /\ t.op = "start"
  BY DEF Resolved, Others, On
<1>2. \A s \in Sessions : Kept(s)
  BY <1>1 DEF Kept
<1>3. \A s \in 1..made : Flagged(s, tasks)'
  BY <1>1, Known DEF Flagged, Accepting
<1>4. WaitingIsServed'
  BY <1>1, Known DEF IInv, WaitingIsServed, Room
<1>5. tasks' \subseteq Tasks /\ tasks' \subseteq tasks
  BY <1>1, Known
<1>6. \A u \in tasks' \cap tasks :
        u.op \in {"accepted", "end"} => session'[u.s].by \in {session[u.s].by, NoDevice}
  BY <1>1
<1>7. Slots'
  BY <1>1, SlotsKept
<1>8. EndedIsClosed'
  BY <1>1 DEF IInv, EndedIsClosed
<1> QED
  BY <1>1, <1>2, <1>3, <1>4, <1>5, <1>6, <1>7, <1>8, Known, QuietKeeps

\* One more call is about to become a session.
LEMMA SlotTaken ==
  ASSUME IInv, NEW u, tasks' = tasks \cup {u}, made' = made, made + Becoming < MaxSessions
  PROVE  Slots'
<1> DEFINE B == {t \in tasks : t.op \in Becomes}
           D == {t \in tasks' : t.op \in Becomes}
<1>1. D \subseteq B \cup {u} /\ IsFiniteSet(B) /\ made + Cardinality(B) < MaxSessions
  BY DEF IInv, Slots, Becoming, Becomes
<1> HIDE DEF B, D
<1>2. IsFiniteSet(B \cup {u}) /\ Cardinality(B \cup {u}) <= Cardinality(B) + 1
  <2>1. IsFiniteSet(B) /\ Cardinality(B) \in Nat
    BY <1>1, FS_CardinalityType
  <2> QED
    BY <2>1, FS_AddElement
<1>3. IsFiniteSet(D) /\ Cardinality(D) <= Cardinality(B \cup {u})
  BY <1>1, <1>2, FS_Subset
<1>4. Cardinality(D) \in Nat /\ Cardinality(B) \in Nat /\ Cardinality(B \cup {u}) \in Nat
  BY <1>1, <1>2, <1>3, FS_CardinalityType
<1>5. made + Cardinality(D) <= MaxSessions
  <2>1. made \in Nat /\ MaxSessions \in Nat
    BY CallAssumption DEF IInv, TypeOK
  <2> QED
    BY <1>1, <1>2, <1>3, <1>4, <2>1
<1> QED
  BY <1>3, <1>5 DEF Slots, D

LEMMA StartStep ==
  ASSUME IInv, NEW id \in Ids, Start(id)
  PROVE  IInv'
<1> DEFINE u == Task("start", 0, id, NoDevice)
<1>1. /\ tasks' = tasks \cup {u} /\ calls' = calls /\ session' = session /\ made' = made
      /\ over' = over /\ faults' = faults /\ forgot' = forgot
  BY DEF Start, Begin
<1>2. u \in Tasks /\ u.op = "start" /\ u.s = 0 /\ u.id = id
  BY CallAssumption DEF Task, Tasks, Becomes
<1>3. \A s \in calls : session[s].id # id
  BY Known DEF Start
<1> HIDE DEF u
<1>4. TaskConsistent(u)' /\ u.s \in 0..made
  BY <1>1, <1>2, <1>3, Known DEF TaskConsistent, Becomes
<1>5. \A s \in Sessions : Kept(s)
  BY <1>1 DEF Kept
<1>6. \A s \in 1..made : Flagged(s, tasks)'
  BY <1>1, <1>2, Known DEF Flagged, Accepting
<1>7. WaitingIsServed'
  BY <1>1 DEF IInv, WaitingIsServed
<1>8. \A v \in tasks' : ~Clash(u, v)
  BY <1>2 DEF Clash, Accepting
<1>9. tasks' \subseteq Tasks
  BY <1>1, <1>2, Known
<1>10. \A v \in tasks' \cap tasks :
        v.op \in {"accepted", "end"} => session'[v.s].by \in {session[v.s].by, NoDevice}
  BY <1>1
<1>11. \A v \in tasks' \ tasks : v = u
  BY <1>1
<1>12. Slots'
  BY <1>1, SlotTaken DEF Start
<1>13. EndedIsClosed'
  BY <1>1 DEF IInv, EndedIsClosed
<1> QED
  BY <1>1, <1>4, <1>5, <1>6, <1>7, <1>8, <1>9, <1>10, <1>11, <1>12, <1>13, Known, QuietKeeps

LEMMA OfferStep ==
  ASSUME IInv, NEW id \in Ids, Offer(id)
  PROVE  IInv'
<1> DEFINE u == Task("offer", 0, id, NoDevice)
<1>1. /\ tasks' = tasks \cup {u} /\ calls' = Without(id) /\ made' = made
      /\ over' = over /\ faults' = faults /\ forgot' = forgot
  BY DEF Offer, Begin
<1>2. u \in Tasks /\ u.op = "offer" /\ u.s = 0 /\ u.id = id
  BY CallAssumption DEF Task, Tasks, Becomes
<1>3. \A s \in Sessions :
        /\ session'[s] \in Records
        /\ session'[s].id = session[s].id /\ session'[s].out = session[s].out
        /\ session'[s].blocked = session[s].blocked /\ session'[s].by = session[s].by
        /\ session'[s].accepting = session[s].accepting
        /\ session'[s].ending = session[s].ending /\ session'[s].state = session[s].state
        /\ Holds(session'[s]) => Holds(session[s])
        /\ s \in calls /\ session[s].id = id => ~Holds(session'[s])
  <2> SUFFICES ASSUME NEW s \in Sessions
               PROVE  /\ session'[s] \in Records
                      /\ session'[s].id = session[s].id /\ session'[s].out = session[s].out
                      /\ session'[s].blocked = session[s].blocked
                      /\ session'[s].by = session[s].by
                      /\ session'[s].accepting = session[s].accepting
                      /\ session'[s].ending = session[s].ending
                      /\ session'[s].state = session[s].state
                      /\ Holds(session'[s]) => Holds(session[s])
                      /\ s \in calls /\ session[s].id = id => ~Holds(session'[s])
    OBVIOUS
  <2>1. session[s] \in Records
    BY Known
  <2>2. CASE s \in calls /\ session[s].id = id
    <3>1. session'[s] = [session[s] EXCEPT !.open = FALSE]
      BY <2>2 DEF Offer
    <3> QED
      BY <2>1, <3>1 DEF Records, Holds
  <2>3. CASE ~(s \in calls /\ session[s].id = id)
    <3>1. session'[s] = session[s]
      BY <2>3 DEF Offer
    <3> QED
      BY <2>1, <2>3, <3>1
  <2> QED
    BY <2>2, <2>3
<1>4. session' \in [Sessions -> Records]
  BY <1>3 DEF Offer
<1>5. calls' \subseteq calls /\ \A s \in calls' : session[s].id # id
  BY <1>1 DEF Without
<1>6. \A s \in calls \ calls' : session[s].id = id /\ session[s].state = "ended"
  BY <1>1 DEF Without, Offer
<1> HIDE DEF u
<1>7. TaskConsistent(u)' /\ u.s \in 0..made
  BY <1>1, <1>2, <1>3, <1>5, Known DEF TaskConsistent, Becomes
<1>8. \A s \in Sessions : Kept(s)
  BY <1>3 DEF Kept
<1>9. \A s \in 1..made : Flagged(s, tasks)'
  BY <1>1, <1>2, <1>3, Known DEF Flagged, Accepting
<1>10. WaitingIsServed'
  <2>1. Active(calls, session) \subseteq Active(calls', session')
    BY <1>3, <1>5, <1>6, Known DEF Active
  <2>2. Waiting(calls', session') \subseteq Waiting(calls, session)
    BY <1>3, <1>5, Known DEF Waiting
  <2>3. calls \subseteq Sessions
    BY Known
  <2> QED
    BY <1>1, <1>5, <2>1, <2>2, <2>3, StillServed
<1>11. \A v \in tasks' : ~Clash(u, v)
  BY <1>2 DEF Clash, Accepting
<1>12. tasks' \subseteq Tasks /\ \A v \in tasks' \ tasks : v = u
  BY <1>1, <1>2, Known
<1>13. \A v \in tasks' \cap tasks :
        v.op \in {"accepted", "end"} => session'[v.s].by \in {session[v.s].by, NoDevice}
  <2>1. \A v \in tasks : v.op \in {"accepted", "end"} => v.s \in Sessions
    BY Known DEF TaskConsistent, Becomes
  <2> QED
    BY <1>3, <2>1
<1>14. \A s \in calls : s \in Sessions
  BY Known
<1>15. Slots'
  BY <1>1, SlotTaken DEF Offer
<1>16. \A v \in tasks' \ tasks : v.s \in 0..made /\ TaskConsistent(v)'
  BY <1>7, <1>12
<1>17. \A v \in tasks' \ tasks, w \in tasks' : Clash(v, w) => v = w
  BY <1>11, <1>12
<1>18. \A s \in calls \ calls' :
         Holds(session'[s]) => \E r \in 1..(s - 1) : session[r].id = session[s].id
  BY <1>3, <1>6, <1>14
<1>19. \A s \in calls : s \in Sessions /\ session'[s].state # "ended"
                          => session[s].state # "ended"
  BY <1>3
<1>20. faults' \in 0..MaxFaults /\ forgot' \in BOOLEAN
  BY <1>1, Known
<1>21. EndedIsClosed'
  BY <1>1, <1>3, Known DEF IInv, EndedIsClosed
<1> QED
  BY <1>1, <1>4, <1>5, <1>8, <1>9, <1>10, <1>12, <1>13, <1>15, <1>16, <1>17, <1>18, <1>19,
     <1>20, <1>21, QuietKeeps

-----------------------------------------------------------------------------
(* A session is made.                                                      *)

\* A call that was about to become a session has.
LEMMA SlotUsed ==
  ASSUME IInv, NEW t \in tasks, t.op \in Becomes, made' = made + 1,
         \A u \in tasks' : u.op \in Becomes => u \in tasks \ {t}
  PROVE  made + 1 <= MaxSessions /\ Slots'
<1> DEFINE B == {u \in tasks : u.op \in Becomes}
           D == {u \in tasks' : u.op \in Becomes}
<1>1. D \subseteq B \ {t} /\ t \in B /\ IsFiniteSet(B) /\ made + Cardinality(B) <= MaxSessions
  BY DEF IInv, Slots
<1> HIDE DEF B, D
<1>2. IsFiniteSet(B \ {t}) /\ Cardinality(B \ {t}) = Cardinality(B) - 1
  BY <1>1, FS_RemoveElement
<1>3. IsFiniteSet(D) /\ Cardinality(D) <= Cardinality(B \ {t})
  BY <1>1, <1>2, FS_Subset
<1>4. Cardinality(D) \in Nat /\ Cardinality(B) \in Nat /\ Cardinality(B \ {t}) \in Nat
  BY <1>1, <1>2, <1>3, FS_CardinalityType
<1>5. made + 1 <= MaxSessions /\ made + 1 + Cardinality(D) <= MaxSessions
  <2>1. made \in Nat /\ MaxSessions \in Nat
    BY CallAssumption DEF IInv, TypeOK
  <2> QED
    BY <1>1, <1>2, <1>3, <1>4, <2>1
<1> QED
  BY <1>3, <1>5 DEF Slots, D

\* The call takes room that there is, or waits for room.
LEMMA CreateKeeps ==
  ASSUME IInv, NEW t \in tasks, t.op \in Becomes,
         NEW out \in BOOLEAN, NEW state \in {"initiating", "ringing"}, NEW blocked \in BOOLEAN,
         NEW then, then \subseteq {"activate", "dial"}, "dial" \in then => out,
         Create(t.id, out, state, blocked, then), blocked <=> ~Room(calls, session),
         over' = over, faults' = faults, forgot' = forgot
  PROVE  IInv'
<1> DEFINE x == made + 1
           b == Blank(t.id, out, state, blocked)
           N == {Task(op, x, t.id, NoDevice) : op \in then}
           K == {u \in tasks : u.id # t.id \/ u.op \notin Becomes}
<1>1. /\ made' = x /\ session' = [session EXCEPT ![x] = b] /\ calls' = calls \cup {x}
      /\ tasks' = K \cup N
  BY DEF Create, Becomes
<1>2. t \in Tasks /\ TaskConsistent(t)
  BY Known
<1>3. /\ b \in Records /\ b.id = t.id /\ b.out = out /\ b.state = state
      /\ b.blocked = blocked /\ b.open = TRUE /\ b.reopened = FALSE /\ b.by = NoDevice
      /\ b.ending = FALSE /\ b.accepting = FALSE
  BY <1>2 DEF Blank, Records, Tasks, States
<1>4. \A u \in N : /\ u.op \in {"activate", "dial"} /\ u.s = x /\ u.id = t.id
                   /\ u.dev = NoDevice
                   /\ u.op = "dial" => out
  BY DEF Task
<1>5. x \in Nat \ {0} /\ 1..made \subseteq 1..x /\ x \notin 1..made /\ x \in 1..x
      /\ \A s \in 1..x : s = x \/ s \in 1..made
  BY CallAssumption DEF IInv, TypeOK
<1>6. x <= MaxSessions /\ Slots'
  <2>1. \A u \in N : u.op \notin Becomes
    BY <1>4 DEF Becomes
  <2>2. \A u \in K : u.op \in Becomes => u \in tasks \ {t}
    OBVIOUS
  <2> HIDE DEF K, N
  <2> QED
    BY <1>1, <2>1, <2>2, SlotUsed
<1>7. x \in Sessions /\ x \in 0..MaxSessions /\ x \in Nat
  BY <1>5, <1>6, CallAssumption DEF Sessions
<1>8. N \subseteq Tasks
  <2> SUFFICES ASSUME NEW op \in {"activate", "dial"} PROVE Task(op, x, t.id, NoDevice) \in Tasks
    OBVIOUS
  <2>1. t.id \in Ids
    BY <1>2 DEF Tasks
  <2> QED
    BY <1>7, <2>1 DEF Task, Tasks
<1>9. K \subseteq tasks
  OBVIOUS
<1>10. \A u \in K : u.op \in Becomes => u.id # t.id
  OBVIOUS
<1> HIDE DEF N, b, K
<1>11. /\ session' \in [Sessions -> Records] /\ session'[x] = b
       /\ \A s \in Sessions : s # x => session'[s] = session[s]
  BY <1>1, <1>3, <1>7, Known
<1>12. \A s \in 1..made : s \in Sessions /\ s # x /\ session'[s] = session[s]
  BY <1>5, <1>11, Known
<1>13. calls \subseteq 1..made /\ x \notin calls
  BY <1>5, Known
<1>14. \A u \in tasks : u.s \in 0..made /\ u.s # x
  BY <1>7 DEF IInv, TypeOK
<1> HIDE DEF x
<1>15. \A s \in calls : session[s].id # t.id
  BY <1>2 DEF TaskConsistent
<1>16. TypeOK'
  <2>1. made' \in 0..MaxSessions /\ calls' \subseteq 1..made'
    BY <1>1, <1>5, <1>7, <1>13
  <2>2. \A u \in tasks' : u.s \in 0..made'
    BY <1>1, <1>4, <1>5, <1>9, <1>14
  <2>3. \A u \in tasks' : u.id \in Ids /\ u.dev \in Devices \cup {NoDevice}
    BY <1>1, <1>8, <1>9, Known DEF Tasks
  <2>4. \A s \in 1..made' : Flagged(s, tasks)'
    <3> SUFFICES ASSUME NEW s \in 1..made' PROVE Flagged(s, tasks)'
      OBVIOUS
    <3>1. \A u \in N : u.op \notin Accepting \cup {"end"}
      BY <1>4 DEF Accepting
    <3>2. \A u \in tasks : u.op \in Accepting \cup {"end"} => u \in K
      BY DEF K, Accepting, Becomes
    <3>3. CASE s = x
      BY <1>1, <1>3, <1>9, <1>11, <1>14, <3>1, <3>3 DEF Flagged
    <3>4. CASE s \in 1..made
      <4>1. session'[s] = session[s] /\ Flagged(s, tasks)
        BY <1>12, <3>4, Known
      <4> QED
        BY <1>1, <1>9, <4>1, <3>1, <3>2 DEF Flagged
    <3> QED
      BY <1>1, <1>5, <3>3, <3>4
  <2>5. over' \subseteq Ids /\ faults' \in 0..MaxFaults /\ forgot' \in BOOLEAN
    BY Known
  <2> QED
    BY <1>11, <2>1, <2>2, <2>3, <2>4, <2>5 DEF TypeOK, Flagged, Accepting, Records
<1>17. \A u \in tasks' : TaskConsistent(u)'
  <2>1. ASSUME NEW u \in N PROVE TaskConsistent(u)'
    <3>1. u.op \in {"activate", "dial"} /\ u.s = x /\ u.id = t.id /\ (u.op = "dial" => out)
      BY <1>4, <2>1
    <3>2. session'[x].id = t.id /\ session'[x].out = out /\ x \in 1..made'
      BY <1>1, <1>3, <1>5, <1>11
    <3> QED
      BY <3>1, <3>2 DEF TaskConsistent, Becomes
  <2>2. ASSUME NEW u \in K PROVE TaskConsistent(u)'
    <3>1. u \in tasks /\ TaskConsistent(u)
      BY <1>9, <2>2, Known
    <3>2. CASE u.op \in Becomes
      <4>1. \A s \in calls' : session'[s].id # u.id
        BY <1>1, <1>3, <1>10, <1>11, <1>12, <1>13, <2>2, <3>1, <3>2 DEF TaskConsistent
      <4> QED
        BY <3>2, <4>1 DEF TaskConsistent, Becomes
    <3>3. CASE u.op \notin Becomes
      <4>1. u.s \in 1..made /\ session'[u.s] = session[u.s] /\ u.s \in 1..made'
        BY <1>1, <1>5, <1>12, <3>1, <3>3 DEF TaskConsistent
      <4> QED
        BY <3>1, <3>3, <4>1 DEF TaskConsistent
    <3> QED
      BY <3>2, <3>3
  <2> QED
    BY <1>1, <2>1, <2>2
<1>18. OneOfAKind'
  <2> SUFFICES ASSUME NEW u \in tasks', NEW v \in tasks', Clash(u, v) PROVE u = v
    BY DEF OneOfAKind, Clash
  <2>1. u \in K /\ v \in K
    BY <1>1, <1>4 DEF Clash, Accepting
  <2> QED
    BY <1>9, <2>1, Known
<1>19. LatestInMap'
  <2> SUFFICES ASSUME NEW s \in calls', NEW r \in 1..made', session'[r].id = session'[s].id
               PROVE  r <= s
    BY DEF LatestInMap
  <2>1. CASE s = x
    BY <1>1, <1>5, <2>1
  <2>2. CASE s # x
    <3>1. s \in calls /\ s \in 1..made /\ session'[s] = session[s]
      BY <1>1, <1>12, <1>13, <2>2
    <3>2. r # x
      BY <1>3, <1>11, <1>15, <3>1
    <3>3. r \in 1..made /\ session'[r] = session[r]
      BY <1>1, <1>5, <1>12, <3>2
    <3> QED
      BY <3>1, <3>3 DEF IInv, LatestInMap
  <2> QED
    BY <2>1, <2>2
<1>20. OffMap' /\ EndedIsClosed'
  <2>1. \A s \in 1..made : s # x /\ session'[s] = session[s]
    BY <1>5, <1>12
  <2>2. OffMap'
    <3> SUFFICES ASSUME NEW s \in 1..made', Holds(session'[s]), s # x
                 PROVE  \/ s \in calls'
                        \/ session'[s].state = "ended"
                        \/ \E r \in 1..(s - 1) : session'[r].id = session'[s].id
      BY <1>1 DEF OffMap
    <3>1. s \in 1..made /\ session'[s] = session[s]
      BY <1>1, <1>5, <1>12
    <3>2. \A r \in 1..(s - 1) : r \in 1..made
      BY <3>1, Known
    <3> QED
      BY <1>1, <1>12, <3>1, <3>2 DEF IInv, OffMap
  <2>3. EndedIsClosed'
    <3> SUFFICES ASSUME NEW s \in 1..made', session'[s].state = "ended", Holds(session'[s])
                 PROVE  \E u \in tasks' : u.s = s /\ u.op = "reject"
      BY DEF EndedIsClosed
    <3>1. s # x
      BY <1>3, <1>11
    <3>2. s \in 1..made /\ session'[s] = session[s]
      BY <1>1, <1>5, <1>12, <3>1
    <3>3. \A u \in tasks : u.op = "reject" => u \in tasks'
      BY <1>1 DEF K, Becomes
    <3> QED
      BY <3>2, <3>3 DEF IInv, EndedIsClosed
  <2> QED
    BY <2>2, <2>3
<1>21. calls \subseteq Sessions /\ calls' \subseteq Sessions
  BY <1>1, <1>7, Known
<1>22. Active(calls, session) \subseteq Active(calls', session')
  BY <1>1, <1>12, <1>13 DEF Active
<1>23. Cardinality(Active(calls', session')) <= MaxCalls
  <2>1. CASE blocked
    <3>1. Active(calls', session') \subseteq Active(calls, session)
      BY <1>1, <1>3, <1>11, <1>12, <1>13, <2>1 DEF Active
    <3> QED
      BY <1>21, <3>1, NoMore
  <2>2. CASE ~blocked
    <3>1. Active(calls', session') \subseteq Active(calls, session) \cup {x}
      BY <1>1, <1>12, <1>13 DEF Active
    <3>2. Active(calls', session') \subseteq Sessions /\ Active(calls, session) \subseteq Sessions
      BY <1>21 DEF Active
    <3>3. Cardinality(Active(calls, session)) < MaxCalls
      BY <2>2 DEF Room
    <3> QED
      BY <3>1, <3>2, <3>3, OneMore
  <2> QED
    BY <2>1, <2>2
<1>24. WaitingIsServed'
  <2>1. CASE blocked
    <3>1. Active(calls', session') \subseteq Sessions /\ Active(calls, session) \subseteq Sessions
      BY <1>21 DEF Active
    <3>2. Cardinality(Active(calls, session)) <= Cardinality(Active(calls', session'))
      BY <1>22, <3>1, Fewer
    <3>3. /\ Cardinality(Active(calls', session')) \in Nat
          /\ Cardinality(Active(calls, session)) \in Nat /\ MaxCalls \in Nat
      BY <3>1, Finite, CallAssumption
    <3>4. ~(Cardinality(Active(calls, session)) < MaxCalls)
      BY <2>1 DEF Room
    <3>5. ~(Cardinality(Active(calls', session')) < MaxCalls)
      BY <3>2, <3>3, <3>4
    <3> QED
      BY <3>5 DEF WaitingIsServed, Room
  <2>2. CASE ~blocked
    <3>1. Waiting(calls', session') \subseteq Waiting(calls, session)
      BY <1>1, <1>3, <1>11, <1>12, <1>13, <2>2 DEF Waiting
    <3>2. \A u \in tasks : u.op \in {"reject", "unblock", "announce"} => u \in tasks'
      BY <1>1 DEF K, Becomes
    <3> QED
      BY <1>21, <1>22, <3>1, <3>2, StillServed
  <2> QED
    BY <2>1, <2>2
<1>25. tasks' \subseteq Tasks
  BY <1>1, <1>8, <1>9, Known
<1> QED
  BY <1>6, <1>16, <1>17, <1>18, <1>19, <1>20, <1>23, <1>24, <1>25 DEF IInv

LEMMA OfferDecryptedStep ==
  ASSUME IInv, NEW t \in tasks, OfferDecrypted(t)
  PROVE  IInv'
<1>1. t.op \in Becomes /\ over' = over /\ faults' = faults /\ forgot' = forgot
  BY DEF OfferDecrypted, On, Becomes
<1>2. CASE Room(calls, session)
  <2>1. Create(t.id, FALSE, "ringing", FALSE, {"activate"})
    BY <1>2 DEF OfferDecrypted
  <2> QED
    BY <1>1, <1>2, <2>1, CreateKeeps
<1>3. CASE ~Room(calls, session)
  <2> DEFINE none == {}
  <2>1. Create(t.id, FALSE, "ringing", TRUE, none)
    BY <1>3 DEF OfferDecrypted
  <2>2. none \subseteq {"activate", "dial"} /\ "dial" \notin none
    OBVIOUS
  <2> HIDE DEF none
  <2> QED
    BY <1>1, <1>3, <2>1, <2>2, CreateKeeps
<1> QED
  BY <1>2, <1>3

LEMMA ResolvedStep ==
  ASSUME IInv, NEW t \in tasks, Resolved(t)
  PROVE  IInv'
<1>1. CASE Room(calls, session)
  <2>1. /\ Create(t.id, TRUE, "initiating", FALSE, {"dial"})
        /\ t.op \in Becomes /\ over' = over /\ faults' = faults /\ forgot' = forgot
    BY <1>1 DEF Resolved, On, Becomes
  <2> QED
    BY <1>1, <2>1, CreateKeeps
<1> QED
  BY <1>1, ResolvedFull

-----------------------------------------------------------------------------
(* A call ends, and one that waits for room is looked for.                 *)

\* What is left when a call of a session is over and its operation t too.
LEMMA Deleted ==
  ASSUME IInv, NEW x \in 1..made, NEW S, S \in [Sessions -> Records],
         Holds(S[x]) => S[x].state = "ended"
  PROVE  /\ Without(session[x].id) \subseteq calls
         /\ \A s \in calls \ Without(session[x].id) :
              Holds(S[s]) => \/ S[s].state = "ended"
                             \/ \E r \in 1..(s - 1) : session[r].id = session[s].id
<1> SUFFICES ASSUME NEW s \in calls, session[s].id = session[x].id, s # x
             PROVE  x \in 1..(s - 1)
  BY DEF Without
<1>1. x <= s
  BY DEF IInv, LatestInMap
<1>2. s \in 1..made /\ made \in Nat
  BY Known
<1> QED
  BY <1>1, <1>2

\* Who has ended in S and holds media had ended before.
StillClosed(S) ==
  \A s \in Sessions : S[s].state = "ended" /\ Holds(S[s]) =>
    session[s].state = "ended" /\ Holds(session[s])

\* A session that is closed.
LEMMA ClosedEnds ==
  ASSUME IInv, NEW x \in 1..made
  PROVE  /\ Closed(x) \in [Sessions -> Records]
         /\ \A s \in Sessions : Ends(Closed(x), s) /\ Closed(x)[s].ending = session[s].ending
         /\ ~Holds(Closed(x)[x]) /\ StillClosed(Closed(x))
<1>1. x \in Sessions /\ session \in [Sessions -> Records]
  BY Known
<1>2. Closed(x) \in [Sessions -> Records]
  <2> DEFINE q == [session[x] EXCEPT !.state = "ended", !.open = FALSE, !.by = NoDevice,
                                     !.busy = {}]
  <2>1. q \in Records
    <3>1. session[x] \in Records
      BY <1>1
    <3> QED
      BY <3>1 DEF Records, States
  <2>2. Closed(x) = [session EXCEPT ![x] = q]
    BY <1>1 DEF Closed
  <2> HIDE DEF q
  <2> QED
    BY <1>1, <2>1, <2>2
<1>3. \A s \in Sessions : Ends(Closed(x), s) /\ Closed(x)[s].ending = session[s].ending
  BY <1>1 DEF Closed, Records, Ends, Holds
<1>4. ~Holds(Closed(x)[x]) /\ StillClosed(Closed(x))
  BY <1>1 DEF Closed, Records, Holds, StillClosed
<1> QED
  BY <1>2, <1>3, <1>4

\* The operation t closes its session.
LEMMA CloseKeeps ==
  ASSUME IInv, NEW t \in tasks, t.op \notin Becomes \cup Accepting \cup {"end"},
         Settle(Without(t.id), Closed(t.s), Others(t)),
         made' = made, over' = over, faults' \in 0..MaxFaults, forgot' = forgot
  PROVE  IInv'
<1> DEFINE x == t.s
           S == Closed(x)
           C == Without(t.id)
           T == Others(t)
<1>1. x \in 1..made /\ t.id = session[x].id
  BY Known DEF TaskConsistent
<1>2. /\ S \in [Sessions -> Records]
      /\ \A s \in Sessions : Ends(S, s) /\ S[s].ending = session[s].ending
      /\ ~Holds(S[x]) /\ StillClosed(S)
  BY <1>1, ClosedEnds
<1> HIDE DEF S
<1>3. /\ C \subseteq calls
      /\ \A s \in calls \ C : Holds(S[s]) =>
           S[s].state = "ended" \/ \E r \in 1..(s - 1) : session[r].id = session[s].id
  BY <1>1, <1>2, Deleted
<1>4. T \subseteq tasks /\ \A u \in tasks \ T : u.op \notin Accepting
  BY DEF Others
<1>5. \A s \in 1..made : S[s].ending <=> \E u \in T : u.s = s /\ u.op = "end"
  BY <1>2, Known DEF Flagged, Others
<1>6. Settle(C, S, T)
  BY DEF S
<1>8. \A s \in 1..made : S[s].state = "ended" /\ Holds(S[s]) =>
                         \E u \in T : u.s = s /\ u.op = "reject"
  <2> SUFFICES ASSUME NEW s \in 1..made, S[s].state = "ended", Holds(S[s])
               PROVE  \E u \in T : u.s = s /\ u.op = "reject"
    OBVIOUS
  <2>1. s # x /\ session[s].state = "ended" /\ Holds(session[s])
    BY <1>2, Known DEF StillClosed
  <2> QED
    BY <1>1, <2>1 DEF IInv, EndedIsClosed, Others
<1>7. over' \subseteq Ids /\ forgot' \in BOOLEAN
  BY Known
<1> HIDE DEF C, T
<1> QED
  BY <1>2, <1>3, <1>4, <1>5, <1>6, <1>7, <1>8, SettleKeeps

LEMMA ActivatedStep ==
  ASSUME IInv, NEW t \in tasks, Activated(t)
  PROVE  IInv'
<1>1. /\ t.op = "activate" /\ t.op \notin Becomes \cup Accepting \cup {"end"}
      /\ made' = made /\ over' = over /\ forgot' = forgot
  BY DEF Activated, On, Becomes, Accepting
<1>2. CASE /\ session' = Opened(t.s) /\ tasks' = Others(t)
           /\ UNCHANGED <<calls, faults>>
  <2>1. tasks' = (tasks \ {t}) \cup {}
    BY <1>2 DEF Others
  <2>2. WaitingIsServed'
    BY <1>1, <1>2, <2>1, OpenedServed
  <2>3. Opening(t, {})
    BY <1>1, <1>2, <2>1 DEF Opening
  <2> QED
    BY <2>2, <2>3, OpenedKeeps
<1>3. CASE Fault /\ Settle(Without(t.id), Closed(t.s), Others(t))
  <2>1. faults' \in 0..MaxFaults
    BY <1>3, Known, CallAssumption DEF Fault
  <2> QED
    BY <1>1, <1>3, <2>1, CloseKeeps
<1> QED
  BY <1>2, <1>3 DEF Activated

LEMMA RejectedStep ==
  ASSUME IInv, NEW t \in tasks, Rejected(t)
  PROVE  IInv'
<1>1. t.op \notin Becomes \cup Accepting \cup {"end"}
  BY DEF Rejected, On, Becomes, Accepting
<1> QED
  BY <1>1, Known, CloseKeeps DEF Rejected

LEMMA ElsewhereStep ==
  ASSUME IInv, NEW t \in tasks, Elsewhere(t)
  PROVE  IInv'
<1>1. /\ t.op = "elsewhere" /\ t.op \notin Becomes \cup Accepting \cup {"end"}
      /\ made' = made /\ over' = over /\ faults' = faults /\ forgot' = forgot
  BY DEF Elsewhere, On, Becomes, Accepting
<1>2. CASE session[t.s].state = "ringing"
  BY <1>1, <1>2, Known, CloseKeeps DEF Elsewhere
<1>3. CASE session[t.s].state # "ringing"
  <2>1. CallChange(t.s, session[t.s], {t})
    BY <1>1, <1>3, Known DEF CallChange, Holds, Elsewhere
  <2> QED
    BY <1>1, <1>3, <2>1, OverKeeps DEF Elsewhere
<1> QED
  BY <1>2, <1>3

LEMMA UnblockedStep ==
  ASSUME IInv, NEW t \in tasks, Unblocked(t)
  PROVE  IInv'
<1>1. /\ t.op = "unblock" /\ t.op \notin Becomes \cup Accepting \cup {"end"}
      /\ made' = made /\ over' = over
  BY DEF Unblocked, On, Becomes, Accepting
<1>2. CASE /\ session' = Opened(t.s) /\ tasks' = Next1(t, "announce")
           /\ UNCHANGED <<calls, faults, forgot>>
  <2> DEFINE u == [t EXCEPT !.op = "announce"]
  <2>1. u \in Tasks /\ u.op = "announce" /\ u.s = t.s /\ u.id = t.id
    BY <1>1, NextTask, NextFields
  <2>2. tasks' = (tasks \ {t}) \cup {u}
    BY <1>2 DEF Next1, Others
  <2> HIDE DEF u
  <2>3. WaitingIsServed'
    BY <2>1, <2>2 DEF WaitingIsServed
  <2>4. Opening(t, {u})
    BY <1>1, <1>2, <2>1, <2>2 DEF Opening
  <2> QED
    BY <2>3, <2>4, OpenedKeeps
<1>3. CASE /\ Fault /\ tasks' = Others(t) /\ UNCHANGED <<calls, session>>
           /\ forgot' = (forgot \/ Room(calls, session))
  <2>1. faults' \in 0..MaxFaults /\ forgot' \in BOOLEAN
    BY <1>3, Known, CallAssumption DEF Fault
  <2>2. WaitingIsServed'
    BY <1>3 DEF WaitingIsServed, Room
  <2>3. CallChange(t.s, session[t.s], {t})
    BY <1>1, <1>3, <2>1, <2>2 DEF CallChange
  <2> QED
    BY <1>1, <1>3, <2>3, OverKeeps
<1> QED
  BY <1>2, <1>3 DEF Unblocked

LEMMA AnnouncedStep ==
  ASSUME IInv, NEW t \in tasks, Announced(t)
  PROVE  IInv'
<1> DEFINE T == Others(t)
<1>1. /\ t.op = "announce" /\ t.op \notin Becomes \cup Accepting \cup {"end"}
      /\ made' = made /\ over' = over /\ faults' = faults /\ forgot' = forgot
  BY DEF Announced, On, Becomes, Accepting
<1>2. T \subseteq tasks /\ \A u \in tasks \ T : u.op \notin Accepting
  BY <1>1 DEF Others
<1>3. \A s \in 1..made : session[s].ending <=> \E u \in T : u.s = s /\ u.op = "end"
  BY <1>1, Known DEF Flagged, Others
<1>4. \A s \in 1..made : session[s].state = "ended" /\ Holds(session[s]) =>
                         \E u \in T : u.s = s /\ u.op = "reject"
  BY <1>1 DEF IInv, EndedIsClosed, Others
<1>5. \A s \in Sessions : Ends(session, s)
  BY DEF Ends
<1>6. Settle(calls, session, T)
  BY DEF Announced
<1>7. \A s \in calls \ calls : FALSE
  OBVIOUS
<1> HIDE DEF T
<1> QED
  BY <1>1, <1>2, <1>3, <1>4, <1>5, <1>6, <1>7, Known, SettleKeeps

LEMMA EndSentStep ==
  ASSUME IInv, NEW t \in tasks, EndSent(t)
  PROVE  IInv'
<1> DEFINE x == t.s
<1>1. /\ x \in 1..made /\ session[x] \in Records /\ Flagged(x, tasks) /\ t.op = "end"
      /\ t.id = session[x].id /\ x \in Sessions /\ session \in [Sessions -> Records]
  BY Known DEF EndSent, On, TaskConsistent, Becomes
<1>2. \A v \in tasks : v.s = x /\ v.op = "end" => v = t
  BY <1>1, Known DEF Clash
<1>3. CASE /\ Fault /\ tasks' = Others(t) /\ UNCHANGED calls
           /\ session' = [session EXCEPT ![x].ending = FALSE]
  <2> DEFINE p == [session[x] EXCEPT !.ending = FALSE]
  <2>1. /\ p \in Records
        /\ p.id = session[x].id /\ p.out = session[x].out /\ p.blocked = session[x].blocked
        /\ p.open = session[x].open /\ p.reopened = session[x].reopened
      /\ p.by = session[x].by /\ p.state = session[x].state
        /\ p.accepting = session[x].accepting /\ p.ending = FALSE
    BY <1>1 DEF Records
  <2>2. session' = [session EXCEPT ![x] = p] /\ tasks' = (tasks \ {t}) \cup {}
    BY <1>1, <1>3 DEF Others
  <2> HIDE DEF p
  <2>3. SessionChange(x, p)
    BY <2>1, <2>2 DEF SessionChange, Holds
  <2>4. TaskChange(x, p, {t}, {})
    BY <1>1, <1>2, <2>1, <2>2 DEF TaskChange, Holds, Flagged, Accepting
  <2>5. faults' \in 0..MaxFaults
    BY <1>3, Known, CallAssumption DEF Fault
  <2>6. CallChange(x, p, {t})
    BY <1>1, <1>3, <2>1, <2>5, Known DEF EndSent, CallChange, Holds
  <2> QED
    BY <1>1, <2>3, <2>4, <2>6, OneKeeps
<1>4. CASE /\ Settle(Without(t.id),
                     IF session[x].state = "ended"
                     THEN [session EXCEPT ![x].ending = FALSE]
                     ELSE [Closed(x) EXCEPT ![x].ending = FALSE],
                     Others(t))
           /\ UNCHANGED faults
  <2> DEFINE Q == IF session[x].state = "ended" THEN session ELSE Closed(x)
             S == [Q EXCEPT ![x].ending = FALSE]
             C == Without(t.id)
             T == Others(t)
  <2>1. /\ Q \in [Sessions -> Records]
        /\ \A s \in Sessions : Ends(Q, s) /\ Q[s].ending = session[s].ending
        /\ Holds(Q[x]) => Q[x].state = "ended"
        /\ StillClosed(Q)
    <3>1. StillClosed(session) /\ \A s \in Sessions : Ends(session, s)
      BY DEF Ends, StillClosed
    <3> QED
      BY <1>1, <3>1, ClosedEnds
  <2>2. Settle(C, S, T)
    BY <1>4
  <2> HIDE DEF Q
  <2>3. /\ S \in [Sessions -> Records]
        /\ \A s \in Sessions : Ends(S, s)
        /\ \A s \in Sessions : S[s].ending = IF s = x THEN FALSE ELSE session[s].ending
        /\ Holds(S[x]) => S[x].state = "ended"
        /\ StillClosed(S)
    <3> DEFINE q == [Q[x] EXCEPT !.ending = FALSE]
    <3>1. Q[x] \in Records
      BY <1>1, <2>1
    <3>2. /\ q \in Records /\ q.ending = FALSE
          /\ q.id = Q[x].id /\ q.out = Q[x].out /\ q.blocked = Q[x].blocked
          /\ q.accepting = Q[x].accepting /\ q.state = Q[x].state /\ q.open = Q[x].open
          /\ q.reopened = Q[x].reopened
          /\ q.by = Q[x].by
      BY <3>1 DEF Records
    <3>3. S = [Q EXCEPT ![x] = q]
      BY <1>1, <2>1
    <3> HIDE DEF q, S
    <3>4. /\ S \in [Sessions -> Records] /\ S[x] = q
          /\ \A s \in Sessions : s # x => S[s] = Q[s]
      BY <1>1, <2>1, <3>2, <3>3
    <3>5. \A s \in Sessions : Ends(S, s)
      BY <2>1, <3>2, <3>4 DEF Ends, Holds
    <3>6. /\ Holds(S[x]) => S[x].state = "ended"
          /\ \A s \in Sessions : Holds(S[s]) <=> Holds(Q[s])
          /\ \A s \in Sessions : S[s].state = Q[s].state
      BY <2>1, <3>2, <3>4 DEF Holds
    <3>7. StillClosed(S)
      BY <2>1, <3>6 DEF StillClosed
    <3> QED
      BY <2>1, <3>2, <3>4, <3>5, <3>6, <3>7
  <2> HIDE DEF S
  <2>4. /\ C \subseteq calls
        /\ \A s \in calls \ C : Holds(S[s]) =>
             S[s].state = "ended" \/ \E r \in 1..(s - 1) : session[r].id = session[s].id
    BY <1>1, <2>3, Deleted
  <2>5. T \subseteq tasks /\ \A u \in tasks \ T : u.op \notin Accepting
    BY <1>1 DEF Others, Accepting
  <2>6. \A s \in 1..made : S[s].ending <=> \E u \in T : u.s = s /\ u.op = "end"
    <3> SUFFICES ASSUME NEW s \in 1..made
                 PROVE  S[s].ending <=> \E u \in T : u.s = s /\ u.op = "end"
      OBVIOUS
    <3>1. s \in Sessions /\ Flagged(s, tasks)
      BY Known
    <3>2. CASE s = x
      BY <1>1, <1>2, <2>3, <3>1, <3>2 DEF Others
    <3>3. CASE s # x
      BY <2>3, <3>1, <3>3 DEF Others, Flagged
    <3> QED
      BY <3>2, <3>3
  <2>7. /\ over' \subseteq Ids /\ forgot' \in BOOLEAN /\ faults' \in 0..MaxFaults
        /\ made' = made
    BY <1>4, Known DEF EndSent
  <2>8. \A s \in 1..made : S[s].state = "ended" /\ Holds(S[s]) =>
                           \E u \in T : u.s = s /\ u.op = "reject"
    <3> SUFFICES ASSUME NEW s \in 1..made, S[s].state = "ended", Holds(S[s])
                 PROVE  \E u \in T : u.s = s /\ u.op = "reject"
      OBVIOUS
    <3>1. session[s].state = "ended" /\ Holds(session[s])
      BY <2>3, Known DEF StillClosed
    <3>2. PICK u \in tasks : u.s = s /\ u.op = "reject"
      BY <3>1 DEF IInv, EndedIsClosed
    <3> QED
      BY <1>1, <3>2 DEF Others
  <2> HIDE DEF C, T
  <2> QED
    BY <2>2, <2>3, <2>4, <2>5, <2>6, <2>7, <2>8, SettleKeeps
<1> QED
  BY <1>3, <1>4 DEF EndSent

LEMMA TerminateStep ==
  ASSUME IInv, NEW id \in Ids, Terminate(id)
  PROVE  IInv'
<1> DEFINE here == {s \in calls : session[s].id = id}
<1>1. /\ over' = over \cup {id} /\ made' = made /\ faults' = faults /\ forgot' = forgot
      /\ over' \subseteq Ids
  BY Known DEF Terminate
<1>2. CASE here = {}
  <2>1. calls' = calls /\ session' = session /\ tasks' = tasks
    BY <1>2 DEF Terminate
  <2>2. TypeOK'
    BY <1>1, <2>1 DEF IInv, TypeOK
  <2>3. tasks' \subseteq Tasks /\ \A t \in tasks' : TaskConsistent(t)'
    BY <1>1, <2>1 DEF IInv, TaskConsistent
  <2>4. OneOfAKind' /\ LatestInMap' /\ Slots'
    BY <1>1, <2>1 DEF IInv, OneOfAKind, LatestInMap, Slots
  <2>5. Cardinality(Active(calls, session)') <= MaxCalls
    BY <2>1 DEF IInv, Active
  <2>6. OffMap' /\ EndedIsClosed'
    BY <1>1, <2>1 DEF IInv, OffMap, EndedIsClosed
  <2>7. WaitingIsServed'
    BY <1>1, <2>1 DEF IInv, WaitingIsServed, Active, Room, Waiting
  <2> QED
    BY <2>2, <2>3, <2>4, <2>5, <2>6, <2>7 DEF IInv
<1>3. CASE here # {}
  <2> DEFINE x == CHOOSE s \in here : TRUE
             S == IF session[x].state = "ended" THEN session ELSE Closed(x)
             C == Without(id)
  <2>1. x \in calls /\ session[x].id = id /\ x \in 1..made
    BY <1>3, Known
  <2>2. Settle(C, S, tasks)
    BY <1>3 DEF Terminate
  <2> HIDE DEF x
  <2>3. /\ S \in [Sessions -> Records]
        /\ \A s \in Sessions : Ends(S, s) /\ S[s].ending = session[s].ending
        /\ Holds(S[x]) => S[x].state = "ended"
        /\ StillClosed(S)
    <3>1. StillClosed(session) /\ \A s \in Sessions : Ends(session, s)
      BY DEF Ends, StillClosed
    <3> QED
      BY <2>1, <3>1, Known, ClosedEnds
  <2> HIDE DEF S
  <2>4. /\ C \subseteq calls
        /\ \A s \in calls \ C : Holds(S[s]) =>
             S[s].state = "ended" \/ \E r \in 1..(s - 1) : session[r].id = session[s].id
    BY <2>1, <2>3, Deleted
  <2>5. \A s \in 1..made : S[s].ending <=> \E u \in tasks : u.s = s /\ u.op = "end"
    BY <2>3, Known DEF Flagged
  <2>6. faults' \in 0..MaxFaults /\ forgot' \in BOOLEAN
    BY <1>1, Known
  <2>7. \A s \in 1..made : S[s].state = "ended" /\ Holds(S[s]) =>
                           \E u \in tasks : u.s = s /\ u.op = "reject"
    <3> SUFFICES ASSUME NEW s \in 1..made, S[s].state = "ended", Holds(S[s])
                 PROVE  \E u \in tasks : u.s = s /\ u.op = "reject"
      OBVIOUS
    <3>1. session[s].state = "ended" /\ Holds(session[s])
      BY <2>3, Known DEF StillClosed
    <3> QED
      BY <3>1 DEF IInv, EndedIsClosed
  <2> HIDE DEF C
  <2> QED
    BY <1>1, <2>2, <2>3, <2>4, <2>5, <2>6, <2>7, SettleKeeps
<1> QED
  BY <1>2, <1>3

-----------------------------------------------------------------------------
(* The invariant, and the theorems.                                        *)

LEMMA Initially == Init => IInv
<1> SUFFICES ASSUME Init PROVE IInv
  OBVIOUS
<1> DEFINE i == CHOOSE i \in Ids : TRUE
<1>1. i \in Ids
  BY CallAssumption
<1>2. /\ calls = {} /\ made = 0 /\ tasks = {} /\ over = {} /\ faults = 0 /\ forgot = FALSE
      /\ session = [s \in Sessions |-> [Blank(i, FALSE, "none", FALSE) EXCEPT !.open = FALSE]]
  BY DEF Init
<1> HIDE DEF i
<1>3. session \in [Sessions -> Records]
  BY <1>1, <1>2 DEF Blank, Records, States
<1>4. 1..made = {}
  BY <1>2
<1>5. made \in 0..MaxSessions /\ faults \in 0..MaxFaults
  BY <1>2, CallAssumption
<1>6. TypeOK
  BY <1>2, <1>3, <1>4, <1>5 DEF TypeOK, Records
<1>7. Slots
  <2>1. {t \in tasks : t.op \in Becomes} = {}
    BY <1>2
  <2> QED
    BY <1>2, <2>1, FS_EmptySet, CallAssumption DEF Slots
<1>8. Cardinality(Active(calls, session)) <= MaxCalls
  <2>1. Active(calls, session) = {}
    BY <1>2 DEF Active
  <2> QED
    BY <2>1, FS_EmptySet, CallAssumption
<1>9. Waiting(calls, session) = {}
  BY <1>2 DEF Waiting
<1> QED
  BY <1>2, <1>4, <1>6, <1>7, <1>8, <1>9
     DEF IInv, OneOfAKind, LatestInMap, OffMap, EndedIsClosed, WaitingIsServed

LEMMA Inductive == IInv /\ [Next]_vars => IInv'
<1> SUFFICES ASSUME IInv, [Next]_vars PROVE IInv'
  OBVIOUS
<1>1. CASE UNCHANGED vars
  <2>1. UNCHANGED <<calls, session, made, tasks, over, faults, forgot>>
    BY <1>1 DEF vars
  <2>2. TypeOK'
    BY <2>1 DEF IInv, TypeOK
  <2>3. tasks' \subseteq Tasks /\ \A t \in tasks' : TaskConsistent(t)'
    BY <2>1 DEF IInv, TaskConsistent
  <2>4. OneOfAKind' /\ LatestInMap' /\ Slots'
    BY <2>1 DEF IInv, OneOfAKind, LatestInMap, Slots
  <2>5. Cardinality(Active(calls, session)') <= MaxCalls
    BY <2>1 DEF IInv, Active
  <2>6. OffMap' /\ EndedIsClosed'
    BY <2>1 DEF IInv, OffMap, EndedIsClosed
  <2>7. WaitingIsServed'
    BY <2>1 DEF IInv, WaitingIsServed, Active, Room, Waiting
  <2> QED
    BY <2>2, <2>3, <2>4, <2>5, <2>6, <2>7 DEF IInv
<1>2. ASSUME NEW id \in Ids, Offer(id) \/ Start(id) \/ Terminate(id) PROVE IInv'
  BY <1>2, OfferStep, StartStep, TerminateStep
<1>3. ASSUME NEW s \in 1..made,
             Accept(s) \/ Reject(s) \/ AcceptOfOwn(s) \/ Relay(s) \/ End(s) \/ Ack(s)
      PROVE  IInv'
  BY <1>3, AcceptStep, RejectStep, AcceptOfOwnStep, RelayStep, EndStep, AckStep
<1>4. ASSUME NEW s \in 1..made, NEW d \in Devices, AcceptBy(s, d) \/ RejectBy(s, d)
      PROVE  IInv'
  BY <1>4, AcceptByStep, RejectByStep
<1>5. ASSUME NEW t \in tasks, Step(t) PROVE IInv'
  BY <1>5, OfferDecryptedStep, ActivatedStep, UnblockedStep, AnnouncedStep, PreparedStep, AnsweredStep,
     RejectedStep, ElsewhereStep, ResolvedStep, DialledStep, OfferedStep, WonStep,
     ConnectingStep, ToldStep, AckedStep, RefusedStep, EndSentStep DEF Step
<1> QED
  BY <1>1, <1>2, <1>3, <1>4, <1>5 DEF Next

LEMMA Invariant == Spec => []IInv
<1> QED
  BY Initially, Inductive, PTL DEF Spec

\* The sessions and operations of the engine are well typed, and the flags of a
\* session tell which of its operations are in flight.
THEOREM TypesCorrect == Spec => []TypeOK
<1>1. IInv => TypeOK
  BY DEF IInv
<1> QED
  BY <1>1, Invariant, PTL

\* However many operations are suspended at an await, no more calls are active than
\* the limit allows, and a call id names one session.
THEOREM LimitHolds == Spec => []WithinCapacity
<1>1. IInv => WithinCapacity
  <2> SUFFICES ASSUME IInv PROVE WithinCapacity
    OBVIOUS
  <2>1. ASSUME NEW r \in calls, NEW s \in calls, session[r].id = session[s].id PROVE r = s
    <3>1. r \in 1..made /\ s \in 1..made
      BY Known
    <3>2. r <= s /\ s <= r
      BY <2>1, <3>1 DEF IInv, LatestInMap
    <3> QED
      BY <3>1, <3>2
  <2> QED
    BY <2>1 DEF IInv, WithinCapacity
<1> QED
  BY <1>1, Invariant, PTL

\* A session that holds media and sockets can be ended through the map or is closed
\* next by its rejection, but for the later session of a call that was offered again,
\* and for one whose media an operation in flight opened again after cleanup.
THEOREM MediaCanBeEnded == Spec => []OpenIsRegistered
<1>1. IInv => OpenIsRegistered
  BY DEF IInv, OffMap, EndedIsClosed, OpenIsRegistered, Holds
<1> QED
  BY <1>1, Invariant, PTL

\* While there is room and a call waits for it, an operation is in flight that looks
\* for it, unless a failure forgot to.
THEOREM RoomIsOffered == Spec => []WaitingIsServed
<1>1. IInv => WaitingIsServed
  BY DEF IInv
<1> QED
  BY <1>1, Invariant, PTL
-----------------------------------------------------------------------------
(* The first device that answers a call keeps it.                         *)

\* No step takes the winner from a session that stays open.
Winner == \A s \in 1..made :
  session'[s].open /\ session[s].by # NoDevice => session'[s].by = session[s].by

LEMMA WinnerIfClosed ==
  ASSUME IInv, NEW C, NEW S, NEW T, Settle(C, S, T), S \in [Sessions -> Records],
         \A s \in 1..made : S[s].open => S[s].by = session[s].by
  PROVE  Winner
<1>1. 1..made \subseteq Sessions
  BY Known
<1>2. \A s \in Sessions : session'[s].open = S[s].open /\ session'[s].by = S[s].by
  <2>1. CASE session' = S
    BY <2>1
  <2>2. CASE session' = [S EXCEPT ![Min(Waiting(C, S))].blocked = FALSE]
    BY <2>2 DEF Records
  <2> QED
    BY <2>1, <2>2 DEF Settle
<1> QED
  BY <1>1, <1>2 DEF Winner

LEMMA ClosedBy ==
  ASSUME IInv, NEW x \in 1..made
  PROVE  /\ Closed(x) \in [Sessions -> Records]
         /\ \A s \in 1..made : Closed(x)[s].open => Closed(x)[s].by = session[s].by
<1>1. x \in Sessions /\ session \in [Sessions -> Records] /\ 1..made \subseteq Sessions
  BY Known
<1>2. \A s \in Sessions : Closed(x)[s].open => Closed(x)[s].by = session[s].by
  BY <1>1 DEF Closed, Records
<1> QED
  BY <1>1, <1>2, ClosedEnds

\* Of the end of a call.
Cleared(Q, x) == [Q EXCEPT ![x].ending = FALSE]

LEMMA ClearedKeeps ==
  ASSUME NEW Q, Q \in [Sessions -> Records], NEW x \in Sessions
  PROVE  /\ Cleared(Q, x) \in [Sessions -> Records]
         /\ \A s \in Sessions :
              Cleared(Q, x)[s].open = Q[s].open /\ Cleared(Q, x)[s].by = Q[s].by
<1> DEFINE q == [Q[x] EXCEPT !.ending = FALSE]
<1>1. q \in Records /\ q.open = Q[x].open /\ q.by = Q[x].by
  <2>1. Q[x] \in Records
    OBVIOUS
  <2> QED
    BY <2>1 DEF Records
<1>2. Cleared(Q, x) = [Q EXCEPT ![x] = q]
  BY DEF Cleared
<1> HIDE DEF q
<1> QED
  BY <1>1, <1>2

\* An operation goes on.
LEMMA StepWinner ==
  ASSUME IInv, NEW t \in tasks, Step(t)
  PROVE  Winner
<1>1. t.op \notin Becomes => t.s \in 1..made
  BY Known DEF TaskConsistent
<1>2. /\ session \in [Sessions -> Records] /\ 1..made \subseteq Sessions
      /\ made + 1 \notin 1..made
  BY Known
<1>3. ASSUME session' = session PROVE Winner
  BY <1>3 DEF Winner
<1>4. ASSUME NEW C, NEW T, Settle(C, session, T) PROVE Winner
  BY <1>2, <1>4, WinnerIfClosed
<1>5. ASSUME NEW C, NEW T, Settle(C, Closed(t.s), T), t.op \notin Becomes PROVE Winner
  BY <1>1, <1>5, ClosedBy, WinnerIfClosed
<1>21. ASSUME session' = Opened(t.s), t.op \notin Becomes PROVE Winner
  BY <1>1, <1>2, <1>21 DEF Opened, Winner, Records
<1>6. CASE OfferDecrypted(t) \/ Resolved(t)
  BY <1>2, <1>3, <1>6 DEF OfferDecrypted, Resolved, Create, Winner
<1>7. CASE Activated(t)
  BY <1>5, <1>7, <1>21 DEF Activated, On, Becomes
<1>8. CASE Unblocked(t) \/ Announced(t) \/ Acked(t)
  BY <1>3, <1>4, <1>8, <1>21 DEF Unblocked, Announced, Acked, On, Becomes
<1>9. CASE Prepared(t)
  BY <1>3, <1>9 DEF Prepared
<1>10. CASE Answered(t)
  BY <1>2, <1>3, <1>10 DEF Answered, Winner, Records
<1>11. CASE Rejected(t)
  BY <1>5, <1>11 DEF Rejected, On, Becomes
<1>12. CASE Elsewhere(t)
  BY <1>3, <1>5, <1>12 DEF Elsewhere, On, Becomes
<1>13. ASSUME Abandon(t), t.op \in {"dial", "ring"} PROVE Winner
  BY <1>1, <1>2, <1>13 DEF Abandon, Winner, Records, Becomes
<1>14. CASE Dialled(t)
  <2>1. CASE session' = [session EXCEPT ![t.s].state = "ringing"]
    BY <1>2, <2>1 DEF Winner, Records
  <2> QED
    BY <1>13, <1>14, <2>1 DEF Dialled, On
<1>15. CASE Offered(t)
  BY <1>3, <1>13, <1>15 DEF Offered, On
<1>16. CASE Won(t)
  <2>1. session[t.s].by = NoDevice
    BY <1>16, Known DEF Won, On, TaskConsistent
  <2> QED
    BY <1>2, <1>16, <2>1 DEF Won, Winner, Records
<1>17. CASE Connecting(t)
  BY <1>2, <1>3, <1>17 DEF Connecting, Winner, Records
<1>18. CASE Told(t)
  <2>1. t.s \in 1..made
    BY <1>1, <1>18 DEF Told, On, Becomes
  <2>2. CASE session' = [session EXCEPT ![t.s].accepting = FALSE]
    BY <1>2, <2>1, <2>2 DEF Winner, Records
  <2>3. CASE session' = [Opened(t.s) EXCEPT ![t.s].accepting = FALSE]
    BY <1>2, <2>1, <2>3 DEF Opened, Winner, Records
  <2> QED
    BY <1>18, <2>2, <2>3 DEF Told
<1>19. CASE Refused(t)
  BY <1>2, <1>3, <1>19 DEF Refused, Winner, Records
<1>20. CASE EndSent(t)
  <2>1. t.s \in 1..made /\ t.s \in Sessions
    BY <1>1, <1>2, <1>20 DEF EndSent, On, Becomes
  <2>2. CASE session' = Cleared(session, t.s)
    BY <1>2, <2>1, <2>2, ClearedKeeps DEF Winner
  <2>3. ASSUME NEW C, NEW T, Settle(C, Cleared(session, t.s), T)
        PROVE  Winner
    BY <1>2, <2>1, <2>3, ClearedKeeps, WinnerIfClosed
  <2>4. ASSUME NEW C, NEW T, Settle(C, Cleared(Closed(t.s), t.s), T)
        PROVE  Winner
    <3>1. Closed(t.s) \in [Sessions -> Records]
      BY <2>1, ClosedBy
    <3>2. \A s \in 1..made : Closed(t.s)[s].open => Closed(t.s)[s].by = session[s].by
      BY <2>1, ClosedBy
    <3>3. Cleared(Closed(t.s), t.s) \in [Sessions -> Records]
      BY <2>1, <3>1, ClearedKeeps
    <3>4. \A s \in 1..made : Cleared(Closed(t.s), t.s)[s].open
                            => Cleared(Closed(t.s), t.s)[s].by = session[s].by
      BY <1>2, <2>1, <3>1, <3>2, ClearedKeeps
    <3> QED
      BY <2>4, <3>3, <3>4, WinnerIfClosed
  <2> QED
    BY <1>20, <2>2, <2>3, <2>4 DEF EndSent, Cleared
<1> QED
  BY <1>6, <1>7, <1>8, <1>9, <1>10, <1>11, <1>12, <1>14, <1>15, <1>16, <1>17, <1>18,
     <1>19, <1>20 DEF Step

LEMMA WinnerStays ==
  ASSUME IInv, Next
  PROVE  Winner
<1>1. session \in [Sessions -> Records] /\ 1..made \subseteq Sessions
  BY Known
<1>2. ASSUME session' = session PROVE Winner
  BY <1>2 DEF Winner
<1>3. ASSUME NEW id \in Ids, Offer(id) PROVE Winner
  BY <1>1, <1>3 DEF Offer, Winner, Records
<1>4. ASSUME NEW id \in Ids, Start(id) PROVE Winner
  BY <1>2, <1>4 DEF Start
<1>5. ASSUME NEW id \in Ids, Terminate(id) PROVE Winner
  <2> DEFINE here == {s \in calls : session[s].id = id}
             x == CHOOSE s \in here : TRUE
  <2>1. CASE here = {}
    BY <1>2, <1>5, <2>1 DEF Terminate
  <2>2. CASE here # {}
    <3>1. x \in 1..made
      BY <2>2, Known
    <3>2. Settle(Without(id), IF session[x].state = "ended" THEN session ELSE Closed(x), tasks)
      BY <1>5, <2>2 DEF Terminate
    <3> HIDE DEF x
    <3>3. CASE session[x].state = "ended"
      BY <1>1, <3>2, <3>3, WinnerIfClosed
    <3>4. CASE session[x].state # "ended"
      BY <3>1, <3>2, <3>4, ClosedBy, WinnerIfClosed
    <3> QED
      BY <3>3, <3>4
  <2> QED
    BY <2>1, <2>2
<1>6. ASSUME NEW s \in 1..made, Accept(s) \/ AcceptOfOwn(s) \/ Ack(s) PROVE Winner
  BY <1>2, <1>6 DEF Accept, AcceptOfOwn, Ack
<1>7. ASSUME NEW s \in 1..made, Reject(s) PROVE Winner
  BY <1>1, <1>7 DEF Reject, Winner, Records
<1>8. ASSUME NEW s \in 1..made, Relay(s) PROVE Winner
  BY <1>1, <1>8 DEF Relay, Winner, Records
<1>9. ASSUME NEW s \in 1..made, End(s) PROVE Winner
  BY <1>1, <1>9 DEF End, Winner, Records
<1>10. ASSUME NEW s \in 1..made, NEW d \in Devices, AcceptBy(s, d) PROVE Winner
  BY <1>1, <1>10 DEF AcceptBy, Winner, Records
<1>11. ASSUME NEW s \in 1..made, NEW d \in Devices, RejectBy(s, d) PROVE Winner
  BY <1>1, <1>2, <1>11 DEF RejectBy, Winner, Records
<1> QED
  BY <1>3, <1>4, <1>5, <1>6, <1>7, <1>8, <1>9, <1>10, <1>11, StepWinner DEF Next

\* The device that answered first stays the winner while its call is open, and no end
\* of the call is in flight for another one's refusal.
THEOREM FirstWins == Spec => FirstAnswerWins
<1> DEFINE A == \A s \in 1..made :
              session[s].by # NoDevice /\ session'[s].open =>
                /\ session'[s].by = session[s].by
                /\ \A t \in tasks' :
                     t.s = s /\ t.op = "end" => t.dev \in {NoDevice, session[s].by}
<1>1. IInv /\ IInv' /\ [Next]_vars => [A]_vars
  <2> SUFFICES ASSUME IInv, IInv', Next PROVE A
    OBVIOUS
  <2>1. Winner
    BY WinnerStays
  <2>2. ASSUME NEW s \in 1..made, session[s].by # NoDevice, session'[s].open,
               NEW t \in tasks', t.s = s, t.op = "end"
        PROVE  t.dev \in {NoDevice, session[s].by}
    <3>1. session'[s].by = session[s].by
      BY <2>1, <2>2 DEF Winner
    <3>2. session'[s].by \in {NoDevice, t.dev} \/ t.dev = NoDevice
      BY <2>2 DEF IInv, TaskConsistent
    <3> QED
      BY <2>2, <3>1, <3>2
  <2> QED
    BY <2>1, <2>2 DEF Winner
<1>2. Spec => [][A]_vars
  BY <1>1, Invariant, PTL DEF Spec
<1> QED
  BY <1>2 DEF FirstAnswerWins
=============================================================================
