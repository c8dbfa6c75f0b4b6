----------------------- MODULE ProviderMigrationProofs -----------------------
(***************************************************************************)
(* Theorems about ProviderMigration, for every number of requests, of      *)
(* runtimes and of mishaps: the requests take turns, the record keeps a    *)
(* complete session, answers are true, and two clients are only connected  *)
(* after one escaped.                                                      *)
(***************************************************************************)
EXTENDS ProviderMigration, FiniteSetTheorems, TLAPS

Sessions == {"none", "partial", "valid"}

\* Where a migration moves the session.
Moving == {"stopping", "cutover", "writing", "connecting", "validating", "accepted", "undo",
           "restoring", "restored", "reconnecting"}

Stages == {"new", "queued", "locked", "waiting", "hung"} \cup Moving \cup Done

Request == [pc : Stages, waits : Requests \cup {Nobody}, cur : Runtimes \cup {None},
            source : Providers, target : Providers, keep : BOOLEAN,
            backup : Sessions, made : Runtimes \cup {None}]

Types ==
  /\ integration \in Providers
  /\ snapshot \in [Providers -> Sessions]
  /\ registered \in Runtimes \cup {None} /\ booting \in Runtimes \cup {None}
  /\ runtime \in [Runtimes -> [provider : Providers, client : Clients]]
  /\ tail \in Requests \cup {Nobody}
  /\ req \in [Requests -> Request]
  /\ escaped \in BOOLEAN /\ undone \in BOOLEAN

\* Requests that hold the lock or wait for it.
Live(q) == req[q].pc \notin Done \cup {"new"}

\* The line of the lock: each request waits for the one before it, and the
\* tail is the last.
InLine(n, s) ==
  /\ \A q \in Requests : Live(q) <=> \E i \in 1..n : s[i] = q
  /\ \A i, j \in 1..n : s[i] = s[j] => i = j
  /\ tail = IF n = 0 THEN Nobody ELSE s[n]
  /\ \A i \in 1..n : i > 1 => At(s[i], "queued") /\ req[s[i]].waits = s[i - 1]

LockInOrder == \E n \in Nat : \E s \in [1..n -> Requests] : InLine(n, s)

\* Only a process without its instance has no registered runtime, and then
\* nobody is served.
ProcessConsistent ==
  /\ booting # None => registered = None
  /\ \A q \in Requests : Live(q) => registered # None /\ req[q].cur \in Runtimes

\* What the stage of a migration tells of the record, of the sessions and of
\* the runtime of the target.
MigrationConsistent(q) ==
  LET p == req[q] IN
  /\ p.pc \in Moving => p.source # p.target /\ snapshot[p.source] = "valid"
  /\ p.pc \in {"stopping", "cutover", "writing", "connecting", "validating",
               "reconnecting"} =>
       integration = p.source
  /\ p.pc \in {"undo", "restoring", "restored"} => undone \/ integration = p.source
  /\ p.pc = "accepted" => integration = p.target
  /\ p.pc \in {"connecting", "validating", "accepted"} =>
       snapshot[p.target] = "valid" /\ p.made # None
  /\ p.pc \in {"new", "queued", "locked", "stopping", "cutover", "writing"} =>
       p.made = None
  /\ p.pc \in {"connecting", "validating", "accepted", "undo"} /\ p.made # None =>
       p.made = registered /\ runtime[p.made].provider = p.target

Alive(r) == runtime[r].client \in {"creating", "connecting", "open", "retrying"}

\* The source is stopped, or the target, and nothing is started yet.
Quiet(q) ==
  \/ req[q].pc \in {"cutover", "writing", "restoring", "restored"}
  \/ req[q].pc = "undo" /\ req[q].made = None

\* As long as no client escaped, only the runtime in the registry, or about to
\* enter it, has one, and none between a stop and the next start.
ClientsConsistent ==
  ~escaped =>
    /\ \A r \in Runtimes : Alive(r) => r \in {registered, booting}
    /\ \A q \in Requests : Quiet(q) => \A r \in Runtimes : ~Alive(r)

\* The inductive invariant.
IInv ==
  /\ Types
  /\ LockInOrder
  /\ ProcessConsistent
  /\ SessionOfRecord
  /\ \A q \in Requests : MigrationConsistent(q)
  /\ ClientsConsistent
-----------------------------------------------------------------------------
(* The lock.                                                               *)

\* Nobody is before q: it holds the lock, or may take it.
First(q) ==
  /\ Live(q)
  /\ At(q, "queued") /\ req[q].waits # Nobody => req[req[q].waits].pc \in Done

Others(q) == \A p \in Requests : p # q => req'[p] = req[p]

LEMMA FirstIsHead ==
  ASSUME Types, NEW n \in Nat, NEW s \in [1..n -> Requests], InLine(n, s),
         NEW q \in Requests, First(q)
  PROVE  n > 0 /\ s[1] = q
<1>1. PICK i \in 1..n : s[i] = q
  BY DEF First, InLine
<1>2. ASSUME i > 1 PROVE FALSE
  <2>1. At(q, "queued") /\ req[q].waits = s[i - 1]
    BY <1>1, <1>2 DEF InLine
  <2>2. i - 1 \in 1..n
    BY <1>2
  <2>3. s[i - 1] \in Requests /\ Live(s[i - 1])
    BY <2>2 DEF InLine
  <2> QED
    BY <2>1, <2>3, MigrationAssumption DEF First, Live
<1> QED
  BY <1>1, <1>2

\* Only one request is first, and every other one is still to come, queues or
\* has its answer.
LEMMA Alone ==
  ASSUME Types, LockInOrder, NEW q \in Requests, First(q)
  PROVE  \A p \in Requests : p # q => req[p].pc \in {"new", "queued"} \cup Done
<1> SUFFICES ASSUME NEW p \in Requests, p # q,
                    req[p].pc \notin {"new", "queued"} \cup Done
             PROVE  FALSE
  OBVIOUS
<1>1. PICK n \in Nat : \E s \in [1..n -> Requests] : InLine(n, s)
  BY DEF LockInOrder
<1>2. PICK s \in [1..n -> Requests] : InLine(n, s)
  BY <1>1
<1>3. First(p)
  BY DEF First, Live, At
<1>4. s[1] = q /\ s[1] = p
  BY <1>2, <1>3, FirstIsHead
<1> QED
  BY <1>4

LEMMA LineStays ==
  ASSUME Types, LockInOrder, NEW q \in Requests, First(q), Others(q), Live(q)',
         tail' = tail
  PROVE  LockInOrder'
<1>1. PICK n \in Nat : \E s \in [1..n -> Requests] : InLine(n, s)
  BY DEF LockInOrder
<1>2. PICK s \in [1..n -> Requests] : InLine(n, s)
  BY <1>1
<1>3. n > 0 /\ s[1] = q
  BY <1>2, FirstIsHead
<1>4. \A p \in Requests : Live(p)' <=> Live(p)
  BY DEF Others, Live, First
<1>5. \A i \in 1..n : i > 1 => req'[s[i]] = req[s[i]]
  <2> SUFFICES ASSUME NEW i \in 1..n, i > 1 PROVE req'[s[i]] = req[s[i]]
    OBVIOUS
  <2>1. s[i] # s[1] /\ s[i] \in Requests
    BY <1>2, <1>3 DEF InLine
  <2> QED
    BY <1>3, <2>1 DEF Others
<1>6. InLine(n, s)'
  BY <1>2, <1>4, <1>5 DEF InLine, At
<1> QED
  BY <1>6 DEF LockInOrder

LEMMA LineShrinks ==
  ASSUME Types, LockInOrder, NEW q \in Requests, First(q), Others(q), ~Live(q)',
         tail' = IF tail = q THEN Nobody ELSE tail
  PROVE  LockInOrder'
<1>1. PICK n \in Nat : \E s \in [1..n -> Requests] : InLine(n, s)
  BY DEF LockInOrder
<1>2. PICK s \in [1..n -> Requests] : InLine(n, s)
  BY <1>1
<1>3. n > 0 /\ s[1] = q
  BY <1>2, FirstIsHead
<1> DEFINE m == n - 1
           t == [i \in 1..m |-> s[i + 1]]
<1>4. m \in Nat /\ t \in [1..m -> Requests]
  BY <1>3
<1>5. \A i \in 1..m : i + 1 \in 1..n /\ t[i] = s[i + 1] /\ t[i] # q
                      /\ req'[t[i]] = req[t[i]]
  <2> SUFFICES ASSUME NEW i \in 1..m
               PROVE  i + 1 \in 1..n /\ t[i] = s[i + 1] /\ t[i] # q
                      /\ req'[t[i]] = req[t[i]]
    OBVIOUS
  <2>1. i + 1 \in 1..n /\ 1 \in 1..n /\ t[i] = s[i + 1]
    BY <1>3
  <2>2. s[i + 1] # s[1]
    BY <1>2, <2>1 DEF InLine
  <2> QED
    BY <1>3, <1>4, <2>1, <2>2 DEF Others
<1>6. \A p \in Requests : Live(p)' <=> p # q /\ Live(p)
  BY DEF Others, Live, First
<1>7. \A p \in Requests : Live(p)' <=> \E i \in 1..m : t[i] = p
  <2>1. ASSUME NEW p \in Requests, p # q, Live(p) PROVE \E i \in 1..m : t[i] = p
    <3>1. PICK k \in 1..n : s[k] = p
      BY <1>2, <2>1 DEF InLine
    <3>2. k # 1
      BY <1>3, <2>1, <3>1
    <3>3. k - 1 \in 1..m /\ t[k - 1] = p
      BY <3>1, <3>2
    <3> QED
      BY <3>3
  <2>2. ASSUME NEW p \in Requests, NEW i \in 1..m, t[i] = p PROVE p # q /\ Live(p)
    BY <1>2, <1>5, <2>2 DEF InLine
  <2> QED
    BY <1>6, <2>1, <2>2
<1>8. \A i, j \in 1..m : t[i] = t[j] => i = j
  BY <1>2, <1>5 DEF InLine
<1>9. tail' = IF m = 0 THEN Nobody ELSE t[m]
  <2>1. tail = s[n]
    BY <1>2, <1>3 DEF InLine
  <2>2. CASE m = 0
    BY <1>3, <2>1, <2>2
  <2>3. CASE m # 0
    <3>1. m \in 1..m /\ m + 1 = n
      BY <1>4, <2>3
    <3>2. t[m] = s[n] /\ t[m] # q
      BY <1>5, <3>1
    <3> QED
      BY <2>1, <2>3, <3>2
  <2> QED
    BY <2>2, <2>3
<1>10. \A i \in 1..m : i > 1 => At(t[i], "queued")' /\ req'[t[i]].waits = t[i - 1]
  <2> SUFFICES ASSUME NEW i \in 1..m, i > 1
               PROVE  At(t[i], "queued")' /\ req'[t[i]].waits = t[i - 1]
    OBVIOUS
  <2>1. i - 1 \in 1..m /\ i + 1 \in 1..n /\ t[i - 1] = s[i] /\ i + 1 > 1
    BY <1>4
  <2>2. At(s[i + 1], "queued") /\ req[s[i + 1]].waits = s[i]
    BY <1>2, <2>1 DEF InLine
  <2> QED
    BY <1>5, <2>1, <2>2 DEF At
<1> HIDE DEF m, t
<1>11. InLine(m, t)'
  BY <1>7, <1>8, <1>9, <1>10 DEF InLine
<1> QED
  BY <1>4, <1>11 DEF LockInOrder

LEMMA LineGrows ==
  ASSUME Types, LockInOrder, NEW q \in Requests, At(q, "new"), Others(q),
         req'[q].pc = "queued", req'[q].waits = tail, tail' = q
  PROVE  LockInOrder'
<1>1. PICK n \in Nat : \E s \in [1..n -> Requests] : InLine(n, s)
  BY DEF LockInOrder
<1>2. PICK s \in [1..n -> Requests] : InLine(n, s)
  BY <1>1
<1> DEFINE m == n + 1
           t == [i \in 1..m |-> IF i = m THEN q ELSE s[i]]
<1>3. m \in Nat /\ t \in [1..m -> Requests] /\ t[m] = q
  OBVIOUS
<1>4. \A i \in 1..m : i # m => i \in 1..n /\ t[i] = s[i]
  OBVIOUS
<1>5. \A p \in Requests : Live(p)' <=> p = q \/ Live(p)
  BY DEF Others, Live, Done
<1>6. ~Live(q)
  BY DEF Live, At
<1>7. \A i \in 1..n : s[i] # q /\ s[i] \in Requests /\ t[i] = s[i] /\ i \in 1..m
  BY <1>2, <1>6 DEF InLine
<1> HIDE DEF t
<1>8. \A p \in Requests : Live(p)' <=> \E i \in 1..m : t[i] = p
  BY <1>2, <1>3, <1>4, <1>5, <1>7 DEF InLine
<1>9. \A i, j \in 1..m : t[i] = t[j] => i = j
  BY <1>2, <1>3, <1>4, <1>7 DEF InLine
<1>10. tail' = IF m = 0 THEN Nobody ELSE t[m]
  BY <1>3
<1>11. \A i \in 1..m : i > 1 => At(t[i], "queued")' /\ req'[t[i]].waits = t[i - 1]
  <2> SUFFICES ASSUME NEW i \in 1..m, i > 1
               PROVE  At(t[i], "queued")' /\ req'[t[i]].waits = t[i - 1]
    OBVIOUS
  <2>1. i - 1 \in 1..n /\ t[i - 1] = s[i - 1]
    BY <1>7
  <2>2. CASE i = m
    BY <1>2, <1>3, <2>1, <2>2 DEF InLine, At
  <2>3. CASE i # m
    <3>1. t[i] = s[i] /\ i \in 1..n /\ s[i] # q /\ s[i] \in Requests
      BY <1>4, <1>7, <2>3
    <3>2. At(s[i], "queued") /\ req[s[i]].waits = s[i - 1]
      BY <1>2, <3>1 DEF InLine
    <3> QED
      BY <2>1, <3>1, <3>2 DEF At, Others
  <2> QED
    BY <2>2, <2>3
<1> HIDE DEF m
<1>12. InLine(m, t)'
  BY <1>8, <1>9, <1>10, <1>11 DEF InLine
<1> QED
  BY <1>3, <1>12 DEF LockInOrder

LEMMA LineEmpty ==
  ASSUME \A q \in Requests : ~Live(q)', tail' = Nobody
  PROVE  LockInOrder'
<1> DEFINE s == [i \in 1..0 |-> Nobody]
<1>1. s \in [1..0 -> Requests]
  OBVIOUS
<1>2. InLine(0, s)'
  BY DEF InLine
<1> QED
  BY <1>1, <1>2 DEF LockInOrder
-----------------------------------------------------------------------------
(* The steps.                                                              *)

LEMMA InitIInv == Init => IInv
<1> SUFFICES ASSUME Init PROVE IInv
  OBVIOUS
<1> USE MigrationAssumption
<1>1. PICK r \in Runtimes :
        /\ registered = r
        /\ runtime = [s \in Runtimes |->
             IF s = r THEN [provider |-> integration, client |-> "open"] ELSE Free]
  BY DEF Init
<1>2. \A q \in Requests : req[q] = Blank
  BY DEF Init
<1>3. Blank \in Request
  BY DEF Blank, Request, Stages, Providers, Sessions, None
<1>4. req \in [Requests -> Request]
  BY <1>3 DEF Init
<1>5. runtime \in [Runtimes -> [provider : Providers, client : Clients]]
  BY <1>1 DEF Init, Free, Providers, Clients
<1>6. Types
  BY <1>1, <1>4, <1>5 DEF Init, Types, Providers, Sessions
<1>7. \A q \in Requests : req[q].pc = "new"
  BY <1>2 DEF Blank
<1>8. LockInOrder
  <2> DEFINE s == [i \in 1..0 |-> Nobody]
  <2>1. s \in [1..0 -> Requests]
    OBVIOUS
  <2>2. InLine(0, s)
    BY <1>7 DEF InLine, Live, Init
  <2> QED
    BY <2>1, <2>2 DEF LockInOrder
<1>9. ProcessConsistent
  BY <1>7 DEF Init, ProcessConsistent, Live
<1>10. SessionOfRecord
  BY DEF Init, SessionOfRecord
<1>11. \A q \in Requests : MigrationConsistent(q)
  BY <1>2, <1>7 DEF MigrationConsistent, Moving, Blank
<1>12. ClientsConsistent
  BY <1>1, <1>7 DEF ClientsConsistent, Alive, Quiet, Free
<1> QED
  BY <1>6, <1>8, <1>9, <1>10, <1>11, <1>12 DEF IInv

\* A step of the request that holds the lock.
LEMMA FirstMoves ==
  ASSUME IInv, NEW q \in Requests, First(q), Others(q), Types',
         \/ Live(q)' /\ tail' = tail
         \/ ~Live(q)' /\ tail' = IF tail = q THEN Nobody ELSE tail,
         booting' = booting, registered' # None,
         req'[q].cur = req[q].cur \/ ~Live(q)',
         SessionOfRecord', MigrationConsistent(q)',
         ~escaped' => /\ \A r \in Runtimes : Alive(r)' => r = registered'
                      /\ Quiet(q)' => \A r \in Runtimes : ~Alive(r)'
  PROVE  IInv'
<1>1. Types /\ LockInOrder /\ ProcessConsistent /\ Live(q)
  BY DEF IInv, First
<1>2. LockInOrder'
  BY <1>1, LineStays, LineShrinks
<1>3. \A p \in Requests : p # q => /\ req'[p] = req[p]
                                   /\ req[p].pc \in {"new", "queued"} \cup Done
  BY <1>1, Alone DEF Others
<1>4. ProcessConsistent'
  BY <1>1, <1>3 DEF ProcessConsistent, Live
<1>5. \A p \in Requests : MigrationConsistent(p)'
  <2> SUFFICES ASSUME NEW p \in Requests, p # q PROVE MigrationConsistent(p)'
    OBVIOUS
  <2>1. req'[p] = req[p] /\ req[p].pc \in {"new", "queued"} \cup Done
    BY <1>3
  <2>2. MigrationConsistent(p)
    BY DEF IInv
  <2> QED
    BY <2>1, <2>2 DEF MigrationConsistent, Moving, Done
<1>6. \A p \in Requests : p # q => ~Quiet(p)'
  BY <1>3 DEF Quiet, Done
<1>7. ClientsConsistent'
  BY <1>6 DEF ClientsConsistent
<1> QED
  BY <1>2, <1>4, <1>5, <1>7 DEF IInv

\* What is known before such a step.
LEMMA AtWork ==
  ASSUME IInv, NEW q \in Requests, Live(q), ~At(q, "queued")
  PROVE  /\ First(q) /\ Types /\ SessionOfRecord /\ MigrationConsistent(q)
         /\ registered \in Runtimes /\ req[q].cur \in Runtimes /\ booting = None
         /\ ~escaped => /\ \A r \in Runtimes : Alive(r) => r = registered
                        /\ Quiet(q) => \A r \in Runtimes : ~Alive(r)
<1>1. Types /\ ProcessConsistent /\ ClientsConsistent
  BY DEF IInv
<1>2. registered # None /\ req[q].cur \in Runtimes
  BY <1>1 DEF ProcessConsistent
<1>3. registered \in Runtimes /\ booting = None
  BY <1>1, <1>2 DEF Types, ProcessConsistent
<1>4. None \notin Runtimes
  BY MigrationAssumption DEF None
<1> QED
  BY <1>1, <1>2, <1>3, <1>4 DEF IInv, First, ClientsConsistent

\* Changing the row of one request.
LEMMA RequestChanged ==
  ASSUME Types, NEW q \in Requests, NEW p \in Request, req' = [req EXCEPT ![q] = p]
  PROVE  Others(q) /\ req'[q] = p /\ req' \in [Requests -> Request]
BY DEF Others, Types

LEMMA WentTo ==
  ASSUME Types, NEW q \in Requests, NEW pc \in Stages, Goto(q, pc)
  PROVE  /\ Others(q) /\ req' \in [Requests -> Request]
         /\ req'[q] = [req[q] EXCEPT !.pc = pc]
         /\ req'[q].pc = pc /\ req'[q].cur = req[q].cur
         /\ req'[q].source = req[q].source /\ req'[q].target = req[q].target
         /\ req'[q].made = req[q].made /\ req'[q].keep = req[q].keep
         /\ req'[q].backup = req[q].backup
<1>1. req[q] \in Request /\ req' = [req EXCEPT ![q] = [req[q] EXCEPT !.pc = pc]]
  BY DEF Types, Goto
<1>2. [req[q] EXCEPT !.pc = pc] \in Request
  BY <1>1 DEF Request
<1> QED
  BY <1>1, <1>2, RequestChanged DEF Request

LEMMA Ended ==
  ASSUME Types, NEW q \in Requests, NEW pc \in Done, End(q, pc)
  PROVE  /\ Others(q) /\ req' \in [Requests -> Request]
         /\ req'[q].pc = pc /\ ~Live(q)' /\ ~Quiet(q)' /\ MigrationConsistent(q)'
         /\ tail' = IF tail = q THEN Nobody ELSE tail
         /\ tail' \in Requests \cup {Nobody}
<1>1. [Blank EXCEPT !.pc = pc] \in Request /\ [Blank EXCEPT !.pc = pc].pc = pc
  BY DEF Blank, Request, Stages, Providers, Sessions
<1>2. Others(q) /\ req' \in [Requests -> Request] /\ req'[q].pc = pc
  BY <1>1, RequestChanged DEF End
<1>3. ~Live(q)' /\ ~Quiet(q)' /\ MigrationConsistent(q)'
  BY <1>2 DEF Live, Quiet, MigrationConsistent, Moving, Done
<1> QED
  BY <1>2, <1>3 DEF End, Types

LEMMA Closes ==
  ASSUME Types, NEW r \in Runtimes \cup {None}, Close(r)
  PROVE  /\ runtime' \in [Runtimes -> [provider : Providers, client : Clients]]
         /\ \A s \in Runtimes : /\ runtime'[s].provider = runtime[s].provider
                                /\ Alive(s)' => Alive(s)
         /\ r # None /\ ~Escapes(r) => ~Alive(r)'
<1>1. CASE r = None
  BY <1>1 DEF Close, Types, Alive
<1>2. CASE r # None
  <2> DEFINE row == [runtime[r] EXCEPT !.client = Closed(@)]
  <2>1. r \in Runtimes /\ runtime[r] \in [provider : Providers, client : Clients]
    BY <1>2 DEF Types
  <2>2. Closed(runtime[r].client) \in Clients
    BY <2>1 DEF Closed, Clients
  <2>3. /\ row \in [provider : Providers, client : Clients]
        /\ row.provider = runtime[r].provider
        /\ row.client = Closed(runtime[r].client)
    BY <2>1, <2>2
  <2>4. runtime' = [runtime EXCEPT ![r] = row]
    BY <1>2 DEF Close
  <2> HIDE DEF row
  <2>5. /\ runtime' \in [Runtimes -> [provider : Providers, client : Clients]]
        /\ runtime'[r] = row /\ \A s \in Runtimes : s # r => runtime'[s] = runtime[s]
    BY <2>1, <2>3, <2>4 DEF Types
  <2>6. ~Escapes(r) => ~Alive(r)'
    BY <1>2, <2>1, <2>3, <2>5 DEF Escapes, Closed, Alive, Clients
  <2>7. Alive(r)' => Alive(r)
    BY <2>1, <2>3, <2>5 DEF Closed, Alive, Clients
  <2> QED
    BY <2>3, <2>5, <2>6, <2>7 DEF Alive
<1> QED
  BY <1>1, <1>2

LEMMA Makes ==
  ASSUME Types, NEW r \in Runtimes, NEW p \in Providers, NEW c \in Clients,
         Make(r, p, c)
  PROVE  /\ runtime' \in [Runtimes -> [provider : Providers, client : Clients]]
         /\ runtime'[r].provider = p /\ runtime'[r].client = c
         /\ \A s \in Runtimes : s # r => runtime'[s] = runtime[s]
         /\ r \notin {registered, booting} /\ r # None
         /\ \A q \in Requests : r \notin {req[q].cur, req[q].made}
BY MigrationAssumption DEF Types, Make, Reusable, None

\* Nothing but the request itself changes.
LEMMA OnlyMoves ==
  ASSUME IInv, NEW q \in Requests, First(q), Live(q), NEW pc \in Stages \ Done,
         pc # "new", Goto(q, pc),
         registered # None,
         UNCHANGED <<stored, registered, runtime, booting, tail, escaped, undone>>,
         MigrationConsistent(q)', Quiet(q)' => Quiet(q)
  PROVE  IInv'
<1>1. Types /\ SessionOfRecord /\ ClientsConsistent /\ ProcessConsistent
  BY DEF IInv
<1>2. Others(q) /\ req'[q].pc = pc /\ req'[q].cur = req[q].cur
      /\ req' \in [Requests -> Request]
  BY <1>1, WentTo
<1>3. Types'
  BY <1>1, <1>2 DEF Types, stored
<1>4. Live(q)'
  BY <1>2 DEF Live
<1>5. SessionOfRecord'
  BY <1>1 DEF SessionOfRecord, stored
<1>6. booting = None /\ None \notin Runtimes
  BY <1>1, MigrationAssumption DEF Types, ProcessConsistent, None
<1>7. ~escaped' => /\ \A r \in Runtimes : Alive(r)' => r = registered'
                   /\ Quiet(q)' => \A r \in Runtimes : ~Alive(r)'
  BY <1>1, <1>6 DEF ClientsConsistent, Alive
<1> QED
  BY <1>2, <1>3, <1>4, <1>5, <1>7, FirstMoves

LEMMA EnterIInv == ASSUME IInv, NEW q \in Requests, Enter(q) PROVE IInv'
<1>1. Types /\ ProcessConsistent /\ At(q, "queued") /\ Goto(q, "locked")
      /\ MigrationConsistent(q)
  BY DEF Enter, IInv
<1>2. Live(q) /\ First(q) /\ registered # None
  BY <1>1 DEF Enter, First, Live, At, Done, ProcessConsistent
<1>3. req'[q].pc = "locked" /\ req'[q].made = req[q].made
  BY <1>1, WentTo DEF Stages
<1>4. MigrationConsistent(q)'
  BY <1>1, <1>3 DEF MigrationConsistent, Moving, At
<1>5. ~Quiet(q)'
  BY <1>3 DEF Quiet
<1> QED
  BY <1>1, <1>2, <1>4, <1>5, OnlyMoves DEF Enter, Stages, Done

LEMMA PrepareIInv == ASSUME IInv, NEW q \in Requests, Prepare(q) PROVE IInv'
<1> DEFINE r == req[q].cur
           stays == runtime[r].provider = "zapo" /\ runtime[r].client # "none"
<1>1. At(q, "locked") /\ Goto(q, "waiting")
      /\ UNCHANGED <<stored, registered, booting, tail, mishaps, undone>>
  BY DEF Prepare
<1>2. Live(q) /\ ~At(q, "queued")
  BY <1>1 DEF Live, At, Done
<1>3. /\ First(q) /\ Types /\ SessionOfRecord /\ MigrationConsistent(q)
      /\ registered \in Runtimes /\ r \in Runtimes /\ booting = None
      /\ ~escaped => \A s \in Runtimes : Alive(s) => s = registered
  BY <1>2, AtWork
<1>4. /\ Others(q) /\ req' \in [Requests -> Request] /\ req'[q].pc = "waiting"
      /\ req'[q].cur = req[q].cur /\ req'[q].made = req[q].made
  BY <1>1, <1>3, WentTo DEF Stages
<1>5. /\ runtime' = IF stays THEN runtime ELSE [runtime EXCEPT ![r].client = "creating"]
      /\ escaped' = (escaped \/ (~stays /\ (r # registered \/ Escapes(r))))
  BY DEF Prepare
<1>6. /\ runtime' \in [Runtimes -> [provider : Providers, client : Clients]]
      /\ \A s \in Runtimes : s # r \/ stays => runtime'[s] = runtime[s]
  BY <1>3, <1>5 DEF Types, Clients
<1>7. Types'
  BY <1>1, <1>3, <1>4, <1>5, <1>6 DEF Types, stored
<1>8. ~escaped' => \A s \in Runtimes : Alive(s)' => s = registered'
  BY <1>1, <1>3, <1>5, <1>6 DEF Alive
<1>9. Live(q)' /\ ~Quiet(q)' /\ MigrationConsistent(q)'
  BY <1>4 DEF Live, Quiet, MigrationConsistent, Moving, Done
<1>10. SessionOfRecord' /\ registered' # None
  BY <1>1, <1>3, MigrationAssumption DEF SessionOfRecord, stored, None
<1> QED
  BY <1>1, <1>3, <1>4, <1>7, <1>8, <1>9, <1>10, FirstMoves

\* The request ends and nothing else changes.
LEMMA OnlyEnds ==
  ASSUME IInv, NEW q \in Requests, Live(q), ~At(q, "queued"), NEW pc \in Done,
         End(q, pc),
         UNCHANGED <<stored, registered, runtime, booting, escaped, undone>>
  PROVE  IInv'
<1>1. /\ First(q) /\ Types /\ SessionOfRecord
      /\ registered \in Runtimes
      /\ ~escaped => \A r \in Runtimes : Alive(r) => r = registered
  BY AtWork
<1>2. /\ Others(q) /\ req' \in [Requests -> Request]
      /\ ~Live(q)' /\ ~Quiet(q)' /\ MigrationConsistent(q)'
      /\ tail' = IF tail = q THEN Nobody ELSE tail
      /\ tail' \in Requests \cup {Nobody}
  BY <1>1, Ended
<1>3. Types' /\ SessionOfRecord' /\ registered' # None
  BY <1>1, <1>2, MigrationAssumption DEF Types, SessionOfRecord, stored, None
<1>4. ~escaped' => \A r \in Runtimes : Alive(r)' => r = registered'
  BY <1>1 DEF Alive
<1> QED
  BY <1>1, <1>2, <1>3, <1>4, FirstMoves

LEMMA AnswerIInv == ASSUME IInv, NEW q \in Requests, Answer(q) PROVE IInv'
<1>1. Live(q) /\ ~At(q, "queued")
  BY DEF Answer, Live, At, Done
<1> QED
  BY <1>1, OnlyEnds DEF Answer, Done

LEMMA DeclineIInv == ASSUME IInv, NEW q \in Requests, Decline(q) PROVE IInv'
<1>1. Live(q) /\ ~At(q, "queued")
  BY DEF Decline, Live, At, Done
<1>2. PICK pc \in Done : End(q, pc)
  BY DEF Decline, Done
<1> QED
  BY <1>1, <1>2, OnlyEnds DEF Decline

LEMMA PreflightIInv == ASSUME IInv, NEW q \in Requests, Preflight(q) PROVE IInv'
<1>1. Live(q) /\ ~At(q, "queued") /\ At(q, "locked")
  BY DEF Preflight, Live, At, Done
<1>2. /\ First(q) /\ Types /\ SessionOfRecord /\ MigrationConsistent(q)
      /\ registered \in Runtimes /\ booting = None
      /\ ~escaped => \A r \in Runtimes : Alive(r) => r = registered
  BY <1>1, AtWork
<1> DEFINE keep == runtime[req[q].cur].client \in {"connecting", "open"}
           row == [req[q] EXCEPT !.pc = "stopping", !.source = integration,
                      !.keep = keep, !.backup = snapshot[req[q].target]]
<1>3. req[q] \in Request /\ integration \in Providers
      /\ snapshot[req[q].target] \in Sessions /\ keep \in BOOLEAN
  BY <1>2 DEF Types, Request
<1> HIDE DEF keep
<1>4. /\ row \in Request /\ row.pc = "stopping" /\ row.source = integration
      /\ row.target = req[q].target /\ row.made = req[q].made /\ row.cur = req[q].cur
  BY <1>3 DEF Request, Stages, Moving
<1>5. req' = [req EXCEPT ![q] = row]
  BY <1>3 DEF Preflight, Request, keep
<1> HIDE DEF row
<1>6. Others(q) /\ req'[q] = row /\ req' \in [Requests -> Request]
  BY <1>2, <1>4, <1>5, RequestChanged
<1>7. MigrationConsistent(q)' /\ ~Quiet(q)' /\ Live(q)'
  BY <1>1, <1>2, <1>4, <1>6
  DEF MigrationConsistent, Quiet, Live, Moving, Done, At, Preflight, stored
<1>8. Types' /\ SessionOfRecord' /\ registered' # None
  BY <1>2, <1>6, MigrationAssumption DEF Preflight, Types, SessionOfRecord, stored, None
<1>9. ~escaped' => \A r \in Runtimes : Alive(r)' => r = registered'
  BY <1>2 DEF Preflight, Alive
<1> QED
  BY <1>2, <1>4, <1>6, <1>7, <1>8, <1>9, FirstMoves DEF Preflight

LEMMA StopSourceIInv == ASSUME IInv, NEW q \in Requests, StopSource(q) PROVE IInv'
<1> PICK r : r = req[q].cur
  OBVIOUS
<1>1. /\ At(q, "stopping") /\ Close(r)
      /\ escaped' = (escaped \/ Escapes(r) \/ r # registered)
      /\ UNCHANGED <<stored, registered, booting, tail, undone>>
  BY DEF StopSource
<1>2. Live(q) /\ ~At(q, "queued")
  BY <1>1 DEF Live, At, Done
<1>3. /\ First(q) /\ Types /\ SessionOfRecord /\ MigrationConsistent(q)
      /\ registered \in Runtimes /\ r \in Runtimes /\ booting = None
      /\ ~escaped => \A s \in Runtimes : Alive(s) => s = registered
  BY <1>2, AtWork
<1>4. PICK pc \in {"cutover", "undo"} : Goto(q, pc)
  BY DEF StopSource
<1>5. /\ Others(q) /\ req' \in [Requests -> Request] /\ req'[q].pc = pc
      /\ req'[q].cur = req[q].cur /\ req'[q].made = req[q].made
      /\ req'[q].source = req[q].source /\ req'[q].target = req[q].target
  BY <1>3, <1>4, WentTo DEF Stages, Moving
<1>6. /\ runtime' \in [Runtimes -> [provider : Providers, client : Clients]]
      /\ \A s \in Runtimes : Alive(s)' => Alive(s)
      /\ ~Escapes(r) => ~Alive(r)'
  BY <1>1, <1>3, Closes, MigrationAssumption DEF None
<1>7. Types' /\ SessionOfRecord' /\ registered' # None
  BY <1>1, <1>3, <1>5, <1>6, MigrationAssumption
  DEF Types, SessionOfRecord, stored, None
<1>8. ~escaped' => \A s \in Runtimes : ~Alive(s)'
  BY <1>1, <1>3, <1>6
<1>9. Live(q)' /\ MigrationConsistent(q)'
  BY <1>1, <1>3, <1>5 DEF Live, MigrationConsistent, Moving, Done, At, stored
<1> QED
  BY <1>1, <1>3, <1>5, <1>7, <1>8, <1>9, FirstMoves

LEMMA CutoverIInv == ASSUME IInv, NEW q \in Requests, Cutover(q) PROVE IInv'
<1>1. /\ At(q, "cutover")
      /\ UNCHANGED <<integration, registered, runtime, booting, tail, escaped, undone>>
  BY DEF Cutover
<1>2. Live(q) /\ ~At(q, "queued")
  BY <1>1 DEF Live, At, Done
<1>3. /\ First(q) /\ Types /\ SessionOfRecord /\ MigrationConsistent(q)
      /\ registered \in Runtimes
      /\ ~escaped => \A s \in Runtimes : ~Alive(s)
  BY <1>1, <1>2, AtWork DEF Quiet, At
<1>4. PICK pc \in {"writing", "undo"} :
        Goto(q, pc) /\ (pc = "writing" \/ snapshot' = snapshot)
  BY DEF Cutover
<1>5. /\ Others(q) /\ req' \in [Requests -> Request] /\ req'[q].pc = pc
      /\ req'[q].cur = req[q].cur /\ req'[q].made = req[q].made
      /\ req'[q].source = req[q].source /\ req'[q].target = req[q].target
  BY <1>3, <1>4, WentTo DEF Stages, Moving
<1>6. /\ req[q].source \in Providers /\ req[q].target \in Providers
      /\ req[q].source # req[q].target /\ req[q].made = None
      /\ integration = req[q].source /\ snapshot[req[q].source] = "valid"
  BY <1>1, <1>3 DEF MigrationConsistent, Moving, At, Types, Request
<1>7. snapshot' = snapshot \/ snapshot' = [snapshot EXCEPT ![req[q].target] = "partial"]
  BY DEF Cutover
<1>8. /\ snapshot' \in [Providers -> Sessions]
      /\ snapshot'[req[q].source] = "valid"
  BY <1>3, <1>6, <1>7 DEF Types, Sessions
<1>9. Types' /\ SessionOfRecord' /\ registered' # None
  BY <1>1, <1>3, <1>5, <1>6, <1>8, MigrationAssumption DEF Types, SessionOfRecord, None
<1>10. Live(q)' /\ MigrationConsistent(q)'
  BY <1>1, <1>5, <1>6, <1>8 DEF Live, MigrationConsistent, Moving, Done
<1>11. ~escaped' => \A s \in Runtimes : ~Alive(s)'
  BY <1>1, <1>3 DEF Alive
<1> QED
  BY <1>1, <1>3, <1>5, <1>9, <1>10, <1>11, FirstMoves

\* Giving a request a runtime.
LEMMA WithRuntime ==
  ASSUME Types, NEW q \in Requests, NEW r \in Runtimes,
         req' = [req EXCEPT ![q].pc = "connecting", ![q].made = r]
  PROVE  /\ Others(q) /\ req' \in [Requests -> Request]
         /\ req'[q].pc = "connecting" /\ req'[q].made = r
         /\ req'[q].cur = req[q].cur
         /\ req'[q].source = req[q].source /\ req'[q].target = req[q].target
<1> DEFINE row == [req[q] EXCEPT !.pc = "connecting", !.made = r]
<1>1. req[q] \in Request
  BY DEF Types
<1>2. /\ row \in Request /\ row.pc = "connecting" /\ row.made = r
      /\ row.cur = req[q].cur /\ row.source = req[q].source
      /\ row.target = req[q].target
  BY <1>1 DEF Request, Stages, Moving
<1>3. req' = [req EXCEPT ![q] = row]
  BY <1>1 DEF Request
<1> QED
  BY <1>2, <1>3, RequestChanged

LEMMA StartTargetIInv == ASSUME IInv, NEW q \in Requests, StartTarget(q) PROVE IInv'
<1>1. /\ At(q, "writing")
      /\ UNCHANGED <<integration, booting, tail, escaped, undone>>
  BY DEF StartTarget
<1>2. Live(q) /\ ~At(q, "queued")
  BY <1>1 DEF Live, At, Done
<1>3. /\ First(q) /\ Types /\ SessionOfRecord /\ MigrationConsistent(q)
      /\ registered \in Runtimes /\ booting = None
      /\ ~escaped => \A s \in Runtimes : ~Alive(s)
  BY <1>1, <1>2, AtWork DEF Quiet, At
<1>4. /\ req[q].source \in Providers /\ req[q].target \in Providers
      /\ req[q].source # req[q].target /\ req[q].made = None
      /\ integration = req[q].source /\ snapshot[req[q].source] = "valid"
  BY <1>1, <1>3 DEF MigrationConsistent, Moving, At, Types, Request
<1>5. CASE Goto(q, "undo") /\ UNCHANGED <<snapshot, registered, runtime>>
  <2>1. MigrationConsistent(q)' /\ (Quiet(q)' => Quiet(q))
    <3>1. /\ req'[q].pc = "undo" /\ req'[q].made = req[q].made
          /\ req'[q].source = req[q].source /\ req'[q].target = req[q].target
      BY <1>3, <1>5, WentTo DEF Stages, Moving
    <3> QED
      BY <1>1, <1>4, <1>5, <3>1 DEF MigrationConsistent, Moving, Quiet, At
  <2> QED
    BY <1>1, <1>2, <1>3, <1>5, <2>1, OnlyMoves, MigrationAssumption
    DEF stored, Stages, Moving, Done, None
<1>6. ASSUME NEW r \in Runtimes,
             snapshot' = [snapshot EXCEPT ![req[q].target] = "valid"],
             Make(r, req[q].target, "creating"), registered' = r,
             req' = [req EXCEPT ![q].pc = "connecting", ![q].made = r]
      PROVE  IInv'
  <2>1. /\ runtime' \in [Runtimes -> [provider : Providers, client : Clients]]
        /\ runtime'[r].provider = req[q].target
        /\ \A s \in Runtimes : s # r => runtime'[s] = runtime[s]
        /\ r # None
    BY <1>3, <1>4, <1>6, Makes DEF Clients
  <2>2. /\ Others(q) /\ req' \in [Requests -> Request]
        /\ req'[q].pc = "connecting" /\ req'[q].made = r
        /\ req'[q].cur = req[q].cur
        /\ req'[q].source = req[q].source /\ req'[q].target = req[q].target
    BY <1>3, <1>6, WithRuntime
  <2>3. /\ snapshot' \in [Providers -> Sessions]
        /\ snapshot'[req[q].target] = "valid" /\ snapshot'[req[q].source] = "valid"
    BY <1>3, <1>4, <1>6 DEF Types, Sessions
  <2>4. Types' /\ SessionOfRecord'
    BY <1>1, <1>3, <1>4, <1>6, <2>1, <2>2, <2>3 DEF Types, SessionOfRecord
  <2>5. Live(q)' /\ ~Quiet(q)' /\ MigrationConsistent(q)'
    BY <1>1, <1>4, <1>6, <2>1, <2>2, <2>3
    DEF Live, Quiet, MigrationConsistent, Moving, Done
  <2>6. ~escaped' => \A s \in Runtimes : Alive(s)' => s = registered'
    BY <1>1, <1>3, <1>6, <2>1 DEF Alive
  <2> QED
    BY <1>1, <1>3, <1>6, <2>1, <2>2, <2>4, <2>5, <2>6, FirstMoves
<1> QED
  BY <1>5, <1>6 DEF StartTarget

LEMMA ConnectTargetIInv ==
  ASSUME IInv, NEW q \in Requests, ConnectTarget(q) PROVE IInv'
<1>1. /\ At(q, "connecting")
      /\ UNCHANGED <<stored, registered, booting, tail, escaped, undone>>
  BY DEF ConnectTarget
<1>2. Live(q) /\ ~At(q, "queued")
  BY <1>1 DEF Live, At, Done
<1>3. /\ First(q) /\ Types /\ SessionOfRecord /\ MigrationConsistent(q)
      /\ registered \in Runtimes
      /\ ~escaped => \A s \in Runtimes : Alive(s) => s = registered
  BY <1>2, AtWork
<1>4. PICK pc \in {"validating", "undo"} : Goto(q, pc)
  BY DEF ConnectTarget
<1>5. /\ Others(q) /\ req' \in [Requests -> Request] /\ req'[q].pc = pc
      /\ req'[q].cur = req[q].cur /\ req'[q].made = req[q].made
      /\ req'[q].source = req[q].source /\ req'[q].target = req[q].target
  BY <1>3, <1>4, WentTo DEF Stages, Moving
<1>6. /\ req[q].made \in Runtimes /\ req[q].made = registered
      /\ runtime[registered].provider = req[q].target
  BY <1>1, <1>3 DEF MigrationConsistent, At, Types, Request
<1>7. \/ runtime' = runtime
      \/ runtime' = [runtime EXCEPT ![req[q].made].client = "none"]
  BY DEF ConnectTarget
<1>8. /\ runtime' \in [Runtimes -> [provider : Providers, client : Clients]]
      /\ \A s \in Runtimes : s # registered => runtime'[s] = runtime[s]
      /\ runtime'[registered].provider = req[q].target
  BY <1>3, <1>6, <1>7 DEF Types, Clients
<1>9. Types' /\ SessionOfRecord' /\ registered' # None
  BY <1>1, <1>3, <1>5, <1>8, MigrationAssumption
  DEF Types, SessionOfRecord, stored, None
<1>10. Live(q)' /\ ~Quiet(q)' /\ MigrationConsistent(q)'
  BY <1>1, <1>3, <1>5, <1>6, <1>8, MigrationAssumption
  DEF Live, Quiet, MigrationConsistent, Moving, Done, At, stored, None
<1>11. ~escaped' => \A s \in Runtimes : Alive(s)' => s = registered'
  BY <1>1, <1>3, <1>8 DEF Alive
<1> QED
  BY <1>1, <1>3, <1>5, <1>9, <1>10, <1>11, FirstMoves

LEMMA AcceptIInv == ASSUME IInv, NEW q \in Requests, Accept(q) PROVE IInv'
<1>1. /\ At(q, "validating")
      /\ UNCHANGED <<snapshot, registered, runtime, booting, tail, escaped>>
  BY DEF Accept
<1>2. Live(q) /\ ~At(q, "queued")
  BY <1>1 DEF Live, At, Done
<1>3. /\ First(q) /\ Types /\ SessionOfRecord /\ MigrationConsistent(q)
      /\ registered \in Runtimes
      /\ ~escaped => \A s \in Runtimes : Alive(s) => s = registered
  BY <1>2, AtWork
<1>4. /\ req[q].target \in Providers /\ req[q].made # None
      /\ snapshot[req[q].target] = "valid"
  BY <1>1, <1>3 DEF MigrationConsistent, At, Types, Request
<1>5. PICK pc \in {"accepted", "undo"} :
        /\ Goto(q, pc)
        /\ \/ integration' = req[q].target /\ undone' = (undone \/ pc = "undo")
           \/ pc = "undo" /\ UNCHANGED <<integration, undone>>
  <2>1. undone \in BOOLEAN
    BY <1>3 DEF Types
  <2> QED
    BY <2>1 DEF Accept
<1>6. /\ Others(q) /\ req' \in [Requests -> Request] /\ req'[q].pc = pc
      /\ req'[q].cur = req[q].cur /\ req'[q].made = req[q].made
      /\ req'[q].source = req[q].source /\ req'[q].target = req[q].target
  BY <1>3, <1>5, WentTo DEF Stages, Moving
<1>7. Types' /\ SessionOfRecord' /\ registered' # None
  <2>1. integration' \in Providers /\ undone' \in BOOLEAN
    BY <1>3, <1>4, <1>5 DEF Types
  <2>2. Types'
    BY <1>1, <1>3, <1>6, <2>1 DEF Types
  <2>3. SessionOfRecord'
    BY <1>1, <1>3, <1>4, <1>5 DEF SessionOfRecord
  <2> QED
    BY <1>1, <1>3, <2>2, <2>3, MigrationAssumption DEF None
<1>8. Live(q)' /\ ~Quiet(q)' /\ MigrationConsistent(q)'
  BY <1>1, <1>3, <1>4, <1>5, <1>6
  DEF Live, Quiet, MigrationConsistent, Moving, Done, At
<1>9. ~escaped' => \A s \in Runtimes : Alive(s)' => s = registered'
  BY <1>1, <1>3 DEF Alive
<1> QED
  BY <1>1, <1>3, <1>6, <1>7, <1>8, <1>9, FirstMoves

LEMMA RejectIInv == ASSUME IInv, NEW q \in Requests, Reject(q) PROVE IInv'
<1>1. Live(q) /\ ~At(q, "queued") /\ At(q, "validating")
  BY DEF Reject, Live, At, Done
<1>2. First(q) /\ Types /\ MigrationConsistent(q) /\ registered \in Runtimes
  BY <1>1, AtWork
<1>3. /\ req'[q].pc = "undo" /\ req'[q].made = req[q].made
      /\ req'[q].source = req[q].source /\ req'[q].target = req[q].target
  BY <1>2, WentTo DEF Reject, Stages, Moving
<1>4. MigrationConsistent(q)' /\ ~Quiet(q)'
  BY <1>1, <1>2, <1>3 DEF Reject, MigrationConsistent, Moving, Quiet, At, stored
<1> QED
  BY <1>1, <1>2, <1>4, OnlyMoves, MigrationAssumption
  DEF Reject, Stages, Moving, Done, None

LEMMA FinishIInv == ASSUME IInv, NEW q \in Requests, Finish(q) PROVE IInv'
<1>1. At(q, "accepted") /\ UNCHANGED <<stored, registered, booting>>
  BY DEF Finish
<1>2. Live(q) /\ ~At(q, "queued")
  BY <1>1 DEF Live, At, Done
<1>3. /\ First(q) /\ Types /\ SessionOfRecord /\ MigrationConsistent(q)
      /\ registered \in Runtimes
      /\ ~escaped => \A s \in Runtimes : Alive(s) => s = registered
  BY <1>2, AtWork
<1>4. /\ req[q].made \in Runtimes /\ req[q].made = registered
      /\ runtime[req[q].made].provider = req[q].target
      /\ req[q].source # req[q].target
      /\ snapshot[req[q].source] = "valid" /\ snapshot[req[q].target] = "valid"
  BY <1>1, <1>3 DEF MigrationConsistent, At, Moving, Types, Request
<1>5. /\ runtime' \in [Runtimes -> [provider : Providers, client : Clients]]
      /\ \A s \in Runtimes : /\ runtime'[s].provider = runtime[s].provider
                             /\ Alive(s)' => Alive(s)
      /\ escaped => escaped'
      /\ escaped' \in BOOLEAN
  <2>1. CASE req[q].keep
    BY <1>3, <2>1 DEF Finish, Types, Alive
  <2>2. CASE ~req[q].keep
    BY <1>3, <1>4, <2>2, Closes DEF Finish, Types, Escapes
  <2> QED
    BY <2>1, <2>2
<1>6. ~escaped' => \A s \in Runtimes : Alive(s)' => s = registered'
  BY <1>1, <1>3, <1>5
<1>7. CASE End(q, "migrated") /\ UNCHANGED undone
  <2>1. /\ Others(q) /\ req' \in [Requests -> Request]
        /\ ~Live(q)' /\ ~Quiet(q)' /\ MigrationConsistent(q)'
        /\ tail' = IF tail = q THEN Nobody ELSE tail
        /\ tail' \in Requests \cup {Nobody}
    BY <1>3, <1>7, Ended DEF Done
  <2>2. Types' /\ SessionOfRecord' /\ registered' # None
    BY <1>1, <1>3, <1>5, <1>7, <2>1, MigrationAssumption
    DEF Types, SessionOfRecord, stored, None
  <2> QED
    BY <1>1, <1>3, <1>6, <2>1, <2>2, FirstMoves
<1>8. CASE undone' = TRUE /\ Goto(q, "undo") /\ UNCHANGED tail
  <2>1. /\ Others(q) /\ req' \in [Requests -> Request] /\ req'[q].pc = "undo"
        /\ req'[q].cur = req[q].cur /\ req'[q].made = req[q].made
        /\ req'[q].source = req[q].source /\ req'[q].target = req[q].target
    BY <1>3, <1>8, WentTo DEF Stages, Moving
  <2>2. Types' /\ SessionOfRecord' /\ registered' # None
    BY <1>1, <1>3, <1>5, <1>8, <2>1, MigrationAssumption
    DEF Types, SessionOfRecord, stored, None
  <2>3. Live(q)' /\ ~Quiet(q)' /\ MigrationConsistent(q)'
    BY <1>1, <1>4, <1>5, <1>8, <2>1, MigrationAssumption
    DEF Live, Quiet, MigrationConsistent, Moving, Done, stored, None
  <2> QED
    BY <1>1, <1>3, <1>6, <1>8, <2>1, <2>2, <2>3, FirstMoves
<1> QED
  BY <1>7, <1>8 DEF Finish

LEMMA StopTargetIInv == ASSUME IInv, NEW q \in Requests, StopTarget(q) PROVE IInv'
<1> PICK r : r = req[q].made
  OBVIOUS
<1>1. /\ At(q, "undo") /\ Close(r) /\ Goto(q, "restoring")
      /\ escaped' = (escaped \/ Escapes(r))
      /\ UNCHANGED <<stored, registered, booting, tail, undone>>
  BY DEF StopTarget
<1>2. Live(q) /\ ~At(q, "queued")
  BY <1>1 DEF Live, At, Done
<1>3. /\ First(q) /\ Types /\ SessionOfRecord /\ MigrationConsistent(q)
      /\ registered \in Runtimes
      /\ ~escaped => /\ \A s \in Runtimes : Alive(s) => s = registered
                     /\ Quiet(q) => \A s \in Runtimes : ~Alive(s)
  BY <1>2, AtWork
<1>4. /\ Others(q) /\ req' \in [Requests -> Request] /\ req'[q].pc = "restoring"
      /\ req'[q].cur = req[q].cur /\ req'[q].made = req[q].made
      /\ req'[q].source = req[q].source /\ req'[q].target = req[q].target
  BY <1>1, <1>3, WentTo DEF Stages, Moving
<1>5. /\ r \in Runtimes \cup {None} /\ (r = None => Quiet(q))
      /\ r # None => r = registered
  BY <1>1, <1>3 DEF Types, Request, Quiet, At, MigrationConsistent
<1>6. /\ runtime' \in [Runtimes -> [provider : Providers, client : Clients]]
      /\ \A s \in Runtimes : Alive(s)' => Alive(s)
      /\ r # None /\ ~Escapes(r) => ~Alive(r)'
  BY <1>1, <1>3, <1>5, Closes
<1>7. Types' /\ SessionOfRecord' /\ registered' # None
  BY <1>1, <1>3, <1>4, <1>6, MigrationAssumption
  DEF Types, SessionOfRecord, stored, None, Escapes
<1>8. ~escaped' => \A s \in Runtimes : ~Alive(s)'
  BY <1>1, <1>3, <1>5, <1>6
<1>9. Live(q)' /\ MigrationConsistent(q)'
  BY <1>1, <1>3, <1>4 DEF Live, MigrationConsistent, Moving, Done, At, stored
<1> QED
  BY <1>1, <1>3, <1>4, <1>7, <1>8, <1>9, FirstMoves

LEMMA RestoreTargetIInv ==
  ASSUME IInv, NEW q \in Requests, RestoreTarget(q) PROVE IInv'
<1>1. /\ At(q, "restoring") /\ Goto(q, "restored")
      /\ UNCHANGED <<integration, registered, runtime, booting, tail, escaped, undone>>
  BY DEF RestoreTarget
<1>2. Live(q) /\ ~At(q, "queued")
  BY <1>1 DEF Live, At, Done
<1>3. /\ First(q) /\ Types /\ SessionOfRecord /\ MigrationConsistent(q)
      /\ registered \in Runtimes
      /\ ~escaped => \A s \in Runtimes : ~Alive(s)
  BY <1>1, <1>2, AtWork DEF Quiet, At
<1>4. /\ Others(q) /\ req' \in [Requests -> Request] /\ req'[q].pc = "restored"
      /\ req'[q].cur = req[q].cur /\ req'[q].made = req[q].made
      /\ req'[q].source = req[q].source /\ req'[q].target = req[q].target
  BY <1>1, <1>3, WentTo DEF Stages, Moving
<1>5. /\ req[q].source \in Providers /\ req[q].target \in Providers
      /\ req[q].backup \in Sessions
      /\ req[q].source # req[q].target /\ snapshot[req[q].source] = "valid"
      /\ undone \/ integration = req[q].source
  BY <1>1, <1>3 DEF MigrationConsistent, Moving, At, Types, Request
<1>6. PICK v \in Sessions : snapshot' = [snapshot EXCEPT ![req[q].target] = v]
  BY <1>5 DEF RestoreTarget, Sessions
<1>7. snapshot' \in [Providers -> Sessions] /\ snapshot'[req[q].source] = "valid"
  BY <1>3, <1>5, <1>6 DEF Types
<1>8. Types' /\ SessionOfRecord' /\ registered' # None
  BY <1>1, <1>3, <1>4, <1>5, <1>7, MigrationAssumption DEF Types, SessionOfRecord, None
<1>9. Live(q)' /\ MigrationConsistent(q)'
  BY <1>1, <1>4, <1>5, <1>7 DEF Live, MigrationConsistent, Moving, Done
<1>10. ~escaped' => \A s \in Runtimes : ~Alive(s)'
  BY <1>1, <1>3 DEF Alive
<1> QED
  BY <1>1, <1>3, <1>4, <1>8, <1>9, <1>10, FirstMoves

LEMMA RestoreSourceIInv ==
  ASSUME IInv, NEW q \in Requests, RestoreSource(q) PROVE IInv'
<1>1. /\ At(q, "restored") /\ integration' = req[q].source
      /\ UNCHANGED <<snapshot, booting, escaped, undone>>
  BY DEF RestoreSource
<1>2. Live(q) /\ ~At(q, "queued")
  BY <1>1 DEF Live, At, Done
<1>3. /\ First(q) /\ Types /\ SessionOfRecord /\ MigrationConsistent(q)
      /\ registered \in Runtimes
      /\ ~escaped => \A s \in Runtimes : ~Alive(s)
  BY <1>1, <1>2, AtWork DEF Quiet, At
<1>4. /\ req[q].source \in Providers /\ req[q].source # req[q].target
      /\ snapshot[req[q].source] = "valid"
  BY <1>1, <1>3 DEF MigrationConsistent, Moving, At, Types, Request
<1>5. PICK r \in Runtimes, c \in Clients :
        Make(r, req[q].source, c) /\ registered' = r
  BY DEF RestoreSource, Clients
<1>6. /\ runtime' \in [Runtimes -> [provider : Providers, client : Clients]]
      /\ \A s \in Runtimes : s # r => runtime'[s] = runtime[s]
      /\ r # None
  BY <1>3, <1>4, <1>5, Makes
<1>7. ~escaped' => \A s \in Runtimes : Alive(s)' => s = registered'
  BY <1>1, <1>3, <1>5, <1>6 DEF Alive
<1>8. /\ Others(q) /\ req' \in [Requests -> Request]
      /\ req'[q].cur = req[q].cur \/ ~Live(q)'
      /\ ~Quiet(q)' /\ MigrationConsistent(q)'
      /\ \/ Live(q)' /\ tail' = tail
         \/ ~Live(q)' /\ tail' = IF tail = q THEN Nobody ELSE tail
      /\ tail' \in Requests \cup {Nobody}
  <2>1. CASE Goto(q, "reconnecting") /\ UNCHANGED tail
    <3>1. /\ Others(q) /\ req' \in [Requests -> Request]
          /\ req'[q].pc = "reconnecting" /\ req'[q].cur = req[q].cur
          /\ req'[q].source = req[q].source /\ req'[q].target = req[q].target
      BY <1>3, <2>1, WentTo DEF Stages, Moving
    <3>2. Live(q)' /\ ~Quiet(q)' /\ MigrationConsistent(q)'
      BY <1>1, <1>4, <3>1 DEF Live, Quiet, MigrationConsistent, Moving, Done
    <3> QED
      BY <1>3, <2>1, <3>1, <3>2 DEF Types
  <2>2. CASE End(q, "failed")
    BY <1>3, <2>2, Ended DEF Done
  <2> QED
    BY <2>1, <2>2 DEF RestoreSource
<1>9. Types' /\ SessionOfRecord' /\ registered' # None
  BY <1>1, <1>3, <1>4, <1>5, <1>6, <1>8 DEF Types, SessionOfRecord
<1> QED
  BY <1>1, <1>3, <1>7, <1>8, <1>9, FirstMoves

LEMMA RestoreFailsIInv ==
  ASSUME IInv, NEW q \in Requests, RestoreFails(q) PROVE IInv'
<1>1. /\ At(q, "restored") /\ End(q, "failed")
      /\ integration' \in {integration, req[q].source}
      /\ UNCHANGED <<snapshot, registered, runtime, booting, escaped, undone>>
  BY DEF RestoreFails
<1>2. Live(q) /\ ~At(q, "queued")
  BY <1>1 DEF Live, At, Done
<1>3. /\ First(q) /\ Types /\ SessionOfRecord /\ MigrationConsistent(q)
      /\ registered \in Runtimes
      /\ ~escaped => \A r \in Runtimes : Alive(r) => r = registered
  BY <1>2, AtWork
<1>4. /\ Others(q) /\ req' \in [Requests -> Request]
      /\ ~Live(q)' /\ ~Quiet(q)' /\ MigrationConsistent(q)'
      /\ tail' = IF tail = q THEN Nobody ELSE tail
      /\ tail' \in Requests \cup {Nobody}
  BY <1>1, <1>3, Ended DEF Done
<1>5. req[q].source \in Providers /\ snapshot[req[q].source] = "valid"
  BY <1>1, <1>3 DEF MigrationConsistent, Moving, At, Types, Request
<1>6. Types' /\ SessionOfRecord' /\ registered' # None
  BY <1>1, <1>3, <1>4, <1>5, MigrationAssumption DEF Types, SessionOfRecord, None
<1>7. ~escaped' => \A r \in Runtimes : Alive(r)' => r = registered'
  BY <1>1, <1>3 DEF Alive
<1> QED
  BY <1>1, <1>3, <1>4, <1>6, <1>7, FirstMoves

LEMMA EndRollbackIInv ==
  ASSUME IInv, NEW q \in Requests, EndRollback(q) PROVE IInv'
<1>1. Live(q) /\ ~At(q, "queued")
  BY DEF EndRollback, Live, At, Done
<1> QED
  BY <1>1, OnlyEnds DEF EndRollback, Done

LEMMA HangIInv == ASSUME IInv, NEW q \in Requests, Hang(q) PROVE IInv'
<1>1. Live(q) /\ ~At(q, "queued") /\ Goto(q, "hung")
  BY DEF Hang, Inside, Live, At
<1>2. First(q) /\ Types /\ registered \in Runtimes
  BY <1>1, AtWork
<1>3. req'[q].pc = "hung"
  BY <1>1, <1>2, WentTo DEF Stages
<1>4. MigrationConsistent(q)' /\ ~Quiet(q)'
  BY <1>3 DEF MigrationConsistent, Moving, Quiet
<1> QED
  BY <1>1, <1>2, <1>4, OnlyMoves, MigrationAssumption DEF Hang, Stages, Done, None

LEMMA ArriveIInv ==
  ASSUME IInv, NEW q \in Requests, NEW p \in Providers, Arrive(q, p)
  PROVE  IInv'
<1> DEFINE row == [req[q] EXCEPT !.pc = "queued", !.cur = registered,
                                 !.target = p, !.waits = tail]
<1>1. /\ Types /\ LockInOrder /\ ProcessConsistent /\ SessionOfRecord
      /\ ClientsConsistent /\ \A x \in Requests : MigrationConsistent(x)
  BY DEF IInv
<1>2. /\ At(q, "new") /\ registered # None /\ tail' = q
      /\ UNCHANGED <<stored, registered, runtime, booting, mishaps, escaped, undone>>
  BY DEF Arrive
<1>3. /\ req[q] \in Request /\ tail \in Requests \cup {Nobody}
      /\ registered \in Runtimes
  BY <1>1, <1>2 DEF Types
<1>4. /\ row \in Request /\ row.pc = "queued" /\ row.waits = tail
      /\ row.cur = registered /\ row.made = req[q].made
  BY <1>3 DEF Request, Stages
<1>5. req' = [req EXCEPT ![q] = row]
  BY <1>3 DEF Arrive, Request
<1> HIDE DEF row
<1>6. Others(q) /\ req'[q] = row /\ req' \in [Requests -> Request]
  BY <1>1, <1>4, <1>5, RequestChanged
<1>7. Types' /\ SessionOfRecord'
  BY <1>1, <1>2, <1>6 DEF Types, SessionOfRecord, stored
<1>8. LockInOrder'
  BY <1>1, <1>2, <1>4, <1>6, LineGrows
<1>9. ProcessConsistent'
  BY <1>1, <1>2, <1>3, <1>4, <1>6 DEF ProcessConsistent, Live, Others
<1>10. \A x \in Requests : MigrationConsistent(x)' /\ (Quiet(x)' => Quiet(x))
  <2> SUFFICES ASSUME NEW x \in Requests
               PROVE  MigrationConsistent(x)' /\ (Quiet(x)' => Quiet(x))
    OBVIOUS
  <2>1. CASE x = q
    BY <1>1, <1>2, <1>4, <1>6, <2>1 DEF MigrationConsistent, Quiet, Moving, At
  <2>2. CASE x # q
    BY <1>1, <1>2, <1>6, <2>2 DEF MigrationConsistent, Quiet, Others, stored
  <2> QED
    BY <2>1, <2>2
<1>11. ClientsConsistent'
  BY <1>1, <1>2, <1>10 DEF ClientsConsistent, Alive
<1> QED
  BY <1>7, <1>8, <1>9, <1>10, <1>11 DEF IInv

LEMMA AskIInv ==
  ASSUME IInv, NEW q \in Requests, AskMigration(q) \/ AskConnection(q)
  PROVE  IInv'
<1>1. PICK p \in Providers : Arrive(q, p)
  BY DEF AskMigration, AskConnection, Providers
<1> QED
  BY <1>1, ArriveIInv

\* The lock does not depend on the runtimes.
LEMMA LineUnchanged ==
  ASSUME LockInOrder, UNCHANGED <<req, tail>> PROVE LockInOrder'
<1>1. PICK n \in Nat : \E s \in [1..n -> Requests] : InLine(n, s)
  BY DEF LockInOrder
<1>2. PICK s \in [1..n -> Requests] : InLine(n, s)
  BY <1>1
<1>3. InLine(n, s)'
  BY <1>2 DEF InLine, Live, At
<1> QED
  BY <1>3 DEF LockInOrder

LEMMA EnvironmentIInv ==
  ASSUME IInv, NEW r \in Runtimes, Environment(r) PROVE IInv'
<1>1. /\ Types /\ LockInOrder /\ ProcessConsistent /\ SessionOfRecord
      /\ ClientsConsistent /\ \A x \in Requests : MigrationConsistent(x)
  BY DEF IInv
<1>2. PICK c \in {"connecting", "open", "creating", "retrying"} :
        /\ runtime' = [runtime EXCEPT ![r].client = c]
        /\ Alive(r)
        /\ UNCHANGED <<stored, registered, booting, tail, req, escaped, undone>>
  BY DEF Environment, Created, Opened, Dropped, Retried, Client, Alive
<1>3. /\ runtime' \in [Runtimes -> [provider : Providers, client : Clients]]
      /\ \A s \in Runtimes : s # r => runtime'[s] = runtime[s]
      /\ runtime'[r].provider = runtime[r].provider
  BY <1>1, <1>2 DEF Types, Clients
<1>4. Types' /\ SessionOfRecord' /\ ProcessConsistent'
  BY <1>1, <1>2, <1>3 DEF Types, SessionOfRecord, ProcessConsistent, Live, stored
<1>5. LockInOrder'
  BY <1>1, <1>2, LineUnchanged
<1>6. ASSUME NEW x \in Requests PROVE MigrationConsistent(x)' /\ (Quiet(x)' <=> Quiet(x))
  <2>1. req[x].made \in Runtimes \cup {None}
    BY <1>1 DEF Types, Request
  <2>2. req[x].made # None => runtime'[req[x].made].provider
                              = runtime[req[x].made].provider
    BY <1>3, <2>1
  <2> QED
    BY <1>1, <1>2, <2>2 DEF MigrationConsistent, Quiet, stored
<1>7. ClientsConsistent'
  BY <1>1, <1>2, <1>3, <1>6 DEF ClientsConsistent, Alive
<1> QED
  BY <1>4, <1>5, <1>6, <1>7 DEF IInv

LEMMA RestartIInv == ASSUME IInv, Restart PROVE IInv'
<1> DEFINE lost == [Blank EXCEPT !.pc = "lost"]
<1>1. Types /\ SessionOfRecord /\ \A x \in Requests : MigrationConsistent(x)
  BY DEF IInv
<1>2. lost \in Request /\ lost.pc = "lost"
  BY DEF Blank, Request, Stages, Done, Providers, Sessions
<1>3. \A x \in Requests :
        \/ req'[x] = req[x] /\ req[x].pc \in Done \cup {"new"}
        \/ req'[x] = lost
  BY DEF Restart
<1>4. /\ registered' = None /\ booting' = None /\ tail' = Nobody
      /\ runtime' = [r \in Runtimes |-> Free]
      /\ UNCHANGED <<stored, escaped, undone>>
  BY DEF Restart
<1>5. req' \in [Requests -> Request]
  BY <1>1, <1>2 DEF Restart, Types
<1> HIDE DEF lost
<1>6. Types' /\ SessionOfRecord'
  BY <1>1, <1>4, <1>5 DEF Types, SessionOfRecord, stored, Free, Providers, Clients
<1>7. ASSUME NEW x \in Requests PROVE ~Live(x)' /\ MigrationConsistent(x)'
  BY <1>1, <1>2, <1>3, <1>4 DEF Live, MigrationConsistent, Moving, Done, stored
<1>8. LockInOrder'
  BY <1>4, <1>7, LineEmpty
<1>9. ProcessConsistent' /\ ClientsConsistent'
  BY <1>4, <1>7 DEF ProcessConsistent, ClientsConsistent, Alive, Free
<1> QED
  BY <1>6, <1>7, <1>8, <1>9 DEF IInv

LEMMA BootIInv == ASSUME IInv, Boot PROVE IInv'
<1>1. /\ Types /\ LockInOrder /\ ProcessConsistent /\ SessionOfRecord
      /\ ClientsConsistent /\ \A x \in Requests : MigrationConsistent(x)
  BY DEF IInv
<1>2. PICK r \in Runtimes, c \in Clients : Make(r, integration, c) /\ booting' = r
  BY DEF Boot, Clients
<1>3. /\ registered = None /\ booting = None
      /\ UNCHANGED <<stored, registered, tail, req, mishaps, escaped, undone>>
  BY DEF Boot
<1>4. /\ runtime' \in [Runtimes -> [provider : Providers, client : Clients]]
      /\ \A s \in Runtimes : s # r => runtime'[s] = runtime[s]
      /\ r # None /\ \A x \in Requests : r # req[x].made
  BY <1>1, <1>2, Makes DEF Types
<1>5. Types' /\ SessionOfRecord' /\ ProcessConsistent'
  BY <1>1, <1>2, <1>3, <1>4
  DEF Types, SessionOfRecord, ProcessConsistent, Live, stored
<1>6. LockInOrder'
  BY <1>1, <1>3, LineUnchanged
<1>7. ASSUME NEW x \in Requests PROVE MigrationConsistent(x)' /\ ~Quiet(x)'
  <2>1. ~Live(x)
    BY <1>1, <1>3 DEF ProcessConsistent
  <2> QED
    BY <1>1, <1>3, <2>1 DEF Live, MigrationConsistent, Quiet, Moving, Done, stored
<1>8. None \notin Runtimes
  BY MigrationAssumption DEF None
<1>9. ClientsConsistent'
  BY <1>1, <1>2, <1>3, <1>4, <1>7, <1>8 DEF ClientsConsistent, Alive
<1> QED
  BY <1>5, <1>6, <1>7, <1>9 DEF IInv

LEMMA RegisterIInv == ASSUME IInv, Register PROVE IInv'
<1>1. /\ Types /\ LockInOrder /\ ProcessConsistent /\ SessionOfRecord
      /\ ClientsConsistent /\ \A x \in Requests : MigrationConsistent(x)
  BY DEF IInv
<1>2. /\ booting # None /\ registered' = booting /\ booting' = None
      /\ UNCHANGED <<stored, runtime, tail, req, mishaps, escaped, undone>>
  BY DEF Register
<1>3. registered = None /\ \A x \in Requests : ~Live(x)
  BY <1>1, <1>2 DEF ProcessConsistent
<1>4. Types' /\ SessionOfRecord' /\ ProcessConsistent'
  BY <1>1, <1>2, <1>3 DEF Types, SessionOfRecord, ProcessConsistent, Live, stored
<1>5. LockInOrder'
  BY <1>1, <1>2, LineUnchanged
<1>6. ASSUME NEW x \in Requests PROVE MigrationConsistent(x)' /\ ~Quiet(x)'
  BY <1>1, <1>2, <1>3 DEF Live, MigrationConsistent, Quiet, Moving, Done, stored
<1>7. None \notin Runtimes
  BY MigrationAssumption DEF None
<1>8. ClientsConsistent'
  BY <1>1, <1>2, <1>3, <1>6, <1>7 DEF ClientsConsistent, Alive
<1> QED
  BY <1>4, <1>5, <1>6, <1>8 DEF IInv

LEMMA HandleIInv == ASSUME IInv, NEW q \in Requests, Handle(q) PROVE IInv'
BY EnterIInv, PrepareIInv, AnswerIInv, PreflightIInv, DeclineIInv, StopSourceIInv,
   CutoverIInv, StartTargetIInv, ConnectTargetIInv, AcceptIInv, RejectIInv, FinishIInv,
   StopTargetIInv, RestoreTargetIInv, RestoreSourceIInv, RestoreFailsIInv,
   EndRollbackIInv
DEF Handle, Migrate

LEMMA NextIInv == IInv /\ [Next]_vars => IInv'
<1> SUFFICES ASSUME IInv, [Next]_vars PROVE IInv'
  OBVIOUS
<1>1. CASE \E q \in Requests : AskMigration(q) \/ AskConnection(q)
  BY <1>1, AskIInv
<1>2. CASE \E q \in Requests : Handle(q) \/ Hang(q)
  BY <1>2, HandleIInv, HangIInv
<1>3. CASE \E r \in Runtimes : Environment(r)
  BY <1>3, EnvironmentIInv
<1>4. CASE Restart \/ Boot \/ Register
  BY <1>4, RestartIInv, BootIInv, RegisterIInv
<1>5. CASE UNCHANGED vars
  <2>1. LockInOrder'
    BY <1>5, LineUnchanged DEF IInv, vars
  <2> QED
    BY <1>5, <2>1
    DEF IInv, vars, stored, Types, ProcessConsistent, Live, SessionOfRecord,
        MigrationConsistent, ClientsConsistent, Alive, Quiet
<1> QED
  BY <1>1, <1>2, <1>3, <1>4, <1>5 DEF Next, Requests

\* Every reachable state of the process and its requests satisfies the inductive
\* invariant.
THEOREM Invariance == Spec => []IInv
BY InitIInv, NextIInv, PTL DEF Spec
-----------------------------------------------------------------------------
(* The properties.                                                         *)

\* The stored, registered and running state has its type, and of all the requests
\* of the instance that are past the queue of the lock at most one is not finished,
\* be it hung or not: withAuthenticationLock serves them one after the other, and
\* a restart leaves no request behind.
THEOREM RequestsTakeTurns == Spec => []TypeOK
<1>1. IInv => TypeOK
  <2> SUFFICES ASSUME IInv PROVE TypeOK
    OBVIOUS
  <2>1. ASSUME NEW p \in Requests, NEW q \in Requests, Inside(p), Inside(q)
        PROVE  p = q
    <3>1. First(p)
      BY <2>1 DEF First, Live, Inside, At
    <3> QED
      BY <2>1, <3>1, Alone DEF IInv, Inside, At
  <2> QED
    BY <2>1 DEF IInv, Types, TypeOK, Sessions
<1> QED
  BY <1>1, Invariance, PTL

\* Whatever step of a migration fails, and wherever it is interrupted, one of the
\* providers keeps a complete session, and unless a migration was undone after its
\* acceptance was written it is that of the record: migrateProvider writes the
\* session of the target only while the record names the source, and the record
\* changes only when the target's session is complete.
THEOREM SessionKept == Spec => []SessionOfRecord
BY Invariance, PTL DEF IInv

\* Only the request itself moves it.
LEMMA OtherMoves ==
  ASSUME Types, NEW q \in Requests, NEW x \in Requests, x # q, Handle(x)
  PROVE  req'[q] = req[q]
<1>1. \A pc : Goto(x, pc) \/ End(x, pc) => req'[q] = req[q]
  BY DEF Goto, End, Types
<1>2. CASE Enter(x) \/ Prepare(x) \/ Answer(x)
  BY <1>1, <1>2 DEF Enter, Prepare, Answer
<1>3. CASE Preflight(x)
  BY <1>3 DEF Preflight, Types
<1>4. CASE StartTarget(x)
  BY <1>1, <1>4 DEF StartTarget, Types
<1>5. CASE Decline(x) \/ StopSource(x) \/ Cutover(x) \/ ConnectTarget(x)
           \/ Accept(x) \/ Reject(x)
  BY <1>1, <1>5 DEF Decline, StopSource, Cutover, ConnectTarget, Accept, Reject
<1>6. CASE Finish(x) \/ StopTarget(x) \/ RestoreTarget(x) \/ RestoreSource(x)
           \/ RestoreFails(x) \/ EndRollback(x)
  BY <1>1, <1>6
  DEF Finish, StopTarget, RestoreTarget, RestoreSource, RestoreFails, EndRollback
<1> QED
  BY <1>2, <1>3, <1>4, <1>5, <1>6 DEF Handle, Migrate

\* The answers of one request.
Truth(q) ==
  LET p == req[q] IN
  /\ p.pc = "accepted" /\ req'[q].pc = "migrated" =>
       /\ integration' = p.target
       /\ runtime'[registered'].provider = p.target
  /\ Inside(q) /\ p.pc # "locked" /\ req'[q].pc = "failed" =>
       undone \/ integration' = p.source

LEMMA HandleTruth ==
  ASSUME IInv, NEW q \in Migrations, Handle(q) PROVE Truth(q)
<1> q \in Requests
  BY DEF Requests
<1>1. Types /\ MigrationConsistent(q)
  BY DEF IInv
<1>2. \A pc \in Stages : Goto(q, pc) => req'[q].pc = pc
  BY <1>1, WentTo
<1>3. \A pc \in Done : End(q, pc) => req'[q].pc = pc
  BY <1>1, Ended
<1>4. CASE Enter(q)
  BY <1>2, <1>4 DEF Enter, Truth, Inside, At, Stages
<1>5. CASE Prepare(q) \/ Answer(q)
  BY <1>5, MigrationAssumption DEF Prepare, Answer
<1>6. CASE Preflight(q) \/ Decline(q)
  BY <1>6 DEF Preflight, Decline, Truth, At
<1>7. CASE StopSource(q) \/ Cutover(q) \/ ConnectTarget(q) \/ Accept(q) \/ Reject(q)
           \/ StopTarget(q) \/ RestoreTarget(q)
  <2>1. PICK pc \in Moving : Goto(q, pc)
    BY <1>7 DEF StopSource, Cutover, ConnectTarget, Accept, Reject, StopTarget, RestoreTarget, Moving
  <2> QED
    BY <1>2, <2>1 DEF Truth, Moving, Stages
<1>8. CASE StartTarget(q)
  <2>1. req'[q].pc \in {"connecting", "undo"}
    BY <1>1, <1>2, <1>8, WithRuntime DEF StartTarget, Stages, Moving
  <2> QED
    BY <2>1 DEF Truth
<1>9. CASE Finish(q)
  <2>1. /\ At(q, "accepted") /\ UNCHANGED <<stored, registered>>
        /\ req'[q].pc # "failed"
    BY <1>2, <1>3, <1>9 DEF Finish, Stages, Moving, Done
  <2>2. /\ req[q].made \in Runtimes /\ req[q].made = registered
        /\ runtime[req[q].made].provider = req[q].target
        /\ integration = req[q].target
    BY <1>1, <2>1 DEF MigrationConsistent, At, Types, Request
  <2>3. runtime'[registered].provider = runtime[registered].provider
    <3>1. CASE UNCHANGED runtime
      BY <3>1
    <3>2. CASE Close(req[q].made)
      BY <1>1, <2>2, <3>2, Closes
    <3> QED
      BY <1>9, <3>1, <3>2 DEF Finish
  <2> QED
    BY <2>1, <2>2, <2>3 DEF Truth, stored
<1>10. CASE RestoreSource(q)
  BY <1>10 DEF RestoreSource, Truth, At
<1>11. CASE RestoreFails(q) \/ EndRollback(q)
  BY <1>1, <1>11 DEF RestoreFails, EndRollback, Truth, At, MigrationConsistent, stored
<1> QED
  BY <1>4, <1>5, <1>6, <1>7, <1>8, <1>9, <1>10, <1>11 DEF Handle, Migrate

\* The answer to a request of a migration is the truth about the record and the
\* registry: migrated means that both are the target's, failed that the record
\* still is what it was, unless an accepted migration had to be undone.
THEOREM TruthfulAnswers == Spec => AnswersAreTrue
<1>1. IInv /\ [Next]_vars => [\A q \in Migrations : Truth(q)]_vars
  <2> SUFFICES ASSUME IInv, Next, NEW q \in Migrations PROVE Truth(q)
    OBVIOUS
  <2>1. q \in Requests /\ Types
    BY DEF Requests, IInv
  <2>2. CASE req'[q] = req[q]
    BY <2>2 DEF Truth, Inside, At, Done
  <2>3. CASE \E x \in Requests : AskMigration(x) \/ AskConnection(x)
    <3>1. PICK x \in Requests, p \in Providers : Arrive(x, p)
      BY <2>3 DEF AskMigration, AskConnection, Providers
    <3>2. x # q => req'[q] = req[q]
      BY <2>1, <3>1 DEF Arrive, Types
    <3>3. x = q => ~Inside(q) /\ req[q].pc # "accepted"
      BY <3>1 DEF Arrive, At, Inside
    <3> QED
      BY <2>2, <3>2, <3>3 DEF Truth
  <2>8. CASE \E x \in Requests : Hang(x)
    <3>1. PICK x \in Requests : Goto(x, "hung")
      BY <2>8 DEF Hang
    <3>2. req'[q] = req[q] \/ req'[q].pc = "hung"
      <4>1. CASE x = q
        BY <2>1, <3>1, <4>1, WentTo DEF Stages
      <4>2. CASE x # q
        BY <2>1, <3>1, <4>2 DEF Goto, Types
      <4> QED
        BY <4>1, <4>2
    <3> QED
      BY <2>2, <3>2 DEF Truth
  <2>4. CASE \E x \in Requests : Handle(x)
    <3>1. PICK x \in Requests : Handle(x)
      BY <2>4
    <3> QED
      BY <2>1, <2>2, <3>1, OtherMoves, HandleTruth
  <2>5. CASE \E r \in Runtimes : Environment(r)
    BY <2>2, <2>5 DEF Environment, Created, Opened, Dropped, Retried, Client
  <2>6. CASE Restart
    <3>1. req'[q] = req[q] \/ req'[q].pc = "lost"
      BY <2>1, <2>6 DEF Restart, Types, Blank
    <3> QED
      BY <2>2, <3>1 DEF Truth
  <2>7. CASE Boot \/ Register
    BY <2>2, <2>7 DEF Boot, Register
  <2> QED
    BY <2>3, <2>4, <2>5, <2>6, <2>7, <2>8 DEF Next, Requests
<1> QED
  BY <1>1, Invariance, PTL DEF Spec, AnswersAreTrue, Truth

\* The two protocol clients of an instance are never connected together, unless a
\* client escaped: closeClient came while it was being created, or a request that
\* waited for the lock acted on a runtime that had been replaced.
THEOREM OneClientAtATime == Spec => []OneClientUnlessEscaped
<1>1. IInv => OneClientUnlessEscaped
  <2> SUFFICES ASSUME IInv, ~escaped PROVE OneClient
    BY DEF OneClientUnlessEscaped
  <2>1. \A r \in Runtimes : Alive(r) => r \in {registered, booting}
    BY DEF IInv, ClientsConsistent
  <2>2. registered = None \/ booting = None
    BY DEF IInv, ProcessConsistent
  <2>3. None \notin Runtimes
    BY MigrationAssumption DEF None
  <2>4. \A r, s \in Connected : r = s
    BY <2>1, <2>2, <2>3 DEF Connected, Alive
  <2>5. CASE Connected = {}
    BY <2>5, FS_EmptySet DEF OneClient
  <2>6. CASE Connected # {}
    <3>1. PICK r : Connected = {r}
      BY <2>4, <2>6
    <3>2. Cardinality({r}) = 1
      BY FS_Singleton
    <3> QED
      BY <3>1, <3>2 DEF OneClient
  <2> QED
    BY <2>5, <2>6
<1> QED
  BY <1>1, Invariance, PTL
=============================================================================
