------------------------- MODULE ProviderMigration --------------------------
(***************************************************************************)
(* One WhatsApp instance whose session is moved between two providers,     *)
(* Baileys and Zapo, while its endpoints are called: the migration is a    *)
(* sequence of awaits under a lock of the instance, with a rollback; a     *)
(* request for a QR code takes the same lock.  The runtime objects, the    *)
(* registry of the monitor and the lock are memory of the process; the     *)
(* record of the instance and the two session snapshots are in the         *)
(* database and survive a restart.                                         *)
(*                                                                         *)
(* The connection status stored with the record is written by the events   *)
(* of any runtime and is not modelled: after a restart the runtime may     *)
(* connect or not.  Removing the instance is not modelled either, nor is   *)
(* restartInstance, which closes and creates clients outside the lock.     *)
(***************************************************************************)
EXTENDS Integers, FiniteSets

CONSTANTS
  Migrations,   \* requests to migrateProvider
  Connects,     \* requests to connectToWhatsapp, for a QR code
  Nobody,       \* no request
  Runtimes,     \* the identities of runtime objects, reused when unreachable
  MaxMishaps    \* how many restarts, rejected calls and drops of a connection

Requests == Migrations \cup Connects

ASSUME MigrationAssumption ==
  /\ Migrations \cap Connects = {} /\ Nobody \notin Requests
  /\ Runtimes \subseteq Nat \ {0}
  /\ MaxMishaps \in Nat

Providers == {"baileys", "zapo"}

None == 0   \* no runtime

VARIABLES
  integration,  \* the provider in the record of the instance
  snapshot,     \* per provider: "none", "partial" (being written) or "valid"
  registered,   \* waInstances[name]
  runtime,      \* the runtime objects: their provider and their client
  booting,      \* setInstance: connected, not registered yet
  tail,         \* authenticationQueues: the last request of the queue
  req,          \* what each request knows, and where it is
  mishaps,      \* the restarts, rejections and drops so far
  escaped,      \* history: a client outlived the runtime it belongs to
  undone        \* history: a migration was undone after it was accepted

stored == <<integration, snapshot>>
vars == <<stored, registered, runtime, booting, tail, req, mishaps, escaped, undone>>

\* A client: not made yet, being created across an await, live, waiting for the
\* timer of a reconnection, or closed.
Clients == {"none", "creating", "connecting", "open", "retrying", "closed"}

Connected == {r \in Runtimes : runtime[r].client \in {"connecting", "open"}}

Free == [provider |-> "baileys", client |-> "none"]
Blank == [pc |-> "new", waits |-> Nobody, cur |-> None, source |-> "baileys",
          target |-> "baileys", keep |-> FALSE, backup |-> "none", made |-> None]

Init ==
  /\ integration \in Providers
  /\ snapshot = [p \in Providers |-> IF p = integration THEN "valid" ELSE "none"]
  /\ \E r \in Runtimes :
       /\ \A s \in Runtimes : r <= s
       /\ registered = r
       /\ runtime = [s \in Runtimes |->
            IF s = r THEN [provider |-> integration, client |-> "open"] ELSE Free]
  /\ booting = None /\ tail = Nobody
  /\ req = [q \in Requests |-> Blank]
  /\ mishaps = 0
  /\ escaped = FALSE /\ undone = FALSE

(***************************************************************************)
(* Runtimes                                                                *)
(***************************************************************************)

\* Nothing refers to the runtime and it has no client: its identity is free.
Reusable(r) ==
  /\ r \notin {registered, booting}
  /\ runtime[r].client \in {"none", "closed"}
  /\ \A q \in Requests : r \notin {req[q].cur, req[q].made}

\* providerRuntimeFromRecord, and connectToWhatsapp unless it is left alone.
Make(r, p, client) ==
  /\ Reusable(r) /\ \A s \in Runtimes : Reusable(s) => r <= s
  /\ runtime' = [runtime EXCEPT ![r] = [provider |-> p, client |-> client]]

\* closeClient.  It does not reach a client that is still being created: the
\* creation goes on and clears the flag that closeClient set.  Only Zapo's can
\* reject; its client is taken as closed all the same.
Closed(c) == CASE c \in {"none", "creating"} -> c [] OTHER -> "closed"

Close(r) ==
  runtime' = IF r = None THEN runtime
             ELSE [runtime EXCEPT ![r].client = Closed(@)]

Escapes(r) == r # None /\ runtime[r].client = "creating"

Mishap == mishaps < MaxMishaps /\ mishaps' = mishaps + 1

Client(r, from, to) ==
  /\ runtime[r].client = from
  /\ runtime' = [runtime EXCEPT ![r].client = to]
  /\ UNCHANGED <<stored, registered, booting, tail, req, escaped, undone>>

Created(r) == Client(r, "creating", "connecting") /\ UNCHANGED mishaps

\* A paired session opens; another one would show a QR code.
Opened(r) ==
  /\ snapshot[runtime[r].provider] = "valid"
  /\ Client(r, "connecting", "open") /\ UNCHANGED mishaps

\* The connection is lost, or not made.  Baileys creates its next client at
\* once, Zapo starts a timer.
Dropped(r) ==
  /\ Mishap
  /\ \E c \in {"connecting", "open"} :
       Client(r, c, IF runtime[r].provider = "baileys" THEN "creating"
                    ELSE "retrying")

Retried(r) == Client(r, "retrying", "connecting") /\ UNCHANGED mishaps

(***************************************************************************)
(* The lock: every request waits for the one queued before it              *)
(***************************************************************************)

At(q, pc) == req[q].pc = pc

Goto(q, pc) == req' = [req EXCEPT ![q].pc = pc]

Done == {"migrated", "already", "checked", "failed", "answered", "lost"}

Inside(q) == ~At(q, "new") /\ ~At(q, "queued") /\ req[q].pc \notin Done

Arrive(q, target) ==
  /\ At(q, "new") /\ registered # None
  /\ req' = [req EXCEPT ![q].pc = "queued", ![q].cur = registered,
                        ![q].target = target, ![q].waits = tail]
  /\ tail' = q
  /\ UNCHANGED <<stored, registered, runtime, booting, mishaps, escaped, undone>>

AskMigration(q) == \E p \in Providers : Arrive(q, p)

\* An instance that is open answers its state and takes no lock.
AskConnection(q) ==
  /\ registered # None /\ runtime[registered].client # "open"
  /\ Arrive(q, "baileys")

Enter(q) ==
  /\ At(q, "queued")
  /\ req[q].waits # Nobody => req[req[q].waits].pc \in Done
  /\ Goto(q, "locked")
  /\ UNCHANGED <<stored, registered, runtime, booting, tail, mishaps, escaped, undone>>

\* Faulty variant: the lock is forgotten although somebody waits behind it.
EndForgetsQueue(q, outcome) ==
  /\ req' = [req EXCEPT ![q] = [Blank EXCEPT !.pc = outcome]]
  /\ tail' = Nobody

\* finally: the lock is released, and forgotten when nobody waits behind it.
\* The request keeps nothing.
End(q, outcome) ==
  /\ req' = [req EXCEPT ![q] = [Blank EXCEPT !.pc = outcome]]
  /\ tail' = IF tail = q THEN Nobody ELSE tail

(***************************************************************************)
(* connectToWhatsapp                                                       *)
(***************************************************************************)

\* prepareQrConnection of the runtime read before the lock.  Zapo does nothing
\* when its client is registered; Baileys closes its client and creates one.
Prepare(q) ==
  LET r == req[q].cur
      stays == runtime[r].provider = "zapo" /\ runtime[r].client # "none" IN
  /\ q \in Connects /\ At(q, "locked")
  /\ runtime' = IF stays THEN runtime ELSE [runtime EXCEPT ![r].client = "creating"]
  /\ escaped' = (escaped \/ (~stays /\ (r # registered \/ Escapes(r))))
  /\ Goto(q, "waiting")
  /\ UNCHANGED <<stored, registered, booting, tail, mishaps, undone>>

\* waitForQrCode: the code, or the time-out.
Answer(q) ==
  /\ q \in Connects /\ At(q, "waiting")
  /\ End(q, "answered")
  /\ UNCHANGED <<stored, registered, runtime, booting, mishaps, escaped, undone>>

(***************************************************************************)
(* migrateProvider                                                         *)
(***************************************************************************)

\* The checks made while the source is online.
Preflight(q) ==
  /\ q \in Migrations /\ At(q, "locked")
  /\ req[q].target # integration /\ snapshot[integration] = "valid"
  /\ req' = [req EXCEPT
       ![q].pc = "stopping", ![q].source = integration,
       ![q].keep = runtime[req[q].cur].client \in {"connecting", "open"},
       ![q].backup = snapshot[req[q].target]]
  /\ UNCHANGED <<stored, registered, runtime, booting, tail, mishaps, escaped, undone>>

\* Nothing to do, a dry run, or a preflight that fails.
Decline(q) ==
  /\ q \in Migrations /\ At(q, "locked")
  /\ \/ req[q].target = integration /\ End(q, "already") /\ UNCHANGED mishaps
     \/ req[q].target # integration /\ End(q, "checked") /\ UNCHANGED mishaps
     \/ req[q].target # integration /\ snapshot[integration] # "valid"
          /\ End(q, "failed") /\ UNCHANGED mishaps
     \/ Mishap /\ End(q, "failed")
  /\ UNCHANGED <<stored, registered, runtime, booting, escaped, undone>>

StopSource(q) ==
  /\ At(q, "stopping")
  /\ Close(req[q].cur)
  /\ escaped' = (escaped \/ Escapes(req[q].cur) \/ req[q].cur # registered)
  /\ \/ Goto(q, "cutover") /\ UNCHANGED mishaps
     \/ req[q].source = "zapo" /\ Goto(q, "undo") /\ Mishap
  /\ UNCHANGED <<stored, registered, booting, tail, undone>>

\* The snapshot is taken again and converted; writing it begins by clearing the
\* storage of the target.
Cutover(q) ==
  /\ At(q, "cutover")
  /\ \/ /\ snapshot[req[q].source] = "valid"
        /\ snapshot' = [snapshot EXCEPT ![req[q].target] = "partial"]
        /\ Goto(q, "writing") /\ UNCHANGED mishaps
     \/ Goto(q, "undo") /\ Mishap /\ UNCHANGED snapshot
     \/ /\ snapshot[req[q].source] # "valid"
        /\ Goto(q, "undo") /\ UNCHANGED <<snapshot, mishaps>>
  /\ UNCHANGED <<integration, registered, runtime, booting, tail, escaped, undone>>

\* Faulty variant: the record names the target before WhatsApp accepted it.
StartTargetOfRecord(q) ==
  /\ At(q, "writing")
  /\ snapshot' = [snapshot EXCEPT ![req[q].target] = "valid"]
  /\ integration' = req[q].target
  /\ \E r \in Runtimes :
       /\ Make(r, req[q].target, "creating")
       /\ registered' = r
       /\ req' = [req EXCEPT ![q].pc = "connecting", ![q].made = r]
  /\ UNCHANGED <<booting, tail, mishaps, escaped, undone>>

\* Faulty variant: the runtime of the target is not registered.
StartTargetAside(q) ==
  /\ At(q, "writing")
  /\ snapshot' = [snapshot EXCEPT ![req[q].target] = "valid"]
  /\ \E r \in Runtimes :
       /\ Make(r, req[q].target, "creating")
       /\ req' = [req EXCEPT ![q].pc = "connecting", ![q].made = r]
  /\ UNCHANGED <<integration, registered, booting, tail, mishaps, escaped, undone>>

\* The snapshot is written, the runtime of the target registered and connected.
StartTarget(q) ==
  /\ At(q, "writing")
  /\ \/ /\ snapshot' = [snapshot EXCEPT ![req[q].target] = "valid"]
        /\ \E r \in Runtimes :
             /\ Make(r, req[q].target, "creating")
             /\ registered' = r
             /\ req' = [req EXCEPT ![q].pc = "connecting", ![q].made = r]
        /\ UNCHANGED mishaps
     \/ Goto(q, "undo") /\ Mishap /\ UNCHANGED <<snapshot, registered, runtime>>
  /\ UNCHANGED <<integration, booting, tail, escaped, undone>>

\* connectToWhatsapp of the target returns with its client, or is rejected.
ConnectTarget(q) ==
  LET r == req[q].made IN
  /\ At(q, "connecting")
  /\ \/ /\ runtime[r].client # "creating"
        /\ Goto(q, "validating") /\ UNCHANGED <<runtime, mishaps>>
     \/ /\ runtime[r].client = "creating" /\ Mishap
        /\ runtime' = [runtime EXCEPT ![r].client = "none"] /\ Goto(q, "undo")
  /\ UNCHANGED <<stored, registered, booting, tail, escaped, undone>>

\* The record names the target, or the update is rejected.  It may have been
\* committed although its answer was lost: an accepted migration is undone.
Accept(q) ==
  /\ At(q, "validating") /\ runtime[req[q].made].client = "open"
  /\ \/ /\ integration' = req[q].target
        /\ Goto(q, "accepted") /\ UNCHANGED <<mishaps, undone>>
     \/ Goto(q, "undo") /\ Mishap /\ UNCHANGED <<integration, undone>>
     \/ /\ integration' = req[q].target /\ undone' = TRUE
        /\ Goto(q, "undo") /\ Mishap
  /\ UNCHANGED <<snapshot, registered, runtime, booting, tail, escaped>>

\* Faulty variant: only a QR code ends the wait.
RejectOnQrCode(q) ==
  /\ At(q, "validating")
  /\ runtime[req[q].made].client = "connecting"
  /\ Goto(q, "undo")
  /\ UNCHANGED <<stored, registered, runtime, booting, tail, mishaps, escaped, undone>>

\* A QR code appears, or sixty seconds pass before a poll sees it open.
Reject(q) ==
  /\ At(q, "validating") /\ Goto(q, "undo")
  /\ UNCHANGED <<stored, registered, runtime, booting, tail, mishaps, escaped, undone>>

\* An instance that was not connected is left so.
Finish(q) ==
  /\ At(q, "accepted")
  /\ IF req[q].keep THEN UNCHANGED <<runtime, escaped>>
     ELSE /\ Close(req[q].made)
          /\ escaped' = (escaped \/ Escapes(req[q].made))
  /\ \/ End(q, "migrated") /\ UNCHANGED <<mishaps, undone>>
     \/ /\ ~req[q].keep /\ req[q].target = "zapo"
        /\ undone' = TRUE /\ Goto(q, "undo") /\ Mishap /\ UNCHANGED tail
  /\ UNCHANGED <<stored, registered, booting>>

\* Faulty variant: the rollback leaves the target connected.
StopTargetNot(q) ==
  /\ At(q, "undo") /\ Goto(q, "restoring")
  /\ UNCHANGED <<stored, registered, runtime, booting, tail, mishaps, escaped, undone>>

\* The rollback: stop the target, restore its snapshot, the record and a runtime
\* of the source.
StopTarget(q) ==
  /\ At(q, "undo")
  /\ Close(req[q].made)
  /\ escaped' = (escaped \/ Escapes(req[q].made))
  /\ Goto(q, "restoring")
  /\ UNCHANGED <<stored, registered, booting, tail, mishaps, undone>>

\* An error here is logged, and the rollback goes on.
RestoreTarget(q) ==
  /\ At(q, "restoring")
  /\ \/ snapshot' = [snapshot EXCEPT ![req[q].target] = req[q].backup] /\ UNCHANGED mishaps
     \/ snapshot' = [snapshot EXCEPT ![req[q].target] = "partial"] /\ Mishap
  /\ Goto(q, "restored")
  /\ UNCHANGED <<integration, registered, runtime, booting, tail, escaped, undone>>

\* The record, the runtime and its connection.
RestoreSource(q) ==
  /\ At(q, "restored")
  /\ integration' = req[q].source
  /\ \E r \in Runtimes :
       /\ Make(r, req[q].source, IF req[q].keep THEN "creating" ELSE "none")
       /\ registered' = r
  /\ \/ req[q].keep /\ Goto(q, "reconnecting") /\ UNCHANGED tail
     \/ ~req[q].keep /\ End(q, "failed")
  /\ UNCHANGED <<snapshot, booting, mishaps, escaped, undone>>

\* The database rejects the update, or its answer is lost: the registry keeps
\* the stopped target.
RestoreFails(q) ==
  /\ At(q, "restored") /\ Mishap /\ End(q, "failed")
  /\ integration' \in {integration, req[q].source}
  /\ UNCHANGED <<snapshot, registered, runtime, booting, escaped, undone>>

\* It reconnected or not; the caller gets the error of the migration.
EndRollback(q) ==
  /\ At(q, "reconnecting") /\ End(q, "failed")
  /\ UNCHANGED <<stored, registered, runtime, booting, mishaps, escaped, undone>>

\* A call that is awaited under the lock never settles.  No call to the database
\* or to a provider has a limit of its own: the pools of Zapo's store and the
\* request that asks WhatsApp for its version are made without one.  Only the
\* two polls, for a QR code and for an open connection, end by a clock.
Hang(q) ==
  /\ Inside(q) /\ ~At(q, "hung")
  /\ At(q, "waiting") => runtime[req[q].cur].client = "creating"
  /\ At(q, "validating") => runtime[req[q].made].client = "open"
  /\ Goto(q, "hung")
  /\ UNCHANGED <<stored, registered, runtime, booting, tail, mishaps, escaped, undone>>

(***************************************************************************)
(* The process                                                             *)
(***************************************************************************)

\* Memory is lost, and with it every request.
Restart ==
  /\ Mishap
  /\ registered' = None /\ booting' = None /\ tail' = Nobody
  /\ runtime' = [r \in Runtimes |-> Free]
  /\ req' = [q \in Requests |->
       IF req[q].pc \in Done \cup {"new"} THEN req[q] ELSE [Blank EXCEPT !.pc = "lost"]]
  /\ UNCHANGED <<stored, escaped, undone>>

\* setInstance connects the runtime of the record, then registers it.
Boot ==
  /\ registered = None /\ booting = None
  /\ \E r \in Runtimes, c \in {"creating", "none"} :
       Make(r, integration, c) /\ booting' = r
  /\ UNCHANGED <<stored, registered, tail, req, mishaps, escaped, undone>>

Register ==
  /\ booting # None /\ runtime[booting].client # "creating"
  /\ registered' = booting /\ booting' = None
  /\ UNCHANGED <<stored, runtime, tail, req, mishaps, escaped, undone>>

Migrate(q) ==
  \/ Preflight(q) \/ Decline(q) \/ StopSource(q) \/ Cutover(q) \/ StartTarget(q)
  \/ ConnectTarget(q) \/ Accept(q) \/ Reject(q) \/ Finish(q)
  \/ StopTarget(q) \/ RestoreTarget(q) \/ RestoreSource(q) \/ RestoreFails(q)
  \/ EndRollback(q)

Handle(q) == Enter(q) \/ Prepare(q) \/ Answer(q) \/ Migrate(q)

Environment(r) == Created(r) \/ Opened(r) \/ Dropped(r) \/ Retried(r)

Next ==
  \/ \E q \in Migrations : AskMigration(q)
  \/ \E q \in Connects : AskConnection(q)
  \/ \E q \in Requests : Handle(q) \/ Hang(q)
  \/ \E r \in Runtimes : Environment(r)
  \/ Restart \/ Boot \/ Register

Spec == Init /\ [][Next]_vars

\* A request goes on, or it hangs: that an awaited call settles is not assumed.
Fairness == \A q \in Requests : WF_vars(Handle(q) \/ Hang(q))

FairSpec == Spec /\ Fairness

(***************************************************************************)
(* Properties                                                              *)
(***************************************************************************)

\* The stored, registered and running state has its type, and the requests of
\* the instance take turns: at most one is past the queue and not finished.
TypeOK ==
  /\ integration \in Providers
  /\ snapshot \in [Providers -> {"none", "partial", "valid"}]
  /\ registered \in Runtimes \cup {None} /\ booting \in Runtimes \cup {None}
  /\ runtime \in [Runtimes -> [provider : Providers, client : Clients]]
  /\ tail \in Requests \cup {Nobody}
  /\ \A p, q \in Requests : Inside(p) /\ Inside(q) => p = q

\* Whatever step a migration fails, is rejected or is interrupted at, the
\* provider of the record has a complete session: a restart needs no new
\* pairing.  Only the rollback of a migration that was already accepted clears
\* the session of the target before the record names the source again, and
\* then the session of the source is complete.
SessionOfRecord ==
  /\ \E p \in Providers : snapshot[p] = "valid"
  /\ undone \/ snapshot[integration] = "valid"

\* The answer to a request tells the truth: migrated means that the record and
\* the registry are the target's, failed that the record is what it was (or that
\* the database did not take back an accepted migration).
AnswersAreTrue ==
  [][\A q \in Migrations :
       LET p == req[q] IN
       /\ p.pc = "accepted" /\ req'[q].pc = "migrated" =>
            /\ integration' = p.target
            /\ runtime'[registered'].provider = p.target
       /\ Inside(q) /\ p.pc # "locked" /\ req'[q].pc = "failed" =>
            undone \/ integration' = p.source]_vars

\* Every request ends, whatever fails or is rejected and whoever queues behind
\* it, unless a call awaited by the one that holds the lock never settles: then
\* that one keeps the lock, and the others their place behind it, until the
\* process restarts.
RequestsEnd ==
  \A q \in Requests :
    ~At(q, "new") ~> req[q].pc \in Done \/ \E p \in Requests : At(p, "hung")

\* The two protocol clients are never active together.
OneClient == Cardinality(Connected) <= 1

\* They are only when a request acted on a runtime that was replaced while it
\* waited for the lock, or a runtime was closed while it created its client.
OneClientUnlessEscaped == escaped \/ OneClient
=============================================================================
