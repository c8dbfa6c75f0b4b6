------------------------- MODULE SpeechUploadsProofs -------------------------
(***************************************************************************)
(* Theorems about SpeechUploads, for every number of requests, removers    *)
(* and mishaps: its types, that no object is off the record, and that no   *)
(* active job is without its source.                                       *)
(***************************************************************************)
EXTENDS SpeechUploads, TLAPS

Rows == [status : {"none", "active", "failed", "done"}, lease : BOOLEAN,
         aged : BOOLEAN, fence : {"none", "fresh", "stale"},
         token : Removers \cup {Nobody}, deleted : BOOLEAN]

Steps == [step : {"idle", "fence", "remove", "mark", "erase", "sweep"},
          why : {"none", "cleanup", "delete"}, key : Requests \cup {"none"}]

\* What the stage of a request tells of its object.
RequestConsistent(r) ==
  /\ pc[r] = "idle" => resv[r] = "none"
  /\ pc[r] \in {"idle", "receive"} => r \notin named /\ r \notin store /\ r \notin landing
  /\ pc[r] \in {"idle", "receive", "transfer"} => r \notin doomed
  /\ pc[r] = "transfer" => r \in landing
  /\ pc[r] \in {"commit", "redundant"} => r \notin landing
  /\ pc[r] = "commit" /\ resv[r] = "live" => r \in store /\ r \notin doomed
  /\ r \in landing => resv[r] \in {"live", "expired"}
  /\ job[r].status # "none" =>
       /\ pc[r] \in {"undo", "end"} /\ r \notin landing /\ r \notin named
       /\ pc[r] = "end" \/ r \in unsure

\* A job that is active, or in lease, has no fence; a source leaves behind one.
RowConsistent(r) ==
  /\ job[r].status = "active" \/ job[r].lease =>
       /\ job[r].status # "none" /\ job[r].fence = "none" /\ ~job[r].deleted
  /\ job[r].token # Nobody => job[r].fence # "none"
  /\ job[r].status # "none" /\ r \notin unsure /\ ~job[r].deleted /\ job[r].fence = "none" =>
       r \in store /\ r \notin doomed

\* What a remover knows of the object it works on.
RemoverConsistent(x) ==
  LET r == rm[x].key IN
  /\ rm[x].step # "idle" => r \in Requests
  /\ rm[x].step \in {"fence", "remove", "mark", "erase"} =>
       pc[r] \in {"undo", "end"} /\ r \notin landing
  /\ rm[x].step \in {"mark", "erase"} => r \notin store
  /\ rm[x].step = "sweep" =>
       /\ pc[r] \notin {"idle", "receive", "transfer"} /\ r \notin landing
       /\ resv[r] \in {"old", "none"} /\ job[r].status = "none"
  /\ rm[x].step \in {"remove", "mark"} /\ r \notin unsure =>
       job[r].status = "none" \/ job[r].deleted \/ job[r].fence # "none"

\* The inductive invariant.
IInv ==
  /\ TypeOK
  /\ ObjectsOnRecord
  /\ \A r \in Requests : RequestConsistent(r) /\ RowConsistent(r)
  /\ \A x \in Removers : RemoverConsistent(x)

-----------------------------------------------------------------------------
(* Rows and removers.                                                      *)

LEMMA RowChanged ==
  ASSUME NEW f \in [Requests -> Rows], NEW r \in Requests, NEW w \in Rows
  PROVE  /\ [f EXCEPT ![r] = w] \in [Requests -> Rows]
         /\ \A q \in Requests : [f EXCEPT ![r] = w][q] = IF q = r THEN w ELSE f[q]
  OBVIOUS

LEMMA RowsAre ==
  ASSUME NEW w \in Rows
  PROVE  /\ \A s \in {"active", "failed", "done"}, b \in BOOLEAN :
              [w EXCEPT !.status = s, !.lease = b] \in Rows
         /\ \A b \in BOOLEAN : [w EXCEPT !.status = "active", !.aged = b] \in Rows
         /\ [w EXCEPT !.lease = FALSE] \in Rows
         /\ [w EXCEPT !.status = "done"] \in Rows
         /\ \A x \in Removers : [w EXCEPT !.fence = "fresh", !.token = x] \in Rows
         /\ [w EXCEPT !.deleted = TRUE, !.fence = "none", !.token = Nobody] \in Rows
         /\ NoRow \in Rows /\ NewRow \in Rows
  BY DEF Rows, NoRow, NewRow

LEMMA RemoversAre ==
  ASSUME NEW s \in {"idle", "fence", "remove", "mark", "erase", "sweep"},
         NEW w \in {"none", "cleanup", "delete"}, NEW r \in Requests
  PROVE  /\ [step |-> s, why |-> w, key |-> r] \in Steps
         /\ Idle \in Steps
  BY DEF Steps, Idle

LEMMA RemoverChanged ==
  ASSUME NEW f \in [Removers -> Steps], NEW x \in Removers, NEW w \in Steps
  PROVE  /\ [f EXCEPT ![x] = w] \in [Removers -> Steps]
         /\ \A y \in Removers : [f EXCEPT ![x] = w][y] = IF y = x THEN w ELSE f[y]
  OBVIOUS


LEMMA ReservationAgesStep ==
  ASSUME IInv, NEW r \in Requests, ReservationAges(r)
  PROVE  IInv'
<1> USE UploadsAssumption DEF IInv, ReservationAges, requests, objects, history
<1>1. TypeOK'
  BY DEF TypeOK
<1>2. ObjectsOnRecord'
  BY DEF TypeOK, ObjectsOnRecord, RequestConsistent, RemoverConsistent
<1>3. \A q \in Requests : RequestConsistent(q)'
  BY DEF TypeOK, RequestConsistent, RemoverConsistent
<1>4. \A q \in Requests : RowConsistent(q)'
  BY DEF TypeOK, RequestConsistent, RowConsistent, RemoverConsistent
<1>5. \A y \in Removers : RemoverConsistent(y)'
  BY DEF TypeOK, RequestConsistent, RowConsistent, RemoverConsistent
<1> QED
  BY <1>1, <1>2, <1>3, <1>4, <1>5 DEF IInv

LEMMA SourceAgesStep ==
  ASSUME IInv, NEW r \in Requests, SourceAges(r)
  PROVE  IInv'
<1> USE DEF IInv, requests, objects, history
<1>1. job \in [Requests -> Rows]
  BY DEF TypeOK, Rows
<1>2. PICK w \in Rows :
        /\ job' = [job EXCEPT ![r] = w]
        /\ w.status = job[r].status /\ w.lease = job[r].lease
        /\ w.token = job[r].token /\ w.deleted = job[r].deleted
        /\ w.fence = "none" <=> job[r].fence = "none"
  <2>1. CASE job' = [job EXCEPT ![r].aged = TRUE]
    <3> DEFINE w == [job[r] EXCEPT !.aged = TRUE]
    <3>1. w \in Rows /\ job' = [job EXCEPT ![r] = w]
      BY <1>1, <2>1 DEF Rows
    <3>2. /\ w.status = job[r].status /\ w.lease = job[r].lease
          /\ w.token = job[r].token /\ w.deleted = job[r].deleted
          /\ w.fence = job[r].fence
      BY <1>1 DEF Rows
    <3> QED
      BY <3>1, <3>2
  <2>2. CASE job[r].fence = "fresh" /\ job' = [job EXCEPT ![r].fence = "stale"]
    <3> DEFINE w == [job[r] EXCEPT !.fence = "stale"]
    <3>1. w \in Rows /\ job' = [job EXCEPT ![r] = w]
      BY <1>1, <2>2 DEF Rows
    <3>2. /\ w.status = job[r].status /\ w.lease = job[r].lease
          /\ w.token = job[r].token /\ w.deleted = job[r].deleted
          /\ w.fence = "stale" /\ job[r].fence = "fresh"
      BY <1>1, <2>2 DEF Rows
    <3> QED
      BY <3>1, <3>2
  <2> QED
    BY <2>1, <2>2 DEF SourceAges
<1>3. /\ job' \in [Requests -> Rows]
      /\ \A q \in Requests :
           /\ job'[q].status = job[q].status /\ job'[q].lease = job[q].lease
           /\ job'[q].token = job[q].token /\ job'[q].deleted = job[q].deleted
           /\ job'[q].fence = "none" <=> job[q].fence = "none"
  BY <1>1, <1>2, RowChanged
<1>4. UNCHANGED <<requests, objects, looked, rm, mishaps, history>>
  BY DEF SourceAges
<1>5. TypeOK'
  BY <1>3, <1>4 DEF TypeOK, Rows
<1>6. ObjectsOnRecord'
  BY <1>3, <1>4 DEF TypeOK, ObjectsOnRecord
<1>7. \A q \in Requests : RequestConsistent(q)' /\ RowConsistent(q)'
  BY <1>3, <1>4 DEF RequestConsistent, RowConsistent
<1>8. \A y \in Removers : RemoverConsistent(y)'
  BY <1>3, <1>4, <1>4 DEF RemoverConsistent
<1> QED
  BY <1>5, <1>6, <1>7, <1>8

LEMMA LandsStep ==
  ASSUME IInv, NEW r \in Requests, Lands(r)
  PROVE  IInv'
<1> USE UploadsAssumption DEF IInv, Lands, requests, objects, history
<1>1. TypeOK'
  BY DEF TypeOK
<1>2. ObjectsOnRecord'
  BY DEF TypeOK, ObjectsOnRecord, RequestConsistent, RemoverConsistent
<1>3. \A q \in Requests : RequestConsistent(q)'
  BY DEF TypeOK, RequestConsistent, RemoverConsistent
<1>4. \A q \in Requests : RowConsistent(q)'
  BY DEF TypeOK, RequestConsistent, RowConsistent, RemoverConsistent
<1>5. \A y \in Removers : RemoverConsistent(y)'
  BY DEF TypeOK, RequestConsistent, RowConsistent, RemoverConsistent
<1> QED
  BY <1>1, <1>2, <1>3, <1>4, <1>5 DEF IInv

LEMMA VanishesLateStep ==
  ASSUME IInv, NEW r \in Requests, VanishesLate(r)
  PROVE  IInv'
<1> USE UploadsAssumption DEF IInv, VanishesLate, requests, objects, history
<1>1. TypeOK'
  BY DEF TypeOK
<1>2. ObjectsOnRecord'
  BY DEF TypeOK, ObjectsOnRecord, RequestConsistent, RemoverConsistent
<1>3. \A q \in Requests : RequestConsistent(q)'
  BY DEF TypeOK, RequestConsistent, RemoverConsistent
<1>4. \A q \in Requests : RowConsistent(q)'
  BY DEF TypeOK, RequestConsistent, RowConsistent, RemoverConsistent
<1>5. \A y \in Removers : RemoverConsistent(y)'
  BY DEF TypeOK, RequestConsistent, RowConsistent, RemoverConsistent
<1> QED
  BY <1>1, <1>2, <1>3, <1>4, <1>5 DEF IInv

LEMMA ReserveStep ==
  ASSUME IInv, NEW r \in Requests, Reserve(r)
  PROVE  IInv'
<1> USE UploadsAssumption DEF IInv, Reserve, Goto, requests, objects, history
<1>1. TypeOK'
  BY DEF TypeOK
<1>2. ObjectsOnRecord'
  BY DEF TypeOK, ObjectsOnRecord, RequestConsistent, RemoverConsistent
<1>3. \A q \in Requests : RequestConsistent(q)'
  BY DEF TypeOK, RequestConsistent, RemoverConsistent
<1>4. \A q \in Requests : RowConsistent(q)'
  BY DEF TypeOK, RequestConsistent, RowConsistent, RemoverConsistent
<1>5. \A y \in Removers : RemoverConsistent(y)'
  BY DEF TypeOK, RequestConsistent, RowConsistent, RemoverConsistent
<1> QED
  BY <1>1, <1>2, <1>3, <1>4, <1>5 DEF IInv

LEMMA ReleaseStep ==
  ASSUME IInv, NEW r \in Requests, Release(r)
  PROVE  IInv'
<1> USE UploadsAssumption DEF IInv, Release, Goto, DropRow, requests, objects, history
<1>1. TypeOK'
  BY DEF TypeOK
<1>2. ObjectsOnRecord'
  BY DEF TypeOK, ObjectsOnRecord, RequestConsistent, RemoverConsistent
<1>3. \A q \in Requests : RequestConsistent(q)'
  BY DEF TypeOK, RequestConsistent, RemoverConsistent
<1>4. \A q \in Requests : RowConsistent(q)'
  BY DEF TypeOK, RequestConsistent, RowConsistent, RemoverConsistent
<1>5. \A y \in Removers : RemoverConsistent(y)'
  BY DEF TypeOK, RequestConsistent, RowConsistent, RemoverConsistent
<1> QED
  BY <1>1, <1>2, <1>3, <1>4, <1>5 DEF IInv

LEMMA TransferStep ==
  ASSUME IInv, NEW r \in Requests, Transfer(r)
  PROVE  IInv'
<1> USE UploadsAssumption DEF IInv, Transfer, Goto, Known, requests, objects, history
<1>1. TypeOK'
  BY DEF TypeOK
<1>2. ObjectsOnRecord'
  BY DEF TypeOK, ObjectsOnRecord, RequestConsistent, RemoverConsistent
<1>3. \A q \in Requests : RequestConsistent(q)'
  BY DEF TypeOK, RequestConsistent, RemoverConsistent
<1>4. \A q \in Requests : RowConsistent(q)'
  BY DEF TypeOK, RequestConsistent, RowConsistent, RemoverConsistent
<1>5. \A y \in Removers : RemoverConsistent(y)'
  BY DEF TypeOK, RequestConsistent, RowConsistent, RemoverConsistent
<1> QED
  BY <1>1, <1>2, <1>3, <1>4, <1>5 DEF IInv

LEMMA StoredStep ==
  ASSUME IInv, NEW r \in Requests, Stored(r)
  PROVE  IInv'
<1> USE UploadsAssumption DEF IInv, Stored, Goto, requests, objects, history
<1>1. TypeOK'
  BY DEF TypeOK
<1>2. ObjectsOnRecord'
  BY DEF TypeOK, ObjectsOnRecord, RequestConsistent, RemoverConsistent
<1>3. \A q \in Requests : RequestConsistent(q)'
  BY DEF TypeOK, RequestConsistent, RemoverConsistent
<1>4. \A q \in Requests : RowConsistent(q)'
  BY DEF TypeOK, RequestConsistent, RowConsistent, RemoverConsistent
<1>5. \A y \in Removers : RemoverConsistent(y)'
  BY DEF TypeOK, RequestConsistent, RowConsistent, RemoverConsistent
<1> QED
  BY <1>1, <1>2, <1>3, <1>4, <1>5 DEF IInv

LEMMA TransferFailsStep ==
  ASSUME IInv, NEW r \in Requests, TransferFails(r)
  PROVE  IInv'
<1> USE UploadsAssumption DEF IInv, TransferFails, Goto, requests, objects, history
<1>1. TypeOK'
  BY DEF TypeOK
<1>2. ObjectsOnRecord'
  BY DEF TypeOK, ObjectsOnRecord, RequestConsistent, RemoverConsistent
<1>3. \A q \in Requests : RequestConsistent(q)'
  BY DEF TypeOK, RequestConsistent, RemoverConsistent
<1>4. \A q \in Requests : RowConsistent(q)'
  BY DEF TypeOK, RequestConsistent, RowConsistent, RemoverConsistent
<1>5. \A y \in Removers : RemoverConsistent(y)'
  BY DEF TypeOK, RequestConsistent, RowConsistent, RemoverConsistent
<1> QED
  BY <1>1, <1>2, <1>3, <1>4, <1>5 DEF IInv

LEMMA CreateJobStep ==
  ASSUME IInv, NEW r \in Requests, CreateJob(r)
  PROVE  IInv'
<1> USE UploadsAssumption DEF IInv, CreateJob, Goto, DropRow, Known, ReservationStands, Mishap, requests, objects, history
<1>1. TypeOK'
  <2>1. job' \in [Requests -> Rows]
    <3> DEFINE w == NewRow
    <3>1. job \in [Requests -> Rows] /\ r \in Requests
      BY DEF TypeOK, Rows, RemoverConsistent
    <3>2. w \in Rows
      BY <3>1, RowsAre
    <3>3. job' = [job EXCEPT ![r] = w]
      BY <3>1 DEF Rows
    <3> HIDE DEF w, IInv, CreateJob, Goto, DropRow, Known, ReservationStands, Mishap, requests, objects, history
    <3> QED
      BY <3>1, <3>2, <3>3, RowChanged
  <2>2. rm' \in [Removers -> Steps]
    BY DEF TypeOK, Steps
  <2>3. looked' \subseteq {q \in Requests : job'[q].status # "none"}
    BY DEF TypeOK
  <2>4. mishaps' \in 0..MaxMishaps
    BY DEF TypeOK
  <2> QED
    BY SMTT(30), <2>1, <2>2, <2>3, <2>4 DEF TypeOK, Rows, Steps
<1>2. ObjectsOnRecord'
  BY DEF TypeOK, ObjectsOnRecord, RequestConsistent, RemoverConsistent, NewRow, NoRow
<1>3. \A q \in Requests : RequestConsistent(q)'
  BY DEF TypeOK, RequestConsistent, RemoverConsistent
<1>4. \A q \in Requests : RowConsistent(q)'
  BY DEF TypeOK, RequestConsistent, RowConsistent, RemoverConsistent, NewRow, NoRow
<1>5. \A y \in Removers : RemoverConsistent(y)'
  BY DEF TypeOK, RequestConsistent, RowConsistent, RemoverConsistent
<1> QED
  BY <1>1, <1>2, <1>3, <1>4, <1>5 DEF IInv

LEMMA FindJobStep ==
  ASSUME IInv, NEW r \in Requests, FindJob(r)
  PROVE  IInv'
<1> USE UploadsAssumption DEF IInv, FindJob, Goto, Known, requests, objects, history
<1>1. TypeOK'
  BY DEF TypeOK
<1>2. ObjectsOnRecord'
  BY DEF TypeOK, ObjectsOnRecord, RequestConsistent, RemoverConsistent
<1>3. \A q \in Requests : RequestConsistent(q)'
  BY DEF TypeOK, RequestConsistent, RemoverConsistent
<1>4. \A q \in Requests : RowConsistent(q)'
  BY DEF TypeOK, RequestConsistent, RowConsistent, RemoverConsistent
<1>5. \A y \in Removers : RemoverConsistent(y)'
  BY DEF TypeOK, RequestConsistent, RowConsistent, RemoverConsistent
<1> QED
  BY <1>1, <1>2, <1>3, <1>4, <1>5 DEF IInv

LEMMA CreateFailsStep ==
  ASSUME IInv, NEW r \in Requests, CreateFails(r)
  PROVE  IInv'
<1> USE UploadsAssumption DEF IInv, CreateFails, Goto, requests, objects, history
<1>1. TypeOK'
  BY DEF TypeOK
<1>2. ObjectsOnRecord'
  BY DEF TypeOK, ObjectsOnRecord, RequestConsistent, RemoverConsistent
<1>3. \A q \in Requests : RequestConsistent(q)'
  BY DEF TypeOK, RequestConsistent, RemoverConsistent
<1>4. \A q \in Requests : RowConsistent(q)'
  BY DEF TypeOK, RequestConsistent, RowConsistent, RemoverConsistent
<1>5. \A y \in Removers : RemoverConsistent(y)'
  BY DEF TypeOK, RequestConsistent, RowConsistent, RemoverConsistent
<1> QED
  BY <1>1, <1>2, <1>3, <1>4, <1>5 DEF IInv

LEMMA UndoStep ==
  ASSUME IInv, NEW r \in Requests, Undo(r)
  PROVE  IInv'
<1> USE UploadsAssumption DEF IInv, Undo, Goto, Remove, Mishap, requests, objects, history
<1>1. TypeOK'
  BY DEF TypeOK
<1>2. ObjectsOnRecord'
  BY DEF TypeOK, ObjectsOnRecord, RequestConsistent, RemoverConsistent
<1>3. \A q \in Requests : RequestConsistent(q)'
  BY DEF TypeOK, RequestConsistent, RemoverConsistent
<1>4. \A q \in Requests : RowConsistent(q)'
  BY DEF TypeOK, RequestConsistent, RowConsistent, RemoverConsistent
<1>5. \A y \in Removers : RemoverConsistent(y)'
  BY DEF TypeOK, RequestConsistent, RowConsistent, RemoverConsistent
<1> QED
  BY <1>1, <1>2, <1>3, <1>4, <1>5 DEF IInv

LEMMA DropRedundantStep ==
  ASSUME IInv, NEW r \in Requests, DropRedundant(r)
  PROVE  IInv'
<1> USE UploadsAssumption DEF IInv, DropRedundant, Goto, Remove, DropRow, Mishap, requests, objects, history
<1>1. TypeOK'
  BY DEF TypeOK
<1>2. ObjectsOnRecord'
  BY DEF TypeOK, ObjectsOnRecord, RequestConsistent, RemoverConsistent
<1>3. \A q \in Requests : RequestConsistent(q)'
  BY DEF TypeOK, RequestConsistent, RemoverConsistent
<1>4. \A q \in Requests : RowConsistent(q)'
  BY DEF TypeOK, RequestConsistent, RowConsistent, RemoverConsistent
<1>5. \A y \in Removers : RemoverConsistent(y)'
  BY DEF TypeOK, RequestConsistent, RowConsistent, RemoverConsistent
<1> QED
  BY <1>1, <1>2, <1>3, <1>4, <1>5 DEF IInv

LEMMA CrashStep ==
  ASSUME IInv, NEW r \in Requests, Crash(r)
  PROVE  IInv'
<1> USE UploadsAssumption DEF IInv, Crash, Goto, Mishap, requests, objects, history
<1>1. TypeOK'
  BY DEF TypeOK
<1>2. ObjectsOnRecord'
  BY DEF TypeOK, ObjectsOnRecord, RequestConsistent, RemoverConsistent
<1>3. \A q \in Requests : RequestConsistent(q)'
  BY DEF TypeOK, RequestConsistent, RemoverConsistent
<1>4. \A q \in Requests : RowConsistent(q)'
  BY DEF TypeOK, RequestConsistent, RowConsistent, RemoverConsistent
<1>5. \A y \in Removers : RemoverConsistent(y)'
  BY DEF TypeOK, RequestConsistent, RowConsistent, RemoverConsistent
<1> QED
  BY <1>1, <1>2, <1>3, <1>4, <1>5 DEF IInv

LEMMA WorkStep ==
  ASSUME IInv, NEW r \in Requests, Work(r)
  PROVE  IInv'
<1> USE UploadsAssumption DEF IInv, Work, requests, objects, history
<1>1. TypeOK'
  <2>1. job' \in [Requests -> Rows]
    <3>0. PICK s \in {"active", "failed", "done"}, b \in BOOLEAN :
            job' = [job EXCEPT ![r].status = s, ![r].lease = b]
      OBVIOUS
    <3> DEFINE w == [job[r] EXCEPT !.status = s, !.lease = b]
    <3>1. job \in [Requests -> Rows] /\ r \in Requests
      BY DEF TypeOK, Rows, RemoverConsistent
    <3>2. w \in Rows
      BY <3>1, <3>0, RowsAre
    <3>3. job' = [job EXCEPT ![r] = w]
      BY <3>1, <3>0 DEF Rows
    <3> HIDE DEF w, IInv, Work, requests, objects, history
    <3> QED
      BY <3>1, <3>2, <3>3, RowChanged
  <2>2. rm' \in [Removers -> Steps]
    BY DEF TypeOK, Steps
  <2>3. looked' \subseteq {q \in Requests : job'[q].status # "none"}
    BY DEF TypeOK
  <2>4. mishaps' \in 0..MaxMishaps
    BY DEF TypeOK
  <2> QED
    BY SMTT(30), <2>1, <2>2, <2>3, <2>4 DEF TypeOK, Rows, Steps
<1>2. ObjectsOnRecord'
  BY DEF TypeOK, ObjectsOnRecord, RequestConsistent, RemoverConsistent
<1>3. \A q \in Requests : RequestConsistent(q)'
  BY DEF TypeOK, RequestConsistent, RemoverConsistent
<1>4. \A q \in Requests : RowConsistent(q)'
  BY DEF TypeOK, RequestConsistent, RowConsistent, RemoverConsistent
<1>5. \A y \in Removers : RemoverConsistent(y)'
  BY DEF TypeOK, RequestConsistent, RowConsistent, RemoverConsistent
<1> QED
  BY <1>1, <1>2, <1>3, <1>4, <1>5 DEF IInv

LEMMA LeaseLapsesStep ==
  ASSUME IInv, NEW r \in Requests, LeaseLapses(r)
  PROVE  IInv'
<1> USE UploadsAssumption DEF IInv, LeaseLapses, Over, requests, objects, history
<1>1. TypeOK'
  <2>1. job' \in [Requests -> Rows]
    <3> DEFINE w == [job[r] EXCEPT !.lease = FALSE]
    <3>1. job \in [Requests -> Rows] /\ r \in Requests
      BY DEF TypeOK, Rows, RemoverConsistent
    <3>2. w \in Rows
      BY <3>1, RowsAre
    <3>3. job' = [job EXCEPT ![r] = w]
      BY <3>1 DEF Rows
    <3> HIDE DEF w, IInv, LeaseLapses, Over, requests, objects, history
    <3> QED
      BY <3>1, <3>2, <3>3, RowChanged
  <2>2. rm' \in [Removers -> Steps]
    BY DEF TypeOK, Steps
  <2>3. looked' \subseteq {q \in Requests : job'[q].status # "none"}
    BY DEF TypeOK
  <2>4. mishaps' \in 0..MaxMishaps
    BY DEF TypeOK
  <2> QED
    BY SMTT(30), <2>1, <2>2, <2>3, <2>4 DEF TypeOK, Rows, Steps
<1>2. ObjectsOnRecord'
  BY DEF TypeOK, ObjectsOnRecord, RequestConsistent, RemoverConsistent
<1>3. \A q \in Requests : RequestConsistent(q)'
  BY DEF TypeOK, RequestConsistent, RemoverConsistent
<1>4. \A q \in Requests : RowConsistent(q)'
  BY DEF TypeOK, RequestConsistent, RowConsistent, RemoverConsistent
<1>5. \A y \in Removers : RemoverConsistent(y)'
  BY DEF TypeOK, RequestConsistent, RowConsistent, RemoverConsistent
<1> QED
  BY <1>1, <1>2, <1>3, <1>4, <1>5 DEF IInv

LEMMA LookForSourceStep ==
  ASSUME IInv, NEW r \in Requests, LookForSource(r)
  PROVE  IInv'
<1> USE UploadsAssumption DEF IInv, LookForSource, requests, objects, history
<1>1. TypeOK'
  BY DEF TypeOK
<1>2. ObjectsOnRecord'
  BY DEF TypeOK, ObjectsOnRecord, RequestConsistent, RemoverConsistent
<1>3. \A q \in Requests : RequestConsistent(q)'
  BY DEF TypeOK, RequestConsistent, RemoverConsistent
<1>4. \A q \in Requests : RowConsistent(q)'
  BY DEF TypeOK, RequestConsistent, RowConsistent, RemoverConsistent
<1>5. \A y \in Removers : RemoverConsistent(y)'
  BY DEF TypeOK, RequestConsistent, RowConsistent, RemoverConsistent
<1> QED
  BY <1>1, <1>2, <1>3, <1>4, <1>5 DEF IInv

LEMMA RetryStep ==
  ASSUME IInv, NEW r \in Requests, Retry(r)
  PROVE  IInv'
<1> USE UploadsAssumption DEF IInv, Retry, Retryable, requests, objects, history
<1>1. TypeOK'
  <2>1. job' \in [Requests -> Rows]
    <3> DEFINE w == [job[r] EXCEPT !.status = "active", !.aged = dictation /\ job[r].aged]
    <3>1. job \in [Requests -> Rows] /\ r \in Requests
      BY DEF TypeOK, Rows, RemoverConsistent
    <3>2. w \in Rows
      BY <3>1, RowsAre DEF TypeOK
    <3>3. job' \in {job, [job EXCEPT ![r] = w]}
      BY <3>1 DEF Rows
    <3> HIDE DEF w, IInv, Retry, Retryable, requests, objects, history
    <3> QED
      BY <3>1, <3>2, <3>3, RowChanged
  <2>2. rm' \in [Removers -> Steps]
    BY DEF TypeOK, Steps
  <2>3. looked' \subseteq {q \in Requests : job'[q].status # "none"}
    BY DEF TypeOK
  <2>4. mishaps' \in 0..MaxMishaps
    BY DEF TypeOK
  <2> QED
    BY SMTT(30), <2>1, <2>2, <2>3, <2>4 DEF TypeOK, Rows, Steps
<1>2. ObjectsOnRecord'
  BY DEF TypeOK, ObjectsOnRecord, RequestConsistent, RemoverConsistent
<1>3. \A q \in Requests : RequestConsistent(q)'
  BY DEF TypeOK, RequestConsistent, RemoverConsistent
<1>4. \A q \in Requests : RowConsistent(q)'
  BY DEF TypeOK, RequestConsistent, RowConsistent, RemoverConsistent
<1>5. \A y \in Removers : RemoverConsistent(y)'
  BY DEF TypeOK, RequestConsistent, RowConsistent, RemoverConsistent
<1> QED
  BY <1>1, <1>2, <1>3, <1>4, <1>5 DEF IInv

LEMMA ListStep ==
  ASSUME IInv, NEW x \in Removers, NEW r \in Requests, List(x, r)
  PROVE  IInv'
<1> USE UploadsAssumption DEF IInv, List, Set, Over, Idle, requests, objects, history
<1>1. TypeOK'
  BY DEF TypeOK
<1>2. ObjectsOnRecord'
  BY DEF TypeOK, ObjectsOnRecord, RequestConsistent, RemoverConsistent
<1>3. \A q \in Requests : RequestConsistent(q)'
  BY DEF TypeOK, RequestConsistent, RemoverConsistent
<1>4. \A q \in Requests : RowConsistent(q)'
  BY DEF TypeOK, RequestConsistent, RowConsistent, RemoverConsistent
<1>5. \A y \in Removers : RemoverConsistent(y)'
  BY DEF TypeOK, RequestConsistent, RowConsistent, RemoverConsistent
<1> QED
  BY <1>1, <1>2, <1>3, <1>4, <1>5 DEF IInv

LEMMA DeleteStep ==
  ASSUME IInv, NEW x \in Removers, NEW r \in Requests, Delete(x, r)
  PROVE  IInv'
<1> USE UploadsAssumption DEF IInv, Delete, Set, Over, Idle, requests, objects, history
<1>1. TypeOK'
  <2>1. job' \in [Requests -> Rows]
    <3> DEFINE w == [job[r] EXCEPT !.status = "done"]
    <3>1. job \in [Requests -> Rows] /\ r \in Requests
      BY DEF TypeOK, Rows, RemoverConsistent
    <3>2. w \in Rows
      BY <3>1, RowsAre
    <3>3. job' \in {job, [job EXCEPT ![r] = w]}
      BY <3>1 DEF Rows
    <3> HIDE DEF w, IInv, Delete, Set, Over, Idle, requests, objects, history
    <3> QED
      BY <3>1, <3>2, <3>3, RowChanged
  <2>2. rm' \in [Removers -> Steps]
    BY DEF TypeOK, Steps
  <2>3. looked' \subseteq {q \in Requests : job'[q].status # "none"}
    BY DEF TypeOK
  <2>4. mishaps' \in 0..MaxMishaps
    BY DEF TypeOK
  <2> QED
    BY SMTT(30), <2>1, <2>2, <2>3, <2>4 DEF TypeOK, Rows, Steps
<1>2. ObjectsOnRecord'
  BY DEF TypeOK, ObjectsOnRecord, RequestConsistent, RemoverConsistent
<1>3. \A q \in Requests : RequestConsistent(q)'
  BY DEF TypeOK, RequestConsistent, RemoverConsistent
<1>4. \A q \in Requests : RowConsistent(q)'
  BY DEF TypeOK, RequestConsistent, RowConsistent, RemoverConsistent
<1>5. \A y \in Removers : RemoverConsistent(y)'
  BY DEF TypeOK, RequestConsistent, RowConsistent, RemoverConsistent
<1> QED
  BY <1>1, <1>2, <1>3, <1>4, <1>5 DEF IInv

LEMMA SweepStep ==
  ASSUME IInv, NEW x \in Removers, NEW r \in Requests, Sweep(x, r)
  PROVE  IInv'
<1> USE UploadsAssumption DEF IInv, Sweep, Set, DropRow, Idle, requests, objects, history
<1>1. TypeOK'
  <2>1. pc' \in [Requests -> {"idle", "receive", "transfer", "commit", "redundant", "undo", "end"}]
    BY DEF TypeOK
  <2>2. rm' \in [Removers -> Steps]
    <3>1. rm \in [Removers -> Steps] /\ x \in Removers /\ r \in Requests
      BY DEF TypeOK, Steps, RemoverConsistent
    <3>2. PICK w \in Steps : rm' \in {rm, [rm EXCEPT ![x] = w]}
      BY <3>1, RemoversAre
    <3> QED
      BY <3>1, <3>2, RemoverChanged
  <2>3. mishaps' \in 0..MaxMishaps
    BY DEF TypeOK
  <2>4. store' \subseteq Requests /\ doomed' \subseteq Requests
    BY DEF TypeOK, RemoverConsistent
  <2>5. /\ resv' \in [Requests -> {"none", "live", "expired", "old"}]
        /\ named' \subseteq {q \in Requests : resv'[q] # "none"}
    BY DEF TypeOK, RemoverConsistent
  <2>6. UNCHANGED <<landing, job, looked, history>>
    OBVIOUS
  <2> QED
    BY <2>1, <2>2, <2>3, <2>4, <2>5, <2>6 DEF TypeOK, Steps
<1>2. ObjectsOnRecord'
  BY DEF TypeOK, ObjectsOnRecord, RequestConsistent, RemoverConsistent
<1>3. \A q \in Requests : RequestConsistent(q)'
  BY DEF TypeOK, RequestConsistent, RemoverConsistent
<1>4. \A q \in Requests : RowConsistent(q)'
  BY DEF TypeOK, RequestConsistent, RowConsistent, RemoverConsistent
<1>5. \A y \in Removers : RemoverConsistent(y)'
  BY DEF TypeOK, RequestConsistent, RowConsistent, RemoverConsistent
<1> QED
  BY <1>1, <1>2, <1>3, <1>4, <1>5 DEF IInv

LEMMA FenceStep ==
  ASSUME IInv, NEW x \in Removers, Fence(x)
  PROVE  IInv'
<1> USE UploadsAssumption DEF IInv, Fence, Set, Rest, Fenceable, Over, Idle, requests, objects, history
<1>1. TypeOK'
  <2>1. job' \in [Requests -> Rows]
    <3> DEFINE w == [job[rm[x].key] EXCEPT !.fence = "fresh", !.token = x]
    <3>1. job \in [Requests -> Rows] /\ rm[x].key \in Requests
      BY DEF TypeOK, Rows, RemoverConsistent
    <3>2. w \in Rows
      BY <3>1, RowsAre
    <3>3. job' \in {job, [job EXCEPT ![rm[x].key] = w]}
      BY <3>1 DEF Rows
    <3> HIDE DEF w, IInv, Fence, Set, Rest, Fenceable, Over, Idle, requests, objects, history
    <3> QED
      BY <3>1, <3>2, <3>3, RowChanged
  <2>2. rm' \in [Removers -> Steps]
    <3>1. rm \in [Removers -> Steps] /\ x \in Removers /\ rm[x].key \in Requests
      BY DEF TypeOK, Steps, RemoverConsistent
    <3>2. rm[x].why \in {"none", "cleanup", "delete"}
      BY <3>1 DEF Steps
    <3>3. PICK w \in Steps : rm' = [rm EXCEPT ![x] = w]
      BY <3>1, <3>2, RemoversAre
    <3> QED
      BY <3>1, <3>3, RemoverChanged
  <2>3. looked' \subseteq {q \in Requests : job'[q].status # "none"}
    BY DEF TypeOK
  <2>4. mishaps' \in 0..MaxMishaps
    BY DEF TypeOK
  <2> QED
    BY SMTT(30), <2>1, <2>2, <2>3, <2>4 DEF TypeOK, Rows, Steps
<1>2. ObjectsOnRecord'
  <2>1. job \in [Requests -> Rows] /\ rm[x].key \in Requests
    BY DEF TypeOK, Rows, RemoverConsistent
  <2>2. \A q \in Requests :
          /\ job'[q].status = job[q].status /\ job'[q].deleted = job[q].deleted
          /\ job'[q].lease = job[q].lease
    BY <2>1 DEF Rows
  <2> QED
    BY <2>2 DEF TypeOK, ObjectsOnRecord
<1>3. \A q \in Requests : RequestConsistent(q)'
  <2>1. job \in [Requests -> Rows] /\ rm[x].key \in Requests
    BY DEF TypeOK, Rows, RemoverConsistent
  <2>2. \A q \in Requests :
          /\ job'[q].status = job[q].status /\ job'[q].deleted = job[q].deleted
          /\ job'[q].lease = job[q].lease
    BY <2>1 DEF Rows
  <2> QED
    BY <2>2 DEF RequestConsistent
<1>4. \A q \in Requests : RowConsistent(q)'
  <2>1. job \in [Requests -> Rows] /\ rm[x].key \in Requests
    BY DEF TypeOK, Rows, RemoverConsistent
  <2>2. \A q \in Requests :
          /\ job'[q].status = job[q].status /\ job'[q].deleted = job[q].deleted
          /\ job'[q].lease = job[q].lease
    BY <2>1 DEF Rows
  <2>3. \A q \in Requests :
          \/ job'[q].token = job[q].token /\ job'[q].fence = job[q].fence
          \/ /\ job'[q].fence = "fresh"
             /\ ~job[q].lease /\ job[q].status # "active"
    BY <2>1 DEF Rows
  <2> QED
    BY <2>2, <2>3 DEF RowConsistent
<1>5. \A y \in Removers : RemoverConsistent(y)'
  BY SMTT(30) DEF TypeOK, RequestConsistent, RowConsistent, RemoverConsistent
<1> QED
  BY <1>1, <1>2, <1>3, <1>4, <1>5 DEF IInv

LEMMA RemoveSourceStep ==
  ASSUME IInv, NEW x \in Removers, RemoveSource(x)
  PROVE  IInv'
<1> USE UploadsAssumption DEF IInv, RemoveSource, Set, Rest, Remove, Mishap, Idle, requests, objects, history
<1>1. TypeOK'
  <2>1. pc' \in [Requests -> {"idle", "receive", "transfer", "commit", "redundant", "undo", "end"}]
    BY DEF TypeOK
  <2>2. rm' \in [Removers -> Steps]
    <3>1. rm \in [Removers -> Steps] /\ x \in Removers /\ rm[x].key \in Requests
      BY DEF TypeOK, Steps, RemoverConsistent
    <3>2. rm[x].why \in {"none", "cleanup", "delete"}
      BY <3>1 DEF Steps
    <3>3. PICK w \in Steps : rm' = [rm EXCEPT ![x] = w]
      BY <3>1, <3>2, RemoversAre
    <3> QED
      BY <3>1, <3>3, RemoverChanged
  <2>3. mishaps' \in 0..MaxMishaps
    BY DEF TypeOK
  <2>4. store' \subseteq Requests /\ doomed' \subseteq Requests
    BY DEF TypeOK, RemoverConsistent
  <2>5. /\ resv' \in [Requests -> {"none", "live", "expired", "old"}]
        /\ named' \subseteq {q \in Requests : resv'[q] # "none"}
    BY DEF TypeOK, RemoverConsistent
  <2>6. UNCHANGED <<landing, job, looked, history>>
    OBVIOUS
  <2> QED
    BY <2>1, <2>2, <2>3, <2>4, <2>5, <2>6 DEF TypeOK, Steps
<1>2. ObjectsOnRecord'
  BY DEF TypeOK, ObjectsOnRecord, RequestConsistent, RemoverConsistent
<1>3. \A q \in Requests : RequestConsistent(q)'
  BY DEF TypeOK, RequestConsistent, RemoverConsistent
<1>4. \A q \in Requests : RowConsistent(q)'
  BY DEF TypeOK, RequestConsistent, RowConsistent, RemoverConsistent
<1>5. \A y \in Removers : RemoverConsistent(y)'
  <2> SUFFICES ASSUME NEW y \in Removers PROVE RemoverConsistent(y)'
    OBVIOUS
  <2>1. CASE y = x
    BY <2>1 DEF TypeOK, RequestConsistent, RowConsistent, RemoverConsistent
  <2>2. CASE y # x
    <3>1. rm'[y] = rm[y]
      BY <2>2 DEF TypeOK
    <3> QED
      BY <3>1 DEF TypeOK, RequestConsistent, RowConsistent, RemoverConsistent
  <2> QED
    BY <2>1, <2>2
<1> QED
  BY <1>1, <1>2, <1>3, <1>4, <1>5 DEF IInv

LEMMA MarkStep ==
  ASSUME IInv, NEW x \in Removers, Mark(x)
  PROVE  IInv'
<1> USE UploadsAssumption DEF IInv, Mark, Set, Rest, Idle, requests, objects, history
<1>1. TypeOK'
  <2>1. job' \in [Requests -> Rows]
    <3> DEFINE w == [job[rm[x].key] EXCEPT !.deleted = TRUE, !.fence = "none", !.token = Nobody]
    <3>1. job \in [Requests -> Rows] /\ rm[x].key \in Requests
      BY DEF TypeOK, Rows, RemoverConsistent
    <3>2. w \in Rows
      BY <3>1, RowsAre
    <3>3. job' \in {job, [job EXCEPT ![rm[x].key] = w]}
      BY <3>1 DEF Rows
    <3> HIDE DEF w, IInv, Mark, Set, Rest, Idle, requests, objects, history
    <3> QED
      BY <3>1, <3>2, <3>3, RowChanged
  <2>2. rm' \in [Removers -> Steps]
    <3>1. rm \in [Removers -> Steps] /\ x \in Removers /\ rm[x].key \in Requests
      BY DEF TypeOK, Steps, RemoverConsistent
    <3>2. rm[x].why \in {"none", "cleanup", "delete"}
      BY <3>1 DEF Steps
    <3>3. PICK w \in Steps : rm' = [rm EXCEPT ![x] = w]
      BY <3>1, <3>2, RemoversAre
    <3> QED
      BY <3>1, <3>3, RemoverChanged
  <2>3. looked' \subseteq {q \in Requests : job'[q].status # "none"}
    BY DEF TypeOK
  <2>4. mishaps' \in 0..MaxMishaps
    BY DEF TypeOK
  <2> QED
    BY SMTT(30), <2>1, <2>2, <2>3, <2>4 DEF TypeOK, Rows, Steps
<1>2. ObjectsOnRecord'
  BY DEF TypeOK, ObjectsOnRecord, RequestConsistent, RemoverConsistent
<1>3. \A q \in Requests : RequestConsistent(q)'
  BY DEF TypeOK, RequestConsistent, RemoverConsistent
<1>4. \A q \in Requests : RowConsistent(q)'
  BY DEF TypeOK, RequestConsistent, RowConsistent, RemoverConsistent
<1>5. \A y \in Removers : RemoverConsistent(y)'
  <2> SUFFICES ASSUME NEW y \in Removers PROVE RemoverConsistent(y)'
    OBVIOUS
  <2>1. CASE y = x
    BY <2>1 DEF TypeOK, RequestConsistent, RowConsistent, RemoverConsistent
  <2>2. CASE y # x
    <3>1. rm'[y] = rm[y]
      BY <2>2 DEF TypeOK
    <3> QED
      BY <3>1 DEF TypeOK, RequestConsistent, RowConsistent, RemoverConsistent
  <2> QED
    BY <2>1, <2>2
<1> QED
  BY <1>1, <1>2, <1>3, <1>4, <1>5 DEF IInv

LEMMA EraseStep ==
  ASSUME IInv, NEW x \in Removers, Erase(x)
  PROVE  IInv'
<1> USE UploadsAssumption DEF IInv, Erase, Rest, Over, Idle, requests, objects, history
<1>1. TypeOK'
  <2>1. job' \in [Requests -> Rows]
    <3> DEFINE w == NoRow
    <3>1. job \in [Requests -> Rows] /\ rm[x].key \in Requests
      BY DEF TypeOK, Rows, RemoverConsistent
    <3>2. w \in Rows
      BY <3>1, RowsAre
    <3>3. job' \in {job, [job EXCEPT ![rm[x].key] = w]}
      BY <3>1 DEF Rows
    <3> HIDE DEF w, IInv, Erase, Rest, Over, Idle, requests, objects, history
    <3> QED
      BY <3>1, <3>2, <3>3, RowChanged
  <2>2. rm' \in [Removers -> Steps]
    <3>1. rm \in [Removers -> Steps] /\ x \in Removers /\ rm[x].key \in Requests
      BY DEF TypeOK, Steps, RemoverConsistent
    <3>2. rm[x].why \in {"none", "cleanup", "delete"}
      BY <3>1 DEF Steps
    <3>3. PICK w \in Steps : rm' = [rm EXCEPT ![x] = w]
      BY <3>1, <3>2, RemoversAre
    <3> QED
      BY <3>1, <3>3, RemoverChanged
  <2>3. looked' \subseteq {q \in Requests : job'[q].status # "none"}
    BY DEF TypeOK
  <2>4. mishaps' \in 0..MaxMishaps
    BY DEF TypeOK
  <2> QED
    BY SMTT(30), <2>1, <2>2, <2>3, <2>4 DEF TypeOK, Rows, Steps
<1>2. ObjectsOnRecord'
  BY DEF TypeOK, ObjectsOnRecord, RequestConsistent, RemoverConsistent
<1>3. \A q \in Requests : RequestConsistent(q)'
  BY DEF TypeOK, RequestConsistent, RemoverConsistent
<1>4. \A q \in Requests : RowConsistent(q)'
  BY DEF TypeOK, RequestConsistent, RowConsistent, RemoverConsistent, NoRow
<1>5. \A y \in Removers : RemoverConsistent(y)'
  BY DEF TypeOK, RequestConsistent, RowConsistent, RemoverConsistent, NoRow
<1> QED
  BY <1>1, <1>2, <1>3, <1>4, <1>5 DEF IInv

LEMMA SweepObjectStep ==
  ASSUME IInv, NEW x \in Removers, SweepObject(x)
  PROVE  IInv'
<1> USE UploadsAssumption DEF IInv, SweepObject, Rest, Remove, DropRow, Mishap, Idle, requests, objects, history
<1>1. TypeOK'
  <2>1. pc' \in [Requests -> {"idle", "receive", "transfer", "commit", "redundant", "undo", "end"}]
    BY DEF TypeOK
  <2>2. rm' \in [Removers -> Steps]
    <3>1. rm \in [Removers -> Steps] /\ x \in Removers /\ rm[x].key \in Requests
      BY DEF TypeOK, Steps, RemoverConsistent
    <3>2. rm[x].why \in {"none", "cleanup", "delete"}
      BY <3>1 DEF Steps
    <3>3. PICK w \in Steps : rm' = [rm EXCEPT ![x] = w]
      BY <3>1, <3>2, RemoversAre
    <3> QED
      BY <3>1, <3>3, RemoverChanged
  <2>3. mishaps' \in 0..MaxMishaps
    BY DEF TypeOK
  <2>4. store' \subseteq Requests /\ doomed' \subseteq Requests
    BY DEF TypeOK, RemoverConsistent
  <2>5. /\ resv' \in [Requests -> {"none", "live", "expired", "old"}]
        /\ named' \subseteq {q \in Requests : resv'[q] # "none"}
    BY DEF TypeOK, RemoverConsistent
  <2>6. UNCHANGED <<landing, job, looked, history>>
    OBVIOUS
  <2> QED
    BY <2>1, <2>2, <2>3, <2>4, <2>5, <2>6 DEF TypeOK, Steps
<1>2. ObjectsOnRecord'
  BY DEF TypeOK, ObjectsOnRecord, RequestConsistent, RemoverConsistent
<1>3. \A q \in Requests : RequestConsistent(q)'
  BY DEF TypeOK, RequestConsistent, RemoverConsistent
<1>4. \A q \in Requests : RowConsistent(q)'
  BY DEF TypeOK, RequestConsistent, RowConsistent, RemoverConsistent
<1>5. \A y \in Removers : RemoverConsistent(y)'
  BY DEF TypeOK, RequestConsistent, RowConsistent, RemoverConsistent
<1> QED
  BY <1>1, <1>2, <1>3, <1>4, <1>5 DEF IInv

LEMMA InterruptStep ==
  ASSUME IInv, NEW x \in Removers, Interrupt(x)
  PROVE  IInv'
<1> USE UploadsAssumption DEF IInv, Interrupt, Rest, Mishap, Idle, requests, objects, history
<1>1. TypeOK'
  BY DEF TypeOK
<1>2. ObjectsOnRecord'
  BY DEF TypeOK, ObjectsOnRecord, RequestConsistent, RemoverConsistent
<1>3. \A q \in Requests : RequestConsistent(q)'
  BY DEF TypeOK, RequestConsistent, RemoverConsistent
<1>4. \A q \in Requests : RowConsistent(q)'
  BY DEF TypeOK, RequestConsistent, RowConsistent, RemoverConsistent
<1>5. \A y \in Removers : RemoverConsistent(y)'
  BY DEF TypeOK, RequestConsistent, RowConsistent, RemoverConsistent
<1> QED
  BY <1>1, <1>2, <1>3, <1>4, <1>5 DEF IInv

-----------------------------------------------------------------------------
LEMMA Initially == Init => IInv
<1> SUFFICES ASSUME Init PROVE IInv
  OBVIOUS
<1> USE UploadsAssumption DEF Init, NoRow, Idle
<1>1. TypeOK
  BY DEF TypeOK
<1>2. ObjectsOnRecord
  BY DEF ObjectsOnRecord
<1>3. \A r \in Requests : RequestConsistent(r) /\ RowConsistent(r)
  BY DEF RequestConsistent, RowConsistent
<1>4. \A x \in Removers : RemoverConsistent(x)
  BY DEF RemoverConsistent
<1> QED
  BY <1>1, <1>2, <1>3, <1>4 DEF IInv

LEMMA Inductive == IInv /\ [Next]_vars => IInv'
<1> SUFFICES ASSUME IInv, [Next]_vars PROVE IInv'
  OBVIOUS
<1>1. CASE UNCHANGED vars
  BY <1>1 DEF IInv, vars, requests, objects, history, TypeOK, ObjectsOnRecord,
     RequestConsistent, RowConsistent, RemoverConsistent
<1>2. ASSUME NEW r \in Requests, Request(r) PROVE IInv'
  BY <1>2, ReserveStep, ReleaseStep, TransferStep, StoredStep, TransferFailsStep,
     CreateJobStep, FindJobStep, CreateFailsStep, UndoStep, DropRedundantStep, CrashStep
     DEF Request, Proceed
<1>3. ASSUME NEW r \in Requests, Time(r) PROVE IInv'
  BY <1>3, ReservationAgesStep, SourceAgesStep, LandsStep, VanishesLateStep DEF Time
<1>4. ASSUME NEW r \in Requests, Job(r) PROVE IInv'
  BY <1>4, WorkStep, LeaseLapsesStep, LookForSourceStep, RetryStep DEF Job
<1>5. ASSUME NEW x \in Removers, Removal(x) PROVE IInv'
  BY <1>5, ListStep, DeleteStep, SweepStep, FenceStep, RemoveSourceStep, MarkStep,
     EraseStep, SweepObjectStep, InterruptStep
     DEF Removal, Carry
<1> QED
  BY <1>1, <1>2, <1>3, <1>4, <1>5 DEF Next

\* The invariant of every reachable state.
THEOREM Invariant == Spec => []IInv
BY Initially, Inductive, PTL DEF Spec

\* Every variable has its type, and a reservation names an object only while its
\* row exists.
THEOREM TypesCorrect == Spec => []TypeOK
<1>1. IInv => TypeOK
  BY DEF IInv
<1> QED
  BY <1>1, Invariant, PTL

\* No object of the bucket, and none on its way there, is ever off the record,
\* whatever request, cleanup or deletion stopped where.
THEOREM NoOrphan == Spec => []ObjectsOnRecord
<1>1. IInv => ObjectsOnRecord
  BY DEF IInv
<1> QED
  BY <1>1, Invariant, PTL

\* No active job is without its source, and no removal of it is under way, for
\* any number of deletions and retries at once.
THEOREM ActiveHasSource == Spec => []SourceOfActiveJob
<1>1. ASSUME IInv PROVE SourceOfActiveJob
  <2> SUFFICES ASSUME NEW r \in Requests \ unsure,
                      job[r].status = "active" \/ job[r].lease
               PROVE  /\ r \in store \ doomed
                      /\ \A x \in Removers :
                           rm[x].key = r => rm[x].step \notin {"remove", "mark", "sweep"}
    BY DEF SourceOfActiveJob
  <2>1. /\ job[r].status # "none" /\ job[r].fence = "none" /\ ~job[r].deleted
        /\ r \in store /\ r \notin doomed
    BY <1>1 DEF IInv, RowConsistent
  <2>2. ASSUME NEW x \in Removers, rm[x].key = r
        PROVE  rm[x].step \notin {"remove", "mark", "sweep"}
    BY <1>1, <2>1, <2>2 DEF IInv, RemoverConsistent
  <2> QED
    BY <2>1, <2>2
<1> QED
  BY <1>1, Invariant, PTL
=============================================================================
