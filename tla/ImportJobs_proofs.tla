------------------------- MODULE ImportJobs_proofs -------------------------
(***************************************************************************)
(* The safety of ImportJobs for every number of jobs, requests and         *)
(* containers, every lifetime of a reservation or a queued row and every   *)
(* hard timeout shorter than the lease.                                    *)
(*                                                                         *)
(* None of the checked invariants is inductive.  LiveImportKeepsItsJob     *)
(* needs the lease to outlast what is left of the container                *)
(* (LeaseOutlivesWork) and no second container of the job (OneImporter).   *)
(* ActiveHasReports needs to know of everyone about to delete reports that *)
(* the job is not to be worked on any more, and of the requests about to   *)
(* queue a job that its reports are there (RequestsFollow,                 *)
(* ContainersFollow), which in turn needs that an identifier without a row *)
(* belongs to one request (OneRequest).                                    *)
(***************************************************************************)
EXTENDS ImportJobs, FiniteSetTheorems, TLAPS

\* The states of a job that was queued once, and those it ends in.
Ended == {"succeeded", "failed"}
Worked == {"queued", "running"} \cup Ended

\* No container has more time left than the hard timeout.
BudgetBound == \A w \in Worker : workers[w].budget <= WorkerTimeout

\* The lease of a job outlives the container that claimed it.
LeaseOutlivesWork ==
    \A w \in Worker : IsImporting(w) =>
        LET row == jobs[workers[w].job] IN
        \/ row.state = "running" /\ row.attempts = workers[w].gen /\ workers[w].budget < row.lease
        \/ row.state = "failed" /\ row.ambiguous

\* A running job has one container at most.
OneImporter ==
    \A v, w \in Worker :
        /\ IsImporting(v) /\ IsImporting(w) /\ workers[v].job = workers[w].job
        /\ jobs[workers[v].job].state = "running"
        => v = w

\* The workload has one active job at most.
OneActive == \A j, k \in Job : Active(j) /\ Active(k) => j = k

\* The jobs of containers before and after their import.
ContainersFollow ==
    \A w \in Worker : LET row == jobs[workers[w].job] IN
        /\ workers[w].pc = "started" => row.state \in Worked
        /\ workers[w].pc = "deleting" => row.state \in Ended

\* The jobs of requests: who is to queue one has its reports, who is to delete the reports
\* has no job to be worked on.
RequestFollows(h) ==
    LET me == handlers[h]
        row == jobs[me.job] IN
        /\ me.pc = "staged" => row.state = "absent" /\ me.job \in stored
        /\ me.pc = "verified" => /\ row.state # "absent"
                                 /\ row.state = "staging" => me.job \in stored
        /\ me.pc \in {"dispatching", "spawned", "failing"} => row.state \in Worked
        /\ me.pc \in {"discarding", "replaying"} => row.state \in Ended \cup {"absent"}
        /\ me.pc = "replaying" => keyed # NoJob

RequestsFollow == \A h \in Handler : RequestFollows(h)

\* An identifier without a row belongs to one request.
OneRequest ==
    \A g, h \in Handler :
        /\ handlers[g].pc # "idle" /\ handlers[h].pc # "idle" /\ handlers[g].job = handlers[h].job
        /\ jobs[handlers[g].job].state = "absent"
        => g = h

\* The gateway's key names the one job the gateway has made.
KeyNamesJob ==
    /\ keyed # NoJob => jobs[keyed].state \in Worked
    /\ \A j \in Job : jobs[j].source = "gateway" /\ jobs[j].state # "absent" => j = keyed

\* A container about to succeed leaves no evidence of its own without evaluation.
FinishingIsEvaluated ==
    \A w \in Worker :
        /\ workers[w].pc = "finishing" /\ evidence.by = workers[w].job
        /\ jobs[workers[w].job].state = "running"
        => evidence.evaluated

\* A job that has ended stays as it ended and of whom it was, although containers, dispatchers
\* and uploads of it may still be on their way.
EndedStaysEnded ==
    [][\A j \in Job : jobs[j].state \in Ended =>
          jobs'[j].state = jobs[j].state /\ jobs'[j].source = jobs[j].source]_vars

\* The inductive invariant.
IInv == /\ TypeOK /\ BudgetBound /\ LeaseOutlivesWork /\ OneImporter /\ OneActive
        /\ ContainersFollow /\ RequestsFollow /\ OneRequest /\ KeyNamesJob
        /\ ActiveHasReports /\ FinishingIsEvaluated /\ SuccessIsEvaluated

-----------------------------------------------------------------------------
\* The rows the program makes are rows: of a submission and of a reservation.
QueuedRow(source) == [NoRow EXCEPT !.state = "queued", !.source = source, !.ttl = QueueTTL]
ReservedRow == [NoRow EXCEPT !.state = "staging", !.source = "ci", !.ttl = QueueTTL,
                             !.staging = StagingTTL, !.url = StagingTTL]

\* New rows have the type of rows, and the state and source they are made with.
LEMMA NewRows ==
  /\ NoRow \in Row /\ NoRow.state = "absent"
  /\ \A s \in Sources : /\ QueuedRow(s) \in Row
                        /\ QueuedRow(s).state = "queued" /\ QueuedRow(s).source = s
  /\ ReservedRow \in Row /\ ReservedRow.state = "staging" /\ ReservedRow.source = "ci"
BY ImportAssumption DEF NoRow, QueuedRow, ReservedRow, Row, Sources

\* A countdown stays a natural number and stays above a smaller one.
LEMMA DecFacts ==
  /\ \A n \in Nat : Dec(n) \in Nat /\ Dec(n) <= n
  /\ \A m, n \in Nat : 0 < m /\ m < n => Dec(m) < Dec(n)
BY DEF Dec

\* A tick shortens leases and budgets, and leaves the rest of rows and containers.
LEMMA TickFacts ==
  ASSUME TypeOK, Tick
  PROVE  /\ \A j \in Job : /\ jobs'[j].state = jobs[j].state /\ jobs'[j].source = jobs[j].source
                          /\ jobs'[j].ambiguous = jobs[j].ambiguous
                          /\ jobs'[j].attempts = jobs[j].attempts
                          /\ jobs'[j].lease = Dec(jobs[j].lease)
         /\ \A w \in Worker : /\ workers'[w].pc = workers[w].pc
                             /\ workers'[w].job = workers[w].job
                             /\ workers'[w].gen = workers[w].gen
                             /\ workers'[w].budget = Dec(workers[w].budget)
<1>1. ASSUME NEW j \in Job
      PROVE  /\ jobs'[j].state = jobs[j].state /\ jobs'[j].source = jobs[j].source
             /\ jobs'[j].ambiguous = jobs[j].ambiguous /\ jobs'[j].attempts = jobs[j].attempts
             /\ jobs'[j].lease = Dec(jobs[j].lease)
  <2>1. /\ jobs[j] \in Row
        /\ jobs'[j] = [jobs[j] EXCEPT !.lease = Dec(@), !.ttl = Dec(@),
                                      !.staging = Dec(@), !.url = Dec(@)]
    BY DEF Tick, TypeOK
  <2> QED
    BY <2>1 DEF Row
<1>2. ASSUME NEW w \in Worker
      PROVE  /\ workers'[w].pc = workers[w].pc /\ workers'[w].job = workers[w].job
             /\ workers'[w].gen = workers[w].gen
             /\ workers'[w].budget = Dec(workers[w].budget)
  <2>1. workers[w] \in Container /\ workers'[w] = [workers[w] EXCEPT !.budget = Dec(@)]
    BY DEF Tick, TypeOK
  <2> QED
    BY <2>1 DEF Container
<1> QED
  BY <1>1, <1>2

\* Who goes on, ends or claims changes no other container, and of its own what it says.
LEMMA ContainerMoves ==
  ASSUME TypeOK, NEW v \in Worker, NEW w \in Worker
  PROVE  /\ \A pc : Goto(v, pc) =>
              /\ v # w => workers'[w] = workers[w]
              /\ v = w => /\ workers'[w].pc = pc /\ workers'[w].job = workers[w].job
                          /\ workers'[w].gen = workers[w].gen
                          /\ workers'[w].budget = workers[w].budget
         /\ Exit(v) => /\ v # w => workers'[w] = workers[w]
                       /\ v = w => workers'[w].pc = "off" /\ workers'[w].budget = 0
         /\ \A j, lease : Take(v, j, lease) =>
              /\ v # w => workers'[w] = workers[w]
              /\ v = w => /\ workers'[w].pc = "claimed" /\ workers'[w].job = workers[w].job
                          /\ workers'[w].budget = workers[w].budget
<1>t. workers[v] \in Container /\ workers \in [Worker -> Container]
  BY DEF TypeOK
<1>1. ASSUME NEW pc, Goto(v, pc)
      PROVE  /\ v # w => workers'[w] = workers[w]
             /\ v = w => /\ workers'[w].pc = pc /\ workers'[w].job = workers[w].job
                         /\ workers'[w].gen = workers[w].gen
                         /\ workers'[w].budget = workers[w].budget
  <2>1. workers' = [workers EXCEPT ![v] = [workers[v] EXCEPT !.pc = pc]]
    BY <1>1 DEF Goto
  <2> QED
    BY <1>t, <2>1 DEF Container
<1>2. ASSUME Exit(v)
      PROVE  /\ v # w => workers'[w] = workers[w]
             /\ v = w => workers'[w].pc = "off" /\ workers'[w].budget = 0
  BY <1>t, <1>2 DEF Exit, Off
<1>3. ASSUME NEW j, NEW lease, Take(v, j, lease)
      PROVE  /\ v # w => workers'[w] = workers[w]
             /\ v = w => /\ workers'[w].pc = "claimed" /\ workers'[w].job = workers[w].job
                         /\ workers'[w].budget = workers[w].budget
  <2>1. workers' = [workers EXCEPT ![v] = [workers[v] EXCEPT !.pc = "claimed",
                                                             !.gen = jobs[j].attempts + 1]]
    BY <1>3 DEF Take
  <2> QED
    BY <1>t, <2>1 DEF Container
<1> QED
  BY <1>1, <1>2, <1>3

\* A failed row is a row that keeps all but its state and its lease.
LEMMA FailedFacts ==
  ASSUME jobs \in [Job -> Row], NEW j \in Job
  PROVE  /\ Failed(j) \in Row
         /\ Failed(j).state = "failed" /\ Failed(j).source = jobs[j].source
         /\ Failed(j).ambiguous = jobs[j].ambiguous
         /\ [Failed(j) EXCEPT !.ambiguous = TRUE] \in Row
         /\ [Failed(j) EXCEPT !.ambiguous = TRUE].state = "failed"
         /\ [Failed(j) EXCEPT !.ambiguous = TRUE].source = jobs[j].source
         /\ [Failed(j) EXCEPT !.ambiguous = TRUE].ambiguous
BY DEF Failed, Row

\* What a submission expires and a reservation releases fails; other rows stay.
LEMMA ExpiredFacts ==
  ASSUME jobs \in [Job -> Row]
  PROVE  /\ Expired \in [Job -> Row] /\ Released \in [Job -> Row]
         /\ \A j \in Job : /\ Expired[j] = IF Stale(j) THEN Failed(j) ELSE jobs[j]
                           /\ Released[j] = IF Lapsed(j) THEN Failed(j) ELSE jobs[j]
BY FailedFacts DEF Expired, Released

\* The updates of single fields keep the type of a row.
LEMMA RowUpdates ==
  ASSUME NEW r \in Row, NEW n \in Nat
  PROVE  /\ [r EXCEPT !.state = "queued"] \in Row
         /\ [r EXCEPT !.called = TRUE] \in Row
         /\ [r EXCEPT !.url = n] \in Row
         /\ [r EXCEPT !.state = "queued", !.lease = 0] \in Row
         /\ [r EXCEPT !.state = "succeeded", !.lease = 0] \in Row
         /\ [r EXCEPT !.state = "running", !.attempts = @ + 1, !.lease = n] \in Row
         /\ r.attempts + 1 \in Nat
         /\ [r EXCEPT !.lease = Dec(@), !.ttl = Dec(@), !.staging = Dec(@), !.url = Dec(@)] \in Row
<1>1. r.attempts + 1 \in Nat
  BY DEF Row
<1>2. \A m \in Nat : [r EXCEPT !.state = "running", !.attempts = m, !.lease = n] \in Row
  BY DEF Row
<1>3. [r EXCEPT !.state = "running", !.attempts = @ + 1, !.lease = n]
        = [r EXCEPT !.state = "running", !.attempts = r.attempts + 1, !.lease = n]
  BY DEF Row
<1>4. [r EXCEPT !.lease = Dec(@), !.ttl = Dec(@), !.staging = Dec(@), !.url = Dec(@)] \in Row
  <2>1. Dec(r.lease) \in Nat /\ Dec(r.ttl) \in Nat /\ Dec(r.staging) \in Nat /\ Dec(r.url) \in Nat
    BY DecFacts DEF Row
  <2> QED
    BY <2>1 DEF Row
<1>5. /\ [r EXCEPT !.state = "queued"] \in Row /\ [r EXCEPT !.called = TRUE] \in Row
      /\ [r EXCEPT !.url = n] \in Row
      /\ [r EXCEPT !.state = "queued", !.lease = 0] \in Row
      /\ [r EXCEPT !.state = "succeeded", !.lease = 0] \in Row
  BY DEF Row
<1> QED
  BY <1>1, <1>2, <1>3, <1>4, <1>5

\* The initial state satisfies the inductive invariant.
LEMMA InitInv == Init => IInv
<1> SUFFICES ASSUME Init PROVE IInv
  OBVIOUS
<1>1. TypeOK
  BY NewRows DEF Init, TypeOK, Idle, Off, Container, HandlerState, Sources
<1>2. BudgetBound
  BY ImportAssumption DEF Init, BudgetBound, Off
<1>3. LeaseOutlivesWork /\ OneImporter /\ FinishingIsEvaluated /\ SuccessIsEvaluated
  BY DEF Init, LeaseOutlivesWork, OneImporter, FinishingIsEvaluated, SuccessIsEvaluated,
     IsImporting, Importing, Off
<1>4. OneActive /\ ActiveHasReports
  BY NewRows DEF Init, OneActive, ActiveHasReports, Active, Dispatched
<1>5. ContainersFollow /\ RequestsFollow /\ OneRequest
  BY DEF Init, ContainersFollow, RequestsFollow, RequestFollows, OneRequest, Off, Idle
<1>6. KeyNamesJob
  BY NewRows DEF Init, KeyNamesJob
<1> QED
  BY <1>1, <1>2, <1>3, <1>4, <1>5, <1>6 DEF IInv

-----------------------------------------------------------------------------
\* The row table after an action that makes a row, expiring or releasing others.
LEMMA InsertTypes ==
  ASSUME TypeOK, NEW j \in Job, NEW source \in Sources, Insert(j, source)
  PROVE  /\ jobs' \in [Job -> Row] /\ keyed' \in Job \cup {NoJob}
         /\ jobs'[j] = QueuedRow(source)
         /\ \A k \in Job \ {j} : jobs'[k] = IF Stale(k) THEN Failed(k) ELSE jobs[k]
<1>1. jobs' = [Expired EXCEPT ![j] = QueuedRow(source)]
  BY DEF Insert, QueuedRow
<1> QED
  BY <1>1, ExpiredFacts, NewRows DEF Insert, TypeOK

\* A reservation makes one row and releases the lapsed ones.
LEMMA ReserveTypes ==
  ASSUME TypeOK, NEW j \in Job, Reserve(j)
  PROVE  /\ jobs' \in [Job -> Row]
         /\ jobs'[j] = ReservedRow
         /\ \A k \in Job \ {j} : jobs'[k] = IF Lapsed(k) THEN Failed(k) ELSE jobs[k]
<1>1. jobs' = [Released EXCEPT ![j] = ReservedRow]
  BY DEF Reserve, ReservedRow
<1> QED
  BY <1>1, ExpiredFacts, NewRows DEF TypeOK

\* A repeated reservation releases the lapsed ones and changes what is left of its URLs.
LEMMA ReserveAgainTypes ==
  ASSUME TypeOK, NEW j \in Job, ReserveAgain(j)
  PROVE  /\ jobs' \in [Job -> Row]
         /\ \E n \in Nat : jobs'[j] = [IF Lapsed(j) THEN Failed(j) ELSE jobs[j] EXCEPT !.url = n]
         /\ \A k \in Job \ {j} : jobs'[k] = IF Lapsed(k) THEN Failed(k) ELSE jobs[k]
<1> DEFINE n == IF jobs[j].state = "staging" /\ ~Lapsed(j) THEN jobs[j].staging ELSE Released[j].url
<1>1. Released \in [Job -> Row] /\ Released[j] \in Row /\ jobs[j] \in Row
  BY ExpiredFacts DEF TypeOK
<1>2. n \in Nat
  BY <1>1 DEF Row
<1>3. jobs' = [Released EXCEPT ![j] = [Released[j] EXCEPT !.url = n]]
  BY <1>1 DEF ReserveAgain
<1>4. [Released[j] EXCEPT !.url = n] \in Row
  BY <1>1, <1>2, RowUpdates
<1>5. Released[j] = IF Lapsed(j) THEN Failed(j) ELSE jobs[j]
  BY ExpiredFacts DEF TypeOK
<1> HIDE DEF n
<1>6. jobs'[j] = [IF Lapsed(j) THEN Failed(j) ELSE jobs[j] EXCEPT !.url = n]
  BY <1>1, <1>3, <1>5
<1>7. jobs' \in [Job -> Row]
  BY <1>1, <1>3, <1>4
<1>8. \A k \in Job \ {j} : jobs'[k] = IF Lapsed(k) THEN Failed(k) ELSE jobs[k]
  BY <1>1, <1>3, ExpiredFacts DEF TypeOK
<1> QED
  BY <1>2, <1>6, <1>7, <1>8

\* Every step keeps the types.
LEMMA TypeStep == TypeOK /\ [Next]_vars => TypeOK'
<1> SUFFICES ASSUME TypeOK, [Next]_vars PROVE TypeOK'
  OBVIOUS
<1> USE DEF Sources
<1>a. Idle \in HandlerState /\ Off \in Container
  BY DEF Idle, Off, HandlerState, Container
<1>b. \A h \in Handler : Done(h) =>
        /\ handlers' \in [Handler -> HandlerState]
        /\ \A g \in Handler : handlers'[g].pc # "idle" => handlers'[g].job \in Job
  BY <1>a DEF Done, TypeOK, Idle
<1>c. \A h \in Handler, pc \in {"dispatching", "spawned", "failing", "discarding", "replaying"} :
        Put(h, pc) /\ handlers[h].pc # "idle" =>
          /\ handlers' \in [Handler -> HandlerState]
          /\ \A g \in Handler : handlers'[g].pc # "idle" => handlers'[g].job \in Job
  BY DEF Put, TypeOK, HandlerState
<1>d. \A h \in Handler, j \in Job, s \in Sources, pc \in {"staged", "verified", "dispatching"} :
        handlers' = [handlers EXCEPT ![h] = [pc |-> pc, job |-> j, source |-> s]] =>
          /\ handlers' \in [Handler -> HandlerState]
          /\ \A g \in Handler : handlers'[g].pc # "idle" => handlers'[g].job \in Job
  BY DEF TypeOK, HandlerState
<1>e. \A w \in Worker : Exit(w) =>
        /\ workers' \in [Worker -> Container]
        /\ \A v \in Worker : workers'[v].pc # "off" => workers'[v].job \in Job
  BY <1>a DEF Exit, TypeOK, Off
<1>f. \A w \in Worker, pc \in Importing \cup {"started", "deleting"} :
        Goto(w, pc) /\ workers[w].pc # "off" =>
          /\ workers' \in [Worker -> Container]
          /\ \A v \in Worker : workers'[v].pc # "off" => workers'[v].job \in Job
  BY DEF Goto, TypeOK, Container, Importing
<1>g. \A j \in Job : Failed(j) \in Row /\ [Failed(j) EXCEPT !.ambiguous = TRUE] \in Row
  BY FailedFacts DEF TypeOK
<1>1. ASSUME NEW h \in Handler, Submission(h) PROVE TypeOK'
  BY <1>1, <1>d DEF Submission, Stage, Verify, TypeOK
<1>2. ASSUME NEW h \in Handler, Replay(h) PROVE TypeOK'
  <2>1. keyed \in Job
    BY <1>2 DEF Replay, TypeOK
  <2> QED
    BY <1>2, <1>d, <2>1 DEF Replay, TypeOK
<1>3. ASSUME NEW h \in Handler, DispatchRaises(h) \/ ApiCrash(h) PROVE TypeOK'
  BY <1>3, <1>b, <1>c DEF DispatchRaises, ApiCrash, TypeOK
<1>4. ASSUME NEW h \in Handler, HandlerStep(h) PROVE TypeOK'
  <2>1. CASE Create(h)
    <3> DEFINE me == handlers[h]
    <3>1. me.job \in Job /\ me.source \in Sources /\ me.pc # "idle"
      BY <2>1 DEF Create, TypeOK, HandlerState
    <3>2. /\ handlers' \in [Handler -> HandlerState]
          /\ \A g \in Handler : handlers'[g].pc # "idle" => handlers'[g].job \in Job
      BY <2>1, <3>1, <1>b, <1>c DEF Create
    <3>3. jobs' \in [Job -> Row] /\ keyed' \in Job \cup {NoJob}
      <4>1. CASE Insert(me.job, me.source)
        BY <4>1, <3>1, InsertTypes
      <4>2. CASE UNCHANGED keyed /\ (jobs' = Expired \/ UNCHANGED jobs)
        BY <4>2, ExpiredFacts DEF TypeOK
      <4> QED
        BY <2>1, <4>1, <4>2 DEF Create
    <3> QED
      BY <2>1, <3>2, <3>3 DEF Create, TypeOK
  <2>2. CASE Discard(h)
    <3>1. CASE handlers[h].pc = "discarding"
      BY <2>2, <3>1, <1>b DEF Discard, TypeOK
    <3>2. CASE handlers[h].pc # "discarding"
      <4>1. keyed = NoJob \/ keyed \in Job
        BY DEF TypeOK
      <4>2. CASE keyed \in Job
        BY <2>2, <3>2, <4>2 DEF Discard, TypeOK, HandlerState
      <4> QED
        BY <2>2, <3>2, <4>1, <4>2 DEF Discard, TypeOK, HandlerState
    <3> QED
      BY <3>1, <3>2
  <2>3. CASE Queue(h)
    <3>1. handlers[h].job \in Job /\ [jobs[handlers[h].job] EXCEPT !.state = "queued"] \in Row
      BY <2>3, RowUpdates DEF Queue, TypeOK
    <3>2. jobs' \in [Job -> Row]
      BY <2>3, <3>1 DEF Queue, TypeOK
    <3> QED
      BY <2>3, <3>2, <1>b, <1>c DEF Queue, TypeOK
  <2>4. CASE Spawn(h)
    <3>1. PICK w \in Worker : workers' = [workers EXCEPT ![w] =
             [pc |-> "started", job |-> handlers[h].job, gen |-> 0, budget |-> WorkerTimeout]]
      BY <2>4 DEF Spawn
    <3>2. /\ workers' \in [Worker -> Container]
          /\ \A v \in Worker : workers'[v].pc # "off" => workers'[v].job \in Job
      BY <2>4, <3>1, ImportAssumption DEF Spawn, TypeOK, Container
    <3> QED
      BY <2>4, <3>2, <1>c DEF Spawn, TypeOK
  <2>5. CASE Acknowledge(h)
    <3>1. handlers[h].job \in Job /\ [jobs[handlers[h].job] EXCEPT !.called = TRUE] \in Row
      BY <2>5, RowUpdates DEF Acknowledge, TypeOK
    <3>2. jobs' \in [Job -> Row]
      BY <2>5, <3>1 DEF Acknowledge, TypeOK
    <3> QED
      BY <2>5, <3>2, <1>b DEF Acknowledge, TypeOK
  <2>6. CASE FailDispatch(h)
    <3>1. jobs' \in [Job -> Row]
      BY <2>6, <1>g DEF FailDispatch, TypeOK
    <3> QED
      BY <2>6, <3>1, <1>c DEF FailDispatch, TypeOK
  <2> QED
    BY <1>4, <2>1, <2>2, <2>3, <2>4, <2>5, <2>6 DEF HandlerStep
<1>5. ASSUME NEW j \in Job, Reserve(j) \/ ReserveAgain(j) \/ Upload(j) PROVE TypeOK'
  <2>1. CASE Reserve(j)
    BY <2>1, ReserveTypes DEF Reserve, TypeOK
  <2>2. CASE ReserveAgain(j)
    BY <2>2, ReserveAgainTypes DEF ReserveAgain, TypeOK
  <2>3. CASE Upload(j)
    BY <2>3 DEF Upload, TypeOK
  <2> QED
    BY <1>5, <2>1, <2>2, <2>3
<1>6. ASSUME NEW w \in Worker, WorkerStep(w) \/ Stop(w) PROVE TypeOK'
  <2>1. CASE Claim(w)
    <3> DEFINE j == workers[w].job
    <3>1. j \in Job /\ jobs[j] \in Row /\ workers[w] \in Container /\ WorkerLease \in Nat
      BY <2>1, ImportAssumption DEF Claim, TypeOK
    <3>2. CASE Take(w, j, WorkerLease)
      <4>1. /\ [jobs[j] EXCEPT !.state = "running", !.attempts = @ + 1, !.lease = WorkerLease] \in Row
            /\ jobs[j].attempts + 1 \in Nat
        BY <3>1, RowUpdates
      <4>2. [workers[w] EXCEPT !.pc = "claimed", !.gen = jobs[j].attempts + 1] \in Container
        BY <3>1, <4>1 DEF Container, Importing
      <4> QED
        BY <2>1, <3>1, <3>2, <4>1, <4>2 DEF Claim, Take, TypeOK, Container
    <3>3. CASE Exit(w) /\ UNCHANGED jobs
      BY <2>1, <3>3, <1>e DEF Claim, TypeOK
    <3> QED
      BY <2>1, <3>2, <3>3 DEF Claim
  <2>2. CASE ReadReports(w) \/ WorkRaises(w)
    BY <2>2, <1>f DEF ReadReports, WorkRaises, TypeOK, Importing
  <2>3. CASE Ingest(w) \/ EvaluateIssues(w)
    <3>1. /\ workers' \in [Worker -> Container]
          /\ \A v \in Worker : workers'[v].pc # "off" => workers'[v].job \in Job
      BY <2>3, <1>f DEF Ingest, EvaluateIssues, Importing
    <3>2. evidence' \in [by : Job \cup {NoJob}, evaluated : BOOLEAN]
      <4>1. workers[w].job \in Job
        BY <2>3 DEF Ingest, EvaluateIssues, TypeOK
      <4>2. CASE Ingest(w)
        BY <4>1, <4>2 DEF Ingest
      <4>3. CASE EvaluateIssues(w)
        BY <4>3 DEF EvaluateIssues, TypeOK
      <4> QED
        BY <2>3, <4>2, <4>3
    <3> QED
      BY <2>3, <3>1, <3>2 DEF Ingest, EvaluateIssues, TypeOK
  <2>4. CASE Complete(w)
    <3>1. /\ workers[w].job \in Job
          /\ [jobs[workers[w].job] EXCEPT !.state = "succeeded", !.lease = 0] \in Row
      BY <2>4, RowUpdates DEF Complete, TypeOK
    <3>2. jobs' \in [Job -> Row]
      BY <2>4, <3>1 DEF Complete, TypeOK
    <3> QED
      BY <2>4, <3>2, <1>f DEF Complete, TypeOK
  <2>5. CASE Fail(w)
    <3>1. /\ workers[w].job \in Job
          /\ [jobs[workers[w].job] EXCEPT !.state = "queued", !.lease = 0] \in Row
      BY <2>5, RowUpdates DEF Fail, TypeOK
    <3>2. jobs' \in [Job -> Row]
      BY <2>5, <3>1, <1>g DEF Fail, TypeOK
    <3> QED
      BY <2>5, <3>2, <1>f DEF Fail, TypeOK
  <2>6. CASE DeleteReports(w) \/ Stop(w)
    BY <2>6, <1>e DEF DeleteReports, Stop, TypeOK
  <2> QED
    BY <1>6, <2>1, <2>2, <2>3, <2>4, <2>5, <2>6 DEF WorkerStep
<1>7. ASSUME Tick PROVE TypeOK'
  <2>1. \A j \in Job : [jobs[j] EXCEPT !.lease = Dec(@), !.ttl = Dec(@),
                                       !.staging = Dec(@), !.url = Dec(@)] \in Row
    BY RowUpdates DEF TypeOK
  <2>2. jobs' \in [Job -> Row]
    BY <1>7, <2>1 DEF Tick
  <2>3. \A w \in Worker : /\ [workers[w] EXCEPT !.budget = Dec(@)] \in Container
                          /\ [workers[w] EXCEPT !.budget = Dec(@)].pc = workers[w].pc
                          /\ [workers[w] EXCEPT !.budget = Dec(@)].job = workers[w].job
    <3>1. \A w \in Worker : Dec(workers[w].budget) \in Nat
      BY DecFacts DEF TypeOK, Container
    <3> QED
      BY <3>1 DEF TypeOK, Container
  <2> QED
    BY <1>7, <2>2, <2>3 DEF Tick, TypeOK
<1>8. CASE UNCHANGED vars
  BY <1>8 DEF vars, TypeOK
<1> QED
  BY <1>1, <1>2, <1>3, <1>4, <1>5, <1>6, <1>7, <1>8 DEF Next

-----------------------------------------------------------------------------
\* What a step may do to the row of a job: make it, once; queue a reservation whose reports
\* a request has verified; work on it; end it, for good.
Made(j) ==
    \/ /\ jobs'[j].state = "staging" /\ jobs'[j].source = "ci"
       /\ Reserve(j)
    \/ /\ jobs'[j].state = "queued"
       /\ \E h \in Handler : /\ handlers[h].pc = "staged" /\ handlers[h].job = j
                             /\ handlers[h].source = jobs'[j].source
                             /\ Insert(j, jobs'[j].source)
                             /\ keyed' = IF jobs'[j].source = "gateway" THEN j ELSE keyed
                             /\ handlers'[h] # handlers[h]

Queued(j) ==
    /\ jobs[j].state = "staging" /\ jobs'[j].state = "queued"
    /\ \E h \in Handler : handlers[h].pc = "verified" /\ handlers[h].job = j

RowStep(j) ==
    \/ jobs[j].state = "absent" /\ jobs'[j].state = "absent"
    \/ jobs[j].state = "absent" /\ Made(j)
    \/ /\ jobs'[j].source = jobs[j].source
       /\ \/ jobs'[j].state = jobs[j].state /\ jobs[j].state # "absent"
          \/ Active(j) /\ jobs'[j].state = "failed"
          \/ Queued(j)
          \/ Dispatched(j) /\ jobs'[j].state \in Worked

\* An action that makes no job changes the key not and rows only as said.
LEMMA RowSteps ==
  ASSUME TypeOK, RequestsFollow, [Next]_vars
  PROVE  \A j \in Job : RowStep(j)
<1> USE DEF Sources, Worked, Ended
<1>u. \A j \in Job : jobs'[j] = jobs[j] => RowStep(j)
  BY DEF RowStep
<1>f. \A j \in Job : jobs'[j] = Failed(j) /\ Active(j) => RowStep(j)
  BY FailedFacts DEF RowStep, TypeOK
<1>s. \A j \in Job : (Stale(j) \/ Lapsed(j)) => Active(j)
  BY DEF Stale, Lapsed, Active, Dispatched
<1>1. ASSUME NEW h \in Handler, Submission(h) \/ Replay(h) \/ DispatchRaises(h) \/ ApiCrash(h)
      PROVE  \A j \in Job : RowStep(j)
  BY <1>1, <1>u DEF Submission, Stage, Verify, Replay, DispatchRaises, ApiCrash
<1>2. ASSUME NEW h \in Handler, Create(h) PROVE \A j \in Job : RowStep(j)
  <2> DEFINE me == handlers[h]
  <2>1. /\ me.job \in Job /\ me.source \in Sources
        /\ jobs[me.job].state = "absent" /\ me.pc = "staged"
    BY <1>2 DEF Create, TypeOK, HandlerState, RequestsFollow, RequestFollows
  <2>2. CASE ~(me.source = "gateway" /\ keyed # NoJob) /\ Insert(me.job, me.source)
             /\ (Put(h, "dispatching") \/ Done(h))
    <3>1. /\ jobs'[me.job] = QueuedRow(me.source)
          /\ \A k \in Job \ {me.job} : jobs'[k] = IF Stale(k) THEN Failed(k) ELSE jobs[k]
      BY <2>1, <2>2, InsertTypes
    <3>2. Made(me.job)
      <4>1. jobs'[me.job].state = "queued" /\ jobs'[me.job].source = me.source
        BY <2>1, <3>1, NewRows
      <4>2. handlers'[h] # handlers[h]
        BY <2>1, <2>2 DEF Put, Done, Idle, TypeOK, HandlerState
      <4>3. keyed' = IF me.source = "gateway" THEN me.job ELSE keyed
        BY <2>2 DEF Insert
      <4> QED
        BY <2>1, <2>2, <4>1, <4>2, <4>3 DEF Made
    <3>3. \A k \in Job \ {me.job} : RowStep(k)
      BY <3>1, <1>u, <1>f, <1>s
    <3>4. RowStep(me.job)
      BY <2>1, <3>2 DEF RowStep
    <3> QED
      BY <3>3, <3>4
  <2>3. CASE jobs' = Expired \/ UNCHANGED jobs
    <3>1. \A k \in Job : (jobs'[k] = Failed(k) /\ Stale(k)) \/ jobs'[k] = jobs[k]
      BY <2>3, ExpiredFacts DEF TypeOK
    <3> QED
      BY <3>1, <1>u, <1>f, <1>s
  <2> QED
    BY <1>2, <2>2, <2>3 DEF Create
<1>3. ASSUME NEW h \in Handler, Queue(h) PROVE \A j \in Job : RowStep(j)
  <2> DEFINE j == handlers[h].job
  <2>1. j \in Job /\ handlers[h].pc = "verified"
    BY <1>3 DEF Queue, TypeOK
  <2>2. CASE jobs[j].state = "staging" /\ jobs' = [jobs EXCEPT ![j].state = "queued"]
    <3>1. jobs'[j].state = "queued" /\ jobs'[j].source = jobs[j].source
      BY <2>1, <2>2 DEF TypeOK, Row
    <3>2. RowStep(j)
      BY <2>1, <2>2, <3>1 DEF RowStep, Queued
    <3>3. \A k \in Job \ {j} : RowStep(k)
      BY <2>2, <1>u DEF TypeOK
    <3> QED
      BY <3>2, <3>3
  <2> QED
    BY <1>3, <1>u, <2>2 DEF Queue
<1>4. ASSUME NEW h \in Handler, Acknowledge(h) PROVE \A j \in Job : RowStep(j)
  <2>1. \A j \in Job : jobs'[j].state = jobs[j].state /\ jobs'[j].source = jobs[j].source
    BY <1>4 DEF Acknowledge, TypeOK, Row
  <2> QED
    BY <2>1 DEF RowStep
<1>5. ASSUME NEW h \in Handler, FailDispatch(h) PROVE \A j \in Job : RowStep(j)
  <2> DEFINE j == handlers[h].job
  <2>1. j \in Job
    BY <1>5 DEF FailDispatch, TypeOK
  <2>2. CASE Dispatched(j)
    <3>1. jobs'[j].state = "failed" /\ jobs'[j].source = jobs[j].source
      BY <1>5, <2>1, <2>2, FailedFacts DEF FailDispatch, TypeOK
    <3>2. RowStep(j)
      BY <2>2, <3>1 DEF RowStep, Active
    <3>3. \A k \in Job \ {j} : RowStep(k)
      BY <1>5, <2>2, <1>u DEF FailDispatch, TypeOK
    <3> QED
      BY <3>2, <3>3
  <2> QED
    BY <1>5, <2>2, <1>u DEF FailDispatch
<1>6. ASSUME NEW h \in Handler, Discard(h) \/ Spawn(h) PROVE \A j \in Job : RowStep(j)
  BY <1>6, <1>u DEF Discard, Spawn
<1>7. ASSUME NEW i \in Job, Reserve(i) PROVE \A j \in Job : RowStep(j)
  <2>1. /\ jobs'[i] = ReservedRow
        /\ \A k \in Job \ {i} : jobs'[k] = IF Lapsed(k) THEN Failed(k) ELSE jobs[k]
    BY <1>7, ReserveTypes
  <2>2. Made(i) /\ jobs[i].state = "absent"
    BY <1>7, <2>1, NewRows DEF Made, Reserve, Fresh
  <2> QED
    BY <2>1, <2>2, <1>u, <1>f, <1>s DEF RowStep
<1>8. ASSUME NEW i \in Job, ReserveAgain(i) PROVE \A j \in Job : RowStep(j)
  <2>1. PICK n \in Nat : jobs'[i] = [IF Lapsed(i) THEN Failed(i) ELSE jobs[i] EXCEPT !.url = n]
    BY <1>8, ReserveAgainTypes
  <2>2. /\ jobs'[i].state = IF Lapsed(i) THEN "failed" ELSE jobs[i].state
        /\ jobs'[i].source = jobs[i].source
    <3>1. jobs[i] \in Row /\ Failed(i) \in Row
      BY FailedFacts DEF TypeOK
    <3>2. \A r \in Row : /\ [r EXCEPT !.url = n].state = r.state
                         /\ [r EXCEPT !.url = n].source = r.source
      BY DEF Row
    <3>3. Failed(i).state = "failed" /\ Failed(i).source = jobs[i].source
      BY FailedFacts DEF TypeOK
    <3> QED
      BY <2>1, <3>1, <3>2, <3>3
  <2>3. RowStep(i)
    BY <1>8, <2>2, <1>s DEF RowStep, ReserveAgain
  <2>4. \A k \in Job \ {i} : RowStep(k)
    BY <1>8, ReserveAgainTypes, <1>u, <1>f, <1>s
  <2> QED
    BY <2>3, <2>4
<1>9. ASSUME NEW i \in Job, Upload(i) PROVE \A j \in Job : RowStep(j)
  BY <1>9, <1>u DEF Upload
<1>10. ASSUME NEW w \in Worker, WorkerStep(w) \/ Stop(w) PROVE \A j \in Job : RowStep(j)
  <2> DEFINE j == workers[w].job
  <2>1. j \in Job
    BY <1>10 DEF WorkerStep, Stop, Claim, ReadReports, Ingest, EvaluateIssues, WorkRaises,
       Complete, Fail, DeleteReports, TypeOK, Importing
  <2>2. CASE UNCHANGED jobs
    BY <2>2, <1>u
  <2>3. CASE /\ Dispatched(j)
             /\ jobs' = [jobs EXCEPT ![j] = jobs'[j]]
             /\ jobs'[j].state \in Worked /\ jobs'[j].source = jobs[j].source
    <3>1. RowStep(j)
      BY <2>3 DEF RowStep
    <3>2. \A k \in Job \ {j} : jobs'[k] = jobs[k]
      BY <2>1, <2>3 DEF TypeOK
    <3> QED
      BY <3>1, <3>2, <1>u
  <2>4. CASE Claim(w)
    <3>1. ASSUME Take(w, j, WorkerLease), Dispatched(j) PROVE \A k \in Job : RowStep(k)
      <4>1. jobs' = [jobs EXCEPT ![j] = [jobs[j] EXCEPT !.state = "running", !.attempts = @ + 1,
                                                        !.lease = WorkerLease]]
        BY <3>1, <2>1 DEF Take, TypeOK
      <4>2. jobs'[j].state = "running" /\ jobs'[j].source = jobs[j].source
        BY <2>1, <4>1 DEF TypeOK, Row
      <4> QED
        BY <2>1, <3>1, <2>3, <4>1, <4>2 DEF TypeOK
    <3> QED
      BY <2>2, <2>4, <3>1 DEF Claim, Dispatched
  <2>5. CASE Complete(w)
    <3>1. ASSUME jobs[j].state = "running" PROVE \A k \in Job : RowStep(k)
      <4>1. jobs' = [jobs EXCEPT ![j] = [jobs[j] EXCEPT !.state = "succeeded", !.lease = 0]]
        BY <3>1, <2>1, <2>5 DEF Complete, TypeOK
      <4>2. jobs'[j].state = "succeeded" /\ jobs'[j].source = jobs[j].source
        BY <2>1, <4>1 DEF TypeOK, Row
      <4> QED
        BY <2>1, <3>1, <2>3, <4>1, <4>2 DEF TypeOK, Dispatched
    <3> QED
      BY <2>2, <2>5, <3>1 DEF Complete
  <2>6. CASE Fail(w)
    <3>1. CASE jobs[j].state = "running" /\ jobs[j].attempts < MaxAttempts
      <4>1. jobs' = [jobs EXCEPT ![j] = [jobs[j] EXCEPT !.state = "queued", !.lease = 0]]
        BY <3>1, <2>1, <2>6 DEF Fail, TypeOK
      <4>2. jobs'[j].state = "queued" /\ jobs'[j].source = jobs[j].source
        BY <2>1, <4>1 DEF TypeOK, Row
      <4> QED
        BY <2>1, <3>1, <2>3, <4>1, <4>2 DEF TypeOK, Dispatched
    <3>2. CASE jobs[j].state = "running" /\ ~(jobs[j].attempts < MaxAttempts)
      <4>1. jobs' = [jobs EXCEPT ![j] = Failed(j)]
        BY <3>2, <2>6 DEF Fail
      <4>2. jobs'[j].state = "failed" /\ jobs'[j].source = jobs[j].source
        BY <2>1, <4>1, FailedFacts DEF TypeOK
      <4> QED
        BY <2>1, <3>2, <2>3, <4>1, <4>2 DEF TypeOK, Dispatched
    <3> QED
      BY <2>2, <2>6, <3>1, <3>2 DEF Fail
  <2> QED
    BY <1>10, <2>2, <2>4, <2>5, <2>6 DEF WorkerStep, ReadReports, Ingest, EvaluateIssues,
       WorkRaises, DeleteReports, Stop
<1>11. ASSUME Tick PROVE \A j \in Job : RowStep(j)
  <2>1. \A j \in Job : jobs'[j].state = jobs[j].state /\ jobs'[j].source = jobs[j].source
    BY <1>11, TickFacts
  <2> QED
    BY <2>1 DEF RowStep
<1>12. CASE UNCHANGED vars
  BY <1>12, <1>u DEF vars
<1> QED
  BY <1>1, <1>2, <1>3, <1>4, <1>5, <1>6, <1>7, <1>8, <1>9, <1>10, <1>11, <1>12
     DEF Next, HandlerStep

\* What follows from RowStep: a job once made stays made, worked on it stays so, ended it
\* stays as it ended, and only a job a request is about to queue becomes dispatched.
LEMMA RowOrder ==
  ASSUME \A j \in Job : RowStep(j), NEW j \in Job
  PROVE  /\ jobs[j].state # "absent" => /\ jobs'[j].state # "absent"
                                        /\ jobs'[j].source = jobs[j].source
         /\ jobs[j].state # "absent" /\ jobs'[j].state = "staging" => jobs[j].state = "staging"
         /\ jobs[j].state \in Worked => jobs'[j].state \in Worked
         /\ jobs[j].state \in Ended => jobs'[j].state = jobs[j].state
         /\ Dispatched(j)' => \/ Dispatched(j)
                              \/ \E h \in Handler : /\ handlers[h].job = j
                                                    /\ \/ handlers[h].pc = "staged"
                                                       \/ /\ handlers[h].pc = "verified"
                                                          /\ jobs[j].state = "staging"
BY DEF RowStep, Made, Queued, Active, Dispatched, Worked, Ended

\* Reports are deleted by a request or a container that is left with them.
LEMMA Deletions ==
  ASSUME TypeOK, [Next]_vars, NEW j \in stored, j \notin stored'
  PROVE  \/ \E h \in Handler : /\ handlers[h].pc \in {"discarding", "replaying"}
                               /\ handlers[h].job = j /\ Discard(h)
         \/ \E w \in Worker : workers[w].pc = "deleting" /\ workers[w].job = j /\ DeleteReports(w)
<1>1. ASSUME NEW h \in Handler, Submission(h) \/ Replay(h) \/ DispatchRaises(h) \/ ApiCrash(h)
      PROVE  j \in stored'
  BY <1>1 DEF Submission, Stage, Verify, Replay, DispatchRaises, ApiCrash
<1>2. ASSUME NEW h \in Handler, HandlerStep(h), ~Discard(h) PROVE j \in stored'
  BY <1>2 DEF HandlerStep, Create, Queue, Spawn, Acknowledge, FailDispatch
<1>3. ASSUME NEW i \in Job, Reserve(i) \/ ReserveAgain(i) \/ Upload(i) PROVE j \in stored'
  BY <1>3 DEF Reserve, ReserveAgain, Upload
<1>4. ASSUME NEW w \in Worker, WorkerStep(w) \/ Stop(w), ~DeleteReports(w) PROVE j \in stored'
  BY <1>4 DEF WorkerStep, Stop, Claim, ReadReports, Ingest, EvaluateIssues, WorkRaises,
     Complete, Fail
<1>5. Tick \/ UNCHANGED vars => j \in stored'
  BY DEF Tick, vars
<1>6. (\E h \in Handler : Discard(h)) \/ (\E w \in Worker : DeleteReports(w))
  BY <1>1, <1>2, <1>3, <1>4, <1>5 DEF Next
<1> QED
  BY <1>6 DEF Discard, DeleteReports

\* No reports are deleted of a job that is to be worked on or reserved.
LEMMA ReportsStay ==
  ASSUME TypeOK, RequestsFollow, ContainersFollow, [Next]_vars, NEW j \in stored, j \notin stored'
  PROVE  /\ jobs[j].state \in Ended \cup {"absent"}
         /\ jobs[j].state = "absent" =>
              \E h \in Handler : /\ handlers[h].pc \in {"discarding", "replaying"}
                                 /\ handlers[h].job = j
BY Deletions DEF RequestsFollow, RequestFollows, ContainersFollow, Ended

\* Active jobs have their reports: a job becomes dispatched by a request that has stored or
\* verified them, and nobody about to delete reports is left with such a job.
LEMMA ReportsStep == IInv /\ [Next]_vars => ActiveHasReports'
<1> SUFFICES ASSUME IInv, [Next]_vars, NEW j \in Job, Dispatched(j)' PROVE j \in stored'
  BY DEF ActiveHasReports, Dispatched
<1> USE DEF IInv
<1>1. j \in stored
  BY RowSteps, RowOrder DEF RequestsFollow, RequestFollows, ActiveHasReports
<1>2. CASE j \notin stored'
  <2>1. /\ jobs[j].state \in Ended \cup {"absent"}
        /\ jobs[j].state = "absent" =>
              \E h \in Handler : /\ handlers[h].pc \in {"discarding", "replaying"}
                                 /\ handlers[h].job = j
    BY <1>1, <1>2, ReportsStay
  <2>2. jobs[j].state = "absent"
    BY <2>1, RowSteps, RowOrder DEF Dispatched, Ended
  <2>3. PICK g \in Handler : handlers[g].pc \in {"discarding", "replaying"} /\ handlers[g].job = j
    BY <2>1, <2>2
  <2>4. PICK h \in Handler : handlers[h].pc = "staged" /\ handlers[h].job = j
    BY <2>2, RowSteps, RowOrder DEF Dispatched
  <2> QED
    BY <2>2, <2>3, <2>4 DEF OneRequest
<1> QED
  BY <1>2

-----------------------------------------------------------------------------
\* A step moves one request at most, to where the invariant holds of it; it goes on with
\* its own job, one that has a row, or one nothing was made of yet.
RequestMoved(h) ==
    /\ RequestFollows(h)'
    /\ \/ handlers'[h].pc = "idle"
       \/ handlers[h].pc # "idle" /\ handlers'[h].job = handlers[h].job
       \/ jobs'[handlers'[h].job].state # "absent"
       \/ Fresh(handlers'[h].job)
    /\ \A g \in Handler \ {h} : handlers'[g] = handlers[g]

\* A request that changes in a step has moved as said.
LEMMA RequestMoves ==
  ASSUME IInv, [Next]_vars, NEW h \in Handler, handlers'[h] # handlers[h]
  PROVE  RequestMoved(h)
<1> USE DEF Sources
<1>t. TypeOK /\ TypeOK' /\ RequestsFollow /\ KeyNamesJob
  BY TypeStep DEF IInv
<1>r. \A j \in Job : RowStep(j)
  BY <1>t, RowSteps
<1>o. \A g \in Handler, m \in HandlerState :
         handlers' = [handlers EXCEPT ![g] = m] => g = h /\ handlers'[h] = m
  BY <1>t DEF TypeOK
<1>p. \A g \in Handler : \A pc : Put(g, pc) =>
         /\ g = h
         /\ handlers'[h].pc = pc /\ handlers'[h].job = handlers[h].job
         /\ \A k \in Handler \ {h} : handlers'[k] = handlers[k]
  BY <1>t DEF TypeOK, Put, HandlerState
<1>d. ASSUME NEW g \in Handler, Done(g) PROVE RequestMoved(h)
  <2>1. handlers'[h] = Idle /\ \A k \in Handler \ {h} : handlers'[k] = handlers[k]
    BY <1>t, <1>d DEF Done, TypeOK
  <2> QED
    BY <2>1 DEF RequestMoved, RequestFollows, Idle
<1>m. ASSUME NEW g \in Handler, NEW j \in Job, NEW s \in Sources, NEW pc,
             handlers' = [handlers EXCEPT ![g] = [pc |-> pc, job |-> j, source |-> s]]
      PROVE  /\ g = h /\ handlers'[h].pc = pc /\ handlers'[h].job = j
             /\ \A k \in Handler \ {h} : handlers'[k] = handlers[k]
  BY <1>t, <1>m DEF TypeOK
<1>1. ASSUME NEW g \in Handler, NEW j \in Job, NEW s \in Sources, Stage(g, j, s)
      PROVE  RequestMoved(h)
  BY <1>1, <1>m, NewRows DEF Stage, Fresh, RequestMoved, RequestFollows
<1>2. ASSUME NEW g \in Handler, NEW j \in Job, Verify(g, j) PROVE RequestMoved(h)
  BY <1>2, <1>m DEF Verify, RequestMoved, RequestFollows
<1>3. ASSUME NEW g \in Handler, Replay(g) PROVE RequestMoved(h)
  BY <1>3, <1>m, <1>t DEF Replay, RequestMoved, RequestFollows, Undispatched, Worked, TypeOK
<1>4. ASSUME NEW g \in Handler, Create(g) PROVE RequestMoved(h)
  <2> DEFINE me == handlers[g]
  <2>1. /\ me.job \in Job /\ me.source \in Sources /\ me.pc = "staged"
        /\ jobs[me.job].state = "absent"
    BY <1>4, <1>t DEF Create, TypeOK, HandlerState, RequestsFollow, RequestFollows
  <2>2. CASE Insert(me.job, me.source) /\ Put(g, "dispatching")
    <3>1. jobs'[me.job].state = "queued"
      BY <1>t, <2>1, <2>2, InsertTypes, NewRows
    <3> QED
      BY <2>1, <2>2, <3>1, <1>p DEF RequestMoved, RequestFollows, Worked
  <2>3. CASE /\ jobs' = IF me.source = "manual" THEN Expired ELSE jobs
             /\ Put(g, "discarding")
    <3>1. jobs'[me.job].state = "absent"
      BY <1>t, <2>1, <2>3, ExpiredFacts DEF Stale, TypeOK
    <3> QED
      BY <2>1, <2>3, <3>1, <1>p DEF RequestMoved, RequestFollows
  <2>4. CASE /\ me.source = "gateway" /\ keyed # NoJob
             /\ Put(g, IF Undispatched(keyed) THEN "replaying" ELSE "discarding")
             /\ UNCHANGED <<jobs, keyed>>
    BY <2>1, <2>4, <1>p DEF RequestMoved, RequestFollows
  <2> QED
    BY <1>4, <1>d, <2>2, <2>3, <2>4 DEF Create
<1>5. ASSUME NEW g \in Handler, Discard(g) PROVE RequestMoved(h)
  <2>1. CASE handlers[g].pc = "replaying"
    <3>1. keyed \in Job /\ jobs[keyed].state \in Worked
      BY <2>1, <1>t DEF RequestsFollow, RequestFollows, KeyNamesJob, TypeOK
    <3>2. /\ g = h /\ handlers'[h].pc = "dispatching" /\ handlers'[h].job = keyed
          /\ \A k \in Handler \ {h} : handlers'[k] = handlers[k]
      BY <2>1, <1>5, <1>t DEF Discard, TypeOK, HandlerState
    <3>3. jobs'[keyed].state \in Worked /\ jobs' = jobs
      BY <1>5, <3>1 DEF Discard
    <3> QED
      BY <3>2, <3>3 DEF RequestMoved, RequestFollows, Worked, Ended
  <2> QED
    BY <1>5, <1>d, <2>1 DEF Discard
<1>6. ASSUME NEW g \in Handler, Queue(g) PROVE RequestMoved(h)
  <2> DEFINE j == handlers[g].job
  <2>1. j \in Job /\ handlers[g].pc = "verified"
    BY <1>6, <1>t DEF Queue, TypeOK
  <2>2. CASE jobs' = [jobs EXCEPT ![j].state = "queued"] /\ Put(g, "dispatching")
    <3>1. jobs'[j].state = "queued"
      BY <1>t, <2>1, <2>2 DEF TypeOK, Row
    <3> QED
      BY <2>1, <2>2, <3>1, <1>p DEF RequestMoved, RequestFollows, Worked
  <2> QED
    BY <1>6, <1>d, <2>2 DEF Queue
<1>7. ASSUME NEW g \in Handler, Spawn(g) \/ DispatchRaises(g) PROVE RequestMoved(h)
  <2>1. CASE Put(g, "spawned") \/ Put(g, "failing")
    <3>1. PICK pc \in {"spawned", "failing"} : Put(g, pc)
      BY <2>1
    <3>2. /\ handlers[g].pc \in {"dispatching", "spawned"} /\ handlers[g].job \in Job
          /\ jobs' = jobs
      BY <1>7, <1>t DEF Spawn, DispatchRaises, TypeOK
    <3>3. jobs[handlers[g].job].state \in Worked
      BY <3>2, <1>t DEF RequestsFollow, RequestFollows
    <3> QED
      BY <3>1, <3>2, <3>3, <1>p DEF RequestMoved, RequestFollows
  <2> QED
    BY <1>7, <1>d, <2>1 DEF Spawn, DispatchRaises
<1>8. ASSUME NEW g \in Handler, FailDispatch(g) PROVE RequestMoved(h)
  <2> DEFINE j == handlers[g].job
  <2>1. j \in Job /\ handlers[g].pc = "failing" /\ jobs[j].state \in Worked
    BY <1>8, <1>t DEF FailDispatch, TypeOK, RequestsFollow, RequestFollows
  <2>2. jobs'[j].state \in Ended
    <3>1. CASE Dispatched(j)
      BY <1>8, <1>t, <2>1, <3>1, FailedFacts DEF FailDispatch, TypeOK, Ended
    <3>2. CASE ~Dispatched(j)
      BY <1>8, <2>1, <3>2 DEF FailDispatch, Dispatched, Worked
    <3> QED
      BY <3>1, <3>2
  <2> QED
    BY <1>8, <2>1, <2>2, <1>p DEF FailDispatch, RequestMoved, RequestFollows
<1>9. ASSUME NEW g \in Handler, Acknowledge(g) \/ ApiCrash(g) PROVE RequestMoved(h)
  BY <1>9, <1>d DEF Acknowledge, ApiCrash
<1>10. ASSUME NEW j \in Job, Reserve(j) \/ ReserveAgain(j) \/ Upload(j) PROVE FALSE
  BY <1>10 DEF Reserve, ReserveAgain, Upload
<1>11. ASSUME NEW w \in Worker, WorkerStep(w) \/ Stop(w) PROVE FALSE
  BY <1>11 DEF WorkerStep, Stop, Claim, ReadReports, Ingest, EvaluateIssues, WorkRaises,
     Complete, Fail, DeleteReports
<1>12. ~Tick /\ ~UNCHANGED vars
  BY DEF Tick, vars
<1> QED
  BY <1>1, <1>2, <1>3, <1>4, <1>5, <1>6, <1>7, <1>8, <1>9, <1>10, <1>11, <1>12
     DEF Next, Submission, HandlerStep

\* The gateway's key is given a job once, one that is queued in the same step.
LEMMA KeyMoves ==
  ASSUME TypeOK, [Next]_vars, keyed' # keyed
  PROVE  keyed = NoJob /\ keyed' \in Job /\ jobs'[keyed'].state = "queued"
<1>1. PICK h \in Handler : Create(h)
  BY DEF Next, vars, Submission, Stage, Verify, Replay, DispatchRaises, ApiCrash, Reserve,
     ReserveAgain, Upload, HandlerStep, Discard, Queue, Spawn, Acknowledge, FailDispatch,
     WorkerStep, Stop, Claim, ReadReports, Ingest, EvaluateIssues, WorkRaises, Complete, Fail,
     DeleteReports, Tick
<1>2. handlers[h].job \in Job /\ handlers[h].source \in Sources
  BY <1>1 DEF Create, TypeOK, HandlerState
<1>3. /\ Insert(handlers[h].job, handlers[h].source)
      /\ ~(handlers[h].source = "gateway" /\ keyed # NoJob)
  BY <1>1 DEF Create
<1>4. keyed' = handlers[h].job /\ handlers[h].source = "gateway"
  BY <1>3 DEF Insert
<1>5. jobs'[handlers[h].job].state = "queued"
  BY <1>2, <1>3, InsertTypes, NewRows
<1> QED
  BY <1>2, <1>3, <1>4, <1>5

\* Requests stay where the invariant holds of them: the one that moves by what it does, the
\* others because a row they wait with is nobody else's and no one deletes their reports.
LEMMA RequestsStep == IInv /\ [Next]_vars => RequestsFollow' /\ OneRequest'
<1> SUFFICES ASSUME IInv, [Next]_vars PROVE RequestsFollow' /\ OneRequest'
  OBVIOUS
<1>t. TypeOK /\ TypeOK' /\ RequestsFollow /\ ContainersFollow /\ OneRequest
  BY TypeStep DEF IInv
<1>r. \A j \in Job : RowStep(j)
  BY <1>t, RowSteps
<1>k. keyed # NoJob => keyed' # NoJob
  BY <1>t, KeyMoves
<1>n. ASSUME NEW h \in Handler, jobs[handlers[h].job].state = "absent", handlers[h].pc # "idle",
             handlers'[h] = handlers[h]
      PROVE  jobs'[handlers[h].job].state = "absent"
  <2> DEFINE j == handlers[h].job
  <2>1. j \in Job
    BY <1>n, <1>t DEF TypeOK
  <2>2. CASE Made(j)
    <3>1. ~Fresh(j)
      BY <1>n DEF Fresh
    <3>2. PICK g \in Handler : /\ handlers[g].pc = "staged" /\ handlers[g].job = j
                                /\ handlers'[g] # handlers[g]
      BY <2>2, <3>1 DEF Made, Reserve
    <3> QED
      BY <1>n, <1>t, <3>2 DEF OneRequest
  <2> QED
    BY <1>n, <1>r, <2>1, <2>2 DEF RowStep, Active, Dispatched, Queued
<1>1. ASSUME NEW h \in Handler, handlers'[h] # handlers[h] PROVE RequestFollows(h)'
  BY <1>1, RequestMoves DEF RequestMoved
<1>2. ASSUME NEW h \in Handler, handlers'[h] = handlers[h] PROVE RequestFollows(h)'
  <2> DEFINE j == handlers[h].job
  <2>1. CASE handlers[h].pc = "idle"
    BY <1>2, <2>1 DEF RequestFollows
  <2>2. CASE handlers[h].pc # "idle"
    <3>1. j \in Job
      BY <2>2, <1>t DEF TypeOK
    <3>2. CASE jobs[j].state # "absent"
      <4>1. jobs[j].state = "staging" /\ j \in stored => j \in stored'
        BY <1>t, <3>1, ReportsStay DEF Ended
      <4> QED
        BY <1>2, <1>t, <1>r, <1>k, <3>1, <3>2, <4>1, RowOrder
           DEF RequestsFollow, RequestFollows, Worked, Ended
    <3>3. CASE jobs[j].state = "absent"
      <4>0. jobs'[j].state = "absent"
        BY <1>2, <1>n, <2>2, <3>3
      <4>1. CASE handlers[h].pc = "staged"
        <5>2. j \in stored'
          BY <1>t, <3>1, <3>3, <4>1, ReportsStay DEF RequestsFollow, RequestFollows, OneRequest
        <5> QED
          BY <1>2, <4>0, <4>1, <5>2 DEF RequestFollows
      <4>2. CASE handlers[h].pc # "staged"
        <5>2. handlers[h].pc \in {"discarding", "replaying"}
          BY <1>t, <2>2, <3>1, <3>3, <4>2 DEF RequestsFollow, RequestFollows, TypeOK, HandlerState,
             Worked, Ended
        <5> QED
          BY <1>2, <1>k, <1>t, <4>0, <5>2 DEF RequestFollows, RequestsFollow
      <4> QED
        BY <4>1, <4>2
    <3> QED
      BY <3>2, <3>3
  <2> QED
    BY <2>1, <2>2
<1>3. OneRequest'
  <2> SUFFICES ASSUME NEW g \in Handler, NEW h \in Handler,
                      handlers'[g].pc # "idle", handlers'[h].pc # "idle",
                      handlers'[g].job = handlers'[h].job,
                      jobs'[handlers'[g].job].state = "absent", g # h
               PROVE  FALSE
    BY DEF OneRequest
  <2>j. handlers'[g].job \in Job /\ jobs[handlers'[g].job].state = "absent"
    BY <1>t, <1>r, RowOrder DEF TypeOK
  <2>1. ASSUME NEW p \in Handler, NEW q \in Handler, {p, q} = {g, h}, handlers'[p] # handlers[p]
        PROVE  FALSE
    <3>1. RequestMoved(p) /\ handlers'[q] = handlers[q]
      BY <2>1, RequestMoves DEF RequestMoved
    <3>2. CASE handlers[p].pc # "idle" /\ handlers'[p].job = handlers[p].job
      BY <1>t, <2>j, <2>1, <3>1, <3>2 DEF OneRequest
    <3>3. CASE Fresh(handlers'[p].job)
      BY <2>1, <3>1, <3>3 DEF Fresh
    <3> QED
      BY <2>1, <3>1, <3>2, <3>3 DEF RequestMoved
  <2>2. handlers'[g] = handlers[g] /\ handlers'[h] = handlers[h]
    BY <2>1
  <2> QED
    BY <1>t, <2>j, <2>2 DEF OneRequest
<1> QED
  BY <1>1, <1>2, <1>3 DEF RequestsFollow

\* The gateway makes one job: it makes a second only without a key, and sets the key with it.
LEMMA KeyStep == IInv /\ [Next]_vars => KeyNamesJob'
<1> SUFFICES ASSUME IInv, [Next]_vars PROVE KeyNamesJob'
  OBVIOUS
<1>t. TypeOK /\ RequestsFollow /\ KeyNamesJob
  BY DEF IInv
<1>r. \A j \in Job : RowStep(j)
  BY <1>t, RowSteps
<1>1. ASSUME keyed' # NoJob PROVE jobs'[keyed'].state \in Worked
  <2>1. CASE keyed' = keyed
    BY <1>1, <2>1, <1>t, <1>r, RowOrder DEF KeyNamesJob, TypeOK
  <2>2. CASE keyed' # keyed
    BY <2>2, <1>t, KeyMoves DEF Worked
  <2> QED
    BY <2>1, <2>2
<1>2. ASSUME NEW j \in Job, jobs'[j].source = "gateway", jobs'[j].state # "absent"
      PROVE  j = keyed'
  <2>1. CASE jobs[j].state = "absent"
    BY <1>2, <2>1, <1>r DEF RowStep, Made, Active, Dispatched, Queued
  <2>2. CASE jobs[j].state # "absent"
    <3>1. j = keyed
      BY <1>2, <2>2, <1>t, <1>r, RowOrder DEF KeyNamesJob
    <3> QED
      BY <3>1, <1>t, KeyMoves, ImportAssumption
  <2> QED
    BY <2>1, <2>2
<1> QED
  BY <1>1, <1>2 DEF KeyNamesJob

\* Containers are started for a job that was queued once, and delete the reports of one that
\* has ended: the row of a container that stops importing is its own or failed already.
LEMMA ContainersStep == IInv /\ [Next]_vars => ContainersFollow'
<1> SUFFICES ASSUME IInv, [Next]_vars, NEW w \in Worker
             PROVE  LET row == jobs'[workers'[w].job] IN
                    /\ workers'[w].pc = "started" => row.state \in Worked
                    /\ workers'[w].pc = "deleting" => row.state \in Ended
  BY DEF ContainersFollow
<1>t. TypeOK /\ TypeOK' /\ RequestsFollow /\ ContainersFollow /\ LeaseOutlivesWork
  BY TypeStep DEF IInv
<1>r. \A j \in Job : RowStep(j)
  BY <1>t, RowSteps
<1>u. workers'[w].pc = workers[w].pc /\ workers'[w].job = workers[w].job
        => LET row == jobs'[workers'[w].job] IN
           /\ workers'[w].pc = "started" => row.state \in Worked
           /\ workers'[w].pc = "deleting" => row.state \in Ended
  BY <1>t, <1>r, RowOrder DEF ContainersFollow, TypeOK
<1>g. \A v \in Worker : \A pc : Goto(v, pc) =>
        /\ v # w => workers'[w] = workers[w]
        /\ v = w => workers'[w].pc = pc /\ workers'[w].job = workers[w].job
  BY <1>t, ContainerMoves
<1>e. \A v \in Worker : Exit(v) => workers'[w] = workers[w] \/ workers'[w].pc = "off"
  BY <1>t, ContainerMoves
<1> DEFINE Follows == LET row == jobs'[workers'[w].job] IN
                      /\ workers'[w].pc = "started" => row.state \in Worked
                      /\ workers'[w].pc = "deleting" => row.state \in Ended
<1> HIDE DEF Follows
<1>c. (workers'[w] = workers[w] \/ workers'[w].pc \notin {"started", "deleting"}) => Follows
  BY <1>u DEF Follows
<1>1. ASSUME NEW h \in Handler, Spawn(h) PROVE Follows
  <2>1. PICK v \in Worker : workers' = [workers EXCEPT ![v] =
             [pc |-> "started", job |-> handlers[h].job, gen |-> 0, budget |-> WorkerTimeout]]
    BY <1>1 DEF Spawn
  <2>2. CASE v = w
    <3>1. workers'[w].pc = "started" /\ workers'[w].job = handlers[h].job
      BY <2>1, <2>2, <1>t DEF TypeOK
    <3>2. jobs[handlers[h].job].state \in Worked /\ jobs' = jobs
      BY <1>1, <1>t DEF Spawn, RequestsFollow, RequestFollows
    <3> QED
      BY <3>1, <3>2 DEF Follows
  <2> QED
    BY <2>1, <2>2, <1>t, <1>c DEF TypeOK
<1>2. ASSUME NEW v \in Worker, Claim(v) PROVE Follows
  <2>1. CASE Take(v, workers[v].job, WorkerLease)
    <3>1. /\ v = w => workers'[w].pc = "claimed"
          /\ v # w => workers'[w] = workers[w]
      BY <2>1, <1>t, ContainerMoves
    <3> QED
      BY <3>1, <1>c
  <2> QED
    BY <1>2, <2>1, <1>e, <1>c DEF Claim
<1>3. ASSUME NEW v \in Worker, ReadReports(v) \/ Ingest(v) \/ EvaluateIssues(v) \/ WorkRaises(v)
      PROVE  Follows
  <2>1. PICK pc \in Importing : Goto(v, pc)
    BY <1>3 DEF ReadReports, Ingest, EvaluateIssues, WorkRaises, Importing
  <2> QED
    BY <2>1, <1>g, <1>c DEF Importing
<1>4. ASSUME NEW v \in Worker, Complete(v) PROVE Follows
  <2> DEFINE j == workers[v].job
  <2>1. j \in Job /\ jobs[j].state \in {"running", "failed"}
    BY <1>4, <1>t DEF Complete, TypeOK, LeaseOutlivesWork, IsImporting, Importing
  <2>2. jobs'[j].state \in Ended
    BY <1>4, <2>1, <1>t DEF Complete, TypeOK, Row, Ended
  <2>3. CASE v = w
    <3>1. workers'[w].pc = "deleting" /\ workers'[w].job = j
      BY <1>4, <2>3, <1>g DEF Complete
    <3> QED
      BY <2>2, <3>1 DEF Follows
  <2> QED
    BY <1>4, <2>3, <1>g, <1>c DEF Complete
<1>5. ASSUME NEW v \in Worker, Fail(v) PROVE Follows
  <2> DEFINE j == workers[v].job
             retry == jobs[j].state = "running" /\ jobs[j].attempts < MaxAttempts
  <2>1. j \in Job /\ jobs[j].state \in {"running", "failed"}
    BY <1>5, <1>t DEF Fail, TypeOK, LeaseOutlivesWork, IsImporting, Importing
  <2>2. CASE retry
    <3>1. jobs'[j].state \in Worked
      BY <1>r, <2>1, RowOrder DEF Worked, Ended
    <3>2. Goto(v, "started")
      BY <1>5, <2>2 DEF Fail
    <3> QED
      BY <3>1, <3>2, <1>g, <1>c DEF Follows
  <2>3. CASE ~retry
    <3>1. jobs'[j].state \in Ended
      BY <1>5, <2>1, <2>3, <1>t, FailedFacts DEF Fail, TypeOK, Ended
    <3>2. Goto(v, "deleting")
      BY <1>5, <2>3 DEF Fail
    <3> QED
      BY <3>1, <3>2, <1>g, <1>c DEF Follows
  <2> QED
    BY <2>2, <2>3
<1>6. ASSUME NEW v \in Worker, DeleteReports(v) \/ Stop(v) PROVE Follows
  BY <1>6, <1>e, <1>c DEF DeleteReports, Stop
<1>7. ASSUME Tick PROVE Follows
  <2>1. workers'[w].pc = workers[w].pc /\ workers'[w].job = workers[w].job
    BY <1>7, <1>t, TickFacts
  <2> QED
    BY <2>1, <1>u DEF Follows
<1>8. CASE UNCHANGED workers
  <2>1. workers'[w] = workers[w]
    BY <1>8
  <2> QED
    BY <2>1, <1>c DEF Follows
<1> QED
  BY <1>1, <1>2, <1>3, <1>4, <1>5, <1>6, <1>7, <1>8 DEF Follows, Next, vars, Submission, Stage,
     Verify, Replay, HandlerStep, Create, Discard, Queue, Acknowledge, FailDispatch,
     DispatchRaises, ApiCrash, Reserve, ReserveAgain, Upload, WorkerStep

-----------------------------------------------------------------------------
\* A container that may still write evidence after a step claimed its job in it, or imported
\* before and has not reported the end of it.
Claims(w) ==
    /\ workers[w].pc = "started" /\ workers[w].job \in Job
    /\ LET j == workers[w].job IN
          /\ jobs[j].state = "queued" \/ (jobs[j].state = "running" /\ jobs[j].lease = 0)
          /\ jobs'[j].state = "running" /\ jobs'[j].attempts = jobs[j].attempts + 1
          /\ jobs'[j].lease = WorkerLease
          /\ \A k \in Job \ {j} : jobs'[k] = jobs[k]
    /\ workers'[w].pc = "claimed" /\ workers'[w].job = workers[w].job
    /\ workers'[w].gen = jobs[workers[w].job].attempts + 1
    /\ workers'[w].budget = workers[w].budget
    /\ \A v \in Worker \ {w} : workers'[v] = workers[v]

Continues(w) ==
    /\ IsImporting(w)
    /\ workers'[w].job = workers[w].job /\ workers'[w].gen = workers[w].gen
    /\ workers'[w].budget = workers[w].budget
    /\ workers'[w].pc = "finishing" =>
         workers[w].pc = "finishing" \/ EvaluateIssues(w)
    /\ ~Complete(w) /\ ~Fail(w)

\* Every container that is importing after a step claimed or continued in it.
LEMMA ImportingMoves ==
  ASSUME TypeOK, [Next]_vars, ~Tick, NEW w \in Worker, IsImporting(w)'
  PROVE  Claims(w) \/ Continues(w)
<1> USE DEF IsImporting, Importing
<1>g. \A v \in Worker : \A pc : Goto(v, pc) =>
        /\ v # w => workers'[w] = workers[w]
        /\ v = w => /\ workers'[w].pc = pc /\ workers'[w].job = workers[w].job
                    /\ workers'[w].gen = workers[w].gen
                    /\ workers'[w].budget = workers[w].budget
  BY ContainerMoves
<1>e. \A v \in Worker : Exit(v) => v # w /\ workers'[w] = workers[w]
  BY ContainerMoves
<1>c. Complete(w) \/ Fail(w) => FALSE
  <2>1. ASSUME Complete(w) PROVE FALSE
    <3>1. Goto(w, "deleting")
      BY <2>1 DEF Complete
    <3> QED
      BY <3>1, <1>g
  <2>2. ASSUME Fail(w) PROVE FALSE
    <3>1. Goto(w, "started") \/ Goto(w, "deleting")
      BY <2>2 DEF Fail
    <3> QED
      BY <3>1, <1>g
  <2> QED
    BY <2>1, <2>2
<1>u. workers'[w] = workers[w] => Continues(w)
  BY <1>c DEF Continues
<1>1. ASSUME NEW h \in Handler, Spawn(h) PROVE Continues(w)
  <2>1. PICK v \in Worker : workers' = [workers EXCEPT ![v] =
             [pc |-> "started", job |-> handlers[h].job, gen |-> 0, budget |-> WorkerTimeout]]
    BY <1>1 DEF Spawn
  <2> QED
    BY <2>1, <1>u DEF TypeOK
<1>2. ASSUME NEW v \in Worker, Claim(v) PROVE Claims(w) \/ Continues(w)
  <2> DEFINE j == workers[v].job
  <2>1. CASE /\ jobs[j].state = "queued" \/ (jobs[j].state = "running" /\ jobs[j].lease = 0)
             /\ Take(v, j, WorkerLease)
    <3>0. j \in Job /\ workers[v].pc = "started"
      BY <1>2 DEF Claim, TypeOK
    <3>1. /\ jobs'[j].state = "running" /\ jobs'[j].attempts = jobs[j].attempts + 1
          /\ jobs'[j].lease = WorkerLease
          /\ \A k \in Job \ {j} : jobs'[k] = jobs[k]
      BY <2>1, <3>0 DEF Take, TypeOK, Row
    <3>2. /\ workers'[v].pc = "claimed" /\ workers'[v].job = j
          /\ workers'[v].gen = jobs[j].attempts + 1
          /\ workers'[v].budget = workers[v].budget
          /\ \A u \in Worker \ {v} : workers'[u] = workers[u]
      BY <2>1 DEF Take, TypeOK, Container
    <3>3. CASE v = w
      BY <2>1, <3>0, <3>1, <3>2, <3>3 DEF Claims
    <3> QED
      BY <3>2, <3>3, <1>u
  <2> QED
    BY <1>2, <2>1, <1>e, <1>u DEF Claim
<1>3. ASSUME NEW v \in Worker, ReadReports(v) \/ Ingest(v) \/ WorkRaises(v) PROVE Continues(w)
  <2>1. PICK pc \in Importing \ {"finishing"} : Goto(v, pc)
    BY <1>3 DEF ReadReports, Ingest, WorkRaises
  <2>2. workers[v].pc \in Importing
    BY <1>3 DEF ReadReports, Ingest, WorkRaises
  <2> QED
    BY <2>1, <2>2, <1>g, <1>u, <1>c DEF Continues
<1>4. ASSUME NEW v \in Worker, EvaluateIssues(v) PROVE Continues(w)
  <2>1. Goto(v, "finishing") /\ workers[v].pc \in Importing
    BY <1>4 DEF EvaluateIssues
  <2> QED
    BY <1>4, <2>1, <1>g, <1>u, <1>c DEF Continues
<1>5. ASSUME NEW v \in Worker, Complete(v) \/ Fail(v) PROVE Continues(w)
  <2>1. v # w
    BY <1>5, <1>c
  <2>2. PICK pc \in {"started", "deleting"} : Goto(v, pc)
    BY <1>5 DEF Complete, Fail
  <2> QED
    BY <2>1, <2>2, <1>g, <1>u
<1>6. ASSUME NEW v \in Worker, DeleteReports(v) \/ Stop(v) PROVE Continues(w)
  BY <1>6, <1>e, <1>u DEF DeleteReports, Stop
<1>7. ASSUME UNCHANGED workers PROVE Continues(w)
  <2>1. workers'[w] = workers[w]
    BY <1>7
  <2> QED
    BY <2>1, <1>u
<1> QED
  BY <1>1, <1>2, <1>3, <1>4, <1>5, <1>6, <1>7 DEF Next, vars, Submission, Stage,
     Verify, Replay, HandlerStep, Create, Discard, Queue, Acknowledge, FailDispatch,
     DispatchRaises, ApiCrash, Reserve, ReserveAgain, Upload, WorkerStep

\* The row of a job under a lease that has not run out is left alone, but by a dispatcher
\* that fails it and by the container that reports its end; a row failed by a dispatcher stays.
LEMMA LeasedRow ==
  ASSUME TypeOK, RequestsFollow, [Next]_vars, ~Tick, NEW j \in Job
  PROVE  /\ jobs[j].state = "running" /\ jobs[j].lease > 0 =>
              \/ /\ jobs'[j].state = "running" /\ jobs'[j].lease = jobs[j].lease
                 /\ jobs'[j].attempts = jobs[j].attempts
              \/ jobs'[j].state = "failed" /\ jobs'[j].ambiguous
              \/ \E v \in Worker : (Complete(v) \/ Fail(v)) /\ workers[v].job = j
         /\ jobs[j].state = "failed" /\ jobs[j].ambiguous =>
              jobs'[j].state = "failed" /\ jobs'[j].ambiguous
<1> SUFFICES ASSUME \/ jobs[j].state = "running" /\ jobs[j].lease > 0
                    \/ jobs[j].state = "failed" /\ jobs[j].ambiguous
             PROVE  \/ /\ jobs'[j].state = jobs[j].state /\ jobs'[j].lease = jobs[j].lease
                       /\ jobs'[j].attempts = jobs[j].attempts
                       /\ jobs'[j].ambiguous = jobs[j].ambiguous
                    \/ /\ jobs[j].state = "running"
                       /\ jobs'[j].state = "failed" /\ jobs'[j].ambiguous
                    \/ /\ jobs[j].state = "running"
                       /\ \E v \in Worker : (Complete(v) \/ Fail(v)) /\ workers[v].job = j
  OBVIOUS
<1> DEFINE Left == \/ /\ jobs'[j].state = jobs[j].state /\ jobs'[j].lease = jobs[j].lease
                      /\ jobs'[j].attempts = jobs[j].attempts
                      /\ jobs'[j].ambiguous = jobs[j].ambiguous
                   \/ /\ jobs[j].state = "running"
                      /\ jobs'[j].state = "failed" /\ jobs'[j].ambiguous
                   \/ /\ jobs[j].state = "running"
                      /\ \E v \in Worker : (Complete(v) \/ Fail(v)) /\ workers[v].job = j
<1> HIDE DEF Left
<1>u. jobs'[j] = jobs[j] => Left
  BY DEF Left
<1>s. ~Stale(j) /\ ~Lapsed(j) /\ jobs[j].state # "absent"
  BY DEF Stale, Lapsed
<1>1. ASSUME NEW h \in Handler, Create(h) PROVE Left
  <2> DEFINE me == handlers[h]
  <2>1. me.job \in Job /\ me.source \in Sources /\ jobs[me.job].state = "absent"
    BY <1>1 DEF Create, TypeOK, HandlerState, RequestsFollow, RequestFollows
  <2>2. CASE Insert(me.job, me.source)
    BY <2>1, <2>2, <1>s, <1>u, InsertTypes
  <2>3. CASE jobs' = Expired \/ UNCHANGED jobs
    <3>1. jobs'[j] = jobs[j]
      BY <2>3, <1>s, ExpiredFacts DEF TypeOK
    <3> QED
      BY <3>1, <1>u
  <2> QED
    BY <1>1, <2>2, <2>3 DEF Create
<1>2. ASSUME NEW h \in Handler, Queue(h) PROVE Left
  <2>1. jobs'[j] = jobs[j]
    BY <1>2 DEF Queue, TypeOK
  <2> QED
    BY <2>1, <1>u
<1>3. ASSUME NEW h \in Handler, Acknowledge(h) PROVE Left
  BY <1>3 DEF Acknowledge, TypeOK, Row, Left
<1>4. ASSUME NEW h \in Handler, FailDispatch(h) PROVE Left
  <2>1. CASE handlers[h].job = j
    BY <1>4, <2>1, <1>u, FailedFacts DEF FailDispatch, TypeOK, Left, Dispatched
  <2>2. CASE handlers[h].job # j
    BY <1>4, <2>2, <1>u DEF FailDispatch, TypeOK
  <2> QED
    BY <2>1, <2>2
<1>5. ASSUME NEW i \in Job, Reserve(i) PROVE Left
  <2>1. i # j
    BY <1>5, <1>s, NewRows DEF Reserve, Fresh
  <2> QED
    BY <1>5, <2>1, <1>s, <1>u, ReserveTypes
<1>6. ASSUME NEW i \in Job, ReserveAgain(i) PROVE Left
  <2>1. CASE i = j
    <3>1. PICK n \in Nat : jobs'[j] = [jobs[j] EXCEPT !.url = n]
      BY <1>6, <2>1, <1>s, ReserveAgainTypes
    <3> QED
      BY <3>1 DEF TypeOK, Row, Left
  <2> QED
    BY <1>6, <2>1, <1>s, <1>u, ReserveAgainTypes
<1>7. ASSUME NEW w \in Worker, Claim(w) PROVE Left
  <2>1. jobs'[j] = jobs[j]
    BY <1>7 DEF Claim, Take, TypeOK
  <2> QED
    BY <2>1, <1>u
<1>8. ASSUME NEW w \in Worker, Complete(w) \/ Fail(w) PROVE Left
  <2>1. CASE workers[w].job = j /\ jobs[j].state = "running"
    BY <1>8, <2>1 DEF Left
  <2>2. CASE ~(workers[w].job = j /\ jobs[j].state = "running")
    <3>1. jobs'[j] = jobs[j]
      BY <1>8, <2>2 DEF Complete, Fail, TypeOK
    <3> QED
      BY <3>1, <1>u
  <2> QED
    BY <2>1, <2>2
<1>9. ASSUME UNCHANGED jobs PROVE Left
  <2>1. jobs'[j] = jobs[j]
    BY <1>9
  <2> QED
    BY <2>1, <1>u
<1>10. Left
  BY <1>1, <1>2, <1>3, <1>4, <1>5, <1>6, <1>7, <1>8, <1>9 DEF Next, vars, Submission, Stage,
     Verify, Replay, HandlerStep, Discard, Spawn, DispatchRaises, ApiCrash, Upload, WorkerStep,
     ReadReports, Ingest, EvaluateIssues, WorkRaises, DeleteReports, Stop
<1> QED
  BY <1>10 DEF Left

\* No container gets more time than the hard timeout; time only runs down.
LEMMA BudgetStep == TypeOK /\ BudgetBound /\ [Next]_vars => BudgetBound'
<1> SUFFICES ASSUME TypeOK, BudgetBound, [Next]_vars, NEW w \in Worker
             PROVE  workers'[w].budget <= WorkerTimeout
  BY DEF BudgetBound
<1>0. /\ workers[w].budget \in Nat /\ workers[w].budget <= WorkerTimeout
      /\ WorkerTimeout \in Nat
  BY ImportAssumption DEF TypeOK, Container, BudgetBound
<1>1. ASSUME NEW h \in Handler, Spawn(h) PROVE workers'[w].budget <= WorkerTimeout
  BY <1>0, <1>1 DEF Spawn, TypeOK
<1>2. ASSUME NEW v \in Worker, WorkerStep(v) \/ Stop(v)
      PROVE  workers'[w].budget <= WorkerTimeout
  <2>1. \/ \E pc : Goto(v, pc)
        \/ Exit(v)
        \/ \E j, lease : Take(v, j, lease)
    BY <1>2 DEF WorkerStep, Stop, Claim, ReadReports, Ingest, EvaluateIssues, WorkRaises,
       Complete, Fail, DeleteReports
  <2>2. workers'[w].budget = workers[w].budget \/ workers'[w].budget = 0
    <3>1. CASE \E pc : Goto(v, pc)
      BY <3>1, ContainerMoves
    <3>2. CASE Exit(v)
      BY <3>2, ContainerMoves
    <3>3. CASE \E j, lease : Take(v, j, lease)
      BY <3>3, ContainerMoves
    <3> QED
      BY <2>1, <3>1, <3>2, <3>3
  <2> QED
    BY <1>0, <2>2
<1>3. ASSUME Tick PROVE workers'[w].budget <= WorkerTimeout
  <2>1. workers'[w].budget = Dec(workers[w].budget)
    BY <1>3, TickFacts
  <2>2. Dec(workers[w].budget) \in Nat /\ Dec(workers[w].budget) <= workers[w].budget
    BY <1>0, DecFacts
  <2> QED
    BY <1>0, <2>1, <2>2
<1>4. CASE UNCHANGED workers
  BY <1>0, <1>4
<1> QED
  BY <1>1, <1>2, <1>3, <1>4 DEF Next, vars, Submission, Stage,
     Verify, Replay, HandlerStep, Create, Discard, Queue, Acknowledge, FailDispatch,
     DispatchRaises, ApiCrash, Reserve, ReserveAgain, Upload

\* The lease of an import outlives it: a claim gives a lease longer than any container has
\* left, both run down together, and nobody else ends a job whose lease has not run out.
LEMMA LeaseStep == IInv /\ [Next]_vars => LeaseOutlivesWork' /\ OneImporter'
<1> SUFFICES ASSUME IInv, [Next]_vars PROVE LeaseOutlivesWork' /\ OneImporter'
  OBVIOUS
<1>t. TypeOK /\ RequestsFollow /\ BudgetBound /\ LeaseOutlivesWork /\ OneImporter
  BY DEF IInv
<1> DEFINE Kept(w) ==
      LET row == jobs[workers[w].job] IN
      \/ row.state = "running" /\ row.attempts = workers[w].gen /\ workers[w].budget < row.lease
      \/ row.state = "failed" /\ row.ambiguous
<1>k. \A w \in Worker : IsImporting(w) => workers[w].job \in Job /\ workers[w].budget \in Nat
                                          /\ jobs[workers[w].job].lease \in Nat
  BY <1>t DEF IsImporting, Importing, TypeOK, Container, Row
<1>1. CASE Tick
  <2>1. \A w \in Worker : /\ workers'[w].pc = workers[w].pc /\ workers'[w].job = workers[w].job
                          /\ workers'[w].gen = workers[w].gen
                          /\ workers'[w].budget = Dec(workers[w].budget)
                          /\ workers[w].pc # "off" => workers[w].budget > 0
    <3>1. \A w \in Worker : workers[w].pc # "off" => workers[w].budget > 0
      BY <1>1 DEF Tick
    <3> QED
      BY <1>1, <1>t, <3>1, TickFacts
  <2>2. \A j \in Job : /\ jobs'[j].state = jobs[j].state /\ jobs'[j].ambiguous = jobs[j].ambiguous
                       /\ jobs'[j].attempts = jobs[j].attempts
                       /\ jobs'[j].lease = Dec(jobs[j].lease)
    BY <1>1, <1>t, TickFacts
  <2>3. ASSUME NEW w \in Worker, IsImporting(w)' PROVE Kept(w)'
    <3>1. IsImporting(w) /\ workers[w].pc # "off"
      BY <2>1, <2>3 DEF IsImporting, Importing
    <3>2. Kept(w)
      BY <1>t, <3>1 DEF LeaseOutlivesWork
    <3>3. workers[w].budget < jobs[workers[w].job].lease =>
            Dec(workers[w].budget) < Dec(jobs[workers[w].job].lease)
      BY <1>k, <2>1, <3>1, DecFacts
    <3> QED
      BY <1>k, <2>1, <2>2, <3>1, <3>2, <3>3
  <2>4. OneImporter'
    BY <1>k, <1>t, <2>1, <2>2 DEF OneImporter, IsImporting
  <2> QED
    BY <2>3, <2>4 DEF LeaseOutlivesWork
<1>2. CASE ~Tick
  <2>m. \A w \in Worker : IsImporting(w)' => Claims(w) \/ Continues(w)
    BY <1>2, <1>t, ImportingMoves
  <2>n. ASSUME NEW w \in Worker, IsImporting(w), jobs[workers[w].job].state = "running"
        PROVE  jobs[workers[w].job].lease > 0
    BY <2>n, <1>k, <1>t DEF LeaseOutlivesWork
  <2>o. ASSUME NEW v \in Worker, NEW w \in Worker, IsImporting(w), Complete(v) \/ Fail(v),
               workers[v].job = workers[w].job, jobs[workers[w].job].state = "running"
        PROVE  v = w
    BY <2>o, <1>t DEF OneImporter, IsImporting, Importing, Complete, Fail
  <2>1. ASSUME NEW w \in Worker, Continues(w) PROVE Kept(w)'
    <3> DEFINE j == workers[w].job
    <3>1. j \in Job /\ IsImporting(w) /\ Kept(w)
      BY <2>1, <1>k, <1>t DEF Continues, LeaseOutlivesWork
    <3>2. \/ /\ jobs[j].state = "running" /\ jobs'[j].state = "running"
             /\ jobs'[j].lease = jobs[j].lease /\ jobs'[j].attempts = jobs[j].attempts
          \/ jobs'[j].state = "failed" /\ jobs'[j].ambiguous
      BY <1>2, <1>t, <2>n, <2>o, <2>1, <3>1, LeasedRow DEF Continues
    <3> QED
      BY <2>1, <3>1, <3>2 DEF Continues
  <2>2. ASSUME NEW w \in Worker, Claims(w) PROVE Kept(w)'
    <3>1. workers[w].budget \in Nat /\ workers[w].budget < WorkerLease
      BY <1>t, ImportAssumption DEF BudgetBound, TypeOK, Container
    <3> QED
      BY <2>2, <3>1 DEF Claims
  <2>3. LeaseOutlivesWork'
    BY <2>m, <2>1, <2>2 DEF LeaseOutlivesWork
  <2>4. ASSUME NEW v \in Worker, NEW w \in Worker, Claims(v), IsImporting(w)',
               workers'[w].job = workers'[v].job
        PROVE  v = w
    <3>1. CASE Claims(w)
      BY <2>4, <3>1 DEF Claims
    <3>2. CASE Continues(w)
      <4>1. IsImporting(w) /\ workers[w].job = workers[v].job
        BY <2>4, <3>2 DEF Claims, Continues
      <4>2. jobs[workers[w].job].state # "failed"
        BY <2>4, <4>1 DEF Claims
      <4>3. jobs[workers[w].job].state = "running" /\ jobs[workers[w].job].lease > 0
        BY <1>t, <2>n, <4>1, <4>2 DEF LeaseOutlivesWork
      <4> QED
        BY <2>4, <4>1, <4>3, <1>k DEF Claims
    <3> QED
      BY <2>4, <2>m, <3>1, <3>2
  <2>5. ASSUME NEW v \in Worker, NEW w \in Worker, Continues(v), Continues(w),
               workers'[w].job = workers'[v].job, jobs'[workers'[v].job].state = "running"
        PROVE  v = w
    <3> DEFINE j == workers[v].job
    <3>1. /\ IsImporting(v) /\ IsImporting(w) /\ workers[w].job = j /\ workers'[v].job = j
          /\ j \in Job
      BY <2>5, <1>k DEF Continues
    <3>2. jobs[j].state # "failed"
      BY <1>2, <1>t, <2>5, <3>1, LeasedRow DEF LeaseOutlivesWork
    <3> QED
      BY <1>t, <3>1, <3>2 DEF OneImporter, LeaseOutlivesWork
  <2>6. OneImporter'
    BY <2>m, <2>4, <2>5 DEF OneImporter
  <2> QED
    BY <2>3, <2>6
<1> QED
  BY <1>1, <1>2

\* The workload keeps to one active job: a job is made when every other active one ends.
LEMMA ActiveStep == IInv /\ [Next]_vars => OneActive'
<1> SUFFICES ASSUME IInv, [Next]_vars, NEW j \in Job, NEW k \in Job, Active(j)', Active(k)', j # k
             PROVE  FALSE
  BY DEF OneActive, Active, Dispatched
<1>t. TypeOK /\ RequestsFollow /\ OneActive
  BY DEF IInv
<1>r. \A i \in Job : RowStep(i)
  BY <1>t, RowSteps
<1>1. \A i \in Job : Active(i)' => Active(i) \/ (jobs[i].state = "absent" /\ Made(i))
  BY <1>r DEF RowStep, Active, Dispatched, Queued, Worked, Ended
<1>2. ASSUME NEW p \in Job, NEW q \in Job, p # q, Active(q)', Made(p) PROVE FALSE
  <2>f. Failed(q).state = "failed"
    BY <1>t, FailedFacts DEF TypeOK
  <2>1. CASE Reserve(p)
    <3>1. jobs'[q] = IF Lapsed(q) THEN Failed(q) ELSE jobs[q]
      BY <1>2, <1>t, <2>1, ReserveTypes
    <3>2. Active(q) => Lapsed(q)
      BY <2>1 DEF Reserve
    <3> QED
      BY <1>2, <2>f, <3>1, <3>2 DEF Active, Dispatched
  <2>2. CASE jobs'[p].source \in Sources /\ Insert(p, jobs'[p].source)
    <3>1. jobs'[q] = IF Stale(q) THEN Failed(q) ELSE jobs[q]
      BY <1>2, <1>t, <2>2, InsertTypes
    <3>2. Active(q) => Stale(q)
      BY <2>2 DEF Insert
    <3> QED
      BY <1>2, <2>f, <3>1, <3>2 DEF Active, Dispatched
  <2> QED
    BY <1>2, <1>t, <2>1, <2>2 DEF Made, TypeOK, HandlerState
<1> QED
  BY <1>1, <1>2, <1>t DEF OneActive

\* Evidence is written by an ingest, and marked by an evaluation.
LEMMA EvidenceMoves ==
  ASSUME [Next]_vars
  PROVE  \/ UNCHANGED evidence
         \/ \E w \in Worker : Ingest(w) \/ EvaluateIssues(w)
BY DEF Next, vars, Submission, Stage, Verify, Replay, HandlerStep, Create, Discard, Queue, Spawn,
   Acknowledge, FailDispatch, DispatchRaises, ApiCrash, Reserve, ReserveAgain, Upload,
   WorkerStep, Stop, Claim, ReadReports, WorkRaises, Complete, Fail, DeleteReports, Tick

\* A job succeeds when its container reports it finished.
LEMMA Successes ==
  ASSUME TypeOK, RequestsFollow, [Next]_vars, NEW j \in Job,
         jobs[j].state # "succeeded", jobs'[j].state = "succeeded"
  PROVE  \E w \in Worker : Complete(w) /\ workers[w].job = j /\ jobs[j].state = "running"
<1>1. ASSUME NEW h \in Handler, HandlerStep(h) PROVE FALSE
  <2>1. CASE Create(h)
    <3> DEFINE me == handlers[h]
    <3>1. me.job \in Job /\ me.source \in Sources
      BY <2>1 DEF Create, TypeOK, HandlerState
    <3>2. CASE Insert(me.job, me.source)
      <4>1. jobs'[j] \in {QueuedRow(me.source), Failed(j), jobs[j]}
        BY <3>1, <3>2, InsertTypes
      <4>2. QueuedRow(me.source).state = "queued" /\ Failed(j).state = "failed"
        BY <3>1, NewRows, FailedFacts DEF TypeOK
      <4> QED
        BY <4>1, <4>2
    <3>3. CASE jobs' = Expired \/ UNCHANGED jobs
      BY <3>3, ExpiredFacts, FailedFacts DEF TypeOK
    <3> QED
      BY <2>1, <3>2, <3>3 DEF Create
  <2>2. CASE Queue(h) \/ Acknowledge(h)
    BY <2>2 DEF Queue, Acknowledge, TypeOK, Row
  <2>3. CASE FailDispatch(h)
    BY <2>3, FailedFacts DEF FailDispatch, TypeOK
  <2> QED
    BY <1>1, <2>1, <2>2, <2>3 DEF HandlerStep, Discard, Spawn
<1>2. ASSUME NEW i \in Job, Reserve(i) PROVE FALSE
  BY <1>2, ReserveTypes, NewRows, FailedFacts DEF TypeOK
<1>3. ASSUME NEW i \in Job, ReserveAgain(i) PROVE FALSE
  <2>1. PICK n \in Nat : jobs'[i] = [IF Lapsed(i) THEN Failed(i) ELSE jobs[i] EXCEPT !.url = n]
    BY <1>3, ReserveAgainTypes
  <2>2. jobs'[i].state = IF Lapsed(i) THEN "failed" ELSE jobs[i].state
    <3>1. jobs[i] \in Row /\ Failed(i) \in Row /\ Failed(i).state = "failed"
      BY FailedFacts DEF TypeOK
    <3>2. \A r \in Row : [r EXCEPT !.url = n].state = r.state
      BY DEF Row
    <3> QED
      BY <2>1, <3>1, <3>2
  <2>3. \A k \in Job \ {i} : jobs'[k] = IF Lapsed(k) THEN Failed(k) ELSE jobs[k]
    BY <1>3, ReserveAgainTypes
  <2> QED
    BY <2>2, <2>3, FailedFacts DEF TypeOK
<1>4. ASSUME NEW w \in Worker, WorkerStep(w), ~Complete(w) PROVE FALSE
  <2>1. CASE Fail(w)
    <3>1. jobs \in [Job -> Row]
      BY DEF TypeOK
    <3>2. \/ jobs' = jobs
          \/ \E k \in Job : jobs' = [jobs EXCEPT ![k] = [jobs[k] EXCEPT !.state = "queued", !.lease = 0]]
          \/ \E k \in Job : jobs' = [jobs EXCEPT ![k] = Failed(k)]
      BY <2>1 DEF Fail, TypeOK
    <3>3. \A k \in Job : [jobs[k] EXCEPT !.state = "queued", !.lease = 0].state = "queued"
      BY <3>1 DEF Row
    <3> QED
      BY <3>1, <3>2, <3>3, FailedFacts
  <2>2. CASE Claim(w)
    BY <2>2 DEF Claim, Take, TypeOK, Row
  <2> QED
    BY <1>4, <2>1, <2>2 DEF WorkerStep, ReadReports, Ingest, EvaluateIssues, WorkRaises,
       DeleteReports
<1>5. ASSUME Tick PROVE FALSE
  <2>1. jobs'[j].state = jobs[j].state
    BY <1>5, TickFacts
  <2> QED
    BY <2>1
<1>6. PICK w \in Worker : Complete(w)
  BY <1>1, <1>2, <1>3, <1>4, <1>5 DEF Next, vars, Submission, Stage, Verify, Replay,
     DispatchRaises, ApiCrash, Upload, Stop
<1> QED
  BY <1>6 DEF Complete, TypeOK

\* A container finishes with the issues evaluated on its own evidence: only it can ingest
\* under its job, and it has evaluated them since.
LEMMA FinishingStep == IInv /\ [Next]_vars => FinishingIsEvaluated'
<1> SUFFICES ASSUME IInv, [Next]_vars, NEW w \in Worker,
                    workers'[w].pc = "finishing", evidence'.by = workers'[w].job,
                    jobs'[workers'[w].job].state = "running"
             PROVE  evidence'.evaluated
  BY DEF FinishingIsEvaluated
<1>t. /\ TypeOK /\ RequestsFollow /\ LeaseOutlivesWork /\ OneImporter /\ FinishingIsEvaluated
  BY DEF IInv
<1>i. IsImporting(w)'
  BY DEF IsImporting, Importing
<1>1. CASE Tick
  <2>1. workers'[w].pc = workers[w].pc /\ workers'[w].job = workers[w].job
    BY <1>1, <1>t, TickFacts
  <2>2. \A j \in Job : jobs'[j].state = jobs[j].state
    BY <1>1, <1>t, TickFacts
  <2>3. workers[w].job \in Job
    BY <1>t, <2>1 DEF TypeOK
  <2> QED
    BY <1>1, <1>t, <2>1, <2>2, <2>3 DEF Tick, FinishingIsEvaluated
<1>2. CASE ~Tick
  <2>1. Continues(w)
    BY <1>2, <1>t, <1>i, ImportingMoves DEF Claims
  <2>2. CASE EvaluateIssues(w)
    BY <2>2, <1>t DEF EvaluateIssues, TypeOK
  <2>3. CASE workers[w].pc = "finishing"
    <3> DEFINE j == workers[w].job
    <3>1. j \in Job /\ workers'[w].job = j
      BY <2>1, <2>3, <1>t DEF TypeOK, Continues
    <3>2. jobs[j].state = "running"
      BY <1>2, <1>t, <2>1, <3>1, LeasedRow DEF LeaseOutlivesWork, Continues
    <3>3. ASSUME NEW v \in Worker, Ingest(v) PROVE FALSE
      <4>1. workers[v].job = j /\ IsImporting(v) /\ IsImporting(w)
        BY <3>1, <3>3, <2>3, <1>t DEF Ingest, IsImporting, Importing, TypeOK
      <4>2. v = w
        BY <1>t, <3>2, <4>1 DEF OneImporter
      <4> QED
        BY <2>3, <3>3, <4>2 DEF Ingest
    <3>4. ASSUME NEW v \in Worker, EvaluateIssues(v) PROVE evidence'.evaluated
      BY <3>4, <1>t DEF EvaluateIssues, TypeOK
    <3>5. ASSUME UNCHANGED evidence PROVE evidence'.evaluated
      BY <3>1, <3>2, <3>5, <2>3, <1>t DEF FinishingIsEvaluated
    <3> QED
      BY <1>2, <3>3, <3>4, <3>5, EvidenceMoves
  <2> QED
    BY <2>1, <2>2, <2>3 DEF Continues
<1> QED
  BY <1>1, <1>2

\* Evidence of an import that succeeded is evaluated: an import succeeds from finishing, and
\* evidence is written under jobs that are running or have failed.
LEMMA SuccessStep == IInv /\ [Next]_vars => SuccessIsEvaluated'
<1> SUFFICES ASSUME IInv, [Next]_vars, NEW j \in Job, evidence'.by = j,
                    jobs'[j].state = "succeeded"
             PROVE  evidence'.evaluated
  BY DEF SuccessIsEvaluated
<1>t. /\ TypeOK /\ RequestsFollow /\ LeaseOutlivesWork /\ FinishingIsEvaluated
      /\ SuccessIsEvaluated
  BY DEF IInv
<1>r. \A i \in Job : RowStep(i)
  BY <1>t, RowSteps
<1>1. ASSUME NEW w \in Worker, Ingest(w) PROVE FALSE
  <2>1. workers[w].job = j /\ jobs' = jobs
    BY <1>1, <1>t DEF Ingest, TypeOK
  <2>2. IsImporting(w)
    BY <1>1 DEF Ingest, IsImporting, Importing
  <2> QED
    BY <1>t, <2>1, <2>2 DEF LeaseOutlivesWork
<1>2. ASSUME NEW w \in Worker, EvaluateIssues(w) PROVE evidence'.evaluated
  BY <1>2, <1>t DEF EvaluateIssues, TypeOK
<1>3. ASSUME UNCHANGED evidence PROVE evidence'.evaluated
  <2>1. CASE jobs[j].state = "succeeded"
    BY <1>3, <1>t, <2>1 DEF SuccessIsEvaluated
  <2>2. CASE jobs[j].state # "succeeded"
    <3>1. PICK w \in Worker : Complete(w) /\ workers[w].job = j /\ jobs[j].state = "running"
      BY <1>t, <2>2, Successes
    <3> QED
      BY <1>3, <1>t, <3>1 DEF Complete, FinishingIsEvaluated
  <2> QED
    BY <2>1, <2>2
<1> QED
  BY <1>1, <1>2, <1>3, EvidenceMoves

-----------------------------------------------------------------------------
\* The inductive invariant holds in every reachable state.
THEOREM Invariance == Spec => []IInv
<1>1. Init => IInv
  BY InitInv
<1>2. IInv /\ [Next]_vars => IInv'
  <2> SUFFICES ASSUME IInv, [Next]_vars PROVE IInv'
    OBVIOUS
  <2>1. TypeOK' /\ BudgetBound'
    BY TypeStep, BudgetStep DEF IInv
  <2>2. LeaseOutlivesWork' /\ OneImporter' /\ OneActive'
    BY LeaseStep, ActiveStep
  <2>3. ContainersFollow' /\ RequestsFollow' /\ OneRequest' /\ KeyNamesJob'
    BY ContainersStep, RequestsStep, KeyStep
  <2>4. ActiveHasReports' /\ FinishingIsEvaluated' /\ SuccessIsEvaluated'
    BY ReportsStep, FinishingStep, SuccessStep
  <2> QED
    BY <2>1, <2>2, <2>3, <2>4 DEF IInv
<1> QED
  BY <1>1, <1>2, PTL DEF Spec

\* Types: rows, stored reports, evidence, requests and containers keep their shape, and
\* requests and containers at work have a job.
THEOREM TypeCorrect == Spec => []TypeOK
<1>1. IInv => TypeOK
  BY DEF IInv
<1> QED
  BY <1>1, Invariance, PTL

\* A queued or running job has its reports, whoever is discarding reports at the same time:
\* the loser of the gateway's race, a replay, a failed dispatch, a late container.
THEOREM ReportsKept == Spec => []ActiveHasReports
<1>1. IInv => ActiveHasReports
  BY DEF IInv
<1> QED
  BY <1>1, Invariance, PTL

\* A container that may still write evidence works under the latest claim of its job, or for
\* a job a dispatcher has failed; the lease longer than the hard timeout is what makes it so.
THEOREM LiveImportCorrect == Spec => []LiveImportKeepsItsJob
<1>1. IInv => LiveImportKeepsItsJob
  BY DEF IInv, LeaseOutlivesWork, LiveImportKeepsItsJob
<1> QED
  BY <1>1, Invariance, PTL

\* Two containers that may still write evidence, of jobs no dispatcher has failed, are the same
\* container: the workload's imports do not overlap.
NoOverlap ==
    \A v, w \in Worker :
        /\ IsImporting(v) /\ jobs[workers[v].job].state # "failed"
        /\ IsImporting(w) /\ jobs[workers[w].job].state # "failed"
        => v = w

\* Imports of the workload do not overlap, but for those of a job failed by its dispatcher.
THEOREM ImportsExclude == Spec => []NoOverlap
<1>1. IInv => NoOverlap
  <2> SUFFICES ASSUME IInv, NEW v \in Worker, NEW w \in Worker, IsImporting(v), IsImporting(w),
                      jobs[workers[v].job].state # "failed",
                      jobs[workers[w].job].state # "failed"
               PROVE  v = w
    BY DEF NoOverlap
  <2>1. workers[v].job \in Job /\ workers[w].job \in Job
    BY DEF IInv, TypeOK, IsImporting, Importing
  <2>2. jobs[workers[v].job].state = "running" /\ jobs[workers[w].job].state = "running"
    BY DEF IInv, LeaseOutlivesWork
  <2>3. workers[v].job = workers[w].job
    BY <2>1, <2>2 DEF IInv, OneActive, Active, Dispatched
  <2> QED
    BY <2>2, <2>3 DEF IInv, OneImporter
<1> QED
  BY <1>1, Invariance, PTL

\* A gateway key makes one job, however often and however concurrently it is replayed.
THEOREM KeyMakesOneJob == Spec => []OneJobPerKey
<1>1. IInv => OneJobPerKey
  <2> SUFFICES ASSUME IInv PROVE OneJobPerKey
    OBVIOUS
  <2> DEFINE made == {j \in Job : jobs[j].source = "gateway" /\ jobs[j].state # "absent"}
  <2>1. made \subseteq {keyed}
    BY DEF IInv, KeyNamesJob
  <2>2. IsFiniteSet({keyed}) /\ Cardinality({keyed}) = 1
    BY FS_Singleton
  <2>3. IsFiniteSet(made) /\ Cardinality(made) <= Cardinality({keyed})
    BY <2>1, <2>2, FS_Subset
  <2> QED
    BY <2>2, <2>3 DEF OneJobPerKey
<1> QED
  BY <1>1, Invariance, PTL

\* When the workload's evidence is that of an import that succeeded, the issues have been
\* evaluated on it (ADR 0030).
THEOREM SuccessEvaluated == Spec => []SuccessIsEvaluated
<1>1. IInv => SuccessIsEvaluated
  BY DEF IInv
<1> QED
  BY <1>1, Invariance, PTL

\* A job that has ended is over: neither a late container nor a dispatcher, nor a workflow run
\* that reserves or completes its upload again, takes it up.
THEOREM EndIsFinal == Spec => EndedStaysEnded
<1> DEFINE A == \A j \in Job : jobs[j].state \in Ended =>
          jobs'[j].state = jobs[j].state /\ jobs'[j].source = jobs[j].source
<1>1. IInv /\ [Next]_vars => A
  <2> SUFFICES ASSUME IInv, [Next]_vars, NEW j \in Job, jobs[j].state \in Ended
               PROVE  jobs'[j].state = jobs[j].state /\ jobs'[j].source = jobs[j].source
    OBVIOUS
  <2>1. \A k \in Job : RowStep(k)
    BY RowSteps DEF IInv
  <2>2. jobs[j].state # "absent"
    BY DEF Ended
  <2> QED
    BY <2>1, <2>2, RowOrder
<1> QED
  BY <1>1, Invariance, PTL DEF Spec, EndedStaysEnded

=============================================================================
