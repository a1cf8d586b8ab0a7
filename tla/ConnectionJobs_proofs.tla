----------------------- MODULE ConnectionJobs_proofs -----------------------
(***************************************************************************)
(* The safety of ConnectionJobs for every number of jobs, handlers and     *)
(* containers and every timeout shorter than the lease.                    *)
(*                                                                         *)
(* LiveWorkKeepsItsJob is not inductive: a claim must not meet a live      *)
(* executor of the same job, which needs the executor's lease to be        *)
(* longer than what is left of its container.  LeaseOutlivesWork says so,  *)
(* and BudgetBound makes it true at the claim.                             *)
(***************************************************************************)
EXTENDS ConnectionJobs, TLAPS

\* No container has more time left than the hard timeout.
BudgetBound == \A w \in Worker : workers[w].budget <= WorkerTimeout

\* The lease of a job outlives the container that claimed it.
LeaseOutlivesWork ==
    \A w \in Worker : IsExecuting(w) =>
        LET row == jobs[workers[w].job] IN
        \/ row.state = "running" /\ row.attempts = workers[w].gen /\ workers[w].budget < row.lease
        \/ row.state = "failed" /\ row.error = "dispatch"
        \/ row.state = "deleted"

\* What a client was told of a job that has ended stays true: nobody takes the row up again or
\* changes its verdict, but the connection can be deleted with its rows.
EndedStaysEnded ==
    [][\A j \in Job : jobs[j].state \in {"succeeded", "failed", "deleted"} =>
          \/ jobs'[j].state = jobs[j].state /\ jobs'[j].error = jobs[j].error
          \/ jobs'[j].state = "deleted"]_vars

\* The inductive invariant.
IInv == TypeOK /\ BudgetBound /\ LeaseOutlivesWork /\ OneExecutor /\ OneActiveJob /\ InactiveIsIdle

-----------------------------------------------------------------------------
\* Rows change only to rows: closing, queueing and expiring keep the row type.
LEMMA RowTypes ==
  /\ NoRow \in Row /\ QueuedRow \in Row
  /\ \A s \in {"absent", "queued", "running", "succeeded", "failed", "deleted"},
        e \in {"none", "dispatch", "stale", "worker"} : Closed(s, e) \in Row
BY LimitAssumption DEF NoRow, QueuedRow, Row, Closed

\* The partial updates of a row and of a container keep their types.
LEMMA RowUpdates ==
  ASSUME NEW r \in Row
  PROVE  /\ [r EXCEPT !.called = TRUE] \in Row
         /\ [r EXCEPT !.state = "queued", !.error = "worker", !.lease = 0] \in Row
         /\ [r EXCEPT !.state = "running", !.attempts = @ + 1, !.lease = WorkerLease] \in Row
<1>1. r.attempts + 1 \in Nat /\ WorkerLease \in Nat
  BY LimitAssumption DEF Row
<1>2. \A n, l \in Nat : [r EXCEPT !.state = "running", !.attempts = n, !.lease = l] \in Row
  BY DEF Row
<1>3. [r EXCEPT !.state = "running", !.attempts = @ + 1, !.lease = WorkerLease]
        = [r EXCEPT !.state = "running", !.attempts = r.attempts + 1, !.lease = WorkerLease]
  BY DEF Row
<1>4. [r EXCEPT !.called = TRUE] \in Row
  BY DEF Row
<1>5. [r EXCEPT !.state = "queued", !.error = "worker", !.lease = 0] \in Row
  BY DEF Row
<1> QED
  BY <1>1, <1>2, <1>3, <1>4, <1>5

\* The partial updates of a container keep its type.
LEMMA ContainerUpdates ==
  ASSUME NEW c \in Container
  PROVE  /\ [c EXCEPT !.pc = "started"] \in Container
         /\ \A n \in Nat : [c EXCEPT !.pc = "claimed", !.gen = n] \in Container
BY DEF Container, Executing

\* A countdown stays a natural number and stays below a larger one.
LEMMA DecFacts ==
  /\ \A n \in Nat : Dec(n) \in Nat /\ Dec(n) <= n
  /\ \A m, n \in Nat : 0 < m /\ m < n => Dec(m) < Dec(n)
BY DEF Dec

\* Expiring a kind of job keeps the table typed and changes only its stale rows.
LEMMA ExpiredFacts ==
  ASSUME jobs \in [Job -> Row], NEW K
  PROVE  /\ Expired(K) \in [Job -> Row]
         /\ \A j \in Job : Expired(K)[j] =
                IF j \in K /\ Stale(j) THEN Closed("failed", "stale") ELSE jobs[j]
<1>1. Closed("failed", "stale") \in Row
  BY RowTypes
<1> QED
  BY <1>1 DEF Expired

\* The initial state satisfies the inductive invariant.
LEMMA InitInv == Init => IInv
<1> SUFFICES ASSUME Init PROVE IInv
  OBVIOUS
<1>1. TypeOK
  BY RowTypes DEF Init, TypeOK, Idle, Off, Container
<1>2. BudgetBound
  BY LimitAssumption DEF Init, BudgetBound, Off
<1>3. LeaseOutlivesWork /\ OneExecutor
  BY DEF Init, LeaseOutlivesWork, OneExecutor, IsExecuting, Executing, Off
<1>4. OneActiveJob /\ InactiveIsIdle
  BY JobAssumption DEF Init, OneActiveJob, InactiveIsIdle, Active, ActiveStates, NoRow,
     Closed, Kinds, Job
<1> QED
  BY <1>1, <1>2, <1>3, <1>4 DEF IInv

-----------------------------------------------------------------------------
\* Every step keeps the types.
LEMMA TypeStep == TypeOK /\ [Next]_vars => TypeOK'
<1> SUFFICES ASSUME TypeOK, [Next]_vars PROVE TypeOK'
  OBVIOUS
<1>a. Kinds = {ValidationJob, CollectionJob} /\ \A K \in Kinds : K \subseteq Job
  BY DEF Kinds, Job
<1>1. ASSUME NEW p \in Proc, NEW K \in Kinds, CreateJob(p, K), workers' = workers
      PROVE  TypeOK'
  BY <1>1, <1>a, RowTypes, ExpiredFacts DEF CreateJob, TypeOK
<1>2. ASSUME NEW p \in Api, ApiStep(p) PROVE TypeOK'
  BY <1>1, <1>2 DEF ApiStep, Request, GatewayDispatch, ApiCrash, Idle, TypeOK, Proc
<1>3. ASSUME NEW p \in Proc, DispatchStep(p) PROVE TypeOK'
  <2>1. CASE Spawn(p)
    BY <2>1, LimitAssumption DEF Spawn, TypeOK, Container, Off
  <2>2. CASE Acknowledge(p)
    <3>1. [jobs[disp[p].job] EXCEPT !.called = TRUE] \in Row
      BY <2>2, RowUpdates DEF Acknowledge, TypeOK
    <3> QED
      BY <2>2, <3>1 DEF Acknowledge, TypeOK, Idle
  <2>3. CASE DispatchRaises(p) \/ FailDispatch(p)
    BY <2>3, RowTypes DEF DispatchRaises, FailDispatch, TypeOK, Idle
  <2> QED
    BY <1>3, <2>1, <2>2, <2>3 DEF DispatchStep
<1>4. ASSUME NEW w \in Worker, WorkerStep(w) PROVE TypeOK'
  <2>1. CASE Claim(w)
    <3> DEFINE j == workers[w].job
    <3>1. j \in Job /\ jobs[j] \in Row /\ workers[w] \in Container
      BY <2>1 DEF Claim, TypeOK
    <3>2. /\ [jobs[j] EXCEPT !.state = "running", !.attempts = @ + 1, !.lease = WorkerLease] \in Row
          /\ [workers[w] EXCEPT !.pc = "claimed", !.gen = jobs[j].attempts + 1] \in Container
      <4>1. jobs[j].attempts + 1 \in Nat
        BY <3>1 DEF Row
      <4> QED
        BY <3>1, <4>1, RowUpdates, ContainerUpdates
    <3>3. CASE Take(w, j, WorkerLease)
      BY <2>1, <3>1, <3>2, <3>3 DEF Claim, Take, TypeOK, Container
    <3>4. CASE Exit(w) /\ UNCHANGED jobs
      BY <2>1, <3>4 DEF Claim, Exit, Off, TypeOK, Container
    <3> QED
      BY <2>1, <3>3, <3>4 DEF Claim
  <2>2. CASE ReadTarget(w) \/ Validate(w) \/ Collect(w) \/ WorkRaises(w)
    <3>1. PICK pc \in Executing : Goto(w, pc)
      BY <2>2 DEF ReadTarget, Validate, Collect, WorkRaises, Executing
    <3>2. [workers[w] EXCEPT !.pc = pc] \in Container
      BY DEF TypeOK, Container
    <3>3. UNCHANGED <<conn, jobs, disp>>
      BY <2>2 DEF ReadTarget, Validate, Collect, WorkRaises
    <3>4. workers[w].job \in Job
      BY <2>2 DEF ReadTarget, Validate, Collect, WorkRaises, TypeOK
    <3> QED
      BY <3>1, <3>2, <3>3, <3>4 DEF Goto, TypeOK
  <2>3. CASE RecordValidation(w)
    BY <2>3 DEF RecordValidation, Goto, TypeOK, Container, Executing
  <2>4. CASE QueuePrimaryCollection(w)
    <3>1. /\ workers' \in [Worker -> Container]
          /\ \A v \in Worker : workers'[v].pc # "off" => workers'[v].job \in Job
      BY <2>4 DEF QueuePrimaryCollection, Goto, TypeOK, Container, Executing
    <3>2. /\ conn' = conn /\ jobs' \in [Job -> Row]
          /\ disp' \in [Proc -> [pc  : {"idle", "dispatching", "spawned", "failing"},
                          job : Job \cup {NoJob}]]
          /\ \A p \in Proc : disp'[p].pc # "idle" => disp'[p].job \in Job
      <4>1. w \in Proc /\ CollectionJob \in Kinds
        BY <1>a DEF Proc
      <4> QED
        BY <2>4, <4>1, <1>a, RowTypes, ExpiredFacts DEF QueuePrimaryCollection, CreateJob, TypeOK
    <3> QED
      BY <3>1, <3>2 DEF TypeOK
  <2>5. CASE Complete(w) \/ FailValidation(w)
    BY <2>5, RowTypes DEF Complete, FailValidation, Exit, Off, TypeOK, Container
  <2>6. CASE FailCollection(w)
    <3> DEFINE j == workers[w].job
    <3>1. j \in Job /\ jobs[j] \in Row /\ workers[w] \in Container
      BY <2>6 DEF FailCollection, TypeOK
    <3>2. /\ [jobs[j] EXCEPT !.state = "queued", !.error = "worker", !.lease = 0] \in Row
          /\ [workers[w] EXCEPT !.pc = "started"] \in Container
      BY <3>1, RowUpdates, ContainerUpdates
    <3>3. /\ jobs' \in [Job -> Row] /\ UNCHANGED <<conn, disp>>
          /\ Goto(w, "started") \/ Exit(w)
      BY <2>6, <3>1, <3>2, RowTypes DEF FailCollection, TypeOK
    <3>4. CASE Goto(w, "started")
      <4>1. workers' = [workers EXCEPT ![w] = [workers[w] EXCEPT !.pc = "started"]]
        BY <3>4 DEF Goto
      <4>2. [workers[w] EXCEPT !.pc = "started"].job = workers[w].job
        BY <3>1 DEF Container
      <4> QED
        BY <3>1, <3>2, <3>3, <4>1, <4>2 DEF TypeOK
    <3>5. CASE Exit(w)
      <4>1. Off \in Container /\ Off.pc = "off"
        BY DEF Off, Container
      <4> QED
        BY <3>3, <3>5, <4>1 DEF Exit, TypeOK
    <3> QED
      BY <3>3, <3>4, <3>5
  <2>7. CASE Stop(w)
    BY <2>7 DEF Stop, Exit, Off, Idle, TypeOK, Container, Proc
  <2> QED
    BY <1>4, <2>1, <2>2, <2>3, <2>4, <2>5, <2>6, <2>7 DEF WorkerStep
<1>5. ASSUME NEW K \in Kinds, StatusPoll(K) PROVE TypeOK'
  BY <1>5, ExpiredFacts DEF StatusPoll, TypeOK
<1>6. CASE Disable \/ Delete
  <2>1. jobs' \in [Job -> Row]
    <3>1. Closed("deleted", "none") \in Row
      BY RowTypes
    <3> QED
      BY <1>6, <3>1 DEF Disable, Delete, TypeOK
  <2>2. conn' \in [lifecycle : {"active", "disabled", "deleted"}, healthy : BOOLEAN]
    <3>1. [lifecycle |-> "disabled", healthy |-> FALSE]
              \in [lifecycle : {"active", "disabled", "deleted"}, healthy : BOOLEAN]
      OBVIOUS
    <3>2. [conn EXCEPT !.lifecycle = "deleted"]
              \in [lifecycle : {"active", "disabled", "deleted"}, healthy : BOOLEAN]
      BY DEF TypeOK
    <3> QED
      BY <1>6, <3>1, <3>2 DEF Disable, Delete
  <2> QED
    BY <1>6, <2>1, <2>2 DEF Disable, Delete, TypeOK
<1>7. CASE Tick
  <2>1. \A r \in Row : [r EXCEPT !.lease = Dec(@), !.ttl = Dec(@)] \in Row
    BY DecFacts DEF Row
  <2>2. \A c \in Container : /\ [c EXCEPT !.budget = Dec(@)] \in Container
                             /\ [c EXCEPT !.budget = Dec(@)].pc = c.pc
                             /\ [c EXCEPT !.budget = Dec(@)].job = c.job
    BY DecFacts DEF Container
  <2> QED
    BY <1>7, <2>1, <2>2 DEF Tick, TypeOK
<1>8. CASE UNCHANGED vars
  BY <1>8 DEF vars, TypeOK
<1> QED
  BY <1>2, <1>3, <1>4, <1>5, <1>6, <1>7, <1>8 DEF Next

-----------------------------------------------------------------------------
\* A row that a container executes has not expired and is neither absent nor queued.
LEMMA Protected ==
  ASSUME TypeOK, LeaseOutlivesWork, NEW w \in Worker, IsExecuting(w)
  PROVE  /\ workers[w].job \in Job /\ workers[w].budget \in Nat
         /\ ~Stale(workers[w].job)
         /\ jobs[workers[w].job].state \notin {"absent", "queued"}
<1>1. workers[w].job \in Job /\ workers[w].budget \in Nat
  BY DEF TypeOK, IsExecuting, Executing, Container
<1>2. jobs[workers[w].job].lease \in Nat
  BY <1>1 DEF TypeOK, Row
<1> QED
  BY <1>1, <1>2 DEF LeaseOutlivesWork, Stale

\* Queueing a job leaves the rows of every executing container alone.
LEMMA CreateKeepsExecuted ==
  ASSUME TypeOK, LeaseOutlivesWork, NEW p \in Proc, NEW K \in Kinds, CreateJob(p, K),
         NEW w \in Worker, IsExecuting(w)
  PROVE  jobs'[workers[w].job] = jobs[workers[w].job]
<1>1. Expired(K)[workers[w].job] = jobs[workers[w].job]
  BY Protected, ExpiredFacts DEF TypeOK
<1>2. K \subseteq Job /\ Expired(K) \in [Job -> Row]
  BY ExpiredFacts DEF Kinds, Job, TypeOK
<1> QED
  BY <1>1, <1>2, Protected DEF CreateJob

\* The containers keep to their hard timeout.
LEMMA BudgetStep == TypeOK /\ BudgetBound /\ [Next]_vars => BudgetBound'
<1> SUFFICES ASSUME TypeOK, BudgetBound, [Next]_vars PROVE BudgetBound'
  OBVIOUS
<1> USE LimitAssumption
<1>1. CASE UNCHANGED workers
  BY <1>1 DEF BudgetBound
<1>2. ASSUME NEW p \in Proc, Spawn(p) PROVE BudgetBound'
  BY <1>2 DEF Spawn, BudgetBound, TypeOK
<1>3. ASSUME NEW w \in Worker, NEW pc, Goto(w, pc) PROVE BudgetBound'
  BY <1>3 DEF Goto, BudgetBound, TypeOK, Container
<1>4. ASSUME NEW w \in Worker, Exit(w) PROVE BudgetBound'
  BY <1>4 DEF Exit, Off, BudgetBound, TypeOK
<1>5. ASSUME NEW w \in Worker, NEW j, NEW l, Take(w, j, l) PROVE BudgetBound'
  BY <1>5 DEF Take, BudgetBound, TypeOK, Container
<1>6. CASE Tick
  <2> SUFFICES ASSUME NEW w \in Worker PROVE workers'[w].budget <= WorkerTimeout
    BY DEF BudgetBound
  <2>1. workers[w].budget \in Nat /\ workers[w].budget <= WorkerTimeout
    BY DEF TypeOK, Container, BudgetBound
  <2>2. workers'[w].budget = Dec(workers[w].budget)
    BY <1>6 DEF Tick, TypeOK, Container
  <2> QED
    BY <2>1, <2>2, DecFacts
<1>7. ASSUME NEW w \in Worker, WorkerStep(w) PROVE BudgetBound'
  BY <1>3, <1>4, <1>5, <1>7 DEF WorkerStep, Claim, ReadTarget, Validate, RecordValidation,
     QueuePrimaryCollection, Collect, WorkRaises, Complete, FailValidation, FailCollection, Stop
<1> QED
  BY <1>1, <1>2, <1>6, <1>7 DEF Next, ApiStep, Request, GatewayDispatch, ApiCrash, DispatchStep,
     Acknowledge, DispatchRaises, FailDispatch, StatusPoll, Disable, Delete, vars

\* No step lets a second container execute a job, and none ends, replaces or outlives
\* the lease of a job that a container executes.
LEMMA ExecutorStep ==
  IInv /\ TypeOK' /\ [Next]_vars => LeaseOutlivesWork' /\ OneExecutor'
<1> SUFFICES ASSUME IInv, TypeOK', [Next]_vars PROVE LeaseOutlivesWork' /\ OneExecutor'
  OBVIOUS
<1> USE DEF IInv
<1> DEFINE Owned(w) ==
        LET row == jobs[workers[w].job] IN
        \/ row.state = "running" /\ row.attempts = workers[w].gen /\ workers[w].budget < row.lease
        \/ row.state = "failed" /\ row.error = "dispatch"
        \/ row.state = "deleted"
<1>a. ASSUME NEW w \in Worker, IsExecuting(w) PROVE Owned(w)
  BY <1>a DEF LeaseOutlivesWork
\* The rows that are executed stay, the containers move only within their execution.
<1>b. ASSUME \A w \in Worker : IsExecuting(w)' => IsExecuting(w) /\ Owned(w)'
                                   /\ workers'[w].job = workers[w].job
      PROVE  LeaseOutlivesWork' /\ OneExecutor'
  BY <1>b DEF LeaseOutlivesWork, OneExecutor
<1> HIDE DEF Owned
<1>1. ASSUME NEW p \in Proc, NEW K \in Kinds, CreateJob(p, K),
             NEW w \in Worker, IsExecuting(w), workers'[w].job = workers[w].job,
             workers'[w].gen = workers[w].gen, workers'[w].budget = workers[w].budget
      PROVE  Owned(w)'
  BY <1>1, <1>a, CreateKeepsExecuted DEF Owned
\* A container that moves to a program point of its execution keeps its claim.
<1>2. ASSUME NEW w \in Worker, NEW pc, Goto(w, pc)
      PROVE  \A v \in Worker : /\ workers'[v].job = workers[v].job
                               /\ workers'[v].gen = workers[v].gen
                               /\ workers'[v].budget = workers[v].budget
                               /\ v # w => workers'[v] = workers[v]
                               /\ v = w => workers'[v].pc = pc
  BY <1>2 DEF Goto, TypeOK, Container
<1>3. ASSUME NEW w \in Worker, Exit(w)
      PROVE  ~IsExecuting(w)' /\ \A v \in Worker : v # w => workers'[v] = workers[v]
  BY <1>3 DEF Exit, Off, IsExecuting, Executing, TypeOK
<1>4. ASSUME NEW w \in Worker, IsExecuting(w), UNCHANGED jobs, workers'[w].job = workers[w].job,
             workers'[w].gen = workers[w].gen, workers'[w].budget = workers[w].budget
      PROVE  Owned(w)'
  BY <1>4, <1>a DEF Owned
<1>5. ASSUME NEW p \in Api, ApiStep(p) PROVE LeaseOutlivesWork' /\ OneExecutor'
  <2>1. UNCHANGED workers
    BY <1>5 DEF ApiStep, Request, GatewayDispatch, ApiCrash
  <2>2. p \in Proc
    BY DEF Proc
  <2>3. ASSUME NEW w \in Worker, IsExecuting(w) PROVE Owned(w)'
    BY <1>5, <1>1, <1>4, <2>1, <2>2, <2>3 DEF ApiStep, Request, GatewayDispatch, ApiCrash
  <2> QED
    BY <1>b, <2>1, <2>3 DEF IsExecuting
<1>6. ASSUME NEW p \in Proc, DispatchStep(p) PROVE LeaseOutlivesWork' /\ OneExecutor'
  <2>1. CASE Spawn(p)
    <3>1. PICK v \in Worker : workers[v].pc = "off" /\ workers' = [workers EXCEPT ![v] =
             [pc |-> "started", job |-> disp[p].job, gen |-> 0, budget |-> WorkerTimeout]]
      BY <2>1 DEF Spawn
    <3>2. ~IsExecuting(v)' /\ \A w \in Worker : w # v => workers'[w] = workers[w]
      BY <3>1 DEF IsExecuting, Executing, TypeOK
    <3> QED
      BY <1>b, <1>4, <2>1, <3>2 DEF Spawn, IsExecuting
  <2>2. CASE Acknowledge(p)
    <3>1. ASSUME NEW j \in Job
          PROVE  /\ jobs'[j].state = jobs[j].state /\ jobs'[j].error = jobs[j].error
                 /\ jobs'[j].attempts = jobs[j].attempts /\ jobs'[j].lease = jobs[j].lease
      BY <2>2 DEF Acknowledge, TypeOK, Row
    <3>2. UNCHANGED workers
      BY <2>2 DEF Acknowledge
    <3>3. ASSUME NEW w \in Worker, IsExecuting(w) PROVE Owned(w)'
      BY <1>a, <3>1, <3>2, <3>3, Protected DEF Owned
    <3> QED
      BY <1>b, <3>2, <3>3 DEF IsExecuting
  <2>3. CASE DispatchRaises(p)
    BY <1>b, <1>4, <2>3 DEF DispatchRaises, IsExecuting
  <2>4. CASE FailDispatch(p)
    <3>1. UNCHANGED workers
      BY <2>4 DEF FailDispatch
    <3>2. ASSUME NEW j \in Job
          PROVE  jobs'[j] = jobs[j] \/ jobs'[j] = Closed("failed", "dispatch")
      BY <2>4 DEF FailDispatch, TypeOK
    <3>3. ASSUME NEW w \in Worker, IsExecuting(w) PROVE Owned(w)'
      BY <1>a, <3>1, <3>2, <3>3, Protected DEF Owned, Closed
    <3> QED
      BY <1>b, <3>1, <3>3 DEF IsExecuting
  <2> QED
    BY <1>6, <2>1, <2>2, <2>3, <2>4 DEF DispatchStep
<1>7. ASSUME NEW w \in Worker, WorkerStep(w) PROVE LeaseOutlivesWork' /\ OneExecutor'
  <2>1. CASE Claim(w)
    <3> DEFINE j == workers[w].job
    <3>1. CASE Exit(w) /\ UNCHANGED jobs
      BY <1>b, <1>3, <1>4, <3>1 DEF IsExecuting
    <3>2. CASE Take(w, j, WorkerLease) /\ (jobs[j].state = "queued" \/ Stale(j))
      <4>1. j \in Job /\ jobs[j] \in Row /\ workers[w] \in Container
        BY <2>1 DEF Claim, TypeOK
      <4>2. \A v \in Worker : IsExecuting(v) => workers[v].job # j
        BY <3>2, Protected
      <4>3. /\ jobs'[j].state = "running" /\ jobs'[j].attempts = jobs[j].attempts + 1
            /\ jobs'[j].lease = WorkerLease
            /\ \A i \in Job : i # j => jobs'[i] = jobs[i]
        <5>1. jobs \in [Job -> Row]
          BY DEF TypeOK
        <5>2. jobs' = [jobs EXCEPT ![j] = [jobs[j] EXCEPT !.state = "running",
                           !.attempts = jobs[j].attempts + 1, !.lease = WorkerLease]]
          BY <3>2, <4>1, <5>1 DEF Take, Row
        <5> HIDE DEF IInv, j
        <5> QED
          BY <4>1, <5>1, <5>2 DEF Row
      <4>4. /\ workers'[w].job = j /\ workers'[w].gen = jobs[j].attempts + 1
            /\ workers'[w].budget = workers[w].budget
            /\ \A v \in Worker : v # w => workers'[v] = workers[v]
        <5>1. workers \in [Worker -> Container]
          BY DEF TypeOK
        <5>2. workers' = [workers EXCEPT ![w] = [workers[w] EXCEPT !.pc = "claimed",
                              !.gen = jobs[j].attempts + 1]]
          BY <3>2, <4>1, <5>1 DEF Take, Container
        <5> QED
          BY <4>1, <5>1, <5>2 DEF Container
      <4>5. workers[w].budget < WorkerLease
        BY <4>1, LimitAssumption DEF BudgetBound, Container
      <4>6. Owned(w)'
        BY <4>3, <4>4, <4>5 DEF Owned
      <4>7. ASSUME NEW v \in Worker, v # w, IsExecuting(v)'
            PROVE  IsExecuting(v) /\ workers'[v].job # j /\ Owned(v)'
        <5>1. IsExecuting(v) /\ workers[v].job # j /\ workers[v].job \in Job
          BY <4>2, <4>4, <4>7, Protected DEF IsExecuting
        <5> QED
          BY <1>a, <4>3, <4>4, <4>7, <5>1 DEF Owned
      <4>8. LeaseOutlivesWork'
        BY <4>6, <4>7 DEF LeaseOutlivesWork, Owned
      <4>9. OneExecutor'
        BY <4>4, <4>7 DEF OneExecutor, IsExecuting
      <4> QED
        BY <4>8, <4>9
    <3> QED
      BY <2>1, <3>1, <3>2 DEF Claim, Stale
  <2>2. CASE ReadTarget(w) \/ Validate(w) \/ RecordValidation(w) \/ Collect(w) \/ WorkRaises(w)
    <3>1. IsExecuting(w) /\ (\E pc : Goto(w, pc)) /\ UNCHANGED jobs
      BY <2>2 DEF ReadTarget, Validate, RecordValidation, Collect, WorkRaises, IsExecuting, Executing
    <3> QED
      BY <1>b, <1>2, <1>4, <3>1 DEF IsExecuting
  <2>3. CASE QueuePrimaryCollection(w)
    <3>1. /\ IsExecuting(w) /\ Goto(w, "finishing") /\ w \in Proc /\ CollectionJob \in Kinds
          /\ CreateJob(w, CollectionJob) \/ UNCHANGED jobs
      BY <2>3 DEF QueuePrimaryCollection, IsExecuting, Executing, Kinds, Proc
    <3> QED
      BY <1>b, <1>1, <1>2, <1>4, <3>1 DEF IsExecuting
  <2>4. CASE Complete(w) \/ FailValidation(w) \/ FailCollection(w)
    <3>1. /\ IsExecuting(w) /\ \A i \in Job : i # workers[w].job => jobs'[i] = jobs[i]
          /\ Exit(w) \/ Goto(w, "started")
      BY <2>4 DEF Complete, FailValidation, FailCollection, IsExecuting, Executing, TypeOK
    <3>2. ASSUME NEW v \in Worker, v # w, IsExecuting(v) PROVE Owned(v)' /\ workers'[v] = workers[v]
      <4>1. workers'[v] = workers[v]
        BY <1>2, <1>3, <3>1, <3>2
      <4>2. workers[v].job # workers[w].job /\ workers[v].job \in Job
        BY <3>1, <3>2, Protected DEF OneExecutor
      <4> QED
        BY <1>a, <3>1, <3>2, <4>1, <4>2 DEF Owned
    <3>3. ~IsExecuting(w)'
      BY <1>2, <1>3, <3>1 DEF IsExecuting, Executing
    <3>4. \A v \in Worker : v # w => workers'[v] = workers[v]
      BY <1>2, <1>3, <3>1
    <3> QED
      BY <1>b, <3>2, <3>3, <3>4 DEF IsExecuting
  <2>5. CASE Stop(w)
    BY <1>b, <1>3, <1>4, <2>5 DEF Stop, IsExecuting
  <2> QED
    BY <1>7, <2>1, <2>2, <2>3, <2>4, <2>5 DEF WorkerStep
<1>8. ASSUME NEW K \in Kinds, StatusPoll(K) PROVE LeaseOutlivesWork' /\ OneExecutor'
  <2>1. UNCHANGED workers
    BY <1>8 DEF StatusPoll
  <2>2. ASSUME NEW w \in Worker, IsExecuting(w) PROVE Owned(w)'
    <3>1. Expired(K)[workers[w].job] = jobs[workers[w].job]
      BY <2>2, Protected, ExpiredFacts DEF TypeOK
    <3> QED
      BY <1>8, <1>a, <2>2, <3>1 DEF StatusPoll, Owned
  <2> QED
    BY <1>b, <2>1, <2>2 DEF IsExecuting
<1>9. CASE Disable \/ Delete
  <2>1. UNCHANGED workers
    BY <1>9 DEF Disable, Delete
  <2>2. ASSUME NEW w \in Worker, IsExecuting(w) PROVE Owned(w)'
    <3>1. workers[w].job \in Job /\ jobs[workers[w].job].state # "absent"
      BY <2>2, Protected
    <3> QED
      BY <1>9, <1>a, <2>2, <3>1 DEF Disable, Delete, Owned, Closed
  <2> QED
    BY <1>b, <2>1, <2>2 DEF IsExecuting
<1>10. CASE Tick
  <2>1. ASSUME NEW v \in Worker
        PROVE  /\ workers'[v].pc = workers[v].pc /\ workers'[v].job = workers[v].job
               /\ workers'[v].gen = workers[v].gen
               /\ workers'[v].budget = Dec(workers[v].budget)
    <3>1. workers[v] \in Container /\ workers'[v] = [workers[v] EXCEPT !.budget = Dec(@)]
      BY <1>10 DEF Tick, TypeOK
    <3> QED
      BY <3>1 DEF Container
  <2>2. ASSUME NEW j \in Job
        PROVE  /\ jobs'[j].state = jobs[j].state /\ jobs'[j].error = jobs[j].error
               /\ jobs'[j].attempts = jobs[j].attempts
               /\ jobs'[j].lease = Dec(jobs[j].lease) /\ jobs[j].lease \in Nat
    <3>1. jobs[j] \in Row /\ jobs'[j] = [jobs[j] EXCEPT !.lease = Dec(@), !.ttl = Dec(@)]
      BY <1>10 DEF Tick, TypeOK
    <3> QED
      BY <3>1 DEF Row
  <2>3. ASSUME NEW w \in Worker, IsExecuting(w) PROVE Owned(w)'
    <3>1. workers[w].job \in Job /\ workers[w].budget \in Nat /\ 0 < workers[w].budget
      BY <1>10, <2>3, Protected DEF Tick, IsExecuting, Executing
    <3>2. workers[w].budget < jobs[workers[w].job].lease
            => Dec(workers[w].budget) < Dec(jobs[workers[w].job].lease)
      BY <3>1, <2>2, DecFacts
    <3> QED
      BY <1>a, <2>1, <2>2, <2>3, <3>1, <3>2 DEF Owned
  <2> QED
    BY <1>b, <2>1, <2>3 DEF IsExecuting
<1>11. CASE UNCHANGED vars
  BY <1>b, <1>4, <1>11 DEF vars, IsExecuting
<1> QED
  BY <1>5, <1>6, <1>7, <1>8, <1>9, <1>10, <1>11 DEF Next

\* Only CreateJob makes a row active, with the connection active under its lock and no
\* other active row of the kind; disabling finds no active row.
LEMMA ActiveStep ==
  IInv /\ [Next]_vars => OneActiveJob' /\ InactiveIsIdle'
<1> SUFFICES ASSUME IInv, [Next]_vars PROVE OneActiveJob' /\ InactiveIsIdle'
  OBVIOUS
<1> USE DEF IInv
<1>a. \A K \in Kinds : K \subseteq Job
  BY DEF Kinds, Job
\* A step that activates no row and does not end the connection.
<1>b. ASSUME \A j \in Job : Active(j)' => Active(j),
             conn'.lifecycle # "active" => conn.lifecycle # "active"
      PROVE  OneActiveJob' /\ InactiveIsIdle'
  BY <1>a, <1>b DEF OneActiveJob, InactiveIsIdle
<1>c. ASSUME NEW K \in Kinds, NEW j \in Job, Expired(K)[j].state \in ActiveStates
      PROVE  Active(j) /\ (j \in K => ~Stale(j))
  BY <1>c, ExpiredFacts DEF TypeOK, Active, ActiveStates, Closed
<1>1. ASSUME NEW p \in Proc, NEW K \in Kinds, CreateJob(p, K)
      PROVE  OneActiveJob' /\ InactiveIsIdle'
  <2>1. conn' = conn /\ conn.lifecycle = "active"
    BY <1>1 DEF CreateJob
  <2>2. CASE jobs' = Expired(K)
    BY <1>b, <1>c, <2>1, <2>2 DEF Active
  <2>3. ASSUME \A j \in K : ~Active(j) \/ Stale(j),
               NEW j \in K, jobs' = [Expired(K) EXCEPT ![j] = QueuedRow]
        PROVE  OneActiveJob'
    <3>1. Expired(K) \in [Job -> Row] /\ j \in Job
      BY <1>a, ExpiredFacts DEF TypeOK
    <3>2. \A i \in Job : i # j => jobs'[i] = Expired(K)[i]
      BY <2>3, <3>1
    <3>3. \A i \in K : i # j => ~Active(i)'
      BY <1>a, <1>c, <2>3, <3>2 DEF Active
    <3>4. ASSUME NEW L \in Kinds, L # K
          PROVE  \A i, k \in L : Active(i)' /\ Active(k)' => i = k
      <4>1. j \notin L /\ L \subseteq Job
        BY <1>a, <3>4, JobAssumption DEF Kinds
      <4> QED
        BY <1>c, <3>2, <4>1 DEF OneActiveJob, Active
    <3> QED
      BY <3>3, <3>4 DEF OneActiveJob
  <2> QED
    BY <1>1, <2>1, <2>2, <2>3 DEF CreateJob, InactiveIsIdle
<1>2. ASSUME NEW p \in Api, ApiStep(p) PROVE OneActiveJob' /\ InactiveIsIdle'
  BY <1>1, <1>b, <1>2 DEF ApiStep, Request, GatewayDispatch, ApiCrash, Proc, Active
<1>3. ASSUME NEW p \in Proc, DispatchStep(p) PROVE OneActiveJob' /\ InactiveIsIdle'
  <2>1. conn' = conn
    BY <1>3 DEF DispatchStep, Spawn, Acknowledge, DispatchRaises, FailDispatch
  <2>2. ASSUME NEW j \in Job
        PROVE  jobs'[j].state = jobs[j].state \/ jobs'[j].state = "failed"
    <3>1. jobs \in [Job -> Row] /\ disp[p].job \in Job \cup {NoJob}
      BY <1>3 DEF TypeOK
    <3>2. CASE Spawn(p) \/ DispatchRaises(p)
      BY <3>2 DEF Spawn, DispatchRaises
    <3>3. CASE Acknowledge(p)
      <4>1. \/ jobs'[j] = jobs[j]
            \/ jobs'[j] = [jobs[j] EXCEPT !.called = TRUE]
        BY <2>2, <3>1, <3>3 DEF Acknowledge
      <4> QED
        BY <2>2, <3>1, <4>1 DEF Row
    <3>4. CASE FailDispatch(p)
      BY <2>2, <3>1, <3>4 DEF FailDispatch, Closed
    <3> QED
      BY <1>3, <3>2, <3>3, <3>4 DEF DispatchStep
  <2> QED
    BY <1>b, <2>1, <2>2 DEF Active, ActiveStates
<1>4. ASSUME NEW w \in Worker, WorkerStep(w) PROVE OneActiveJob' /\ InactiveIsIdle'
  <2>1. CASE Claim(w)
    <3>1. ASSUME NEW j \in Job, Active(j)' PROVE Active(j)
      BY <2>1, <3>1 DEF Claim, Take, TypeOK, Row, Active, ActiveStates
    <3> QED
      BY <1>b, <2>1, <3>1 DEF Claim
  <2>2. CASE RecordValidation(w)
    <3>1. conn'.lifecycle = conn.lifecycle /\ UNCHANGED jobs
      BY <2>2 DEF RecordValidation, TypeOK
    <3> QED
      BY <1>b, <3>1 DEF Active
  <2>3. CASE QueuePrimaryCollection(w)
    <3>1. w \in Proc /\ CollectionJob \in Kinds
      BY DEF Proc, Kinds
    <3> QED
      BY <1>1, <1>b, <2>3, <3>1 DEF QueuePrimaryCollection, Active
  <2>4. CASE Complete(w) \/ FailValidation(w) \/ FailCollection(w)
    <3>1. ASSUME NEW j \in Job, Active(j)' PROVE Active(j)
      BY <2>4, <3>1 DEF Complete, FailValidation, FailCollection, TypeOK, Row, Closed,
         Active, ActiveStates
    <3> QED
      BY <1>b, <2>4, <3>1 DEF Complete, FailValidation, FailCollection
  <2>5. CASE UNCHANGED <<conn, jobs>>
    BY <1>b, <2>5 DEF Active
  <2> QED
    BY <1>4, <2>1, <2>2, <2>3, <2>4, <2>5 DEF WorkerStep, ReadTarget, Validate, Collect,
       WorkRaises, Stop
<1>5. ASSUME NEW K \in Kinds, StatusPoll(K) PROVE OneActiveJob' /\ InactiveIsIdle'
  BY <1>b, <1>c, <1>5 DEF StatusPoll, Active
<1>6. CASE Disable
  BY <1>6 DEF Disable, OneActiveJob, InactiveIsIdle, Active
<1>7. CASE Delete
  <2>1. ASSUME NEW j \in Job PROVE ~Active(j)'
    BY <1>7 DEF Delete, InactiveIsIdle, Active, ActiveStates, Closed, TypeOK
  <2> QED
    BY <1>a, <2>1 DEF OneActiveJob, InactiveIsIdle
<1>8. CASE Tick
  <2>1. ASSUME NEW j \in Job PROVE jobs'[j].state = jobs[j].state
    BY <1>8 DEF Tick, TypeOK, Row
  <2> QED
    BY <1>b, <1>8, <2>1 DEF Tick, Active
<1>9. CASE UNCHANGED vars
  BY <1>b, <1>9 DEF vars, Active
<1> QED
  BY <1>2, <1>3, <1>4, <1>5, <1>6, <1>7, <1>8, <1>9 DEF Next

-----------------------------------------------------------------------------
\* The inductive invariant holds in every reachable state.
THEOREM Invariant == Spec => []IInv
<1>1. IInv /\ [Next]_vars => IInv'
  BY TypeStep, BudgetStep, ExecutorStep, ActiveStep DEF IInv
<1> QED
  BY <1>1, InitInv, PTL DEF Spec

\* The rows, dispatching handlers and containers have their types: in particular a
\* handler that dispatches and a container that runs always have a job.
THEOREM TypeCorrect == Spec => []TypeOK
BY Invariant, PTL DEF IInv

\* No two containers execute the same job, whatever is dispatched twice, lost, killed
\* or reclaimed, as long as the hard timeout is shorter than the lease.
THEOREM ExclusiveExecution == Spec => []OneExecutor
BY Invariant, PTL DEF IInv

\* A container that can still execute holds the current generation of its job unless a
\* dispatcher failed it.
THEOREM LiveWorkIsOwned == Spec => []LiveWorkKeepsItsJob
<1>1. IInv => LiveWorkKeepsItsJob
  BY DEF IInv, LeaseOutlivesWork, LiveWorkKeepsItsJob
<1> QED
  BY <1>1, Invariant, PTL

\* A connection has at most one active job of a kind.
THEOREM SingleActiveJob == Spec => []OneActiveJob
BY Invariant, PTL DEF IInv

\* A disabled or deleted connection has no queued or running job.
THEOREM DisabledIsIdle == Spec => []InactiveIsIdle
BY Invariant, PTL DEF IInv

\* The terminal success, which names no generation, is only ever written by the
\* container that holds the current one.
THEOREM SuccessByOwner == Spec => SuccessIsOwned
<1> DEFINE A == \A j \in Job :
          jobs[j].state # "succeeded" /\ jobs'[j].state = "succeeded" =>
              \E w \in Worker : /\ workers[w].pc = "finishing" /\ workers[w].job = j
                                /\ workers[w].gen = jobs[j].attempts
<1>1. IInv /\ [Next]_vars => [A]_vars
  <2> SUFFICES ASSUME IInv, Next, NEW j \in Job, jobs[j].state # "succeeded",
                      jobs'[j].state = "succeeded"
               PROVE  \E w \in Worker : /\ workers[w].pc = "finishing" /\ workers[w].job = j
                                        /\ workers[w].gen = jobs[j].attempts
    BY DEF vars
  <2> USE DEF IInv
  <2>1. ASSUME NEW K PROVE Expired(K) \in [Job -> Row] /\ Expired(K)[j].state # "succeeded"
    BY ExpiredFacts DEF TypeOK, Closed
  <2>2. ASSUME NEW p \in Proc, NEW K \in Kinds, CreateJob(p, K) PROVE FALSE
    BY <2>1, <2>2 DEF CreateJob, QueuedRow
  <2>3. ASSUME NEW p \in Api, ApiStep(p) PROVE FALSE
    BY <2>2, <2>3 DEF ApiStep, Request, GatewayDispatch, ApiCrash, Proc
  <2>4. ASSUME NEW p \in Proc, DispatchStep(p) PROVE FALSE
    BY <2>4 DEF DispatchStep, Spawn, Acknowledge, DispatchRaises, FailDispatch, TypeOK, Row, Closed
  <2>5. ASSUME NEW w \in Worker, WorkerStep(w)
        PROVE  Complete(w) /\ j = workers[w].job /\ jobs[j].state = "running"
    <3>1. w \in Proc /\ CollectionJob \in Kinds
      BY DEF Proc, Kinds
    <3>2. CASE Complete(w)
      BY <3>2 DEF Complete, TypeOK
    <3>3. CASE Claim(w)
      BY <3>3 DEF Claim, Take, TypeOK, Row
    <3>4. CASE FailValidation(w) \/ FailCollection(w)
      BY <3>4 DEF FailValidation, FailCollection, TypeOK, Row, Closed
    <3>5. CASE QueuePrimaryCollection(w)
      BY <2>2, <3>1, <3>5 DEF QueuePrimaryCollection
    <3> QED
      BY <2>5, <3>2, <3>3, <3>4, <3>5 DEF WorkerStep, ReadTarget, Validate, RecordValidation,
         Collect, WorkRaises, Stop
  <2>6. ASSUME NEW K \in Kinds, StatusPoll(K) PROVE FALSE
    BY <2>1, <2>6 DEF StatusPoll
  <2>7. ASSUME Disable \/ Delete PROVE FALSE
    BY <2>7 DEF Disable, Delete, Closed, TypeOK
  <2>8. ASSUME Tick PROVE FALSE
    BY <2>8 DEF Tick, TypeOK, Row
  <2>9. PICK w \in Worker : Complete(w) /\ j = workers[w].job /\ jobs[j].state = "running"
    BY <2>3, <2>4, <2>5, <2>6, <2>7, <2>8 DEF Next
  <2> QED
    BY <2>9 DEF Complete, LeaseOutlivesWork, IsExecuting, Executing
<1> QED
  BY <1>1, Invariant, PTL DEF Spec, SuccessIsOwned

\* A job that has ended stays as it ended, although a late container completes or fails whatever
\* row its job has and a late dispatcher acknowledges or fails it: they all ask for an active row.
THEOREM EndIsFinal == Spec => EndedStaysEnded
<1> DEFINE Same(j) == \/ jobs'[j].state = jobs[j].state /\ jobs'[j].error = jobs[j].error
                      \/ jobs'[j].state = "deleted"
           A == \A j \in Job : jobs[j].state \in {"succeeded", "failed", "deleted"} => Same(j)
<1>1. IInv /\ [Next]_vars => [A]_vars
  <2> SUFFICES ASSUME IInv, Next, NEW j \in Job, jobs[j].state \in {"succeeded", "failed", "deleted"}
               PROVE  Same(j)
    BY DEF vars
  <2> USE DEF IInv
  <2>a. ~Active(j) /\ ~Stale(j) /\ jobs[j].state # "absent" /\ jobs[j] \in Row /\ jobs \in [Job -> Row]
    BY DEF Active, ActiveStates, Stale, TypeOK
  <2>b. ASSUME jobs'[j] = jobs[j] PROVE Same(j)
    BY <2>b
  <2>1. ASSUME NEW K \in Kinds PROVE Expired(K) \in [Job -> Row] /\ Expired(K)[j] = jobs[j]
    BY <2>a, ExpiredFacts
  <2>2. ASSUME NEW p \in Proc, NEW K \in Kinds, CreateJob(p, K) PROVE jobs'[j] = jobs[j]
    BY <2>1, <2>2, <2>a DEF CreateJob
  <2>3. ASSUME NEW p \in Api, ApiStep(p) PROVE Same(j)
    <3>1. p \in Proc
      BY DEF Proc
    <3> QED
      BY <2>b, <2>2, <2>3, <3>1 DEF ApiStep, Request, GatewayDispatch, ApiCrash
  <2>4. ASSUME NEW p \in Proc, DispatchStep(p) PROVE jobs'[j] = jobs[j]
    BY <2>4, <2>a DEF DispatchStep, Spawn, Acknowledge, DispatchRaises, FailDispatch
  <2>5. ASSUME NEW w \in Worker, WorkerStep(w) PROVE jobs'[j] = jobs[j]
    <3>1. w \in Proc /\ CollectionJob \in Kinds
      BY DEF Proc, Kinds
    <3>2. CASE Complete(w) \/ FailValidation(w) \/ FailCollection(w)
      BY <3>2, <2>a DEF Complete, FailValidation, FailCollection
    <3>3. CASE Claim(w)
      BY <3>3, <2>a DEF Claim, Take
    <3>4. CASE QueuePrimaryCollection(w)
      BY <2>2, <3>1, <3>4 DEF QueuePrimaryCollection
    <3> QED
      BY <2>5, <3>2, <3>3, <3>4 DEF WorkerStep, ReadTarget, Validate, RecordValidation,
         Collect, WorkRaises, Stop
  <2>6. ASSUME NEW K \in Kinds, StatusPoll(K) PROVE jobs'[j] = jobs[j]
    BY <2>1, <2>6 DEF StatusPoll
  <2>7. CASE Disable \/ Delete
    BY <2>7, <2>a DEF Disable, Delete, Closed
  <2>8. CASE Tick
    BY <2>8, <2>a DEF Tick, Row
  <2> QED
    BY <2>b, <2>3, <2>4, <2>5, <2>6, <2>7, <2>8 DEF Next
<1> QED
  BY <1>1, Invariant, PTL DEF Spec, EndedStaysEnded

=============================================================================
