--------------------------- MODULE ConnectionJobs ---------------------------
(***************************************************************************)
(* One provider connection of Denali and its durable PostgreSQL jobs: the  *)
(* validation jobs and the collection jobs of every kind except            *)
(* github_source (module GithubCollection has that one).                   *)
(*                                                                         *)
(* A job row is created under the lock of the provider row, dispatched to  *)
(* a Modal container by whoever created it, claimed by the container under *)
(* a lease, and finished by it.  No write of the container carries the     *)
(* generation it claimed: what keeps two containers apart is that the      *)
(* lease (worker_limits.py) is longer than the hard timeout of the         *)
(* container.  Every action is one database transaction or one call of an  *)
(* outside service, so other processes run between any two of them.        *)
(*                                                                         *)
(* Time: `lease', `ttl' and `budget' are what is left of a deadline, in    *)
(* ticks.  A deadline that has passed is 0.                                *)
(***************************************************************************)
EXTENDS Naturals

CONSTANTS
    ValidationJob,  \* identifiers of connection_validation_job rows
    CollectionJob,  \* identifiers of connection_collection_job rows of one kind
    NoJob,          \* a process that is working on no job
    Api,            \* handlers that queue and dispatch (browser, gateway, operator)
    Worker,         \* Modal containers
    QueueTTL,       \* 30 minutes: a queued row older than this is stale
    WorkerTimeout,  \* hard timeout of a container
    WorkerLease,    \* lease of a claimed row
    MaxAttempts     \* attempts of a collection job

Job == ValidationJob \cup CollectionJob
Proc == Api \cup Worker

ASSUME JobAssumption == ValidationJob \cap CollectionJob = {} /\ NoJob \notin Job
ASSUME ProcAssumption == Api \cap Worker = {}
ASSUME LimitAssumption ==
    /\ QueueTTL \in Nat /\ WorkerTimeout \in Nat /\ WorkerLease \in Nat
    /\ MaxAttempts \in Nat \ {0}
    /\ WorkerTimeout < WorkerLease

VARIABLES
    conn,     \* the provider_connection row; of health_state, whether it is 'healthy'
    jobs,     \* the job rows
    disp,     \* what each process is doing about dispatching a job
    workers   \* the containers

vars == <<conn, jobs, disp, workers>>

-----------------------------------------------------------------------------
Kinds == {ValidationJob, CollectionJob}
ActiveStates == {"queued", "running"}

Row == [state    : {"absent", "queued", "running", "succeeded", "failed", "deleted"},
        error    : {"none", "dispatch", "stale", "worker"},
        attempts : Nat,
        lease    : Nat,
        ttl      : Nat,
        called   : BOOLEAN]

\* A row in a state in which nothing reads its other columns.
Closed(state, why) == [state |-> state, error |-> why, attempts |-> 0, lease |-> 0,
                       ttl |-> 0, called |-> FALSE]

NoRow == Closed("absent", "none")

QueuedRow == [state |-> "queued", error |-> "none", attempts |-> 0, lease |-> 0,
              ttl |-> QueueTTL, called |-> FALSE]

\* Program points of a container between its claim and its last write.
Executing == {"claimed", "working", "recording", "followup", "finishing", "failing"}

Container == [pc     : {"off", "started"} \cup Executing,
              job    : Job \cup {NoJob},
              gen    : Nat,
              budget : Nat]

Off == [pc |-> "off", job |-> NoJob, gen |-> 0, budget |-> 0]

Idle == [pc |-> "idle", job |-> NoJob]

\* One type invariant for the rows, the dispatching processes and the containers.
TypeOK ==
    /\ conn \in [lifecycle : {"active", "disabled", "deleted"},
                 healthy   : BOOLEAN]
    /\ jobs \in [Job -> Row]
    /\ disp \in [Proc -> [pc  : {"idle", "dispatching", "spawned", "failing"},
                          job : Job \cup {NoJob}]]
    /\ workers \in [Worker -> Container]
    /\ \A p \in Proc : disp[p].pc # "idle" => disp[p].job \in Job
    /\ \A w \in Worker : workers[w].pc # "off" => workers[w].job \in Job

Init ==
    /\ conn = [lifecycle |-> "active", healthy |-> FALSE]
    /\ jobs = [j \in Job |-> NoRow]
    /\ disp = [p \in Proc |-> Idle]
    /\ workers = [w \in Worker |-> Off]

-----------------------------------------------------------------------------
Active(j) == jobs[j].state \in ActiveStates

\* Mutant of Stale: a queued row is never stale.
StaleRunningOnly(j) == jobs[j].state = "running" /\ jobs[j].lease = 0

Stale(j) == \/ jobs[j].state = "running" /\ jobs[j].lease = 0
            \/ jobs[j].state = "queued" /\ jobs[j].ttl = 0

\* The stale rows among K fail; every reader and creator of a job does this first.
Expired(K) ==
    [j \in Job |-> IF j \in K /\ Stale(j) THEN Closed("failed", "stale") ELSE jobs[j]]

\* Mutant of CreateJob: the lifecycle is not read again under the lock.
CreateJobUnlocked(p, K) ==
    /\ \A j \in K : ~Active(j) \/ Stale(j)
    /\ \E j \in K :
          /\ jobs[j].state = "absent"
          /\ jobs' = [Expired(K) EXCEPT ![j] = QueuedRow]
          /\ disp' = [disp EXCEPT ![p] = [pc |-> "dispatching", job |-> j]]
    /\ UNCHANGED conn

\* Mutant of CreateJob: no unique index on the active rows.
CreateJobUnindexed(p, K) ==
    /\ conn.lifecycle = "active"
    /\ \E j \in K :
          /\ jobs[j].state = "absent"
          /\ jobs' = [Expired(K) EXCEPT ![j] = QueuedRow]
          /\ disp' = [disp EXCEPT ![p] = [pc |-> "dispatching", job |-> j]]
    /\ UNCHANGED conn

\* What process p does to queue a job of one kind: the row is inserted unless the
\* partial unique index finds an active one, and p must then dispatch it.
CreateJob(p, K) ==
    /\ conn.lifecycle = "active"
    /\ \/ /\ \A j \in K : ~Active(j) \/ Stale(j)
          /\ \E j \in K :
                /\ jobs[j].state = "absent"
                /\ jobs' = [Expired(K) EXCEPT ![j] = QueuedRow]
                /\ disp' = [disp EXCEPT ![p] = [pc |-> "dispatching", job |-> j]]
       \/ /\ \E j \in K : Active(j) /\ ~Stale(j)
          /\ jobs' = Expired(K)
          /\ UNCHANGED disp
    /\ UNCHANGED conn

\* A browser, operator or scheduler request queues a job.
Request(p, K) ==
    /\ disp[p] = Idle
    /\ CreateJob(p, K)
    /\ UNCHANGED workers

\* A gateway request that finds a queued row without a call id, its own on a replay
\* or another caller's, dispatches it again.
GatewayDispatch(p, j) ==
    /\ disp[p] = Idle
    /\ jobs[j].state = "queued" /\ ~jobs[j].called
    /\ disp' = [disp EXCEPT ![p] = [pc |-> "dispatching", job |-> j]]
    /\ UNCHANGED <<conn, jobs, workers>>

\* Function.spawn() starts a container for the job.
Spawn(p) ==
    /\ disp[p].pc = "dispatching"
    /\ \E w \in Worker :
          /\ workers[w].pc = "off"
          /\ workers' = [workers EXCEPT ![w] =
                [pc |-> "started", job |-> disp[p].job, gen |-> 0, budget |-> WorkerTimeout]]
    /\ disp' = [disp EXCEPT ![p].pc = "spawned"]
    /\ UNCHANGED <<conn, jobs>>

\* The call id comes back and is stored on a row that is still active.
Acknowledge(p) ==
    /\ disp[p].pc = "spawned"
    /\ jobs' = IF Active(disp[p].job)
               THEN [jobs EXCEPT ![disp[p].job].called = TRUE] ELSE jobs
    /\ disp' = [disp EXCEPT ![p] = Idle]
    /\ UNCHANGED <<conn, workers>>

\* The dispatcher raises: it started nothing, or the call id was lost on its way
\* back or on its way into the row.
DispatchRaises(p) ==
    /\ disp[p].pc \in {"dispatching", "spawned"}
    /\ disp' = [disp EXCEPT ![p].pc = "failing"]
    /\ UNCHANGED <<conn, jobs, workers>>

\* The except branch of the dispatch: the row fails, whoever has claimed it.
FailDispatch(p) ==
    /\ disp[p].pc = "failing"
    /\ jobs' = IF Active(disp[p].job)
               THEN [jobs EXCEPT ![disp[p].job] = Closed("failed", "dispatch")] ELSE jobs
    /\ disp' = [disp EXCEPT ![p] = Idle]
    /\ UNCHANGED <<conn, workers>>

\* The API container goes away with its request half done.
ApiCrash(p) ==
    /\ disp[p] # Idle
    /\ disp' = [disp EXCEPT ![p] = Idle]
    /\ UNCHANGED <<conn, jobs, workers>>

\* Status polling of one kind of job.
StatusPoll(K) ==
    /\ jobs' = Expired(K)
    /\ UNCHANGED <<conn, disp, workers>>

-----------------------------------------------------------------------------
Goto(w, pc) == workers' = [workers EXCEPT ![w].pc = pc]
Exit(w) == workers' = [workers EXCEPT ![w] = Off]

\* What a claim of job j by w writes.
Take(w, j, lease) ==
    /\ jobs' = [jobs EXCEPT ![j].state = "running", ![j].attempts = @ + 1, ![j].lease = lease]
    /\ workers' = [workers EXCEPT ![w].pc = "claimed", ![w].gen = jobs[j].attempts + 1]

\* Mutant of Claim: a running row is reclaimed before its lease expires.
ClaimRunning(w) ==
    /\ workers[w].pc = "started"
    /\ IF Active(workers[w].job) THEN Take(w, workers[w].job, WorkerLease)
       ELSE Exit(w) /\ UNCHANGED jobs
    /\ UNCHANGED <<conn, disp>>

\* Mutant of Claim: the lease has no grace over the hard timeout.
ClaimWithoutGrace(w) ==
    /\ workers[w].pc = "started"
    /\ LET j == workers[w].job IN
       IF jobs[j].state = "queued" \/ (jobs[j].state = "running" /\ jobs[j].lease = 0)
       THEN Take(w, j, WorkerTimeout)
       ELSE Exit(w) /\ UNCHANGED jobs
    /\ UNCHANGED <<conn, disp>>

\* The container claims its job, or finds nothing to claim and returns.
Claim(w) ==
    /\ workers[w].pc = "started"
    /\ LET j == workers[w].job IN
       IF jobs[j].state = "queued" \/ (jobs[j].state = "running" /\ jobs[j].lease = 0)
       THEN Take(w, j, WorkerLease)
       ELSE Exit(w) /\ UNCHANGED jobs
    /\ UNCHANGED <<conn, disp>>

\* It reloads the connection and refuses one that is gone or disabled.
ReadTarget(w) ==
    /\ workers[w].pc = "claimed"
    /\ Goto(w, IF conn.lifecycle = "active" THEN "working" ELSE "failing")
    /\ UNCHANGED <<conn, jobs, disp>>

\* The validator, after its own retries, returns a verdict on the connection; any
\* verdict is possible, so it is chosen where it is first used.
Validate(w) ==
    /\ workers[w].pc = "working" /\ workers[w].job \in ValidationJob
    /\ Goto(w, "recording")
    /\ UNCHANGED <<conn, jobs, disp>>

\* The verdict is written to the provider row, if the row still exists.
RecordValidation(w) ==
    /\ workers[w].pc = "recording"
    /\ \E h \in BOOLEAN :
          /\ conn' = IF conn.lifecycle = "deleted" THEN conn ELSE [conn EXCEPT !.healthy = h]
          /\ Goto(w, IF h THEN "followup" ELSE "finishing")
    /\ UNCHANGED <<jobs, disp>>

\* A healthy verdict queues the primary collection; an error there is swallowed.
QueuePrimaryCollection(w) ==
    /\ workers[w].pc = "followup"
    /\ \/ CreateJob(w, CollectionJob)
       \/ UNCHANGED <<conn, jobs, disp>>
    /\ Goto(w, "finishing")

\* A collector returns and its follow-ups (queued source collections, detection
\* and issue evaluation) succeed.
Collect(w) ==
    /\ workers[w].pc = "working" /\ workers[w].job \in CollectionJob
    /\ Goto(w, "finishing")
    /\ UNCHANGED <<conn, jobs, disp>>

\* The validator, the collector or a follow-up of the collection raises.
WorkRaises(w) ==
    /\ workers[w].pc = "working"
    /\ Goto(w, "failing")
    /\ UNCHANGED <<conn, jobs, disp>>

\* The terminal success: any running row, of whatever generation.
Complete(w) ==
    /\ workers[w].pc = "finishing" /\ disp[w] = Idle
    /\ LET j == workers[w].job IN
       jobs' = IF jobs[j].state = "running"
               THEN [jobs EXCEPT ![j] = Closed("succeeded", "none")] ELSE jobs
    /\ Exit(w)
    /\ UNCHANGED <<conn, disp>>

\* A failed validation is terminal.
FailValidation(w) ==
    /\ workers[w].pc = "failing" /\ workers[w].job \in ValidationJob
    /\ LET j == workers[w].job IN
       jobs' = IF Active(j) THEN [jobs EXCEPT ![j] = Closed("failed", "worker")] ELSE jobs
    /\ Exit(w)
    /\ UNCHANGED <<conn, disp>>

\* A failed collection is queued again for the same container's next attempt while
\* attempts are left (the bound of its loop is never reached before that of the row).
FailCollection(w) ==
    /\ workers[w].pc = "failing" /\ workers[w].job \in CollectionJob
    /\ LET j == workers[w].job IN
       IF jobs[j].state # "running" THEN UNCHANGED jobs /\ Exit(w)
       ELSE IF jobs[j].attempts < MaxAttempts
            THEN /\ jobs' = [jobs EXCEPT ![j].state = "queued", ![j].error = "worker",
                                         ![j].lease = 0]
                 /\ Goto(w, "started")
            ELSE /\ jobs' = [jobs EXCEPT ![j] = Closed("failed", "worker")]
                 /\ Exit(w)
    /\ UNCHANGED <<conn, disp>>

\* A container is lost, or Modal kills it at its hard timeout.
Stop(w) ==
    /\ workers[w].pc # "off"
    /\ Exit(w)
    /\ disp' = [disp EXCEPT ![w] = Idle]
    /\ UNCHANGED <<conn, jobs>>

Timeout(w) == workers[w].budget = 0 /\ Stop(w)

-----------------------------------------------------------------------------
\* Disable is refused while a job of either kind is active.
Disable ==
    /\ conn.lifecycle # "deleted"
    /\ \A j \in Job : ~Active(j)
    /\ conn' = [lifecycle |-> "disabled", healthy |-> FALSE]
    /\ UNCHANGED <<jobs, disp, workers>>

\* Delete needs a disabled row and takes the job rows with it.
Delete ==
    /\ conn.lifecycle = "disabled"
    /\ conn' = [conn EXCEPT !.lifecycle = "deleted"]
    /\ jobs' = [j \in Job |-> IF jobs[j].state = "absent" THEN jobs[j]
                              ELSE Closed("deleted", "none")]
    /\ UNCHANGED <<disp, workers>>

\* Mutant of Dec: a deadline runs on below zero.
DecUnsaturated(n) == n - 1

Dec(n) == IF n = 0 THEN 0 ELSE n - 1

\* One tick of the clock.  No container lives past its hard timeout.
Tick ==
    /\ \A w \in Worker : workers[w].pc # "off" => workers[w].budget > 0
    /\ jobs' = [j \in Job |-> [jobs[j] EXCEPT !.lease = Dec(@), !.ttl = Dec(@)]]
    /\ workers' = [w \in Worker |-> [workers[w] EXCEPT !.budget = Dec(@)]]
    /\ UNCHANGED <<conn, disp>>

WorkerStep(w) ==
    \/ Claim(w) \/ ReadTarget(w)
    \/ Validate(w) \/ RecordValidation(w) \/ QueuePrimaryCollection(w)
    \/ Collect(w) \/ WorkRaises(w)
    \/ Complete(w) \/ FailValidation(w) \/ FailCollection(w)
    \/ Stop(w)

DispatchStep(p) == Spawn(p) \/ Acknowledge(p) \/ DispatchRaises(p) \/ FailDispatch(p)

ApiStep(p) ==
    \/ \E K \in Kinds : Request(p, K)
    \/ \E j \in Job : GatewayDispatch(p, j)
    \/ ApiCrash(p)

Next ==
    \/ \E p \in Api : ApiStep(p)
    \/ \E p \in Proc : DispatchStep(p)
    \/ \E w \in Worker : WorkerStep(w)
    \/ \E K \in Kinds : StatusPoll(K)
    \/ Disable \/ Delete \/ Tick

Spec == Init /\ [][Next]_vars

-----------------------------------------------------------------------------
IsExecuting(w) == workers[w].pc \in Executing

\* Two containers never execute the same job at the same time, although a job may
\* be dispatched several times and reclaimed after its lease ("exactly once per
\* lease", run_durable_validation_job).
OneExecutor ==
    \A w1, w2 \in Worker :
        IsExecuting(w1) /\ IsExecuting(w2) /\ workers[w1].job = workers[w2].job => w1 = w2

\* The job of a container that can still execute is running under the generation it
\* claimed, unless a dispatcher failed it: no expiry, reclaim or other container ends
\* or replaces it (the 300-second grace of worker_limits.py).
LiveWorkKeepsItsJob ==
    \A w \in Worker : IsExecuting(w) =>
        LET row == jobs[workers[w].job] IN
        \/ row.state = "running" /\ row.attempts = workers[w].gen
        \/ row.state = "failed" /\ row.error = "dispatch"
        \/ row.state = "deleted"

\* A connection has at most one active job of a kind, whichever handlers, gateway
\* replays and follow-ups queue one.
OneActiveJob ==
    \A K \in Kinds : \A i, j \in K : Active(i) /\ Active(j) => i = j

\* A connection that is disabled or deleted has no queued and no running job: queueing
\* and disabling exclude each other under the lock of the provider row.
InactiveIsIdle == conn.lifecycle # "active" => \A j \in Job : ~Active(j)

\* A job succeeds only by the container that holds its current generation, although
\* the terminal update names no generation.
SuccessIsOwned ==
    [][\A j \in Job :
          jobs[j].state # "succeeded" /\ jobs'[j].state = "succeeded" =>
              \E w \in Worker : /\ workers[w].pc = "finishing" /\ workers[w].job = j
                                /\ workers[w].gen = jobs[j].attempts]_vars

\* A client that keeps polling sees every queued or running job settle, whatever
\* dispatches are lost and containers die.
JobsSettle == \A j \in Job : Active(j) ~> ~Active(j)

\* Time passes, clients poll, and Modal kills containers at their timeout.  Nothing
\* else is assumed: no container or handler need ever take another step.
Fairness ==
    /\ WF_vars(Tick)
    /\ \A K \in Kinds : WF_vars(StatusPoll(K))
    /\ \A w \in Worker : WF_vars(Timeout(w))

FairSpec == Spec /\ Fairness

=============================================================================
