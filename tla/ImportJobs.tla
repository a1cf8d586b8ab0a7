------------------------------ MODULE ImportJobs ------------------------------
(***************************************************************************)
(* The vulnerability import jobs of one AI workload: a pair of scanner     *)
(* reports (Syft and Grype) is put into object storage, a job row is       *)
(* created and dispatched, and a container ingests the pair, evaluates the *)
(* issues and deletes the pair.  An administrator submits the reports to   *)
(* the API ("manual"); so does the gateway, with an idempotency key; a     *)
(* GitHub workflow ("ci") reserves an upload, stores the reports itself    *)
(* and completes the reservation.                                          *)
(*                                                                         *)
(* The database and the object store share no transaction, and every       *)
(* action is one call of one of them.  A pair of reports counts as stored  *)
(* when both are; half a pair is never read.                               *)
(*                                                                         *)
(* `lease', `ttl', `staging', `url' and `budget' are what is left of a     *)
(* deadline, in ticks.                                                     *)
(***************************************************************************)
EXTENDS Naturals, FiniteSets

CONSTANTS
    Job,           \* identifiers of vulnerability_import_job rows
    NoJob,
    Handler,       \* API requests being served
    Worker,        \* Modal containers
    QueueTTL,      \* 30 minutes: a queued row older than this is stale
    StagingTTL,    \* 10 minutes: lifetime of a reservation
    WorkerTimeout, \* 1200 seconds
    WorkerLease,   \* 1500 seconds
    MaxAttempts    \* 3

ASSUME ImportAssumption ==
    /\ NoJob \notin Job
    /\ QueueTTL \in Nat /\ StagingTTL \in Nat \ {0} /\ MaxAttempts \in Nat \ {0}
    /\ WorkerTimeout \in Nat /\ WorkerLease \in Nat /\ WorkerTimeout < WorkerLease

VARIABLES
    jobs,      \* the job rows
    keyed,     \* the job of the gateway's idempotency key
    stored,    \* identifiers whose pair of reports is in object storage
    evidence,  \* who wrote the workload's evidence last, and whether issues follow it
    handlers,  \* API requests between two of their steps
    workers    \* the containers

vars == <<jobs, keyed, stored, evidence, handlers, workers>>

-----------------------------------------------------------------------------
Sources == {"manual", "gateway", "ci"}

Row == [state    : {"absent", "staging", "queued", "running", "succeeded", "failed"},
        source   : Sources,
        ambiguous: BOOLEAN,  \* failed by a dispatcher, which may have started a container
        called   : BOOLEAN,
        attempts : Nat,
        lease    : Nat,
        ttl      : Nat,
        staging  : Nat,
        url      : Nat]

NoRow == [state |-> "absent", source |-> "manual", ambiguous |-> FALSE, called |-> FALSE,
          attempts |-> 0, lease |-> 0, ttl |-> 0, staging |-> 0, url |-> 0]

Importing == {"claimed", "components", "vulnerabilities", "issues", "finishing", "failing"}

Container == [pc     : {"off", "started", "deleting"} \cup Importing,
              job    : Job \cup {NoJob},
              gen    : Nat,
              budget : Nat]

Off == [pc |-> "off", job |-> NoJob, gen |-> 0, budget |-> 0]

HandlerState == [pc     : {"idle", "staged", "verified", "dispatching", "spawned", "failing",
                           "discarding", "replaying"},
                 job    : Job \cup {NoJob},
                 source : Sources]

Idle == [pc |-> "idle", job |-> NoJob, source |-> "manual"]

\* One type invariant for the rows, the storage, the evidence and the processes.
TypeOK ==
    /\ jobs \in [Job -> Row]
    /\ keyed \in Job \cup {NoJob}
    /\ stored \subseteq Job
    /\ evidence \in [by : Job \cup {NoJob}, evaluated : BOOLEAN]
    /\ handlers \in [Handler -> HandlerState]
    /\ workers \in [Worker -> Container]
    /\ \A h \in Handler : handlers[h].pc # "idle" => handlers[h].job \in Job
    /\ \A w \in Worker : workers[w].pc # "off" => workers[w].job \in Job

Init ==
    /\ jobs = [j \in Job |-> NoRow]
    /\ keyed = NoJob
    /\ stored = {}
    /\ evidence = [by |-> NoJob, evaluated |-> TRUE]
    /\ handlers = [h \in Handler |-> Idle]
    /\ workers = [w \in Worker |-> Off]

-----------------------------------------------------------------------------
Dispatched(j) == jobs[j].state \in {"queued", "running"}
Active(j) == jobs[j].state = "staging" \/ Dispatched(j)

\* What a submission through the API finds stale; a reservation does not look for it.
Stale(j) == \/ jobs[j].state = "running" /\ jobs[j].lease = 0
            \/ jobs[j].state = "queued" /\ jobs[j].ttl = 0

\* What a reservation finds stale; a submission through the API does not look for it.
Lapsed(j) == jobs[j].state = "staging" /\ jobs[j].staging = 0

Failed(j) == [jobs[j] EXCEPT !.state = "failed", !.lease = 0]
Expired == [j \in Job |-> IF Stale(j) THEN Failed(j) ELSE jobs[j]]
Released == [j \in Job |-> IF Lapsed(j) THEN Failed(j) ELSE jobs[j]]

\* An identifier nothing was made of yet.
Fresh(j) == /\ jobs[j] = NoRow /\ j \notin stored
            /\ \A h \in Handler : handlers[h].job # j

Put(h, pc) == handlers' = [handlers EXCEPT ![h].pc = pc]
Done(h) == handlers' = [handlers EXCEPT ![h] = Idle]

\* The API stores the reports of a submission under a new identifier; the gateway has
\* found no job of its key.
Stage(h, j, source) ==
    /\ handlers[h] = Idle
    /\ Fresh(j)
    /\ source = "gateway" => keyed = NoJob
    /\ stored' = stored \cup {j}
    /\ handlers' = [handlers EXCEPT ![h] = [pc |-> "staged", job |-> j, source |-> source]]
    /\ UNCHANGED <<jobs, keyed, evidence, workers>>

\* The stale job fails and the new one is queued, unless another is active.
Insert(j, source) ==
    /\ \A k \in Job : Active(k) => Stale(k)
    /\ jobs' = [Expired EXCEPT ![j] = [NoRow EXCEPT !.state = "queued", !.source = source,
                                                    !.ttl = QueueTTL]]
    /\ keyed' = IF source = "gateway" THEN j ELSE keyed

\* What a request that repeats the gateway's key dispatches once more.
Undispatched(j) == jobs[j].state = "queued" /\ ~jobs[j].called

\* Mutant of Create: the key is not read again under its lock.
CreateUnlocked(h) ==
    LET me == handlers[h] IN
    /\ me.pc = "staged"
    /\ \/ Insert(me.job, me.source) /\ Put(h, "dispatching")
       \/ UNCHANGED <<jobs, keyed>> /\ Put(h, "discarding")
    /\ UNCHANGED <<stored, evidence, workers>>

\* Mutant of Create: the reports are discarded when the commit is not acknowledged.
CreateDiscards(h) ==
    LET me == handlers[h] IN
    /\ me.pc = "staged"
    /\ me.source = "gateway" => keyed = NoJob
    /\ Insert(me.job, me.source)
    /\ Put(h, "dispatching") \/ Put(h, "discarding")
    /\ UNCHANGED <<stored, evidence, workers>>

\* One transaction.  The job is created, its answer may be lost (then the reports stay
\* and the request ends); or it is refused because of an active import or an inactive
\* workload, which undoes what the gateway's request expired but not the other's; or a
\* concurrent request of the same key has created it; or nothing is committed.
Create(h) ==
    LET me == handlers[h]
        replayed == me.source = "gateway" /\ keyed # NoJob IN
    /\ me.pc = "staged"
    /\ \/ /\ ~replayed /\ Insert(me.job, me.source)
          /\ Put(h, "dispatching") \/ Done(h)
       \/ /\ ~replayed /\ Put(h, "discarding")
          /\ jobs' = IF me.source = "manual" THEN Expired ELSE jobs
          /\ UNCHANGED keyed
       \/ /\ replayed
          /\ Put(h, IF Undispatched(keyed) THEN "replaying" ELSE "discarding")
          /\ UNCHANGED <<jobs, keyed>>
       \/ Done(h) /\ UNCHANGED <<jobs, keyed>>
    /\ UNCHANGED <<stored, evidence, workers>>

\* A request deletes the reports it is left with, and goes on with the job of its key if
\* that is still to be dispatched.
Discard(h) ==
    /\ handlers[h].pc \in {"discarding", "replaying"}
    /\ stored' = stored \ {handlers[h].job}
    /\ IF handlers[h].pc = "discarding" THEN Done(h)
       ELSE handlers' = [handlers EXCEPT ![h].pc = "dispatching", ![h].job = keyed]
    /\ UNCHANGED <<jobs, keyed, evidence, workers>>

\* A replay of the gateway's key finds its job queued and not known to be dispatched.
Replay(h) ==
    /\ handlers[h] = Idle
    /\ keyed # NoJob /\ Undispatched(keyed)
    /\ handlers' = [handlers EXCEPT ![h] =
                      [pc |-> "dispatching", job |-> keyed, source |-> "gateway"]]
    /\ UNCHANGED <<jobs, keyed, stored, evidence, workers>>

-----------------------------------------------------------------------------
\* A workflow run reserves an upload: lapsed reservations fail, and a new one is staged
\* unless another job is active (the unique index; then everything is rolled back).
Reserve(j) ==
    /\ Fresh(j)
    /\ \A k \in Job : Active(k) => Lapsed(k)
    /\ jobs' = [Released EXCEPT ![j] =
          [NoRow EXCEPT !.state = "staging", !.source = "ci", !.ttl = QueueTTL,
                        !.staging = StagingTTL, !.url = StagingTTL]]
    /\ UNCHANGED <<keyed, stored, evidence, handlers, workers>>

\* The run repeats its request: what still is staged gets upload URLs once more, for
\* what is left of its lifetime.
ReserveAgain(j) ==
    /\ jobs[j].source = "ci" /\ jobs[j].state # "absent"
    /\ jobs' = [Released EXCEPT ![j].url = IF jobs[j].state = "staging" /\ ~Lapsed(j)
                                           THEN jobs[j].staging ELSE @]
    /\ UNCHANGED <<keyed, stored, evidence, handlers, workers>>

\* The run uploads its reports.
Upload(j) ==
    /\ jobs[j].url > 0
    /\ stored' = stored \cup {j}
    /\ UNCHANGED <<jobs, keyed, evidence, handlers, workers>>

\* The run completes the reservation: the stored reports are verified ...
Verify(h, j) ==
    /\ handlers[h] = Idle
    /\ jobs[j].state = "staging" /\ j \in stored
    /\ handlers' = [handlers EXCEPT ![h] = [pc |-> "verified", job |-> j, source |-> "ci"]]
    /\ UNCHANGED <<jobs, keyed, stored, evidence, workers>>

\* ... and the row is queued, once.  A lapsed one is refused, and the update that fails
\* it is rolled back by the refusal.
Queue(h) ==
    LET j == handlers[h].job IN
    /\ handlers[h].pc = "verified"
    /\ \/ /\ jobs[j].state = "staging" /\ jobs[j].staging > 0
          /\ jobs' = [jobs EXCEPT ![j].state = "queued"]
          /\ Put(h, "dispatching")
       \/ /\ jobs[j].state # "staging" \/ Lapsed(j)
          /\ Done(h)
          /\ UNCHANGED jobs
    /\ UNCHANGED <<keyed, stored, evidence, workers>>

-----------------------------------------------------------------------------
\* Function.spawn() starts a container for the job.
Spawn(h) ==
    /\ handlers[h].pc = "dispatching"
    /\ \E w \in Worker :
          /\ workers[w].pc = "off"
          /\ workers' = [workers EXCEPT ![w] =
                [pc |-> "started", job |-> handlers[h].job, gen |-> 0, budget |-> WorkerTimeout]]
    /\ Put(h, "spawned")
    /\ UNCHANGED <<jobs, keyed, stored, evidence>>

Acknowledge(h) ==
    LET j == handlers[h].job IN
    /\ handlers[h].pc = "spawned"
    /\ jobs' = IF Dispatched(j) THEN [jobs EXCEPT ![j].called = TRUE] ELSE jobs
    /\ Done(h)
    /\ UNCHANGED <<keyed, stored, evidence, workers>>

\* The dispatcher raises, having started a container or not.  The gateway leaves the job
\* queued for a replay; the other two fail it, whoever has claimed it ...
DispatchRaises(h) ==
    /\ handlers[h].pc \in {"dispatching", "spawned"}
    /\ IF handlers[h].source = "gateway" THEN Done(h) ELSE Put(h, "failing")
    /\ UNCHANGED <<jobs, keyed, stored, evidence, workers>>

\* ... and delete the reports.
FailDispatch(h) ==
    LET j == handlers[h].job IN
    /\ handlers[h].pc = "failing"
    /\ jobs' = IF Dispatched(j) THEN [jobs EXCEPT ![j] = [Failed(j) EXCEPT !.ambiguous = TRUE]]
               ELSE jobs
    /\ Put(h, "discarding")
    /\ UNCHANGED <<keyed, stored, evidence, workers>>

\* The API container goes away with its request half done.
ApiCrash(h) ==
    /\ handlers[h] # Idle
    /\ Done(h)
    /\ UNCHANGED <<jobs, keyed, stored, evidence, workers>>

-----------------------------------------------------------------------------
Goto(w, pc) == workers' = [workers EXCEPT ![w].pc = pc]
Exit(w) == workers' = [workers EXCEPT ![w] = Off]

Take(w, j, lease) ==
    /\ jobs' = [jobs EXCEPT ![j].state = "running", ![j].attempts = @ + 1, ![j].lease = lease]
    /\ workers' = [workers EXCEPT ![w].pc = "claimed", ![w].gen = jobs[j].attempts + 1]

\* Mutant of Claim: the lease has no grace over the hard timeout.
ClaimWithoutGrace(w) ==
    LET j == workers[w].job IN
    /\ workers[w].pc = "started"
    /\ IF jobs[j].state = "queued" \/ (jobs[j].state = "running" /\ jobs[j].lease = 0)
       THEN Take(w, j, WorkerTimeout)
       ELSE Exit(w) /\ UNCHANGED jobs
    /\ UNCHANGED <<keyed, stored, evidence, handlers>>

\* Mutant of Claim: a running job is claimed by whoever is started for it.
ClaimRunning(w) ==
    LET j == workers[w].job IN
    /\ workers[w].pc = "started"
    /\ IF Dispatched(j) THEN Take(w, j, WorkerLease) ELSE Exit(w) /\ UNCHANGED jobs
    /\ UNCHANGED <<keyed, stored, evidence, handlers>>

\* The container claims its job, or finds nothing to claim and returns.
Claim(w) ==
    LET j == workers[w].job IN
    /\ workers[w].pc = "started"
    /\ IF jobs[j].state = "queued" \/ (jobs[j].state = "running" /\ jobs[j].lease = 0)
       THEN Take(w, j, WorkerLease)
       ELSE Exit(w) /\ UNCHANGED jobs
    /\ UNCHANGED <<keyed, stored, evidence, handlers>>

\* The workload and the pair of reports are read and validated.
ReadReports(w) ==
    /\ workers[w].pc = "claimed" /\ workers[w].job \in stored
    /\ Goto(w, "components")
    /\ UNCHANGED <<jobs, keyed, stored, evidence, handlers>>

\* The components are ingested, then the vulnerabilities.
Ingest(w) ==
    /\ workers[w].pc \in {"components", "vulnerabilities"}
    /\ evidence' = [by |-> workers[w].job, evaluated |-> FALSE]
    /\ Goto(w, IF workers[w].pc = "components" THEN "vulnerabilities" ELSE "issues")
    /\ UNCHANGED <<jobs, keyed, stored, handlers>>

\* The issues of the tenant are evaluated on whatever evidence there is.
EvaluateIssues(w) ==
    /\ workers[w].pc = "issues"
    /\ evidence' = [evidence EXCEPT !.evaluated = TRUE]
    /\ Goto(w, "finishing")
    /\ UNCHANGED <<jobs, keyed, stored, handlers>>

\* Something of the above raises: the reports are gone or wrong, the database is.
WorkRaises(w) ==
    /\ workers[w].pc \in Importing \ {"failing"}
    /\ Goto(w, "failing")
    /\ UNCHANGED <<jobs, keyed, stored, evidence, handlers>>

\* The terminal success; the reports are deleted next.
Complete(w) ==
    LET j == workers[w].job IN
    /\ workers[w].pc = "finishing"
    /\ jobs' = IF jobs[j].state = "running"
               THEN [jobs EXCEPT ![j].state = "succeeded", ![j].lease = 0] ELSE jobs
    /\ Goto(w, "deleting")
    /\ UNCHANGED <<keyed, stored, evidence, handlers>>

\* The attempt failed: the row is queued for the next one, which this container makes,
\* or it fails, or it was not running any more; in both last cases the reports go next.
Fail(w) ==
    LET j == workers[w].job
        retry == jobs[j].state = "running" /\ jobs[j].attempts < MaxAttempts IN
    /\ workers[w].pc = "failing"
    /\ jobs' = IF retry THEN [jobs EXCEPT ![j].state = "queued", ![j].lease = 0]
               ELSE IF jobs[j].state = "running" THEN [jobs EXCEPT ![j] = Failed(j)] ELSE jobs
    /\ Goto(w, IF retry THEN "started" ELSE "deleting")
    /\ UNCHANGED <<keyed, stored, evidence, handlers>>

DeleteReports(w) ==
    /\ workers[w].pc = "deleting"
    /\ stored' = stored \ {workers[w].job}
    /\ Exit(w)
    /\ UNCHANGED <<jobs, keyed, evidence, handlers>>

\* A container is lost, or Modal kills it at its hard timeout.
Stop(w) ==
    /\ workers[w].pc # "off"
    /\ Exit(w)
    /\ UNCHANGED <<jobs, keyed, stored, evidence, handlers>>

\* Mutant of Dec: a deadline runs on below zero.
DecUnsaturated(n) == n - 1

Dec(n) == IF n = 0 THEN 0 ELSE n - 1

\* One tick of the clock.  No container lives past its hard timeout.
Tick ==
    /\ \A w \in Worker : workers[w].pc # "off" => workers[w].budget > 0
    /\ jobs' = [j \in Job |-> [jobs[j] EXCEPT !.lease = Dec(@), !.ttl = Dec(@),
                                              !.staging = Dec(@), !.url = Dec(@)]]
    /\ workers' = [w \in Worker |-> [workers[w] EXCEPT !.budget = Dec(@)]]
    /\ UNCHANGED <<keyed, stored, evidence, handlers>>

Submission(h) == \E j \in Job : Stage(h, j, "manual") \/ Stage(h, j, "gateway") \/ Verify(h, j)

HandlerStep(h) ==
    \/ Create(h) \/ Discard(h) \/ Queue(h)
    \/ Spawn(h) \/ Acknowledge(h) \/ FailDispatch(h)

WorkerStep(w) ==
    \/ Claim(w) \/ ReadReports(w) \/ Ingest(w) \/ EvaluateIssues(w) \/ WorkRaises(w)
    \/ Complete(w) \/ Fail(w) \/ DeleteReports(w)

Next ==
    \/ \E h \in Handler : \/ Submission(h) \/ Replay(h) \/ HandlerStep(h)
                          \/ DispatchRaises(h) \/ ApiCrash(h)
    \/ \E j \in Job : Reserve(j) \/ ReserveAgain(j) \/ Upload(j)
    \/ \E w \in Worker : WorkerStep(w) \/ Stop(w)
    \/ Tick

Spec == Init /\ [][Next]_vars

-----------------------------------------------------------------------------
IsImporting(w) == workers[w].pc \in Importing

\* A queued or running job has its reports: no loser of a race, replay, failed dispatch
\* or late container deletes the reports of a job that is still to be worked on.
ActiveHasReports == \A j \in Job : Dispatched(j) => j \in stored

\* The job of a container that can still write evidence is running under its claim,
\* unless a dispatcher failed it: no newer import of the workload is at work.
LiveImportKeepsItsJob ==
    \A w \in Worker : IsImporting(w) =>
        LET row == jobs[workers[w].job] IN
        \/ row.state = "running" /\ row.attempts = workers[w].gen
        \/ row.state = "failed" /\ row.ambiguous

\* A gateway key names one job, however often it is replayed, also at the same time.
OneJobPerKey ==
    Cardinality({j \in Job : jobs[j].source = "gateway" /\ jobs[j].state # "absent"}) <= 1

\* When the evidence of the workload comes from an import that succeeded, the issues have
\* been evaluated on it ("scanner evidence cannot appear current while the issue view
\* remains silently stale", ADR 0030).
SuccessIsEvaluated ==
    \A j \in Job : evidence.by = j /\ jobs[j].state = "succeeded" => evidence.evaluated

=============================================================================
