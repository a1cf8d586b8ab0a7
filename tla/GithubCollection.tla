-------------------------- MODULE GithubCollection --------------------------
(***************************************************************************)
(* The resumable github_source collection jobs of one GitHub connection.   *)
(*                                                                         *)
(* A job is worked off in bounded slices by a succession of containers.    *)
(* Each claim raises the generation of the row; every checkpoint, every    *)
(* evidence transaction and every transition of the row is fenced by that  *)
(* generation, so nothing is assumed here about how long a container that  *)
(* lost its claim goes on working, nor about how often a job is dispatched.*)
(* A checkpoint holds, per selected repository, the commit it is pinned    *)
(* to, its interruptions and its result.                                   *)
(*                                                                         *)
(* Deadlines (`lease', `life', `delay') are what is left of them in ticks. *)
(***************************************************************************)
EXTENDS Naturals, FiniteSets

CONSTANTS
    Repos,            \* number of selected repositories, worked off in order
    MaxJobs,          \* bound: jobs ever created for the connection
    MaxRev,           \* bound: commits of a default branch
    Worker,           \* Modal containers
    Batches,          \* evidence transactions of one analysed snapshot
    SliceLimit,       \* repositories finished by one slice
    MaxInterruptions, \* interruptions of one repository within a job
    MaxAttempts,      \* consecutive failures of a job
    Lease,            \* lease of a claim
    Life,             \* 48 hours: lifetime of a job
    Delay             \* next-attempt delay of a quota pause or a failure

ASSUME BoundsAssumption ==
    /\ Repos \in Nat \ {0} /\ MaxJobs \in Nat \ {0} /\ MaxRev \in Nat \ {0}
    /\ Batches \in Nat \ {0} /\ SliceLimit \in Nat \ {0}
    /\ MaxInterruptions \in Nat \ {0} /\ MaxAttempts \in Nat \ {0}
    /\ Lease \in Nat \ {0} /\ Life \in Nat \ {0} /\ Delay \in Nat \ {0}

VARIABLES
    active,   \* lifecycle_state of the provider row is 'active'
    jobs,     \* the job rows, numbered in the order of created_at
    head,     \* head commit of each repository's default branch
    evidence, \* who wrote each evidence batch of each repository last, at which commit
    workers   \* the containers

vars == <<active, jobs, head, evidence, workers>>

-----------------------------------------------------------------------------
Repo == 1..Repos
Job == 1..MaxJobs
NoJob == 0
NoRev == 0
Revision == 1..MaxRev

Progress == [rev    : Revision \cup {NoRev},
             count  : Nat,
             result : {"none", "complete", "partial", "failed"},
             kept   : BOOLEAN]

Checkpoint == [Repo -> Progress]

Blank == [r \in Repo |-> [rev |-> NoRev, count |-> 0, result |-> "none", kept |-> FALSE]]

Row == [state : {"absent", "queued", "running", "succeeded", "failed"},
        gen   : Nat,
        retry : Nat,
        lease : Nat,
        life  : Nat,
        delay : Nat,
        ck    : Checkpoint]

Container == [pc    : {"off", "select", "read", "download", "ingest",
                       "ingestPartial", "ingestFailed", "recordResult", "recordPartial",
                       "recordFailed", "defer", "pause", "followup", "finish", "retry"},
              job   : Job \cup {NoJob},
              gen   : Nat,
              saved : Checkpoint,
              repo  : Repo,
              batch : 1..Batches,
              count : 0..SliceLimit]

Off == [pc |-> "off", job |-> NoJob, gen |-> 0, saved |-> Blank, repo |-> 1,
        batch |-> 1, count |-> 0]

Stamp == [job : Job \cup {NoJob}, gen : Nat, rev : Revision \cup {NoRev}]

\* One type invariant for the rows, the evidence and the containers.
TypeOK ==
    /\ active \in BOOLEAN
    /\ jobs \in [Job -> Row]
    /\ head \in [Repo -> Revision]
    /\ evidence \in [Repo -> [1..Batches -> Stamp]]
    /\ workers \in [Worker -> Container]
    /\ \A w \in Worker : workers[w].pc # "off" => workers[w].job \in Job

Init ==
    /\ active = TRUE
    /\ jobs = [j \in Job |-> [state |-> "absent", gen |-> 0, retry |-> 0, lease |-> 0,
                              life |-> 0, delay |-> 0, ck |-> Blank]]
    /\ head = [r \in Repo |-> 1]
    /\ evidence = [r \in Repo |-> [b \in 1..Batches |->
                      [job |-> NoJob, gen |-> 0, rev |-> NoRev]]]
    /\ workers = [w \in Worker |-> Off]

-----------------------------------------------------------------------------
Active(j) == jobs[j].state \in {"queued", "running"}
Created(j) == jobs[j].state # "absent"
Latest(j) == Created(j) /\ \A k \in Job : k > j => ~Created(k)
Due(j) == \/ jobs[j].state = "queued"
          \/ jobs[j].state = "running" /\ jobs[j].lease = 0

Finished(ck) == {r \in Repo : ck[r].result # "none"}

\* A row in a terminal state; its checkpoint is all that is read again.
Closed(j, state) ==
    [jobs EXCEPT ![j] = [state |-> state, gen |-> 0, retry |-> 0, lease |-> 0, life |-> 0,
                         delay |-> 0, ck |-> jobs[j].ck]]

\* A new row, under the lock of the provider row and the unique index of active rows.
Create(j, ck) ==
    /\ active
    /\ ~Created(j) /\ \A k \in Job : k < j => Created(k) /\ ~Active(k)
    /\ jobs' = [jobs EXCEPT ![j] = [state |-> "queued", gen |-> 0, retry |-> 0, lease |-> 0,
                                    life |-> Life, delay |-> 0, ck |-> ck]]
    /\ UNCHANGED <<active, head, evidence, workers>>

\* A full collection.
CreateJob(j) == Create(j, Blank)

\* Of the checkpoint of a finished job, what a retry of its incomplete results keeps.
Seed(ck) == [r \in Repo |->
    IF ck[r].result = "complete" THEN [ck[r] EXCEPT !.kept = TRUE] ELSE Blank[r]]

\* A retry of the incomplete results of the latest terminal job.  (A job that never
\* saved a checkpoint is refused; its seed would be that of a full collection.)
RetryIncomplete(j) ==
    \E k \in Job :
        /\ Latest(k) /\ k < j
        /\ \E r \in Repo : jobs[k].ck[r].result # "complete"
        /\ Create(j, Seed(jobs[k].ck))

\* The row is claimed, and still may be: what every fenced transaction checks.
Holds(w) ==
    LET row == jobs[workers[w].job] IN
    /\ active
    /\ row.state = "running" /\ row.gen = workers[w].gen
    /\ row.lease > 0 /\ row.life > 0

\* Mutant of ListDue: the lifetime of a run is not enforced.
ListDueForever == UNCHANGED vars

\* The periodic reconciler ends runs that are past their lifetime or whose connection is
\* not active; its dispatches of what is due are arrivals of Claim.
ListDue ==
    /\ jobs' = [j \in Job |-> IF Active(j) /\ (jobs[j].life = 0 \/ ~active)
                              THEN Closed(j, "failed")[j] ELSE jobs[j]]
    /\ UNCHANGED <<active, head, evidence, workers>>

-----------------------------------------------------------------------------
Exit(w) == workers' = [workers EXCEPT ![w] = Off]
Goto(w, pc) == workers' = [workers EXCEPT ![w].pc = pc]

\* A dispatch of job j arrives (of its creator, of the slice that deferred it, or of the
\* reconciler; each may be lost, repeated or late) and its container claims the job: a run
\* past its lifetime, or whose last allowed lease expired, fails; a due run gets a new
\* generation and lease; else nothing happens.
Claim(w, j) ==
    LET row == jobs[j]
        expired == row.state = "running" /\ row.lease = 0
        exhausted == expired /\ row.retry >= MaxAttempts - 1 IN
    /\ workers[w].pc = "off"
    /\ \/ /\ Active(j) /\ (row.life = 0 \/ ~active \/ exhausted)
          /\ jobs' = Closed(j, "failed")
          /\ UNCHANGED workers
       \/ /\ active /\ row.life > 0 /\ row.delay = 0 /\ Due(j) /\ ~exhausted
          /\ jobs' = [jobs EXCEPT ![j].state = "running", ![j].gen = @ + 1, ![j].lease = Lease,
                                  ![j].retry = IF expired THEN @ + 1 ELSE @]
          /\ workers' = [workers EXCEPT ![w] =
                [Off EXCEPT !.pc = "select", !.job = j, !.gen = row.gen + 1, !.saved = row.ck]]
    /\ UNCHANGED <<active, head, evidence>>

\* fence(): the checkpoint is saved and a newly finished repository resets the failure
\* count, or the claim is lost and the container stops.
Save(w, ck, next) ==
    LET j == workers[w].job IN
    /\ IF Holds(w)
       THEN /\ jobs' = [jobs EXCEPT ![j].ck = ck,
                           ![j].retry = IF Cardinality(Finished(ck)) > Cardinality(Finished(jobs[j].ck))
                                        THEN 0 ELSE @]
            /\ workers' = [workers EXCEPT ![w] = [next EXCEPT !.saved = ck]]
       ELSE UNCHANGED jobs /\ Exit(w)
    /\ UNCHANGED <<active, head, evidence>>

\* The next repository without a result.  One that used up its interruptions gets its
\* partial result without another read; a slice that is full, or late once it has
\* finished a repository, yields.
Select(w) ==
    /\ workers[w].pc = "select"
    /\ LET me == workers[w]
           left == {r \in Repo : me.saved[r].result = "none"} IN
       \/ /\ left = {}
          /\ Goto(w, "followup")
          /\ UNCHANGED <<active, jobs, head, evidence>>
       \/ /\ left # {} /\ me.count > 0
          /\ Goto(w, "defer")
          /\ UNCHANGED <<active, jobs, head, evidence>>
       \/ /\ me.count < SliceLimit
          /\ \E r \in left :
                /\ \A q \in left : r <= q
                /\ Save(w, me.saved,
                        [me EXCEPT !.repo = r, !.pc = IF me.saved[r].count >= MaxInterruptions
                                                      THEN "ingestPartial" ELSE "read"])

\* Mutant of Pin: the revision is used before it is saved.
PinLocally(w) ==
    /\ workers[w].pc = "read"
    /\ LET me == workers[w]
           r == me.repo IN
       workers' = [workers EXCEPT ![w] = [me EXCEPT !.pc = "download",
                       !.saved[r].rev = IF @ = NoRev THEN head[r] ELSE @]]
    /\ UNCHANGED <<active, jobs, head, evidence>>

\* The head of the default branch is resolved and saved in the checkpoint, unless an
\* earlier slice pinned a revision.
Pin(w) ==
    /\ workers[w].pc = "read"
    /\ LET me == workers[w]
           r == me.repo IN
       IF me.saved[r].rev = NoRev
       THEN Save(w, [me.saved EXCEPT ![r].rev = head[r]], [me EXCEPT !.pc = "download"])
       ELSE Goto(w, "download") /\ UNCHANGED <<active, jobs, head, evidence>>

\* The tree and the blobs of the pinned revision arrive and are analysed.
Download(w) ==
    /\ workers[w].pc = "download"
    /\ workers' = [workers EXCEPT ![w].pc = "ingest", ![w].batch = 1]
    /\ UNCHANGED <<active, jobs, head, evidence>>

\* The provider's quota is used up: pause, without counting an interruption.
Quota(w) ==
    /\ workers[w].pc \in {"read", "download"}
    /\ Goto(w, "pause")
    /\ UNCHANGED <<active, jobs, head, evidence>>

\* The slice runs out of requests or time within a repository.
Interrupt(w) ==
    /\ workers[w].pc \in {"read", "download"}
    /\ LET me == workers[w]
           n == me.saved[me.repo].count + 1 IN
       Save(w, [me.saved EXCEPT ![me.repo].count = n],
            [me EXCEPT !.pc = IF n < MaxInterruptions THEN "defer" ELSE "ingestPartial"])

\* A terminal source error.
SourceError(w) ==
    /\ workers[w].pc \in {"read", "download"}
    /\ Goto(w, "ingestFailed")
    /\ UNCHANGED <<active, jobs, head, evidence>>

\* Any other error: of the connection or checkpoint read first, the provider, the
\* analysis or the follow-up.
Raise(w) ==
    /\ \/ workers[w].pc \in {"read", "download", "ingest", "followup"}
       \/ workers[w].pc = "select" /\ workers[w].count = 0
    /\ Goto(w, "retry")
    /\ UNCHANGED <<active, jobs, head, evidence>>

\* Mutant of Write: an evidence transaction does not assert the claim.
WriteUnfenced(w, b, rev, next) ==
    LET me == workers[w] IN
    /\ evidence' = [evidence EXCEPT ![me.repo][b] = [job |-> me.job, gen |-> me.gen, rev |-> rev]]
    /\ workers' = [workers EXCEPT ![w] = next]
    /\ UNCHANGED <<active, jobs, head>>

\* One evidence transaction.  It asserts the claim itself; the fence before it saves an
\* unchanged checkpoint under the same condition.
Write(w, b, rev, next) ==
    LET me == workers[w] IN
    /\ IF Holds(w)
       THEN /\ evidence' = [evidence EXCEPT ![me.repo][b] =
                                [job |-> me.job, gen |-> me.gen, rev |-> rev]]
            /\ workers' = [workers EXCEPT ![w] = next]
       ELSE UNCHANGED evidence /\ Exit(w)
    /\ UNCHANGED <<active, jobs, head>>

\* Mutant of Ingest: the result is recorded after the first batch.
IngestFirstOnly(w) ==
    /\ workers[w].pc = "ingest"
    /\ LET me == workers[w] IN
       Write(w, me.batch, me.saved[me.repo].rev, [me EXCEPT !.pc = "recordResult"])

\* Source, inventory, findings and correlation, each in a transaction of its own.
Ingest(w) ==
    /\ workers[w].pc = "ingest"
    /\ LET me == workers[w] IN
       Write(w, me.batch, me.saved[me.repo].rev,
             IF me.batch < Batches THEN [me EXCEPT !.batch = @ + 1]
             ELSE [me EXCEPT !.pc = "recordResult", !.batch = 1])

\* Partial coverage of a repository at its pin, or failed coverage without one: only the
\* source batch (number 1) is written.
IngestPartial(w) ==
    /\ workers[w].pc = "ingestPartial"
    /\ LET me == workers[w] IN
       Write(w, 1, me.saved[me.repo].rev, [me EXCEPT !.pc = "recordPartial"])

IngestFailed(w) ==
    /\ workers[w].pc = "ingestFailed"
    /\ Write(w, 1, NoRev, [workers[w] EXCEPT !.pc = "recordFailed"])

\* The repository's result enters the checkpoint.
Record(w) ==
    /\ workers[w].pc \in {"recordResult", "recordPartial", "recordFailed"}
    /\ LET me == workers[w] IN
       \E result \in CASE me.pc = "recordResult"  -> {"complete", "partial"}
                       [] me.pc = "recordPartial" -> {"partial"}
                       [] me.pc = "recordFailed"  -> {"failed"} :
           Save(w, [me.saved EXCEPT ![me.repo].result = result],
                [me EXCEPT !.pc = "select", !.count = @ + 1])

\* The slice ends with work left: the row is queued again, after a delay if it paused.
Defer(w) ==
    /\ workers[w].pc \in {"defer", "pause"}
    /\ LET me == workers[w] IN
       jobs' = IF Holds(w)
               THEN [jobs EXCEPT ![me.job].state = "queued", ![me.job].lease = 0,
                        ![me.job].ck = me.saved,
                        ![me.job].delay = IF me.pc = "pause" THEN Delay ELSE 0]
               ELSE jobs
    /\ Exit(w)
    /\ UNCHANGED <<active, head, evidence>>

\* Detections and issues are evaluated while the claim is current.
FollowUp(w) ==
    /\ workers[w].pc = "followup"
    /\ IF Holds(w) THEN Goto(w, "finish") ELSE Exit(w)
    /\ UNCHANGED <<active, jobs, head, evidence>>

\* Mutant of Complete: a slice with work left completes the job.
CompleteEarly(w) ==
    /\ workers[w].pc \in {"finish", "defer"}
    /\ jobs' = IF Holds(w) THEN Closed(workers[w].job, "succeeded") ELSE jobs
    /\ Exit(w)
    /\ UNCHANGED <<active, head, evidence>>

Complete(w) ==
    /\ workers[w].pc = "finish"
    /\ jobs' = IF Holds(w) THEN Closed(workers[w].job, "succeeded") ELSE jobs
    /\ Exit(w)
    /\ UNCHANGED <<active, head, evidence>>

\* A failed slice is retried after a delay until its consecutive failures are used up.
Retry(w) ==
    /\ workers[w].pc = "retry"
    /\ LET j == workers[w].job IN
       jobs' = IF ~Holds(w) THEN jobs
               ELSE IF jobs[j].retry + 1 < MaxAttempts
               THEN [jobs EXCEPT ![j].state = "queued", ![j].retry = @ + 1, ![j].lease = 0,
                                 ![j].delay = Delay]
               ELSE Closed(j, "failed")
    /\ Exit(w)
    /\ UNCHANGED <<active, head, evidence>>

\* A container is lost or killed at any point.
Crash(w) ==
    /\ workers[w].pc # "off"
    /\ Exit(w)
    /\ UNCHANGED <<active, jobs, head, evidence>>

-----------------------------------------------------------------------------
\* A commit is pushed to the default branch of a repository.
Push(r) ==
    /\ head[r] < MaxRev
    /\ head' = [head EXCEPT ![r] = @ + 1]
    /\ UNCHANGED <<active, jobs, evidence, workers>>

Disable ==
    /\ \A j \in Job : ~Active(j)
    /\ active' = FALSE
    /\ UNCHANGED <<jobs, head, evidence, workers>>

\* Mutant of Dec: a deadline runs on below zero.
DecUnsaturated(n) == n - 1

Dec(n) == IF n = 0 THEN 0 ELSE n - 1

Tick ==
    /\ jobs' = [j \in Job |-> [jobs[j] EXCEPT !.lease = Dec(@), !.life = Dec(@), !.delay = Dec(@)]]
    /\ UNCHANGED <<active, head, evidence, workers>>

WorkerStep(w) ==
    \/ (\E j \in Job : Claim(w, j)) \/ Select(w)
    \/ Pin(w) \/ Download(w) \/ Quota(w) \/ Interrupt(w) \/ SourceError(w) \/ Raise(w)
    \/ Ingest(w) \/ IngestPartial(w) \/ IngestFailed(w) \/ Record(w)
    \/ Defer(w) \/ FollowUp(w) \/ Complete(w) \/ Retry(w)
    \/ Crash(w)

Next ==
    \/ \E j \in Job : CreateJob(j) \/ RetryIncomplete(j)
    \/ \E w \in Worker : WorkerStep(w)
    \/ \E r \in Repo : Push(r)
    \/ ListDue \/ Disable \/ Tick

Spec == Init /\ [][Next]_vars

-----------------------------------------------------------------------------
\* Evidence at the pin: whatever a job has written of a repository, in whichever slice
\* and generation, it wrote at the revision that its stored checkpoint pins, however the
\* default branch moves meanwhile (a failed read has no revision).
EvidenceAtPin ==
    \A j \in Job, r \in Repo, b \in 1..Batches :
        evidence[r][b].job = j /\ evidence[r][b].rev # NoRev =>
            evidence[r][b].rev = jobs[j].ck[r].rev

\* A complete result in the checkpoint of the latest job describes the stored evidence:
\* all batches of the repository are there at the pinned revision, written by this job
\* unless the result was kept from an earlier one.
CompleteIsStored ==
    \A j \in Job, r \in Repo :
        Latest(j) /\ jobs[j].ck[r].result = "complete" =>
            \A b \in 1..Batches :
                /\ evidence[r][b].rev = jobs[j].ck[r].rev
                /\ jobs[j].ck[r].kept \/ evidence[r][b].job = j

\* A job succeeds only when every selected repository has a result.
SuccessIsTotal ==
    \A j \in Job : jobs[j].state = "succeeded" => Finished(jobs[j].ck) = Repo

\* Evidence moves forward: a batch is never overwritten by an older job or by an older
\* generation of the same job, although containers outlive their claims.
EvidenceForward ==
    [][\A r \in Repo, b \in 1..Batches :
          LET old == evidence[r][b]
              new == evidence'[r][b] IN
          old.job < new.job \/ (old.job = new.job /\ old.gen <= new.gen)]_vars

\* Every run ends, by its lifetime if nothing else: of the system only the clock and the
\* periodic reconciler need keep running.
RunsEnd == \A j \in Job : Active(j) ~> ~Active(j)

FairSpec == Spec /\ WF_vars(Tick) /\ WF_vars(ListDue)

=============================================================================
