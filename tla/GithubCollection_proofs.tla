----------------------- MODULE GithubCollection_proofs -----------------------
(***************************************************************************)
(* The safety of GithubCollection for every number of repositories, jobs,  *)
(* batches and containers, and every limit and timeout.                    *)
(*                                                                         *)
(* A container that lost its claim goes on, so the properties rest on the  *)
(* generation alone: no two containers have the same one of a job          *)
(* (Fenced), so the container that still has the generation of its row     *)
(* knows what is stored (SavedIsStored) and which batches of the           *)
(* repository it works on are its own (WrittenSoFar).                      *)
(***************************************************************************)
EXTENDS GithubCollection, TLAPS

\* At work on the repository `repo'.
Busy == {"read", "download", "ingest", "ingestPartial", "ingestFailed",
         "recordResult", "recordPartial", "recordFailed"}

\* What a container knows of itself: a repository it works on had no result and is one
\* more than its slice has finished, one that it reads has an interruption left; it
\* completes only what has all its results.
SelfAware(c) ==
    /\ c.pc \in Busy => c.count < SliceLimit /\ c.saved[c.repo].result = "none"
    /\ c.pc \in {"read", "download"} => c.saved[c.repo].count < MaxInterruptions
    /\ c.pc \in {"followup", "finish"} => \A r \in Repo : c.saved[r].result # "none"

AllSelfAware == \A w \in Worker : SelfAware(workers[w])

\* Rows are created in order, and only the latest can be active.
Ordered ==
    /\ \A j, k \in Job : Created(j) /\ k < j => Created(k)
    /\ \A j \in Job : Active(j) => Latest(j)

\* Generations only rise while a job is active, so every container has one of its own and
\* every stamp in the evidence an old one.
Fenced ==
    /\ \A w \in Worker : workers[w].pc # "off" =>
          /\ Created(workers[w].job)
          /\ Active(workers[w].job) => workers[w].gen <= jobs[workers[w].job].gen
    /\ \A v, w \in Worker :
          workers[v].pc # "off" /\ workers[w].pc # "off" /\ workers[v].job = workers[w].job
             /\ workers[v].gen = workers[w].gen => v = w
    /\ \A r \in Repo, b \in 1..Batches :
          evidence[r][b].job # NoJob =>
             /\ Created(evidence[r][b].job)
             /\ Active(evidence[r][b].job) => evidence[r][b].gen <= jobs[evidence[r][b].job].gen

\* The container still has the generation of its row, whether its lease lasts or not.
Owns(w) ==
    /\ workers[w].pc # "off"
    /\ jobs[workers[w].job].state = "running" /\ jobs[workers[w].job].gen = workers[w].gen

\* What the owner of a row goes by is what the row says.
SavedIsStored == \A w \in Worker : Owns(w) => workers[w].saved = jobs[workers[w].job].ck

\* The batches that the owner of a row has ingested of its repository are still its own.
WrittenSoFar ==
    \A w \in Worker, b \in 1..Batches :
        LET me == workers[w] IN
        Owns(w) /\ (me.pc = "recordResult" \/ (me.pc = "ingest" /\ b < me.batch)) =>
            evidence[me.repo][b] = [job |-> me.job, gen |-> me.gen, rev |-> me.saved[me.repo].rev]

\* No repository is interrupted more often than is allowed within a job, whatever the number of
\* its slices, pauses and retries.
InterruptionsBounded ==
    \A j \in Job, r \in Repo : jobs[j].ck[r].count <= MaxInterruptions

\* What a save may do to the progress on a repository: a pin stays, interruptions add up, and
\* a result is the end of it.
Onward(old, new) ==
    /\ new.rev = old.rev \/ old.rev = NoRev
    /\ new.kept = old.kept
    /\ old.count <= new.count
    /\ new.count = old.count \/ new.count <= MaxInterruptions
    /\ old.result # "none" => new = old

\* The checkpoint of a job only grows, whichever of its containers saves it and after however
\* many of them have stopped.
CheckpointsGrow ==
    [][\A j \in Job, r \in Repo : Created(j) => Onward(jobs[j].ck[r], jobs'[j].ck[r])]_vars

\* A job that has ended is not taken up again by a late container, dispatch or reconciler, and
\* the checkpoint that a retry goes by is final.
EndedStaysEnded ==
    [][\A j \in Job : jobs[j].state \in {"succeeded", "failed"} =>
          jobs'[j].state = jobs[j].state /\ jobs'[j].ck = jobs[j].ck]_vars

\* The inductive invariant.
IInv == /\ TypeOK /\ AllSelfAware /\ Ordered /\ Fenced /\ SavedIsStored /\ WrittenSoFar
        /\ EvidenceAtPin /\ CompleteIsStored /\ SuccessIsTotal /\ InterruptionsBounded

-----------------------------------------------------------------------------
Points == {"off", "select", "read", "download", "ingest", "ingestPartial", "ingestFailed",
           "recordResult", "recordPartial", "recordFailed", "defer", "pause", "followup",
           "finish", "retry"}

\* A checkpoint is updated in one repository.
LEMMA CheckpointUpdates ==
  ASSUME NEW ck \in Checkpoint, NEW r \in Repo
  PROVE  /\ \A v \in Revision : [ck EXCEPT ![r].rev = v] \in Checkpoint
         /\ \A n \in Nat : [ck EXCEPT ![r].count = n] \in Checkpoint
         /\ \A s \in {"complete", "partial", "failed"} : [ck EXCEPT ![r].result = s] \in Checkpoint
BY DEF Checkpoint, Progress

\* A new checkpoint is one: blank, or the seed of an older one.
LEMMA NewCheckpoints ==
  /\ Blank \in Checkpoint
  /\ \A ck \in Checkpoint : Seed(ck) \in Checkpoint
<1>1. Blank \in Checkpoint
  BY DEF Blank, Checkpoint, Progress
<1>2. ASSUME NEW ck \in Checkpoint PROVE Seed(ck) \in Checkpoint
  <2>1. \A r \in Repo : ck[r] \in Progress /\ [ck[r] EXCEPT !.kept = TRUE] \in Progress
                          /\ Blank[r] \in Progress
    BY <1>1 DEF Checkpoint, Progress
  <2> QED
    BY <2>1 DEF Seed, Checkpoint
<1> QED
  BY <1>1, <1>2

\* The updates of a row keep its type.
LEMMA RowUpdates ==
  /\ \A s \in {"absent", "queued", "succeeded", "failed"}, ck \in Checkpoint, n \in Nat :
        [state |-> s, gen |-> 0, retry |-> 0, lease |-> 0, life |-> n, delay |-> 0, ck |-> ck]
           \in Row
  /\ \A x \in Row, ck \in Checkpoint, m, n \in Nat :
        /\ [x EXCEPT !.state = "running", !.gen = m, !.lease = Lease, !.retry = n] \in Row
        /\ [x EXCEPT !.ck = ck, !.retry = n] \in Row
        /\ [x EXCEPT !.state = "queued", !.lease = 0, !.ck = ck, !.delay = n] \in Row
        /\ [x EXCEPT !.state = "queued", !.retry = n, !.lease = 0, !.delay = Delay] \in Row
<1>1. \A s \in {"absent", "queued", "succeeded", "failed"}, ck \in Checkpoint, n \in Nat :
        [state |-> s, gen |-> 0, retry |-> 0, lease |-> 0, life |-> n, delay |-> 0, ck |-> ck]
           \in Row
  BY DEF Row
<1>2. ASSUME NEW x \in Row, NEW ck \in Checkpoint, NEW m \in Nat, NEW n \in Nat
      PROVE  /\ [x EXCEPT !.state = "running", !.gen = m, !.lease = Lease, !.retry = n] \in Row
             /\ [x EXCEPT !.ck = ck, !.retry = n] \in Row
             /\ [x EXCEPT !.state = "queued", !.lease = 0, !.ck = ck, !.delay = n] \in Row
             /\ [x EXCEPT !.state = "queued", !.retry = n, !.lease = 0, !.delay = Delay] \in Row
  BY BoundsAssumption DEF Row
<1> QED
  BY <1>1, <1>2

\* The updates of a container keep its type.
LEMMA ContainerUpdates ==
  ASSUME NEW c \in Container, NEW pc \in Points
  PROVE  /\ [c EXCEPT !.pc = pc] \in Container
         /\ \A b \in 1..Batches : [c EXCEPT !.pc = pc, !.batch = b] \in Container
         /\ \A ck \in Checkpoint : [[c EXCEPT !.pc = pc] EXCEPT !.saved = ck] \in Container
         /\ \A r \in Repo : [c EXCEPT !.repo = r, !.pc = pc] \in Container
         /\ \A n \in 0..SliceLimit : [c EXCEPT !.pc = pc, !.count = n] \in Container
<1>1. pc \in Points /\ [c EXCEPT !.pc = pc] \in Container
  BY DEF Container, Points
<1>2. \A b \in 1..Batches : [c EXCEPT !.pc = pc, !.batch = b] \in Container
  BY DEF Container, Points
<1>3. \A ck \in Checkpoint : [[c EXCEPT !.pc = pc] EXCEPT !.saved = ck] \in Container
  BY <1>1 DEF Container
<1>4. \A r \in Repo : [c EXCEPT !.repo = r, !.pc = pc] \in Container
  BY DEF Container, Points
<1>5. \A n \in 0..SliceLimit : [c EXCEPT !.pc = pc, !.count = n] \in Container
  BY DEF Container, Points
<1> QED
  BY <1>1, <1>2, <1>3, <1>4, <1>5

\* The container that is off and the one that has claimed a row are containers.
LEMMA OffTypes ==
  /\ Off \in Container
  /\ \A j \in Job, n \in Nat, ck \in Checkpoint :
        [Off EXCEPT !.pc = "select", !.job = j, !.gen = n, !.saved = ck] \in Container
<1>1. Off \in Container
  BY NewCheckpoints, BoundsAssumption DEF Off, Container, Repo
<1> QED
  BY <1>1 DEF Container

\* A countdown stays a natural number.
LEMMA DecFacts == \A n \in Nat : Dec(n) \in Nat
BY DEF Dec

-----------------------------------------------------------------------------
(***************************************************************************)
(* What a step of container w can be, seen from the rows and the evidence. *)
(***************************************************************************)
Others(w) == \A v \in Worker : v # w => workers'[v] = workers[v]
OtherRows(j) == \A k \in Job : k # j => jobs'[k] = jobs[k]
SameClaim(w) == /\ workers[w].pc # "off" /\ workers'[w].pc # "off"
                /\ workers'[w].job = workers[w].job /\ workers'[w].gen = workers[w].gen

\* It goes on without the database.
Moved(w) ==
    /\ UNCHANGED <<jobs, evidence>> /\ Others(w) /\ SameClaim(w)
    /\ workers'[w].saved = workers[w].saved
    /\ workers'[w].pc # "recordResult"
    /\ workers'[w].pc = "ingest" => workers'[w].batch = 1

\* It ends, and leaves its row as it was, queued for the next container, or closed.
Left(w) ==
    /\ UNCHANGED evidence /\ Others(w)
    /\ workers[w].pc # "off" /\ workers'[w].pc = "off"
    /\ \/ UNCHANGED jobs
       \/ LET j == workers[w].job IN
          /\ Owns(w) /\ OtherRows(j)
          /\ jobs'[j].ck = jobs[j].ck
          /\ \/ jobs'[j].state = "queued" /\ jobs'[j].gen = jobs[j].gen
             \/ jobs'[j].state = "failed"
             \/ jobs'[j].state = "succeeded" /\ workers[w].pc = "finish"

\* It saves its checkpoint, in which a pin never changes and a complete result comes only
\* after the last batch.
Stored(w) ==
    LET j == workers[w].job
        old == jobs[j].ck
        new == workers'[w].saved IN
    /\ Owns(w) /\ UNCHANGED evidence /\ Others(w) /\ SameClaim(w) /\ OtherRows(j)
    /\ workers'[w].pc \notin {"ingest", "recordResult"}
    /\ jobs'[j].state = "running" /\ jobs'[j].gen = jobs[j].gen /\ jobs'[j].ck = new
    /\ \A r \in Repo :
          /\ Onward(old[r], new[r])
          /\ new[r].result = "complete" =>
                /\ new[r].rev = old[r].rev
                /\ \/ old[r].result = "complete"
                   \/ workers[w].pc = "recordResult" /\ r = workers[w].repo

\* It writes a batch of the repository it works on.
Wrote(w) ==
    LET me == workers[w] IN
    /\ Owns(w) /\ UNCHANGED jobs /\ Others(w) /\ SameClaim(w)
    /\ workers'[w].saved = me.saved /\ workers'[w].repo = me.repo
    /\ me.saved[me.repo].result = "none"
    /\ \E b \in 1..Batches, rev \in {NoRev, me.saved[me.repo].rev} :
          /\ evidence' = [evidence EXCEPT ![me.repo][b] =
                            [job |-> me.job, gen |-> me.gen, rev |-> rev]]
          /\ workers'[w].pc \in {"ingest", "recordResult"} =>
                me.pc = "ingest" /\ b = me.batch /\ rev = me.saved[me.repo].rev
          /\ workers'[w].pc = "ingest" => workers'[w].batch = b + 1
          /\ workers'[w].pc = "recordResult" => b = Batches

\* It claims job j.
Claimed(w, j) ==
    /\ UNCHANGED evidence /\ Others(w) /\ OtherRows(j)
    /\ Active(j) /\ workers[w].pc = "off"
    /\ jobs'[j].state = "running" /\ jobs'[j].gen = jobs[j].gen + 1 /\ jobs'[j].ck = jobs[j].ck
    /\ workers'[w].pc = "select" /\ workers'[w].job = j /\ workers'[w].gen = jobs[j].gen + 1
    /\ workers'[w].saved = jobs[j].ck

\* Jobs are failed from outside.
Ended ==
    /\ UNCHANGED <<evidence, workers>>
    /\ \A j \in Job : \/ jobs'[j] = jobs[j]
                      \/ Active(j) /\ jobs'[j].state = "failed" /\ jobs'[j].ck = jobs[j].ck

Effect(w) == Moved(w) \/ Left(w) \/ Stored(w) \/ Wrote(w) \/ (\E j \in Job : Claimed(w, j)) \/ Ended

\* A container that exits is off, and the rows and the others are as they were.
LEMMA ExitFacts ==
  ASSUME TypeOK, NEW w \in Worker, Exit(w)
  PROVE  /\ workers' \in [Worker -> Container] /\ workers'[w] = Off /\ Others(w)
         /\ SelfAware(workers'[w])
         /\ \A v \in Worker : workers'[v].pc # "off" => workers'[v].job \in Job
<1>1. SelfAware(Off)
  BY DEF SelfAware, Busy, Off
<1>2. workers' \in [Worker -> Container] /\ workers'[w] = Off /\ Others(w)
  BY OffTypes DEF Exit, TypeOK, Others
<1> QED
  BY <1>1, <1>2 DEF TypeOK, Others, Off

\* A container that goes to another point keeps all else it knows.
LEMMA GotoFacts ==
  ASSUME TypeOK, NEW w \in Worker, NEW pc \in Points, Goto(w, pc), workers[w].pc # "off"
  PROVE  /\ workers' \in [Worker -> Container] /\ Others(w)
         /\ workers'[w] = [workers[w] EXCEPT !.pc = pc]
         /\ \A v \in Worker : workers'[v].pc # "off" => workers'[v].job \in Job
<1>1. [workers[w] EXCEPT !.pc = pc] \in Container
  BY ContainerUpdates DEF TypeOK
<1>2. workers' \in [Worker -> Container] /\ workers'[w] = [workers[w] EXCEPT !.pc = pc]
         /\ Others(w)
  BY <1>1 DEF Goto, TypeOK, Others
<1> QED
  BY <1>1, <1>2 DEF TypeOK, Others, Container

\* fence(): the checkpoint is stored and the container goes on, or it ends.
LEMMA SaveFacts ==
  ASSUME TypeOK, NEW w \in Worker, NEW ck \in Checkpoint, NEW next \in Container,
         workers[w].pc # "off", next.pc # "off", next.job = workers[w].job, Save(w, ck, next)
  PROVE  /\ TypeOK'
         /\ UNCHANGED evidence /\ Others(w) /\ OtherRows(workers[w].job)
         /\ \/ /\ Owns(w)
               /\ workers'[w] = [next EXCEPT !.saved = ck]
               /\ jobs'[workers[w].job].state = "running"
               /\ jobs'[workers[w].job].gen = jobs[workers[w].job].gen
               /\ jobs'[workers[w].job].ck = ck
            \/ UNCHANGED jobs /\ workers'[w] = Off
<1> DEFINE j == workers[w].job
<1>1. j \in Job /\ jobs[j] \in Row
  BY DEF TypeOK
<1>2. CASE Holds(w)
  <2>1. PICK n \in Nat : jobs' = [jobs EXCEPT ![j] = [jobs[j] EXCEPT !.ck = ck, !.retry = n]]
    <3>1. jobs' = [jobs EXCEPT ![j].ck = ck,
                      ![j].retry = IF Cardinality(Finished(ck)) > Cardinality(Finished(jobs[j].ck))
                                   THEN 0 ELSE @]
      BY <1>2 DEF Save
    <3> DEFINE m == IF Cardinality(Finished(ck)) > Cardinality(Finished(jobs[j].ck))
                    THEN 0 ELSE jobs[j].retry
    <3>2. m \in Nat
      BY <1>1 DEF Row
    <3>3. jobs' = [jobs EXCEPT ![j] = [jobs[j] EXCEPT !.ck = ck, !.retry = m]]
      BY <1>1, <3>1 DEF TypeOK, Row
    <3> QED
      BY <3>2, <3>3
  <2>2. [jobs[j] EXCEPT !.ck = ck, !.retry = n] \in Row
    BY <1>1, RowUpdates
  <2>3. [next EXCEPT !.saved = ck] \in Container /\ [next EXCEPT !.saved = ck].job = j
    BY DEF Container
  <2>4. workers' = [workers EXCEPT ![w] = [next EXCEPT !.saved = ck]]
    BY <1>2 DEF Save
  <2>5. /\ jobs' \in [Job -> Row] /\ OtherRows(j)
        /\ jobs'[j].state = jobs[j].state /\ jobs'[j].gen = jobs[j].gen /\ jobs'[j].ck = ck
    BY <1>1, <2>1, <2>2 DEF TypeOK, OtherRows, Row
  <2>6. /\ workers' \in [Worker -> Container] /\ Others(w)
        /\ workers'[w] = [next EXCEPT !.saved = ck]
        /\ \A v \in Worker : workers'[v].pc # "off" => workers'[v].job \in Job
    BY <1>1, <2>3, <2>4 DEF TypeOK, Others
  <2>7. UNCHANGED <<active, head, evidence>>
    BY DEF Save
  <2> QED
    BY <1>2, <2>5, <2>6, <2>7 DEF TypeOK, Holds, Owns
<1>3. CASE ~Holds(w)
  BY <1>3, ExitFacts DEF Save, TypeOK, OtherRows
<1> QED
  BY <1>2, <1>3

\* An evidence transaction is written and the container goes on, or it ends.
LEMMA WriteFacts ==
  ASSUME TypeOK, NEW w \in Worker, NEW b \in 1..Batches, NEW rev \in Revision \cup {NoRev},
         NEW next \in Container, workers[w].pc # "off", next.job = workers[w].job,
         Write(w, b, rev, next)
  PROVE  /\ TypeOK' /\ UNCHANGED jobs /\ Others(w)
         /\ \/ /\ Owns(w) /\ workers'[w] = next
               /\ evidence' = [evidence EXCEPT ![workers[w].repo][b] =
                                  [job |-> workers[w].job, gen |-> workers[w].gen, rev |-> rev]]
            \/ UNCHANGED evidence /\ workers'[w] = Off
<1>1. CASE Holds(w)
  <2>1. [job |-> workers[w].job, gen |-> workers[w].gen, rev |-> rev] \in Stamp
    BY DEF TypeOK, Container, Stamp
  <2>2. evidence' \in [Repo -> [1..Batches -> Stamp]]
    <3> DEFINE st == [job |-> workers[w].job, gen |-> workers[w].gen, rev |-> rev]
    <3>1. workers[w].repo \in Repo
      BY DEF TypeOK, Container
    <3>2. [evidence[workers[w].repo] EXCEPT ![b] = st] \in [1..Batches -> Stamp]
      BY <2>1, <3>1 DEF TypeOK
    <3>3. evidence' = [evidence EXCEPT ![workers[w].repo] = [@ EXCEPT ![b] = st]]
      BY <1>1 DEF Write
    <3> HIDE DEF st
    <3> QED
      BY <3>1, <3>2, <3>3 DEF TypeOK
  <2>3. workers' \in [Worker -> Container] /\ Others(w) /\ workers'[w] = next
        /\ \A v \in Worker : workers'[v].pc # "off" => workers'[v].job \in Job
    BY <1>1 DEF Write, TypeOK, Others
  <2> QED
    BY <1>1, <2>2, <2>3 DEF Write, TypeOK, Holds, Owns
<1>2. CASE ~Holds(w)
  BY <1>2, ExitFacts DEF Write, TypeOK
<1> QED
  BY <1>1, <1>2

\* Every step of a container keeps the types and is one of the effects.
LEMMA ContainerStep ==
  ASSUME TypeOK, AllSelfAware, SavedIsStored, NEW w \in Worker, WorkerStep(w)
  PROVE  TypeOK' /\ SelfAware(workers'[w]) /\ Effect(w)
<1> DEFINE me == workers[w]
           j == me.job
           Goal == TypeOK' /\ SelfAware(workers'[w]) /\ Effect(w)
<1>a. me \in Container /\ SelfAware(me) /\ me.saved \in Checkpoint /\ me.repo \in Repo
  BY DEF TypeOK, AllSelfAware, Container
<1>b. me.pc # "off" => j \in Job /\ jobs[j] \in Row
  BY DEF TypeOK
<1>c. Owns(w) => me.saved = jobs[j].ck
  BY DEF SavedIsStored
\* A step that only moves the container.
<1>d. ASSUME NEW pc \in Points, Goto(w, pc), me.pc # "off",
             UNCHANGED <<active, jobs, head, evidence>>, pc \notin {"off", "ingest", "recordResult"},
             SelfAware([me EXCEPT !.pc = pc])
      PROVE  Goal
  <2>1. Moved(w)
    BY <1>d, <1>a, GotoFacts DEF Moved, SameClaim, Container
  <2> QED
    BY <1>d, <2>1, GotoFacts DEF TypeOK, Effect
\* A step that ends the container with its row as it is.
<1>e. ASSUME Exit(w), me.pc # "off", UNCHANGED <<active, jobs, head, evidence>> PROVE Goal
  BY <1>e, ExitFacts DEF Left, Effect, TypeOK, Off
\* A step that ends the container and leaves its row to the next one, or closes it.
<1>f. ASSUME Exit(w), me.pc # "off", UNCHANGED <<active, head, evidence>>, Holds(w),
             NEW x \in Row, jobs' = [jobs EXCEPT ![j] = x], x.ck = jobs[j].ck,
             \/ x.state = "queued" /\ x.gen = jobs[j].gen
             \/ x.state = "failed"
             \/ x.state = "succeeded" /\ me.pc = "finish"
      PROVE  Goal
  <2>1. jobs' \in [Job -> Row] /\ jobs'[j] = x /\ OtherRows(j)
    BY <1>b, <1>f DEF TypeOK, OtherRows
  <2>2. Left(w)
    BY <1>f, <2>1, ExitFacts DEF Left, Owns, Holds, Off
  <2> QED
    BY <1>f, <2>1, <2>2, ExitFacts DEF TypeOK, Effect
\* A step that saves the checkpoint.
<1>g. ASSUME NEW ck \in Checkpoint, NEW next \in Container, Save(w, ck, next), me.pc # "off",
             next.pc \notin {"off", "ingest", "recordResult"}, next.job = j, next.gen = me.gen,
             SelfAware([next EXCEPT !.saved = ck]),
             \A r \in Repo :
                /\ Onward(me.saved[r], ck[r])
                /\ ck[r].result = "complete" =>
                      /\ ck[r].rev = me.saved[r].rev
                      /\ me.saved[r].result = "complete" \/ (me.pc = "recordResult" /\ r = me.repo)
      PROVE  Goal
  <2>1. /\ TypeOK' /\ UNCHANGED evidence /\ Others(w) /\ OtherRows(j)
        /\ \/ /\ Owns(w)
              /\ workers'[w] = [next EXCEPT !.saved = ck]
              /\ jobs'[j].state = "running" /\ jobs'[j].gen = jobs[j].gen /\ jobs'[j].ck = ck
           \/ UNCHANGED jobs /\ workers'[w] = Off
    BY <1>g, SaveFacts
  <2>2. CASE workers'[w] = Off /\ UNCHANGED jobs
    BY <1>g, <2>1, <2>2 DEF Left, Effect, Off, SelfAware, Busy
  <2>3. CASE Owns(w) /\ workers'[w] = [next EXCEPT !.saved = ck] /\ jobs'[j].state = "running"
                /\ jobs'[j].gen = jobs[j].gen /\ jobs'[j].ck = ck
    <3>1. /\ workers'[w].pc = next.pc /\ workers'[w].job = j /\ workers'[w].gen = me.gen
          /\ workers'[w].saved = ck
      BY <1>g, <2>3 DEF Container
    <3>2. Stored(w)
      BY <1>c, <1>g, <2>1, <2>3, <3>1 DEF Stored, SameClaim
    <3> QED
      BY <1>g, <2>1, <2>3, <3>2 DEF Effect
  <2> QED
    BY <2>1, <2>2, <2>3
\* A step that writes a batch.
<1>h. ASSUME NEW b \in 1..Batches, NEW rev \in {NoRev, me.saved[me.repo].rev},
             NEW next \in Container, Write(w, b, rev, next), me.pc \in Busy, next.pc # "off",
             next.job = j, next.gen = me.gen, next.saved = me.saved, next.repo = me.repo,
             SelfAware(next),
             next.pc \in {"ingest", "recordResult"} =>
                me.pc = "ingest" /\ b = me.batch /\ rev = me.saved[me.repo].rev,
             next.pc = "ingest" => next.batch = b + 1,
             next.pc = "recordResult" => b = Batches
      PROVE  Goal
  <2>1. me.pc # "off" /\ rev \in Revision \cup {NoRev}
    BY <1>a, <1>h DEF Busy, Checkpoint, Progress
  <2>2. /\ TypeOK' /\ UNCHANGED jobs /\ Others(w)
        /\ \/ /\ Owns(w) /\ workers'[w] = next
              /\ evidence' = [evidence EXCEPT ![me.repo][b] =
                                 [job |-> j, gen |-> me.gen, rev |-> rev]]
           \/ UNCHANGED evidence /\ workers'[w] = Off
    BY <1>h, <2>1, WriteFacts
  <2>3. CASE UNCHANGED evidence /\ workers'[w] = Off
    BY <2>1, <2>2, <2>3 DEF Left, Effect, Off, SelfAware, Busy
  <2>4. CASE /\ Owns(w) /\ workers'[w] = next
             /\ evidence' = [evidence EXCEPT ![me.repo][b] =
                                [job |-> j, gen |-> me.gen, rev |-> rev]]
    <3>1. me.saved[me.repo].result = "none"
      BY <1>a, <1>h DEF SelfAware
    <3>2. Wrote(w)
      BY <1>h, <2>1, <2>2, <2>4, <3>1 DEF Wrote, SameClaim
    <3> QED
      BY <1>h, <2>2, <2>4, <3>2 DEF Effect
  <2> QED
    BY <2>2, <2>3, <2>4
<1>1. ASSUME NEW k \in Job, Claim(w, k) PROVE Goal
  <2>1. jobs[k] \in Row
    BY DEF TypeOK
  <2>2. CASE Active(k) /\ jobs' = Closed(k, "failed") /\ UNCHANGED workers
    <3>1. /\ jobs' \in [Job -> Row] /\ OtherRows(k)
          /\ jobs'[k].state = "failed" /\ jobs'[k].ck = jobs[k].ck
      <4> DEFINE x == [state |-> "failed", gen |-> 0, retry |-> 0, lease |-> 0, life |-> 0,
                       delay |-> 0, ck |-> jobs[k].ck]
      <4>1. x \in Row
        BY <2>1, RowUpdates DEF Row
      <4>2. jobs' = [jobs EXCEPT ![k] = x]
        BY <2>2 DEF Closed
      <4> QED
        BY <4>1, <4>2 DEF TypeOK, OtherRows
    <3>2. Ended
      BY <1>1, <2>2, <3>1 DEF Ended, OtherRows, Claim
    <3> QED
      BY <1>a, <1>1, <2>2, <3>1, <3>2 DEF Claim, TypeOK, Effect
  <2>3. CASE /\ Due(k) /\ me.pc = "off"
             /\ \E n \in Nat : jobs' = [jobs EXCEPT ![k] = [jobs[k] EXCEPT !.state = "running",
                                  !.gen = jobs[k].gen + 1, !.lease = Lease, !.retry = n]]
             /\ workers' = [workers EXCEPT ![w] = [Off EXCEPT !.pc = "select", !.job = k,
                                  !.gen = jobs[k].gen + 1, !.saved = jobs[k].ck]]
    <3>1. jobs[k].gen + 1 \in Nat /\ jobs[k].ck \in Checkpoint
      BY <2>1 DEF Row
    <3>2. /\ jobs' \in [Job -> Row] /\ OtherRows(k)
          /\ jobs'[k].state = "running" /\ jobs'[k].gen = jobs[k].gen + 1
          /\ jobs'[k].ck = jobs[k].ck
      <4>1. PICK n \in Nat : jobs' = [jobs EXCEPT ![k] = [jobs[k] EXCEPT !.state = "running",
                                  !.gen = jobs[k].gen + 1, !.lease = Lease, !.retry = n]]
        BY <2>3
      <4>2. [jobs[k] EXCEPT !.state = "running", !.gen = jobs[k].gen + 1, !.lease = Lease,
                            !.retry = n] \in Row
        BY <2>1, <3>1, RowUpdates
      <4> QED
        BY <2>1, <4>1, <4>2 DEF TypeOK, OtherRows, Row
    <3> DEFINE c == [Off EXCEPT !.pc = "select", !.job = k, !.gen = jobs[k].gen + 1,
                                !.saved = jobs[k].ck]
    <3>3. /\ c \in Container /\ c.pc = "select" /\ c.job = k /\ c.gen = jobs[k].gen + 1
          /\ c.saved = jobs[k].ck
      BY <3>1, OffTypes DEF Off
    <3>4. workers' \in [Worker -> Container] /\ Others(w) /\ workers'[w] = c
             /\ \A v \in Worker : workers'[v].pc # "off" => workers'[v].job \in Job
      <4> HIDE DEF c
      <4> QED
        BY <2>3, <3>3 DEF TypeOK, Others, c
    <3> HIDE DEF c
    <3>5. Claimed(w, k)
      BY <1>1, <2>3, <3>2, <3>3, <3>4 DEF Claimed, Claim, Active, Due
    <3> QED
      BY <1>1, <3>2, <3>3, <3>4, <3>5 DEF Claim, TypeOK, Effect, SelfAware, Busy
  <2> QED
    <3> DEFINE m == IF jobs[k].state = "running" /\ jobs[k].lease = 0
                    THEN jobs[k].retry + 1 ELSE jobs[k].retry
    <3>1. m \in Nat
      BY <2>1 DEF Row
    <3>2. CASE /\ Due(k)
               /\ jobs' = [jobs EXCEPT ![k].state = "running", ![k].gen = @ + 1, ![k].lease = Lease,
                     ![k].retry = IF jobs[k].state = "running" /\ jobs[k].lease = 0
                                  THEN @ + 1 ELSE @]
      <4>1. jobs' = [jobs EXCEPT ![k] = [jobs[k] EXCEPT !.state = "running",
                                  !.gen = jobs[k].gen + 1, !.lease = Lease, !.retry = m]]
        BY <2>1, <3>2 DEF TypeOK, Row
      <4> QED
        BY <1>1, <2>2, <2>3, <3>1, <3>2, <4>1 DEF Claim
    <3> QED
      BY <1>1, <2>2, <3>2 DEF Claim
<1>2. CASE Select(w)
  <2>1. ASSUME NEW pc \in {"followup", "defer"}, Goto(w, pc),
               UNCHANGED <<active, jobs, head, evidence>>,
               pc = "followup" => \A r \in Repo : me.saved[r].result # "none"
        PROVE  Goal
    <3>1. SelfAware([me EXCEPT !.pc = pc])
      BY <1>a, <2>1 DEF SelfAware, Busy, Container
    <3> QED
      BY <1>2, <1>d, <2>1, <3>1 DEF Select, Points
  <2>2. ASSUME NEW r \in Repo, NEW pc \in {"ingestPartial", "read"}, me.count < SliceLimit,
               me.saved[r].result = "none", pc = "read" => me.saved[r].count < MaxInterruptions,
               Save(w, me.saved, [me EXCEPT !.repo = r, !.pc = pc])
        PROVE  Goal
    <3> DEFINE next == [me EXCEPT !.repo = r, !.pc = pc]
    <3>1. next \in Container
      BY <1>a, ContainerUpdates DEF Points
    <3>2. /\ next.pc = pc /\ next.job = j /\ next.gen = me.gen
          /\ SelfAware([next EXCEPT !.saved = me.saved])
      BY <1>a, <2>2 DEF SelfAware, Container
    <3>3. \A q \in Repo : Onward(me.saved[q], me.saved[q])
      BY <1>a DEF Onward, Checkpoint, Progress
    <3> HIDE DEF next
    <3> QED
      BY <1>2, <1>a, <1>g, <2>2, <3>1, <3>2, <3>3 DEF Select, next
  <2>3. \A r \in Repo : me.saved[r].count \in Nat
    BY <1>a DEF Checkpoint, Progress
  <2>4. ASSUME NEW r \in Repo, me.saved[r].result = "none", me.count < SliceLimit,
               Save(w, me.saved, [me EXCEPT !.repo = r,
                       !.pc = IF me.saved[r].count >= MaxInterruptions THEN "ingestPartial" ELSE "read"])
        PROVE  Goal
    <3>1. CASE me.saved[r].count >= MaxInterruptions
      BY <2>2, <2>4, <3>1
    <3>2. CASE me.saved[r].count < MaxInterruptions
      BY <2>2, <2>3, <2>4, <3>2, BoundsAssumption
    <3> QED
      BY <2>3, <2>4, <3>1, <3>2, BoundsAssumption
  <2> QED
    BY <1>2, <2>1, <2>4 DEF Select
<1>3. CASE Pin(w)
  <2>1. me.pc \in Busy /\ me.pc = "read"
    BY <1>3 DEF Pin, Busy
  <2>2. CASE Goto(w, "download") /\ UNCHANGED <<active, jobs, head, evidence>>
    <3>1. SelfAware([me EXCEPT !.pc = "download"])
      BY <1>a, <2>1 DEF SelfAware, Container
    <3> QED
      BY <1>d, <2>1, <2>2, <3>1 DEF Points
  <2>3. CASE /\ me.saved[me.repo].rev = NoRev
             /\ Save(w, [me.saved EXCEPT ![me.repo].rev = head[me.repo]], [me EXCEPT !.pc = "download"])
    <3> DEFINE next == [me EXCEPT !.pc = "download"]
               ck == [me.saved EXCEPT ![me.repo].rev = head[me.repo]]
    <3>1. next \in Container /\ next.pc = "download" /\ next.job = j /\ next.gen = me.gen
      <4>1. next \in Container
        BY <1>a, ContainerUpdates DEF Points
      <4> QED
        BY <1>a, <4>1 DEF Container
    <3>2. ck \in Checkpoint
      BY <1>a, CheckpointUpdates DEF TypeOK
    <3>3. \A r \in Repo : /\ ck[r].rev = me.saved[r].rev \/ me.saved[r].rev = NoRev
                          /\ ck[r].kept = me.saved[r].kept /\ ck[r].result = me.saved[r].result
                          /\ ck[r].count = me.saved[r].count /\ ck[r].count \in Nat
                          /\ r # me.repo => ck[r] = me.saved[r]
      BY <1>a, <2>3 DEF Checkpoint, Progress
    <3>4. me.saved[me.repo].result = "none" /\ me.count < SliceLimit
             /\ me.saved[me.repo].count < MaxInterruptions
      BY <1>a, <2>1 DEF SelfAware
    <3> HIDE DEF ck
    <3>6. ASSUME NEW r \in Repo PROVE Onward(me.saved[r], ck[r])
      <4>1. me.saved[r].result # "none" => ck[r] = me.saved[r]
        BY <3>3, <3>4
      <4>2. me.saved[r].count <= ck[r].count
        BY <3>3
      <4> QED
        BY <3>3, <4>1, <4>2 DEF Onward
    <3>5. SelfAware([next EXCEPT !.saved = ck])
      BY <1>a, <3>3, <3>4 DEF SelfAware, Container
    <3> HIDE DEF next
    <3> QED
      BY <1>g, <2>1, <2>3, <3>1, <3>2, <3>3, <3>4, <3>5, <3>6 DEF next, ck
  <2> QED
    BY <1>3, <2>2, <2>3 DEF Pin
<1>4. CASE Download(w)
  <2> DEFINE c == [me EXCEPT !.pc = "ingest", !.batch = 1]
  <2>1. me.pc = "download" /\ me.pc \in Busy
    BY <1>4 DEF Download, Busy
  <2>2. c \in Container
    <3>1. 1 \in 1..Batches
      BY BoundsAssumption
    <3> QED
      BY <1>a, <3>1, ContainerUpdates DEF Points
  <2>3. /\ c.pc = "ingest" /\ c.job = j /\ c.gen = me.gen /\ c.saved = me.saved /\ c.batch = 1
        /\ c.repo = me.repo /\ c.count = me.count
    BY <1>a DEF Container
  <2>4. workers' = [workers EXCEPT ![w] = c]
    BY <1>4 DEF Download
  <2> HIDE DEF c
  <2>5. /\ workers' \in [Worker -> Container] /\ Others(w) /\ workers'[w] = c
        /\ \A v \in Worker : workers'[v].pc # "off" => workers'[v].job \in Job
    BY <1>b, <2>1, <2>2, <2>3, <2>4 DEF TypeOK, Others
  <2>6. SelfAware(c)
    BY <1>a, <2>1, <2>3 DEF SelfAware
  <2>7. Moved(w)
    BY <1>4, <2>1, <2>3, <2>5 DEF Download, Moved, SameClaim
  <2> QED
    BY <1>4, <2>5, <2>6, <2>7 DEF Download, TypeOK, Effect
<1>5. CASE Quota(w) \/ SourceError(w) \/ Raise(w) \/ FollowUp(w)
  <2>1. CASE Exit(w) /\ UNCHANGED <<active, jobs, head, evidence>> /\ me.pc # "off"
    BY <1>e, <2>1
  <2>2. ASSUME NEW pc \in {"pause", "ingestFailed", "retry", "finish"}, Goto(w, pc),
               UNCHANGED <<active, jobs, head, evidence>>, me.pc # "off",
               pc = "ingestFailed" => me.pc \in Busy, pc = "finish" => me.pc = "followup"
        PROVE  Goal
    <3>1. SelfAware([me EXCEPT !.pc = pc])
      BY <1>a, <2>2 DEF SelfAware, Busy, Container
    <3> QED
      BY <1>d, <2>2, <3>1 DEF Points
  <2> QED
    BY <1>5, <2>1, <2>2 DEF Quota, SourceError, Raise, FollowUp, Busy
<1>6. CASE Interrupt(w)
  <2> DEFINE n == me.saved[me.repo].count + 1
             ck == [me.saved EXCEPT ![me.repo].count = n]
  <2>1. me.pc \in Busy /\ me.pc # "recordResult" /\ me.pc # "off"
    BY <1>6 DEF Interrupt, Busy
  <2>2. PICK pc \in {"defer", "ingestPartial"} : Save(w, ck, [me EXCEPT !.pc = pc])
    BY <1>6 DEF Interrupt
  <2> DEFINE next == [me EXCEPT !.pc = pc]
  <2>3. next \in Container
    BY <1>a, ContainerUpdates DEF Points
  <2>4. next.pc = pc /\ next.job = j /\ next.gen = me.gen
    BY <1>a DEF Container
  <2>5. ck \in Checkpoint
    <3>1. n \in Nat
      BY <1>a DEF Checkpoint, Progress
    <3> QED
      BY <1>a, <3>1, CheckpointUpdates
  <2>6. \A r \in Repo : /\ ck[r].rev = me.saved[r].rev /\ ck[r].kept = me.saved[r].kept
                        /\ ck[r].result = me.saved[r].result
                        /\ ck[r].count = IF r = me.repo THEN n ELSE me.saved[r].count
                        /\ me.saved[r].count \in Nat
                        /\ r # me.repo => ck[r] = me.saved[r]
    BY <1>a DEF Checkpoint, Progress
  <2>7. SelfAware([next EXCEPT !.saved = ck])
    BY <1>a, <2>1, <2>6 DEF SelfAware, Busy, Container
  <2>8. me.saved[me.repo].result = "none" /\ n <= MaxInterruptions
    <3>1. me.saved[me.repo].result = "none" /\ me.saved[me.repo].count < MaxInterruptions
      BY <1>6, <1>a, <2>1 DEF Interrupt, SelfAware
    <3>2. me.saved[me.repo].count \in Nat
      BY <1>a, <2>6
    <3> HIDE DEF ck
    <3> QED
      BY <3>1, <3>2, BoundsAssumption
  <2> HIDE DEF ck
  <2>9. \A r \in Repo : Onward(me.saved[r], ck[r])
    BY <2>6, <2>8 DEF Onward
  <2>10. \A r \in Repo : ck[r].rev = me.saved[r].rev /\ ck[r].result = me.saved[r].result
    BY <2>6
  <2> HIDE DEF next, n
  <2> QED
    BY <1>g, <2>1, <2>2, <2>3, <2>4, <2>5, <2>7, <2>9, <2>10 DEF next
<1>7. CASE Ingest(w)
  <2> DEFINE more == [me EXCEPT !.batch = @ + 1]
             all == [me EXCEPT !.pc = "recordResult", !.batch = 1]
  <2>1. me.pc = "ingest" /\ me.pc \in Busy /\ me.batch \in 1..Batches
    BY <1>7, <1>a DEF Ingest, Busy, Container
  <2>2. CASE me.batch < Batches /\ Write(w, me.batch, me.saved[me.repo].rev, more)
    <3>1. more \in Container /\ more.batch = me.batch + 1
      <4>1. me.batch + 1 \in 1..Batches
        BY <2>1, <2>2, BoundsAssumption
      <4>2. \A b \in 1..Batches : [me EXCEPT !.batch = b] \in Container
                                     /\ [me EXCEPT !.batch = b].batch = b
        BY <1>a DEF Container
      <4>3. more = [me EXCEPT !.batch = me.batch + 1]
        OBVIOUS
      <4> QED
        BY <4>1, <4>2, <4>3
    <3>2. /\ more.pc = "ingest" /\ more.job = j /\ more.gen = me.gen /\ more.saved = me.saved
          /\ more.repo = me.repo /\ more.count = me.count
      BY <1>a, <2>1 DEF Container
    <3>3. SelfAware(more)
      BY <1>a, <2>1, <3>2 DEF SelfAware
    <3> HIDE DEF more
    <3> QED
      BY <1>h, <2>1, <2>2, <3>1, <3>2, <3>3
  <2>3. CASE me.batch = Batches /\ Write(w, me.batch, me.saved[me.repo].rev, all)
    <3>1. all \in Container
      <4>1. 1 \in 1..Batches
        BY BoundsAssumption
      <4> QED
        BY <1>a, <4>1, ContainerUpdates DEF Points
    <3>2. /\ all.pc = "recordResult" /\ all.job = j /\ all.gen = me.gen /\ all.saved = me.saved
          /\ all.repo = me.repo /\ all.count = me.count
      BY <1>a DEF Container
    <3>3. SelfAware(all)
      BY <1>a, <2>1, <3>2 DEF SelfAware, Busy
    <3> HIDE DEF all
    <3> QED
      BY <1>h, <2>1, <2>3, <3>1, <3>2, <3>3
  <2>4. me.batch < Batches \/ me.batch = Batches
    BY <2>1, BoundsAssumption
  <2> QED
    BY <1>7, <2>2, <2>3, <2>4 DEF Ingest
<1>8. CASE IngestPartial(w) \/ IngestFailed(w)
  <2>1. PICK pc \in {"recordPartial", "recordFailed"}, rev \in {NoRev, me.saved[me.repo].rev} :
           Write(w, 1, rev, [me EXCEPT !.pc = pc])
    BY <1>8 DEF IngestPartial, IngestFailed
  <2> DEFINE next == [me EXCEPT !.pc = pc]
  <2>2. me.pc \in Busy /\ 1 \in 1..Batches
    BY <1>8, BoundsAssumption DEF IngestPartial, IngestFailed, Busy
  <2>3. next \in Container
    BY <1>a, ContainerUpdates DEF Points
  <2>4. /\ next.pc = pc /\ next.job = j /\ next.gen = me.gen /\ next.saved = me.saved
        /\ next.repo = me.repo /\ next.count = me.count
    BY <1>a DEF Container
  <2>5. SelfAware(next)
    BY <1>a, <2>2, <2>4 DEF SelfAware, Busy
  <2> HIDE DEF next
  <2> QED
    BY <1>h, <2>1, <2>2, <2>3, <2>4, <2>5 DEF next
<1>9. CASE Record(w)
  <2>1. me.pc \in Busy /\ me.pc # "off"
    BY <1>9 DEF Record, Busy
  <2>2. PICK result \in {"complete", "partial", "failed"} :
           /\ Save(w, [me.saved EXCEPT ![me.repo].result = result],
                   [me EXCEPT !.pc = "select", !.count = @ + 1])
           /\ result = "complete" => me.pc = "recordResult"
    BY <1>9 DEF Record
  <2> DEFINE next == [me EXCEPT !.pc = "select", !.count = @ + 1]
             ck == [me.saved EXCEPT ![me.repo].result = result]
  <2>3. next \in Container
    <3>1. me.count + 1 \in 0..SliceLimit
      BY <1>a, <2>1, BoundsAssumption DEF SelfAware, Container
    <3>2. next = [me EXCEPT !.pc = "select", !.count = me.count + 1]
      BY <1>a DEF Container
    <3> QED
      BY <1>a, <3>1, <3>2, ContainerUpdates DEF Points
  <2>4. next.pc = "select" /\ next.job = j /\ next.gen = me.gen
    BY <1>a DEF Container
  <2>5. ck \in Checkpoint
    BY <1>a, CheckpointUpdates
  <2>6. \A r \in Repo : /\ ck[r].rev = me.saved[r].rev /\ ck[r].kept = me.saved[r].kept
                        /\ ck[r].result = "complete" =>
                              me.saved[r].result = "complete"
                                 \/ (me.pc = "recordResult" /\ r = me.repo)
                        /\ ck[r].count = me.saved[r].count /\ me.saved[r].count \in Nat
                        /\ r # me.repo => ck[r] = me.saved[r]
    BY <1>a, <2>2 DEF Checkpoint, Progress
  <2>7. SelfAware([next EXCEPT !.saved = ck])
    BY <1>a, <2>4 DEF SelfAware, Busy, Container
  <2>8. me.saved[me.repo].result = "none"
    BY <1>a, <2>1 DEF SelfAware
  <2> HIDE DEF next, ck
  <2>9. \A r \in Repo : Onward(me.saved[r], ck[r])
    BY <2>6, <2>8 DEF Onward
  <2> QED
    BY <1>g, <2>1, <2>2, <2>3, <2>4, <2>5, <2>6, <2>7, <2>9 DEF next, ck
<1>10. CASE Defer(w)
  <2>1. CASE Holds(w)
    <3>1. PICK n \in Nat : jobs' = [jobs EXCEPT ![j].state = "queued", ![j].lease = 0,
                                       ![j].ck = me.saved, ![j].delay = n]
      BY <1>10, <2>1, BoundsAssumption DEF Defer
    <3> DEFINE x == [jobs[j] EXCEPT !.state = "queued", !.lease = 0, !.ck = me.saved, !.delay = n]
    <3>2. me.pc # "off" /\ j \in Job /\ jobs[j] \in Row
      BY <1>10, <1>b DEF Defer
    <3>3. jobs' = [jobs EXCEPT ![j] = x] /\ x \in Row
      BY <1>a, <3>1, <3>2, RowUpdates DEF TypeOK
    <3>4. Owns(w)
      BY <2>1, <3>2 DEF Owns, Holds
    <3>5. x.ck = jobs[j].ck /\ x.state = "queued" /\ x.gen = jobs[j].gen
      BY <1>c, <3>2, <3>4 DEF Row
    <3> HIDE DEF x
    <3> QED
      BY <1>10, <1>f, <2>1, <3>2, <3>3, <3>5 DEF Defer
  <2> QED
    BY <1>10, <1>e, <2>1 DEF Defer
<1>11. CASE Complete(w)
  <2> DEFINE x == [state |-> "succeeded", gen |-> 0, retry |-> 0, lease |-> 0, life |-> 0,
                   delay |-> 0, ck |-> jobs[j].ck]
  <2>1. me.pc = "finish" /\ j \in Job /\ jobs[j] \in Row
    BY <1>11, <1>b DEF Complete
  <2>2. x \in Row
    BY <2>1, RowUpdates DEF Row
  <2>3. CASE Holds(w) /\ jobs' = [jobs EXCEPT ![j] = x]
    BY <1>11, <1>f, <2>1, <2>2, <2>3 DEF Complete
  <2> QED
    BY <1>11, <1>e, <2>1, <2>3 DEF Complete, Closed
<1>12. CASE Retry(w)
  <2>1. me.pc = "retry" /\ j \in Job /\ jobs[j] \in Row
    BY <1>12, <1>b DEF Retry
  <2>2. CASE Holds(w) /\ jobs' = Closed(j, "failed")
    <3> DEFINE x == [state |-> "failed", gen |-> 0, retry |-> 0, lease |-> 0, life |-> 0,
                     delay |-> 0, ck |-> jobs[j].ck]
    <3>1. x \in Row
      BY <2>1, RowUpdates DEF Row
    <3> QED
      BY <1>12, <1>f, <2>1, <2>2, <3>1 DEF Retry, Closed
  <2>3. CASE /\ Holds(w)
             /\ jobs' = [jobs EXCEPT ![j].state = "queued", ![j].retry = @ + 1, ![j].lease = 0,
                                     ![j].delay = Delay]
    <3> DEFINE x == [jobs[j] EXCEPT !.state = "queued", !.retry = jobs[j].retry + 1, !.lease = 0,
                                    !.delay = Delay]
    <3>1. jobs[j].retry + 1 \in Nat
      BY <2>1 DEF Row
    <3>2. x \in Row
      <4>1. jobs[j].ck \in Checkpoint
        BY <2>1 DEF Row
      <4> QED
        BY <2>1, <3>1, <4>1, RowUpdates
    <3>4. jobs' = [jobs EXCEPT ![j] = x]
      BY <2>1, <2>3 DEF TypeOK, Row
    <3>3. x.ck = jobs[j].ck /\ x.state = "queued" /\ x.gen = jobs[j].gen
      BY <2>1 DEF Row
    <3> HIDE DEF x
    <3> QED
      BY <1>12, <1>f, <2>1, <2>3, <3>2, <3>3, <3>4 DEF Retry
  <2> QED
    BY <1>12, <1>e, <2>1, <2>2, <2>3 DEF Retry
<1>13. CASE Crash(w)
  BY <1>13, <1>e DEF Crash
<1> QED
  BY <1>1, <1>2, <1>3, <1>4, <1>5, <1>6, <1>7, <1>8, <1>9, <1>10, <1>11, <1>12, <1>13
  DEF WorkerStep

-----------------------------------------------------------------------------
\* A job is created.
Opened(j) ==
    /\ UNCHANGED <<evidence, workers>> /\ OtherRows(j)
    /\ ~Created(j) /\ \A k \in Job : k < j => Created(k) /\ ~Active(k)
    /\ jobs'[j].state = "queued"
    /\ \/ jobs'[j].ck = Blank
       \/ \E k \in Job : Latest(k) /\ jobs'[j].ck = Seed(jobs[k].ck)

\* Nothing changes but deadlines, branches and the connection.
Quiet ==
    /\ UNCHANGED <<evidence, workers>>
    /\ \A j \in Job : /\ jobs'[j].state = jobs[j].state /\ jobs'[j].gen = jobs[j].gen
                      /\ jobs'[j].ck = jobs[j].ck

\* Every step keeps the types and what containers know of themselves, and is an effect of
\* a container, the end of jobs, the creation of one, or none of that.
LEMMA StepEffect ==
  ASSUME IInv, [Next]_vars
  PROVE  /\ TypeOK' /\ AllSelfAware'
         /\ (\E w \in Worker : Effect(w)) \/ Ended \/ (\E j \in Job : Opened(j)) \/ Quiet
<1> USE DEF IInv
<1> DEFINE Goal == /\ TypeOK' /\ AllSelfAware'
                   /\ (\E w \in Worker : Effect(w)) \/ Ended \/ (\E j \in Job : Opened(j)) \/ Quiet
<1>1. ASSUME NEW j \in Job, CreateJob(j) \/ RetryIncomplete(j) PROVE Goal
  <2>1. PICK ck \in Checkpoint :
           /\ Create(j, ck)
           /\ ck = Blank \/ \E k \in Job : Latest(k) /\ ck = Seed(jobs[k].ck)
    <3>1. CASE CreateJob(j)
      BY <3>1, NewCheckpoints DEF CreateJob
    <3>2. CASE RetryIncomplete(j)
      <4>1. PICK k \in Job : Latest(k) /\ Create(j, Seed(jobs[k].ck))
        BY <3>2 DEF RetryIncomplete
      <4>2. jobs[k].ck \in Checkpoint
        BY DEF TypeOK, Row
      <4> QED
        BY <4>1, <4>2, NewCheckpoints
    <3> QED
      BY <1>1, <3>1, <3>2
  <2> DEFINE x == [state |-> "queued", gen |-> 0, retry |-> 0, lease |-> 0, life |-> Life,
                   delay |-> 0, ck |-> ck]
  <2>2. x \in Row
    BY RowUpdates, BoundsAssumption
  <2>3. jobs' = [jobs EXCEPT ![j] = x] /\ UNCHANGED <<active, head, evidence, workers>>
    BY <2>1 DEF Create
  <2>4. jobs' \in [Job -> Row] /\ jobs'[j] = x /\ OtherRows(j)
    BY <2>2, <2>3 DEF TypeOK, OtherRows
  <2>5. Opened(j)
    BY <2>1, <2>3, <2>4 DEF Create, Opened
  <2> QED
    BY <2>3, <2>4, <2>5 DEF TypeOK, AllSelfAware
<1>2. ASSUME NEW w \in Worker, WorkerStep(w) PROVE Goal
  <2>1. TypeOK' /\ SelfAware(workers'[w]) /\ Effect(w)
    BY <1>2, ContainerStep
  <2>2. \A v \in Worker : v # w => workers'[v] = workers[v]
    BY <2>1 DEF Effect, Moved, Left, Stored, Wrote, Claimed, Ended, Others
  <2> QED
    BY <2>1, <2>2 DEF AllSelfAware
<1>3. ASSUME NEW r \in Repo, Push(r) PROVE Goal
  <2>1. head' \in [Repo -> Revision]
    BY <1>3, BoundsAssumption DEF Push, TypeOK, Revision
  <2> QED
    BY <1>3, <2>1 DEF Push, TypeOK, AllSelfAware, Quiet
<1>4. CASE ListDue
  <2>1. \A j \in Job : \/ jobs'[j] = jobs[j]
                       \/ /\ Active(j) /\ jobs'[j].state = "failed" /\ jobs'[j].ck = jobs[j].ck
                          /\ jobs'[j] \in Row
    <3> SUFFICES ASSUME NEW j \in Job, Active(j), jobs'[j] = Closed(j, "failed")[j]
                 PROVE  /\ jobs'[j].state = "failed" /\ jobs'[j].ck = jobs[j].ck
                        /\ jobs'[j] \in Row
      BY <1>4 DEF ListDue
    <3>1. Closed(j, "failed")[j] =
             [state |-> "failed", gen |-> 0, retry |-> 0, lease |-> 0, life |-> 0, delay |-> 0,
              ck |-> jobs[j].ck]
      BY DEF Closed, TypeOK
    <3>2. jobs[j].ck \in Checkpoint
      BY DEF TypeOK, Row
    <3>3. [state |-> "failed", gen |-> 0, retry |-> 0, lease |-> 0, life |-> 0, delay |-> 0,
           ck |-> jobs[j].ck] \in Row
      BY <3>2, RowUpdates
    <3> QED
      BY <3>1, <3>3
  <2>2. jobs' \in [Job -> Row] /\ UNCHANGED <<active, head, evidence, workers>>
    BY <1>4, <2>1 DEF ListDue, TypeOK
  <2> QED
    BY <2>1, <2>2 DEF Ended, TypeOK, AllSelfAware
<1>5. CASE Disable
  BY <1>5 DEF Disable, TypeOK, AllSelfAware, Quiet
<1>6. CASE Tick
  <2>1. \A x \in Row : LET y == [x EXCEPT !.lease = Dec(@), !.life = Dec(@), !.delay = Dec(@)] IN
           y \in Row /\ y.state = x.state /\ y.gen = x.gen /\ y.ck = x.ck
    BY DecFacts DEF Row
  <2> QED
    BY <1>6, <2>1 DEF Tick, TypeOK, AllSelfAware, Quiet
<1>7. CASE UNCHANGED vars
  BY <1>7 DEF vars, TypeOK, AllSelfAware, Quiet
<1> QED
  BY <1>1, <1>2, <1>3, <1>4, <1>5, <1>6, <1>7 DEF Next

-----------------------------------------------------------------------------
\* Only the owner of the latest job can work for the connection.
LEMMA OwnerFacts ==
  ASSUME IInv, NEW w \in Worker, Owns(w)
  PROVE  /\ workers[w].job \in Job /\ Active(workers[w].job) /\ Latest(workers[w].job)
         /\ workers[w].saved = jobs[workers[w].job].ck /\ workers[w].repo \in Repo
         /\ workers[w].gen \in Nat
<1>1. workers[w].job \in Job /\ workers[w].repo \in Repo /\ workers[w].gen \in Nat
  BY DEF IInv, TypeOK, Owns, Container
<1>2. Active(workers[w].job)
  BY DEF Owns, Active
<1> QED
  BY <1>1, <1>2 DEF IInv, Ordered, SavedIsStored

\* There is one latest job.
LEMMA OneLatest ==
  ASSUME NEW j \in Job, NEW k \in Job, Latest(j), Latest(k)
  PROVE  j = k
BY DEF Latest, Job

\* Two containers that have the generation of their rows are the same: both rows are active,
\* so they are the one latest row, and generations are not given twice.
LEMMA OneOwner ==
  ASSUME IInv, NEW v \in Worker, NEW w \in Worker, Owns(v), Owns(w)
  PROVE  v = w
<1>1. workers[v].job = workers[w].job
  BY OwnerFacts, OneLatest
<1> QED
  BY <1>1 DEF IInv, Fenced, Owns

\* Rows stay in order: a row is only opened behind those there are, when none is active.
LEMMA OrderedStep ==
  ASSUME IInv, [Next]_vars
  PROVE  Ordered'
<1> USE DEF IInv
<1>a. ASSUME \A j \in Job : (Created(j)' <=> Created(j)) /\ (Active(j)' => Active(j))
      PROVE  Ordered'
  BY <1>a DEF Ordered, Latest
<1>1. ASSUME NEW w \in Worker, Effect(w) PROVE Ordered'
  <2>1. CASE Moved(w) \/ Wrote(w)
    BY <1>a, <2>1 DEF Moved, Wrote, Created, Active
  <2>2. CASE Left(w)
    BY <1>a, <2>2, OwnerFacts DEF Left, OtherRows, Created, Active
  <2>3. CASE Stored(w)
    BY <1>a, <2>3, OwnerFacts DEF Stored, OtherRows, Created, Active
  <2>4. ASSUME NEW j \in Job, Claimed(w, j) PROVE Ordered'
    BY <1>a, <2>4 DEF Claimed, OtherRows, Created, Active
  <2>5. CASE Ended
    BY <1>a, <2>5 DEF Ended, Created, Active
  <2> QED
    BY <1>1, <2>1, <2>2, <2>3, <2>4, <2>5 DEF Effect
<1>2. CASE Ended
  BY <1>a, <1>2 DEF Ended, Created, Active
<1>3. ASSUME NEW j \in Job, Opened(j) PROVE Ordered'
  <2>1. Created(j)' /\ \A k \in Job : k # j => (Created(k)' <=> Created(k)) /\ (Active(k)' <=> Active(k))
    BY <1>3 DEF Opened, OtherRows, Created, Active
  <2>2. \A k \in Job : k > j => ~Created(k)
    BY <1>3 DEF Opened, Ordered
  <2>3. \A k \in Job : k # j => ~Active(k)
    BY <1>3, <2>2 DEF Opened, Job, Active, Created
  <2>4. \A k, i \in Job : Created(k)' /\ i < k => Created(i)'
    BY <1>3, <2>1 DEF Opened, Ordered, Job
  <2>5. Latest(j)'
    BY <2>1, <2>2 DEF Latest, Job
  <2> QED
    BY <2>1, <2>3, <2>4, <2>5 DEF Ordered
<1>4. CASE Quiet
  BY <1>a, <1>4 DEF Quiet, Created, Active
<1> QED
  BY <1>1, <1>2, <1>3, <1>4, StepEffect

\* Generations stay fenced: a claim raises the generation of its row over all it gave out,
\* and a batch is stamped with the generation of the container that writes it.
LEMMA FencedStep ==
  ASSUME IInv, [Next]_vars
  PROVE  Fenced'
<1> USE DEF IInv
<1> DEFINE Stamped(r, b) == evidence[r][b].job # NoJob =>
              /\ Created(evidence[r][b].job)
              /\ Active(evidence[r][b].job) => evidence[r][b].gen <= jobs[evidence[r][b].job].gen
           Kept == \A j \in Job : Created(j) =>
              /\ Created(j)'
              /\ Active(j)' => Active(j) /\ jobs[j].gen <= jobs'[j].gen
           Mine(w) == workers[w].pc # "off" =>
              /\ Created(workers[w].job)
              /\ Active(workers[w].job) => workers[w].gen <= jobs[workers[w].job].gen
\* Rows that exist stay so, and only active ones stay active, with the same generation or
\* a later one.
<1>t. /\ \A j \in Job : jobs[j].gen \in Nat /\ jobs'[j].gen \in Nat
      /\ \A w \in Worker : /\ workers[w].gen \in Nat
                           /\ workers[w].pc # "off" => workers[w].job \in Job
      /\ \A r \in Repo, b \in 1..Batches : /\ evidence[r][b].gen \in Nat
                                           /\ evidence[r][b].job \in Job \cup {NoJob}
  <2>1. /\ jobs \in [Job -> Row] /\ jobs' \in [Job -> Row]
        /\ \A w \in Worker : workers[w] \in Container
        /\ \A r \in Repo, b \in 1..Batches : evidence[r][b] \in Stamp
    BY StepEffect DEF TypeOK
  <2>2. \A j \in Job : jobs[j].gen \in Nat /\ jobs'[j].gen \in Nat
    BY <2>1 DEF Row
  <2>3. \A w \in Worker : /\ workers[w].gen \in Nat
                          /\ workers[w].pc # "off" => workers[w].job \in Job
    BY <2>1 DEF TypeOK, Container
  <2>4. \A r \in Repo, b \in 1..Batches : /\ evidence[r][b].gen \in Nat
                                          /\ evidence[r][b].job \in Job \cup {NoJob}
    BY <2>1 DEF Stamp
  <2> QED
    BY <2>2, <2>3, <2>4
<1>a. Kept /\ UNCHANGED evidence => \A r \in Repo, b \in 1..Batches : Stamped(r, b)'
  BY <1>t DEF Fenced
<1>b. ASSUME Kept, NEW w \in Worker, workers'[w].pc # "off" => SameClaim(w) PROVE Mine(w)'
  BY <1>b, <1>t DEF Fenced, SameClaim
<1>c. ASSUME Kept, UNCHANGED evidence, \A w \in Worker : workers'[w].pc # "off" => SameClaim(w)
      PROVE  Fenced'
  <2>1. \A w \in Worker : Mine(w)'
    BY <1>b, <1>c
  <2>2. \A v, w \in Worker : workers'[v].pc # "off" /\ workers'[w].pc # "off"
           /\ workers'[v].job = workers'[w].job /\ workers'[v].gen = workers'[w].gen => v = w
    BY <1>c DEF Fenced, SameClaim
  <2> QED
    BY <1>a, <1>c, <2>1, <2>2 DEF Fenced
<1>d. ASSUME NEW w \in Worker, Others(w), NEW v \in Worker, v # w, workers'[v].pc # "off"
      PROVE  SameClaim(v)
  BY <1>d DEF Others, SameClaim
<1>1. ASSUME NEW w \in Worker, Effect(w) PROVE Fenced'
  <2>1. CASE Moved(w)
    <3>1. Kept
      BY <2>1, <1>t DEF Moved, Created, Active
    <3> QED
      BY <1>c, <1>d, <2>1, <3>1 DEF Moved
  <2>2. CASE Left(w)
    <3>0. UNCHANGED evidence /\ workers'[w].pc = "off" /\ Others(w)
      BY <2>2 DEF Left
    <3>1. CASE UNCHANGED jobs
      <4>1. \A j \in Job : jobs[j].gen <= jobs'[j].gen
        BY <1>t, <3>1
      <4>2. Kept
        BY <3>1, <4>1 DEF Created, Active
      <4> QED
        BY <1>c, <1>d, <3>0, <4>2
    <3>2. CASE ~UNCHANGED jobs
      <4> DEFINE k == workers[w].job
      <4>1. /\ Owns(w) /\ OtherRows(k)
            /\ \/ jobs'[k].state = "queued" /\ jobs'[k].gen = jobs[k].gen
               \/ jobs'[k].state \in {"failed", "succeeded"}
        BY <2>2, <3>2 DEF Left
      <4>2. Active(k) /\ k \in Job
        BY <4>1, OwnerFacts
      <4>3. \A j \in Job : j # k => jobs'[j] = jobs[j] /\ jobs[j].gen <= jobs'[j].gen
        BY <1>t, <4>1 DEF OtherRows
      <4>4. /\ jobs'[k].state # "absent"
            /\ jobs'[k].state \in {"queued", "running"} => jobs[k].gen <= jobs'[k].gen
        BY <1>t, <4>1, <4>2
      <4>5. Kept
        BY <4>2, <4>3, <4>4 DEF Created, Active
      <4> QED
        BY <1>c, <1>d, <3>0, <4>5
    <3> QED
      BY <3>1, <3>2
  <2>3. CASE Stored(w)
    <3>1. /\ \A j \in Job : j # workers[w].job => jobs'[j] = jobs[j]
          /\ Active(workers[w].job) /\ jobs'[workers[w].job].state = "running"
          /\ jobs'[workers[w].job].gen = jobs[workers[w].job].gen
      BY <2>3, OwnerFacts DEF Stored, OtherRows
    <3>2. Kept
      BY <1>t, <3>1 DEF Created, Active
    <3>3. UNCHANGED evidence /\ Others(w) /\ SameClaim(w)
      BY <2>3 DEF Stored
    <3> QED
      BY <1>c, <1>d, <3>2, <3>3
  <2>4. CASE Wrote(w)
    <3>1. Kept
      BY <2>4, <1>t DEF Wrote, Created, Active
    <3>2. PICK b \in 1..Batches, rev \in {NoRev, workers[w].saved[workers[w].repo].rev} :
            evidence' = [evidence EXCEPT ![workers[w].repo][b] =
                            [job |-> workers[w].job, gen |-> workers[w].gen, rev |-> rev]]
      BY <2>4 DEF Wrote
    <3>3. ASSUME NEW r \in Repo, NEW c \in 1..Batches PROVE Stamped(r, c)'
      <4>1. CASE evidence'[r][c] = evidence[r][c]
        BY <1>t, <2>4, <4>1 DEF Wrote, Fenced, Created, Active
      <4>2. CASE evidence'[r][c] =
                    [job |-> workers[w].job, gen |-> workers[w].gen, rev |-> rev]
        <5>1. /\ UNCHANGED jobs /\ Active(workers[w].job)
              /\ workers[w].gen = jobs[workers[w].job].gen
              /\ jobs[workers[w].job].gen \in Nat
          BY <1>t, <2>4, OwnerFacts DEF Wrote, Owns
        <5>2. evidence'[r][c].job = workers[w].job /\ evidence'[r][c].gen = workers[w].gen
          BY <4>2
        <5> QED
          BY <5>1, <5>2 DEF Created, Active
      <4> QED
        BY <3>2, <4>1, <4>2 DEF TypeOK
    <3>4. \A v \in Worker : Mine(v)' /\ (workers'[v].pc # "off" => SameClaim(v))
      BY <1>b, <1>d, <2>4, <3>1 DEF Wrote
    <3>5. \A v, u \in Worker : workers'[v].pc # "off" /\ workers'[u].pc # "off"
             /\ workers'[v].job = workers'[u].job /\ workers'[v].gen = workers'[u].gen => v = u
      BY <3>4 DEF Fenced, SameClaim
    <3> QED
      BY <3>3, <3>4, <3>5 DEF Fenced
  <2>5. ASSUME NEW j \in Job, Claimed(w, j) PROVE Fenced'
    <3>1. Kept
      BY <2>5, <1>t DEF Claimed, OtherRows, Created, Active
    <3>2. Mine(w)'
      BY <2>5, <1>t DEF Claimed, Created, Active
    <3>3. \A v \in Worker : Mine(v)'
      BY <1>b, <1>d, <2>5, <3>1, <3>2 DEF Claimed
    <3>4. ASSUME NEW v \in Worker, v # w, workers'[v].pc # "off", workers'[v].job = j
          PROVE  workers'[v].gen # workers'[w].gen
      BY <1>t, <2>5, <3>4 DEF Claimed, Others, Fenced
    <3>5. \A v, u \in Worker : workers'[v].pc # "off" /\ workers'[u].pc # "off"
             /\ workers'[v].job = workers'[u].job /\ workers'[v].gen = workers'[u].gen => v = u
      BY <2>5, <3>4 DEF Claimed, Others, Fenced
    <3> QED
      BY <1>a, <2>5, <3>1, <3>3, <3>5 DEF Fenced, Claimed
  <2>6. CASE Ended
    <3>1. Kept
      BY <2>6, <1>t DEF Ended, Created, Active
    <3> QED
      BY <1>c, <2>6, <3>1 DEF Ended, SameClaim
  <2> QED
    BY <1>1, <2>1, <2>2, <2>3, <2>4, <2>5, <2>6 DEF Effect
<1>2. CASE Ended
  <2>1. Kept
    BY <1>2, <1>t DEF Ended, Created, Active
  <2> QED
    BY <1>c, <1>2, <2>1 DEF Ended, SameClaim
<1>3. ASSUME NEW j \in Job, Opened(j) PROVE Fenced'
  <2>1. Kept
    BY <1>3, <1>t DEF Opened, OtherRows, Created, Active
  <2> QED
    BY <1>c, <1>3, <2>1 DEF Opened, SameClaim
<1>4. CASE Quiet
  <2>1. Kept
    BY <1>4, <1>t DEF Quiet, Created, Active
  <2> QED
    BY <1>c, <1>4, <2>1 DEF Quiet, SameClaim
<1> QED
  BY <1>1, <1>2, <1>3, <1>4, StepEffect

\* A container owns its row only if it did before, or has just claimed it.
LEMMA OwnershipStep ==
  ASSUME IInv, [Next]_vars, NEW v \in Worker, Owns(v)'
  PROVE  \/ /\ Owns(v) /\ workers'[v].job = workers[v].job /\ workers'[v].gen = workers[v].gen
         \/ \E j \in Job : Claimed(v, j)
<1> USE DEF IInv
<1>1. workers'[v].pc # "off" /\ workers'[v].job \in Job
  BY StepEffect DEF Owns, TypeOK
<1>2. ASSUME workers'[v] = workers[v], NEW w \in Worker, w # v,
             Left(w) \/ Stored(w) \/ Wrote(w) \/ Moved(w)
      PROVE  Owns(v)
  <2>1. Owns(w) \/ UNCHANGED jobs
    BY <1>2 DEF Left, Stored, Wrote, Moved
  <2>2. CASE Owns(w) /\ workers[v].job # workers[w].job
    BY <1>1, <1>2, <2>2 DEF Owns, Left, Stored, Wrote, Moved, OtherRows
  <2>3. CASE Owns(w) /\ workers[v].job = workers[w].job /\ ~UNCHANGED jobs
    BY <1>1, <1>2, <2>3 DEF Owns, Left, Stored, Wrote, Moved
  <2> QED
    BY <1>1, <1>2, <2>1, <2>2, <2>3 DEF Owns
<1>3. ASSUME NEW w \in Worker, Effect(w), w # v PROVE Owns(v)
  <2>1. workers'[v] = workers[v]
    BY <1>3 DEF Effect, Moved, Left, Stored, Wrote, Claimed, Ended, Others
  <2>2. ASSUME NEW j \in Job, Claimed(w, j) PROVE Owns(v)
    <3>1. workers[v].gen \in Nat /\ jobs[j].gen \in Nat
      BY DEF TypeOK, Container, Row
    <3>2. workers[v].job # j
      BY <1>1, <2>1, <2>2, <3>1 DEF Owns, Claimed, Fenced
    <3> QED
      BY <1>1, <2>1, <2>2, <3>2 DEF Owns, Claimed, OtherRows
  <2>3. CASE Ended
    BY <1>1, <2>3 DEF Ended, Owns
  <2> QED
    BY <1>2, <1>3, <2>1, <2>2, <2>3 DEF Effect
<1>4. ASSUME Effect(v)
      PROVE  \/ Owns(v) /\ workers'[v].job = workers[v].job /\ workers'[v].gen = workers[v].gen
             \/ \E j \in Job : Claimed(v, j)
  BY <1>1, <1>4 DEF Effect, Moved, Left, Stored, Wrote, Ended, SameClaim, Owns
<1>5. ASSUME NEW w \in Worker, Effect(w), w # v
      PROVE  Owns(v) /\ workers'[v] = workers[v]
  BY <1>3, <1>5 DEF Effect, Moved, Left, Stored, Wrote, Claimed, Ended, Others
<1>6. CASE Ended
  BY <1>1, <1>6 DEF Ended, Owns
<1>7. ASSUME NEW j \in Job, Opened(j) PROVE Owns(v) /\ workers'[v] = workers[v]
  BY <1>1, <1>7 DEF Opened, OtherRows, Owns
<1>8. CASE Quiet
  BY <1>1, <1>8 DEF Quiet, Owns
<1> QED
  BY <1>4, <1>5, <1>6, <1>7, <1>8, StepEffect

\* The owner of a row keeps to what the row says: it writes both in one step, and a claim
\* reads the row it takes.
LEMMA SavedStep ==
  ASSUME IInv, [Next]_vars
  PROVE  SavedIsStored'
<1> USE DEF IInv
<1> SUFFICES ASSUME NEW v \in Worker, Owns(v)'
             PROVE  workers'[v].saved = jobs'[workers'[v].job].ck
  BY DEF SavedIsStored
<1>1. CASE \E j \in Job : Claimed(v, j)
  BY <1>1 DEF Claimed
<1>2. CASE Owns(v) /\ workers'[v].job = workers[v].job
  <2>1. workers[v].saved = jobs[workers[v].job].ck /\ workers[v].job \in Job
    BY <1>2, OwnerFacts
  <2>2. CASE Effect(v)
    BY <1>1, <1>2, <2>1, <2>2 DEF Effect, Moved, Left, Stored, Wrote, Ended, Owns
  <2>3. ASSUME NEW w \in Worker, Effect(w), w # v
        PROVE  workers'[v].saved = jobs'[workers'[v].job].ck
    <3>1. workers'[v] = workers[v]
      BY <2>3 DEF Effect, Moved, Left, Stored, Wrote, Claimed, Ended, Others
    <3>2. ~Owns(w)
      BY <1>2, <2>3, OneOwner
    <3>3. jobs'[workers[v].job].ck = jobs[workers[v].job].ck
      BY <2>1, <2>3, <3>2 DEF Effect, Moved, Left, Stored, Wrote, Claimed, Ended, OtherRows
    <3> QED
      BY <2>1, <3>1, <3>3
  <2>4. CASE Ended \/ Quiet
    BY <1>2, <2>1, <2>4 DEF Ended, Quiet
  <2>5. ASSUME NEW j \in Job, Opened(j) PROVE workers'[v].saved = jobs'[workers'[v].job].ck
    <3>1. workers[v].job # j
      BY <1>2, <2>5 DEF Opened, Owns, Created
    <3> QED
      BY <1>2, <2>1, <2>5, <3>1 DEF Opened, OtherRows
  <2> QED
    BY <2>2, <2>3, <2>4, <2>5, StepEffect
<1> QED
  BY <1>1, <1>2, OwnershipStep

\* The batches the owner has written stay its own: nobody else with a job writes evidence
\* under the latest row.
LEMMA WrittenStep ==
  ASSUME IInv, [Next]_vars
  PROVE  WrittenSoFar'
<1> USE DEF IInv
<1> SUFFICES ASSUME NEW v \in Worker, NEW b \in 1..Batches, Owns(v)',
                    \/ workers'[v].pc = "recordResult"
                    \/ workers'[v].pc = "ingest" /\ b < workers'[v].batch
             PROVE  evidence'[workers'[v].repo][b] =
                       [job |-> workers'[v].job, gen |-> workers'[v].gen,
                        rev |-> workers'[v].saved[workers'[v].repo].rev]
  BY DEF WrittenSoFar
<1>1. Owns(v) /\ workers'[v].job = workers[v].job /\ workers'[v].gen = workers[v].gen
  BY OwnershipStep DEF Claimed
<1>2. CASE workers'[v] = workers[v] /\ UNCHANGED evidence
  BY <1>1, <1>2 DEF WrittenSoFar
<1>3. CASE Effect(v)
  <2>1. CASE Moved(v)
    BY <2>1 DEF Moved
  <2>2. CASE Left(v) \/ Stored(v) \/ \E j \in Job : Claimed(v, j)
    BY <2>2 DEF Left, Stored, Claimed
  <2>3. CASE Ended
    BY <1>2, <2>3 DEF Ended
  <2>4. CASE Wrote(v)
    <3> DEFINE me == workers[v]
               st == [job |-> me.job, gen |-> me.gen, rev |-> me.saved[me.repo].rev]
    <3>1. me.repo \in Repo /\ me.pc = "ingest" /\ me.batch \in 1..Batches
          /\ evidence' = [evidence EXCEPT ![me.repo][me.batch] = st]
          /\ workers'[v].repo = me.repo /\ workers'[v].saved = me.saved
          /\ (workers'[v].pc = "ingest" => workers'[v].batch = me.batch + 1)
          /\ (workers'[v].pc = "recordResult" => me.batch = Batches)
      BY <2>4, OwnerFacts DEF Wrote
    <3> HIDE DEF st
    <3>2. evidence'[me.repo][me.batch] = st
      BY <3>1 DEF TypeOK
    <3>3. b # me.batch => evidence'[me.repo][b] = evidence[me.repo][b] /\ b < me.batch
      BY <3>1, BoundsAssumption DEF TypeOK
    <3>4. b # me.batch => evidence[me.repo][b] = st
      BY <1>1, <3>1, <3>3 DEF WrittenSoFar, st
    <3> QED
      BY <1>1, <3>1, <3>2, <3>3, <3>4 DEF st
  <2> QED
    BY <1>3, <2>1, <2>2, <2>3, <2>4 DEF Effect
<1>4. ASSUME NEW w \in Worker, Effect(w), w # v PROVE workers'[v] = workers[v] /\ UNCHANGED evidence
  <2>1. ~Wrote(w)
    BY <1>1, <1>4, OneOwner DEF Wrote
  <2> QED
    BY <1>4, <2>1 DEF Effect, Moved, Left, Stored, Claimed, Ended, Others
<1>5. CASE Ended \/ Quiet \/ \E j \in Job : Opened(j)
  BY <1>2, <1>5 DEF Ended, Quiet, Opened
<1> QED
  BY <1>2, <1>3, <1>4, <1>5, StepEffect

\* Only its owner writes evidence, of the repository it works on.
LEMMA EvidenceChange ==
  ASSUME IInv, [Next]_vars
  PROVE  UNCHANGED evidence \/ \E w \in Worker : Wrote(w)
BY StepEffect DEF Effect, Moved, Left, Stored, Claimed, Ended, Opened, Quiet

\* The checkpoint of a job that exists only grows.
LEMMA Growth ==
  ASSUME IInv, [Next]_vars, NEW j \in Job, Created(j), NEW r \in Repo
  PROVE  Onward(jobs[j].ck[r], jobs'[j].ck[r])
<1>1. ASSUME jobs'[j].ck = jobs[j].ck PROVE Onward(jobs[j].ck[r], jobs'[j].ck[r])
  <2>1. jobs[j].ck[r].count \in Nat
    BY DEF IInv, TypeOK, Row, Checkpoint, Progress
  <2> QED
    BY <1>1, <2>1 DEF Onward
<1>2. ASSUME NEW w \in Worker, Effect(w) PROVE Onward(jobs[j].ck[r], jobs'[j].ck[r])
  <2>1. CASE Stored(w)
    <3>1. CASE j = workers[w].job
      BY <2>1, <3>1 DEF Stored
    <3>2. CASE j # workers[w].job
      BY <1>1, <2>1, <3>2 DEF Stored, OtherRows
    <3> QED
      BY <3>1, <3>2
  <2>2. CASE Moved(w) \/ Left(w) \/ Wrote(w) \/ Ended \/ \E k \in Job : Claimed(w, k)
    BY <1>1, <2>2 DEF Moved, Left, Wrote, Ended, Claimed, OtherRows
  <2> QED
    BY <1>2, <2>1, <2>2 DEF Effect
<1> QED
  BY <1>1, <1>2, StepEffect DEF Ended, Quiet, Opened, OtherRows

\* Interruptions stay within their bound: one is only counted below it, and a new job starts
\* without any or with those of a job before it.
LEMMA InterruptionStep ==
  ASSUME IInv, [Next]_vars
  PROVE  InterruptionsBounded'
<1> SUFFICES ASSUME NEW j \in Job, NEW r \in Repo PROVE jobs'[j].ck[r].count <= MaxInterruptions
  BY DEF InterruptionsBounded
<1>1. jobs[j].ck[r].count <= MaxInterruptions
  BY DEF IInv, InterruptionsBounded
<1>2. CASE Created(j)
  BY <1>1, <1>2, Growth DEF Onward
<1>3. CASE jobs'[j].ck = jobs[j].ck
  BY <1>1, <1>3
<1>4. CASE Opened(j)
  <2>1. CASE jobs'[j].ck = Blank
    BY <2>1, BoundsAssumption DEF Blank
  <2>2. ASSUME NEW k \in Job, jobs'[j].ck = Seed(jobs[k].ck)
        PROVE  jobs'[j].ck[r].count <= MaxInterruptions
    <3>1. jobs[k].ck[r] \in Progress /\ jobs[k].ck[r].count <= MaxInterruptions
      BY DEF IInv, TypeOK, Row, Checkpoint, InterruptionsBounded
    <3>2. jobs'[j].ck[r].count \in {jobs[k].ck[r].count, 0}
      BY <2>2, <3>1 DEF Seed, Blank, Progress
    <3> QED
      BY <3>1, <3>2, BoundsAssumption
  <2> QED
    BY <1>4, <2>1, <2>2 DEF Opened
<1>5. ASSUME NEW w \in Worker, Effect(w), ~Created(j) PROVE jobs'[j].ck = jobs[j].ck
  <2>1. Owns(w) => workers[w].job # j
    BY <1>5 DEF Owns, Created
  <2>2. ~Active(j)
    BY <1>5 DEF Active, Created
  <2> QED
    BY <1>5, <2>1, <2>2 DEF Effect, Moved, Left, Stored, Wrote, Claimed, Ended, OtherRows
<1> QED
  BY <1>2, <1>3, <1>4, <1>5, StepEffect DEF Ended, Quiet, Opened, OtherRows

\* Evidence stays at the pin: a repository is pinned before its first batch is written and
\* never pinned again in the same job.
LEMMA PinStep ==
  ASSUME IInv, [Next]_vars
  PROVE  EvidenceAtPin'
<1> USE DEF IInv
<1> SUFFICES ASSUME NEW j \in Job, NEW r \in Repo, NEW b \in 1..Batches,
                    evidence'[r][b].job = j, evidence'[r][b].rev # NoRev
             PROVE  evidence'[r][b].rev = jobs'[j].ck[r].rev
  BY DEF EvidenceAtPin
<1>1. CASE evidence'[r][b] = evidence[r][b]
  <2>1. Created(j)
    BY <1>1 DEF Fenced, Job, NoJob
  <2>2. evidence[r][b].rev = jobs[j].ck[r].rev
    BY <1>1 DEF EvidenceAtPin
  <2> QED
    BY <1>1, <2>1, <2>2, Growth DEF Onward
<1>2. ASSUME NEW w \in Worker, Wrote(w), evidence'[r][b] # evidence[r][b]
      PROVE  evidence'[r][b].rev = jobs'[j].ck[r].rev
  <2> DEFINE me == workers[w]
  <2>1. PICK c \in 1..Batches, rev \in {NoRev, me.saved[me.repo].rev} :
           evidence' = [evidence EXCEPT ![me.repo][c] =
                           [job |-> me.job, gen |-> me.gen, rev |-> rev]]
    BY <1>2 DEF Wrote
  <2>2. me.repo = r /\ evidence'[r][b] = [job |-> me.job, gen |-> me.gen, rev |-> rev]
    BY <1>2, <2>1 DEF TypeOK
  <2>3. UNCHANGED jobs /\ me.saved = jobs[me.job].ck
    BY <1>2, OwnerFacts DEF Wrote
  <2> QED
    BY <2>1, <2>2, <2>3
<1> QED
  BY <1>1, <1>2, EvidenceChange

\* A repository recorded complete has all its batches: they were written one after the other
\* by the container that records it, and none has been overwritten since.
LEMMA CompleteStep ==
  ASSUME IInv, [Next]_vars
  PROVE  CompleteIsStored'
<1> USE DEF IInv
<1> SUFFICES ASSUME NEW j \in Job, NEW r \in Repo, Latest(j)',
                    jobs'[j].ck[r].result = "complete", NEW b \in 1..Batches
             PROVE  /\ evidence'[r][b].rev = jobs'[j].ck[r].rev
                    /\ jobs'[j].ck[r].kept \/ evidence'[r][b].job = j
  BY DEF CompleteIsStored
<1> DEFINE Goal == /\ evidence'[r][b].rev = jobs'[j].ck[r].rev
                   /\ jobs'[j].ck[r].kept \/ evidence'[r][b].job = j
\* The result was there, of the latest job, and nothing of it changes.
<1>a. ASSUME Latest(j), jobs[j].ck[r].result = "complete", evidence'[r][b] = evidence[r][b],
             jobs'[j].ck[r].rev = jobs[j].ck[r].rev, jobs'[j].ck[r].kept = jobs[j].ck[r].kept
      PROVE  Goal
  BY <1>a DEF CompleteIsStored
<1>b. ASSUME UNCHANGED evidence, jobs'[j].ck = jobs[j].ck,
             \A k \in Job : Created(k)' <=> Created(k)
      PROVE  Goal
  BY <1>a, <1>b DEF Latest
<1>1. ASSUME NEW w \in Worker, Effect(w) PROVE Goal
  <2>1. CASE Moved(w)
    BY <1>b, <2>1 DEF Moved, Created
  <2>2. CASE Left(w)
    <3>1. jobs'[j].ck = jobs[j].ck /\ \A k \in Job : Created(k)' <=> Created(k)
      BY <2>2, OwnerFacts DEF Left, OtherRows, Created, Active
    <3> QED
      BY <1>b, <2>2, <3>1 DEF Left
  <2>3. CASE Stored(w)
    <3>1. \A k \in Job : Created(k)' <=> Created(k)
      BY <2>3, OwnerFacts DEF Stored, OtherRows, Created, Active
    <3>2. CASE j # workers[w].job
      BY <1>b, <2>3, <3>1, <3>2 DEF Stored, OtherRows
    <3>3. CASE j = workers[w].job /\ jobs[j].ck[r].result = "complete"
      <4>1. Onward(jobs[j].ck[r], jobs'[j].ck[r]) /\ UNCHANGED evidence
               /\ jobs'[j].ck[r].rev = jobs[j].ck[r].rev
        BY <2>3, <3>3 DEF Stored
      <4>2. Latest(j)
        BY <3>1 DEF Latest
      <4> QED
        BY <1>a, <3>3, <4>1, <4>2 DEF Onward
    <3>4. CASE /\ j = workers[w].job /\ workers[w].pc = "recordResult" /\ r = workers[w].repo
               /\ jobs'[j].ck[r].rev = jobs[j].ck[r].rev
      <4>1. evidence[r][b] = [job |-> j, gen |-> workers[w].gen, rev |-> workers[w].saved[r].rev]
        BY <2>3, <3>4 DEF WrittenSoFar, Stored
      <4>2. workers[w].saved = jobs[j].ck
        BY <2>3, <3>4, OwnerFacts DEF Stored
      <4>3. evidence'[r][b] = evidence[r][b]
        BY <2>3 DEF Stored
      <4>4. evidence[r][b].rev = jobs[j].ck[r].rev /\ evidence[r][b].job = j
        BY <4>1, <4>2
      <4> HIDE DEF IInv
      <4> QED
        BY <3>4, <4>3, <4>4
    <3> QED
      BY <2>3, <3>2, <3>3, <3>4 DEF Stored
  <2>4. CASE Wrote(w)
    <3>1. Latest(j) /\ UNCHANGED jobs
      BY <2>4 DEF Wrote, Latest, Created
    <3>2. j = workers[w].job
      BY <2>4, <3>1, OwnerFacts, OneLatest DEF Wrote
    <3>3. r # workers[w].repo
      BY <2>4, <3>1, <3>2, OwnerFacts DEF Wrote
    <3>4. evidence'[r][b] = evidence[r][b]
      BY <2>4, <3>3 DEF Wrote, TypeOK
    <3> QED
      BY <1>a, <3>1, <3>4
  <2>5. ASSUME NEW k \in Job, Claimed(w, k) PROVE Goal
    <3>1. jobs'[j].ck = jobs[j].ck /\ \A i \in Job : Created(i)' <=> Created(i)
      BY <2>5 DEF Claimed, OtherRows, Created, Active
    <3> QED
      BY <1>b, <2>5, <3>1 DEF Claimed
  <2>6. CASE Ended
    <3>1. jobs'[j].ck = jobs[j].ck /\ \A k \in Job : Created(k)' <=> Created(k)
      BY <2>6 DEF Ended, Created, Active
    <3> QED
      BY <1>b, <2>6, <3>1 DEF Ended
  <2> QED
    BY <1>1, <2>1, <2>2, <2>3, <2>4, <2>5, <2>6 DEF Effect
<1>2. CASE Ended
  <2>1. jobs'[j].ck = jobs[j].ck /\ \A k \in Job : Created(k)' <=> Created(k)
    BY <1>2 DEF Ended, Created, Active
  <2> QED
    BY <1>b, <1>2, <2>1 DEF Ended
\* A new job knows of complete results only what it keeps of the job before it.
<1>3. ASSUME NEW k \in Job, Opened(k) PROVE Goal
  <2>1. Created(k)' /\ \A i \in Job : i # k => (Created(i)' <=> Created(i))
    BY <1>3 DEF Opened, OtherRows, Created
  <2>2. \A i \in Job : i > k => ~Created(i)
    BY <1>3 DEF Opened, Ordered
  <2>3. j = k
    BY <2>1, <2>2 DEF Latest, Job
  <2>4. jobs'[j].ck # Blank
    BY DEF Blank
  <2>5. PICK i \in Job : Latest(i) /\ jobs'[j].ck = Seed(jobs[i].ck)
    BY <1>3, <2>3, <2>4 DEF Opened
  <2>6. jobs[i].ck[r] \in Progress
    BY DEF TypeOK, Row, Checkpoint
  <2>7. /\ jobs[i].ck[r].result = "complete"
        /\ jobs'[j].ck[r] = [jobs[i].ck[r] EXCEPT !.kept = TRUE]
    BY <2>5 DEF Seed, Blank
  <2>8. jobs'[j].ck[r].rev = jobs[i].ck[r].rev /\ jobs'[j].ck[r].kept = TRUE
    BY <2>6, <2>7 DEF Progress
  <2>9. evidence[r][b].rev = jobs[i].ck[r].rev
    BY <2>5, <2>7 DEF CompleteIsStored
  <2> QED
    BY <1>3, <2>8, <2>9 DEF Opened
<1>4. CASE Quiet
  BY <1>b, <1>4 DEF Quiet, Created
<1> QED
  BY <1>1, <1>2, <1>3, <1>4, StepEffect

\* A job succeeds when the container that finishes it has a result for every repository.
LEMMA SuccessStep ==
  ASSUME IInv, [Next]_vars
  PROVE  SuccessIsTotal'
<1> USE DEF IInv
<1> SUFFICES ASSUME NEW j \in Job, jobs'[j].state = "succeeded"
             PROVE  Finished(jobs'[j].ck) = Repo
  BY DEF SuccessIsTotal
<1>1. CASE jobs[j].state = "succeeded" /\ jobs'[j].ck = jobs[j].ck
  BY <1>1 DEF SuccessIsTotal
<1>2. ASSUME NEW w \in Worker, Effect(w) PROVE Finished(jobs'[j].ck) = Repo
  <2>1. CASE Left(w) /\ j = workers[w].job /\ jobs[j].state # "succeeded"
    <3>1. workers[w].pc = "finish" /\ jobs'[j].ck = jobs[j].ck /\ Owns(w)
      BY <2>1 DEF Left
    <3>2. \A r \in Repo : jobs[j].ck[r].result # "none"
      BY <2>1, <3>1, OwnerFacts DEF AllSelfAware, SelfAware
    <3> QED
      BY <3>1, <3>2 DEF Finished
  <2>2. CASE jobs[j].state = "succeeded"
    <3>1. ~Active(j)
      BY <2>2 DEF Active
    <3>2. jobs'[j].ck = jobs[j].ck
      BY <1>2, <3>1, OwnerFacts DEF Effect, Moved, Left, Stored, Wrote, Claimed, Ended, OtherRows
    <3> QED
      BY <1>1, <2>2, <3>2
  <2> QED
    BY <1>2, <2>1, <2>2 DEF Effect, Moved, Left, Stored, Wrote, Claimed, Ended, OtherRows
<1>3. CASE Ended \/ Quiet
  BY <1>1, <1>3 DEF Ended, Quiet, Active
<1>4. ASSUME NEW k \in Job, Opened(k) PROVE Finished(jobs'[j].ck) = Repo
  BY <1>1, <1>4 DEF Opened, OtherRows
<1> QED
  BY <1>2, <1>3, <1>4, StepEffect

\* The initial state satisfies the inductive invariant.
LEMMA InitInv == Init => IInv
<1> SUFFICES ASSUME Init PROVE IInv
  OBVIOUS
<1>1. TypeOK
  <2>1. jobs \in [Job -> Row] /\ workers \in [Worker -> Container]
    BY NewCheckpoints, RowUpdates, OffTypes DEF Init
  <2>2. head \in [Repo -> Revision]
    BY BoundsAssumption DEF Init, Revision
  <2>3. evidence \in [Repo -> [1..Batches -> Stamp]]
    BY DEF Init, Stamp
  <2> QED
    BY <2>1, <2>2, <2>3 DEF Init, TypeOK, Off
<1>2. AllSelfAware /\ SavedIsStored /\ WrittenSoFar
  BY DEF Init, AllSelfAware, SelfAware, Busy, SavedIsStored, WrittenSoFar, Owns, Off
<1>3. Ordered /\ Fenced
  BY DEF Init, Ordered, Fenced, Created, Active, Off
<1>4. EvidenceAtPin /\ CompleteIsStored /\ SuccessIsTotal
  BY DEF Init, EvidenceAtPin, CompleteIsStored, SuccessIsTotal, Latest, Created, Job, NoJob
<1>5. InterruptionsBounded
  BY BoundsAssumption DEF Init, InterruptionsBounded, Blank
<1> QED
  BY <1>1, <1>2, <1>3, <1>4, <1>5 DEF IInv

-----------------------------------------------------------------------------
\* The inductive invariant: the generation of fence() and assert_current() is all that keeps
\* containers which outlived their claim from the rows and the evidence.
THEOREM Invariance == Spec => []IInv
<1>1. IInv /\ [Next]_vars => IInv'
  BY StepEffect, OrderedStep, FencedStep, SavedStep, WrittenStep, PinStep, CompleteStep,
     SuccessStep, InterruptionStep DEF IInv
<1> QED
  BY <1>1, InitInv, PTL DEF Spec

\* The rows, the evidence and the containers keep their types.
THEOREM TypeCorrect == Spec => []TypeOK
<1>1. IInv => TypeOK
  BY DEF IInv
<1> QED
  BY <1>1, Invariance, PTL

\* A job writes each repository at one commit, the one its stored checkpoint pins, over all
\* its slices and retries.
THEOREM EvidencePinned == Spec => []EvidenceAtPin
<1>1. IInv => EvidenceAtPin
  BY DEF IInv
<1> QED
  BY <1>1, Invariance, PTL

\* A complete result of the latest job, own or kept by a retry, is all there at its pin.
THEOREM CompleteStored == Spec => []CompleteIsStored
<1>1. IInv => CompleteIsStored
  BY DEF IInv
<1> QED
  BY <1>1, Invariance, PTL

\* A job that succeeded has a result of every selected repository.
THEOREM SuccessTotal == Spec => []SuccessIsTotal
<1>1. IInv => SuccessIsTotal
  BY DEF IInv
<1> QED
  BY <1>1, Invariance, PTL

\* No batch is overwritten by an older job or generation, however late its container is.
THEOREM EvidenceMovesForward == Spec => EvidenceForward
<1> DEFINE A == \A r \in Repo, b \in 1..Batches :
          LET old == evidence[r][b]
              new == evidence'[r][b] IN
          old.job < new.job \/ (old.job = new.job /\ old.gen <= new.gen)
<1>1. IInv /\ [Next]_vars => A
  <2> SUFFICES ASSUME IInv, [Next]_vars, NEW r \in Repo, NEW b \in 1..Batches
               PROVE  \/ evidence[r][b].job < evidence'[r][b].job
                      \/ /\ evidence[r][b].job = evidence'[r][b].job
                         /\ evidence[r][b].gen <= evidence'[r][b].gen
    OBVIOUS
  <2>1. evidence[r][b].job \in Job \cup {NoJob} /\ evidence[r][b].gen \in Nat
    BY DEF IInv, TypeOK, Stamp
  <2>2. CASE evidence'[r][b] = evidence[r][b]
    BY <2>1, <2>2 DEF Job, NoJob
  <2>3. ASSUME NEW w \in Worker, Wrote(w), evidence'[r][b] # evidence[r][b]
        PROVE  \/ evidence[r][b].job < evidence'[r][b].job
               \/ /\ evidence[r][b].job = evidence'[r][b].job
                  /\ evidence[r][b].gen <= evidence'[r][b].gen
    <3>1. /\ evidence'[r][b].job = workers[w].job /\ evidence'[r][b].gen = workers[w].gen
          /\ Owns(w)
      BY <2>3 DEF Wrote, IInv, TypeOK
    <3>2. /\ workers[w].job \in Job /\ Latest(workers[w].job) /\ Active(workers[w].job)
          /\ jobs[workers[w].job].gen = workers[w].gen
      BY <3>1, OwnerFacts DEF Owns
    <3>3. evidence[r][b].job # NoJob => Created(evidence[r][b].job)
              /\ (evidence[r][b].job = workers[w].job => evidence[r][b].gen <= workers[w].gen)
      BY <3>2 DEF IInv, Fenced
    <3>4. evidence[r][b].job <= workers[w].job
      BY <2>1, <3>2, <3>3 DEF Latest, Job, NoJob
    <3> QED
      BY <2>1, <3>1, <3>2, <3>3, <3>4 DEF Job, NoJob
  <2> QED
    BY <2>2, <2>3, EvidenceChange
<1> QED
  BY <1>1, Invariance, PTL DEF Spec, EvidenceForward

\* A repository is given up after its allowed interruptions, however its job is sliced: the
\* count lives in the checkpoint and no lost claim, pause or retry sets it back.
THEOREM InterruptionsLimited == Spec => []InterruptionsBounded
<1>1. IInv => InterruptionsBounded
  BY DEF IInv
<1> QED
  BY <1>1, Invariance, PTL

\* What a job has achieved is never lost: a container that works with an old checkpoint is
\* turned away by fence(), so no save takes back a pin, an interruption or a result.
THEOREM NoProgressLost == Spec => CheckpointsGrow
<1> DEFINE A == \A j \in Job, r \in Repo : Created(j) => Onward(jobs[j].ck[r], jobs'[j].ck[r])
<1>1. IInv /\ [Next]_vars => A
  BY Growth
<1> QED
  BY <1>1, Invariance, PTL DEF Spec, CheckpointsGrow

\* A job that has ended keeps its state and its checkpoint: claims, completions, deferrals and
\* the reconciler all ask for an active row.
THEOREM EndIsFinal == Spec => EndedStaysEnded
<1> DEFINE A == \A j \in Job : jobs[j].state \in {"succeeded", "failed"} =>
          jobs'[j].state = jobs[j].state /\ jobs'[j].ck = jobs[j].ck
<1>1. IInv /\ [Next]_vars => A
  <2> SUFFICES ASSUME IInv, [Next]_vars, NEW j \in Job, jobs[j].state \in {"succeeded", "failed"}
               PROVE  jobs'[j].state = jobs[j].state /\ jobs'[j].ck = jobs[j].ck
    OBVIOUS
  <2>1. ~Active(j) /\ Created(j) /\ \A w \in Worker : Owns(w) => workers[w].job # j
    BY DEF Active, Created, Owns
  <2>2. ASSUME NEW w \in Worker, Effect(w) PROVE jobs'[j] = jobs[j]
    BY <2>1, <2>2 DEF Effect, Moved, Left, Stored, Wrote, Claimed, Ended, OtherRows
  <2> QED
    BY <2>1, <2>2, StepEffect DEF Ended, Quiet, Opened, OtherRows
<1> QED
  BY <1>1, Invariance, PTL DEF Spec, EndedStaysEnded

=============================================================================
