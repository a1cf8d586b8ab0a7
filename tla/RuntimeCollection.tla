------------------------- MODULE RuntimeCollection -------------------------
(***************************************************************************)
(* The scheduled collection of agent runtime telemetry of one AWS or Azure *)
(* connection that is active, healthy and opted in.  Every few minutes a   *)
(* Modal schedule queues a durable job; its container reads a window of    *)
(* spans from every Region (AWS) or subscription (Azure) and ends with a   *)
(* result that may move the cursor, from which the next window starts.     *)
(*                                                                         *)
(* The job row and its containers are those of ConnectionJobs, with the    *)
(* dispatch reduced to what matters here: a container starts or not, the   *)
(* row fails or not, the dispatcher may stop.  Kept in full are the guard  *)
(* of the schedule, the window, the cursor and what a scope reports.       *)
(*                                                                         *)
(* Time: deadlines are what is left of them, instants are their age, both  *)
(* in ticks.  An age is not counted beyond Horizon, where it is older than *)
(* anything a window can reach.                                            *)
(***************************************************************************)
EXTENDS Naturals

CONSTANTS
    Event,          \* spans that the customer's agents emit
    Scopes,         \* Regions or subscriptions, read in the order 1, 2, ...
    Worker,         \* Modal containers
    NoCursor,       \* no run has been safe yet
    Interval,       \* least time between two scheduled jobs (5 minutes)
    Lookback,       \* the window when there is no cursor (30 minutes)
    Overlap,        \* how far a window reaches back before the cursor (5 minutes)
    MaxCatchup,     \* the longest window (24 hours)
    MaxDelay,       \* longest time until the provider can return a span
    QueueTTL,       \* 30 minutes: a queued row older than this is stale
    WorkerTimeout,  \* hard timeout of a container
    WorkerLease,    \* lease of a claimed row
    MaxAttempts     \* attempts of a job

ASSUME WindowAssumption ==
    /\ Interval \in Nat /\ Lookback \in Nat /\ Overlap \in Nat /\ MaxCatchup \in Nat
    /\ Lookback <= MaxCatchup
    /\ MaxDelay \in Nat /\ MaxDelay <= Overlap
ASSUME LimitAssumption ==
    /\ Scopes \in Nat \ {0} /\ QueueTTL \in Nat /\ MaxAttempts \in Nat \ {0}
    /\ WorkerTimeout \in Nat /\ WorkerLease \in Nat /\ WorkerTimeout < WorkerLease
ASSUME CursorAssumption == NoCursor \notin Nat

VARIABLES
    provider,  \* of the connection: "aws" or "azure"
    job,       \* the active connection_collection_job row, if there is one
    since,     \* age of the newest row
    cursor,    \* age of the newest window end of a safe run, read from the rows
    workers,   \* the containers
    events,    \* the spans and what became of them
    calm       \* no fault happens any more (not in the program)

vars == <<provider, job, since, cursor, workers, events, calm>>

-----------------------------------------------------------------------------
Horizon == MaxCatchup + WorkerTimeout + 1

\* `dispatcher': whoever created the row has still to start a container ("spawn"), or
\* to record the call id of the one it started ("record").
Row == [state      : {"none", "queued", "running"},
        attempts   : 0 .. MaxAttempts,
        lease      : 0 .. WorkerLease,
        ttl        : 0 .. QueueTTL,
        dispatcher : {"done", "spawn", "record"}]

NoRow == [state |-> "none", attempts |-> 0, lease |-> 0, ttl |-> 0, dispatcher |-> "done"]

QueuedRow == [NoRow EXCEPT !.state = "queued", !.ttl = QueueTTL, !.dispatcher = "spawn"]

\* `own': the row the container was started for is still the active one.  A window
\* is `start' to `end'; `clean': every scope read so far was complete.
Container == [pc     : {"off", "started", "claimed", "reading", "finishing", "failing"},
              own    : BOOLEAN,
              budget : 0 .. WorkerTimeout,
              scope  : 1 .. Scopes,
              start  : 0 .. Horizon,
              end    : 0 .. Horizon,
              capped : BOOLEAN,
              clean  : BOOLEAN]

Off == [pc |-> "off", own |-> FALSE, budget |-> 0, scope |-> 1, start |-> 0, end |-> 0,
        capped |-> FALSE, clean |-> FALSE]

\* A span is emitted (hidden), can be read (visible), and is stored, or it is older
\* than the window of a run that reported so (gap), or than that of the first safe run
\* (before).  The last two are histories.
Span == [state : {"none", "hidden", "visible", "stored", "gap", "before"},
         age   : 0 .. Horizon,
         scope : 1 .. Scopes]

Unborn == [state |-> "none", age |-> 0, scope |-> 1]

TypeOK ==
    /\ provider \in {"aws", "azure"}
    /\ job \in Row
    /\ since \in 0 .. Interval
    /\ cursor \in (0 .. Horizon) \cup {NoCursor}
    /\ workers \in [Worker -> Container]
    /\ events \in [Event -> Span]
    /\ calm \in BOOLEAN

Init ==
    /\ provider \in {"aws", "azure"}
    /\ job = NoRow
    /\ since = Interval
    /\ cursor = NoCursor
    /\ workers = [w \in Worker |-> Off]
    /\ events = [e \in Event |-> Unborn]
    /\ calm = FALSE

-----------------------------------------------------------------------------
Fault == ~calm /\ UNCHANGED calm

Stale == \/ job.state = "running" /\ job.lease = 0
         \/ job.state = "queued" /\ job.ttl = 0

\* The active row becomes terminal or is replaced: no container is of the active row
\* any more, except as W says.
Disowned(W) == [w \in Worker |-> [W[w] EXCEPT !.own = FALSE]]

\* A queued row and its dispatcher, in the place of an older row.
Create ==
    /\ job' = QueuedRow
    /\ since' = 0
    /\ workers' = Disowned(workers)

\* The schedule selects the connection: no active row, not even a stale one, and the
\* newest row is old enough.
Schedule ==
    /\ job.state = "none"
    /\ since = Interval
    /\ Create
    /\ UNCHANGED <<provider, cursor, events, calm>>

\* An administrator asks for a collection: a stale row fails first, a live one is kept.
Request ==
    /\ job.state = "none" \/ Stale
    /\ Create
    /\ UNCHANGED <<provider, cursor, events, calm>>

Spawn(w) ==
    /\ job.dispatcher = "spawn"
    /\ workers[w].pc = "off"
    /\ workers' = [workers EXCEPT ![w] =
          [Off EXCEPT !.pc = "started", !.own = TRUE, !.budget = WorkerTimeout]]
    /\ job' = [job EXCEPT !.dispatcher = "record"]
    /\ UNCHANGED <<provider, since, cursor, events, calm>>

Acknowledge ==
    /\ job.dispatcher = "record"
    /\ job' = [job EXCEPT !.dispatcher = "done"]
    /\ UNCHANGED <<provider, since, cursor, workers, events, calm>>

\* The dispatch raises: the row fails, although a container may have it.
FailDispatch ==
    /\ job.dispatcher # "done"
    /\ Fault
    /\ job' = NoRow
    /\ workers' = Disowned(workers)
    /\ UNCHANGED <<provider, since, cursor, events>>

\* The dispatcher's own container is lost before it has started one.
LoseDispatcher ==
    /\ job.dispatcher = "spawn"
    /\ Fault
    /\ job' = [job EXCEPT !.dispatcher = "done"]
    /\ UNCHANGED <<provider, since, cursor, workers, events>>

\* Mutant of Poll: only the lease of a running row is looked at.
PollRunning ==
    /\ job.state = "running" /\ job.lease = 0
    /\ job' = NoRow
    /\ workers' = Disowned(workers)
    /\ UNCHANGED <<provider, since, cursor, events, calm>>

\* A client reads the status, and a stale row fails.
Poll ==
    /\ Stale
    /\ job' = NoRow
    /\ workers' = Disowned(workers)
    /\ UNCHANGED <<provider, since, cursor, events, calm>>

-----------------------------------------------------------------------------
\* The container claims its row, or finds nothing to claim and returns.
Claim(w) ==
    /\ workers[w].pc = "started"
    /\ IF workers[w].own /\ (job.state = "queued" \/ (job.state = "running" /\ job.lease = 0))
       THEN /\ job' = [job EXCEPT !.state = "running", !.attempts = @ + 1, !.lease = WorkerLease]
            /\ workers' = [workers EXCEPT ![w].pc = "claimed"]
       ELSE /\ workers' = [workers EXCEPT ![w] = Off]
            /\ UNCHANGED job
    /\ UNCHANGED <<provider, since, cursor, events, calm>>

\* How old a window wants to begin, before the 24-hour floor.
Desired ==
    IF cursor = NoCursor \/ cursor + Overlap <= Lookback THEN Lookback ELSE cursor + Overlap

\* Mutant of Window: a window begins at the cursor.
WindowWithoutOverlap(w) ==
    /\ workers[w].pc = "claimed"
    /\ LET desired == IF cursor = NoCursor THEN Lookback ELSE cursor
           capped  == cursor # NoCursor /\ desired > MaxCatchup
       IN workers' = [workers EXCEPT ![w] =
             [@ EXCEPT !.pc = "reading", !.scope = 1, !.capped = capped, !.clean = TRUE,
                       !.start = IF capped THEN MaxCatchup ELSE desired, !.end = 0]]
    /\ UNCHANGED <<provider, job, since, cursor, events, calm>>

\* The window of a run ends now.
Window(w) ==
    /\ workers[w].pc = "claimed"
    /\ LET capped == Desired > MaxCatchup
       IN workers' = [workers EXCEPT ![w] =
             [@ EXCEPT !.pc = "reading", !.scope = 1, !.capped = capped, !.clean = TRUE,
                       !.start = IF capped THEN MaxCatchup ELSE Desired, !.end = 0]]
    /\ UNCHANGED <<provider, job, since, cursor, events, calm>>

\* The readable spans of the scope in the window, spans outside it not yet stored, and
\* what a read of E stores and, if the run is capped, reports as a gap.
InWindow(w, e) ==
    /\ events[e].state = "visible" /\ events[e].scope = workers[w].scope
    /\ workers[w].end <= events[e].age /\ events[e].age <= workers[w].start

TooOld(w, e) ==
    events[e].state \in {"hidden", "visible"} /\ workers[w].start < events[e].age

Ingested(w, E) ==
    [e \in Event |->
        IF e \in E THEN [Unborn EXCEPT !.state = "stored"]
        ELSE IF workers[w].capped /\ events[e].scope = workers[w].scope /\ TooOld(w, e)
        THEN [Unborn EXCEPT !.state = "gap"]
        ELSE events[e]]

\* After the last scope the run is over.
NextScope(w, clean) ==
    workers' = [workers EXCEPT ![w] =
        IF workers[w].scope < Scopes
        THEN [workers[w] EXCEPT !.scope = workers[w].scope + 1, !.clean = clean]
        ELSE [workers[w] EXCEPT !.pc = "finishing", !.scope = 1, !.clean = clean]]

\* A scope is read in full, and ingested with its coverage in one transaction.
ReadScope(w) ==
    /\ workers[w].pc = "reading"
    /\ events' = Ingested(w, {e \in Event : InWindow(w, e)})
    /\ NextScope(w, workers[w].clean)
    /\ UNCHANGED <<provider, job, since, cursor, calm>>

\* Mutant of ReadPart: the last scope alone decides whether the run was clean.
ReadPartForgotten(w) ==
    /\ workers[w].pc = "reading"
    /\ Fault
    /\ \E E \in SUBSET {e \in Event : InWindow(w, e)} : events' = Ingested(w, E)
    /\ NextScope(w, workers[w].scope < Scopes)
    /\ UNCHANGED <<provider, job, since, cursor>>

\* A limit, an invalid page, a denied or failed call: the scope is partial or failed.
ReadPart(w) ==
    /\ workers[w].pc = "reading"
    /\ Fault
    /\ \E E \in SUBSET {e \in Event : InWindow(w, e)} : events' = Ingested(w, E)
    /\ NextScope(w, FALSE)
    /\ UNCHANGED <<provider, job, since, cursor>>

\* Mutant of Safe: a capped AWS run is not safe either.
SafeUncapped(w) == workers[w].clean /\ ~workers[w].capped

\* cursor_advance_safe of the result.  In the Azure collector the branch of a capped
\* run comes before the one that sets it.
Safe(w) == workers[w].clean /\ (provider = "azure" => ~workers[w].capped)

\* The row succeeds, and with it the window end of a safe run counts for the cursor.
Complete(w) ==
    /\ workers[w].pc = "finishing"
    /\ LET done == workers[w].own /\ job.state = "running"
           safe == done /\ Safe(w)
       IN /\ job' = IF done THEN NoRow ELSE job
          /\ workers' = IF done THEN Disowned([workers EXCEPT ![w] = Off])
                        ELSE [workers EXCEPT ![w] = Off]
          /\ cursor' = IF safe /\ (cursor = NoCursor \/ workers[w].end < cursor)
                       THEN workers[w].end ELSE cursor
          /\ events' = [e \in Event |-> IF safe /\ cursor = NoCursor /\ TooOld(w, e)
                                        THEN [Unborn EXCEPT !.state = "before"] ELSE events[e]]
    /\ UNCHANGED <<provider, since, calm>>

\* The session, the configuration, the database or the evaluation that follows raises.
Raise(w) ==
    /\ workers[w].pc \in {"claimed", "reading", "finishing"}
    /\ Fault
    /\ workers' = [workers EXCEPT ![w] =
          [Off EXCEPT !.pc = "failing", !.own = workers[w].own, !.budget = workers[w].budget]]
    /\ UNCHANGED <<provider, job, since, cursor, events>>

\* The row is queued again for this container's next attempt, or fails.
Fail(w) ==
    /\ workers[w].pc = "failing"
    /\ IF ~workers[w].own \/ job.state # "running"
       THEN workers' = [workers EXCEPT ![w] = Off] /\ UNCHANGED job
       ELSE IF job.attempts < MaxAttempts
       THEN /\ job' = [job EXCEPT !.state = "queued", !.lease = 0]
            /\ workers' = [workers EXCEPT ![w].pc = "started"]
       ELSE /\ job' = NoRow
            /\ workers' = Disowned([workers EXCEPT ![w] = Off])
    /\ UNCHANGED <<provider, since, cursor, events, calm>>

\* A container is lost or killed at its hard timeout.
Stop(w) ==
    /\ workers[w].pc # "off"
    /\ Fault
    /\ workers' = [workers EXCEPT ![w] = Off]
    /\ UNCHANGED <<provider, job, since, cursor, events>>

-----------------------------------------------------------------------------
\* An agent emits a span; after a while the provider can return it.
Emit(e) ==
    /\ events[e].state = "none"
    /\ \E s \in 1 .. Scopes :
          events' = [events EXCEPT ![e] = [state |-> "hidden", age |-> 0, scope |-> s]]
    /\ UNCHANGED <<provider, job, since, cursor, workers, calm>>

Appear(e) ==
    /\ events[e].state = "hidden"
    /\ events' = [events EXCEPT ![e].state = "visible"]
    /\ UNCHANGED <<provider, job, since, cursor, workers, calm>>

\* From now on nothing fails.
Calm ==
    /\ ~calm
    /\ calm' = TRUE
    /\ UNCHANGED <<provider, job, since, cursor, workers, events>>

Dec(n) == IF n = 0 THEN 0 ELSE n - 1

\* Mutant of Older: ages are counted without end.
OlderForever(n, most) == n + 1

Older(n, most) == IF n < most THEN n + 1 ELSE n

\* One tick.  No container lives past its timeout, no span is hidden past MaxDelay.
Tick ==
    /\ \A w \in Worker : workers[w].pc # "off" => workers[w].budget > 0
    /\ \A e \in Event : events[e].state = "hidden" => events[e].age < MaxDelay
    /\ job' = [job EXCEPT !.lease = Dec(@), !.ttl = Dec(@)]
    /\ since' = Older(since, Interval)
    /\ cursor' = IF cursor = NoCursor THEN cursor ELSE Older(cursor, Horizon)
    /\ workers' = [w \in Worker |->
          IF workers[w].pc \in {"reading", "finishing"}
          THEN [workers[w] EXCEPT !.budget = Dec(@), !.start = Older(@, Horizon),
                                  !.end = Older(@, Horizon)]
          ELSE [workers[w] EXCEPT !.budget = Dec(@)]]
    /\ events' = [e \in Event |-> IF events[e].state \in {"hidden", "visible"}
                                  THEN [events[e] EXCEPT !.age = Older(@, Horizon)]
                                  ELSE events[e]]
    /\ UNCHANGED <<provider, calm>>

WorkerStep(w) ==
    \/ Claim(w) \/ Window(w) \/ ReadScope(w) \/ Complete(w) \/ Fail(w)

Next ==
    \/ Schedule \/ Request \/ Acknowledge \/ FailDispatch \/ LoseDispatcher \/ Poll
    \/ \E w \in Worker : Spawn(w) \/ WorkerStep(w) \/ ReadPart(w) \/ Raise(w) \/ Stop(w)
    \/ \E e \in Event : Emit(e) \/ Appear(e)
    \/ Calm \/ Tick

Spec == Init /\ [][Next]_vars

\* The schedule runs, dispatchers and containers make progress, time passes; faults are
\* finitely many.  The strong fairness says that a dispatch and a claim, which take
\* seconds, are not every time later than the 30 minutes of the row.  A client that polls
\* the status does so while a row is stale: without it a row that a scheduler lost between
\* the insert and the dispatch stops the schedule for ever.
Watched ==
    /\ Spec
    /\ WF_vars(Calm) /\ WF_vars(Tick) /\ WF_vars(Schedule) /\ WF_vars(Acknowledge)
    /\ SF_vars(\E w \in Worker : Spawn(w))
    /\ SF_vars(\E w \in Worker : Claim(w) /\ job' # job)
    /\ \A w \in Worker : WF_vars(WorkerStep(w))
    /\ \A e \in Event : WF_vars(Appear(e))
    /\ WF_vars(Poll)

-----------------------------------------------------------------------------
\* No span is lost without a word: one that the next window cannot reach any more,
\* because it is behind the cursor by more than the overlap, is stored, or a capped run
\* reported the gap it is in, or it is older than the first safe window.
NothingBehindCursor ==
    \A e \in Event :
        /\ events[e].state \in {"hidden", "visible"}
        /\ cursor # NoCursor
        => events[e].age <= cursor + Overlap

\* Every span is in the end stored or accounted for.
SpansSettle ==
    \A e \in Event :
        events[e].state = "hidden" ~> events[e].state \in {"stored", "gap", "before"}

Fresh == cursor # NoCursor /\ cursor <= WorkerTimeout

\* The AWS cursor catches up again and again, however long an outage was: a capped run
\* reports the gap and then moves the cursor.
AwsCursorAdvances == provider = "aws" => []<>Fresh

\* The same of Azure ("later runs resume from the last cursor-safe durable job").
AzureCursorAdvances == provider = "azure" => []<>Fresh

=============================================================================
