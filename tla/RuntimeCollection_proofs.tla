---------------------- MODULE RuntimeCollection_proofs ----------------------
(***************************************************************************)
(* No span is lost without a word, for every number of spans, scopes and   *)
(* containers and every setting of the windows, and types.                 *)
(*                                                                         *)
(* NothingBehindCursor is not inductive.  When a run completes, the cursor *)
(* jumps to the end of its window, and what is pending then was settled    *)
(* long before: a scope that was read in full leaves nothing behind but    *)
(* what is within the overlap, or older than the window                    *)
(* (CleanReadLeavesNothing); an uncapped window of the active row reaches  *)
(* back to all that is pending, if there was a cursor (OwnWindowReaches),  *)
(* which is so because no other container can move the cursor meanwhile    *)
(* (OneOwner); and a span that no read can see yet is within the overlap   *)
(* (HiddenIsYoung).  Ages are counted up to a horizon, that no window of a *)
(* living container gets to (WindowAges).                                  *)
(***************************************************************************)
EXTENDS RuntimeCollection, TLAPS

\* The span is still to be stored or accounted for.
Pending(e) == events[e].state \in {"hidden", "visible"}

\* The container has chosen its window.
Working(w) == workers[w].pc \in {"reading", "finishing"}

\* The scope of the span is behind the container.
HasRead(w, e) ==
    \/ workers[w].pc = "finishing"
    \/ workers[w].pc = "reading" /\ events[e].scope < workers[w].scope

\* A container that has still to start or to claim has a row it can claim, and a row whose
\* container has still to be started has none.
OneOwner ==
    /\ \A v, w \in Worker : workers[v].own /\ workers[w].own => v = w
    /\ \A w \in Worker : workers[w].own => job.dispatcher # "spawn"
    /\ \A w \in Worker : workers[w].own /\ workers[w].pc = "started" =>
          job.state = "queued" /\ job.attempts < MaxAttempts
    /\ job.dispatcher = "spawn" => job.state = "queued" /\ job.attempts < MaxAttempts

\* A span that no read can return yet was emitted at most MaxDelay ago.
HiddenIsYoung == \A e \in Event : events[e].state = "hidden" => events[e].age <= MaxDelay

\* The container stops before the start of its window is older than ages are counted.
WindowAges(w) == Working(w) => workers[w].start + workers[w].budget < Horizon

\* What a clean run leaves of the scopes it has read, the next window reaches, or it was
\* too old for this one.
CleanReadLeavesNothing(w) ==
    \A e \in Event :
        Working(w) /\ workers[w].clean /\ Pending(e) /\ HasRead(w, e) =>
            \/ events[e].age <= workers[w].end + Overlap
            \/ ~workers[w].capped /\ workers[w].start < events[e].age

\* Nothing is too old for the uncapped window of the active row, if there was a cursor.
OwnWindowReaches(w) ==
    Working(w) /\ workers[w].own /\ ~workers[w].capped /\ cursor # NoCursor =>
        \A e \in Event : Pending(e) => events[e].age <= workers[w].start

\* The inductive invariant.
IInv ==
    /\ TypeOK /\ OneOwner /\ HiddenIsYoung
    /\ \A w \in Worker : WindowAges(w) /\ CleanReadLeavesNothing(w) /\ OwnWindowReaches(w)
    /\ NothingBehindCursor

-----------------------------------------------------------------------------
(***************************************************************************)
(* Types.                                                                  *)
(***************************************************************************)
\* The horizon is beyond the longest window of a container that lives as long as it can.
LEMMA Limits ==
  /\ Horizon \in Nat /\ MaxCatchup + WorkerTimeout < Horizon /\ MaxCatchup \in Nat
  /\ WorkerTimeout \in Nat /\ WorkerLease \in Nat /\ QueueTTL \in Nat /\ Interval \in Nat
  /\ MaxAttempts \in Nat /\ 0 < MaxAttempts /\ Scopes \in Nat /\ 1 <= Scopes
  /\ Lookback \in Nat /\ Lookback <= MaxCatchup /\ Overlap \in Nat /\ MaxDelay \in Nat
  /\ MaxDelay <= Overlap
BY WindowAssumption, LimitAssumption DEF Horizon

\* The rows, containers and spans that an action may begin with.
LEMMA Beginnings ==
  NoRow \in Row /\ QueuedRow \in Row /\ Off \in Container /\ Unborn \in Span
<1>1. NoRow \in Row
  BY Limits DEF NoRow, Row
<1>2. QueuedRow \in Row
  <2>1. QueueTTL \in 0..QueueTTL
    BY Limits
  <2> QED
    BY <1>1, <2>1 DEF QueuedRow, Row
<1>3. Off \in Container /\ Unborn \in Span
  BY Limits DEF Off, Container, Unborn, Span
<1> QED
  BY <1>1, <1>2, <1>3

\* Disowning leaves the containers at work.
LEMMA DisownedFacts ==
  ASSUME NEW W \in [Worker -> Container]
  PROVE  /\ Disowned(W) \in [Worker -> Container]
         /\ \A w \in Worker :
               /\ ~Disowned(W)[w].own
               /\ Disowned(W)[w] = [W[w] EXCEPT !.own = FALSE]
BY DEF Disowned, Container

\* A tick takes from what is left, and adds to an age up to its bound.
LEMMA Counting ==
  ASSUME NEW n \in Nat, NEW most \in Nat
  PROVE  /\ Dec(n) \in Nat /\ Dec(n) <= n
         /\ n # 0 => Dec(n) = n - 1
         /\ Older(n, most) \in Nat /\ Older(n, most) <= n + 1 /\ n <= Older(n, most)
         /\ n <= most => Older(n, most) <= most
         /\ n < most => Older(n, most) = n + 1
         /\ n = most => Older(n, most) = most
BY DEF Dec, Older

\* What a read makes of the spans.
LEMMA IngestedFacts ==
  ASSUME TypeOK, NEW w \in Worker, NEW E \in SUBSET Event
  PROVE  /\ Ingested(w, E) \in [Event -> Span]
         /\ \A e \in Event :
               \/ Ingested(w, E)[e].state \in {"stored", "gap"}
               \/ /\ e \notin E /\ Ingested(w, E)[e] = events[e]
                  /\ ~(workers[w].capped /\ events[e].scope = workers[w].scope /\ TooOld(w, e))
<1>1. /\ [Unborn EXCEPT !.state = "stored"] \in Span
      /\ [Unborn EXCEPT !.state = "gap"] \in Span
      /\ [Unborn EXCEPT !.state = "stored"].state = "stored"
      /\ [Unborn EXCEPT !.state = "gap"].state = "gap"
  BY Limits DEF Unborn, Span
<1>2. events \in [Event -> Span]
  BY DEF TypeOK
<1> QED
  BY <1>1, <1>2 DEF Ingested

\* The next scope, or the end of the run.
LEMMA NextScopeFacts ==
  ASSUME TypeOK, NEW w \in Worker, NEW clean \in BOOLEAN, workers[w].pc = "reading",
         NextScope(w, clean)
  PROVE  /\ workers' \in [Worker -> Container]
         /\ \A v \in Worker : v # w => workers'[v] = workers[v]
         /\ workers'[w].pc \in {"reading", "finishing"}
         /\ workers'[w].pc = "reading" => workers'[w].scope = workers[w].scope + 1
         /\ workers'[w].pc = "finishing" => workers[w].scope = Scopes
         /\ workers'[w].clean = clean
         /\ workers'[w].own = workers[w].own /\ workers'[w].budget = workers[w].budget
         /\ workers'[w].start = workers[w].start /\ workers'[w].end = workers[w].end
         /\ workers'[w].capped = workers[w].capped
<1> DEFINE x == workers[w]
<1>1. workers \in [Worker -> Container] /\ x \in Container
  BY DEF TypeOK
<1>2. CASE x.scope < Scopes
  <2> DEFINE y == [x EXCEPT !.scope = x.scope + 1, !.clean = clean]
  <2>1. x.scope \in 1..Scopes
    BY <1>1 DEF Container
  <2>2. x.scope + 1 \in 1..Scopes
    BY <1>2, <2>1, Limits
  <2>3. workers' = [workers EXCEPT ![w] = y]
    BY <1>2, Zenon DEF NextScope
  <2> HIDE DEF x
  <2>4. /\ y \in Container /\ y.pc = x.pc /\ y.scope = x.scope + 1 /\ y.clean = clean
        /\ y.own = x.own /\ y.budget = x.budget /\ y.start = x.start /\ y.end = x.end
        /\ y.capped = x.capped
    BY <1>1, <2>2 DEF Container
  <2> HIDE DEF y
  <2> QED
    BY <1>1, <2>3, <2>4 DEF x
<1>3. CASE ~(x.scope < Scopes)
  <2>1. x.scope = Scopes
    BY <1>1, <1>3, Limits DEF Container
  <2> DEFINE y == [x EXCEPT !.pc = "finishing", !.scope = 1, !.clean = clean]
  <2>2. workers' = [workers EXCEPT ![w] = y]
    BY <1>3 DEF NextScope
  <2>0. 1 \in 1..Scopes
    BY Limits
  <2> HIDE DEF x
  <2>3. /\ y \in Container /\ y.pc = "finishing" /\ y.clean = clean
        /\ y.own = x.own /\ y.budget = x.budget /\ y.start = x.start /\ y.end = x.end
        /\ y.capped = x.capped
    BY <1>1, <2>0 DEF Container
  <2> HIDE DEF y
  <2> QED
    BY <1>1, <2>1, <2>2, <2>3 DEF x
<1> QED
  BY <1>2, <1>3

\* The window a container begins.
LEMMA WindowFacts ==
  ASSUME TypeOK, NEW w \in Worker, Window(w)
  PROVE  /\ workers' \in [Worker -> Container]
         /\ \A v \in Worker : v # w => workers'[v] = workers[v]
         /\ workers'[w].pc = "reading" /\ workers'[w].scope = 1 /\ workers'[w].end = 0
         /\ workers'[w].own = workers[w].own /\ workers'[w].budget = workers[w].budget
         /\ workers'[w].start <= MaxCatchup
         /\ ~workers'[w].capped /\ cursor # NoCursor => cursor + Overlap <= workers'[w].start
<1>1. /\ workers \in [Worker -> Container] /\ workers[w] \in Container
      /\ cursor # NoCursor => cursor \in Nat
  BY Limits DEF TypeOK
<1>2. Desired \in Nat /\ (cursor # NoCursor => cursor + Overlap <= Desired)
  BY <1>1, Limits DEF Desired
<1> DEFINE capped == Desired > MaxCatchup
           start == IF capped THEN MaxCatchup ELSE Desired
           y == [workers[w] EXCEPT !.pc = "reading", !.scope = 1, !.capped = capped,
                                   !.clean = TRUE, !.start = start, !.end = 0]
<1>3. workers' = [workers EXCEPT ![w] = y]
  BY DEF Window
<1>4. /\ start \in 0..Horizon /\ start <= MaxCatchup /\ capped \in BOOLEAN
      /\ ~capped /\ cursor # NoCursor => cursor + Overlap <= start
  BY <1>2, Limits
<1> HIDE DEF capped, start
<1>5. 1 \in 1..Scopes /\ 0 \in 0..Horizon
  BY Limits
<1>6. /\ y \in Container /\ y.pc = "reading" /\ y.scope = 1 /\ y.end = 0 /\ y.start = start
      /\ y.own = workers[w].own /\ y.budget = workers[w].budget /\ y.capped = capped
  BY <1>1, <1>4, <1>5 DEF Container
<1> HIDE DEF y
<1> QED
  BY <1>1, <1>3, <1>4, <1>6

\* An age stays within its bound.
LEMMA OlderWithin ==
  ASSUME NEW most \in Nat, NEW n \in 0..most
  PROVE  Older(n, most) \in 0..most
BY DEF Older

\* What is within a distance stays so when both get older up to the same bound.
LEMMA OlderReaches ==
  ASSUME NEW most \in Nat, NEW n \in 0..most, NEW m \in 0..most, NEW d \in Nat, n <= m + d
  PROVE  Older(n, most) <= Older(m, most) + d
BY DEF Older

\* A tick ages an instant or a container within bounds.
LEMMA TickedContainer ==
  ASSUME NEW x \in Container
  PROVE  /\ [x EXCEPT !.budget = Dec(x.budget)] \in Container
         /\ [x EXCEPT !.budget = Dec(x.budget), !.start = Older(x.start, Horizon),
                      !.end = Older(x.end, Horizon)] \in Container
<1>1. /\ x.budget \in 0..WorkerTimeout /\ x.start \in 0..Horizon /\ x.end \in 0..Horizon
  BY DEF Container
<1>2. /\ Dec(x.budget) \in 0..WorkerTimeout
      /\ Older(x.start, Horizon) \in 0..Horizon /\ Older(x.end, Horizon) \in 0..Horizon
  BY <1>1, Limits DEF Dec, Older
<1> QED
  BY <1>2 DEF Container

\* Every action keeps the types.  OneOwner is what bounds the attempts of a claim.
LEMMA TypeNext ==
  ASSUME TypeOK, OneOwner, [Next]_vars
  PROVE  TypeOK'
<1>0. /\ workers \in [Worker -> Container] /\ events \in [Event -> Span] /\ job \in Row
      /\ provider \in {"aws", "azure"} /\ since \in 0..Interval /\ calm \in BOOLEAN
      /\ cursor \in (0..Horizon) \cup {NoCursor} /\ 0 \in 0..Interval
      /\ NoRow \in Row /\ QueuedRow \in Row /\ Off \in Container /\ Unborn \in Span
  BY Limits, Beginnings DEF TypeOK
<1>1. CASE Schedule \/ Request
  BY <1>0, <1>1, DisownedFacts DEF Schedule, Request, Create, TypeOK
<1>2. CASE Acknowledge
  <2>1. job' \in Row
    BY <1>0, <1>2 DEF Acknowledge, Row
  <2> QED
    BY <1>0, <1>2, <2>1 DEF Acknowledge, TypeOK
<1>3. CASE FailDispatch \/ Poll
  BY <1>0, <1>3, DisownedFacts DEF FailDispatch, Poll, Fault, TypeOK
<1>4. CASE LoseDispatcher
  <2>1. job' \in Row
    BY <1>0, <1>4 DEF LoseDispatcher, Row
  <2> QED
    BY <1>0, <1>4, <2>1 DEF LoseDispatcher, Fault, TypeOK
<1>5. ASSUME NEW w \in Worker, Spawn(w)
      PROVE  TypeOK'
  <2>1. job' \in Row
    BY <1>0, <1>5 DEF Spawn, Row
  <2>2. WorkerTimeout \in 0..WorkerTimeout
    BY Limits
  <2>3. [Off EXCEPT !.pc = "started", !.own = TRUE, !.budget = WorkerTimeout] \in Container
    BY <1>0, <2>2 DEF Container
  <2> QED
    BY <1>0, <1>5, <2>1, <2>3 DEF Spawn, TypeOK
<1>6. ASSUME NEW w \in Worker, Claim(w)
      PROVE  TypeOK'
  <2>1. CASE /\ workers[w].own
             /\ job.state = "queued" \/ (job.state = "running" /\ job.lease = 0)
    <3>1. job.attempts \in 0..MaxAttempts /\ job.attempts < MaxAttempts
      BY <1>0, <1>6, <2>1 DEF OneOwner, Claim, Row
    <3>2. job.attempts + 1 \in 0..MaxAttempts /\ WorkerLease \in 0..WorkerLease
      BY <3>1, Limits
    <3>3. [job EXCEPT !.state = "running", !.attempts = job.attempts + 1,
                      !.lease = WorkerLease] \in Row
      BY <1>0, <3>2 DEF Row
    <3>4. [workers EXCEPT ![w].pc = "claimed"] \in [Worker -> Container]
      BY <1>0 DEF Container
    <3> QED
      BY <1>0, <1>6, <2>1, <3>3, <3>4 DEF Claim, TypeOK
  <2>2. CASE ~(/\ workers[w].own
               /\ job.state = "queued" \/ (job.state = "running" /\ job.lease = 0))
    BY <1>0, <1>6, <2>2 DEF Claim, TypeOK
  <2> QED
    BY <2>1, <2>2
<1>7. ASSUME NEW w \in Worker, Window(w)
      PROVE  TypeOK'
  <2>1. workers' \in [Worker -> Container]
    BY <1>7, WindowFacts
  <2> QED
    BY <1>0, <1>7, <2>1 DEF Window, TypeOK
<1>8. ASSUME NEW w \in Worker, ReadScope(w)
      PROVE  TypeOK'
  <2>1. events' \in [Event -> Span]
    BY <1>8, IngestedFacts DEF ReadScope
  <2>2. workers[w].clean \in BOOLEAN
    BY <1>0 DEF Container
  <2>3. workers' \in [Worker -> Container]
    BY <1>8, <2>2, NextScopeFacts DEF ReadScope
  <2> QED
    BY <1>0, <1>8, <2>1, <2>3 DEF ReadScope, TypeOK
<1>9. ASSUME NEW w \in Worker, ReadPart(w)
      PROVE  TypeOK'
  <2>1. events' \in [Event -> Span]
    BY <1>9, IngestedFacts DEF ReadPart
  <2>3. workers' \in [Worker -> Container]
    BY <1>9, NextScopeFacts DEF ReadPart
  <2> QED
    BY <1>0, <1>9, <2>1, <2>3 DEF ReadPart, Fault, TypeOK
<1>10. ASSUME NEW w \in Worker, Complete(w)
       PROVE  TypeOK'
  <2>1. [workers EXCEPT ![w] = Off] \in [Worker -> Container]
    BY <1>0
  <2>2. Disowned([workers EXCEPT ![w] = Off]) \in [Worker -> Container]
    BY <2>1, DisownedFacts
  <2>3. workers' \in [Worker -> Container]
    BY <1>10, <2>1, <2>2 DEF Complete
  <2>4. job' \in Row
    BY <1>0, <1>10 DEF Complete
  <2>5. cursor' \in (0..Horizon) \cup {NoCursor}
    <3>1. workers[w].end \in 0..Horizon
      BY <1>0 DEF Container
    <3> QED
      BY <1>0, <1>10, <3>1 DEF Complete
  <2>6. events' \in [Event -> Span]
    <3>1. [Unborn EXCEPT !.state = "before"] \in Span
      BY <1>0 DEF Span
    <3> QED
      BY <1>0, <1>10, <3>1 DEF Complete
  <2> QED
    BY <1>0, <1>10, <2>3, <2>4, <2>5, <2>6 DEF Complete, TypeOK
<1>11. ASSUME NEW w \in Worker, Raise(w)
       PROVE  TypeOK'
  <2>1. [Off EXCEPT !.pc = "failing", !.own = workers[w].own, !.budget = workers[w].budget]
          \in Container
    BY <1>0 DEF Container
  <2> QED
    BY <1>0, <1>11, <2>1 DEF Raise, Fault, TypeOK
<1>12. ASSUME NEW w \in Worker, Fail(w)
       PROVE  TypeOK'
  <2>1. [workers EXCEPT ![w] = Off] \in [Worker -> Container]
    BY <1>0
  <2>2. Disowned([workers EXCEPT ![w] = Off]) \in [Worker -> Container]
    BY <2>1, DisownedFacts
  <2>3. [workers EXCEPT ![w].pc = "started"] \in [Worker -> Container]
    BY <1>0 DEF Container
  <2>4. [job EXCEPT !.state = "queued", !.lease = 0] \in Row
    <3>1. 0 \in 0..WorkerLease
      BY Limits
    <3> QED
      BY <1>0, <3>1 DEF Row
  <2>5. workers' \in [Worker -> Container] /\ job' \in Row
    BY <1>0, <1>12, <2>1, <2>2, <2>3, <2>4 DEF Fail
  <2> QED
    BY <1>0, <1>12, <2>5 DEF Fail, TypeOK
<1>13. ASSUME NEW w \in Worker, Stop(w)
       PROVE  TypeOK'
  BY <1>0, <1>13 DEF Stop, Fault, TypeOK
<1>14. ASSUME NEW e \in Event, Emit(e)
       PROVE  TypeOK'
  <2>1. PICK s \in 1..Scopes :
          events' = [events EXCEPT ![e] = [state |-> "hidden", age |-> 0, scope |-> s]]
    BY <1>14 DEF Emit
  <2>2. [state |-> "hidden", age |-> 0, scope |-> s] \in Span
    BY Limits DEF Span
  <2> QED
    BY <1>0, <1>14, <2>1, <2>2 DEF Emit, TypeOK
<1>15. ASSUME NEW e \in Event, Appear(e)
       PROVE  TypeOK'
  <2>1. events' \in [Event -> Span]
    BY <1>0, <1>15 DEF Appear, Span
  <2> QED
    BY <1>0, <1>15, <2>1 DEF Appear, TypeOK
<1>16. CASE Calm
  BY <1>0, <1>16 DEF Calm, TypeOK
<1>17. CASE Tick
  <2>1. job' \in Row
    <3>1. job.lease \in 0..WorkerLease /\ job.ttl \in 0..QueueTTL
      BY <1>0 DEF Row
    <3>2. Dec(job.lease) \in 0..WorkerLease /\ Dec(job.ttl) \in 0..QueueTTL
      BY <3>1, Limits DEF Dec
    <3> QED
      BY <1>0, <1>17, <3>2 DEF Tick, Row
  <2>2. since' \in 0..Interval
    BY <1>0, <1>17, Limits, OlderWithin DEF Tick
  <2>3. cursor' \in (0..Horizon) \cup {NoCursor}
    <3>1. cursor # NoCursor => Older(cursor, Horizon) \in 0..Horizon
      BY <1>0, Limits, OlderWithin
    <3> QED
      BY <1>0, <1>17, <3>1 DEF Tick
  <2>4. workers' \in [Worker -> Container]
    BY <1>0, <1>17, TickedContainer DEF Tick
  <2>5. events' \in [Event -> Span]
    <3>1. ASSUME NEW e \in Event
          PROVE  [events[e] EXCEPT !.age = Older(events[e].age, Horizon)] \in Span
      <4>1. events[e] \in Span /\ events[e].age \in 0..Horizon
        BY <1>0 DEF Span
      <4>2. Older(events[e].age, Horizon) \in 0..Horizon
        BY <4>1, Limits DEF Older
      <4> QED
        BY <4>1, <4>2 DEF Span
    <3> QED
      BY <1>0, <1>17, <3>1 DEF Tick
  <2> QED
    BY <1>17, <1>0, <2>1, <2>2, <2>3, <2>4, <2>5 DEF Tick, TypeOK
<1>18. CASE UNCHANGED vars
  BY <1>18 DEF vars, TypeOK
<1> QED
  BY <1>1, <1>2, <1>3, <1>4, <1>5, <1>6, <1>7, <1>8, <1>9, <1>10, <1>11, <1>12, <1>13, <1>14,
     <1>15, <1>16, <1>17, <1>18 DEF Next, WorkerStep

-----------------------------------------------------------------------------
(***************************************************************************)
(* The owner of the row.                                                   *)
(***************************************************************************)
\* What an action may change without regard to who owns the row.
LEMMA OwnersFrame ==
  ASSUME OneOwner,
         job'.dispatcher # "spawn" \/ job'.dispatcher = job.dispatcher,
         job'.state = job.state, job'.attempts = job.attempts,
         \A w \in Worker : workers'[w].own =>
            /\ workers[w].own
            /\ workers'[w].pc = "started" => workers[w].pc = "started"
  PROVE  OneOwner'
BY DEF OneOwner

\* Every action keeps OneOwner.
LEMMA OneOwnerNext ==
  ASSUME TypeOK, OneOwner, [Next]_vars
  PROVE  OneOwner'
<1>0. workers \in [Worker -> Container] /\ job \in Row
  BY DEF TypeOK
<1>1. /\ ~Off.own /\ Off.pc = "off"
      /\ NoRow.dispatcher = "done" /\ QueuedRow.state = "queued" /\ QueuedRow.attempts = 0
      /\ [Off EXCEPT !.pc = "started", !.own = TRUE, !.budget = WorkerTimeout].own
  BY DEF Off, NoRow, QueuedRow
<1>2. ASSUME \A w \in Worker : ~workers'[w].own, job' \in {NoRow, QueuedRow}
      PROVE  OneOwner'
  BY <1>1, <1>2, Limits DEF OneOwner
<1>3. CASE Schedule \/ Request \/ FailDispatch \/ Poll
  BY <1>0, <1>2, <1>3, DisownedFacts DEF Schedule, Request, Create, FailDispatch, Poll
<1>4. CASE Acknowledge \/ LoseDispatcher
  <2>1. /\ job'.dispatcher = "done" /\ job'.state = job.state /\ job'.attempts = job.attempts
        /\ workers' = workers
    BY <1>0, <1>4 DEF Acknowledge, LoseDispatcher, Row
  <2> QED
    BY <2>1, OwnersFrame
<1>5. ASSUME NEW w \in Worker, Spawn(w)
      PROVE  OneOwner'
  <2>1. /\ job'.dispatcher = "record" /\ job'.state = job.state /\ job'.attempts = job.attempts
        /\ job.dispatcher = "spawn"
    BY <1>0, <1>5 DEF Spawn, Row
  <2>2. \A v \in Worker : workers'[v].own => v = w
    BY <1>0, <1>5, <2>1 DEF Spawn, OneOwner
  <2> QED
    BY <2>1, <2>2 DEF OneOwner
<1>6. ASSUME NEW w \in Worker, Claim(w)
      PROVE  OneOwner'
  <2>1. CASE /\ workers[w].own
             /\ job.state = "queued" \/ (job.state = "running" /\ job.lease = 0)
    <3>1. job'.dispatcher = job.dispatcher
      BY <1>0, <1>6, <2>1 DEF Claim, Row
    <3>2. /\ workers'[w].pc = "claimed"
          /\ \A v \in Worker : workers'[v].own = workers[v].own
      BY <1>0, <1>6, <2>1 DEF Claim, Container
    <3> QED
      BY <2>1, <3>1, <3>2 DEF OneOwner
  <2>2. CASE ~(/\ workers[w].own
               /\ job.state = "queued" \/ (job.state = "running" /\ job.lease = 0))
    <3>1. job' = job /\ workers' = [workers EXCEPT ![w] = Off]
      BY <1>6, <2>2 DEF Claim
    <3> QED
      BY <1>0, <1>1, <3>1, OwnersFrame
  <2> QED
    BY <2>1, <2>2
<1>7. ASSUME NEW w \in Worker, Window(w)
      PROVE  OneOwner'
  <2>1. job' = job
    BY <1>7 DEF Window
  <2> QED
    BY <1>7, <2>1, WindowFacts, OwnersFrame
<1>8. ASSUME NEW w \in Worker, ReadScope(w) \/ ReadPart(w)
      PROVE  OneOwner'
  <2>1. job' = job /\ workers[w].pc = "reading" /\ workers[w].clean \in BOOLEAN
    BY <1>0, <1>8 DEF ReadScope, ReadPart, Container
  <2>2. PICK clean \in BOOLEAN : NextScope(w, clean)
    BY <1>8, <2>1 DEF ReadScope, ReadPart
  <2> QED
    BY <2>1, <2>2, NextScopeFacts, OwnersFrame
<1>10. ASSUME NEW w \in Worker, Complete(w)
       PROVE  OneOwner'
  <2>1. [workers EXCEPT ![w] = Off] \in [Worker -> Container]
    BY <1>0, Beginnings
  <2>2. CASE workers[w].own /\ job.state = "running"
    BY <1>2, <1>10, <2>1, <2>2, DisownedFacts DEF Complete
  <2>3. CASE ~(workers[w].own /\ job.state = "running")
    <3>1. job' = job /\ workers' = [workers EXCEPT ![w] = Off]
      BY <1>10, <2>3 DEF Complete
    <3> QED
      BY <1>0, <1>1, <3>1, OwnersFrame
  <2> QED
    BY <2>2, <2>3
<1>11. ASSUME NEW w \in Worker, Raise(w)
       PROVE  OneOwner'
  <2>1. /\ job' = job
        /\ \A v \in Worker : v # w => workers'[v] = workers[v]
        /\ workers'[w].pc = "failing" /\ workers'[w].own = workers[w].own
    BY <1>0, <1>11 DEF Raise, Off
  <2> QED
    BY <2>1, OwnersFrame
<1>12. ASSUME NEW w \in Worker, Fail(w)
       PROVE  OneOwner'
  <2>1. [workers EXCEPT ![w] = Off] \in [Worker -> Container]
    BY <1>0, Beginnings
  <2>2. CASE ~workers[w].own \/ job.state # "running"
    <3>1. job' = job /\ workers' = [workers EXCEPT ![w] = Off]
      BY <1>12, <2>2 DEF Fail
    <3> QED
      BY <1>0, <1>1, <3>1, OwnersFrame
  <2>3. CASE workers[w].own /\ job.state = "running" /\ job.attempts < MaxAttempts
    <3>1. /\ job'.state = "queued" /\ job'.attempts = job.attempts
          /\ job'.dispatcher = job.dispatcher
      BY <1>0, <1>12, <2>3 DEF Fail, Row
    <3>2. \A v \in Worker : workers'[v].own = workers[v].own
      BY <1>0, <1>12, <2>3 DEF Fail, Container
    <3> QED
      BY <2>3, <3>1, <3>2 DEF OneOwner
  <2>4. CASE workers[w].own /\ job.state = "running" /\ ~(job.attempts < MaxAttempts)
    BY <1>2, <1>12, <2>1, <2>4, DisownedFacts DEF Fail
  <2> QED
    BY <2>2, <2>3, <2>4
<1>13. ASSUME NEW w \in Worker, Stop(w)
       PROVE  OneOwner'
  BY <1>0, <1>1, <1>13, OwnersFrame DEF Stop
<1>14. CASE \/ \E e \in Event : Emit(e) \/ Appear(e)
            \/ Calm \/ UNCHANGED vars
  <2>1. job' = job /\ workers' = workers
    BY <1>14 DEF Emit, Appear, Calm, vars
  <2> QED
    BY <2>1, OwnersFrame
<1>15. CASE Tick
  <2>1. /\ job'.dispatcher = job.dispatcher /\ job'.state = job.state
        /\ job'.attempts = job.attempts
    BY <1>0, <1>15 DEF Tick, Row
  <2>2. \A v \in Worker : workers'[v].own = workers[v].own /\ workers'[v].pc = workers[v].pc
    BY <1>0, <1>15 DEF Tick, Container
  <2> QED
    BY <2>1, <2>2, OwnersFrame
<1> QED
  BY <1>3, <1>4, <1>5, <1>6, <1>7, <1>8, <1>10, <1>11, <1>12, <1>13, <1>14, <1>15
     DEF Next, WorkerStep

-----------------------------------------------------------------------------
(***************************************************************************)
(* The cursor and what is behind it.                                       *)
(***************************************************************************)
\* The pending spans of the next state are new or are pending now, as old and in the same
\* scope; none is hidden again.
Fewer ==
    \A e \in Event : Pending(e)' =>
        \/ events'[e].age = 0
        \/ /\ Pending(e)
           /\ events'[e].age = events[e].age /\ events'[e].scope = events[e].scope
           /\ events'[e].state = "hidden" => events[e].state = "hidden"

\* The container works on as before, if it works, and owns no more than it did.
Steady(w) ==
    Working(w)' =>
        /\ workers'[w].pc = workers[w].pc /\ workers'[w].scope = workers[w].scope
        /\ workers'[w].budget = workers[w].budget /\ workers'[w].clean = workers[w].clean
        /\ workers'[w].capped = workers[w].capped
        /\ workers'[w].start = workers[w].start /\ workers'[w].end = workers[w].end
        /\ workers'[w].own => workers[w].own /\ cursor' = cursor

\* What the three facts about a container need to stay.
LEMMA SteadyContainer ==
  ASSUME TypeOK, TypeOK', NEW w \in Worker, Fewer, Steady(w),
         WindowAges(w), CleanReadLeavesNothing(w), OwnWindowReaches(w)
  PROVE  WindowAges(w)' /\ CleanReadLeavesNothing(w)' /\ OwnWindowReaches(w)'
<1>1. Working(w)' => Working(w)
  BY DEF Steady, Working
<1>2. Working(w)' => workers'[w].start \in Nat /\ workers'[w].end \in Nat
  BY Limits DEF TypeOK, Container
<1>3. WindowAges(w)'
  BY <1>1 DEF WindowAges, Steady
<1>4. CleanReadLeavesNothing(w)'
  <2> SUFFICES ASSUME NEW e \in Event, Working(w)', workers'[w].clean, Pending(e)',
                      HasRead(w, e)'
               PROVE  \/ events'[e].age <= workers'[w].end + Overlap
                      \/ ~workers'[w].capped /\ workers'[w].start < events'[e].age
    BY DEF CleanReadLeavesNothing
  <2>1. CASE events'[e].age = 0
    BY <1>2, <2>1, Limits
  <2>2. CASE ~(events'[e].age = 0)
    <3>1. /\ Pending(e)
          /\ events'[e].age = events[e].age /\ events'[e].scope = events[e].scope
      BY <2>2 DEF Fewer
    <3>2. HasRead(w, e)
      BY <3>1 DEF HasRead, Steady
    <3> QED
      BY <1>1, <3>1, <3>2 DEF CleanReadLeavesNothing, Steady
  <2> QED
    BY <2>1, <2>2
<1>5. OwnWindowReaches(w)'
  <2> SUFFICES ASSUME Working(w)', workers'[w].own, ~workers'[w].capped, cursor' # NoCursor,
                      NEW e \in Event, Pending(e)'
               PROVE  events'[e].age <= workers'[w].start
    BY DEF OwnWindowReaches
  <2>1. CASE events'[e].age = 0
    BY <1>2, <2>1, Limits
  <2>2. CASE ~(events'[e].age = 0)
    <3>1. Pending(e) /\ events'[e].age = events[e].age
      BY <2>2 DEF Fewer
    <3> QED
      BY <1>1, <3>1 DEF OwnWindowReaches, Steady
  <2> QED
    BY <2>1, <2>2
<1> QED
  BY <1>3, <1>4, <1>5

\* What the two facts about the spans need to stay.
LEMMA SteadySpans ==
  ASSUME TypeOK, HiddenIsYoung, NothingBehindCursor, Fewer, cursor' = cursor
  PROVE  HiddenIsYoung' /\ NothingBehindCursor'
<1>1. cursor # NoCursor => cursor \in Nat
  BY Limits DEF TypeOK
<1>2. HiddenIsYoung'
  <2> SUFFICES ASSUME NEW e \in Event, events'[e].state = "hidden"
               PROVE  events'[e].age <= MaxDelay
    BY DEF HiddenIsYoung
  <2> QED
    BY Limits DEF HiddenIsYoung, Fewer, Pending
<1>3. NothingBehindCursor'
  <2> SUFFICES ASSUME NEW e \in Event, Pending(e)', cursor' # NoCursor
               PROVE  events'[e].age <= cursor' + Overlap
    BY DEF NothingBehindCursor, Pending
  <2> QED
    BY <1>1, Limits DEF NothingBehindCursor, Fewer, Pending
<1> QED
  BY <1>2, <1>3

\* Actions after which every container works on as before.
LEMMA SteadyStep ==
  ASSUME IInv, TypeOK', OneOwner', Fewer, cursor' = cursor, \A w \in Worker : Steady(w)
  PROVE  IInv'
<1>1. HiddenIsYoung' /\ NothingBehindCursor'
  BY SteadySpans DEF IInv
<1>2. ASSUME NEW w \in Worker
      PROVE  WindowAges(w)' /\ CleanReadLeavesNothing(w)' /\ OwnWindowReaches(w)'
  BY SteadyContainer DEF IInv
<1> QED
  BY <1>1, <1>2 DEF IInv

\* Actions on one container that leave the spans and the cursor.
LEMMA OneContainer ==
  ASSUME IInv, TypeOK', OneOwner', NEW w \in Worker, events' = events, cursor' = cursor,
         \A v \in Worker : v # w => workers'[v] = workers[v],
         WindowAges(w)', CleanReadLeavesNothing(w)', OwnWindowReaches(w)'
  PROVE  IInv'
<1>1. Fewer
  BY DEF Fewer, Pending
<1>2. HiddenIsYoung' /\ NothingBehindCursor'
  BY <1>1, SteadySpans DEF IInv
<1>3. ASSUME NEW v \in Worker, v # w
      PROVE  WindowAges(v)' /\ CleanReadLeavesNothing(v)' /\ OwnWindowReaches(v)'
  <2>1. Steady(v)
    BY <1>3 DEF Steady
  <2> QED
    BY <1>1, <2>1, SteadyContainer DEF IInv
<1> QED
  BY <1>2, <1>3 DEF IInv

\* A window of an active row reaches back to all that is pending.
LEMMA WindowKeeps ==
  ASSUME IInv, TypeOK', OneOwner', NEW w \in Worker, Window(w)
  PROVE  IInv'
<1>1. /\ workers'[w].pc = "reading" /\ workers'[w].scope = 1 /\ workers'[w].end = 0
      /\ workers'[w].start <= MaxCatchup
      /\ ~workers'[w].capped /\ cursor # NoCursor => cursor + Overlap <= workers'[w].start
      /\ \A v \in Worker : v # w => workers'[v] = workers[v]
  BY WindowFacts DEF IInv
<1>2. events' = events /\ cursor' = cursor
  BY DEF Window
<1>3. /\ workers'[w].start \in Nat /\ workers'[w].budget \in Nat
      /\ workers'[w].budget <= WorkerTimeout
  <2>1. workers'[w] \in Container
    BY DEF TypeOK
  <2> QED
    BY <2>1, Limits DEF Container
<1>4. WindowAges(w)'
  <2>1. workers'[w].start + workers'[w].budget < Horizon
    BY <1>1, <1>3, Limits
  <2> QED
    BY <2>1 DEF WindowAges
<1>5. CleanReadLeavesNothing(w)'
  <2>1. ASSUME NEW e \in Event
        PROVE  ~HasRead(w, e)'
    <3>1. events'[e].scope \in Nat /\ 1 <= events'[e].scope
      BY Limits DEF TypeOK, Span
    <3> QED
      BY <1>1, <3>1 DEF HasRead
  <2> QED
    BY <2>1 DEF CleanReadLeavesNothing
<1>6. OwnWindowReaches(w)'
  <2> SUFFICES ASSUME ~workers'[w].capped, cursor # NoCursor, NEW e \in Event, Pending(e)
               PROVE  events[e].age <= workers'[w].start
    BY <1>2 DEF OwnWindowReaches, Pending
  <2>1. events[e].age <= cursor + Overlap /\ cursor + Overlap <= workers'[w].start
    BY <1>1 DEF IInv, NothingBehindCursor, Pending
  <2>2. cursor \in Nat /\ events[e].age \in Nat
    BY Limits DEF IInv, TypeOK, Span
  <2> QED
    BY <1>3, <2>1, <2>2, Limits
<1> QED
  BY <1>1, <1>2, <1>4, <1>5, <1>6, OneContainer

\* A scope that is read in full leaves what the next window reaches, or what is older
\* than this one; of a scope that is not, nothing is promised.
LEMMA ReadKeeps ==
  ASSUME IInv, TypeOK', OneOwner', NEW w \in Worker, ReadScope(w) \/ ReadPart(w)
  PROVE  IInv'
<1>0. TypeOK /\ workers[w].clean \in BOOLEAN /\ workers[w].pc = "reading" /\ cursor' = cursor
  BY DEF IInv, TypeOK, Container, ReadScope, ReadPart
<1>1. PICK clean \in BOOLEAN, E \in SUBSET {e \in Event : InWindow(w, e)} :
         /\ events' = Ingested(w, E) /\ NextScope(w, clean)
         /\ clean => workers[w].clean /\ E = {e \in Event : InWindow(w, e)}
  <2>1. CASE ReadScope(w)
    BY <1>0, <2>1 DEF ReadScope
  <2>2. CASE ReadPart(w)
    BY <1>0, <2>2 DEF ReadPart
  <2> QED
    BY <2>1, <2>2
<1>2. \A e \in Event :
        \/ events'[e].state \in {"stored", "gap"}
        \/ /\ e \notin E /\ events'[e] = events[e]
           /\ ~(workers[w].capped /\ events[e].scope = workers[w].scope /\ TooOld(w, e))
  <2>1. E \in SUBSET Event
    OBVIOUS
  <2> QED
    BY <1>0, <1>1, <2>1, IngestedFacts
<1>3. /\ \A v \in Worker : v # w => workers'[v] = workers[v]
      /\ workers'[w].pc \in {"reading", "finishing"}
      /\ workers'[w].pc = "reading" => workers'[w].scope = workers[w].scope + 1
      /\ workers'[w].pc = "finishing" => workers[w].scope = Scopes
      /\ workers'[w].clean = clean
      /\ workers'[w].own = workers[w].own /\ workers'[w].budget = workers[w].budget
      /\ workers'[w].start = workers[w].start /\ workers'[w].end = workers[w].end
      /\ workers'[w].capped = workers[w].capped
  BY <1>0, <1>1, NextScopeFacts
<1>4. Fewer
  BY <1>2 DEF Fewer, Pending
<1>5. HiddenIsYoung' /\ NothingBehindCursor'
  BY <1>0, <1>4, SteadySpans DEF IInv
<1>6. ASSUME NEW v \in Worker, v # w
      PROVE  WindowAges(v)' /\ CleanReadLeavesNothing(v)' /\ OwnWindowReaches(v)'
  <2>1. Steady(v)
    BY <1>0, <1>3, <1>6 DEF Steady
  <2> QED
    BY <1>4, <2>1, SteadyContainer DEF IInv
<1>7. WindowAges(w) /\ CleanReadLeavesNothing(w) /\ OwnWindowReaches(w) /\ Working(w)
  BY <1>0 DEF IInv, Working
<1>8. WindowAges(w)'
  BY <1>3, <1>7 DEF WindowAges
<1>9. OwnWindowReaches(w)'
  <2> SUFFICES ASSUME workers'[w].own, ~workers'[w].capped, cursor' # NoCursor,
                      NEW e \in Event, Pending(e)'
               PROVE  events'[e].age <= workers'[w].start
    BY DEF OwnWindowReaches
  <2>1. Pending(e) /\ events'[e] = events[e]
    BY <1>2 DEF Pending
  <2> QED
    BY <1>0, <1>3, <1>7, <2>1 DEF OwnWindowReaches
<1>10. CleanReadLeavesNothing(w)'
  <2> SUFFICES ASSUME NEW e \in Event, workers'[w].clean, Pending(e)', HasRead(w, e)'
               PROVE  \/ events'[e].age <= workers'[w].end + Overlap
                      \/ ~workers'[w].capped /\ workers'[w].start < events'[e].age
    BY DEF CleanReadLeavesNothing
  <2>1. /\ Pending(e) /\ events'[e] = events[e] /\ e \notin E
        /\ ~(workers[w].capped /\ events[e].scope = workers[w].scope /\ TooOld(w, e))
    BY <1>2 DEF Pending
  <2>2. workers[w].clean /\ ~InWindow(w, e)
    BY <1>1, <1>3, <2>1
  <2>3. /\ events[e].age \in Nat /\ workers[w].end \in Nat /\ workers[w].start \in Nat
        /\ events[e].scope \in 1..Scopes /\ workers[w].scope \in 1..Scopes
    <3>1. events[e] \in Span /\ workers[w] \in Container
      BY <1>0 DEF TypeOK
    <3> QED
      BY <3>1, Limits DEF Span, Container
  <2>4. HasRead(w, e) \/ events[e].scope = workers[w].scope
    <3>1. events[e].scope < workers[w].scope \/ events[e].scope = workers[w].scope
      BY <1>3, <2>1, <2>3, Limits DEF HasRead
    <3> QED
      BY <1>0, <3>1 DEF HasRead
  <2>5. CASE HasRead(w, e)
    BY <1>3, <1>7, <2>1, <2>2, <2>5 DEF CleanReadLeavesNothing
  <2>6. CASE events[e].scope = workers[w].scope
    <3>1. CASE events[e].state = "hidden"
      <4>1. events[e].age <= MaxDelay
        BY <3>1 DEF IInv, HiddenIsYoung
      <4> QED
        BY <1>3, <2>1, <2>3, <4>1, Limits
    <3>2. CASE events[e].state = "visible"
      <4>1. ~(workers[w].end <= events[e].age) \/ workers[w].start < events[e].age
        BY <2>2, <2>3, <2>6, <3>2 DEF InWindow
      <4>2. workers[w].start < events[e].age => ~workers[w].capped
        BY <2>1, <2>6, <3>2 DEF TooOld
      <4> QED
        BY <1>3, <2>1, <2>3, <4>1, <4>2, Limits
    <3> QED
      BY <2>1, <3>1, <3>2 DEF Pending
  <2> QED
    BY <2>4, <2>5, <2>6
<1> QED
  BY <1>5, <1>6, <1>8, <1>9, <1>10 DEF IInv

\* The cursor moves to the end of a clean window of the active row: what is pending then
\* is within the overlap of it.
LEMMA CompleteKeeps ==
  ASSUME IInv, TypeOK', OneOwner', NEW w \in Worker, Complete(w)
  PROVE  IInv'
<1> DEFINE done == workers[w].own /\ job.state = "running"
           safe == done /\ Safe(w)
<1>0. /\ TypeOK /\ workers \in [Worker -> Container] /\ events \in [Event -> Span]
      /\ workers[w].pc = "finishing" /\ Working(w)
  BY DEF IInv, TypeOK, Complete, Working
<1>1. /\ workers' = IF done THEN Disowned([workers EXCEPT ![w] = Off])
                    ELSE [workers EXCEPT ![w] = Off]
      /\ cursor' = IF safe /\ (cursor = NoCursor \/ workers[w].end < cursor)
                   THEN workers[w].end ELSE cursor
      /\ events' = [e \in Event |-> IF safe /\ cursor = NoCursor /\ TooOld(w, e)
                                    THEN [Unborn EXCEPT !.state = "before"] ELSE events[e]]
  BY DEF Complete
<1>2. safe => done /\ workers[w].own /\ workers[w].clean
  BY DEF Safe
<1> HIDE DEF done, safe
<1>3. ASSUME NEW e \in Event, Pending(e)'
      PROVE  /\ Pending(e) /\ events'[e] = events[e]
             /\ ~(safe /\ cursor = NoCursor /\ TooOld(w, e))
  BY <1>1, <1>3 DEF Pending, Unborn
<1>4. Fewer
  BY <1>3 DEF Fewer
<1>5. \A v \in Worker : Steady(v)
  <2> SUFFICES ASSUME NEW v \in Worker, Working(v)'
               PROVE  Steady(v)
    BY DEF Steady
  <2>1. [workers EXCEPT ![w] = Off] \in [Worker -> Container]
    BY <1>0, Beginnings
  <2>2. CASE done
    <3>1. workers'[v] = [[workers EXCEPT ![w] = Off][v] EXCEPT !.own = FALSE]
      BY <1>1, <2>1, <2>2, DisownedFacts
    <3>2. v # w
      BY <1>0, <2>1, <3>1 DEF Working, Off
    <3>3. workers'[v] = [workers[v] EXCEPT !.own = FALSE] /\ workers[v] \in Container
      BY <1>0, <3>1, <3>2
    <3> QED
      BY <3>3 DEF Steady, Container
  <2>3. CASE ~done
    <3>1. v # w
      BY <1>0, <1>1, <2>3 DEF Working, Off
    <3>2. workers'[v] = workers[v] /\ cursor' = cursor
      BY <1>0, <1>1, <1>2, <2>3, <3>1
    <3> QED
      BY <3>2 DEF Steady
  <2> QED
    BY <2>2, <2>3
<1>6. ASSUME NEW v \in Worker
      PROVE  WindowAges(v)' /\ CleanReadLeavesNothing(v)' /\ OwnWindowReaches(v)'
  BY <1>0, <1>4, <1>5, SteadyContainer DEF IInv
<1>7. HiddenIsYoung'
  <2> SUFFICES ASSUME NEW e \in Event, events'[e].state = "hidden"
               PROVE  events'[e].age <= MaxDelay
    BY DEF HiddenIsYoung
  <2>1. events'[e] = events[e]
    BY <1>3 DEF Pending
  <2> QED
    BY <2>1 DEF IInv, HiddenIsYoung
<1>8. NothingBehindCursor'
  <2> SUFFICES ASSUME NEW e \in Event, Pending(e)', cursor' # NoCursor
               PROVE  events'[e].age <= cursor' + Overlap
    BY DEF NothingBehindCursor, Pending
  <2>1. Pending(e) /\ events'[e] = events[e]
    BY <1>3
  <2>2. cursor # NoCursor => events[e].age <= cursor + Overlap
    BY <2>1 DEF IInv, NothingBehindCursor, Pending
  <2>3. CASE cursor' = cursor
    BY <2>1, <2>2, <2>3
  <2>4. CASE cursor' # cursor
    <3>1. safe /\ cursor' = workers[w].end
      BY <1>1, <2>4
    <3>2. \/ events[e].age <= workers[w].end + Overlap
          \/ ~workers[w].capped /\ workers[w].start < events[e].age
      BY <1>0, <1>2, <2>1, <3>1 DEF IInv, CleanReadLeavesNothing, HasRead
    <3>3. CASE ~workers[w].capped /\ workers[w].start < events[e].age
      <4>1. cursor # NoCursor
        BY <1>3, <2>1, <3>1, <3>3 DEF TooOld, Pending
      <4>2. events[e].age <= workers[w].start
        BY <1>0, <1>2, <2>1, <3>1, <3>3, <4>1 DEF IInv, OwnWindowReaches
      <4>3. events[e].age \in Nat /\ workers[w].start \in Nat
        BY <1>0, Limits DEF Span, Container
      <4> QED
        BY <3>3, <4>2, <4>3
    <3> QED
      BY <2>1, <3>1, <3>2, <3>3
  <2> QED
    BY <2>3, <2>4
<1> QED
  BY <1>6, <1>7, <1>8 DEF IInv

\* A tick makes every pending span, every window and the cursor older by the same.
LEMMA TickKeeps ==
  ASSUME IInv, TypeOK', OneOwner', Tick
  PROVE  IInv'
<1>0. /\ TypeOK /\ workers \in [Worker -> Container] /\ events \in [Event -> Span]
      /\ cursor \in (0..Horizon) \cup {NoCursor}
  BY DEF IInv, TypeOK
<1>1. ASSUME NEW e \in Event, Pending(e)'
      PROVE  /\ Pending(e) /\ events'[e].state = events[e].state
             /\ events'[e].scope = events[e].scope
             /\ events'[e].age = Older(events[e].age, Horizon)
             /\ events[e].age \in 0..Horizon
  BY <1>0, <1>1 DEF Tick, Pending, Span
<1>2. ASSUME NEW w \in Worker, Working(w)'
      PROVE  /\ Working(w) /\ workers'[w].pc = workers[w].pc
             /\ workers'[w].own = workers[w].own /\ workers'[w].scope = workers[w].scope
             /\ workers'[w].clean = workers[w].clean /\ workers'[w].capped = workers[w].capped
             /\ workers'[w].budget = Dec(workers[w].budget)
             /\ workers'[w].start = Older(workers[w].start, Horizon)
             /\ workers'[w].end = Older(workers[w].end, Horizon)
             /\ workers[w].budget \in Nat /\ 0 < workers[w].budget
             /\ workers[w].start \in 0..Horizon /\ workers[w].end \in 0..Horizon
             /\ workers[w].start + workers[w].budget < Horizon
  <2>1. workers[w] \in Container
    BY <1>0
  <2>2. workers'[w].pc = workers[w].pc
    BY <2>1 DEF Tick, Container
  <2>3. Working(w) /\ workers[w].pc # "off"
    BY <1>2, <2>2 DEF Working
  <2>4. workers'[w] = [workers[w] EXCEPT !.budget = Dec(@), !.start = Older(@, Horizon),
                                         !.end = Older(@, Horizon)]
    BY <2>3 DEF Tick, Working
  <2>5. /\ workers[w].budget \in Nat /\ 0 < workers[w].budget
        /\ workers[w].start \in 0..Horizon /\ workers[w].end \in 0..Horizon
    <3>1. workers[w].budget > 0
      BY <2>3 DEF Tick
    <3> QED
      BY <2>1, <3>1, Limits DEF Container
  <2>6. workers[w].start + workers[w].budget < Horizon
    BY <2>3 DEF IInv, WindowAges
  <2> QED
    BY <2>1, <2>2, <2>3, <2>4, <2>5, <2>6 DEF Container
<1>3. HiddenIsYoung'
  <2> SUFFICES ASSUME NEW e \in Event, events'[e].state = "hidden"
               PROVE  events'[e].age <= MaxDelay
    BY DEF HiddenIsYoung
  <2>1. /\ events[e].state = "hidden" /\ events[e].age \in Nat
        /\ events'[e].age = Older(events[e].age, Horizon)
    BY <1>1, Limits DEF Pending
  <2>2. events[e].age < MaxDelay
    BY <2>1 DEF Tick
  <2>3. Older(events[e].age, Horizon) <= events[e].age + 1
        /\ Older(events[e].age, Horizon) \in Nat
    BY <2>1, Counting, Limits
  <2> QED
    BY <2>1, <2>2, <2>3, Limits
<1>4. NothingBehindCursor'
  <2> SUFFICES ASSUME NEW e \in Event, Pending(e)', cursor' # NoCursor
               PROVE  events'[e].age <= cursor' + Overlap
    BY DEF NothingBehindCursor, Pending
  <2>1. cursor # NoCursor /\ cursor' = Older(cursor, Horizon) /\ cursor \in 0..Horizon
    BY <1>0 DEF Tick
  <2>2. events[e].age <= cursor + Overlap
    BY <1>1, <2>1 DEF IInv, NothingBehindCursor, Pending
  <2> QED
    BY <1>1, <2>1, <2>2, OlderReaches, Limits
<1>5. ASSUME NEW w \in Worker
      PROVE  WindowAges(w)' /\ CleanReadLeavesNothing(w)' /\ OwnWindowReaches(w)'
  <2>1. WindowAges(w)'
    <3> SUFFICES ASSUME Working(w)'
                 PROVE  workers'[w].start + workers'[w].budget < Horizon
      BY DEF WindowAges
    <3>1. /\ Dec(workers[w].budget) = workers[w].budget - 1
          /\ Older(workers[w].start, Horizon) = workers[w].start + 1
      BY <1>2, Limits DEF Dec, Older
    <3> QED
      BY <1>2, <3>1, Limits
  <2>2. CleanReadLeavesNothing(w)'
    <3> SUFFICES ASSUME NEW e \in Event, Working(w)', workers'[w].clean, Pending(e)',
                        HasRead(w, e)'
                 PROVE  \/ events'[e].age <= workers'[w].end + Overlap
                        \/ ~workers'[w].capped /\ workers'[w].start < events'[e].age
      BY DEF CleanReadLeavesNothing
    <3>1. HasRead(w, e)
      BY <1>1, <1>2 DEF HasRead
    <3>2. \/ events[e].age <= workers[w].end + Overlap
          \/ ~workers[w].capped /\ workers[w].start < events[e].age
      BY <1>1, <1>2, <3>1 DEF IInv, CleanReadLeavesNothing
    <3>3. CASE events[e].age <= workers[w].end + Overlap
      BY <1>1, <1>2, <3>3, OlderReaches, Limits
    <3>4. CASE ~workers[w].capped /\ workers[w].start < events[e].age
      <4>1. Older(workers[w].start, Horizon) < Older(events[e].age, Horizon)
        BY <1>1, <1>2, <3>4, Limits DEF Older
      <4> QED
        BY <1>1, <1>2, <3>4, <4>1
    <3> QED
      BY <3>2, <3>3, <3>4
  <2>3. OwnWindowReaches(w)'
    <3> SUFFICES ASSUME Working(w)', workers'[w].own, ~workers'[w].capped, cursor' # NoCursor,
                        NEW e \in Event, Pending(e)'
                 PROVE  events'[e].age <= workers'[w].start
      BY DEF OwnWindowReaches
    <3>1. cursor # NoCursor
      BY DEF Tick
    <3>2. events[e].age <= workers[w].start
      BY <1>1, <1>2, <3>1 DEF IInv, OwnWindowReaches
    <3>3. Older(events[e].age, Horizon) <= Older(workers[w].start, Horizon)
      BY <1>1, <1>2, <3>2, Limits DEF Older
    <3> QED
      BY <1>1, <1>2, <3>3
  <2> QED
    BY <2>1, <2>2, <2>3
<1> QED
  BY <1>3, <1>4, <1>5 DEF IInv

\* Every action keeps the invariant.
LEMMA Inductive ==
  ASSUME IInv, [Next]_vars
  PROVE  IInv'
<1>0. /\ TypeOK' /\ OneOwner'
      /\ workers \in [Worker -> Container] /\ events \in [Event -> Span] /\ Off.pc = "off"
  BY TypeNext, OneOwnerNext DEF IInv, TypeOK, Off
<1>1. ASSUME workers' = Disowned(workers), events' = events, cursor' = cursor
      PROVE  IInv'
  <2>1. ASSUME NEW w \in Worker
        PROVE  Steady(w)
    <3>1. workers'[w] = [workers[w] EXCEPT !.own = FALSE] /\ workers[w] \in Container
      BY <1>0, <1>1, DisownedFacts
    <3> QED
      BY <1>1, <3>1 DEF Steady, Container
  <2> QED
    BY <1>0, <1>1, <2>1, SteadyStep DEF Fewer, Pending
<1>2. ASSUME NEW w \in Worker, events' = events, cursor' = cursor,
             \A v \in Worker : v # w => workers'[v] = workers[v], ~Working(w)'
      PROVE  IInv'
  <2>1. \A v \in Worker : Steady(v)
    BY <1>2 DEF Steady
  <2> QED
    BY <1>0, <1>2, <2>1, SteadyStep DEF Fewer, Pending
<1>3. ASSUME workers' = workers, cursor' = cursor, Fewer
      PROVE  IInv'
  BY <1>0, <1>3, SteadyStep DEF Steady
<1>4. CASE Schedule \/ Request \/ FailDispatch \/ Poll
  BY <1>1, <1>4 DEF Schedule, Request, Create, FailDispatch, Poll
<1>5. CASE Acknowledge \/ LoseDispatcher \/ Calm \/ UNCHANGED vars
  BY <1>3, <1>5 DEF Acknowledge, LoseDispatcher, Calm, vars, Fewer, Pending
<1>6. ASSUME NEW w \in Worker, Spawn(w)
      PROVE  IInv'
  <2>1. workers'[w].pc = "started"
    BY <1>0, <1>6 DEF Spawn, Off
  <2> QED
    BY <1>0, <1>2, <1>6, <2>1 DEF Spawn, Working
<1>7. ASSUME NEW w \in Worker, Claim(w)
      PROVE  IInv'
  <2>1. workers'[w].pc \in {"claimed", "off"}
    BY <1>0, <1>7 DEF Claim, Container
  <2>2. \A v \in Worker : v # w => workers'[v] = workers[v]
    BY <1>0, <1>7 DEF Claim
  <2> QED
    BY <1>2, <1>7, <2>1, <2>2 DEF Claim, Working
<1>8. ASSUME NEW w \in Worker, Raise(w)
      PROVE  IInv'
  <2>1. workers'[w].pc = "failing"
    BY <1>0, <1>8 DEF Raise, Off
  <2> QED
    BY <1>0, <1>2, <1>8, <2>1 DEF Raise, Working
<1>9. ASSUME NEW w \in Worker, Fail(w)
      PROVE  IInv'
  <2>1. [workers EXCEPT ![w] = Off] \in [Worker -> Container]
    BY <1>0, Beginnings
  <2>2. CASE workers' = Disowned([workers EXCEPT ![w] = Off])
    <3>1. \A v \in Worker : workers'[v] = [[workers EXCEPT ![w] = Off][v] EXCEPT !.own = FALSE]
      BY <2>1, <2>2, DisownedFacts
    <3>2. workers'[w].pc = "off"
      BY <1>0, <3>1 DEF Off
    <3>3. \A v \in Worker : v # w => workers'[v] = [workers[v] EXCEPT !.own = FALSE]
      BY <1>0, <3>1
    <3>4. cursor' = cursor /\ events' = events
      BY <1>9 DEF Fail
    <3>5. ASSUME NEW v \in Worker
          PROVE  Steady(v)
      <4>1. CASE v = w
        BY <3>2, <4>1 DEF Steady, Working
      <4>2. CASE v # w
        <5>1. workers'[v] = [workers[v] EXCEPT !.own = FALSE] /\ workers[v] \in Container
          BY <1>0, <3>3, <4>2
        <5> QED
          BY <3>4, <5>1 DEF Steady, Container
      <4> QED
        BY <4>1, <4>2
    <3> QED
      BY <1>0, <3>4, <3>5, SteadyStep DEF Fewer, Pending
  <2>3. CASE workers' # Disowned([workers EXCEPT ![w] = Off])
    <3>1. workers'[w].pc \in {"started", "off"}
      BY <1>0, <1>9, <2>3 DEF Fail, Container
    <3>2. \A v \in Worker : v # w => workers'[v] = workers[v]
      BY <1>0, <1>9, <2>3 DEF Fail
    <3> QED
      BY <1>2, <1>9, <3>1, <3>2 DEF Fail, Working
  <2> QED
    BY <2>2, <2>3
<1>10. ASSUME NEW w \in Worker, Stop(w)
       PROVE  IInv'
  BY <1>0, <1>2, <1>10 DEF Stop, Working
<1>11. ASSUME NEW e \in Event, Emit(e)
       PROVE  IInv'
  <2>1. Fewer
    BY <1>0, <1>11 DEF Emit, Fewer, Pending
  <2> QED
    BY <1>3, <1>11, <2>1 DEF Emit
<1>12. ASSUME NEW e \in Event, Appear(e)
       PROVE  IInv'
  <2>1. Fewer
    BY <1>0, <1>12 DEF Appear, Fewer, Pending, Span
  <2> QED
    BY <1>3, <1>12, <2>1 DEF Appear
<1>13. ASSUME NEW w \in Worker, Window(w) \/ ReadScope(w) \/ ReadPart(w) \/ Complete(w)
       PROVE  IInv'
  BY <1>0, <1>13, WindowKeeps, ReadKeeps, CompleteKeeps
<1>14. CASE Tick
  BY <1>0, <1>14, TickKeeps
<1> QED
  BY <1>4, <1>5, <1>6, <1>7, <1>8, <1>9, <1>10, <1>11, <1>12, <1>13, <1>14
     DEF Next, WorkerStep

\* The first state satisfies the invariant: nothing runs and nothing is emitted.
LEMMA Initial == Init => IInv
<1> SUFFICES ASSUME Init
             PROVE  IInv
  OBVIOUS
<1>1. TypeOK
  <2>1. Interval \in 0..Interval
    BY Limits
  <2>2. workers \in [Worker -> Container] /\ events \in [Event -> Span] /\ job \in Row
    BY Beginnings DEF Init
  <2> QED
    BY <2>1, <2>2 DEF Init, TypeOK
<1>2. /\ \A w \in Worker : workers[w].pc = "off" /\ ~workers[w].own
      /\ \A e \in Event : events[e].state = "none"
      /\ job.dispatcher = "done"
  BY DEF Init, Off, Unborn, NoRow
<1>3. OneOwner
  BY <1>2 DEF OneOwner
<1>4. ASSUME NEW w \in Worker
      PROVE  WindowAges(w) /\ CleanReadLeavesNothing(w) /\ OwnWindowReaches(w)
  BY <1>2 DEF WindowAges, CleanReadLeavesNothing, OwnWindowReaches, Working
<1>5. HiddenIsYoung /\ NothingBehindCursor
  BY <1>2 DEF HiddenIsYoung, NothingBehindCursor
<1> QED
  BY <1>1, <1>3, <1>4, <1>5 DEF IInv

-----------------------------------------------------------------------------
\* The inductive invariant of the collection holds in every reachable state: of the row
\* and its containers, the windows and the cursor.
THEOREM Invariance == Spec => []IInv
BY Initial, Inductive, PTL DEF Spec

\* Rows, containers, windows, the cursor and the spans keep their types, whatever the
\* settings of the windows and the number of each.
THEOREM TypeCorrect == Spec => []TypeOK
<1>1. IInv => TypeOK
  BY DEF IInv
<1> QED
  BY <1>1, Invariance, PTL

\* A row has one container that can claim it and make it succeed, and so make its window
\* end count: the compare-and-swap of the claim and of the completion, and the one spawn
\* of a dispatcher.
THEOREM OneOwnerOfRow == Spec => []OneOwner
<1>1. IInv => OneOwner
  BY DEF IInv
<1> QED
  BY <1>1, Invariance, PTL

\* No span is lost without a word: until it is stored or reported, the next window reaches
\* it, whatever stops, fails or is late in between (the cursor of a safe run, the overlap of
\* its successor, and the gap that a capped run reports).
THEOREM NothingLost == Spec => []NothingBehindCursor
<1>1. IInv => NothingBehindCursor
  BY DEF IInv
<1> QED
  BY <1>1, Invariance, PTL

=============================================================================
