------------------------ MODULE ResourceWrites_proofs ------------------------
(***************************************************************************)
(* The safety of ResourceWrites for every number of requests, grants,      *)
(* handlers and containers and every hard timeout shorter than the lease.  *)
(*                                                                         *)
(* None of the properties is inductive.  That a request is attempted once  *)
(* needs the phase of its row to tell whether it was (AttemptIsMarked);    *)
(* that a failed request is untouched needs, beside that, no two           *)
(* containers at work on it (OneLive), so that nobody ends it under a      *)
(* container that goes on; and this needs the lease of a claim to be       *)
(* longer than what is left of its container (ClaimIsHeld, BudgetBound).   *)
(***************************************************************************)
EXTENDS ResourceWrites, TLAPS

\* Between its claim and its end.
Live == {"claimed", "checked", "marking", "verify", "finishing", "failing"} \cup Writing

\* No container has more time left than the hard timeout.
BudgetBound == \A w \in Worker : workers[w].budget <= WorkerTimeout

\* The claim of a container at work stands, for longer than the container.
ClaimIsHeld ==
    \A w \in Worker : workers[w].pc \in Live =>
        LET row == rows[workers[w].req] IN
        /\ row.state = "running" /\ row.nonce = workers[w].nonce
        /\ workers[w].budget < row.lease

\* One container is at work on a request.
OneLive ==
    \A v, w \in Worker : workers[v].pc \in Live /\ workers[w].pc \in Live
                            /\ workers[v].req = workers[w].req => v = w

\* The provider has heard nothing of a request.
Untouched(r) == attempts[r] = 0 /\ branch[r] = "none" /\ r \notin landed

\* The phase of a row tells of every attempt, and its state of what may still follow.
AttemptIsMarked ==
    /\ \A r \in Request :
          /\ rows[r].phase = "not_started" => Untouched(r)
          /\ rows[r].phase # "not_started" => attempts[r] = 1
          /\ rows[r].phase = "finished" => rows[r].state = "succeeded"
          /\ rows[r].state \in {"absent", "preview", "pending_review", "rejected", "approved",
                                "failed"} => rows[r].phase = "not_started"
    /\ \A w \in Worker : workers[w].pc \in Writing \cup {"verify", "finishing"} =>
          rows[workers[w].req].phase = "provider_attempted"

\* What is seen of a write in full, at the provider or by a process, did land.
LandedIsTrue ==
    /\ \A r \in Request : branch[r] = "pull" => r \in landed
    /\ \A g \in Grant : resource[g].by # None => resource[g].by \in landed
    /\ \A w \in Worker : workers[w].pc \in {"verify", "finishing"} => workers[w].req \in landed
    /\ \A h \in Handler : handlers[h].pc = "reconciling" => handlers[h].req \in landed

\* Every row has its grant, and of the rows of a grant one is active.
OneActive ==
    /\ \A r \in Request : rows[r].state # "absent" => rows[r].grant \in Grant
    /\ \A q, r \in Request : rows[q].state \in ActiveStates /\ rows[r].state \in ActiveStates
                                /\ rows[q].grant = rows[r].grant => q = r

\* How far a request has come.
Rank == [absent |-> 0, preview |-> 1, pending_review |-> 2, approved |-> 3, running |-> 4,
         needs_manual_resolution |-> 5, rejected |-> 6, failed |-> 6, succeeded |-> 6]

\* What may happen to a row: its state stays or goes on, never back and never from one end to
\* another; what was previewed stays, and who reviewed it from the decision on; only the claim
\* of an approval issues a claim nonce.
Onward(old, new) ==
    /\ new.state = old.state \/ Rank[old.state] < Rank[new.state]
    /\ old.state # "absent" =>
          new.grant = old.grant /\ new.actor = old.actor /\ new.before = old.before
    /\ Rank[old.state] > Rank["pending_review"] => new.reviewer = old.reviewer
    /\ \/ new.nonce = old.nonce
       \/ new.nonce = old.nonce + 1 /\ old.state = "approved" /\ new.state = "running"

\* A request goes through its states in one direction, whatever is reviewed, dispatched,
\* claimed and reconciled again.
RequestsGoOnward == [][\A r \in Request : Onward(rows[r], rows'[r])]_vars

\* A request is claimed once, however often it is dispatched: there is no second execution, not
\* even of one that never reached the provider.
ClaimedOnce ==
    \A r \in Request :
        /\ rows[r].nonce <= 1
        /\ Rank[rows[r].state] <= Rank["approved"] => rows[r].nonce = 0

\* The inductive invariant.
IInv == TypeOK /\ BudgetBound /\ ClaimIsHeld /\ OneLive /\ AttemptIsMarked /\ LandedIsTrue
          /\ OneActive /\ ClaimedOnce

-----------------------------------------------------------------------------
States == {"absent", "preview", "pending_review", "rejected", "succeeded", "failed"}
             \cup ActiveStates

\* The updates of a row and of a container keep their types.
LEMMA RowUpdates ==
  ASSUME NEW x \in Row
  PROVE  /\ \A s \in States : [x EXCEPT !.state = s] \in Row
         /\ \A s \in States, u \in User \cup {None} : [x EXCEPT !.state = s, !.reviewer = u] \in Row
         /\ \A u \in User, g \in Grant, c \in Content : 
              [x EXCEPT !.state = "preview", !.actor = u, !.grant = g, !.before = c,
                        !.ttl = PreviewTTL] \in Row
         /\ [x EXCEPT !.state = "running", !.nonce = x.nonce + 1, !.lease = WorkerLease] \in Row
         /\ [x EXCEPT !.phase = "provider_attempted"] \in Row
         /\ [x EXCEPT !.state = "succeeded", !.phase = "finished"] \in Row
<1>1. \A s \in States : [x EXCEPT !.state = s] \in Row
  BY DEF Row, States
<1>2. \A s \in States, u \in User \cup {None} : [x EXCEPT !.state = s, !.reviewer = u] \in Row
  BY DEF Row, States
<1>3. \A u \in User, g \in Grant, c \in Content :
         [x EXCEPT !.state = "preview", !.actor = u, !.grant = g, !.before = c,
                   !.ttl = PreviewTTL] \in Row
  BY ResourceWritesAssumption DEF Row
<1>4. \A n, l \in Nat : [x EXCEPT !.state = "running", !.nonce = n, !.lease = l] \in Row
  BY DEF Row, ActiveStates
<1>6. x.nonce + 1 \in Nat /\ WorkerLease \in Nat
  BY ResourceWritesAssumption DEF Row
<1>5. /\ [x EXCEPT !.phase = "provider_attempted"] \in Row
      /\ [x EXCEPT !.state = "succeeded", !.phase = "finished"] \in Row
  BY DEF Row
<1> QED
  BY <1>1, <1>2, <1>3, <1>4, <1>5, <1>6

\* The partial updates of a container keep its type.
LEMMA ContainerUpdates ==
  ASSUME NEW c \in Container
  PROVE  /\ \A pc \in Live : [c EXCEPT !.pc = pc] \in Container
         /\ \A n \in Nat : [c EXCEPT !.pc = "claimed", !.nonce = n] \in Container
BY DEF Container, Live, Writing

\* A countdown stays a natural number and stays below a larger one.
LEMMA DecFacts ==
  /\ \A n \in Nat : Dec(n) \in Nat /\ Dec(n) <= n
  /\ \A m, n \in Nat : 0 < m /\ m < n => Dec(m) < Dec(n)
BY DEF Dec

\* The initial state satisfies the inductive invariant.
LEMMA InitInv == Init => IInv
<1> SUFFICES ASSUME Init PROVE IInv
  OBVIOUS
<1>1. TypeOK
  BY ResourceWritesAssumption DEF Init, TypeOK, Row, Content, Container, HandlerState, Off, Idle
<1>2. BudgetBound
  BY ResourceWritesAssumption DEF Init, BudgetBound, Off
<1>3. ClaimIsHeld /\ OneLive
  BY DEF Init, ClaimIsHeld, OneLive, Live, Writing, Off
<1>4. AttemptIsMarked /\ LandedIsTrue /\ OneActive
  BY DEF Init, AttemptIsMarked, Untouched, LandedIsTrue, OneActive, ActiveStates, Writing, Off, Idle
<1>5. ClaimedOnce
  BY DEF Init, ClaimedOnce
<1> QED
  BY <1>1, <1>2, <1>3, <1>4, <1>5 DEF IInv

\* Every step keeps the types.
LEMMA TypeStep == TypeOK /\ [Next]_vars => TypeOK'
<1> SUFFICES ASSUME TypeOK, [Next]_vars PROVE TypeOK'
  OBVIOUS
<1> USE ResourceWritesAssumption
<1>1. ASSUME NEW r \in Request, NEW u \in User, NEW g \in Grant, Preview(r, u, g) PROVE TypeOK'
  BY <1>1, RowUpdates DEF Preview, TypeOK, outside
<1>2. ASSUME NEW r \in Request, Submit(r) PROVE TypeOK'
  BY <1>2, RowUpdates DEF Submit, SetRow, TypeOK, outside, States
<1>3. ASSUME NEW r \in Request, LoseCall(r) \/ EditBranch(r) PROVE TypeOK'
  BY <1>3 DEF LoseCall, EditBranch, TypeOK, outside
<1>4. ASSUME NEW r \in Request, NEW w \in Worker, Start(w, r) PROVE TypeOK'
  BY <1>4 DEF Start, TypeOK, outside, Container
<1>5. ASSUME NEW h \in Handler, HandlerStep(h) PROVE TypeOK'
  <2>1. ASSUME NEW u \in User, NEW r \in Request, NEW a \in BOOLEAN, Review(h, u, r, a)
        PROVE TypeOK'
    BY <2>1 DEF Review, TypeOK, outside, HandlerState
  <2>2. ASSUME NEW u \in User, NEW r \in Request, Reconcile(h, u, r) PROVE TypeOK'
    BY <2>2 DEF Reconcile, TypeOK, outside, HandlerState
  <2>3. CASE Decide(h)
    <3>1. UNCHANGED <<calls, workers, github, resource, branch, landed, attempts>>
      BY <2>3 DEF Decide, outside
    <3>2. handlers[h].req \in Request /\ Verdict(h) \in States
      BY <2>3 DEF Decide, TypeOK, Verdict, States, ActiveStates
    <3>3. rows' \in [Request -> Row]
      <4> DEFINE r == handlers[h].req
      <4>1. handlers[h].user \in User \cup {None}
        BY DEF TypeOK, HandlerState
      <4>2. [rows[r] EXCEPT !.state = Verdict(h), !.reviewer = handlers[h].user] \in Row
        BY <3>2, <4>1, RowUpdates DEF TypeOK
      <4> QED
        BY <2>3, <4>2 DEF Decide, TypeOK
    <3>4. handlers' = [handlers EXCEPT ![h] = Idle]
             \/ handlers' = [handlers EXCEPT ![h].pc = "dispatching"]
      BY <2>3 DEF Decide, Answered
    <3>5. handlers' \in [Handler -> HandlerState]
             /\ \A i \in Handler : handlers'[i].pc # "idle" => handlers'[i].req \in Request
      <4>1. CASE handlers' = [handlers EXCEPT ![h] = Idle]
        BY <4>1 DEF TypeOK, HandlerState, Idle
      <4>2. CASE handlers' = [handlers EXCEPT ![h].pc = "dispatching"]
        BY <3>2, <4>2 DEF TypeOK, HandlerState
      <4> QED
        BY <3>4, <4>1, <4>2
    <3> QED
      BY <3>1, <3>3, <3>5 DEF TypeOK
  <2>4. CASE Abandon(h)
    BY <2>4 DEF Abandon, TypeOK, outside, HandlerState, Idle
  <2>6. CASE Dispatch(h)
    <3>1. handlers[h].req \in Request /\ calls[handlers[h].req] + 1 \in 0..MaxCalls
      BY <2>6 DEF Dispatch, TypeOK
    <3> QED
      BY <2>6, <3>1 DEF Dispatch, TypeOK, outside, HandlerState, Idle
  <2>5. CASE ReconcileFinish(h)
    BY <2>5, RowUpdates DEF ReconcileFinish, TypeOK, outside, HandlerState, Idle
  <2> QED
    BY <1>5, <2>1, <2>2, <2>3, <2>4, <2>5, <2>6 DEF HandlerStep
<1>6. ASSUME NEW w \in Worker, WorkerStep(w) PROVE TypeOK'
  <2> DEFINE r == workers[w].req
  <2>a. ASSUME NEW pc \in Live, Goto(w, pc), workers[w].pc # "off"
        PROVE  /\ workers' \in [Worker -> Container]
               /\ \A v \in Worker : workers'[v].pc # "off" => workers'[v].req \in Request
    <3>1. [workers[w] EXCEPT !.pc = pc] \in Container
      BY ContainerUpdates DEF TypeOK
    <3> QED
      BY <2>a, <3>1 DEF Goto, TypeOK, Container
  <2>b. ASSUME Exit(w)
        PROVE  /\ workers' \in [Worker -> Container]
               /\ \A v \in Worker : workers'[v].pc # "off" => workers'[v].req \in Request
    BY <2>b DEF Exit, Off, TypeOK, Container
  <2>1. CASE Claim(w)
    <3>1. r \in Request /\ rows[r] \in Row
      BY <2>1 DEF Claim, TypeOK
    <3>2. CASE Take(w, WorkerLease)
      <4>1. [rows[r] EXCEPT !.state = "running", !.nonce = rows[r].nonce + 1,
                            !.lease = WorkerLease] \in Row
        BY <3>1, RowUpdates
      <4>2. [workers[w] EXCEPT !.pc = "claimed", !.nonce = rows[r].nonce + 1] \in Container
        <5>1. rows[r].nonce + 1 \in Nat
          BY <3>1 DEF Row
        <5> QED
          BY <5>1, ContainerUpdates DEF TypeOK
      <4> QED
        BY <2>1, <3>1, <3>2, <4>1, <4>2 DEF Claim, Take, TypeOK, outside, Container
    <3>3. CASE Exit(w) /\ UNCHANGED rows
      BY <2>1, <2>b, <3>3 DEF Claim, TypeOK, outside
    <3>4. ASSUME NEW s \in States, Exit(w), SetRow(r, s) PROVE TypeOK'
      BY <2>1, <2>b, <3>1, <3>4, RowUpdates DEF Claim, SetRow, TypeOK, outside
    <3> QED
      BY <2>1, <3>2, <3>3, <3>4 DEF Claim, States, ActiveStates
  <2>2. CASE Rebuild(w) \/ CheckAdmins(w) \/ Raise(w) \/ Compare(w) \/ Verify(w)
    <3>1. PICK pc \in Live : Goto(w, pc)
      BY <2>2 DEF Rebuild, CheckAdmins, Raise, Compare, Verify, Live, Writing
    <3>2. workers[w].pc # "off"
      BY <2>2 DEF Rebuild, CheckAdmins, Raise, Compare, Verify, Writing
    <3> QED
      BY <2>2, <2>a, <3>1, <3>2 DEF Rebuild, CheckAdmins, Raise, Compare, Verify, TypeOK, outside
  <2>3. CASE Mark(w)
    <3>1. r \in Request /\ workers[w].pc # "off"
      BY <2>3 DEF Mark, TypeOK
    <3>2. PICK pc \in Live : Goto(w, pc)
      BY <2>3 DEF Mark, Live, Writing
    <3>3. [rows[r] EXCEPT !.phase = "provider_attempted"] \in Row
      BY <3>1, RowUpdates DEF TypeOK
    <3> QED
      BY <2>3, <2>a, <3>1, <3>2, <3>3 DEF Mark, TypeOK, outside
  <2>4. CASE GithubCall(w)
    <3>1. r \in Request /\ workers[w].pc \in {"branch", "commit", "pull"}
      BY <2>4 DEF GithubCall, TypeOK
    <3>2. PICK pc \in Live : Goto(w, pc)
      BY <2>4, <3>1 DEF GithubCall, Live, Writing
    <3>3. branch' \in [Request -> {"none", "branch", "commit", "pull", "edited"}]
      BY <2>4, <3>1 DEF GithubCall, TypeOK
    <3> QED
      BY <2>4, <2>a, <3>1, <3>2, <3>3 DEF GithubCall, TypeOK
  <2>5. CASE Put(w)
    <3>1. r \in Request /\ workers[w].pc # "off"
      BY <2>5 DEF Put, TypeOK
    <3>2. PICK pc \in Live : Goto(w, pc)
      BY <2>5 DEF Put, Live
    <3>3. Proposed(r) \in Content
      BY <3>1 DEF Proposed, TypeOK, Row, Content
    <3> QED
      BY <2>5, <2>a, <3>1, <3>2, <3>3 DEF Put, TypeOK
  <2>6. CASE Finish(w)
    <3>1. r \in Request /\ rows[r] \in Row
      BY <2>6 DEF Finish, TypeOK
    <3>2. \A s \in {"failed", "needs_manual_resolution"} : SetRow(r, s) => rows' \in [Request -> Row]
      <4>1. \A s \in {"failed", "needs_manual_resolution"} : [rows[r] EXCEPT !.state = s] \in Row
        BY <3>1, RowUpdates DEF States, ActiveStates
      <4> QED
        BY <3>1, <4>1 DEF SetRow, TypeOK
    <3>3. [rows[r] EXCEPT !.state = "succeeded", !.phase = "finished"] \in Row
      BY <3>1, RowUpdates
    <3>4. rows' \in [Request -> Row]
      BY <2>6, <3>1, <3>2, <3>3 DEF Finish, TypeOK
    <3> QED
      BY <2>6, <2>b, <3>4 DEF Finish, TypeOK, outside
  <2> QED
    BY <1>6, <2>1, <2>2, <2>3, <2>4, <2>5, <2>6 DEF WorkerStep
<1>7. ASSUME NEW w \in Worker, Stop(w) PROVE TypeOK'
  BY <1>7 DEF Stop, Exit, Off, TypeOK, outside, Container
<1>8. ASSUME NEW g \in Grant, Edit(g) PROVE TypeOK'
  BY <1>8 DEF Edit, TypeOK, Content
<1>9. CASE Tick
  <2>1. \A x \in Row : [x EXCEPT !.ttl = Dec(@), !.lease = Dec(@)] \in Row
    BY DecFacts DEF Row
  <2>2. \A c \in Container : /\ [c EXCEPT !.budget = Dec(@)] \in Container
                             /\ [c EXCEPT !.budget = Dec(@)].pc = c.pc
                             /\ [c EXCEPT !.budget = Dec(@)].req = c.req
    BY DecFacts DEF Container
  <2> QED
    BY <1>9, <2>1, <2>2 DEF Tick, TypeOK, outside
<1>10. CASE UNCHANGED vars
  BY <1>10 DEF vars, TypeOK
<1> QED
  BY <1>1, <1>2, <1>3, <1>4, <1>5, <1>6, <1>7, <1>8, <1>9, <1>10 DEF Next

-----------------------------------------------------------------------------
\* A container that moves to another point keeps its claim; one that exits has none.
LEMMA GotoFacts ==
  ASSUME TypeOK, NEW w \in Worker, NEW pc, Goto(w, pc)
  PROVE  \A v \in Worker : /\ workers'[v].req = workers[v].req
                           /\ workers'[v].nonce = workers[v].nonce
                           /\ workers'[v].budget = workers[v].budget
                           /\ v # w => workers'[v] = workers[v]
                           /\ v = w => workers'[v].pc = pc
BY DEF Goto, TypeOK, Container

\* A container that exits is off, and no other container changes.
LEMMA ExitFacts ==
  ASSUME TypeOK, NEW w \in Worker, Exit(w)
  PROVE  workers'[w].pc = "off" /\ \A v \in Worker : v # w => workers'[v] = workers[v]
BY DEF Exit, Off, TypeOK

\* A tick shortens leases and budgets, and of rows and containers leaves what they are at.
LEMMA TickFacts ==
  ASSUME TypeOK, Tick
  PROVE  /\ \A r \in Request : /\ rows'[r].state = rows[r].state /\ rows'[r].phase = rows[r].phase
                              /\ rows'[r].nonce = rows[r].nonce
                              /\ rows'[r].lease = Dec(rows[r].lease)
         /\ \A w \in Worker : /\ workers'[w].pc = workers[w].pc
                             /\ workers'[w].req = workers[w].req
                             /\ workers'[w].nonce = workers[w].nonce
                             /\ workers'[w].budget = Dec(workers[w].budget)
<1>1. ASSUME NEW r \in Request
      PROVE  /\ rows'[r].state = rows[r].state /\ rows'[r].phase = rows[r].phase
             /\ rows'[r].nonce = rows[r].nonce /\ rows'[r].lease = Dec(rows[r].lease)
  <2>1. rows[r] \in Row /\ rows'[r] = [rows[r] EXCEPT !.ttl = Dec(@), !.lease = Dec(@)]
    BY DEF Tick, TypeOK
  <2> QED
    BY <2>1 DEF Row
<1>2. ASSUME NEW w \in Worker
      PROVE  /\ workers'[w].pc = workers[w].pc /\ workers'[w].req = workers[w].req
             /\ workers'[w].nonce = workers[w].nonce
             /\ workers'[w].budget = Dec(workers[w].budget)
  <2>1. workers[w] \in Container /\ workers'[w] = [workers[w] EXCEPT !.budget = Dec(@)]
    BY DEF Tick, TypeOK
  <2> QED
    BY <2>1 DEF Container
<1> QED
  BY <1>1, <1>2

\* A container that arrives claims its row, the first attempt of it, or exits; the row ends
\* or stays, with its phase, and nothing else changes.
LEMMA ClaimFacts ==
  ASSUME TypeOK, NEW w \in Worker, Claim(w)
  PROVE  LET r == workers[w].req IN
         /\ r \in Request /\ UNCHANGED <<calls, handlers, outside, attempts>>
         /\ \A v \in Worker : v # w => workers'[v] = workers[v]
         /\ \/ workers'[w].pc = "off"
            \/ workers'[w].pc = "claimed" /\ workers'[w].req = r
         /\ \A q \in Request : q # r => rows'[q] = rows[q]
         /\ rows'[r].phase = rows[r].phase
         /\ \/ rows[r].state = "approved" /\ rows'[r].state = "failed"
            \/ rows[r].state = "running" /\ rows'[r].state = "needs_manual_resolution"
            \/ /\ rows[r].state = "approved" /\ rows[r].phase = "not_started"
               /\ rows'[r].state = "running"
            \/ rows'[r] = rows[r]
<1> DEFINE r == workers[w].req
<1>1. /\ r \in Request /\ rows \in [Request -> Row] /\ workers \in [Worker -> Container]
      /\ rows[r] \in Row /\ workers[w] \in Container
  BY DEF Claim, TypeOK
<1>2. UNCHANGED <<calls, handlers, outside, attempts>>
  BY DEF Claim
<1>3. CASE /\ Take(w, WorkerLease)
           /\ rows[r].state = "approved" /\ rows[r].phase = "not_started"
  <2> DEFINE n == rows[r].nonce + 1
  <2>1. rows' = [rows EXCEPT ![r] = [rows[r] EXCEPT !.state = "running", !.nonce = n,
                                                    !.lease = WorkerLease]]
    BY <1>3 DEF Take
  <2>2. workers' = [workers EXCEPT ![w] = [workers[w] EXCEPT !.pc = "claimed", !.nonce = n]]
    BY <1>3 DEF Take
  <2> HIDE DEF n
  <2>3. /\ rows'[r].state = "running" /\ rows'[r].phase = rows[r].phase
        /\ \A q \in Request : q # r => rows'[q] = rows[q]
    BY <1>1, <2>1 DEF Row
  <2>4. /\ workers'[w].pc = "claimed" /\ workers'[w].req = r
        /\ \A v \in Worker : v # w => workers'[v] = workers[v]
    BY <1>1, <2>2 DEF Container
  <2> QED
    BY <1>1, <1>2, <1>3, <2>3, <2>4
<1>4. ASSUME NEW s \in {"failed", "needs_manual_resolution"}, Exit(w), SetRow(r, s)
      PROVE  /\ workers'[w].pc = "off" /\ \A v \in Worker : v # w => workers'[v] = workers[v]
             /\ \A q \in Request : q # r => rows'[q] = rows[q]
             /\ rows'[r].phase = rows[r].phase /\ rows'[r].state = s
  <2>1. rows' = [rows EXCEPT ![r] = [rows[r] EXCEPT !.state = s]]
    BY <1>4 DEF SetRow
  <2>2. /\ \A q \in Request : q # r => rows'[q] = rows[q]
        /\ rows'[r].phase = rows[r].phase /\ rows'[r].state = s
    BY <1>1, <2>1 DEF Row
  <2> QED
    BY <1>4, <2>2, ExitFacts
<1>5. CASE Exit(w) /\ UNCHANGED rows
  BY <1>1, <1>2, <1>5, ExitFacts
<1>6. \/ /\ Take(w, WorkerLease)
         /\ rows[r].state = "approved" /\ rows[r].phase = "not_started"
      \/ Exit(w) /\ UNCHANGED rows
      \/ Exit(w) /\ SetRow(r, "failed") /\ rows[r].state = "approved"
      \/ Exit(w) /\ SetRow(r, "needs_manual_resolution") /\ rows[r].state = "running"
  BY DEF Claim
<1> QED
  BY <1>1, <1>2, <1>3, <1>4, <1>5, <1>6

\* The steps of a container that leave the rows alone only move it.
LEMMA MoveFacts ==
  ASSUME NEW w \in Worker,
         Rebuild(w) \/ CheckAdmins(w) \/ Raise(w) \/ GithubCall(w) \/ Compare(w) \/ Put(w)
            \/ Verify(w)
  PROVE  /\ UNCHANGED <<rows, calls, handlers, attempts>>
         /\ workers[w].pc \in Live \ {"failing"}
         /\ \E pc \in Live : Goto(w, pc)
<1>1. CASE GithubCall(w)
  <2>1. workers[w].pc \in {"branch", "commit", "pull"}
    BY <1>1 DEF GithubCall
  <2> QED
    BY <1>1, <2>1 DEF GithubCall, Live, Writing
<1>2. CASE Put(w)
  BY <1>2 DEF Put, Live, Writing
<1>3. CASE Rebuild(w) \/ CheckAdmins(w) \/ Raise(w) \/ Compare(w) \/ Verify(w)
  BY <1>3 DEF Rebuild, CheckAdmins, Raise, Compare, Verify, Live, Writing
<1> QED
  BY <1>1, <1>2, <1>3

\* The containers keep to their hard timeout.
LEMMA BudgetStep == TypeOK /\ BudgetBound /\ [Next]_vars => BudgetBound'
<1> SUFFICES ASSUME TypeOK, BudgetBound, [Next]_vars PROVE BudgetBound'
  OBVIOUS
<1> USE ResourceWritesAssumption
<1>1. CASE UNCHANGED workers
  BY <1>1 DEF BudgetBound
<1>2. ASSUME NEW r \in Request, NEW w \in Worker, Start(w, r) PROVE BudgetBound'
  BY <1>2 DEF Start, BudgetBound, TypeOK
<1>3. ASSUME NEW w \in Worker, NEW pc, Goto(w, pc) PROVE BudgetBound'
  BY <1>3, GotoFacts DEF BudgetBound
<1>4. ASSUME NEW w \in Worker, Exit(w) PROVE BudgetBound'
  BY <1>4 DEF Exit, Off, BudgetBound, TypeOK
<1>5. ASSUME NEW w \in Worker, WorkerStep(w) PROVE BudgetBound'
  <2>1. CASE Claim(w)
    <3>1. CASE Take(w, WorkerLease)
      BY <3>1 DEF Take, BudgetBound, TypeOK, Container
    <3> QED
      BY <2>1, <3>1, <1>4 DEF Claim
  <2>2. CASE Mark(w) \/ Finish(w)
    BY <2>2, <1>3, <1>4 DEF Mark, Finish
  <2> QED
    BY <1>5, <1>3, <2>1, <2>2, MoveFacts DEF WorkerStep
<1>6. CASE Tick
  <2> SUFFICES ASSUME NEW w \in Worker PROVE workers'[w].budget <= WorkerTimeout
    BY DEF BudgetBound
  <2>1. workers[w].budget \in Nat /\ workers[w].budget <= WorkerTimeout
    BY DEF TypeOK, Container, BudgetBound
  <2>2. workers'[w].budget = Dec(workers[w].budget)
    BY <1>6, TickFacts
  <2> QED
    BY <2>1, <2>2, DecFacts
<1>7. ASSUME NEW h \in Handler, HandlerStep(h) PROVE BudgetBound'
  <2>1. UNCHANGED workers
    BY <1>7 DEF HandlerStep, Review, Reconcile, Decide, Dispatch, ReconcileFinish, Abandon
  <2> QED
    BY <1>1, <2>1
<1>8. ASSUME NEW r \in Request,
             Submit(r) \/ LoseCall(r) \/ EditBranch(r)
                \/ \E u \in User, g \in Grant : Preview(r, u, g)
      PROVE  BudgetBound'
  BY <1>1, <1>8 DEF Preview, Submit, LoseCall, EditBranch
<1>9. ASSUME NEW g \in Grant, Edit(g) PROVE BudgetBound'
  BY <1>1, <1>9 DEF Edit
<1>10. ASSUME NEW w \in Worker, Stop(w) PROVE BudgetBound'
  BY <1>4, <1>10 DEF Stop
<1>11. CASE UNCHANGED vars
  BY <1>1, <1>11 DEF vars
<1> QED
  BY <1>2, <1>5, <1>6, <1>7, <1>8, <1>9, <1>10, <1>11 DEF Next

\* No step lets a second container work on a request, and none ends, replaces or outlives
\* the claim of a container at work.
LEMMA ClaimStep == IInv /\ [Next]_vars => ClaimIsHeld' /\ OneLive'
<1> SUFFICES ASSUME IInv, [Next]_vars PROVE ClaimIsHeld' /\ OneLive'
  OBVIOUS
<1> USE DEF IInv
<1> DEFINE Kept(r) == /\ rows'[r].state = rows[r].state /\ rows'[r].nonce = rows[r].nonce
                      /\ rows'[r].lease = rows[r].lease
           Stays(w) == /\ workers[w].pc \in Live /\ workers'[w].req = workers[w].req
                       /\ workers'[w].nonce = workers[w].nonce
                       /\ workers'[w].budget = workers[w].budget
\* A row at work is running under a lease, for which nobody else may end it.
<1>a. ASSUME NEW w \in Worker, workers[w].pc \in Live
      PROVE  /\ workers[w].req \in Request /\ rows[workers[w].req].state = "running"
             /\ rows[workers[w].req].lease > 0
  <2>1. workers[w].req \in Request /\ workers[w].budget \in Nat
    BY <1>a DEF TypeOK, Live, Writing, Container
  <2>2. rows[workers[w].req].lease \in Nat
    BY <2>1 DEF TypeOK, Row
  <2> QED
    BY <1>a, <2>1, <2>2 DEF ClaimIsHeld
\* The containers at work stay so, and the rows they work on are kept.
<1>b. ASSUME \A w \in Worker : workers'[w].pc \in Live => Stays(w) /\ Kept(workers[w].req)
      PROVE  ClaimIsHeld' /\ OneLive'
  BY <1>b DEF ClaimIsHeld, OneLive
<1>1. ASSUME UNCHANGED workers,
             \A r \in Request : Kept(r) \/ rows[r].state # "running" \/ rows[r].lease = 0
      PROVE  ClaimIsHeld' /\ OneLive'
  <2>1. ASSUME NEW w \in Worker, workers[w].pc \in Live PROVE Kept(workers[w].req)
    <3>1. rows[workers[w].req].lease \in Nat
      BY <2>1, <1>a DEF TypeOK, Row
    <3> QED
      BY <2>1, <3>1, <1>1, <1>a
  <2> QED
    BY <1>b, <1>1, <2>1
<1>2. CASE UNCHANGED <<rows, workers>>
  BY <1>1, <1>2
<1>3. ASSUME NEW r \in Request, Submit(r) \/ \E u \in User, g \in Grant : Preview(r, u, g)
      PROVE  ClaimIsHeld' /\ OneLive'
  BY <1>1, <1>3 DEF Preview, Submit, SetRow, TypeOK
<1>4. ASSUME NEW r \in Request, NEW w \in Worker, Start(w, r) PROVE ClaimIsHeld' /\ OneLive'
  <2>1. \A v \in Worker : workers'[v].pc \in Live => workers'[v] = workers[v]
    BY <1>4 DEF Start, TypeOK, Live, Writing
  <2> QED
    BY <1>b, <1>4, <2>1 DEF Start
<1>5. ASSUME NEW h \in Handler, HandlerStep(h) PROVE ClaimIsHeld' /\ OneLive'
  <2>1. CASE Decide(h)
    BY <1>1, <2>1 DEF Decide, TypeOK
  <2>2. CASE ReconcileFinish(h)
    BY <1>1, <2>2 DEF ReconcileFinish, Reconcilable, TypeOK
  <2> QED
    BY <1>2, <1>5, <2>1, <2>2 DEF HandlerStep, Review, Reconcile, Dispatch, Abandon
\* One container moves or exits; the rows of the others are kept.
<1>6. ASSUME NEW w \in Worker, UNCHANGED rows, \E pc : Goto(w, pc), workers[w].pc \in Live
      PROVE  ClaimIsHeld' /\ OneLive'
  BY <1>6, <1>b, GotoFacts
<1>7. ASSUME NEW w \in Worker, Exit(w),
             \A v \in Worker \ {w} : workers[v].pc \in Live => Kept(workers[v].req)
      PROVE  ClaimIsHeld' /\ OneLive'
  <2>1. workers'[w].pc \notin Live
    BY <1>7, ExitFacts DEF Live, Writing
  <2> QED
    BY <1>7, <1>b, <2>1, ExitFacts
<1>8. ASSUME NEW w \in Worker, WorkerStep(w) PROVE ClaimIsHeld' /\ OneLive'
  <2> DEFINE r == workers[w].req
  <2>1. CASE Claim(w)
    <3>1. r \in Request /\ workers[w].pc \notin Live
      BY <2>1 DEF Claim, TypeOK, Live, Writing
    <3>2. CASE Take(w, WorkerLease) /\ rows[r].state = "approved"
      <4>1. \A v \in Worker : workers[v].pc \in Live => workers[v].req # r
        BY <3>2, <1>a
      <4>2. \A v \in Worker : v # w => workers'[v] = workers[v]
        BY <3>2 DEF Take, TypeOK
      <4>3. \A q \in Request : q # r => rows'[q] = rows[q]
        BY <3>2 DEF Take, TypeOK
      <4>4. /\ workers'[w].req = r /\ workers'[w].nonce = rows[r].nonce + 1
            /\ workers'[w].budget = workers[w].budget
        BY <3>2 DEF Take, TypeOK, Container
      <4>5. /\ rows'[r].state = "running" /\ rows'[r].nonce = rows[r].nonce + 1
            /\ rows'[r].lease = WorkerLease
        BY <3>1, <3>2 DEF Take, TypeOK, Row
      <4>6. workers[w].budget < WorkerLease
        BY ResourceWritesAssumption DEF BudgetBound, TypeOK, Container
      <4>7. ClaimIsHeld'
        BY <1>a, <4>1, <4>2, <4>3, <4>4, <4>5, <4>6 DEF ClaimIsHeld
      <4>8. OneLive'
        BY <1>a, <4>1, <4>2, <4>4 DEF OneLive
      <4> QED
        BY <4>7, <4>8
    <3>3. CASE Exit(w) /\ UNCHANGED rows
      BY <1>7, <3>3
    <3>4. ASSUME NEW s, Exit(w), SetRow(r, s), rows[r].state # "running" \/ rows[r].lease = 0
          PROVE  ClaimIsHeld' /\ OneLive'
      <4>1. \A q \in Request : q # r => rows'[q] = rows[q]
        BY <3>4 DEF SetRow, TypeOK
      <4>2. rows[r].lease \in Nat
        BY <3>1 DEF TypeOK, Row
      <4> QED
        BY <1>7, <1>a, <3>4, <4>1, <4>2
    <3> QED
      BY <2>1, <3>2, <3>3, <3>4 DEF Claim
  <2>2. CASE Mark(w)
    <3>1. PICK pc : Goto(w, pc)
      BY <2>2 DEF Mark
    <3>2. workers[w].pc \in Live
      BY <2>2 DEF Mark, Live
    <3>3. \A q \in Request : Kept(q)
      BY <2>2 DEF Mark, TypeOK, Row
    <3> QED
      BY <1>a, <1>b, <3>1, <3>2, <3>3, GotoFacts
  <2>3. CASE Finish(w)
    <3>1. workers[w].pc \in Live /\ Exit(w)
      BY <2>3 DEF Finish, Live
    <3>2. \A q \in Request : q # r => rows'[q] = rows[q]
      BY <2>3 DEF Finish, SetRow, TypeOK
    <3>3. \A v \in Worker \ {w} : workers[v].pc \in Live => workers[v].req # r
      BY <3>1 DEF OneLive
    <3> QED
      BY <1>7, <1>a, <3>1, <3>2, <3>3
  <2> QED
    BY <1>6, <1>8, <2>1, <2>2, <2>3, MoveFacts DEF WorkerStep
<1>9. ASSUME NEW w \in Worker, Stop(w) PROVE ClaimIsHeld' /\ OneLive'
  BY <1>7, <1>9 DEF Stop
<1>10. CASE Tick
  <2>1. \A v \in Worker : /\ workers'[v].pc = workers[v].pc /\ workers'[v].req = workers[v].req
                          /\ workers'[v].nonce = workers[v].nonce
                          /\ workers'[v].budget = Dec(workers[v].budget)
    BY <1>10, TickFacts
  <2>2. \A q \in Request : /\ rows'[q].state = rows[q].state /\ rows'[q].nonce = rows[q].nonce
                           /\ rows'[q].lease = Dec(rows[q].lease)
    BY <1>10, TickFacts
  <2>3. ASSUME NEW w \in Worker, workers[w].pc \in Live
        PROVE  workers'[w].budget < rows'[workers'[w].req].lease
    <3>1. workers[w].budget \in Nat /\ workers[w].budget > 0
      BY <1>10, <2>3 DEF Tick, TypeOK, Container, Live, Writing
    <3>2. rows[workers[w].req].lease \in Nat /\ workers[w].budget < rows[workers[w].req].lease
      BY <1>a, <2>3 DEF ClaimIsHeld, TypeOK, Row
    <3> QED
      BY <1>a, <2>1, <2>2, <2>3, <3>1, <3>2, DecFacts
  <2>4. ClaimIsHeld'
    BY <1>a, <2>1, <2>2, <2>3 DEF ClaimIsHeld
  <2> QED
    BY <2>1, <2>4 DEF OneLive
<1> QED
  BY <1>2, <1>3, <1>4, <1>5, <1>8, <1>9, <1>10 DEF Next, LoseCall, EditBranch, Edit, vars

-----------------------------------------------------------------------------
\* Nobody but its container is at work on a request that runs under a lease, and nobody
\* at all on one that does not.
LEMMA AtWork ==
  ASSUME IInv, NEW w \in Worker, workers[w].pc \in Live
  PROVE  /\ workers[w].req \in Request /\ rows[workers[w].req].state = "running"
         /\ rows[workers[w].req].nonce = workers[w].nonce
         /\ rows[workers[w].req].lease \in Nat \ {0}
<1>1. workers[w].req \in Request /\ workers[w].budget \in Nat
  BY DEF IInv, TypeOK, Live, Writing, Container
<1>2. rows[workers[w].req].lease \in Nat
  BY <1>1 DEF IInv, TypeOK, Row
<1> QED
  BY <1>1, <1>2 DEF IInv, ClaimIsHeld

\* The points after the mark are points of a container at work.
LEMMA Marked ==
  ASSUME IInv, NEW w \in Worker, workers[w].pc \in Writing \cup {"verify", "finishing"}
  PROVE  /\ workers[w].pc \in Live
         /\ rows[workers[w].req].phase = "provider_attempted" /\ attempts[workers[w].req] = 1
<1>1. workers[w].pc \in Live
  BY DEF Live
<1>2. rows[workers[w].req].phase = "provider_attempted"
  BY DEF IInv, AttemptIsMarked
<1>3. attempts[workers[w].req] = 1
  BY <1>1, <1>2, AtWork DEF IInv, AttemptIsMarked
<1> QED
  BY <1>1, <1>2, <1>3

\* Every step that tells the provider something is made after the mark, the mark is made
\* once, and no step frees a request that was marked as if it was not.
LEMMA MarkStep == IInv /\ [Next]_vars => AttemptIsMarked'
<1> SUFFICES ASSUME IInv, [Next]_vars PROVE AttemptIsMarked'
  OBVIOUS
<1> USE DEF IInv
<1> DEFINE Early == {"absent", "preview", "pending_review", "rejected", "approved", "failed"}
           RowOk(r) == /\ rows[r].phase = "not_started" => Untouched(r)
                       /\ rows[r].phase # "not_started" => attempts[r] = 1
                       /\ rows[r].phase = "finished" => rows[r].state = "succeeded"
                       /\ rows[r].state \in Early => rows[r].phase = "not_started"
           After == Writing \cup {"verify", "finishing"}
           Told == <<attempts, branch, landed>>
\* Rows whose phase and marks are kept, and whose state becomes early only from early.
           Kept(r) == /\ rows'[r].phase = rows[r].phase
                      /\ rows'[r].state \in Early => rows[r].phase = "not_started"
                      /\ rows'[r].state = "succeeded" \/ rows[r].state # "succeeded"
<1>a. \A r \in Request : RowOk(r)
  BY DEF AttemptIsMarked
<1>b. \A w \in Worker : workers[w].pc \in After =>
          rows[workers[w].req].phase = "provider_attempted" /\ workers[w].req \in Request
  BY DEF AttemptIsMarked, TypeOK, Writing
<1>c. ASSUME \A r \in Request : RowOk(r)',
             \A w \in Worker : workers'[w].pc \in After =>
                rows'[workers'[w].req].phase = "provider_attempted"
      PROVE  AttemptIsMarked'
  BY <1>c DEF AttemptIsMarked
<1>d. ASSUME UNCHANGED Told, \A r \in Request : Kept(r) PROVE \A r \in Request : RowOk(r)'
  BY <1>a, <1>d DEF Untouched
<1>e. UNCHANGED rows => \A r \in Request : Kept(r)
  BY <1>a
\* A container goes on to a point after the mark only from such a point.
<1>f. ASSUME NEW w \in Worker, \A v \in Worker : v # w => workers'[v] = workers[v],
             workers'[w].pc \in After => workers[w].pc \in After,
             workers'[w].pc # "off" => workers'[w].req = workers[w].req,
             \A r \in Request : rows'[r].phase = rows[r].phase
      PROVE  \A v \in Worker : workers'[v].pc \in After =>
                rows'[workers'[v].req].phase = "provider_attempted"
  BY <1>f, <1>b DEF Writing
<1>1. ASSUME NEW r \in Request, Submit(r) \/ \E u \in User, g \in Grant : Preview(r, u, g)
      PROVE  AttemptIsMarked'
  <2>1. UNCHANGED Told /\ UNCHANGED workers
    BY <1>1 DEF Preview, Submit, outside
  <2>2. \A q \in Request : q # r => rows'[q] = rows[q]
    BY <1>1 DEF Preview, Submit, SetRow, TypeOK
  <2>3. rows'[r].phase = rows[r].phase /\ rows[r].state \in {"absent", "preview"}
    <3>1. CASE Submit(r)
      BY <3>1 DEF Submit, SetRow, TypeOK, Row
    <3>2. ASSUME NEW u \in User, NEW g \in Grant, Preview(r, u, g)
          PROVE  rows'[r].phase = rows[r].phase /\ rows[r].state = "absent"
      BY <3>2 DEF Preview, TypeOK, Row
    <3> QED
      BY <1>1, <3>1, <3>2
  <2>4. \A q \in Request : Kept(q)
    BY <1>a, <2>2, <2>3
  <2> QED
    BY <1>b, <1>c, <1>d, <2>1, <2>4
<1>2. ASSUME NEW r \in Request, LoseCall(r) \/ EditBranch(r) PROVE AttemptIsMarked'
  BY <1>2, <1>a, <1>b, <1>c DEF LoseCall, EditBranch, outside, Untouched, TypeOK
<1>3. ASSUME NEW r \in Request, NEW w \in Worker, Start(w, r) PROVE AttemptIsMarked'
  <2>1. UNCHANGED Told /\ UNCHANGED rows
    BY <1>3 DEF Start, outside
  <2>2. \A v \in Worker : workers'[v].pc \in After => workers'[v] = workers[v]
    BY <1>3 DEF Start, TypeOK, Writing
  <2> QED
    BY <1>b, <1>c, <1>d, <1>e, <2>1, <2>2
<1>4. ASSUME NEW h \in Handler, HandlerStep(h) PROVE AttemptIsMarked'
  <2>1. UNCHANGED Told /\ UNCHANGED workers
    BY <1>4 DEF HandlerStep, Review, Reconcile, Decide, Dispatch, ReconcileFinish, Abandon, outside
  <2>2. CASE Decide(h)
    <3>1. \A q \in Request : Kept(q)
      <4> DEFINE r == handlers[h].req
      <4>1. CASE UNCHANGED rows
        BY <1>e, <4>1
      <4>2. CASE /\ rows[r].state = "pending_review"
                 /\ rows' = [rows EXCEPT ![r].state = Verdict(h), ![r].reviewer = handlers[h].user]
        <5>1. r \in Request /\ Verdict(h) \in {"approved", "rejected"}
          BY <2>2 DEF Decide, TypeOK, Verdict
        <5>2. \A q \in Request : q # r => rows'[q] = rows[q]
          BY <4>2 DEF TypeOK
        <5>3. rows'[r].phase = rows[r].phase
          BY <4>2, <5>1 DEF TypeOK, Row
        <5>4. rows[r].phase = "not_started"
          BY <1>a, <4>2, <5>1
        <5> HIDE DEF IInv
        <5>5. \A q \in Request : q # r => Kept(q)
          BY <1>a, <5>2
        <5> QED
          BY <4>2, <5>3, <5>4, <5>5
      <4> QED
        BY <2>2, <4>1, <4>2 DEF Decide
    <3> QED
      BY <1>b, <1>c, <1>d, <2>1, <3>1
  <2>3. CASE ReconcileFinish(h) /\ Reconcilable(handlers[h].req)
    <3> DEFINE r == handlers[h].req
    <3>1. r \in Request
      BY <2>3 DEF ReconcileFinish, TypeOK
    <3>2. \A q \in Request : q # r => rows'[q] = rows[q]
      BY <2>3 DEF ReconcileFinish, TypeOK
    <3>3. rows'[r].phase = "finished" /\ rows'[r].state = "succeeded"
      BY <2>3, <3>1 DEF ReconcileFinish, TypeOK, Row
    <3>4. \A q \in Request : RowOk(q)'
      BY <1>a, <2>1, <2>3, <3>1, <3>2, <3>3 DEF Untouched, Reconcilable
    <3>5. \A w \in Worker : workers[w].pc \in After => workers[w].req # r
      BY <2>3, Marked, AtWork DEF Reconcilable
    <3> QED
      BY <1>b, <1>c, <2>1, <3>2, <3>4, <3>5
  <2>4. CASE UNCHANGED rows
    BY <1>b, <1>c, <1>d, <1>e, <2>1, <2>4
  <2> QED
    BY <1>4, <2>2, <2>3, <2>4 DEF HandlerStep, Review, Reconcile, Dispatch, ReconcileFinish, Abandon
<1>5. ASSUME NEW w \in Worker, WorkerStep(w) PROVE AttemptIsMarked'
  <2> DEFINE r == workers[w].req
  <2>1. CASE Claim(w)
    <3>1. r \in Request /\ UNCHANGED Told
      BY <2>1 DEF Claim, TypeOK, outside
    <3>2. \A q \in Request : Kept(q)
      <4>1. /\ \A q \in Request : q # r => rows'[q] = rows[q]
            /\ rows'[r].phase = rows[r].phase
            /\ \/ rows[r].state = "approved" /\ rows'[r].state = "failed"
               \/ rows[r].state = "running" /\ rows'[r].state = "needs_manual_resolution"
               \/ /\ rows[r].state = "approved" /\ rows[r].phase = "not_started"
                  /\ rows'[r].state = "running"
               \/ rows'[r] = rows[r]
        BY <2>1, ClaimFacts
      <4>2. ASSUME NEW q \in Request, rows'[q] = rows[q] PROVE Kept(q)
        BY <1>a, <4>2
      <4>3. /\ rows'[r].state \in Early => rows[r].phase = "not_started"
            /\ rows'[r].state = "succeeded" => rows[r].state = "succeeded"
        BY <1>a, <3>1, <4>1
      <4> QED
        BY <4>1, <4>2, <4>3
    <3>3. /\ \A v \in Worker : v # w => workers'[v] = workers[v]
          /\ workers'[w].pc \notin After
          /\ workers'[w].pc # "off" => workers'[w].req = workers[w].req
      BY <2>1, ClaimFacts DEF Writing
    <3> QED
      BY <1>c, <1>d, <1>f, <3>1, <3>2, <3>3
  <2>2. CASE Mark(w)
    <3>1. r \in Request /\ rows[r].state = "running" /\ UNCHANGED <<branch, landed>>
      BY <2>2 DEF Mark, TypeOK, Holds, outside
    <3>2. \A q \in Request : q # r => rows'[q] = rows[q] /\ attempts'[q] = attempts[q]
      BY <2>2 DEF Mark, TypeOK
    <3>3. /\ rows'[r].phase = "provider_attempted" /\ rows'[r].state = "running"
          /\ attempts'[r] = 1
      BY <2>2, <3>1, <1>a DEF Mark, TypeOK, Row, Untouched
    <3>4. \A q \in Request : RowOk(q)'
      BY <1>a, <3>1, <3>2, <3>3 DEF Untouched
    <3>5. \A v \in Worker : workers'[v].req = workers[v].req /\ (v # w => workers'[v] = workers[v])
      BY <2>2, GotoFacts DEF Mark
    <3> QED
      BY <1>b, <1>c, <3>2, <3>3, <3>4, <3>5
  <2>3. CASE Rebuild(w) \/ CheckAdmins(w) \/ Raise(w) \/ Compare(w) \/ Verify(w)
    <3>1. UNCHANGED rows /\ UNCHANGED Told
      BY <2>3 DEF Rebuild, CheckAdmins, Raise, Compare, Verify, outside
    <3>2. PICK pc \in Live : Goto(w, pc) /\ (pc \in After => workers[w].pc \in After)
      BY <2>3 DEF Rebuild, CheckAdmins, Raise, Compare, Verify, Live, Writing
    <3> QED
      BY <1>c, <1>d, <1>e, <1>f, <3>1, <3>2, GotoFacts
  <2>4. CASE GithubCall(w) \/ Put(w)
    <3>1. workers[w].pc \in After /\ UNCHANGED <<rows, attempts>>
      BY <2>4 DEF GithubCall, Put, Writing
    <3>2. PICK pc \in Live : Goto(w, pc)
      BY <2>4, MoveFacts
    <3>3. rows[r].phase = "provider_attempted" /\ r \in Request
      BY <1>b, <3>1
    <3>4. \A q \in Request : q # r => branch'[q] = branch[q] /\ (q \in landed' <=> q \in landed)
      BY <2>4 DEF GithubCall, Put, TypeOK
    <3>5. \A q \in Request : RowOk(q)'
      BY <1>a, <3>1, <3>3, <3>4 DEF Untouched
    <3> QED
      BY <1>c, <1>f, <3>1, <3>2, <3>5, GotoFacts
  <2>5. CASE Finish(w)
    <3>1. /\ r \in Request /\ UNCHANGED Told /\ workers[w].pc \in Live /\ Exit(w)
      BY <2>5 DEF Finish, TypeOK, outside, Live
    <3>2. \A q \in Request : q # r => rows'[q] = rows[q]
      BY <2>5 DEF Finish, SetRow, TypeOK
    <3>3. workers[w].pc = "finishing" => rows[r].phase = "provider_attempted"
      BY <1>b
    <3>4. ASSUME NEW s \in States, SetRow(r, s)
          PROVE  rows'[r].state = s /\ rows'[r].phase = rows[r].phase
      BY <3>1, <3>4 DEF SetRow, TypeOK, Row
    <3>5. \A q \in Request : q = r => RowOk(q)'
      <4>1. CASE rows' = [rows EXCEPT ![r].state = "succeeded", ![r].phase = "finished"]
                    /\ workers[w].pc = "finishing"
        BY <1>a, <3>1, <3>3, <4>1 DEF TypeOK, Row, Untouched
      <4>2. CASE /\ rows[r].state = "running" /\ rows[r].phase = "provider_attempted"
                 /\ SetRow(r, "needs_manual_resolution")
        BY <1>a, <3>1, <3>4, <4>2 DEF Untouched, States, ActiveStates
      <4>3. CASE /\ rows[r].state = "running" /\ rows[r].phase # "provider_attempted"
                 /\ SetRow(r, "failed")
        <5>1. rows[r].phase = "not_started"
          BY <1>a, <3>1, <4>3 DEF TypeOK, Row
        <5> QED
          BY <1>a, <3>1, <3>4, <4>3, <5>1 DEF Untouched, States
      <4>4. CASE SetRow(r, "needs_manual_resolution") /\ rows[r].state = "running"
        BY <1>a, <3>1, <3>4, <4>4 DEF Untouched, States, ActiveStates
      <4>5. CASE UNCHANGED rows
        <5>1. RowOk(r)
          BY <1>a, <3>1
        <5> QED
          BY <3>1, <4>5, <5>1 DEF Untouched
      <4> QED
        BY <2>5, <4>1, <4>2, <4>3, <4>4, <4>5 DEF Finish, Holds
    <3>6. \A q \in Request : RowOk(q)'
      BY <1>a, <3>1, <3>2, <3>5 DEF Untouched
    <3>7. \A v \in Worker : workers'[v].pc \in After => workers'[v] = workers[v]
                                                          /\ workers[v].req # r
      BY <3>1, ExitFacts DEF OneLive, Live, Writing
    <3> QED
      BY <1>b, <1>c, <3>2, <3>6, <3>7
  <2> QED
    BY <1>5, <2>1, <2>2, <2>3, <2>4, <2>5 DEF WorkerStep
<1>6. ASSUME NEW w \in Worker, Stop(w) PROVE AttemptIsMarked'
  <2>1. UNCHANGED rows /\ UNCHANGED Told /\ Exit(w)
    BY <1>6 DEF Stop, outside
  <2>2. workers'[w].pc = "off" /\ \A v \in Worker : v # w => workers'[v] = workers[v]
    BY <2>1, ExitFacts
  <2> QED
    BY <1>c, <1>d, <1>e, <1>f, <2>1, <2>2 DEF Writing
<1>7. ASSUME NEW g \in Grant, Edit(g) PROVE AttemptIsMarked'
  BY <1>7, <1>b, <1>c, <1>d, <1>e DEF Edit
<1>8. CASE Tick
  <2>1. UNCHANGED Told /\ \A q \in Request : Kept(q)
    <3>1. UNCHANGED Told
      BY <1>8 DEF Tick, outside
    <3> QED
      BY <1>8, <1>a, <3>1, TickFacts
  <2>2. \A v \in Worker : workers'[v].pc = workers[v].pc /\ workers'[v].req = workers[v].req
    BY <1>8, TickFacts
  <2> QED
    BY <1>b, <1>c, <1>d, <2>1, <2>2
<1>9. CASE UNCHANGED vars
  BY <1>9, <1>b, <1>c, <1>d, <1>e DEF vars
<1> QED
  BY <1>1, <1>2, <1>3, <1>4, <1>5, <1>6, <1>7, <1>8, <1>9 DEF Next

\* What the read-only check finds of an attempted request is there because it landed.
LEMMA VerifiedLanded ==
  ASSUME IInv, NEW r \in Request, Verified(r), rows[r].phase # "not_started"
  PROVE  r \in landed
<1>1. CASE OnGithub(r)
  BY <1>1 DEF Verified, IInv, LandedIsTrue
<1>2. CASE ~OnGithub(r)
  <2>1. rows[r].grant \in Grant
    BY DEF IInv, OneActive, AttemptIsMarked
  <2>2. resource[rows[r].grant].by = r
    BY <1>2 DEF Verified, Proposed, IInv, TypeOK, Row, Content
  <2> QED
    BY <2>1, <2>2, ResourceWritesAssumption DEF IInv, LandedIsTrue
<1> QED
  BY <1>1, <1>2

\* No step claims to have seen a write that did not land.
LEMMA LandedStep == IInv /\ [Next]_vars => LandedIsTrue'
<1> SUFFICES ASSUME IInv, [Next]_vars PROVE LandedIsTrue'
  OBVIOUS
<1> USE DEF IInv
<1> DEFINE Done == {"verify", "finishing"}
           Procs == /\ \A w \in Worker : workers'[w].pc \in Done =>
                          workers[w].pc \in Done /\ workers'[w].req = workers[w].req
                    /\ \A h \in Handler : handlers'[h].pc = "reconciling" =>
                          handlers[h].pc = "reconciling" /\ handlers'[h].req = handlers[h].req
\* Steps after which the provider shows no more and no process has seen more.
<1>a. ASSUME UNCHANGED <<resource, branch, landed>>, Procs PROVE LandedIsTrue'
  BY <1>a DEF LandedIsTrue
<1>1. ASSUME NEW r \in Request, \/ Submit(r) \/ LoseCall(r)
                                \/ \E u \in User, g \in Grant : Preview(r, u, g)
      PROVE  LandedIsTrue'
  BY <1>a, <1>1 DEF Preview, Submit, LoseCall, outside
<1>2. ASSUME NEW r \in Request, EditBranch(r) PROVE LandedIsTrue'
  BY <1>2 DEF EditBranch, LandedIsTrue, TypeOK
<1>3. ASSUME NEW r \in Request, NEW w \in Worker, Start(w, r) PROVE LandedIsTrue'
  BY <1>a, <1>3 DEF Start, outside, TypeOK
<1>4. ASSUME NEW h \in Handler, HandlerStep(h) PROVE LandedIsTrue'
  <2>1. UNCHANGED <<workers, resource, branch, landed>>
    BY <1>4 DEF HandlerStep, Review, Reconcile, Decide, Dispatch, ReconcileFinish, Abandon, outside
  <2>2. ASSUME NEW u \in User, NEW r \in Request, Reconcile(h, u, r) PROVE LandedIsTrue'
    <3>1. r \in landed
      BY <2>2, VerifiedLanded DEF Reconcile, Reconcilable
    <3>2. /\ handlers'[h].req = r
          /\ \A i \in Handler : i # h => handlers'[i] = handlers[i]
      BY <2>2 DEF Reconcile, TypeOK
    <3> QED
      BY <2>1, <3>1, <3>2 DEF LandedIsTrue
  <2>3. CASE Decide(h) \/ Dispatch(h) \/ ReconcileFinish(h) \/ Abandon(h)
    <3>1. handlers' = [handlers EXCEPT ![h] = Idle]
             \/ handlers' = [handlers EXCEPT ![h].pc = "dispatching"]
      BY <2>3 DEF Decide, Answered, Dispatch, ReconcileFinish, Abandon
    <3>2. \A i \in Handler : handlers'[i].pc = "reconciling" => handlers'[i] = handlers[i]
      BY <3>1 DEF Idle, TypeOK, HandlerState
    <3> QED
      BY <1>a, <2>1, <3>2
  <2>4. ASSUME NEW u \in User, NEW r \in Request, NEW a \in BOOLEAN, Review(h, u, r, a)
        PROVE LandedIsTrue'
    BY <1>a, <2>1, <2>4 DEF Review, TypeOK
  <2> QED
    BY <1>4, <2>2, <2>3, <2>4 DEF HandlerStep
<1>5. ASSUME NEW w \in Worker, WorkerStep(w) PROVE LandedIsTrue'
  <2> DEFINE r == workers[w].req
  <2>1. UNCHANGED handlers
    BY <1>5 DEF WorkerStep, Claim, Rebuild, CheckAdmins, Mark, Raise, GithubCall, Compare, Put,
       Verify, Finish
  <2>2. CASE Claim(w) \/ Finish(w)
    <3>1. \A v \in Worker : workers'[v].pc \in Done => workers'[v] = workers[v]
      <4>1. CASE Claim(w)
        BY <4>1, ClaimFacts
      <4>2. CASE Finish(w)
        <5>1. Exit(w)
          BY <4>2 DEF Finish
        <5> QED
          BY <5>1, ExitFacts
      <4> QED
        BY <2>2, <4>1, <4>2
    <3> QED
      BY <1>a, <2>1, <2>2, <3>1 DEF Claim, Finish, outside
  <2>3. CASE Rebuild(w) \/ CheckAdmins(w) \/ Mark(w) \/ Raise(w) \/ Compare(w) \/ Verify(w)
    <3>1. PICK pc : Goto(w, pc) /\ (pc \in Done => workers[w].pc \in Done)
      BY <2>3 DEF Rebuild, CheckAdmins, Mark, Raise, Compare, Verify
    <3> QED
      BY <1>a, <2>1, <2>3, <3>1, GotoFacts DEF Rebuild, CheckAdmins, Mark, Raise, Compare, Verify,
         outside
  <2>4. CASE GithubCall(w)
    <3>1. r \in Request /\ workers[w].pc \in {"branch", "commit", "pull"}
      BY <2>4 DEF GithubCall, TypeOK
    <3>2. PICK pc : Goto(w, pc) /\ (pc \in Done => workers[w].pc = "pull")
      BY <2>4, <3>1 DEF GithubCall
    <3>3. landed \subseteq landed' /\ (workers[w].pc = "pull" => r \in landed')
      BY <2>4 DEF GithubCall
    <3>4. \A q \in Request : branch'[q] = "pull" => q \in landed'
      BY <2>4, <3>1, <3>3 DEF GithubCall, TypeOK, LandedIsTrue
    <3>5. \A v \in Worker : workers'[v].pc \in Done => workers'[v].req \in landed'
      BY <3>2, <3>3, GotoFacts DEF LandedIsTrue
    <3> QED
      BY <2>1, <2>4, <3>3, <3>4, <3>5 DEF GithubCall, LandedIsTrue
  <2>5. CASE Put(w)
    <3>1. r \in Request /\ landed \subseteq landed' /\ r \in landed'
      BY <2>5 DEF Put, TypeOK
    <3>2. Proposed(r).by = r
      BY <3>1 DEF Proposed, TypeOK, Row, Content
    <3>3. \A g \in Grant : resource'[g].by # None => resource'[g].by \in landed'
      BY <2>5, <3>1, <3>2 DEF Put, TypeOK, LandedIsTrue
    <3>4. \A v \in Worker : workers'[v].pc \in Done => workers'[v].req \in landed'
      BY <2>5, <3>1, GotoFacts DEF Put, LandedIsTrue
    <3> QED
      BY <2>1, <2>5, <3>1, <3>3, <3>4 DEF Put, LandedIsTrue
  <2> QED
    BY <1>5, <2>2, <2>3, <2>4, <2>5 DEF WorkerStep
<1>6. ASSUME NEW w \in Worker, Stop(w) PROVE LandedIsTrue'
  BY <1>a, <1>6, ExitFacts DEF Stop, outside
<1>7. ASSUME NEW g \in Grant, Edit(g) PROVE LandedIsTrue'
  BY <1>7 DEF Edit, TypeOK, LandedIsTrue
<1>8. CASE Tick
  <2>1. \A v \in Worker : workers'[v].pc = workers[v].pc /\ workers'[v].req = workers[v].req
    BY <1>8, TickFacts
  <2> QED
    BY <1>a, <1>8, <2>1 DEF Tick, outside
<1>9. CASE UNCHANGED vars
  BY <1>a, <1>9 DEF vars
<1> QED
  BY <1>1, <1>2, <1>3, <1>4, <1>5, <1>6, <1>7, <1>8, <1>9 DEF Next

\* A request becomes active only by an approval, which finds no other of its grant active.
LEMMA ActiveStep == IInv /\ [Next]_vars => OneActive'
<1> SUFFICES ASSUME IInv, [Next]_vars PROVE OneActive'
  OBVIOUS
<1> USE DEF IInv
<1> DEFINE Kept(r) == /\ rows'[r].grant = rows[r].grant
                      /\ rows'[r].state # "absent" => rows[r].state # "absent"
                      /\ rows'[r].state \in ActiveStates => rows[r].state \in ActiveStates
<1>a. ASSUME \A r \in Request : Kept(r) PROVE OneActive'
  BY <1>a DEF OneActive
\* One row changes its state, among the inactive states or from an active one.
<1>b. ASSUME NEW r \in Request, NEW s, rows[r].state # "absent",
             s \in ActiveStates => rows[r].state \in ActiveStates, SetRow(r, s)
      PROVE  OneActive'
  BY <1>a, <1>b DEF SetRow, TypeOK, Row
<1>1. ASSUME NEW r \in Request, NEW u \in User, NEW g \in Grant, Preview(r, u, g)
      PROVE  OneActive'
  <2>1. rows'[r].grant = g /\ rows'[r].state = "preview"
    BY <1>1 DEF Preview, TypeOK, Row
  <2>2. \A q \in Request : q # r => rows'[q] = rows[q]
    BY <1>1 DEF Preview, TypeOK
  <2> QED
    BY <2>1, <2>2 DEF OneActive, ActiveStates
<1>2. ASSUME NEW r \in Request, Submit(r) PROVE OneActive'
  BY <1>b, <1>2 DEF Submit, ActiveStates
<1>3. ASSUME NEW h \in Handler, Decide(h) PROVE OneActive'
  <2> DEFINE r == handlers[h].req
  <2>1. CASE UNCHANGED rows
    BY <1>a, <2>1
  <2>2. CASE /\ rows[r].state = "pending_review"
             /\ handlers[h].approve => ~Fenced(r)
             /\ rows' = [rows EXCEPT ![r].state = Verdict(h), ![r].reviewer = handlers[h].user]
    <3>1. r \in Request /\ Verdict(h) \in {"approved", "rejected"}
      BY <1>3 DEF Decide, TypeOK, Verdict
    <3>2. rows'[r].state = Verdict(h) /\ rows'[r].grant = rows[r].grant
      BY <2>2, <3>1 DEF TypeOK, Row
    <3>3. \A q \in Request : q # r => rows'[q] = rows[q]
      BY <2>2 DEF TypeOK
    <3>4. Verdict(h) = "approved" => ~Fenced(r)
      <4>1. CASE handlers[h].approve
        BY <2>2, <4>1
      <4>2. CASE ~handlers[h].approve
        BY <4>2 DEF Verdict
      <4> QED
        BY <4>1, <4>2
    <3>5. \A q \in Request : rows'[q].grant = rows[q].grant
      BY <3>2, <3>3
    <3>6. \A q \in Request : rows'[q].state # "absent" => rows'[q].grant \in Grant
      BY <2>2, <3>1, <3>3, <3>5 DEF OneActive
    <3>7. ASSUME NEW q \in Request, q # r, rows'[q].state \in ActiveStates,
                 rows'[r].state \in ActiveStates
          PROVE  rows[q].grant # rows[r].grant
      <4>1. Verdict(h) = "approved"
        BY <3>1, <3>2, <3>7 DEF ActiveStates
      <4> QED
        BY <3>3, <3>4, <3>7, <4>1 DEF Fenced
    <3>8. ASSUME NEW q \in Request, NEW x \in Request, q # x, rows'[q].state \in ActiveStates,
                 rows'[x].state \in ActiveStates
          PROVE  rows[q].grant # rows[x].grant
      <4>1. CASE q = r \/ x = r
        BY <3>7, <3>8, <4>1
      <4>2. CASE q # r /\ x # r
        BY <3>3, <3>8, <4>2 DEF OneActive
      <4> QED
        BY <4>1, <4>2
    <3> QED
      BY <3>5, <3>6, <3>8 DEF OneActive
  <2> QED
    BY <1>3, <2>1, <2>2 DEF Decide
<1>4. ASSUME NEW h \in Handler, ReconcileFinish(h) PROVE OneActive'
  BY <1>a, <1>4 DEF ReconcileFinish, Reconcilable, TypeOK, Row, ActiveStates
<1>5. ASSUME NEW w \in Worker, WorkerStep(w) PROVE OneActive'
  <2> DEFINE r == workers[w].req
  <2>1. CASE Claim(w)
    <3>1. r \in Request
      BY <2>1 DEF Claim, TypeOK
    <3>2. CASE Take(w, WorkerLease) /\ rows[r].state = "approved"
      BY <1>a, <3>1, <3>2 DEF Take, TypeOK, Row, ActiveStates
    <3>3. CASE UNCHANGED rows
      BY <1>a, <3>3
    <3> QED
      BY <1>b, <2>1, <3>1, <3>2, <3>3 DEF Claim, ActiveStates
  <2>2. CASE Mark(w)
    BY <1>a, <2>2 DEF Mark, TypeOK, Row
  <2>3. CASE Finish(w)
    <3>1. r \in Request
      BY <2>3 DEF Finish, TypeOK
    <3>2. CASE UNCHANGED rows
      BY <1>a, <3>2
    <3>3. CASE rows[r].state = "running" /\ \E s \in States : SetRow(r, s)
      BY <1>b, <3>1, <3>3 DEF ActiveStates
    <3>4. CASE rows' = [rows EXCEPT ![r].state = "succeeded", ![r].phase = "finished"]
                 /\ rows[r].state = "running"
      BY <1>a, <3>1, <3>4 DEF TypeOK, Row, ActiveStates
    <3> QED
      BY <2>3, <3>2, <3>3, <3>4 DEF Finish, Holds, States, ActiveStates
  <2> QED
    BY <1>a, <1>5, <2>1, <2>2, <2>3, MoveFacts DEF WorkerStep
<1>6. CASE Tick
  BY <1>a, <1>6 DEF Tick, TypeOK, Row
<1>7. CASE UNCHANGED rows
  BY <1>a, <1>7
<1> QED
  BY <1>1, <1>2, <1>3, <1>4, <1>5, <1>6, <1>7 DEF Next, HandlerStep, LoseCall, EditBranch, Start,
     Review, Reconcile, Dispatch, Abandon, Stop, Edit, vars

\* Every step leaves a row as it is or takes it onward: each statement that changes a state
\* names the states it changes it from.
LEMMA OnwardStep ==
  ASSUME TypeOK, [Next]_vars, NEW r \in Request
  PROVE  Onward(rows[r], rows'[r])
<1> DEFINE x == rows[r]
           Goal == Onward(rows[r], rows'[r])
<1>x. x \in Row /\ rows \in [Request -> Row]
  BY DEF TypeOK
\* The row stays, or only its phase or its deadlines change.
<1>a. ASSUME rows'[r].state = x.state, rows'[r].grant = x.grant, rows'[r].actor = x.actor,
             rows'[r].before = x.before, rows'[r].reviewer = x.reviewer, rows'[r].nonce = x.nonce
      PROVE  Goal
  BY <1>a DEF Onward
<1>b. ASSUME rows'[r] = x PROVE Goal
  BY <1>a, <1>b
\* Its state goes on, perhaps with the phase.
<1>c. ASSUME NEW s \in States, NEW p, Rank[x.state] < Rank[s],
             rows'[r] \in {[x EXCEPT !.state = s], [x EXCEPT !.state = s, !.phase = p]}
      PROVE  Goal
  <2>1. /\ rows'[r].state = s /\ rows'[r].grant = x.grant /\ rows'[r].actor = x.actor
        /\ rows'[r].before = x.before /\ rows'[r].reviewer = x.reviewer /\ rows'[r].nonce = x.nonce
    BY <1>x, <1>c DEF Row
  <2> QED
    BY <1>c, <2>1 DEF Onward
<1>d. ASSUME NEW q \in Request, NEW s \in States, Rank[rows[q].state] < Rank[s], SetRow(q, s)
      PROVE  Goal
  <2>1. rows'[r] = IF r = q THEN [x EXCEPT !.state = s] ELSE x
    BY <1>x, <1>d DEF SetRow
  <2> QED
    BY <1>b, <1>c, <1>d, <2>1
<1>e. ASSUME NEW q \in Request, rows[q].state \in {"running", "needs_manual_resolution"},
             rows' = [rows EXCEPT ![q].state = "succeeded", ![q].phase = "finished"]
      PROVE  Goal
  <2>1. rows'[r] = IF r = q THEN [x EXCEPT !.state = "succeeded", !.phase = "finished"] ELSE x
    BY <1>x, <1>e
  <2>2. Rank[rows[q].state] < Rank["succeeded"]
    BY <1>e DEF Rank
  <2> QED
    BY <1>b, <1>c, <2>1, <2>2 DEF States
<1>1. ASSUME NEW u \in User, NEW g \in Grant, NEW q \in Request, Preview(q, u, g) PROVE Goal
  <2>1. CASE r # q
    BY <1>b, <1>x, <1>1, <2>1 DEF Preview
  <2>2. CASE r = q
    <3>1. rows'[r].state = "preview" /\ rows'[r].nonce = x.nonce /\ x.state = "absent"
      BY <1>x, <1>1, <2>2 DEF Preview, Row
    <3> QED
      BY <3>1 DEF Onward, Rank
  <2> QED
    BY <2>1, <2>2
<1>2. ASSUME NEW q \in Request, Submit(q) PROVE Goal
  BY <1>d, <1>2 DEF Submit, States, Rank
<1>3. ASSUME NEW h \in Handler, Decide(h) PROVE Goal
  <2> DEFINE q == handlers[h].req
  <2>1. CASE UNCHANGED rows
    BY <1>b, <2>1
  <2>2. CASE /\ rows[q].state = "pending_review"
             /\ rows' = [rows EXCEPT ![q].state = Verdict(h), ![q].reviewer = handlers[h].user]
    <3>1. CASE r # q
      BY <1>b, <1>x, <2>2, <3>1
    <3>2. CASE r = q
      <4>1. /\ rows'[r].state = Verdict(h) /\ rows'[r].nonce = x.nonce
            /\ rows'[r].grant = x.grant /\ rows'[r].actor = x.actor /\ rows'[r].before = x.before
        BY <1>x, <2>2, <3>2 DEF Row
      <4>2. Verdict(h) \in {"approved", "rejected"} /\ x.state = "pending_review"
        BY <2>2, <3>2 DEF Verdict
      <4> QED
        BY <4>1, <4>2 DEF Onward, Rank
    <3> QED
      BY <3>1, <3>2
  <2> QED
    BY <1>3, <2>1, <2>2 DEF Decide
<1>4. ASSUME NEW h \in Handler, ReconcileFinish(h) PROVE Goal
  <2>1. handlers[h].req \in Request
    BY <1>4 DEF ReconcileFinish, TypeOK
  <2> QED
    BY <1>b, <1>e, <1>4, <2>1 DEF ReconcileFinish, Reconcilable
<1>5. ASSUME NEW w \in Worker, Claim(w) PROVE Goal
  <2> DEFINE q == workers[w].req
  <2>1. q \in Request
    BY <1>5 DEF Claim, TypeOK
  <2>2. CASE SetRow(q, "failed") /\ rows[q].state = "approved"
    BY <1>d, <2>1, <2>2 DEF States, Rank
  <2>3. CASE SetRow(q, "needs_manual_resolution") /\ rows[q].state = "running"
    BY <1>d, <2>1, <2>3 DEF States, ActiveStates, Rank
  <2>4. CASE Take(w, WorkerLease) /\ rows[q].state = "approved"
    <3>1. CASE r # q
      BY <1>b, <1>x, <2>4, <3>1 DEF Take
    <3>2. CASE r = q
      <4>1. rows' = [rows EXCEPT ![r] = [x EXCEPT !.state = "running", !.nonce = x.nonce + 1,
                                                  !.lease = WorkerLease]]
        BY <2>4, <3>2 DEF Take
      <4>2. /\ rows'[r].state = "running" /\ rows'[r].nonce = x.nonce + 1
            /\ rows'[r].grant = x.grant /\ rows'[r].actor = x.actor /\ rows'[r].before = x.before
            /\ rows'[r].reviewer = x.reviewer
        BY <1>x, <4>1 DEF Row
      <4> QED
        BY <2>4, <3>2, <4>2 DEF Onward, Rank
    <3> QED
      BY <3>1, <3>2
  <2> QED
    BY <1>b, <1>5, <2>2, <2>3, <2>4 DEF Claim
<1>6. ASSUME NEW w \in Worker, Mark(w) PROVE Goal
  <2>1. rows'[r] = x \/ rows'[r] = [x EXCEPT !.phase = "provider_attempted"]
    BY <1>x, <1>6 DEF Mark
  <2> QED
    BY <1>a, <1>x, <2>1 DEF Row
<1>7. ASSUME NEW w \in Worker, Finish(w) PROVE Goal
  <2> DEFINE q == workers[w].req
  <2>1. q \in Request
    BY <1>7 DEF Finish, TypeOK
  <2>2. ASSUME NEW s \in {"needs_manual_resolution", "failed"}, rows[q].state = "running",
               SetRow(q, s)
        PROVE  Goal
    BY <1>d, <2>1, <2>2 DEF States, ActiveStates, Rank
  <2> QED
    BY <1>b, <1>e, <1>7, <2>1, <2>2 DEF Finish, Holds
<1>8. CASE Tick
  <2>1. rows'[r] = [x EXCEPT !.ttl = Dec(@), !.lease = Dec(@)]
    BY <1>8 DEF Tick
  <2> QED
    BY <1>a, <1>x, <2>1 DEF Row
<1>9. ASSUME NEW w \in Worker, WorkerStep(w) PROVE Goal
  BY <1>b, <1>5, <1>6, <1>7, <1>9, MoveFacts DEF WorkerStep
<1>10. CASE UNCHANGED rows
  BY <1>b, <1>10
<1> QED
  BY <1>1, <1>2, <1>3, <1>4, <1>8, <1>9, <1>10 DEF Next, HandlerStep, LoseCall, EditBranch, Start,
     Review, Reconcile, Dispatch, Abandon, Stop, Edit, vars

\* A row that has been claimed is past its approval and does not come back to it.
LEMMA ClaimedStep == IInv /\ [Next]_vars => ClaimedOnce'
<1> SUFFICES ASSUME IInv, [Next]_vars, NEW r \in Request
             PROVE  /\ rows'[r].nonce <= 1
                    /\ Rank[rows'[r].state] <= Rank["approved"] => rows'[r].nonce = 0
  BY DEF ClaimedOnce
<1>1. Onward(rows[r], rows'[r])
  BY OnwardStep DEF IInv
<1>2. /\ rows[r].nonce \in Nat /\ rows[r].nonce <= 1
      /\ Rank[rows[r].state] <= Rank["approved"] => rows[r].nonce = 0
  BY DEF IInv, TypeOK, Row, ClaimedOnce
<1>3. Rank[rows[r].state] \in Nat /\ Rank[rows'[r].state] \in Nat
  <2>1. \A s \in States : Rank[s] \in Nat
    BY DEF States, ActiveStates, Rank
  <2>2. rows[r].state \in States /\ rows'[r].state \in States
    BY TypeStep DEF IInv, TypeOK, Row, States
  <2> QED
    BY <2>1, <2>2
<1>4. CASE rows'[r].nonce = rows[r].nonce
  <2>1. Rank["approved"] = 3
    BY DEF Rank
  <2>2. Rank[rows[r].state] <= Rank[rows'[r].state]
    BY <1>1, <1>3 DEF Onward
  <2> QED
    BY <1>2, <1>3, <1>4, <2>1, <2>2
<1>5. CASE /\ rows'[r].nonce = rows[r].nonce + 1
           /\ rows[r].state = "approved" /\ rows'[r].state = "running"
  BY <1>2, <1>5 DEF Rank
<1> QED
  BY <1>1, <1>4, <1>5 DEF Onward

-----------------------------------------------------------------------------
\* The inductive invariant: the claims of _start_execution and _finish_execution stand for
\* as long as their container, and the row tells at every moment what the provider was told.
THEOREM Invariance == Spec => []IInv
<1>1. IInv /\ [Next]_vars => IInv'
  BY TypeStep, BudgetStep, ClaimStep, MarkStep, LandedStep, ActiveStep, ClaimedStep DEF IInv
<1> QED
  BY <1>1, InitInv, PTL DEF Spec

\* The rows, the processes and the providers keep their types.
THEOREM TypeCorrect == Spec => []TypeOK
<1>1. IInv => TypeOK
  BY DEF IInv
<1> QED
  BY <1>1, Invariance, PTL

\* The provider is attempted at most once for a request, whatever is approved, dispatched,
\* claimed, lost or killed.
THEOREM AttemptedOnce == Spec => []SingleAttempt
<1>1. IInv => SingleAttempt
  BY DEF IInv, AttemptIsMarked, Untouched, SingleAttempt
<1> QED
  BY <1>1, Invariance, PTL

\* A container that may still change the provider has the claim of its request and, by the
\* unique index of active requests, the grant to itself.
THEOREM WritersExclude == Spec => []WriterHoldsGrant
<1>1. IInv => WriterHoldsGrant
  <2> SUFFICES ASSUME IInv, NEW w \in Worker, workers[w].pc \in Writing
               PROVE  LET r == workers[w].req IN
                      /\ rows[r].state = "running" /\ rows[r].nonce = workers[w].nonce
                      /\ ~Fenced(r)
    BY DEF WriterHoldsGrant
  <2>1. workers[w].pc \in Live
    BY DEF Live
  <2> QED
    BY <2>1, AtWork DEF IInv, OneActive, Fenced, ActiveStates
<1> QED
  BY <1>1, Invariance, PTL

\* A request that failed or was rejected frees its grant unseen: nothing of it is at the
\* provider.
THEOREM FailureIsClean == Spec => []FailedIsUntouched
<1>1. IInv => FailedIsUntouched
  BY DEF IInv, AttemptIsMarked, Untouched, FailedIsUntouched
<1> QED
  BY <1>1, Invariance, PTL

\* A request succeeds only by the one attempt that landed in full, whether its container
\* saw that or an admin reconciled it.
THEOREM SuccessLanded == Spec => SuccessIsExact
<1> DEFINE A == \A r \in Request :
          rows[r].state # "succeeded" /\ rows'[r].state = "succeeded" =>
              attempts[r] = 1 /\ r \in landed
<1>1. IInv /\ [Next]_vars => A
  <2> SUFFICES ASSUME IInv, Next, NEW r \in Request,
                      rows[r].state # "succeeded", rows'[r].state = "succeeded"
               PROVE  attempts[r] = 1 /\ r \in landed
    BY DEF vars
  <2> USE DEF IInv
  <2>1. ASSUME NEW q \in Request, NEW s, s # "succeeded", SetRow(q, s) PROVE FALSE
    BY <2>1 DEF SetRow, TypeOK, Row
  <2>2. ASSUME NEW u \in User, NEW g \in Grant, NEW q \in Request, Preview(q, u, g) PROVE FALSE
    BY <2>2 DEF Preview, TypeOK, Row
  <2>3. ASSUME NEW h \in Handler, Decide(h) PROVE FALSE
    <3>1. handlers[h].req \in Request /\ Verdict(h) # "succeeded"
      BY <2>3 DEF Decide, TypeOK, Verdict
    <3> QED
      BY <2>3, <3>1 DEF Decide, TypeOK, Row
  <2>4. ASSUME NEW h \in Handler, ReconcileFinish(h) PROVE attempts[r] = 1 /\ r \in landed
    <3>1. r = handlers[h].req /\ Reconcilable(r)
      BY <2>4 DEF ReconcileFinish, TypeOK, Row
    <3> QED
      BY <2>4, <3>1 DEF ReconcileFinish, Reconcilable, AttemptIsMarked, LandedIsTrue
  <2>5. ASSUME NEW w \in Worker, Claim(w) PROVE FALSE
    <3>1. workers[w].req \in Request
      BY <2>5 DEF Claim, TypeOK
    <3>2. CASE Take(w, WorkerLease)
      BY <3>2 DEF Take, TypeOK, Row
    <3> QED
      BY <2>1, <2>5, <3>1, <3>2 DEF Claim
  <2>6. ASSUME NEW w \in Worker, Finish(w) PROVE attempts[r] = 1 /\ r \in landed
    <3>1. workers[w].req \in Request
      BY <2>6 DEF Finish, TypeOK
    <3>2. r = workers[w].req /\ workers[w].pc = "finishing"
      BY <2>1, <2>6, <3>1 DEF Finish, TypeOK, Row
    <3> QED
      BY <3>2, Marked DEF LandedIsTrue
  <2>7. CASE Tick
    BY <2>7 DEF Tick, TypeOK, Row
  <2>8. ASSUME NEW w \in Worker, Mark(w) PROVE FALSE
    BY <2>8 DEF Mark, TypeOK, Row
  <2>9. ~UNCHANGED rows
    OBVIOUS
  <2>10. ASSUME NEW h \in Handler, HandlerStep(h) PROVE attempts[r] = 1 /\ r \in landed
    BY <2>3, <2>4, <2>9, <2>10 DEF HandlerStep, Review, Reconcile, Dispatch, Abandon
  <2>11. ASSUME NEW w \in Worker, WorkerStep(w) PROVE attempts[r] = 1 /\ r \in landed
    BY <2>5, <2>6, <2>8, <2>9, <2>11, MoveFacts DEF WorkerStep
  <2> QED
    BY <2>1, <2>2, <2>7, <2>9, <2>10, <2>11 DEF Next, Submit, LoseCall, EditBranch, Start, Stop, Edit
<1> QED
  BY <1>1, Invariance, PTL DEF Spec, SuccessIsExact

\* A dispatch that arrives twice, or late, never executes a request a second time: the claim
\* asks for an approval, and nothing that is running or ended becomes approved again.
THEOREM ExecutedOnce == Spec => []ClaimedOnce
<1>1. IInv => ClaimedOnce
  BY DEF IInv
<1> QED
  BY <1>1, Invariance, PTL

\* A decision and an end stand: a reviewed request keeps its plan and its reviewer, and no
\* repeated review, late container or reconciliation reverses what is recorded of it.
THEOREM DecisionsStand == Spec => RequestsGoOnward
<1>1. IInv /\ [Next]_vars => \A r \in Request : Onward(rows[r], rows'[r])
  BY OnwardStep DEF IInv
<1> QED
  BY <1>1, Invariance, PTL DEF Spec, RequestsGoOnward

=============================================================================
