---------------------------- MODULE ResourceWrites ----------------------------
(***************************************************************************)
(* Approved remediation writes to customer resources: preview, request,    *)
(* independent review, one attempt by a Modal container, reconciliation.   *)
(*                                                                         *)
(* A preview and the request made of it (at most one, by a unique          *)
(* constraint) are one row here.  The answers of outside services that can *)
(* only refuse a step (membership, product flag, platform lease, finding)  *)
(* are a choice: whatever they guard may also be refused.  Neither the     *)
(* idempotency key (a repeat returns the row it made) nor modal_call_id    *)
(* (nothing reads it) is modelled.                                         *)
(*                                                                         *)
(* `ttl', `lease' and `budget' are what is left of a deadline, in ticks.   *)
(***************************************************************************)
EXTENDS Naturals, FiniteSets

CONSTANTS
    Request,       \* identifiers of previews and of the requests made of them
    Grant,         \* platform grants, each of one resource
    User,          \* organization admins
    Handler,       \* API requests being served
    Worker,        \* Modal containers
    None,          \* no request, no user, no grant
    PreviewTTL,    \* 15 minutes
    WorkerTimeout, \* 900 seconds
    WorkerLease,   \* 1200 seconds
    MaxCalls,      \* bound: undelivered Modal calls of a request
    MaxEdits       \* bound: edits of a resource by others

ASSUME ResourceWritesAssumption ==
    /\ None \notin Request \cup User \cup Grant
    /\ PreviewTTL \in Nat /\ MaxCalls \in Nat /\ MaxEdits \in Nat
    /\ WorkerTimeout \in Nat /\ WorkerLease \in Nat /\ WorkerTimeout < WorkerLease

VARIABLES
    rows,      \* resource_write_preview joined with resource_write_request
    calls,     \* Modal calls spawned and not delivered
    handlers,  \* API requests between two of their steps
    workers,   \* the containers
    github,    \* grants of a GitHub repository; the others are of an IAM policy
    resource,  \* content behind each grant: the policy, or the default branch
    branch,    \* the remediation branch of each request at GitHub
    attempts,  \* history: attempts on the provider made for each request
    landed     \* history: requests whose write reached the provider in full

vars == <<rows, calls, handlers, workers, github, resource, branch, attempts, landed>>

-----------------------------------------------------------------------------
\* A content is the outcome of `edit' foreign edits and of at most one write of ours.
Content == [edit : 0..MaxEdits, by : Request \cup {None}]

ActiveStates == {"approved", "running", "needs_manual_resolution"}

Row == [state    : {"absent", "preview", "pending_review", "rejected", "succeeded", "failed"}
                       \cup ActiveStates,
        phase    : {"not_started", "provider_attempted", "finished"},
        grant    : Grant \cup {None},
        actor    : User \cup {None},
        reviewer : User \cup {None},
        before   : Content,
        ttl      : Nat,
        lease    : Nat,
        nonce    : Nat]

\* The write a container makes goes through these points, GitHub's and then IAM's.
Writing == {"branch", "commit", "pull", "compare", "put"}

Container == [pc     : {"off", "started", "claimed", "checked", "marking", "verify",
                        "finishing", "failing"} \cup Writing,
              req    : Request \cup {None},
              nonce  : Nat,
              budget : Nat]

Off == [pc |-> "off", req |-> None, nonce |-> 0, budget |-> 0]

HandlerState == [pc      : {"idle", "deciding", "dispatching", "reconciling"},
                 req     : Request \cup {None},
                 user    : User \cup {None},
                 approve : BOOLEAN]

Idle == [pc |-> "idle", req |-> None, user |-> None, approve |-> FALSE]

\* One type invariant for the rows, the processes and the providers.
TypeOK ==
    /\ rows \in [Request -> Row]
    /\ calls \in [Request -> 0..MaxCalls]
    /\ handlers \in [Handler -> HandlerState]
    /\ workers \in [Worker -> Container]
    /\ github \subseteq Grant
    /\ resource \in [Grant -> Content]
    /\ branch \in [Request -> {"none", "branch", "commit", "pull", "edited"}]
    /\ attempts \in [Request -> Nat]
    /\ landed \subseteq Request
    /\ \A w \in Worker : workers[w].pc # "off" => workers[w].req \in Request
    /\ \A h \in Handler : handlers[h].pc # "idle" => handlers[h].req \in Request

Init ==
    /\ rows = [r \in Request |->
          [state |-> "absent", phase |-> "not_started", grant |-> None, actor |-> None,
           reviewer |-> None, before |-> [edit |-> 0, by |-> None],
           ttl |-> 0, lease |-> 0, nonce |-> 0]]
    /\ calls = [r \in Request |-> 0]
    /\ handlers = [h \in Handler |-> Idle]
    /\ workers = [w \in Worker |-> Off]
    /\ github \in SUBSET Grant
    /\ resource = [g \in Grant |-> [edit |-> 0, by |-> None]]
    /\ branch = [r \in Request |-> "none"]
    /\ attempts = [r \in Request |-> 0]
    /\ landed = {}

outside == <<github, resource, branch, landed>>

-----------------------------------------------------------------------------
Exists(r) == rows[r].state \notin {"absent", "preview"}
OnGithub(r) == rows[r].grant \in github

\* The plan rebuilt now is the plan of the preview.
Current(r) == resource[rows[r].grant] = rows[r].before

\* The content that the plan of r proposes for an IAM policy.
Proposed(r) == [rows[r].before EXCEPT !.by = r]

\* What the read-only check finds: the exact approved output and nothing else.
Verified(r) == IF OnGithub(r) THEN branch[r] = "pull"
               ELSE resource[rows[r].grant] = Proposed(r)

SetRow(r, state) == rows' = [rows EXCEPT ![r].state = state]

\* An admin previews a change of the resource as it is now.
Preview(r, u, g) ==
    /\ rows[r].state = "absent"
    /\ rows' = [rows EXCEPT ![r].state = "preview", ![r].actor = u, ![r].grant = g,
                            ![r].before = resource[g], ![r].ttl = PreviewTTL]
    /\ UNCHANGED <<calls, handlers, workers, outside, attempts>>

\* The same admin asks for the change of an unexpired preview.
Submit(r) ==
    /\ rows[r].state = "preview" /\ rows[r].ttl > 0
    /\ SetRow(r, "pending_review")
    /\ UNCHANGED <<calls, handlers, workers, outside, attempts>>

\* Another admin reviews: for an approval the plan is rebuilt first and must not have
\* drifted, whatever state the request is in.
Review(h, u, r, approve) ==
    /\ handlers[h] = Idle
    /\ Exists(r) /\ u # rows[r].actor
    /\ approve => Current(r)
    /\ handlers' = [handlers EXCEPT ![h] =
                      [pc |-> "deciding", req |-> r, user |-> u, approve |-> approve]]
    /\ UNCHANGED <<rows, calls, workers, outside, attempts>>

Verdict(h) == IF handlers[h].approve THEN "approved" ELSE "rejected"

\* Every active request of a grant excludes the approval of another: the unique index.
Fenced(r) == \E q \in Request \ {r} :
    rows[q].grant = rows[r].grant /\ rows[q].state \in ActiveStates

Answered(h) == handlers' = IF handlers[h].approve
                           THEN [handlers EXCEPT ![h].pc = "dispatching"]
                           ELSE [handlers EXCEPT ![h] = Idle]

\* The decision, under the row lock: it is recorded, or it repeats the recorded one
\* (and its note), or it is refused.
Decide(h) ==
    LET r == handlers[h].req IN
    /\ handlers[h].pc = "deciding"
    /\ \/ /\ rows[r].state = "pending_review" /\ rows[r].ttl > 0
          /\ handlers[h].approve => ~Fenced(r)
          /\ rows' = [rows EXCEPT ![r].state = Verdict(h), ![r].reviewer = handlers[h].user]
          /\ Answered(h)
       \/ /\ rows[r].state = Verdict(h) /\ rows[r].reviewer = handlers[h].user
          /\ Answered(h)
          /\ UNCHANGED rows
       \/ /\ rows[r].state # "pending_review" \/ rows[r].ttl = 0 \/ Fenced(r)
          /\ handlers' = [handlers EXCEPT ![h] = Idle]
          /\ UNCHANGED rows
    /\ UNCHANGED <<calls, workers, outside, attempts>>

\* The approval is dispatched; whether its answer arrives matters to nobody.
Dispatch(h) ==
    LET r == handlers[h].req IN
    /\ handlers[h].pc = "dispatching" /\ calls[r] < MaxCalls
    /\ calls' = [calls EXCEPT ![r] = @ + 1]
    /\ handlers' = [handlers EXCEPT ![h] = Idle]
    /\ UNCHANGED <<rows, workers, outside, attempts>>

\* A handler ends early: its service refuses, the dispatch fails (the approval stays),
\* or it crashes.
Abandon(h) ==
    /\ handlers[h] # Idle
    /\ handlers' = [handlers EXCEPT ![h] = Idle]
    /\ UNCHANGED <<rows, calls, workers, outside, attempts>>

-----------------------------------------------------------------------------
Goto(w, pc) == workers' = [workers EXCEPT ![w].pc = pc]
Exit(w) == workers' = [workers EXCEPT ![w] = Off]

\* Modal delivers a call to a container, or loses it.
Start(w, r) ==
    /\ workers[w].pc = "off" /\ calls[r] > 0
    /\ calls' = [calls EXCEPT ![r] = @ - 1]
    /\ workers' = [workers EXCEPT ![w] =
                     [pc |-> "started", req |-> r, nonce |-> 0, budget |-> WorkerTimeout]]
    /\ UNCHANGED <<rows, handlers, outside, attempts>>

LoseCall(r) ==
    /\ calls[r] > 0
    /\ calls' = [calls EXCEPT ![r] = @ - 1]
    /\ UNCHANGED <<rows, handlers, workers, outside, attempts>>

\* What a claim writes.
Take(w, lease) ==
    LET r == workers[w].req
        n == rows[r].nonce + 1 IN
    /\ rows' = [rows EXCEPT ![r].state = "running", ![r].nonce = n, ![r].lease = lease]
    /\ workers' = [workers EXCEPT ![w].pc = "claimed", ![w].nonce = n]

\* Mutant of Claim: a repeated dispatch starts the request over.
ClaimAgain(w) ==
    LET r == workers[w].req
        n == rows[r].nonce + 1 IN
    /\ workers[w].pc = "started"
    /\ IF rows[r].state \in {"approved", "running"}
       THEN /\ rows' = [rows EXCEPT ![r].state = "running", ![r].phase = "not_started",
                                    ![r].nonce = n, ![r].lease = WorkerLease]
            /\ workers' = [workers EXCEPT ![w].pc = "claimed", ![w].nonce = n]
       ELSE UNCHANGED rows /\ Exit(w)
    /\ UNCHANGED <<calls, handlers, outside, attempts>>

\* Mutant of Claim: the lease has no grace over the hard timeout.
ClaimWithoutGrace(w) ==
    LET r == workers[w].req IN
    /\ workers[w].pc = "started"
    /\ IF rows[r].state = "running" /\ rows[r].lease = 0
       THEN SetRow(r, "needs_manual_resolution") /\ Exit(w)
       ELSE IF rows[r].state = "approved" /\ rows[r].phase = "not_started" /\ rows[r].ttl > 0
       THEN Take(w, WorkerTimeout)
       ELSE UNCHANGED rows /\ Exit(w)
    /\ UNCHANGED <<calls, handlers, outside, attempts>>

\* One transaction: an approval that outlived its preview fails, work that outlived its
\* lease needs manual resolution and is never started again, an approved request runs.
Claim(w) ==
    LET r == workers[w].req IN
    /\ workers[w].pc = "started"
    /\ \/ /\ rows[r].state = "approved" /\ rows[r].ttl = 0
          /\ SetRow(r, "failed") /\ Exit(w)
       \/ /\ rows[r].state = "running" /\ rows[r].lease = 0
          /\ SetRow(r, "needs_manual_resolution") /\ Exit(w)
       \/ /\ rows[r].state = "approved" /\ rows[r].phase = "not_started" /\ rows[r].ttl > 0
          /\ Take(w, WorkerLease)
       \/ /\ rows[r].state # "approved"
          /\ rows[r].state = "running" => rows[r].lease > 0
          /\ UNCHANGED rows /\ Exit(w)
    /\ UNCHANGED <<calls, handlers, outside, attempts>>

\* The plan is rebuilt under the claim, with an independent reviewer.
Rebuild(w) ==
    LET r == workers[w].req IN
    /\ workers[w].pc = "claimed"
    /\ rows[r].ttl > 0 /\ rows[r].reviewer \notin {None, rows[r].actor} /\ Current(r)
    /\ Goto(w, "checked")
    /\ UNCHANGED <<rows, calls, handlers, outside, attempts>>

\* Both memberships are read once more.
CheckAdmins(w) ==
    /\ workers[w].pc = "checked"
    /\ Goto(w, "marking")
    /\ UNCHANGED <<rows, calls, handlers, outside, attempts>>

\* The claim is still this container's.
Holds(w) == LET row == rows[workers[w].req] IN
    row.state = "running" /\ row.nonce = workers[w].nonce /\ row.lease > 0

\* The attempt is recorded before the provider hears of it.
Mark(w) ==
    LET r == workers[w].req IN
    /\ workers[w].pc = "marking"
    /\ Holds(w) /\ rows[r].phase = "not_started" /\ rows[r].ttl > 0
    /\ rows' = [rows EXCEPT ![r].phase = "provider_attempted"]
    /\ attempts' = [attempts EXCEPT ![r] = @ + 1]
    /\ Goto(w, IF OnGithub(r) THEN "branch" ELSE "compare")
    /\ UNCHANGED <<calls, handlers, outside>>

\* A check, a read or a call raises, and what it should have done has not happened.
Raise(w) ==
    /\ workers[w].pc \in {"claimed", "checked", "marking", "verify", "finishing"} \cup Writing
    /\ Goto(w, "failing")
    /\ UNCHANGED <<rows, calls, handlers, outside, attempts>>

\* One of the three calls that create the branch, the commit and the draft pull request.
\* Its answer may be lost; a branch that is there already, or was changed, refuses it.
GithubCall(w) ==
    LET r == workers[w].req
        next == [branch |-> "commit", commit |-> "pull", pull |-> "verify"] IN
    /\ workers[w].pc \in DOMAIN next
    /\ branch[r] = CASE workers[w].pc = "branch" -> "none"
                     [] workers[w].pc = "commit" -> "branch"
                     [] workers[w].pc = "pull"   -> "commit"
    /\ branch' = [branch EXCEPT ![r] = workers[w].pc]
    /\ landed' = IF workers[w].pc = "pull" THEN landed \cup {r} ELSE landed
    /\ \/ Goto(w, next[workers[w].pc])
       \/ Goto(w, "failing")
    /\ UNCHANGED <<rows, calls, handlers, github, resource, attempts>>

\* The policy is read once more just before it is replaced.
Compare(w) ==
    /\ workers[w].pc = "compare" /\ Current(workers[w].req)
    /\ Goto(w, "put")
    /\ UNCHANGED <<rows, calls, handlers, outside, attempts>>

\* PutRolePolicy replaces whatever is there; its answer may be lost.
Put(w) ==
    LET r == workers[w].req IN
    /\ workers[w].pc = "put"
    /\ resource' = [resource EXCEPT ![rows[r].grant] = Proposed(r)]
    /\ landed' = landed \cup {r}
    /\ Goto(w, "verify") \/ Goto(w, "failing")
    /\ UNCHANGED <<rows, calls, handlers, github, branch, attempts>>

\* The outcome is read back.
Verify(w) ==
    /\ workers[w].pc = "verify" /\ Verified(workers[w].req)
    /\ Goto(w, "finishing")
    /\ UNCHANGED <<rows, calls, handlers, outside, attempts>>

\* Mutant of Finish: every error is a failure.
FinishFailed(w) ==
    LET r == workers[w].req IN
    /\ workers[w].pc \in {"finishing", "failing"}
    /\ rows' = IF Holds(w) THEN
                  IF workers[w].pc = "finishing"
                  THEN [rows EXCEPT ![r].state = "succeeded", ![r].phase = "finished"]
                  ELSE [rows EXCEPT ![r].state = "failed"]
               ELSE rows
    /\ Exit(w)
    /\ UNCHANGED <<calls, handlers, outside, attempts>>

\* The terminal update of a held claim; of an expired one, manual resolution.
Finish(w) ==
    LET r == workers[w].req
        late == /\ rows[r].state = "running" /\ rows[r].nonce = workers[w].nonce
                /\ rows[r].lease = 0 IN
    /\ workers[w].pc \in {"finishing", "failing"}
    /\ \/ /\ Holds(w) /\ workers[w].pc = "finishing"
          /\ rows' = [rows EXCEPT ![r].state = "succeeded", ![r].phase = "finished"]
       \/ /\ Holds(w) /\ workers[w].pc = "failing"
          /\ SetRow(r, IF rows[r].phase = "provider_attempted"
                       THEN "needs_manual_resolution" ELSE "failed")
       \/ late /\ SetRow(r, "needs_manual_resolution")
       \/ ~Holds(w) /\ ~late /\ UNCHANGED rows
    /\ Exit(w)
    /\ UNCHANGED <<calls, handlers, outside, attempts>>

\* A container is lost, or Modal kills it at its hard timeout.
Stop(w) ==
    /\ workers[w].pc # "off"
    /\ Exit(w)
    /\ UNCHANGED <<rows, calls, handlers, outside, attempts>>

-----------------------------------------------------------------------------
Reconcilable(r) ==
    /\ rows[r].phase = "provider_attempted"
    /\ \/ rows[r].state = "needs_manual_resolution"
       \/ rows[r].state = "running" /\ rows[r].lease = 0

\* Mutant of Reconcile: the outcome is not verified.
ReconcileBlindly(h, u, r) ==
    /\ handlers[h] = Idle
    /\ Reconcilable(r)
    /\ handlers' = [handlers EXCEPT ![h] =
                      [pc |-> "reconciling", req |-> r, user |-> u, approve |-> FALSE]]
    /\ UNCHANGED <<rows, calls, workers, outside, attempts>>

\* An admin reconciles an ambiguous outcome: the provider is only read.
Reconcile(h, u, r) ==
    /\ handlers[h] = Idle
    /\ Reconcilable(r) /\ Verified(r)
    /\ handlers' = [handlers EXCEPT ![h] =
                      [pc |-> "reconciling", req |-> r, user |-> u, approve |-> FALSE]]
    /\ UNCHANGED <<rows, calls, workers, outside, attempts>>

ReconcileFinish(h) ==
    LET r == handlers[h].req IN
    /\ handlers[h].pc = "reconciling"
    /\ rows' = IF Reconcilable(r)
               THEN [rows EXCEPT ![r].state = "succeeded", ![r].phase = "finished"] ELSE rows
    /\ handlers' = [handlers EXCEPT ![h] = Idle]
    /\ UNCHANGED <<calls, workers, outside, attempts>>

-----------------------------------------------------------------------------
\* Others edit the policy, move the default branch, or change a remediation branch.
Edit(g) ==
    /\ resource[g].edit < MaxEdits
    /\ resource' = [resource EXCEPT ![g] = [edit |-> @.edit + 1, by |-> None]]
    /\ UNCHANGED <<rows, calls, handlers, workers, github, branch, attempts, landed>>

EditBranch(r) ==
    /\ branch[r] \notin {"none", "edited"}
    /\ branch' = [branch EXCEPT ![r] = "edited"]
    /\ UNCHANGED <<rows, calls, handlers, workers, github, resource, attempts, landed>>

\* Mutant of Dec: a deadline runs on below zero.
DecUnsaturated(n) == n - 1

Dec(n) == IF n = 0 THEN 0 ELSE n - 1

\* One tick of the clock.  No container lives past its hard timeout.
Tick ==
    /\ \A w \in Worker : workers[w].pc # "off" => workers[w].budget > 0
    /\ rows' = [r \in Request |-> [rows[r] EXCEPT !.ttl = Dec(@), !.lease = Dec(@)]]
    /\ workers' = [w \in Worker |-> [workers[w] EXCEPT !.budget = Dec(@)]]
    /\ UNCHANGED <<calls, handlers, outside, attempts>>

HandlerStep(h) ==
    \/ \E u \in User, r \in Request, approve \in BOOLEAN : Review(h, u, r, approve)
    \/ \E u \in User, r \in Request : Reconcile(h, u, r)
    \/ Decide(h) \/ Dispatch(h) \/ ReconcileFinish(h) \/ Abandon(h)

\* What a container does of itself.
WorkerStep(w) ==
    \/ Claim(w) \/ Rebuild(w) \/ CheckAdmins(w) \/ Mark(w) \/ Raise(w)
    \/ GithubCall(w) \/ Compare(w) \/ Put(w) \/ Verify(w) \/ Finish(w)

Next ==
    \/ \E r \in Request : \/ \E u \in User, g \in Grant : Preview(r, u, g)
                          \/ Submit(r) \/ LoseCall(r) \/ EditBranch(r)
                          \/ \E w \in Worker : Start(w, r)
    \/ \E h \in Handler : HandlerStep(h)
    \/ \E w \in Worker : WorkerStep(w) \/ Stop(w)
    \/ \E g \in Grant : Edit(g)
    \/ Tick

Spec == Init /\ [][Next]_vars

-----------------------------------------------------------------------------
\* The provider is attempted at most once for a request, however often it is approved,
\* dispatched and claimed and wherever its container dies ("Never retry this method
\* automatically after an ambiguous outcome").
SingleAttempt == \A r \in Request : attempts[r] <= 1

\* A container that may still change the provider holds the grant: its request is running
\* under its own claim, and no other request of the grant is approved, running or
\* unresolved.
WriterHoldsGrant ==
    \A w \in Worker : workers[w].pc \in Writing =>
        LET r == workers[w].req IN
        /\ rows[r].state = "running" /\ rows[r].nonce = workers[w].nonce
        /\ ~Fenced(r)

\* A failed or rejected request, which frees its grant without anybody looking, has left
\* no trace at the provider and never will.
FailedIsUntouched ==
    \A r \in Request : rows[r].state \in {"failed", "rejected"} =>
        attempts[r] = 0 /\ branch[r] = "none" /\ r \notin landed

\* Success is recorded only of a write that reached the provider in full: by the container
\* that read it back, or by a reconciliation after its answer, or the container, was lost.
SuccessIsExact ==
    [][\A r \in Request :
          rows[r].state # "succeeded" /\ rows'[r].state = "succeeded" =>
              attempts[r] = 1 /\ r \in landed]_vars

=============================================================================
