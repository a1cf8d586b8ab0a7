------------------------------- MODULE Onboarding -------------------------------
(***************************************************************************)
(* The life of one connection of a tenant, from its creation or its        *)
(* attachment through launches, returns and completions of a setup to      *)
(* validation, disabling and deletion.  Every handler is a request that    *)
(* reads the row, calls somebody outside, and writes under conditions that *)
(* hold or no longer hold by then; several requests run at once, each may  *)
(* die between two steps, and returns of a browser come late, twice or     *)
(* never.  Requests through the gateway carry an idempotency key.          *)
(***************************************************************************)
EXTENDS Handshakes

CONSTANTS
    Requests,   \* requests in flight at one time
    Providers,  \* kinds of connections that are looked at
    NoRow,      \* the row does not exist
    MaxLives    \* bound: how often a platform connection is attached

Native == {"aws", "aws_resource", "azure", "entra", "gcp", "github", "azure_repos",
           "google_workspace"}
Shared == {"shared_aws", "shared_azure", "shared_entra", "shared_gcp", "shared_github",
           "shared_azure_repos", "shared_workspace"}

\* A setup at the platform, that any number of attachments may follow, has a row of its own.
PlatformSetup == "platform_setup"

ASSUME LivesAssumption == MaxLives \in Nat \ {0}
ASSUME ProvidersAssumption == Providers \subseteq Native \cup Shared \cup {PlatformSetup}

VARIABLES
    provider,  \* what the connection connects to
    row,       \* its row in provider_connection
    issued,    \* capabilities issued so far
    requests,  \* the handlers at work
    job,       \* the validation job of the connection
    receipt,   \* the row of one idempotency key in gateway_connection_action
    workflow,  \* the row in connection_onboarding_workflow of a setup at the platform
    offered,   \* what the platform offers as a ready connection; nothing if it is not ready
    lives,     \* rows there have been
    proof,     \* history: what the recorded validation has proven, while it is healthy
    spent,     \* history: how each capability was used
    told       \* history: the boundaries requests were told the connection has

outside == <<provider, offered>>
history == <<proof, spent, told>>
vars == <<provider, row, issued, requests, job, receipt, workflow, offered, lives,
          proof, spent, told>>

---------------------------------------------------------------------------
(* What a validation can find out, by provider. *)

Conclude(p, target, world) ==
    CASE p \in {"aws", "shared_aws"} -> Aws(target, world)
      [] p = "aws_resource" -> AwsResource(target, world)
      [] p = "azure" -> Azure(target, world)
      [] p = "gcp" -> Gcp(target, world)
      [] p = "shared_gcp" -> SharedGcp(target, world)
      [] p = "github" -> GitHub(target, world)
      [] p = "shared_github" -> SharedGitHub(target, world)
      [] p = "azure_repos" -> AzureRepos(target, world)
      [] p = "shared_azure_repos" -> SharedAzureRepos(target, world)
      [] p = "entra" -> Entra(target, world)
      [] p = "google_workspace" -> GoogleWorkspace(target, world)
      [] p \in {"shared_azure", "shared_entra"} -> SharedMicrosoft(target, world)
      [] p = "shared_workspace" -> SharedWorkspace(target, world)

\* Of what was proven, only whether it is all of the boundary is kept.
Summary(p, target, verdict) ==
    [provider |-> p, target |-> target, health |-> verdict.health,
     covers |-> verdict.proven # {} /\ target.places \X Planes \subseteq verdict.proven]

Verdicts ==
    {Summary(p, target, Conclude(p, target, world))
       : p \in Providers \ {PlatformSetup}, target \in Targets, world \in Worlds}

---------------------------------------------------------------------------
(* Requests. *)

Idle == [op |-> "none", at |-> "idle", state |-> 0, pick |-> {}, account |-> NoAccount,
         keyed |-> FALSE]

NoProof == [boundary |-> <<>>, covers |-> FALSE, late |-> FALSE]

NoJob == [at |-> "none", target |-> <<>>, boundary |-> <<>>]

Boundary(r) == <<r.places, r.account>>

Exists == row # NoRow

Serving == Exists /\ Active(row)

\* A handler is called directly, or by the gateway once it has claimed the key.
Entering(r, op) ==
    \/ requests[r].at = "idle"
    \/ requests[r].at = "begun" /\ requests[r].op = op

Doing(r, op, at) == requests[r].op = op /\ requests[r].at = at

Enter(r, op, at, state, pick, account) ==
    requests' = [requests EXCEPT ![r] =
        [op |-> op, at |-> at, state |-> state, pick |-> pick, account |-> account,
         keyed |-> @.keyed]]

Advance(r, at) == requests' = [requests EXCEPT ![r].at = at]

Forget(request, at) == [Idle EXCEPT !.at = at, !.keyed = request.keyed]

\* Mutant of Answer: an error response of the handler is an answer like others.
AnswerDone(r, ok) ==
    requests' = [requests EXCEPT ![r] = IF @.keyed THEN Forget(@, "done") ELSE Idle]

\* The answer of a direct call ends the request, the gateway still writes its receipt.
Answer(r, ok) ==
    requests' = [requests EXCEPT ![r] =
        IF @.keyed THEN Forget(@, IF ok THEN "done" ELSE "failed") ELSE Idle]

\* History: the write of a keyed request has happened.
Land(r) ==
    receipt' = IF requests[r].keyed THEN [receipt EXCEPT !.landed = @ + 1] ELSE receipt

\* History: a capability is used in the place of the one that the store holds.
Spend(n, held) ==
    spent' = [spent EXCEPT ![n] = IF held = n /\ @ = "fresh" THEN "spent" ELSE "abused"]

Write(new) ==
    /\ row' = new
    /\ proof' = IF new # NoRow /\ new.health = "healthy" THEN proof ELSE NoProof

\* One conditional UPDATE: it changes the row and the handler goes on, or it finds no row
\* and the handler answers that the connection changed.
Update(r, new, taken, next) ==
    IF Exists /\ taken
    THEN /\ Write(new)
         /\ Land(r)
         /\ IF next = "answer" THEN Answer(r, TRUE)
            ELSE requests' = [requests EXCEPT ![r] = Forget(@, next)]
    ELSE /\ Answer(r, FALSE)
         /\ UNCHANGED <<row, proof, receipt>>

UpdateWith(r, n, held, new, taken, next) ==
    /\ Update(r, new, taken, next)
    /\ IF Exists /\ taken THEN Spend(n, held) ELSE UNCHANGED spent

---------------------------------------------------------------------------
(* Init *)

Init ==
    /\ provider \in Providers
    /\ row = NoRow
    /\ issued = 0
    /\ requests = [r \in Requests |-> Idle]
    /\ job = NoJob
    /\ receipt = [state |-> "none", ran |-> 0, landed |-> 0]
    /\ workflow = [state |-> 0, status |-> "none", open |-> FALSE]
    /\ offered = {}
    /\ lives = 0
    /\ proof = NoProof
    /\ spent = [n \in States |-> "fresh"]
    /\ told = {}

---------------------------------------------------------------------------
(* Native connections: creation, and the launch of a setup.  The launch reads the row,
   makes a capability, publishes what the customer is to run, and records the hash. *)

\* The name is taken, or the row is inserted with the boundary that is known by now.
Create(r, p, boundaries) ==
    /\ provider = p
    /\ Entering(r, "create")
    /\ IF Exists
       THEN Answer(r, FALSE) /\ UNCHANGED <<row, proof, receipt, lives>>
       ELSE /\ lives = 0
            /\ lives' = 1
            /\ \E places \in boundaries : Write(NewRow(places, FALSE))
            /\ Land(r)
            /\ Answer(r, TRUE)
    /\ UNCHANGED <<outside, issued, job, workflow, spent, told>>

CreateAzureConnection(r) == Create(r, "azure", {{}})

CreateEntraConnection(r) == Create(r, "entra", {{}})

\* Its boundary is the domain of the administrator.
CreateGoogleWorkspaceConnection(r) == Create(r, "google_workspace", {Places})

\* A service account of the connection is made first, and kept if the insert fails.
CreateGcpConnection(r) == Create(r, "gcp", {{}})

CreateGitHubConnection(r) == Create(r, "github", {{}})

CreateAzureReposConnection(r) == Create(r, "azure_repos", {{}})

\* Regions are selected, or all that are enabled; one Lambda has one Region.
CreateAwsConnection(r) ==
    \/ Create(r, "aws", SUBSET Places)
    \/ Create(r, "aws_resource", {{p} : p \in Places})

Launch(r, p) ==
    /\ provider = p
    /\ Entering(r, "launch")
    /\ Serving
    /\ Enter(r, "launch", "called", 0, {}, NoAccount)
    /\ UNCHANGED <<outside, row, issued, job, receipt, workflow, lives, history>>

LaunchAwsCloudformation(r) == Launch(r, "aws") \/ Launch(r, "aws_resource")

LaunchAzureSetup(r) == Launch(r, "azure")

LaunchEntraSetup(r) == Launch(r, "entra")

LaunchGcpSetup(r) == Launch(r, "gcp")

LaunchGithubSetup(r) == Launch(r, "github")

LaunchAzureReposSetup(r) == Launch(r, "azure_repos")

\* What the launch writes, by provider.
Launched(n) ==
    CASE provider = "azure" -> RecordConnectionSetupLaunch(row, n)
      [] provider = "entra" -> RecordEntraConsentLaunch(row, n)
      [] provider = "gcp" -> RecordGcpConnectionSetupLaunch(row, n)
      [] provider = "github" -> RecordGithubInstallLaunch(row, n)
      [] provider = "azure_repos" -> RecordAzureReposOauthLaunch(row, n)

\* A setup of GitHub or Azure Repos takes two capabilities, one of the others one: under
\* the bound MaxStates each can be launched as often as the others.
Issuable == IF provider \in {"github", "azure_repos"} THEN States
            ELSE {n \in States : 2 * n <= MaxStates}

\* A capability counts as issued from here on: before, nobody outside has seen it.
Issue(n) == n = issued + 1 /\ n \in Issuable /\ issued' = n

RecordLaunch(r) ==
    /\ Doing(r, "launch", "called")
    /\ provider \notin {"aws", "aws_resource"}
    /\ \E n \in States :
        /\ Issue(n)
        /\ Update(r, Launched(n), Active(row), "answer")
    /\ UNCHANGED <<outside, job, workflow, lives, spent, told>>

\* AWS alone goes on to queue a validation, that waits for the role to appear.
RecordAwsLaunch(r) ==
    /\ Doing(r, "launch", "called")
    /\ provider \in {"aws", "aws_resource"}
    /\ Update(r, RecordConnectionLaunch(row), TRUE, "written")
    /\ UNCHANGED <<outside, issued, job, workflow, lives, spent, told>>

---------------------------------------------------------------------------
(* Returns and completions.  Each presents a capability that must be the one the row
   holds and whose expiry the row records; the call outside comes between that check and
   the conditional write. *)

Presented(r, p, op, n, held) ==
    /\ provider = p
    /\ Entering(r, op)
    /\ Exists
    /\ n = held
    /\ n \in row.window
    /\ UNCHANGED <<outside, row, issued, job, receipt, workflow, lives, history>>

Selections == SUBSET Places \ {{}}

CompleteAzureSetup(r) ==
    \E n \in 1..issued, pick \in Selections :
        /\ Presented(r, "azure", "complete", n, row.launch)
        /\ Active(row)
        /\ Enter(r, "complete", "called", n, pick, NoAccount)

CompleteGcpSetup(r) ==
    \E n \in 1..issued, pick \in Selections :
        /\ Presented(r, "gcp", "complete", n, row.launch)
        /\ Active(row)
        /\ Enter(r, "complete", "called", n, pick, NoAccount)

EntraSetupCallback(r) ==
    \E n \in 1..issued :
        /\ Presented(r, "entra", "return", n, row.launch)
        /\ Enter(r, "return", "called", n, {}, NoAccount)

\* GitHub warns that the installation of this return is unverified.
GithubInstallCallback(r) ==
    \E n \in 1..issued, account \in Accounts :
        /\ Presented(r, "github", "return", n, row.launch)
        /\ Enter(r, "return", "called", n, {}, account)

\* The user's token shows the installation that the row names at this moment.
GithubOauthCallback(r) ==
    \E n \in 1..issued, pick \in Selections :
        /\ Presented(r, "github", "oauth", n, row.oauth)
        /\ Enter(r, "oauth", "called", n, pick, row.inst)

AzureReposOauthCallback(r) ==
    \E n \in 1..issued, pick \in Selections :
        /\ Presented(r, "azure_repos", "oauth", n, row.oauth)
        /\ Enter(r, "oauth", "called", n, pick, NoAccount)

\* The selection is checked against the candidates read here, and read again by the
\* application before it is written.
CompleteAzureReposSetup(r) ==
    \E pick \in Selections :
        /\ Presented(r, "azure_repos", "complete", row.picking, row.picking)
        /\ pick \subseteq row.candidates
        /\ Enter(r, "complete", "called", row.picking, pick, NoAccount)

CompleteGoogleWorkspaceSetup(r) ==
    /\ provider = "google_workspace"
    /\ Entering(r, "complete")
    /\ Serving
    /\ Enter(r, "complete", "called", 0, {}, NoAccount)
    /\ UNCHANGED <<outside, row, issued, job, receipt, workflow, lives, history>>

BindAzure(r) ==
    /\ provider = "azure" /\ Doing(r, "complete", "called")
    /\ LET q == requests[r]
           new == CompleteAzureConnectionSetup(row, q.state, q.pick)
       IN  UpdateWith(r, q.state, row.launch, new, new # row, "written")
    /\ UNCHANGED <<outside, issued, job, workflow, lives, told>>

BindGcp(r) ==
    /\ provider = "gcp" /\ Doing(r, "complete", "called")
    /\ LET q == requests[r]
           new == CompleteGcpConnectionSetup(row, q.state, q.pick)
       IN  UpdateWith(r, q.state, row.launch, new, new # row, "written")
    /\ UNCHANGED <<outside, issued, job, workflow, lives, told>>

BindEntra(r) ==
    /\ provider = "entra" /\ Doing(r, "return", "called")
    /\ LET q == requests[r]
           new == CompleteEntraConnectionSetup(row, q.state)
       IN  UpdateWith(r, q.state, row.launch, new, new # row, "written")
    /\ UNCHANGED <<outside, issued, job, workflow, lives, told>>

\* Consent was refused, came from another tenant or gives no token: the state is spent.
EntraConsentFailed(r) ==
    /\ provider = "entra" /\ Doing(r, "return", "called")
    /\ LET q == requests[r]
           new == FailEntraConnectionSetup(row, q.state)
       IN  UpdateWith(r, q.state, row.launch, new, new # row, "answer")
    /\ UNCHANGED <<outside, issued, job, workflow, lives, told>>

\* Names the installation, and issues the state for its verification.
StageInstallation(r) ==
    /\ provider = "github" /\ Doing(r, "return", "called")
    /\ \E oauth \in States :
        LET q == requests[r]
            new == RecordGithubInstallReturn(row, q.state, q.account, oauth)
        IN  /\ Issue(oauth)
            /\ UpdateWith(r, q.state, row.launch, new, new # row, "answer")
    /\ UNCHANGED <<outside, job, workflow, lives, told>>

BindGithub(r) ==
    /\ provider = "github" /\ Doing(r, "oauth", "called")
    /\ LET q == requests[r]
           new == CompleteGithubConnectionSetup(row, q.state, q.account, q.pick)
       IN  UpdateWith(r, q.state, row.oauth, new, new # row, "written")
    /\ UNCHANGED <<outside, issued, job, workflow, lives, told>>

\* What the user may read is staged for a selection with an expiry of its own.
StageSelection(r) ==
    /\ provider = "azure_repos" /\ Doing(r, "oauth", "called")
    /\ \E n \in States :
        LET q == requests[r]
            new == StageAzureReposRepositorySelection(row, q.state, q.pick, n)
        IN  /\ Issue(n)
            /\ UpdateWith(r, q.state, row.oauth, new, new # row, "answer")
    /\ UNCHANGED <<outside, job, workflow, lives, told>>

BindAzureRepos(r) ==
    /\ provider = "azure_repos" /\ Doing(r, "complete", "called")
    /\ LET new == CompleteAzureReposConnectionSetup(row, requests[r].pick)
       IN  Update(r, new, new # row, "written")
    /\ UNCHANGED <<outside, issued, job, workflow, lives, spent, told>>

BindGoogleWorkspace(r) ==
    /\ provider = "google_workspace" /\ Doing(r, "complete", "called")
    /\ Update(r, CompleteGoogleWorkspaceConnectionSetup(row), Active(row), "written")
    /\ UNCHANGED <<outside, issued, job, workflow, lives, spent, told>>

---------------------------------------------------------------------------
(* Validation of the connection.  How its job is dispatched, claimed and retried is the
   matter of ConnectionJobs; here it runs at most once, and may be lost. *)

\* A setup must have been completed as far as the provider needs it.
Ready ==
    CASE provider \in {"aws", "aws_resource", "shared_aws", "shared_entra"} -> TRUE
      [] provider \in {"entra", "google_workspace", "shared_workspace"} -> row.done
      [] OTHER -> row.places # {}

ValidateConnection(r) ==
    /\ requests[r].at = "idle"
    /\ Serving /\ Ready
    /\ Enter(r, "validate", "written", 0, {}, NoAccount)
    /\ UNCHANGED <<outside, row, issued, job, receipt, workflow, lives, history>>

\* A running job is as good as a new one to the handler, whatever it began with.
QueueValidation(r) ==
    /\ requests[r].at = "written"
    /\ \/ ~Serving /\ Answer(r, FALSE) /\ UNCHANGED job
       \/ Serving /\ job.at # "none" /\ Answer(r, TRUE) /\ UNCHANGED job
       \/ /\ Serving /\ job.at = "none"
          /\ Answer(r, TRUE)
          /\ job' = [NoJob EXCEPT !.at = "queued"]
    /\ UNCHANGED <<outside, row, issued, receipt, workflow, lives, history>>

\* The job row is there and could not be dispatched: it is failed.
DispatchFails(r) ==
    /\ requests[r].at = "written" /\ Serving /\ job.at = "none"
    /\ Answer(r, FALSE)
    /\ UNCHANGED <<outside, row, issued, job, receipt, workflow, lives, history>>

\* The worker reads the connection once, for all the attempts it makes.
StartValidation ==
    /\ job.at = "queued"
    /\ job' = IF Serving
              THEN [at |-> "running", target |-> TargetOf(row), boundary |-> Boundary(row)]
              ELSE NoJob
    /\ UNCHANGED <<outside, row, issued, requests, receipt, workflow, lives, history>>

RecordValidation ==
    /\ job.at = "running"
    /\ job' = NoJob
    /\ IF Exists
       THEN \E verdict \in Verdicts :
              /\ verdict.provider = provider /\ verdict.target = job.target
              /\ row' = RecordConnectionValidation(row, verdict.health)
              /\ proof' = IF verdict.health = "healthy"
                          THEN [boundary |-> job.boundary, covers |-> verdict.covers,
                                late |-> job.boundary # Boundary(row)]
                          ELSE NoProof
       ELSE UNCHANGED <<row, proof>>
    /\ UNCHANGED <<outside, issued, requests, receipt, workflow, lives, spent, told>>

\* The worker raises, or the row expires in the queue or under a lost container.
ValidationLost ==
    /\ job.at # "none"
    /\ job' = NoJob
    /\ UNCHANGED <<outside, row, issued, requests, receipt, workflow, lives, history>>

---------------------------------------------------------------------------
(* Disabling and deleting.  The store looks at the jobs again under the lock of the row. *)

BeginDisable(r) ==
    /\ Entering(r, "disable")
    /\ Exists /\ job.at = "none"
    /\ Enter(r, "disable", "called", 0, {}, NoAccount)
    /\ UNCHANGED <<outside, row, issued, job, receipt, workflow, lives, history>>

Disable(r) ==
    /\ Doing(r, "disable", "called")
    /\ Update(r, DisableConnection(row), job.at = "none", "answer")
    /\ UNCHANGED <<outside, issued, job, workflow, lives, spent, told>>

DeleteConnection(r) ==
    /\ Entering(r, "delete")
    /\ Exists
    /\ IF Active(row)
       THEN Answer(r, FALSE) /\ UNCHANGED <<row, proof, receipt, told>>
       ELSE /\ Answer(r, TRUE)
            /\ Write(NoRow)
            /\ Land(r)
            /\ told' = {}
    /\ UNCHANGED <<outside, issued, job, workflow, lives, spent>>

---------------------------------------------------------------------------
(* Connections of the platform: what it offers changes; an attachment copies the boundary
   into a row under the platform's identifier.  No launch, return or completion of a
   native setup applies to such a row. *)

PlatformChanges ==
    /\ provider \in Shared
    /\ \E boundary \in SUBSET Places : offered' = boundary
    /\ UNCHANGED <<provider, row, issued, requests, job, receipt, workflow, lives, history>>

\* Mutant of Matches: a connection of the same name will do.
MatchesByName(boundary) == Exists /\ Active(row)

Matches(boundary) == Exists /\ Active(row) /\ row.places = boundary

\* The platform must offer the connection as ready, with the boundary that is attached.
Attach(r, providers, boundaries) ==
    /\ provider \in providers
    /\ Entering(r, "attach")
    /\ offered # {}
    /\ \E boundary \in boundaries : Enter(r, "attach", "listed", 0, boundary, NoAccount)
    /\ UNCHANGED <<outside, row, issued, job, receipt, workflow, lives, history>>

\* The Regions are those the request asks for: the broker leases credentials for each.
UseSharedAws(r) == Attach(r, {"shared_aws"}, SUBSET Places)

\* The connection of a whole installation; of a selection, the row is named by it.
UseSharedGithub(r) == Attach(r, {"shared_github"}, {offered})

UseSharedGcp(r) == Attach(r, {"shared_gcp"}, {offered})

UseSharedWorkspace(r) == Attach(r, {"shared_workspace"}, {offered})

UseSharedMicrosoft(r) == Attach(r, {"shared_azure", "shared_entra"}, {offered})

\* The row is named by the repositories that were selected, here all that there are.
UseSharedAzureRepos(r) ==
    /\ offered = Places
    /\ Attach(r, {"shared_azure_repos"}, {Places})

\* Answers with the row that is there if its settings are those asked for.
AnswerExisting(r) ==
    IF Matches(requests[r].pick)
    THEN /\ told' = told \cup {requests[r].pick}
         /\ Land(r)
         /\ Answer(r, TRUE)
    ELSE /\ Answer(r, FALSE)
         /\ UNCHANGED <<told, receipt>>

LookForAttached(r) ==
    /\ Doing(r, "attach", "listed")
    /\ IF Exists
       THEN AnswerExisting(r)
       ELSE Advance(r, "looked") /\ UNCHANGED <<told, receipt>>
    /\ UNCHANGED <<outside, row, issued, job, workflow, lives, proof, spent>>

\* Google Workspace and Azure Repos are attached with their setup recorded as completed.
InsertAttached(r) ==
    /\ Doing(r, "attach", "looked")
    /\ IF Exists
       THEN Advance(r, "conflict") /\ UNCHANGED <<row, proof, receipt, told, lives>>
       ELSE /\ lives < MaxLives
            /\ lives' = lives + 1
            /\ Write(NewRow(requests[r].pick,
                            provider \in {"shared_workspace", "shared_azure_repos"}))
            /\ told' = {requests[r].pick}
            /\ Land(r)
            /\ Answer(r, TRUE)
    /\ UNCHANGED <<outside, issued, job, workflow, spent>>

SettleConflict(r) ==
    /\ Doing(r, "attach", "conflict")
    /\ AnswerExisting(r)
    /\ UNCHANGED <<outside, row, issued, job, workflow, lives, proof, spent>>

\* A setup at the platform: the latest launch takes the workflow over.
LaunchSharedSetup(r) ==
    /\ provider = PlatformSetup
    /\ requests[r].at = "idle"
    /\ \E n \in States :
        /\ Issue(n)
        /\ workflow' = [state |-> n, status |-> "in_progress", open |-> TRUE]
        /\ Enter(r, "setup", "called", n, {}, NoAccount)
    /\ UNCHANGED <<outside, row, job, receipt, lives, history>>

SharedSetupReady(r) ==
    /\ Doing(r, "setup", "called")
    /\ Answer(r, TRUE)
    /\ UNCHANGED <<outside, row, issued, job, receipt, workflow, lives, history>>

\* The platform did not answer: the workflow fails, unless it was launched again since.
FailConnectionOnboarding(r) ==
    /\ Doing(r, "setup", "called")
    /\ IF workflow.status = "in_progress" /\ workflow.state = requests[r].state
       THEN /\ workflow' = [workflow EXCEPT !.status = "failed", !.open = FALSE]
            /\ Spend(requests[r].state, workflow.state)
       ELSE UNCHANGED <<workflow, spent>>
    /\ Answer(r, FALSE)
    /\ UNCHANGED <<outside, row, issued, job, receipt, lives, proof, told>>

\* The browser is back from the platform, with a state that resolves the workflow.
OnboardingCallback ==
    \E n \in 1..issued, succeeded \in BOOLEAN :
        /\ workflow.status = "in_progress" /\ workflow.state = n
        /\ workflow.open
        /\ workflow' = [workflow EXCEPT !.open = FALSE,
                                         !.status = IF succeeded THEN "returned" ELSE "failed"]
        /\ Spend(n, workflow.state)
        /\ UNCHANGED <<outside, row, issued, requests, job, receipt, lives, proof, told>>

---------------------------------------------------------------------------
(* The gateway's key, lost requests, and time. *)

GatewayActions ==
    (IF provider = PlatformSetup THEN {} ELSE {"disable", "delete"})
        \cup (IF provider \in Native THEN {"create"} ELSE {})
        \cup (IF provider \in Native \ {"google_workspace"} THEN {"launch"} ELSE {})
        \cup (IF provider \in {"azure", "gcp", "azure_repos", "google_workspace"}
              THEN {"complete"} ELSE {})
        \cup (IF provider = "shared_aws" THEN {"attach"} ELSE {})

\* The key is reserved before anything happens; used again it never starts anything.
ClaimGatewayConnectionAction(r) ==
    /\ requests[r].at = "idle"
    /\ receipt.state = "none"
    /\ receipt' = [receipt EXCEPT !.state = "claimed", !.ran = @ + 1]
    /\ \E op \in GatewayActions :
        requests' = [requests EXCEPT ![r] = [Idle EXCEPT !.op = op, !.at = "begun",
                                                         !.keyed = TRUE]]
    /\ UNCHANGED <<outside, row, issued, job, workflow, lives, history>>

\* The handler refuses, or the call outside fails: nothing was written yet.
Refuse(r) ==
    /\ \/ requests[r].at \in {"begun", "listed", "looked"}
       \/ requests[r].at = "called"
            /\ requests[r].op \in {"launch", "complete", "oauth"}
    /\ Answer(r, FALSE)
    /\ UNCHANGED <<outside, row, issued, job, receipt, workflow, lives, history>>

FinishGatewayConnectionAction(r) ==
    /\ requests[r].at \in {"done", "failed"}
    /\ requests' = [requests EXCEPT ![r] = Idle]
    /\ receipt' = IF requests[r].keyed /\ receipt.state = "claimed"
                  THEN [receipt EXCEPT !.state =
                            IF requests[r].at = "done" THEN "completed" ELSE "failed"]
                  ELSE receipt
    /\ UNCHANGED <<outside, row, issued, job, workflow, lives, history>>

RequestLost(r) ==
    /\ requests[r].at # "idle"
    /\ requests' = [requests EXCEPT ![r] = Idle]
    /\ UNCHANGED <<outside, row, issued, job, receipt, workflow, lives, history>>

\* now() passes the expiry of a capability.
Expire ==
    /\ \/ /\ Exists
          /\ \E n \in row.window : row' = [row EXCEPT !.window = @ \ {n}]
          /\ UNCHANGED workflow
       \/ workflow.open /\ workflow' = [workflow EXCEPT !.open = FALSE] /\ UNCHANGED row
    /\ UNCHANGED <<outside, issued, requests, job, receipt, lives, history>>

---------------------------------------------------------------------------
(* Next *)

Setup(r) ==
    \/ CreateAzureConnection(r) \/ CreateEntraConnection(r) \/ CreateGcpConnection(r)
    \/ CreateGoogleWorkspaceConnection(r) \/ CreateGitHubConnection(r)
    \/ CreateAzureReposConnection(r) \/ CreateAwsConnection(r)
    \/ LaunchAwsCloudformation(r) \/ LaunchAzureSetup(r) \/ LaunchEntraSetup(r)
    \/ LaunchGcpSetup(r) \/ LaunchGithubSetup(r) \/ LaunchAzureReposSetup(r)
    \/ RecordLaunch(r) \/ RecordAwsLaunch(r)
    \/ CompleteAzureSetup(r) \/ BindAzure(r)
    \/ CompleteGcpSetup(r) \/ BindGcp(r)
    \/ EntraSetupCallback(r) \/ BindEntra(r) \/ EntraConsentFailed(r)
    \/ GithubInstallCallback(r) \/ StageInstallation(r)
    \/ GithubOauthCallback(r) \/ BindGithub(r)
    \/ AzureReposOauthCallback(r) \/ StageSelection(r)
    \/ CompleteAzureReposSetup(r) \/ BindAzureRepos(r)
    \/ CompleteGoogleWorkspaceSetup(r) \/ BindGoogleWorkspace(r)

Attachment(r) ==
    \/ UseSharedAws(r) \/ UseSharedGithub(r) \/ UseSharedGcp(r) \/ UseSharedWorkspace(r)
    \/ UseSharedMicrosoft(r) \/ UseSharedAzureRepos(r)
    \/ LookForAttached(r) \/ InsertAttached(r) \/ SettleConflict(r)
    \/ LaunchSharedSetup(r) \/ SharedSetupReady(r) \/ FailConnectionOnboarding(r)

Control(r) ==
    \/ ValidateConnection(r) \/ QueueValidation(r) \/ DispatchFails(r)
    \/ BeginDisable(r) \/ Disable(r) \/ DeleteConnection(r)
    \/ ClaimGatewayConnectionAction(r) \/ Refuse(r) \/ FinishGatewayConnectionAction(r)
    \/ RequestLost(r)

Next ==
    \/ \E r \in Requests : Setup(r) \/ Attachment(r) \/ Control(r)
    \/ StartValidation \/ RecordValidation \/ ValidationLost
    \/ PlatformChanges \/ OnboardingCallback \/ Expire

Spec == Init /\ [][Next]_vars

---------------------------------------------------------------------------
(* Properties *)

\* The variables stay within their types: a state is never used that was not issued, and a
\* receipt counts at most one run of its action.
TypeOK ==
    /\ provider \in Providers
    /\ row \in Rows \cup {NoRow}
    /\ issued \in 0..MaxStates
    /\ Exists => row.launch <= issued /\ row.oauth <= issued /\ row.picking <= issued
    /\ \A r \in Requests : requests[r].state <= issued /\ requests[r].pick \subseteq Places
    /\ job.at \in {"none", "queued", "running"}
    /\ receipt.state \in {"none", "claimed", "completed", "failed"}
    /\ workflow.state <= issued
    /\ workflow.status \in {"none", "in_progress", "returned", "failed"}
    /\ offered \subseteq Places /\ lives \in 0..MaxLives
    /\ told \subseteq SUBSET Places

\* ADR 0021, 0029 and the system map: a setup token, consent, install, OAuth or return state
\* is good once, and only for the setup it was issued for.  Whoever comes back late, twice,
\* or with the state of an earlier launch, consumes nothing and binds nothing.
SpentOnce == \A n \in States : spent[n] # "abused"

\* ADR 0021, step 4: the repositories of a GitHub connection are bound for the installation
\* that the signed-in user was shown to have.  A row that names an unverified installation
\* by then keeps the binding it had.
VerifiedInstallation ==
    [][/\ provider = "github" /\ Exists /\ row' # NoRow
       /\ row'.account # row.account \/ row'.places # row.places
       => row'.account = row.inst]_vars

\* System map, provider onboarding: a connection is healthy when the declared entrypoints
\* answered, for all of the boundary the validation read; and that is the boundary of the
\* row, unless a setup was completed while that validation was at work.
HealthyMeansProved ==
    Exists /\ row.health = "healthy" =>
        /\ proof.covers
        /\ proof.late \/ proof.boundary = Boundary(row)

\* The receipt of a gateway key says completed only of an action that took effect, and the
\* action ran once however often the key came and wherever a handler died.
ReceiptTellsTruth ==
    /\ receipt.ran <= 1 /\ receipt.landed <= 1
    /\ receipt.state = "completed" => receipt.landed = 1

\* Concurrent attachments of one platform connection: all that were told they succeeded
\* were told the boundary that the row has.
AttachedAsAsked == Exists /\ provider \in Shared => told \subseteq {row.places}

=============================================================================
