------------------------- MODULE Onboarding_proofs -------------------------
(***************************************************************************)
(* The safety of Onboarding for every number of requests, places, planes,  *)
(* accounts and capabilities, and every set of providers.                  *)
(*                                                                         *)
(* Each of the checked invariants needs more than it says.  SpentOnce      *)
(* needs that what the row and the workflow hold is unspent and held once  *)
(* (HeldIsFresh); ReceiptTellsTruth follows the one request of the key     *)
(* from its claim to its receipt (OneKey); HealthyMeansProved needs that a *)
(* boundary a validation goes by is not empty where the validator does not *)
(* look (Solid), for an empty one is proved by nothing; and                *)
(* VerifiedInstallation needs that a verification under way is for the     *)
(* installation the row names (RequestsAreSane).                           *)
(***************************************************************************)
EXTENDS Onboarding, TLAPS

\* A request at one of its points.
Request == [op : {"none", "create", "launch", "complete", "return", "oauth", "validate",
                  "disable", "delete", "attach", "setup"},
            at : {"idle", "begun", "called", "listed", "looked", "conflict", "written",
                  "done", "failed"},
            state : 0..MaxStates, pick : SUBSET Places, account : Accounts \cup {NoAccount},
            keyed : BOOLEAN]

\* What TypeOK leaves open, because it has no bearing on what the runs look for.
Shapes ==
    /\ requests \in [Requests -> Request]
    /\ spent \in [States -> {"fresh", "spent", "abused"}]
    /\ receipt \in [state : {"none", "claimed", "completed", "failed"}, ran : Nat, landed : Nat]
    /\ workflow \in [state : 0..MaxStates,
                     status : {"none", "in_progress", "returned", "failed"}, open : BOOLEAN]

\* The places that hold a capability: two hashes of the row, and the workflow of a setup at
\* the platform while it is under way.
Slots == {"launch", "oauth", "workflow"}

Held(slot) ==
    CASE slot = "launch" -> IF Exists THEN row.launch ELSE 0
      [] slot = "oauth" -> IF Exists THEN row.oauth ELSE 0
      [] slot = "workflow" -> IF workflow.status = "in_progress" THEN workflow.state ELSE 0

\* Capabilities that can still be used have not been, and each is held in one place.
HeldIsFresh ==
    /\ \A n \in States : n > issued => spent[n] = "fresh"
    /\ \A s \in Slots : Held(s) # 0 =>
          spent[Held(s)] = "fresh" /\ \A t \in Slots : Held(t) = Held(s) => t = s
    /\ workflow.status = "in_progress" => workflow.state # 0

\* The points of a request before its write.
Early == {"begun", "called", "listed", "looked", "conflict"}

\* The key has one request at most, whose write has landed once it is past it.
OneKey ==
    /\ \A r \in Requests : requests[r].keyed =>
          /\ receipt.state = "claimed"
          /\ requests[r].at # "idle"
          /\ requests[r].at \in Early => receipt.landed = 0
          /\ requests[r].at \in {"written", "done"} => receipt.landed = 1
    /\ \A r, s \in Requests : requests[r].keyed /\ requests[s].keyed => r = s
    /\ receipt.state = "none" => receipt.ran = 0 /\ receipt.landed = 0

\* Providers whose launch writes a row, and those with a boundary they do not look at again.
Launchers == {"aws", "aws_resource", "azure", "entra", "gcp", "github", "azure_repos"}
Blind == {"shared_gcp", "google_workspace", "shared_workspace"}

\* A boundary there is something in, as far as the validator of the provider goes by it unseen.
Solid(p, target) ==
    /\ p \in Blind => target.places # {}
    /\ p = "entra" /\ target.done => target.places # {}

SolidBoundary ==
    /\ Exists => Solid(provider, row)
    /\ job.at = "running" => Solid(provider, job.target)

\* What a request on its way knows of the provider, and of the row as long as that has the
\* capability it came with.
Sane(q) ==
    /\ q.at = "idle" \/ q.op = "setup" => ~q.keyed
    /\ q.op = "launch" /\ q.at = "called" => provider \in Launchers
    /\ q.op = "attach" /\ q.at \in {"listed", "looked", "conflict"} =>
          provider \in Shared /\ (provider \in Blind => q.pick # {})
    /\ q.op = "oauth" /\ q.at = "called" => q.state # 0
    /\ q.op = "oauth" /\ q.at = "called" /\ provider = "github" /\ Exists /\ row.oauth = q.state
          => q.account = row.inst

RequestsAreSane == \A r \in Requests : Sane(requests[r])

\* The inductive invariant.
IInv == /\ TypeOK /\ Shapes /\ HeldIsFresh /\ OneKey /\ SolidBoundary /\ RequestsAreSane
        /\ SpentOnce /\ HealthyMeansProved /\ ReceiptTellsTruth /\ AttachedAsAsked

-----------------------------------------------------------------------------
(***************************************************************************)
(* What the statements of the store do to the fields the invariants are    *)
(* about.                                                                  *)
(***************************************************************************)
SameBoundary(x, y) == y.places = x.places /\ y.account = x.account /\ (y.done => x.done)

SameCapabilities(x, y) ==
    y.launch = x.launch /\ y.oauth = x.oauth /\ y.picking \in {0, x.picking}

\* A launch replaces what is recorded of the setup, never the boundary.
LEMMA RelaunchedRows ==
  ASSUME NEW x \in Rows, NEW n \in States
  PROVE  LET y == Relaunched(x, n) IN
         /\ y \in Rows /\ SameBoundary(x, y) /\ y.inst = x.inst /\ y.health = x.health
         /\ y.launch = x.launch /\ y.oauth = x.oauth /\ y.picking = 0
<1>1. {n} \in SUBSET States /\ 0 \in 0..MaxStates
  BY StatesAssumption
<1>2. \A s \in SUBSET States :
        LET y == [x EXCEPT !.window = s, !.done = FALSE, !.picking = 0] IN
        /\ y \in Rows /\ y.inst = x.inst /\ y.health = x.health
        /\ y.places = x.places /\ y.account = x.account /\ y.done = FALSE
        /\ y.launch = x.launch /\ y.oauth = x.oauth /\ y.picking = 0
  BY <1>1 DEF Rows
<1> QED
  BY <1>1, <1>2 DEF Relaunched, SameBoundary

\* A launch puts its capability in the place of the one before.
LEMMA LaunchRows ==
  ASSUME NEW x \in Rows, NEW n \in States, Active(x)
  PROVE  /\ \A y \in {RecordConnectionSetupLaunch(x, n), RecordEntraConsentLaunch(x, n),
                      RecordGcpConnectionSetupLaunch(x, n), RecordGithubInstallLaunch(x, n)} :
               /\ y \in Rows /\ SameBoundary(x, y) /\ y.inst = x.inst /\ y.health = x.health
               /\ y.launch = n /\ y.oauth = x.oauth /\ y.picking = 0
         /\ LET y == RecordAzureReposOauthLaunch(x, n) IN
               /\ y \in Rows /\ SameBoundary(x, y) /\ y.inst = x.inst /\ y.health = x.health
               /\ y.launch = x.launch /\ y.oauth = n /\ y.picking = 0
<1> DEFINE z == Relaunched(x, n)
<1>1. /\ z \in Rows /\ SameBoundary(x, z) /\ z.inst = x.inst /\ z.health = x.health
      /\ z.launch = x.launch /\ z.oauth = x.oauth /\ z.picking = 0
  BY RelaunchedRows
<1>2. n \in 0..MaxStates
  BY StatesAssumption DEF States
<1> HIDE DEF z
<1>3. LET y == [z EXCEPT !.launch = n] IN
        /\ y \in Rows /\ SameBoundary(x, y) /\ y.inst = x.inst /\ y.health = x.health
        /\ y.launch = n /\ y.oauth = x.oauth /\ y.picking = 0
  BY <1>1, <1>2 DEF Rows, SameBoundary
<1>4. LET y == [z EXCEPT !.oauth = n, !.candidates = {}] IN
        /\ y \in Rows /\ SameBoundary(x, y) /\ y.inst = x.inst /\ y.health = x.health
        /\ y.launch = x.launch /\ y.oauth = n /\ y.picking = 0
  BY <1>1, <1>2 DEF Rows, SameBoundary
<1> QED
  BY <1>3, <1>4 DEF z, RecordConnectionSetupLaunch, RecordEntraConsentLaunch,
     RecordGcpConnectionSetupLaunch, RecordGithubInstallLaunch, RecordAzureReposOauthLaunch

\* A binding gives the row a boundary and takes its health.
LEMMA BoundRows ==
  ASSUME NEW x \in Rows, NEW places \in SUBSET Places
  PROVE  LET y == Bound(x, places) IN
         /\ y \in Rows /\ y.places = places /\ y.health = "unknown" /\ y.inst = x.inst
         /\ y.account = x.account
         /\ y.launch = x.launch /\ y.oauth = x.oauth /\ y.picking = x.picking
BY DEF Bound, Rows, Health

\* The bindings by a launch capability: they need it, and take it.
LEMMA LaunchBindingRows ==
  ASSUME NEW x \in Rows, NEW n, NEW places \in SUBSET Places,
         NEW y \in {CompleteAzureConnectionSetup(x, n, places),
                    CompleteGcpConnectionSetup(x, n, places)}
                   \cup (IF places = Places THEN {CompleteEntraConnectionSetup(x, n)} ELSE {}),
         y # x
  PROVE  /\ x.launch = n
         /\ y \in Rows /\ y.places = places /\ y.health = "unknown" /\ y.inst = x.inst
         /\ y.account = x.account
         /\ y.launch = 0 /\ y.oauth = x.oauth /\ y.picking = x.picking
<1> DEFINE z == Bound(x, places)
<1>1. /\ z \in Rows /\ z.places = places /\ z.health = "unknown" /\ z.inst = x.inst
      /\ z.account = x.account
      /\ z.launch = x.launch /\ z.oauth = x.oauth /\ z.picking = x.picking
  BY BoundRows
<1>2. x.launch = n /\ y = [z EXCEPT !.launch = 0]
  BY DEF CompleteAzureConnectionSetup, CompleteGcpConnectionSetup, CompleteEntraConnectionSetup
<1> HIDE DEF z
<1>3. 0 \in 0..MaxStates
  BY StatesAssumption
<1> QED
  BY <1>1, <1>2, <1>3 DEF Rows

\* A consent that fails uses the state and binds nothing.
LEMMA FailedConsentRows ==
  ASSUME NEW x \in Rows, NEW n
  PROVE  LET y == FailEntraConnectionSetup(x, n) IN y # x =>
            /\ x.launch = n
            /\ y \in Rows /\ SameBoundary(x, y) /\ y.inst = x.inst /\ y.health = x.health
            /\ y.launch = 0 /\ y.oauth = x.oauth /\ y.picking = x.picking
BY StatesAssumption DEF FailEntraConnectionSetup, Rows, SameBoundary

\* The return of an installation uses the launch for a verification, and binds nothing.
LEMMA InstallReturnRows ==
  ASSUME NEW x \in Rows, NEW n, NEW m \in States, NEW account \in Accounts \cup {NoAccount}
  PROVE  LET y == RecordGithubInstallReturn(x, n, account, m) IN y # x =>
            /\ x.launch = n
            /\ y \in Rows /\ SameBoundary(x, y) /\ y.health = x.health
            /\ y.launch = 0 /\ y.oauth = m /\ y.picking = x.picking
<1>1. 0 \in 0..MaxStates /\ m \in 0..MaxStates
  BY StatesAssumption DEF States
<1> QED
  BY <1>1 DEF RecordGithubInstallReturn, Rows, SameBoundary, States

\* A verification is used for a binding to the account it was for.
LEMMA VerificationRows ==
  ASSUME NEW x \in Rows, NEW n, NEW account \in Accounts \cup {NoAccount},
         NEW places \in SUBSET Places
  PROVE  LET y == CompleteGithubConnectionSetup(x, n, account, places) IN y # x =>
            /\ x.oauth = n
            /\ y \in Rows /\ y.places = places /\ y.account = account
            /\ y.health = "unknown" /\ y.inst = x.inst
            /\ y.launch = x.launch /\ y.oauth = 0 /\ y.picking = x.picking
<1> DEFINE z == Bound(x, places)
<1>1. /\ z \in Rows /\ z.places = places /\ z.health = "unknown" /\ z.inst = x.inst
      /\ z.launch = x.launch /\ z.oauth = x.oauth /\ z.picking = x.picking
  BY BoundRows
<1> HIDE DEF z
<1>2. 0 \in 0..MaxStates
  BY StatesAssumption
<1>3. LET y == [z EXCEPT !.oauth = 0, !.account = account] IN
        /\ y \in Rows /\ y.places = places /\ y.account = account
        /\ y.health = "unknown" /\ y.inst = x.inst
        /\ y.launch = x.launch /\ y.oauth = 0 /\ y.picking = x.picking
  BY <1>1, <1>2 DEF Rows
<1> QED
  BY <1>3 DEF CompleteGithubConnectionSetup, z

\* An OAuth state is used for a selection that is pending then.
LEMMA SelectionRows ==
  ASSUME NEW x \in Rows, NEW n, NEW m \in States, NEW candidates \in SUBSET Places
  PROVE  LET y == StageAzureReposRepositorySelection(x, n, candidates, m) IN y # x =>
            /\ x.oauth = n
            /\ y \in Rows /\ SameBoundary(x, y) /\ y.inst = x.inst /\ y.health = x.health
            /\ y.launch = x.launch /\ y.oauth = 0 /\ y.picking = m
<1> DEFINE z == Relaunched(x, m)
<1>1. /\ z \in Rows /\ SameBoundary(x, z) /\ z.inst = x.inst /\ z.health = x.health
      /\ z.launch = x.launch /\ z.oauth = x.oauth
  BY RelaunchedRows
<1> HIDE DEF z
<1>2. 0 \in 0..MaxStates /\ m \in 0..MaxStates
  BY StatesAssumption DEF States
<1>3. LET y == [z EXCEPT !.oauth = 0, !.candidates = candidates, !.picking = m] IN
        /\ y \in Rows /\ SameBoundary(x, y) /\ y.inst = x.inst /\ y.health = x.health
        /\ y.launch = x.launch /\ y.oauth = 0 /\ y.picking = m
  BY <1>1, <1>2 DEF Rows, SameBoundary
<1> QED
  BY <1>3 DEF StageAzureReposRepositorySelection, z

\* The statements that take none.
LEMMA PlainRows ==
  ASSUME NEW x \in Rows, NEW places \in SUBSET Places, NEW health \in Health
  PROVE  /\ LET y == RecordConnectionLaunch(x) IN
               /\ y \in Rows /\ SameBoundary(x, y) /\ y.inst = x.inst /\ y.health = x.health
               /\ SameCapabilities(x, y)
         /\ LET y == CompleteAzureReposConnectionSetup(x, places) IN y # x =>
               /\ y \in Rows /\ y.places = places /\ y.account = x.account
               /\ y.health = "unknown" /\ y.inst = x.inst /\ SameCapabilities(x, y)
         /\ LET y == CompleteGoogleWorkspaceConnectionSetup(x) IN Active(x) =>
               /\ y \in Rows /\ y.places = x.places /\ y.account = x.account
               /\ y.health = "unknown" /\ y.inst = x.inst /\ SameCapabilities(x, y)
         /\ LET y == RecordConnectionValidation(x, health) IN
               /\ y \in Rows /\ SameBoundary(x, y) /\ y.inst = x.inst /\ y.health = health
               /\ SameCapabilities(x, y)
         /\ LET y == DisableConnection(x) IN
               /\ y \in Rows /\ SameBoundary(x, y) /\ y.inst = x.inst /\ y.health = "disabled"
               /\ SameCapabilities(x, y)
         /\ \A w \in SUBSET States : LET y == [x EXCEPT !.window = w] IN
               /\ y \in Rows /\ SameBoundary(x, y) /\ y.inst = x.inst /\ y.health = x.health
               /\ SameCapabilities(x, y)
<1> USE DEF SameBoundary, SameCapabilities
<1>0. 0 \in 0..MaxStates
  BY StatesAssumption
<1>1. LET y == RecordConnectionLaunch(x) IN
        /\ y \in Rows /\ SameBoundary(x, y) /\ y.inst = x.inst /\ y.health = x.health
        /\ SameCapabilities(x, y)
  BY DEF RecordConnectionLaunch, Rows
<1>2. LET y == CompleteAzureReposConnectionSetup(x, places) IN y # x =>
        /\ y \in Rows /\ y.places = places /\ y.account = x.account
        /\ y.health = "unknown" /\ y.inst = x.inst /\ SameCapabilities(x, y)
  <2> DEFINE z == Bound(x, places)
  <2>1. /\ z \in Rows /\ z.places = places /\ z.health = "unknown" /\ z.inst = x.inst
        /\ z.account = x.account
        /\ z.launch = x.launch /\ z.oauth = x.oauth /\ z.picking = x.picking
    BY BoundRows
  <2> HIDE DEF z
  <2>2. LET y == [z EXCEPT !.window = {}, !.picking = 0, !.candidates = {}] IN
          /\ y \in Rows /\ y.places = places /\ y.account = x.account
          /\ y.health = "unknown" /\ y.inst = x.inst /\ SameCapabilities(x, y)
    BY <1>0, <2>1 DEF Rows
  <2> QED
    BY <2>2 DEF CompleteAzureReposConnectionSetup, z
<1>3. LET y == CompleteGoogleWorkspaceConnectionSetup(x) IN Active(x) =>
        /\ y \in Rows /\ y.places = x.places /\ y.account = x.account
        /\ y.health = "unknown" /\ y.inst = x.inst /\ SameCapabilities(x, y)
  <2>1. x.places \in SUBSET Places
    BY DEF Rows
  <2> QED
    BY <2>1, BoundRows DEF CompleteGoogleWorkspaceConnectionSetup
<1>4. LET y == RecordConnectionValidation(x, health) IN
        /\ y \in Rows /\ SameBoundary(x, y) /\ y.inst = x.inst /\ y.health = health
        /\ SameCapabilities(x, y)
  BY DEF RecordConnectionValidation, Rows
<1>5. LET y == DisableConnection(x) IN
        /\ y \in Rows /\ SameBoundary(x, y) /\ y.inst = x.inst /\ y.health = "disabled"
        /\ SameCapabilities(x, y)
  BY DEF DisableConnection, Rows, Health
<1>6. ASSUME NEW w \in SUBSET States
      PROVE  LET y == [x EXCEPT !.window = w] IN
               /\ y \in Rows /\ SameBoundary(x, y) /\ y.inst = x.inst /\ y.health = x.health
               /\ SameCapabilities(x, y)
  BY <1>6 DEF Rows
<1> QED
  BY <1>1, <1>2, <1>3, <1>4, <1>5, <1>6

\* A new row has no capability, no health and no account.
LEMMA NewRows ==
  ASSUME NEW places \in SUBSET Places, NEW done \in BOOLEAN
  PROVE  LET y == NewRow(places, done) IN
         /\ y \in Rows /\ y.places = places /\ y.done = done /\ y.health = "unknown"
         /\ y.launch = 0 /\ y.oauth = 0 /\ y.picking = 0
BY StatesAssumption DEF NewRow, Rows, Health

-----------------------------------------------------------------------------
(***************************************************************************)
(* What a healthy verdict means, of each validator.                        *)
(***************************************************************************)
Covered(target, verdict) ==
    verdict.proven # {} /\ target.places \X Planes \subseteq verdict.proven

\* The two ways to grade: what is healthy has proven all that was wanted.
LEMMA GradedFacts ==
  ASSUME NEW proven, NEW wanted
  PROVE  /\ Graded(proven, wanted) = "healthy" => wanted \subseteq proven
         /\ Counted(proven, wanted) = "healthy" => wanted \subseteq proven
BY DEF Graded, Counted

\* All the planes of a place are some.
LEMMA SomePlanes ==
  ASSUME NEW places, places # {}
  PROVE  places \X Planes # {}
<1>1. PICK p \in places : TRUE
  OBVIOUS
<1>2. <<p, OddPlane>> \in places \X Planes
  BY <1>1, PlanesAssumption
<1> QED
  BY <1>2

\* What proves a boundary with something in it proves something.
LEMMA CoveredBy ==
  ASSUME NEW target, NEW verdict, target.places # {},
         target.places \X Planes \subseteq verdict.proven
  PROVE  Covered(target, verdict)
BY SomePlanes DEF Covered

\* AWS: a boundary without Regions is all the enabled ones, and there are some.
LEMMA AwsCovers ==
  ASSUME NEW target \in Targets, NEW world \in Worlds, Aws(target, world).health = "healthy"
  PROVE  Covered(target, Aws(target, world))
<1> DEFINE discovery == DiscoverRegions(target, world)
           plan == AwsCoveragePlan(target, discovery)
           proven == ValidateRegionalPlanes(plan, world)
<1> HIDE DEF discovery, plan, proven
<1>1. /\ Aws(target, world).proven = proven
      /\ discovery.passed /\ Graded(proven, plan) = "healthy"
  BY DEF Aws, Verdict, CredentialFailure, discovery, plan, proven
<1>2. plan \subseteq proven
  BY <1>1, GradedFacts
<1>3. discovery.passed => discovery.regions # {}
  BY DEF discovery, DiscoverRegions
<1>4. CASE target.places # {}
  <2>1. plan = target.places \X Planes
    BY <1>4 DEF plan, AwsCoveragePlan
  <2> QED
    BY <1>1, <1>2, <1>4, <2>1, CoveredBy
<1>5. CASE target.places = {}
  <2>1. plan = discovery.regions \X Planes
    BY <1>1, <1>5 DEF plan, AwsCoveragePlan
  <2>2. plan # {}
    BY <1>1, <1>3, <2>1, SomePlanes
  <2>3. target.places \X Planes = {}
    BY <1>5
  <2> QED
    BY <1>1, <1>2, <2>2, <2>3 DEF Covered
<1> QED
  BY <1>4, <1>5

\* Azure and Google Cloud: a place that is bound is one of the boundary.
LEMMA PerPlaceCovers ==
  ASSUME NEW target \in Targets, NEW world \in Worlds, NEW proven,
         PerPlace(target, world, proven).health = "healthy"
  PROVE  Covered(target, PerPlace(target, world, proven))
<1>1. There(target, world) # {} /\ There(target, world) \subseteq target.places
  BY DEF PerPlace, CredentialFailure, Verdict, There
<1>2. /\ PerPlace(target, world, proven).proven = proven
      /\ Graded(proven, target.places \X Planes) = "healthy"
  BY <1>1 DEF PerPlace, CredentialFailure, Verdict
<1> QED
  BY <1>1, <1>2, GradedFacts, CoveredBy

\* The validators that ask for a place, or for a plane of one.
LEMMA PlaceCovers ==
  ASSUME NEW target \in Targets, NEW world \in Worlds,
         NEW verdict \in {GitHub(target, world), SharedGitHub(target, world),
                          AzureRepos(target, world), SharedAzureRepos(target, world),
                          SharedMicrosoft(target, world)},
         verdict.health = "healthy"
  PROVE  Covered(target, verdict)
<1> USE DEF Verdict, CredentialFailure
<1> DEFINE wanted == target.places \X Planes
<1> HIDE DEF wanted
<1>s. SUFFICES target.places # {} /\ wanted \subseteq verdict.proven
  BY CoveredBy DEF wanted
<1>2. CASE verdict = GitHub(target, world)
  BY <1>2, GradedFacts DEF GitHub, wanted
<1>3. CASE verdict = SharedGitHub(target, world)
  BY <1>3, GradedFacts DEF SharedGitHub, GitHub, wanted
<1>4. CASE verdict = AzureRepos(target, world)
  BY <1>4, GradedFacts DEF AzureRepos, wanted
<1>5. CASE verdict = SharedAzureRepos(target, world)
  BY <1>5, GradedFacts DEF SharedAzureRepos, AzureRepos, wanted
<1>6. CASE verdict = SharedMicrosoft(target, world)
  <2>1. wanted # {} /\ Counted(verdict.proven, wanted) = "healthy"
    BY <1>6 DEF SharedMicrosoft, wanted
  <2>2. target.places # {}
    BY <2>1 DEF wanted
  <2> QED
    BY <2>1, <2>2, GradedFacts
<1> QED
  BY <1>2, <1>3, <1>4, <1>5, <1>6

\* The validators that find every plane of no place proven: they are told of a place.
LEMMA BlindCovers ==
  ASSUME NEW target \in Targets, NEW world \in Worlds, target.places # {},
         NEW verdict \in {SharedGcp(target, world), Entra(target, world),
                          GoogleWorkspace(target, world), SharedWorkspace(target, world)},
         verdict.health = "healthy"
  PROVE  Covered(target, verdict)
<1> USE DEF Verdict, CredentialFailure
<1> DEFINE wanted == target.places \X Planes
<1> HIDE DEF wanted
<1>s. SUFFICES wanted \subseteq verdict.proven
  BY CoveredBy DEF wanted
<1>1. CASE verdict = SharedGcp(target, world)
  BY <1>1, GradedFacts DEF SharedGcp, wanted
<1>2. CASE verdict = Entra(target, world)
  BY <1>2, GradedFacts DEF Entra, wanted
<1>3. CASE verdict = GoogleWorkspace(target, world)
  BY <1>3, GradedFacts DEF GoogleWorkspace, wanted
<1>4. CASE verdict = SharedWorkspace(target, world)
  <2> DEFINE inner == GoogleWorkspace(target, [world EXCEPT !.login = TRUE])
  <2>1. verdict.health = inner.health /\ verdict.proven = inner.proven
    BY <1>4 DEF SharedWorkspace, GoogleWorkspace
  <2>2. inner.health = "healthy" => wanted \subseteq inner.proven
    BY GradedFacts DEF GoogleWorkspace, wanted
  <2> QED
    BY <2>1, <2>2
<1> QED
  BY <1>1, <1>2, <1>3, <1>4

\* A healthy connection has all of its boundary proven, whatever its provider: of every
\* validator, in every world, for every boundary the provider lets a row have.
THEOREM HealthyCovers ==
  ASSUME NEW p \in Native \cup Shared, NEW target \in Targets, NEW world \in Worlds,
         Solid(p, target), Conclude(p, target, world).health = "healthy"
  PROVE  Covered(target, Conclude(p, target, world))
<1> USE DEF Native, Shared
<1>1. CASE p \in {"aws", "shared_aws"}
  BY <1>1, AwsCovers DEF Conclude
<1>2. CASE p = "aws_resource"
  BY <1>2 DEF Conclude, AwsResource, Verdict, CredentialFailure
<1>3. CASE p = "azure"
  <2>1. Conclude(p, target, world) = PerPlace(target, world, AzurePlanes(target, world))
    BY <1>3 DEF Conclude, Azure, Verdict, CredentialFailure
  <2> QED
    BY <2>1, PerPlaceCovers
<1>4. CASE p = "gcp"
  <2>1. Conclude(p, target, world) = PerPlace(target, world, GcpPlanes(target, world))
    BY <1>4 DEF Conclude, Gcp, Verdict, CredentialFailure
  <2> QED
    BY <2>1, PerPlaceCovers
<1>5. CASE p \in {"shared_gcp", "google_workspace", "shared_workspace"}
  BY <1>5, BlindCovers DEF Conclude, Solid, Blind
<1>6. CASE p \in {"github", "shared_github", "azure_repos", "shared_azure_repos",
                  "shared_azure", "shared_entra"}
  BY <1>6, PlaceCovers DEF Conclude
<1>7. CASE p = "entra"
  <2>1. target.done
    BY <1>7 DEF Conclude, Entra, Verdict, CredentialFailure
  <2> QED
    BY <1>7, <2>1, BlindCovers DEF Conclude, Solid
<1> QED
  BY <1>1, <1>2, <1>3, <1>4, <1>5, <1>6, <1>7

-----------------------------------------------------------------------------
(***************************************************************************)
(* What a step of request r is, seen from the requests and the receipt.    *)
(***************************************************************************)
OtherRequests(r) ==
    /\ requests' \in [Requests -> Request]
    /\ \A s \in Requests : s # r => requests'[s] = requests[s]

\* The receipt stays, and a request of the key gets neither behind its write nor past it.
KeyQuiet(r) ==
    /\ receipt' = receipt
    /\ requests'[r].keyed =>
          /\ requests[r].keyed
          /\ requests'[r].at \in Early => requests[r].at \in Early
          /\ requests'[r].at \in {"written", "done"} => requests[r].at = "written"
          /\ requests'[r].at # "idle"

\* The request of the key writes.
KeyLanded(r) ==
    /\ requests[r].keyed /\ requests[r].at \in Early
    /\ requests'[r].keyed /\ requests'[r].at \in {"written", "done"}
    /\ receipt' = [receipt EXCEPT !.landed = @ + 1]

KeyClaimed(r) ==
    /\ ~requests[r].keyed /\ receipt.state = "none"
    /\ requests'[r].keyed /\ requests'[r].at = "begun"
    /\ receipt' = [receipt EXCEPT !.state = "claimed", !.ran = @ + 1]

KeyFinished(r) ==
    /\ requests[r].keyed /\ requests[r].at \in {"done", "failed"}
    /\ ~requests'[r].keyed
    /\ receipt' = [receipt EXCEPT !.state =
                      IF requests[r].at = "done" THEN "completed" ELSE "failed"]

RequestEffect(r) ==
    /\ OtherRequests(r)
    /\ KeyQuiet(r) \/ KeyLanded(r) \/ KeyClaimed(r) \/ KeyFinished(r)
    /\ requests'[r].state <= issued'
    /\ Sane(requests[r])'

\* A request is past its work: a direct call is over, one of the key is at one of the points.
Ends(r, points) ==
    /\ OtherRequests(r)
    /\ requests'[r].op = "none" /\ requests'[r].state = 0
    /\ requests'[r].keyed = requests[r].keyed
    /\ requests[r].keyed => requests'[r].at \in points
    /\ ~requests[r].keyed => requests'[r].at \in {"idle", "written"}

\* The points of a request that has forgotten its operation.
Forgotten == {"idle", "begun", "called", "written", "done", "failed"}

\* A forgotten request keeps only its point and its key.
LEMMA ForgetFacts ==
  ASSUME NEW q \in Request, NEW at \in Forgotten
  PROVE  /\ Forget(q, at) \in Request /\ Idle \in Request
         /\ Forget(q, at).op = "none" /\ Forget(q, at).state = 0 /\ Forget(q, at).at = at
         /\ Forget(q, at).keyed = q.keyed
         /\ Idle.op = "none" /\ Idle.state = 0 /\ Idle.at = "idle" /\ Idle.keyed = FALSE
<1>1. Idle \in Request
  BY StatesAssumption DEF Idle, Request
<1>2. q.keyed \in BOOLEAN
  BY DEF Request
<1>3. Idle.op = "none" /\ Idle.state = 0 /\ Idle.at = "idle" /\ Idle.keyed = FALSE
  BY DEF Idle
<1>4. /\ Forget(q, at) \in Request
      /\ Forget(q, at).op = Idle.op /\ Forget(q, at).state = Idle.state
      /\ Forget(q, at).at = at /\ Forget(q, at).keyed = q.keyed
  BY <1>1, <1>2 DEF Forget, Request, Forgotten
<1> QED
  BY <1>1, <1>3, <1>4

\* An answer ends a direct call, and leaves one of the key with what it is to write down.
LEMMA AnswerEnds ==
  ASSUME Shapes, NEW r \in Requests, NEW ok \in BOOLEAN, Answer(r, ok)
  PROVE  Ends(r, {IF ok THEN "done" ELSE "failed"})
<1>1. requests[r] \in Request
  BY DEF Shapes
<1> DEFINE at == IF ok THEN "done" ELSE "failed"
           q == IF requests[r].keyed THEN Forget(requests[r], at) ELSE Idle
<1>2. at \in {"done", "failed"} /\ at \in Forgotten
  BY DEF Forgotten
<1> HIDE DEF at
<1>3. /\ Forget(requests[r], at) \in Request /\ Idle \in Request
      /\ Forget(requests[r], at).op = "none" /\ Forget(requests[r], at).state = 0
      /\ Forget(requests[r], at).at = at /\ Forget(requests[r], at).keyed = requests[r].keyed
      /\ Idle.op = "none" /\ Idle.state = 0 /\ Idle.at = "idle" /\ Idle.keyed = FALSE
  BY <1>1, <1>2, ForgetFacts
<1>4. requests[r].keyed \in BOOLEAN
  BY <1>1 DEF Request
<1>5. /\ q \in Request /\ q.op = "none" /\ q.state = 0 /\ q.keyed = requests[r].keyed
      /\ requests[r].keyed => q.at = at
      /\ ~requests[r].keyed => q.at = "idle"
  BY <1>3, <1>4
<1>6. requests' = [requests EXCEPT ![r] = q]
  BY DEF Answer, q, at
<1> HIDE DEF q
<1>7. requests' \in [Requests -> Request] /\ requests'[r] = q
      /\ \A s \in Requests : s # r => requests'[s] = requests[s]
  BY <1>5, <1>6 DEF Shapes
<1> QED
  BY <1>5, <1>7 DEF Ends, OtherRequests, at

\* A conditional UPDATE lands and the request goes on, or changes nothing and it fails.
LEMMA UpdateEnds ==
  ASSUME Shapes, NEW r \in Requests, NEW new, NEW taken, NEW next \in {"answer", "written"},
         Update(r, new, taken, next)
  PROVE  \/ /\ Exists /\ taken /\ Write(new) /\ Land(r)
            /\ Ends(r, {"written", "done"})
         \/ ~(Exists /\ taken) /\ UNCHANGED <<row, proof, receipt>> /\ Ends(r, {"failed"})
<1>1. CASE Exists /\ taken
  <2>1. CASE next = "answer"
    BY <1>1, <2>1, AnswerEnds DEF Update, Ends
  <2>2. CASE next = "written"
    <3>1. requests' = [requests EXCEPT ![r] = Forget(requests[r], "written")]
      BY <1>1, <2>2 DEF Update
    <3> DEFINE q == Forget(requests[r], "written")
    <3>2. requests[r] \in Request /\ "written" \in Forgotten
      BY DEF Shapes, Forgotten
    <3>3. /\ q \in Request /\ q.op = "none" /\ q.state = 0
          /\ q.at = "written" /\ q.keyed = requests[r].keyed
      BY <3>2, ForgetFacts
    <3> HIDE DEF q
    <3>4. /\ requests' \in [Requests -> Request] /\ requests'[r] = q
          /\ \A s \in Requests : s # r => requests'[s] = requests[s]
      BY <3>1, <3>3 DEF Shapes, q
    <3>5. Ends(r, {"written", "done"})
      BY <3>3, <3>4 DEF Ends, OtherRequests
    <3> QED
      BY <1>1, <3>5 DEF Update
  <2> QED
    BY <2>1, <2>2
<1>2. CASE ~(Exists /\ taken)
  BY <1>2, AnswerEnds DEF Update
<1> QED
  BY <1>1, <1>2

\* The ways a request can end its work, as effects.
LEMMA EndsEffect ==
  ASSUME Shapes, NEW r \in Requests, issued' \in Nat
  PROVE  /\ Ends(r, {"failed"}) /\ receipt' = receipt => RequestEffect(r)
         /\ Ends(r, {"written", "done"}) /\ Land(r) /\ (requests[r].keyed => requests[r].at \in Early)
              => RequestEffect(r)
         /\ Ends(r, {"done", "failed"}) /\ receipt' = receipt
                /\ (requests[r].keyed => requests[r].at = "written")
              => RequestEffect(r)
<1>k. requests[r].keyed \in BOOLEAN
  BY DEF Shapes, Request
<1>s. ASSUME NEW points \in SUBSET {"failed", "done", "written"}, Ends(r, points)
      PROVE  OtherRequests(r) /\ requests'[r].state <= issued' /\ Sane(requests[r])'
  <2>1. requests'[r].keyed => requests'[r].at # "idle"
    BY <1>k, <1>s DEF Ends
  <2> QED
    BY <1>s, <2>1 DEF Ends, Sane
<1>1. ASSUME Ends(r, {"failed"}), receipt' = receipt PROVE RequestEffect(r)
  <2>1. KeyQuiet(r)
    BY <1>1 DEF Ends, KeyQuiet, Early
  <2> QED
    BY <1>1, <1>s, <2>1 DEF RequestEffect
<1>2. ASSUME Ends(r, {"written", "done"}), Land(r), requests[r].keyed => requests[r].at \in Early
      PROVE  RequestEffect(r)
  <2>1. CASE requests[r].keyed
    BY <1>2, <1>s, <2>1 DEF RequestEffect, Ends, KeyLanded, Land
  <2>2. CASE ~requests[r].keyed
    BY <1>2, <1>s, <2>2 DEF RequestEffect, Ends, KeyQuiet, Land
  <2> QED
    BY <2>1, <2>2
<1>3. ASSUME Ends(r, {"done", "failed"}), receipt' = receipt,
             requests[r].keyed => requests[r].at = "written"
      PROVE  RequestEffect(r)
  <2>1. KeyQuiet(r)
    BY <1>3 DEF Ends, KeyQuiet, Early
  <2> QED
    BY <1>3, <1>s, <2>1 DEF RequestEffect
<1> QED
  BY <1>1, <1>2, <1>3

\* A request that enters its handler is on its way.
LEMMA EnterEffect ==
  ASSUME Shapes, TypeOK, NEW r \in Requests, issued \in Nat,
         NEW op \in {"create", "launch", "complete", "return", "oauth", "validate", "disable",
                     "delete", "attach", "setup"},
         NEW at \in {"called", "listed", "written"},
         NEW n \in 0..MaxStates, n <= issued', NEW pick \in SUBSET Places,
         NEW account \in Accounts \cup {NoAccount},
         Enter(r, op, at, n, pick, account), receipt' = receipt,
         requests[r].keyed => requests[r].at = "begun" /\ at # "written",
         op = "setup" => ~requests[r].keyed,
         op = "launch" => provider' \in Launchers,
         op = "attach" => provider' \in Shared /\ (provider' \in Blind => pick # {}),
         op = "oauth" => n # 0 /\ (provider' = "github" /\ Exists' /\ row'.oauth = n
                                     => account = row'.inst)
  PROVE  RequestEffect(r)
<1>1. requests[r] \in Request
  BY DEF Shapes
<1>2. [op |-> op, at |-> at, state |-> n, pick |-> pick, account |-> account,
       keyed |-> requests[r].keyed] \in Request
  BY <1>1 DEF Request
<1>3. /\ OtherRequests(r)
      /\ requests'[r] = [op |-> op, at |-> at, state |-> n, pick |-> pick, account |-> account,
                         keyed |-> requests[r].keyed]
  BY <1>2 DEF Enter, OtherRequests, Shapes
<1>4. KeyQuiet(r)
  BY <1>3 DEF KeyQuiet, Early
<1>5. Sane(requests[r])'
  BY <1>3 DEF Sane
<1> QED
  BY <1>3, <1>4, <1>5 DEF RequestEffect

-----------------------------------------------------------------------------
(***************************************************************************)
(* What a step is, seen from the capabilities and from the row.            *)
(***************************************************************************)
\* No place gets a capability but one that is issued now, and one that is used is held
\* nowhere any more.
CapabilityEffect ==
    /\ issued' \in {issued, issued + 1} \cap 0..MaxStates
    /\ \E k \in Slots :
          /\ Held(k)' \in {0, Held(k)} \/ (issued' = issued + 1 /\ Held(k)' = issued')
          /\ \A s \in Slots : s # k => Held(s)' \in {0, Held(s)}
    /\ spent' = spent
          \/ \E s \in Slots : Held(s) # 0 /\ Held(s)' = 0 /\ Spend(Held(s), Held(s))
    /\ workflow' \in [state : 0..issued', status : {"none", "in_progress", "returned", "failed"},
                      open : BOOLEAN]
    /\ workflow'.status = "in_progress" => workflow'.state # 0

\* A statement leaves the boundary alone, or gives the connection one that is proved by
\* nothing yet; and a verification that it does not end keeps the installation.
Changes(y) ==
    /\ y \in Rows
    /\ y.picking \in {0, row.picking, issued'}
    /\ y.oauth \in {0, issued + 1} \/ (y.oauth = row.oauth /\ y.inst = row.inst)
    /\ \/ SameBoundary(row, y) /\ y.health \in {row.health, "disabled"}
       \/ /\ provider \notin Shared /\ y.health = "unknown" /\ Solid(provider, y)
          /\ provider = "github" => y.account = row.inst

RowOpened ==
    /\ ~Exists
    /\ \E places \in SUBSET Places, done \in BOOLEAN : row' = NewRow(places, done)
    /\ Solid(provider, row')

RowGraded ==
    /\ Exists
    /\ \E health \in Health : row' = RecordConnectionValidation(row, health)
    /\ row'.health = "healthy" => proof'.covers /\ (proof'.late \/ proof'.boundary = Boundary(row))

RowEffect ==
    /\ provider' = provider
    /\ \/ UNCHANGED <<row, proof>>
       \/ row' = NoRow
       \/ RowOpened
       \/ Exists /\ Changes(row') /\ (row'.health = "healthy" => proof' = proof)
       \/ RowGraded

\* Who is told of a boundary is told the one of the row.
ToldEffect ==
    /\ told' \subseteq SUBSET Places
    /\ provider \in Shared /\ Exists' => told' \subseteq {row'.places} \cup
                                                    (IF Exists THEN told ELSE {})

JobEffect ==
    \/ job' = job
    \/ job' = NoJob
    \/ job' = [NoJob EXCEPT !.at = "queued"]
    \/ Serving /\ job' = [at |-> "running", target |-> TargetOf(row), boundary |-> Boundary(row)]

\* A step of a request, or one of no request.
Effect ==
    /\ CapabilityEffect /\ RowEffect /\ ToldEffect /\ JobEffect
    /\ lives' \in 0..MaxLives /\ offered' \subseteq Places

\* What TypeOK and Shapes say of the parts that an effect is about.
LEMMA Ranges ==
  ASSUME TypeOK, Shapes
  PROVE  /\ issued \in Nat /\ issued <= MaxStates
         /\ Exists => row \in Rows
         /\ \A s \in Slots : Held(s) \in Nat /\ Held(s) <= issued
         /\ workflow \in [state : 0..issued,
                          status : {"none", "in_progress", "returned", "failed"}, open : BOOLEAN]
<1>1. issued \in Nat /\ issued <= MaxStates
  BY StatesAssumption DEF TypeOK
<1>2. Exists => row \in Rows
  BY DEF TypeOK, Exists
<1>3. ASSUME NEW s \in Slots PROVE Held(s) \in Nat /\ Held(s) <= issued
  <2>1. Exists => row.launch \in Nat /\ row.oauth \in Nat
                  /\ row.launch <= issued /\ row.oauth <= issued
    BY <1>2, StatesAssumption DEF Rows, TypeOK
  <2>2. workflow.state \in Nat /\ workflow.state <= issued
    BY StatesAssumption DEF Shapes, TypeOK
  <2>3. CASE s = "launch"
    BY <1>1, <2>1, <2>3 DEF Held
  <2>4. CASE s = "oauth"
    BY <1>1, <2>1, <2>4 DEF Held
  <2>5. CASE s = "workflow"
    BY <1>1, <2>2, <2>5 DEF Held
  <2> QED
    BY <2>3, <2>4, <2>5 DEF Slots
<1>4. workflow \in [state : 0..issued,
                    status : {"none", "in_progress", "returned", "failed"}, open : BOOLEAN]
  BY <1>1, StatesAssumption DEF Shapes, TypeOK
<1> QED
  BY <1>1, <1>2, <1>3, <1>4

\* Under an effect the capabilities stay fresh until they are used, and are used once.
LEMMA CapabilitiesStayFresh ==
  ASSUME TypeOK, Shapes, HeldIsFresh, SpentOnce, CapabilityEffect
  PROVE  /\ HeldIsFresh' /\ SpentOnce'
         /\ spent' \in [States -> {"fresh", "spent", "abused"}]
         /\ \A s \in Slots : Held(s)' <= issued'
<1>1. /\ issued \in Nat /\ issued <= MaxStates
      /\ \A s \in Slots : Held(s) \in Nat /\ Held(s) <= issued
  BY Ranges
<1>2. /\ issued' \in Nat /\ issued' <= MaxStates /\ MaxStates \in Nat
      /\ issued' = issued \/ issued' = issued + 1
  BY <1>1, StatesAssumption DEF CapabilityEffect
<1>3. PICK k \in Slots :
        /\ Held(k)' \in {0, Held(k)} \/ (issued' = issued + 1 /\ Held(k)' = issued')
        /\ \A s \in Slots : s # k => Held(s)' \in {0, Held(s)}
  BY DEF CapabilityEffect
<1>4. \A s \in Slots : \/ Held(s)' = 0
                       \/ Held(s)' = Held(s)
                       \/ s = k /\ Held(s)' = issued + 1 /\ issued' = issued + 1
  BY <1>3
<1>5. spent \in [States -> {"fresh", "spent", "abused"}]
  BY DEF Shapes
<1>6. /\ \A n \in States : n > issued => spent[n] = "fresh"
      /\ \A s \in Slots : Held(s) # 0 =>
            spent[Held(s)] = "fresh" /\ \A t \in Slots : Held(t) = Held(s) => t = s
  BY DEF HeldIsFresh
<1>7. \A s \in Slots : Held(s)' \in Nat /\ Held(s)' <= issued'
  BY <1>1, <1>2, <1>4
<1>8. /\ spent' \in [States -> {"fresh", "spent", "abused"}] /\ SpentOnce'
      /\ \A n \in States : spent'[n] = spent[n]
            \/ \E t \in Slots : Held(t) = n /\ Held(t) # 0 /\ Held(t)' = 0
  <2>1. CASE spent' = spent
    BY <1>5, <2>1 DEF SpentOnce
  <2>2. CASE \E t \in Slots : Held(t) # 0 /\ Held(t)' = 0 /\ Spend(Held(t), Held(t))
    <3>1. PICK t \in Slots : Held(t) # 0 /\ Held(t)' = 0 /\ Spend(Held(t), Held(t))
      BY <2>2
    <3>2. Held(t) \in States /\ spent[Held(t)] = "fresh"
      BY <1>1, <1>6, <3>1, StatesAssumption DEF States
    <3>3. spent' = [spent EXCEPT ![Held(t)] = "spent"]
      BY <3>1, <3>2 DEF Spend
    <3> QED
      BY <1>5, <3>1, <3>2, <3>3 DEF SpentOnce
  <2> QED
    BY <2>1, <2>2 DEF CapabilityEffect
<1>9. \A n \in States : n > issued' => spent'[n] = "fresh"
  <2> SUFFICES ASSUME NEW n \in States, n > issued' PROVE spent'[n] = "fresh"
    OBVIOUS
  <2>1. n > issued /\ \A t \in Slots : Held(t) # n
    BY <1>1, <1>2, StatesAssumption DEF States
  <2> QED
    BY <1>6, <1>8, <2>1
<1>10. ASSUME NEW s \in Slots, Held(s)' # 0
       PROVE  spent'[Held(s)'] = "fresh" /\ \A t \in Slots : Held(t)' = Held(s)' => t = s
  <2>1. Held(s)' \in States
    BY <1>2, <1>7, <1>10, StatesAssumption DEF States
  <2>2. CASE Held(s)' = Held(s)
    <3>1. \A t \in Slots : Held(t)' = Held(s)' => t = s
      BY <1>1, <1>4, <1>6, <1>10, <2>2
    <3>2. spent[Held(s)] = "fresh" /\ \A t \in Slots : Held(t) = Held(s) => t = s
      BY <1>6, <1>10, <2>2
    <3> QED
      BY <1>8, <1>10, <2>1, <2>2, <3>1, <3>2
  <2>3. CASE s = k /\ Held(s)' = issued + 1 /\ issued' = issued + 1
    <3>1. \A t \in Slots : Held(t) # issued + 1
      BY <1>1
    <3>2. \A t \in Slots : Held(t)' = Held(s)' => t = s
      BY <1>4, <1>10, <2>3, <3>1
    <3>3. spent[issued + 1] = "fresh"
      BY <1>1, <1>6, <2>1, <2>3
    <3> QED
      BY <1>8, <2>1, <2>3, <3>1, <3>2, <3>3
  <2> QED
    BY <1>4, <1>10, <2>2, <2>3
<1> QED
  BY <1>7, <1>8, <1>9, <1>10 DEF HeldIsFresh, CapabilityEffect

\* Under an effect the row stays one whose health is proved and whose boundary was asked for.
LEMMA RowStaysProved ==
  ASSUME TypeOK, Shapes, SolidBoundary, HealthyMeansProved, AttachedAsAsked,
         RowEffect, ToldEffect, JobEffect
  PROVE  /\ row' \in Rows \cup {NoRow} /\ SolidBoundary' /\ HealthyMeansProved' /\ AttachedAsAsked'
         /\ job'.at \in {"none", "queued", "running"}
<1>1. provider' = provider
  BY DEF RowEffect
<1>2. Exists => row \in Rows /\ Solid(provider, row)
  BY Ranges DEF SolidBoundary
<1>3. Boundary(row)' = Boundary(row') /\ (Exists' <=> row' # NoRow)
  BY DEF Boundary, Exists
<1>4. job'.at = "running" => Solid(provider', job'.target)
  <2>1. CASE job' = job
    BY <1>1, <2>1 DEF SolidBoundary
  <2>2. CASE job' = NoJob \/ job' = [NoJob EXCEPT !.at = "queued"]
    BY <2>2 DEF NoJob
  <2>3. CASE Serving /\ job' = [at |-> "running", target |-> TargetOf(row),
                                boundary |-> Boundary(row)]
    BY <1>1, <1>2, <2>3 DEF Serving, TargetOf, Solid
  <2> QED
    BY <2>1, <2>2, <2>3 DEF JobEffect
<1>5. job'.at \in {"none", "queued", "running"}
  BY DEF JobEffect, NoJob, TypeOK
<1> DEFINE RowProved == /\ row' \in Rows \cup {NoRow}
                        /\ Exists' => Solid(provider, row')
                        /\ HealthyMeansProved'
                        /\ provider \in Shared /\ Exists' /\ Exists => row'.places = row.places
<1>6. RowProved
  <2>1. CASE UNCHANGED <<row, proof>>
    BY <1>2, <1>3, <2>1 DEF HealthyMeansProved, Exists, Boundary, TypeOK
  <2>2. CASE row' = NoRow
    BY <1>3, <2>2 DEF HealthyMeansProved
  <2>3. CASE RowOpened
    BY <2>3, NewRows DEF RowOpened, HealthyMeansProved
  <2>4. CASE Exists /\ Changes(row') /\ (row'.health = "healthy" => proof' = proof)
    <3>1. CASE SameBoundary(row, row') /\ row'.health \in {row.health, "disabled"}
      <4>1. Solid(provider, row')
        BY <1>2, <2>4, <3>1 DEF SameBoundary, Solid
      <4>2. HealthyMeansProved'
        <5> SUFFICES ASSUME Exists', row'.health = "healthy"
                     PROVE  proof'.covers /\ (proof'.late \/ proof'.boundary = Boundary(row'))
          BY <1>3 DEF HealthyMeansProved
        <5>1. row.health = "healthy" /\ proof' = proof
          BY <1>3, <2>4, <3>1
        <5>2. Boundary(row') = Boundary(row)
          BY <3>1 DEF Boundary, SameBoundary
        <5> QED
          BY <2>4, <5>1, <5>2 DEF HealthyMeansProved
      <4> QED
        BY <2>4, <3>1, <4>1, <4>2 DEF Changes, SameBoundary
    <3>2. CASE provider \notin Shared /\ row'.health = "unknown" /\ Solid(provider, row')
      BY <2>4, <3>2 DEF Changes, HealthyMeansProved
    <3> QED
      BY <2>4, <3>1, <3>2 DEF Changes
  <2>5. CASE RowGraded
    <3>1. PICK health \in Health : row' = RecordConnectionValidation(row, health)
      BY <2>5 DEF RowGraded
    <3>2. /\ row' \in Rows /\ SameBoundary(row, row')
      BY <1>2, <2>5, <3>1, PlainRows DEF RowGraded
    <3>3. Boundary(row') = Boundary(row) /\ Solid(provider, row')
      BY <1>2, <2>5, <3>2 DEF RowGraded, SameBoundary, Boundary, Solid
    <3> QED
      BY <1>3, <2>5, <3>2, <3>3 DEF RowGraded, HealthyMeansProved, SameBoundary
  <2> QED
    BY <2>1, <2>2, <2>3, <2>4, <2>5 DEF RowEffect
<1>7. AttachedAsAsked'
  <2> SUFFICES ASSUME Exists', provider \in Shared PROVE told' \subseteq {row'.places}
    BY <1>1 DEF AttachedAsAsked
  <2>1. told' \subseteq {row'.places} \cup (IF Exists THEN told ELSE {})
    BY DEF ToldEffect
  <2>2. Exists => told \subseteq {row'.places}
    BY <1>6 DEF AttachedAsAsked
  <2> QED
    BY <2>1, <2>2
<1> QED
  BY <1>1, <1>4, <1>5, <1>6, <1>7 DEF SolidBoundary

\* What a request knows stays true while others work: the verification it is about to
\* complete is for the installation the row names, or no longer the one of the row.
LEMMA SaneStays ==
  ASSUME TypeOK, Shapes, RowEffect, CapabilityEffect,
         NEW q \in Request, Sane(q), q.state <= issued
  PROVE  q.state <= issued' /\ Sane(q)'
<1>1. provider' = provider /\ (Exists' <=> row' # NoRow)
  BY DEF RowEffect, Exists
<1>2. issued \in Nat /\ q.state \in Nat /\ issued' \in {issued, issued + 1}
  BY Ranges, StatesAssumption DEF Request, CapabilityEffect
<1>3. Exists => row \in Rows
  BY Ranges
<1>4. Exists' => \/ row'.oauth \in {0, issued + 1}
                 \/ Exists /\ row'.oauth = row.oauth /\ row'.inst = row.inst
  <2>1. CASE UNCHANGED <<row, proof>>
    BY <2>1 DEF Exists
  <2>2. CASE RowOpened
    BY <2>2, NewRows DEF RowOpened
  <2>3. CASE RowGraded
    <3>1. PICK health \in Health : row' = RecordConnectionValidation(row, health)
      BY <2>3 DEF RowGraded
    <3>2. row'.oauth = row.oauth /\ row'.inst = row.inst
      BY <1>3, <2>3, <3>1 DEF RowGraded, RecordConnectionValidation, Rows
    <3> QED
      BY <2>3, <3>2 DEF RowGraded
  <2> QED
    BY <1>1, <2>1, <2>2, <2>3 DEF RowEffect, Changes
<1>5. q.op = "oauth" /\ q.at = "called" /\ provider' = "github" /\ Exists' /\ row'.oauth = q.state
        => q.account = row'.inst
  BY <1>1, <1>2, <1>4 DEF Sane
<1> QED
  BY <1>1, <1>2, <1>5 DEF Sane

\* Under the effect of a request the key keeps its one request, and its receipt is true.
LEMMA KeyStaysOne ==
  ASSUME Shapes, OneKey, ReceiptTellsTruth, NEW r \in Requests, RequestEffect(r)
  PROVE  /\ OneKey' /\ ReceiptTellsTruth'
         /\ receipt' \in [state : {"none", "claimed", "completed", "failed"},
                          ran : Nat, landed : Nat]
<1>1. /\ requests' \in [Requests -> Request]
      /\ \A s \in Requests : s # r => requests'[s] = requests[s]
  BY DEF RequestEffect, OtherRequests
<1>2. \A s \in Requests : requests[s].keyed \in BOOLEAN /\ requests'[s].keyed \in BOOLEAN
  BY <1>1 DEF Shapes, Request
<1>3. receipt \in [state : {"none", "claimed", "completed", "failed"}, ran : Nat, landed : Nat]
  BY DEF Shapes
<1>4. /\ \A s \in Requests : requests[s].keyed =>
           /\ receipt.state = "claimed"
           /\ requests[s].at # "idle"
           /\ requests[s].at \in Early => receipt.landed = 0
           /\ requests[s].at \in {"written", "done"} => receipt.landed = 1
      /\ \A s, t \in Requests : requests[s].keyed /\ requests[t].keyed => s = t
      /\ receipt.state = "none" => receipt.ran = 0 /\ receipt.landed = 0
  BY DEF OneKey
<1>5. CASE KeyQuiet(r)
  <2>1. ASSUME NEW s \in Requests, requests'[s].keyed
        PROVE  /\ requests[s].keyed
               /\ requests'[s].at # "idle"
               /\ requests'[s].at \in Early => requests[s].at \in Early
               /\ requests'[s].at \in {"written", "done"} =>
                     requests[s].at \in {"written", "done"}
    BY <1>1, <1>4, <1>5, <2>1 DEF KeyQuiet
  <2>2. receipt' = receipt
    BY <1>5 DEF KeyQuiet
  <2>3. OneKey'
    BY <1>4, <2>1, <2>2 DEF OneKey
  <2> QED
    BY <1>3, <2>2, <2>3 DEF ReceiptTellsTruth
<1>6. CASE KeyLanded(r)
  <2>1. requests[r].keyed /\ receipt.state = "claimed" /\ receipt.landed = 0
    BY <1>4, <1>6 DEF KeyLanded
  <2>2. \A s \in Requests : requests'[s].keyed => s = r
    BY <1>1, <1>4, <2>1
  <2>3. receipt' \in [state : {"none", "claimed", "completed", "failed"}, ran : Nat, landed : Nat]
        /\ receipt'.state = "claimed" /\ receipt'.landed = 1 /\ receipt'.ran = receipt.ran
    BY <1>3, <1>6, <2>1 DEF KeyLanded
  <2>4. OneKey'
    BY <1>6, <2>2, <2>3 DEF OneKey, KeyLanded, Early
  <2> QED
    BY <2>3, <2>4 DEF ReceiptTellsTruth
<1>7. CASE KeyClaimed(r)
  <2>1. receipt.state = "none" /\ receipt.ran = 0 /\ receipt.landed = 0
    BY <1>4, <1>7 DEF KeyClaimed
  <2>2. \A s \in Requests : requests'[s].keyed => s = r
    BY <1>1, <1>4, <2>1
  <2>3. receipt' \in [state : {"none", "claimed", "completed", "failed"}, ran : Nat, landed : Nat]
        /\ receipt'.state = "claimed" /\ receipt'.landed = 0 /\ receipt'.ran = 1
    <3>1. receipt' = [receipt EXCEPT !.state = "claimed", !.ran = 1]
      BY <1>7, <2>1 DEF KeyClaimed
    <3> QED
      BY <1>3, <2>1, <3>1
  <2>4. OneKey'
    BY <1>7, <2>2, <2>3 DEF OneKey, KeyClaimed, Early
  <2> QED
    BY <2>3, <2>4 DEF ReceiptTellsTruth
<1>8. CASE KeyFinished(r)
  <2>1. requests[r].keyed /\ (requests[r].at = "done" => receipt.landed = 1)
    BY <1>4, <1>8 DEF KeyFinished
  <2>2. \A s \in Requests : ~requests'[s].keyed
    BY <1>1, <1>4, <1>8, <2>1 DEF KeyFinished
  <2>3. /\ receipt' \in [state : {"none", "claimed", "completed", "failed"}, ran : Nat,
                         landed : Nat]
        /\ receipt'.state = IF requests[r].at = "done" THEN "completed" ELSE "failed"
        /\ receipt'.landed = receipt.landed /\ receipt'.ran = receipt.ran
    BY <1>3, <1>8 DEF KeyFinished
  <2>4. OneKey'
    BY <2>2, <2>3 DEF OneKey
  <2> QED
    BY <2>1, <2>3, <2>4 DEF ReceiptTellsTruth
<1> QED
  BY <1>5, <1>6, <1>7, <1>8 DEF RequestEffect

\* A pending selection is an issued capability too.
LEMMA PickingIsIssued ==
  ASSUME TypeOK, Shapes, RowEffect, CapabilityEffect
  PROVE  Exists' => row'.picking <= issued'
<1>1. /\ issued \in Nat /\ issued' \in {issued, issued + 1}
      /\ Exists => row \in Rows /\ row.picking \in Nat /\ row.picking <= issued
  BY Ranges, StatesAssumption DEF CapabilityEffect, Rows, TypeOK
<1>2. CASE UNCHANGED <<row, proof>>
  BY <1>1, <1>2 DEF Exists
<1>3. CASE row' = NoRow
  BY <1>3 DEF Exists
<1>4. CASE RowOpened
  BY <1>1, <1>4, NewRows DEF RowOpened
<1>5. CASE Exists /\ Changes(row') /\ (row'.health = "healthy" => proof' = proof)
  BY <1>1, <1>5 DEF Changes
<1>6. CASE RowGraded
  BY <1>1, <1>6 DEF RowGraded, RecordConnectionValidation
<1> QED
  BY <1>2, <1>3, <1>4, <1>5, <1>6 DEF RowEffect

\* An effect keeps all of the invariant that is not about the requests and the receipt.
LEMMA EffectPreserves ==
  ASSUME IInv, Effect
  PROVE  /\ HeldIsFresh' /\ SolidBoundary' /\ SpentOnce' /\ HealthyMeansProved'
         /\ AttachedAsAsked'
         /\ spent' \in [States -> {"fresh", "spent", "abused"}]
         /\ workflow' \in [state : 0..MaxStates,
                           status : {"none", "in_progress", "returned", "failed"},
                           open : BOOLEAN]
         /\ requests' \in [Requests -> Request] /\ receipt'.state \in {"none", "claimed", "completed", "failed"}
                /\ (\A r \in Requests : requests'[r].state <= issued')
              => TypeOK'
<1>1. /\ HeldIsFresh' /\ SpentOnce'
      /\ spent' \in [States -> {"fresh", "spent", "abused"}]
      /\ \A s \in Slots : Held(s)' <= issued'
  BY CapabilitiesStayFresh DEF IInv, Effect
<1>2. /\ row' \in Rows \cup {NoRow} /\ SolidBoundary' /\ HealthyMeansProved'
      /\ AttachedAsAsked' /\ job'.at \in {"none", "queued", "running"}
  BY RowStaysProved DEF IInv, Effect
<1>3. Exists' => row'.launch <= issued' /\ row'.oauth <= issued' /\ row'.picking <= issued'
  <2>1. Exists' => Held("launch")' = row'.launch /\ Held("oauth")' = row'.oauth
    BY DEF Held
  <2> QED
    BY <1>1, <2>1, PickingIsIssued DEF IInv, Effect, Slots
<1>4. issued' \in 0..MaxStates /\ workflow'.state <= issued'
      /\ workflow' \in [state : 0..MaxStates,
                        status : {"none", "in_progress", "returned", "failed"}, open : BOOLEAN]
  <2>1. /\ issued' \in 0..MaxStates
        /\ workflow' \in [state : 0..issued',
                          status : {"none", "in_progress", "returned", "failed"},
                          open : BOOLEAN]
    BY DEF Effect, CapabilityEffect
  <2> QED
    BY <2>1, StatesAssumption
<1>5. provider' \in Providers /\ lives' \in 0..MaxLives /\ offered' \subseteq Places
      /\ told' \subseteq SUBSET Places
  BY DEF IInv, TypeOK, Effect, RowEffect, ToldEffect
<1>6. ASSUME requests' \in [Requests -> Request],
             receipt'.state \in {"none", "claimed", "completed", "failed"},
             \A r \in Requests : requests'[r].state <= issued'
      PROVE  TypeOK'
  <2>1. \A r \in Requests : requests'[r].pick \subseteq Places
    BY <1>6 DEF Request
  <2> QED
    BY <1>2, <1>3, <1>4, <1>5, <1>6, <2>1 DEF TypeOK
<1> QED
  BY <1>1, <1>2, <1>4, <1>6

\* A step of a request that has its effects preserves the invariant.
LEMMA RequestPreserves ==
  ASSUME IInv, Effect, NEW r \in Requests, RequestEffect(r)
  PROVE  IInv'
<1>1. /\ requests' \in [Requests -> Request]
      /\ \A s \in Requests : s # r => requests'[s] = requests[s]
  BY DEF RequestEffect, OtherRequests
<1>2. /\ OneKey' /\ ReceiptTellsTruth'
      /\ receipt' \in [state : {"none", "claimed", "completed", "failed"},
                       ran : Nat, landed : Nat]
  BY KeyStaysOne DEF IInv
<1>3. ASSUME NEW s \in Requests PROVE requests'[s].state <= issued' /\ Sane(requests[s])'
  <2>1. CASE s = r
    BY <2>1 DEF RequestEffect
  <2>2. CASE s # r
    <3>1. /\ requests[s] \in Request /\ Sane(requests[s]) /\ requests[s].state <= issued
      BY DEF IInv, Shapes, RequestsAreSane, TypeOK
    <3> DEFINE q == requests[s]
    <3>2. requests'[s] = q
      BY <1>1, <2>2
    <3> HIDE DEF q
    <3>3. ASSUME NEW w \in Request, Sane(w), w.state <= issued
          PROVE  w.state <= issued' /\ Sane(w)'
      BY <3>3, SaneStays DEF IInv, Effect
    <3> QED
      BY <3>1, <3>2, <3>3 DEF q, Sane
  <2> QED
    BY <2>1, <2>2
<1>4. Shapes'
  BY <1>1, <1>2, EffectPreserves DEF Shapes
<1>5. TypeOK'
  BY <1>1, <1>2, <1>3, EffectPreserves
<1> QED
  BY <1>2, <1>3, <1>4, <1>5, EffectPreserves DEF IInv, RequestsAreSane

\* So does a step that is of no request.
LEMMA WorldPreserves ==
  ASSUME IInv, Effect, UNCHANGED <<requests, receipt>>
  PROVE  IInv'
<1>1. requests' \in [Requests -> Request] /\ receipt'.state \in {"none", "claimed", "completed", "failed"}
  BY DEF IInv, Shapes, TypeOK
<1>2. ASSUME NEW s \in Requests PROVE requests'[s].state <= issued' /\ Sane(requests[s])'
  <2>1. /\ requests[s] \in Request /\ Sane(requests[s]) /\ requests[s].state <= issued
    BY DEF IInv, Shapes, RequestsAreSane, TypeOK
  <2>2. ASSUME NEW w \in Request, Sane(w), w.state <= issued
        PROVE  w.state <= issued' /\ Sane(w)'
    BY <2>2, SaneStays DEF IInv, Effect
  <2> QED
    BY <2>1, <2>2 DEF Sane
<1>3. Shapes'
  BY EffectPreserves DEF Shapes, IInv
<1>4. OneKey' /\ ReceiptTellsTruth'
  BY DEF IInv, OneKey, ReceiptTellsTruth
<1>5. TypeOK'
  BY <1>1, <1>2, EffectPreserves
<1> QED
  BY <1>2, <1>3, <1>4, <1>5, EffectPreserves DEF IInv, RequestsAreSane

-----------------------------------------------------------------------------
(***************************************************************************)
(* The effects of the actions.                                             *)
(***************************************************************************)
\* Nothing happens to the row, the workflow or the job.
LEMMA QuietEffect ==
  ASSUME IInv,
         UNCHANGED <<provider, row, issued, job, workflow, offered, lives, proof, spent, told>>
  PROVE  Effect
<1>1. \A s \in Slots : Held(s)' = Held(s)
  BY DEF Held, Exists
<1>2. issued \in 0..MaxStates /\ issued' = issued /\ "launch" \in Slots
  BY DEF IInv, TypeOK, Slots
<1>3. /\ workflow' \in [state : 0..issued',
                        status : {"none", "in_progress", "returned", "failed"}, open : BOOLEAN]
      /\ workflow'.status = "in_progress" => workflow'.state # 0
  BY Ranges DEF IInv, HeldIsFresh
<1>4. CapabilityEffect
  BY <1>1, <1>2, <1>3 DEF CapabilityEffect
<1>5. ToldEffect
  BY DEF ToldEffect, IInv, TypeOK, AttachedAsAsked, Exists
<1> QED
  BY <1>4, <1>5 DEF Effect, RowEffect, JobEffect, IInv, TypeOK

\* A capability is issued that no place gets.
LEMMA IssuedEffect ==
  ASSUME IInv, UNCHANGED <<row, workflow, spent>>,
         issued' \in {issued, issued + 1} \cap 0..MaxStates
  PROVE  CapabilityEffect
<1>1. \A s \in Slots : Held(s)' = Held(s)
  BY DEF Held, Exists
<1>2. workflow \in [state : 0..issued,
                    status : {"none", "in_progress", "returned", "failed"}, open : BOOLEAN]
      /\ issued \in Nat
  BY Ranges DEF IInv
<1>3. workflow' \in [state : 0..issued',
                     status : {"none", "in_progress", "returned", "failed"}, open : BOOLEAN]
  BY <1>2
<1>4. workflow'.status = "in_progress" => workflow'.state # 0
  BY DEF IInv, HeldIsFresh
<1>5. "launch" \in Slots
  BY DEF Slots
<1> QED
  BY <1>1, <1>3, <1>4, <1>5 DEF CapabilityEffect

\* A new row holds no capability, and one that is gone none any more.
LEMMA ReleasedEffect ==
  ASSUME IInv, UNCHANGED <<issued, workflow, spent>>,
         Exists' => row'.launch = 0 /\ row'.oauth = 0
  PROVE  CapabilityEffect
<1>1. /\ Held("launch")' = 0 /\ Held("oauth")' = 0
      /\ Held("workflow")' = Held("workflow")
  BY DEF Held
<1>2. issued \in 0..MaxStates
  BY DEF IInv, TypeOK
<1>3. workflow \in [state : 0..issued, status : {"none", "in_progress", "returned", "failed"},
                    open : BOOLEAN]
      /\ (workflow.status = "in_progress" => workflow.state # 0)
  BY Ranges DEF IInv, HeldIsFresh
<1> QED
  BY <1>1, <1>2, <1>3 DEF CapabilityEffect, Slots

\* A statement that leaves the hashes, replaces one by a new capability, or uses one.
LEMMA StatementEffect ==
  ASSUME IInv, Exists, UNCHANGED workflow,
         issued' \in {issued, issued + 1} \cap 0..MaxStates,
         \/ row'.launch \in {0, row.launch} /\ row'.oauth \in {0, row.oauth}
         \/ issued' = issued + 1 /\ row'.launch = issued' /\ row'.oauth \in {0, row.oauth}
         \/ issued' = issued + 1 /\ row'.launch \in {0, row.launch} /\ row'.oauth = issued',
         \/ spent' = spent
         \/ Spend(row.launch, row.launch) /\ row'.launch = 0
         \/ Spend(row.oauth, row.oauth) /\ row'.oauth = 0
  PROVE  CapabilityEffect
<1>1. /\ Held("launch") = row.launch /\ Held("oauth") = row.oauth
      /\ Held("launch")' \in {0, row'.launch} /\ Held("oauth")' \in {0, row'.oauth}
      /\ Held("workflow")' = Held("workflow")
  BY DEF Held
<1>2. workflow \in [state : 0..issued,
                    status : {"none", "in_progress", "returned", "failed"}, open : BOOLEAN]
      /\ issued \in Nat
  BY Ranges DEF IInv
<1>3. workflow' \in [state : 0..issued',
                     status : {"none", "in_progress", "returned", "failed"}, open : BOOLEAN]
  BY <1>2
<1>4. workflow'.status = "in_progress" => workflow'.state # 0
  BY DEF IInv, HeldIsFresh
<1>5. spent' = spent \/ \E s \in Slots : Held(s) # 0 /\ Held(s)' = 0 /\ Spend(Held(s), Held(s))
  <2>1. Spend(0, 0) => spent' = spent
    <3>1. 0 \notin States /\ spent \in [States -> {"fresh", "spent", "abused"}]
      BY StatesAssumption DEF IInv, Shapes, States
    <3> QED
      BY <3>1 DEF Spend
  <2> QED
    BY <1>1, <2>1 DEF Slots
<1>6. \E k \in Slots :
         /\ Held(k)' \in {0, Held(k)} \/ (issued' = issued + 1 /\ Held(k)' = issued')
         /\ \A s \in Slots : s # k => Held(s)' \in {0, Held(s)}
  BY <1>1 DEF Slots
<1> QED
  BY <1>3, <1>4, <1>5, <1>6 DEF CapabilityEffect

\* What an UPDATE under its conditions is, apart from the capabilities.
LEMMA UpdateEffect ==
  ASSUME IInv, NEW r \in Requests, NEW new, NEW taken, NEW next \in {"answer", "written"},
         Update(r, new, taken, next), Exists /\ taken => Changes(new),
         UNCHANGED <<outside, job, workflow, lives, told>>, issued' \in Nat,
         requests[r].at \in Early
  PROVE  /\ RequestEffect(r)
         /\ CapabilityEffect => Effect
         /\ \/ Exists /\ taken /\ row' = new
            \/ ~(Exists /\ taken) /\ row' = row
<1> USE DEF outside
<1>1. \/ /\ Exists /\ taken /\ Write(new) /\ Land(r)
         /\ Ends(r, {"written", "done"})
      \/ ~(Exists /\ taken) /\ UNCHANGED <<row, proof, receipt>> /\ Ends(r, {"failed"})
  BY UpdateEnds DEF IInv
<1>2. RequestEffect(r)
  BY <1>1, EndsEffect DEF IInv
<1>3. /\ RowEffect
      /\ \/ Exists /\ taken /\ row' = new
         \/ ~(Exists /\ taken) /\ row' = row
  BY <1>1 DEF RowEffect, Write
<1>4. ToldEffect
  BY <1>1 DEF ToldEffect, IInv, TypeOK, Exists
<1>5. JobEffect /\ lives' \in 0..MaxLives /\ offered' \subseteq Places
  BY DEF JobEffect, IInv, TypeOK
<1> QED
  BY <1>2, <1>3, <1>4, <1>5 DEF Effect

\* A request that begins its work, or comes with its key to the begin of it.
LEMMA EnteringFacts ==
  ASSUME IInv, NEW r \in Requests, NEW op, Entering(r, op)
  PROVE  /\ requests[r] \in Request
         /\ requests[r].keyed => requests[r].at = "begun" /\ requests[r].op = op
BY DEF IInv, Shapes, RequestsAreSane, Sane, Entering

\* The insert of a native connection, or the answer that the name is taken.
LEMMA CreateEffect ==
  ASSUME IInv, NEW r \in Requests, NEW p \in Native, NEW boundaries \in SUBSET (SUBSET Places),
         Create(r, p, boundaries), p = "google_workspace" => boundaries \subseteq {Places}
  PROVE  RequestEffect(r) /\ Effect
<1> USE DEF outside
<1>1. provider = p /\ Entering(r, "create")
      /\ UNCHANGED <<provider, offered, issued, job, workflow, spent, told>>
  BY DEF Create
<1>2. issued \in Nat /\ issued' \in Nat
  BY <1>1, Ranges DEF IInv
<1>3. requests[r].keyed => requests[r].at \in Early
  BY <1>1, EnteringFacts DEF Early
<1>4. CASE Exists
  <2>1. Answer(r, FALSE) /\ UNCHANGED <<row, proof, receipt, lives>>
    BY <1>4 DEF Create
  <2>2. RequestEffect(r)
    BY <1>2, <2>1, AnswerEnds, EndsEffect DEF IInv
  <2> QED
    BY <1>1, <2>1, <2>2, QuietEffect
<1>5. CASE ~Exists
  <2>1. PICK places \in boundaries : Write(NewRow(places, FALSE))
    BY <1>5 DEF Create
  <2>2. Land(r) /\ Answer(r, TRUE) /\ lives' = 1
    BY <1>5 DEF Create
  <2>3. Ends(r, {"written", "done"})
    BY <2>2, AnswerEnds DEF IInv, Ends
  <2>4. RequestEffect(r)
    BY <1>2, <1>3, <2>2, <2>3, EndsEffect DEF IInv
  <2> DEFINE y == NewRow(places, FALSE)
  <2>5. /\ y \in Rows /\ y.places = places /\ y.done = FALSE /\ y.launch = 0 /\ y.oauth = 0
    BY <2>1, NewRows
  <2>6. row' = y
    BY <2>1 DEF Write
  <2> HIDE DEF y
  <2>7. Solid(provider, row')
    BY <1>1, <2>1, <2>5, <2>6, PlacesAssumption DEF Solid, Blind, Native
  <2>8. RowEffect
    BY <1>1, <1>5, <2>1, <2>6, <2>7 DEF RowEffect, RowOpened, y
  <2>9. CapabilityEffect
    <3>1. Exists' => row'.launch = 0 /\ row'.oauth = 0
      BY <2>5, <2>6
    <3> QED
      BY <1>1, <3>1, ReleasedEffect
  <2>10. ToldEffect /\ JobEffect /\ lives' \in 0..MaxLives /\ offered' \subseteq Places
    BY <1>1, <2>2, LivesAssumption DEF ToldEffect, JobEffect, IInv, TypeOK, Native, Shared
  <2> QED
    BY <2>4, <2>8, <2>9, <2>10 DEF Effect
<1> QED
  BY <1>4, <1>5

\* A request that enters its handler, whatever for: nothing else happens.
LEMMA EnteringEffect ==
  ASSUME IInv, NEW r \in Requests,
         NEW op \in {"launch", "complete", "return", "oauth", "validate", "disable", "attach"},
         NEW at \in {"called", "listed", "written"},
         NEW n \in 0..MaxStates, n <= issued, NEW pick \in SUBSET Places,
         NEW account \in Accounts \cup {NoAccount},
         Enter(r, op, at, n, pick, account),
         UNCHANGED <<outside, row, issued, job, receipt, workflow, lives, history>>,
         requests[r].keyed => requests[r].at = "begun" /\ at # "written",
         op = "launch" => provider \in Launchers,
         op = "attach" => provider \in Shared /\ (provider \in Blind => pick # {}),
         op = "oauth" => n # 0 /\ (provider = "github" => account = row.inst)
  PROVE  RequestEffect(r) /\ Effect
<1> USE DEF outside, history
<1>1. Effect
  BY QuietEffect
<1>2. op = "oauth" => n # 0 /\ (provider' = "github" /\ Exists' /\ row'.oauth = n
                                  => account = row'.inst)
  OBVIOUS
<1>3. issued \in Nat /\ n <= issued' /\ provider' = provider /\ op # "setup"
  BY Ranges DEF IInv
<1>4. op \in {"create", "launch", "complete", "return", "oauth", "validate", "disable",
              "delete", "attach", "setup"}
  OBVIOUS
<1>5. RequestEffect(r)
  BY <1>2, <1>3, <1>4, EnterEffect DEF IInv
<1> QED
  BY <1>1, <1>5

\* Every launch begins by a call outside.
LEMMA LaunchEffect ==
  ASSUME IInv, NEW r \in Requests, NEW p \in Launchers, Launch(r, p)
  PROVE  RequestEffect(r) /\ Effect
<1>1. /\ 0 \in 0..MaxStates /\ 0 <= issued /\ {} \in SUBSET Places
      /\ NoAccount \in Accounts \cup {NoAccount}
  BY Ranges, StatesAssumption DEF IInv
<1> QED
  BY <1>1, EnteringFacts, EnteringEffect DEF Launch

\* Every return or completion presents what the row holds.
LEMMA PresentedEffect ==
  ASSUME IInv, NEW r \in Requests
  PROVE  CompleteAzureSetup(r) \/ CompleteGcpSetup(r) \/ EntraSetupCallback(r)
         \/ GithubInstallCallback(r) \/ GithubOauthCallback(r) \/ AzureReposOauthCallback(r)
         \/ CompleteAzureReposSetup(r) \/ CompleteGoogleWorkspaceSetup(r)
           => RequestEffect(r) /\ Effect
<1>0. /\ \A n \in 1..issued : n \in 0..MaxStates /\ n <= issued /\ n # 0
      /\ 0 \in 0..MaxStates /\ 0 <= issued /\ {} \in SUBSET Places
      /\ NoAccount \in Accounts \cup {NoAccount}
      /\ Selections \subseteq SUBSET Places
  BY Ranges, StatesAssumption DEF IInv, Selections
<1>1. CASE CompleteAzureSetup(r)
  <2>1. PICK n \in 1..issued, pick \in Selections :
          Presented(r, "azure", "complete", n, row.launch)
          /\ Enter(r, "complete", "called", n, pick, NoAccount)
    BY <1>1 DEF CompleteAzureSetup
  <2> QED
    BY <1>0, <2>1, EnteringFacts, EnteringEffect DEF Presented
<1>2. CASE CompleteGcpSetup(r)
  <2>1. PICK n \in 1..issued, pick \in Selections :
          Presented(r, "gcp", "complete", n, row.launch)
          /\ Enter(r, "complete", "called", n, pick, NoAccount)
    BY <1>2 DEF CompleteGcpSetup
  <2> QED
    BY <1>0, <2>1, EnteringFacts, EnteringEffect DEF Presented
<1>3. CASE EntraSetupCallback(r)
  <2>1. PICK n \in 1..issued :
          Presented(r, "entra", "return", n, row.launch)
          /\ Enter(r, "return", "called", n, {}, NoAccount)
    BY <1>3 DEF EntraSetupCallback
  <2> QED
    BY <1>0, <2>1, EnteringFacts, EnteringEffect DEF Presented
<1>4. CASE GithubInstallCallback(r)
  <2>1. PICK n \in 1..issued, account \in Accounts :
          Presented(r, "github", "return", n, row.launch)
          /\ Enter(r, "return", "called", n, {}, account)
    BY <1>4 DEF GithubInstallCallback
  <2> QED
    BY <1>0, <2>1, EnteringFacts, EnteringEffect DEF Presented
<1>5. CASE GithubOauthCallback(r)
  <2>1. PICK n \in 1..issued, pick \in Selections :
          Presented(r, "github", "oauth", n, row.oauth)
          /\ Enter(r, "oauth", "called", n, pick, row.inst)
    BY <1>5 DEF GithubOauthCallback
  <2>2. row.inst \in Accounts \cup {NoAccount}
    BY <2>1, Ranges DEF IInv, Presented, Rows
  <2> QED
    BY <1>0, <2>1, <2>2, EnteringFacts, EnteringEffect DEF Presented
<1>6. CASE AzureReposOauthCallback(r)
  <2>1. PICK n \in 1..issued, pick \in Selections :
          Presented(r, "azure_repos", "oauth", n, row.oauth)
          /\ Enter(r, "oauth", "called", n, pick, NoAccount)
    BY <1>6 DEF AzureReposOauthCallback
  <2> QED
    BY <1>0, <2>1, EnteringFacts, EnteringEffect DEF Presented
<1>7. CASE CompleteAzureReposSetup(r)
  <2>1. PICK pick \in Selections :
          Presented(r, "azure_repos", "complete", row.picking, row.picking)
          /\ Enter(r, "complete", "called", row.picking, pick, NoAccount)
    BY <1>7 DEF CompleteAzureReposSetup
  <2>2. row.picking \in 0..MaxStates /\ row.picking <= issued
    BY <2>1, Ranges DEF IInv, TypeOK, Presented, Rows
  <2> QED
    BY <1>0, <2>1, <2>2, EnteringFacts, EnteringEffect DEF Presented
<1>8. CASE CompleteGoogleWorkspaceSetup(r)
  <2>1. /\ Entering(r, "complete") /\ Enter(r, "complete", "called", 0, {}, NoAccount)
        /\ UNCHANGED <<outside, row, issued, job, receipt, workflow, lives, history>>
    BY <1>8 DEF CompleteGoogleWorkspaceSetup
  <2> QED
    BY <1>0, <2>1, EnteringFacts, EnteringEffect
<1> QED
  BY <1>1, <1>2, <1>3, <1>4, <1>5, <1>6, <1>7, <1>8

\* What a launch records is a capability in a place of the row.
LEMMA RecordLaunchEffect ==
  ASSUME IInv, NEW r \in Requests, RecordLaunch(r) \/ RecordAwsLaunch(r)
  PROVE  RequestEffect(r) /\ Effect
<1>0. requests[r].at \in Early /\ provider \in Launchers
  BY DEF RecordLaunch, RecordAwsLaunch, Doing, Early, IInv, RequestsAreSane, Sane
<1>1. CASE RecordLaunch(r)
  <2>1. PICK n \in States : Issue(n) /\ Update(r, Launched(n), Active(row), "answer")
    BY <1>1 DEF RecordLaunch
  <2>2. provider \in {"azure", "entra", "gcp", "github", "azure_repos"}
        /\ UNCHANGED <<outside, job, workflow, lives, spent, told>>
    BY <1>0, <1>1 DEF RecordLaunch, Launchers
  <2>3. /\ issued' = n /\ n = issued + 1 /\ issued' \in Nat
        /\ issued' \in {issued, issued + 1} \cap 0..MaxStates
    BY <2>1, StatesAssumption DEF Issue, States
  <2> DEFINE y == Launched(n)
  <2>4. ASSUME Exists /\ Active(row)
        PROVE  /\ y \in Rows /\ SameBoundary(row, y) /\ y.inst = row.inst
               /\ y.health = row.health /\ y.picking = 0
               /\ \/ y.launch = n /\ y.oauth = row.oauth
                  \/ y.launch = row.launch /\ y.oauth = n
    <3>1. row \in Rows
      BY <2>4, Ranges DEF IInv
    <3>2. CASE provider = "azure_repos"
      BY <2>1, <2>4, <3>1, <3>2, LaunchRows DEF Launched
    <3>3. CASE provider # "azure_repos"
      <4>1. y \in {RecordConnectionSetupLaunch(row, n), RecordEntraConsentLaunch(row, n),
                   RecordGcpConnectionSetupLaunch(row, n), RecordGithubInstallLaunch(row, n)}
        BY <2>2, <3>3 DEF Launched
      <4> QED
        BY <2>1, <2>4, <3>1, <4>1, LaunchRows
    <3> QED
      BY <3>2, <3>3
  <2> HIDE DEF y
  <2>5. Exists /\ Active(row) => Changes(y)
    BY <2>3, <2>4 DEF Changes
  <2>6. Update(r, y, Active(row), "answer")
    BY <2>1 DEF y
  <2>7. /\ RequestEffect(r)
        /\ CapabilityEffect => Effect
        /\ \/ Exists /\ Active(row) /\ row' = y
           \/ ~(Exists /\ Active(row)) /\ row' = row
    BY <1>0, <2>2, <2>3, <2>5, <2>6, UpdateEffect
  <2>8. CapabilityEffect
    BY <2>2, <2>3, <2>4, <2>7, IssuedEffect, StatementEffect
  <2> QED
    BY <2>7, <2>8
<1>2. CASE RecordAwsLaunch(r)
  <2> DEFINE y == RecordConnectionLaunch(row)
  <2>1. Update(r, y, TRUE, "written")
        /\ UNCHANGED <<outside, issued, job, workflow, lives, spent, told>>
    BY <1>2 DEF RecordAwsLaunch
  <2>2. issued' \in Nat /\ issued' \in {issued, issued + 1} \cap 0..MaxStates
    BY <2>1, Ranges DEF IInv, TypeOK
  <2>3. Exists => y \in Rows /\ SameBoundary(row, y) /\ y.inst = row.inst
                  /\ y.health = row.health /\ SameCapabilities(row, y)
    <3>1. Exists => row \in Rows /\ {} \in SUBSET Places /\ "unknown" \in Health
      BY Ranges DEF IInv, Health
    <3> QED
      BY <3>1, PlainRows
  <2> HIDE DEF y
  <2>4. Exists => Changes(y)
    BY <2>3 DEF Changes, SameCapabilities
  <2>5. /\ RequestEffect(r)
        /\ CapabilityEffect => Effect
        /\ \/ Exists /\ row' = y
           \/ ~Exists /\ row' = row
    BY <1>0, <2>1, <2>2, <2>4, UpdateEffect
  <2>6. CapabilityEffect
    BY <2>1, <2>2, <2>3, <2>5, IssuedEffect, StatementEffect DEF SameCapabilities
  <2> QED
    BY <2>5, <2>6
<1> QED
  BY <1>1, <1>2

\* The statements that use a capability of the row: they find it there, or change nothing.
LEMMA TakingEffect ==
  ASSUME IInv, NEW r \in Requests, NEW new, NEW n, NEW held,
         NEW next \in {"answer", "written"},
         UpdateWith(r, n, held, new, new # row, next),
         UNCHANGED <<outside, job, workflow, lives, told>>,
         issued' \in {issued, issued + 1} \cap 0..MaxStates,
         requests[r].at \in Early,
         Exists /\ new # row =>
            /\ Changes(new) /\ held = n
            /\ \/ /\ held = row.launch /\ new.launch = 0
                  /\ new.oauth \in {0, row.oauth} \/ (issued' = issued + 1 /\ new.oauth = issued')
               \/ held = row.oauth /\ new.oauth = 0 /\ new.launch \in {0, row.launch}
  PROVE  RequestEffect(r) /\ Effect
<1>1. /\ Update(r, new, new # row, next)
      /\ IF Exists /\ new # row THEN Spend(n, held) ELSE UNCHANGED spent
  BY DEF UpdateWith
<1>2. issued' \in Nat
  BY Ranges, StatesAssumption DEF IInv
<1>3. /\ RequestEffect(r)
      /\ CapabilityEffect => Effect
      /\ \/ Exists /\ new # row /\ row' = new
         \/ ~(Exists /\ new # row) /\ row' = row
  BY <1>1, <1>2, UpdateEffect
<1>4. CapabilityEffect
  <2>1. CASE Exists /\ new # row
    BY <1>1, <1>3, <2>1, StatementEffect
  <2>2. CASE ~(Exists /\ new # row)
    BY <1>1, <1>3, <2>2, IssuedEffect
  <2> QED
    BY <2>1, <2>2
<1> QED
  BY <1>3, <1>4

\* A completion of Azure or Google Cloud binds what was picked, a consent of Entra all there
\* is; a consent that failed only uses the state.
LEMMA BindByLaunchEffect ==
  ASSUME IInv, NEW r \in Requests,
         BindAzure(r) \/ BindGcp(r) \/ BindEntra(r) \/ EntraConsentFailed(r)
  PROVE  RequestEffect(r) /\ Effect
<1> DEFINE q == requests[r]
<1>1. /\ requests[r].at \in Early /\ q.pick \in SUBSET Places
      /\ UNCHANGED <<outside, issued, job, workflow, lives, told>>
      /\ provider \in {"azure", "gcp", "entra"}
  BY DEF BindAzure, BindGcp, BindEntra, EntraConsentFailed, Doing, Early, IInv, Shapes, Request
<1>2. issued' \in {issued, issued + 1} \cap 0..MaxStates
  BY <1>1 DEF IInv, TypeOK
<1>3. Exists => row \in Rows
  BY Ranges DEF IInv
<1>4. CASE BindAzure(r) \/ BindGcp(r)
  <2>1. PICK new \in {CompleteAzureConnectionSetup(row, q.state, q.pick),
                      CompleteGcpConnectionSetup(row, q.state, q.pick)} :
          UpdateWith(r, q.state, row.launch, new, new # row, "written")
    BY <1>4 DEF BindAzure, BindGcp
  <2>2. provider \in {"azure", "gcp"}
    BY <1>4 DEF BindAzure, BindGcp
  <2>3. ASSUME Exists, new # row
        PROVE  /\ row.launch = q.state /\ new \in Rows /\ new.health = "unknown"
               /\ new.inst = row.inst
               /\ new.launch = 0 /\ new.oauth = row.oauth /\ new.picking = row.picking
    BY <1>1, <1>3, <2>1, <2>3, LaunchBindingRows
  <2>4. Exists /\ new # row => Changes(new)
    BY <2>2, <2>3 DEF Changes, Solid, Shared, Blind
  <2> QED
    BY <1>1, <1>2, <2>1, <2>3, <2>4, TakingEffect
<1>5. CASE BindEntra(r)
  <2> DEFINE new == CompleteEntraConnectionSetup(row, q.state)
  <2>1. UpdateWith(r, q.state, row.launch, new, new # row, "written") /\ provider = "entra"
    BY <1>5 DEF BindEntra
  <2>2. ASSUME Exists, new # row
        PROVE  /\ row.launch = q.state /\ new \in Rows /\ new.health = "unknown"
               /\ new.places = Places /\ new.inst = row.inst
               /\ new.launch = 0 /\ new.oauth = row.oauth /\ new.picking = row.picking
    <3>1. /\ Places \in SUBSET Places
          /\ new \in {CompleteAzureConnectionSetup(row, q.state, Places),
                      CompleteGcpConnectionSetup(row, q.state, Places)}
                     \cup (IF Places = Places THEN {CompleteEntraConnectionSetup(row, q.state)}
                           ELSE {})
      OBVIOUS
    <3> QED
      BY <1>3, <2>2, <3>1, LaunchBindingRows
  <2> HIDE DEF new
  <2>3. Exists /\ new # row => Changes(new)
    BY <2>1, <2>2, PlacesAssumption DEF Changes, Solid, Shared, Blind
  <2> QED
    BY <1>1, <1>2, <2>1, <2>2, <2>3, TakingEffect
<1>6. CASE EntraConsentFailed(r)
  <2> DEFINE new == FailEntraConnectionSetup(row, q.state)
  <2>1. UpdateWith(r, q.state, row.launch, new, new # row, "answer")
    BY <1>6 DEF EntraConsentFailed
  <2>2. ASSUME Exists, new # row
        PROVE  /\ row.launch = q.state /\ new \in Rows /\ SameBoundary(row, new)
               /\ new.inst = row.inst /\ new.health = row.health
               /\ new.launch = 0 /\ new.oauth = row.oauth /\ new.picking = row.picking
    BY <1>3, <2>2, FailedConsentRows
  <2> HIDE DEF new
  <2>3. Exists /\ new # row => Changes(new)
    BY <2>2 DEF Changes
  <2> QED
    BY <1>1, <1>2, <2>1, <2>2, <2>3, TakingEffect
<1> QED
  BY <1>4, <1>5, <1>6

\* GitHub: a return names the installation under a new state, and the user whose
\* verification holds that state binds the repositories for that installation.
LEMMA GithubEffect ==
  ASSUME IInv, NEW r \in Requests, StageInstallation(r) \/ BindGithub(r)
  PROVE  RequestEffect(r) /\ Effect
<1> DEFINE q == requests[r]
<1>1. /\ requests[r].at \in Early /\ q.pick \in SUBSET Places
      /\ q.account \in Accounts \cup {NoAccount}
      /\ UNCHANGED <<outside, job, workflow, lives, told>> /\ provider = "github"
  BY DEF StageInstallation, BindGithub, Doing, Early, IInv, Shapes, Request
<1>2. Exists => row \in Rows
  BY Ranges DEF IInv
<1>3. CASE StageInstallation(r)
  <2>1. PICK oauth \in States :
          /\ Issue(oauth)
          /\ LET new == RecordGithubInstallReturn(row, q.state, q.account, oauth)
             IN  UpdateWith(r, q.state, row.launch, new, new # row, "answer")
    BY <1>3 DEF StageInstallation
  <2> DEFINE new == RecordGithubInstallReturn(row, q.state, q.account, oauth)
  <2>2. UpdateWith(r, q.state, row.launch, new, new # row, "answer")
    BY <2>1
  <2>3. oauth = issued + 1 /\ issued' = oauth
        /\ issued' \in {issued, issued + 1} \cap 0..MaxStates
    BY <2>1, StatesAssumption DEF Issue, States
  <2>4. ASSUME Exists, new # row
        PROVE  /\ row.launch = q.state /\ new \in Rows /\ SameBoundary(row, new)
               /\ new.health = row.health
               /\ new.launch = 0 /\ new.oauth = oauth /\ new.picking = row.picking
    BY <1>1, <1>2, <2>1, <2>4, InstallReturnRows
  <2> HIDE DEF new
  <2>5. Exists /\ new # row => Changes(new)
    BY <2>3, <2>4 DEF Changes
  <2> QED
    BY <1>1, <2>2, <2>3, <2>4, <2>5, TakingEffect
<1>4. CASE BindGithub(r)
  <2> DEFINE new == CompleteGithubConnectionSetup(row, q.state, q.account, q.pick)
  <2>1. /\ UpdateWith(r, q.state, row.oauth, new, new # row, "written")
        /\ UNCHANGED issued /\ Doing(r, "oauth", "called")
    BY <1>4 DEF BindGithub
  <2>2. issued' \in {issued, issued + 1} \cap 0..MaxStates
    BY <2>1 DEF IInv, TypeOK
  <2>3. ASSUME Exists, new # row
        PROVE  /\ row.oauth = q.state /\ new \in Rows /\ new.account = q.account
               /\ new.health = "unknown" /\ new.inst = row.inst
               /\ new.launch = row.launch /\ new.oauth = 0 /\ new.picking = row.picking
    BY <1>1, <1>2, <2>3, VerificationRows
  <2> HIDE DEF new
  <2>4. Exists /\ new # row => new.account = row.inst
    BY <1>1, <2>1, <2>3 DEF IInv, RequestsAreSane, Sane, Doing
  <2>5. Exists /\ new # row => Changes(new)
    BY <1>1, <2>3, <2>4 DEF Changes, Solid, Shared, Blind
  <2> QED
    BY <1>1, <2>1, <2>2, <2>3, <2>5, TakingEffect
<1> QED
  BY <1>3, <1>4

\* Azure Repos: the OAuth state is used for a selection that waits for its completion.
LEMMA AzureReposEffect ==
  ASSUME IInv, NEW r \in Requests, StageSelection(r) \/ BindAzureRepos(r)
  PROVE  RequestEffect(r) /\ Effect
<1> DEFINE q == requests[r]
<1>1. /\ requests[r].at \in Early /\ q.pick \in SUBSET Places
      /\ UNCHANGED <<outside, job, workflow, lives, told>> /\ provider = "azure_repos"
  BY DEF StageSelection, BindAzureRepos, Doing, Early, IInv, Shapes, Request
<1>2. Exists => row \in Rows
  BY Ranges DEF IInv
<1>3. CASE StageSelection(r)
  <2>1. PICK n \in States :
          /\ Issue(n)
          /\ LET new == StageAzureReposRepositorySelection(row, q.state, q.pick, n)
             IN  UpdateWith(r, q.state, row.oauth, new, new # row, "answer")
    BY <1>3 DEF StageSelection
  <2> DEFINE new == StageAzureReposRepositorySelection(row, q.state, q.pick, n)
  <2>2. UpdateWith(r, q.state, row.oauth, new, new # row, "answer")
    BY <2>1
  <2>3. n = issued + 1 /\ issued' = n
        /\ issued' \in {issued, issued + 1} \cap 0..MaxStates
    BY <2>1, StatesAssumption DEF Issue, States
  <2>4. ASSUME Exists, new # row
        PROVE  /\ row.oauth = q.state /\ new \in Rows /\ SameBoundary(row, new)
               /\ new.inst = row.inst /\ new.health = row.health
               /\ new.launch = row.launch /\ new.oauth = 0 /\ new.picking = n
    BY <1>1, <1>2, <2>1, <2>4, SelectionRows
  <2> HIDE DEF new
  <2>5. Exists /\ new # row => Changes(new)
    BY <2>3, <2>4 DEF Changes
  <2> QED
    BY <1>1, <2>2, <2>3, <2>4, <2>5, TakingEffect
<1>4. CASE BindAzureRepos(r)
  <2> DEFINE new == CompleteAzureReposConnectionSetup(row, q.pick)
  <2>1. Update(r, new, new # row, "written") /\ UNCHANGED <<issued, spent>>
    BY <1>4 DEF BindAzureRepos
  <2>2. issued' \in {issued, issued + 1} \cap 0..MaxStates /\ issued' \in Nat
    BY <2>1, Ranges DEF IInv, TypeOK
  <2>3. ASSUME Exists, new # row
        PROVE  /\ new \in Rows /\ new.health = "unknown" /\ new.inst = row.inst
               /\ SameCapabilities(row, new)
    <3>1. "unknown" \in Health
      BY DEF Health
    <3> QED
      BY <1>1, <1>2, <2>3, <3>1, PlainRows
  <2> HIDE DEF new
  <2>4. Exists /\ new # row => Changes(new)
    BY <1>1, <2>3 DEF Changes, SameCapabilities, Solid, Shared, Blind
  <2>5. /\ RequestEffect(r)
        /\ CapabilityEffect => Effect
        /\ \/ Exists /\ new # row /\ row' = new
           \/ ~(Exists /\ new # row) /\ row' = row
    BY <1>1, <2>1, <2>2, <2>4, UpdateEffect
  <2>6. CapabilityEffect
    BY <1>1, <2>1, <2>2, <2>3, <2>5, IssuedEffect, StatementEffect DEF SameCapabilities
  <2> QED
    BY <2>5, <2>6
<1> QED
  BY <1>3, <1>4

\* Google Workspace: a completed setup without a capability, for the boundary there is.
LEMMA WorkspaceEffect ==
  ASSUME IInv, NEW r \in Requests, BindGoogleWorkspace(r)
  PROVE  RequestEffect(r) /\ Effect
<1> DEFINE new == CompleteGoogleWorkspaceConnectionSetup(row)
<1>1. /\ requests[r].at \in Early /\ provider = "google_workspace"
      /\ UNCHANGED <<outside, issued, job, workflow, lives, spent, told>>
      /\ Update(r, new, Active(row), "written")
  BY DEF BindGoogleWorkspace, Doing, Early
<1>2. issued' \in {issued, issued + 1} \cap 0..MaxStates /\ issued' \in Nat
  BY <1>1, Ranges DEF IInv, TypeOK
<1>3. ASSUME Exists, Active(row)
      PROVE  /\ new \in Rows /\ new.places = row.places /\ new.health = "unknown"
             /\ new.inst = row.inst /\ SameCapabilities(row, new)
  <2>1. row \in Rows /\ row.places \in SUBSET Places /\ "unknown" \in Health
    BY <1>3, Ranges DEF IInv, Health, Rows
  <2> QED
    BY <1>3, <2>1, PlainRows
<1> HIDE DEF new
<1>4. Exists /\ Active(row) => Changes(new)
  BY <1>1, <1>3 DEF Changes, SameCapabilities, IInv, SolidBoundary, Solid, Shared
<1>5. /\ RequestEffect(r)
      /\ CapabilityEffect => Effect
      /\ \/ Exists /\ Active(row) /\ row' = new
         \/ ~(Exists /\ Active(row)) /\ row' = row
  BY <1>1, <1>2, <1>4, UpdateEffect
<1>6. CapabilityEffect
  BY <1>1, <1>2, <1>3, <1>5, IssuedEffect, StatementEffect DEF SameCapabilities
<1> QED
  BY <1>5, <1>6

\* Disabling ends the health of the connection; its capabilities stay, and bind nothing.
LEMMA DisableEffect ==
  ASSUME IInv, NEW r \in Requests, Disable(r)
  PROVE  RequestEffect(r) /\ Effect
<1> DEFINE new == DisableConnection(row)
<1>1. /\ requests[r].at \in Early
      /\ UNCHANGED <<outside, issued, job, workflow, lives, spent, told>>
      /\ Update(r, new, job.at = "none", "answer")
  BY DEF Disable, Doing, Early
<1>2. issued' \in {issued, issued + 1} \cap 0..MaxStates /\ issued' \in Nat
  BY <1>1, Ranges DEF IInv, TypeOK
<1>3. ASSUME Exists
      PROVE  /\ new \in Rows /\ SameBoundary(row, new) /\ new.health = "disabled"
             /\ new.inst = row.inst /\ SameCapabilities(row, new)
  <2>1. row \in Rows /\ row.places \in SUBSET Places /\ "unknown" \in Health
    BY <1>3, Ranges DEF IInv, Health, Rows
  <2> QED
    BY <1>3, <2>1, PlainRows
<1> HIDE DEF new
<1>4. Exists => Changes(new)
  BY <1>1, <1>3 DEF Changes, SameCapabilities
<1>5. /\ RequestEffect(r)
      /\ CapabilityEffect => Effect
      /\ \/ Exists /\ job.at = "none" /\ row' = new
         \/ ~(Exists /\ job.at = "none") /\ row' = row
  BY <1>1, <1>2, <1>4, UpdateEffect
<1>6. CapabilityEffect
  BY <1>1, <1>2, <1>3, <1>5, IssuedEffect, StatementEffect DEF SameCapabilities
<1> QED
  BY <1>5, <1>6

\* An answer without a write.
LEMMA RefusalEffect ==
  ASSUME IInv, NEW r \in Requests, Answer(r, FALSE),
         UNCHANGED <<outside, row, issued, job, receipt, workflow, lives, history>>
  PROVE  RequestEffect(r) /\ Effect
<1> USE DEF outside, history
<1>1. Effect
  BY QuietEffect
<1>2. issued' \in Nat
  BY Ranges DEF IInv
<1>3. RequestEffect(r)
  BY <1>2, AnswerEnds, EndsEffect DEF IInv
<1> QED
  BY <1>1, <1>3

\* A row that is gone has nothing to be told of.
LEMMA DeleteEffect ==
  ASSUME IInv, NEW r \in Requests, DeleteConnection(r)
  PROVE  RequestEffect(r) /\ Effect
<1> USE DEF outside, history
<1>1. /\ Entering(r, "delete") /\ Exists
      /\ UNCHANGED <<provider, offered, issued, job, workflow, lives, spent>>
  BY DEF DeleteConnection
<1>2. CASE Active(row)
  BY <1>1, <1>2, RefusalEffect DEF DeleteConnection
<1>3. CASE ~Active(row)
  <2>1. Answer(r, TRUE) /\ Write(NoRow) /\ Land(r) /\ told' = {}
    BY <1>3 DEF DeleteConnection
  <2>2. requests[r].keyed => requests[r].at \in Early
    BY <1>1, EnteringFacts DEF Early
  <2>3. Ends(r, {"written", "done"})
    BY <2>1, AnswerEnds DEF IInv, Ends
  <2>4. issued' \in Nat
    BY <1>1, Ranges DEF IInv
  <2>5. RequestEffect(r)
    BY <2>1, <2>2, <2>3, <2>4, EndsEffect DEF IInv
  <2>6. row' = NoRow /\ ~Exists'
    BY <2>1 DEF Write, Exists
  <2>7. CapabilityEffect
    BY <1>1, <2>6, ReleasedEffect
  <2>8. ToldEffect /\ JobEffect /\ lives' \in 0..MaxLives /\ offered' \subseteq Places
    BY <1>1, <2>1, <2>6 DEF ToldEffect, JobEffect, IInv, TypeOK
  <2> QED
    BY <1>1, <2>5, <2>6, <2>7, <2>8 DEF Effect, RowEffect
<1> QED
  BY <1>2, <1>3

\* A request that goes on from one point to the next.
LEMMA AdvanceEffect ==
  ASSUME IInv, NEW r \in Requests, NEW at \in {"looked", "conflict"}, Advance(r, at),
         requests[r].op = "attach", requests[r].at \in {"listed", "looked", "conflict"},
         UNCHANGED <<provider, issued, receipt>>
  PROVE  RequestEffect(r)
<1>1. requests[r] \in Request /\ Sane(requests[r]) /\ requests[r].state <= issued
  BY DEF IInv, Shapes, RequestsAreSane, TypeOK
<1> DEFINE q == [requests[r] EXCEPT !.at = at]
<1>2. /\ q \in Request
      /\ q.op = "attach" /\ q.at = at /\ q.state = requests[r].state
      /\ q.pick = requests[r].pick /\ q.keyed = requests[r].keyed
  BY <1>1 DEF Request
<1>3. requests' = [requests EXCEPT ![r] = q]
  BY DEF Advance
<1> HIDE DEF q
<1>4. OtherRequests(r) /\ requests'[r] = q
  BY <1>2, <1>3 DEF OtherRequests, IInv, Shapes
<1>5. Sane(requests[r])'
  BY <1>1, <1>2, <1>4 DEF Sane
<1>6. KeyQuiet(r)
  BY <1>2, <1>4 DEF KeyQuiet, Early
<1> QED
  BY <1>1, <1>2, <1>4, <1>5, <1>6 DEF RequestEffect

\* An attachment takes what the platform offers: not an empty boundary, of a kind that the
\* validators do not look at again.
LEMMA AttachEffect ==
  ASSUME IInv, NEW r \in Requests,
         NEW providers \in SUBSET Shared, NEW boundaries \in SUBSET (SUBSET Places),
         Attach(r, providers, boundaries),
         provider \in Blind => {} \notin boundaries
  PROVE  RequestEffect(r) /\ Effect
<1>1. PICK boundary \in boundaries : Enter(r, "attach", "listed", 0, boundary, NoAccount)
  BY DEF Attach
<1>2. /\ 0 \in 0..MaxStates /\ 0 <= issued /\ boundary \in SUBSET Places
      /\ NoAccount \in Accounts \cup {NoAccount}
  BY <1>1, Ranges, StatesAssumption DEF IInv
<1>3. provider \in Shared /\ (provider \in Blind => boundary # {})
  BY <1>1 DEF Attach
<1> QED
  BY <1>1, <1>2, <1>3, EnteringFacts, EnteringEffect DEF Attach

\* What a row that is there already answers to another attachment.
LEMMA AnswerExistingEffect ==
  ASSUME IInv, NEW r \in Requests, AnswerExisting(r), Exists,
         requests[r].at \in {"listed", "conflict"},
         UNCHANGED <<outside, row, issued, job, workflow, lives, proof, spent>>
  PROVE  RequestEffect(r) /\ Effect
<1> USE DEF outside, history
<1>1. CASE Matches(requests[r].pick)
  <2>1. told' = told \cup {requests[r].pick} /\ Land(r) /\ Answer(r, TRUE)
    BY <1>1 DEF AnswerExisting
  <2>2. Ends(r, {"written", "done"})
    BY <2>1, AnswerEnds DEF IInv, Ends
  <2>3. issued' \in Nat
    BY Ranges DEF IInv
  <2>4. RequestEffect(r)
    BY <2>1, <2>2, <2>3, EndsEffect DEF IInv, Early
  <2>5. CapabilityEffect
    BY IssuedEffect DEF IInv, TypeOK
  <2>6. requests[r].pick \subseteq Places /\ requests[r].pick = row.places
    BY <1>1 DEF Matches, IInv, TypeOK
  <2>7. ToldEffect /\ JobEffect /\ lives' \in 0..MaxLives /\ offered' \subseteq Places
    BY <2>1, <2>6 DEF ToldEffect, JobEffect, IInv, TypeOK
  <2> QED
    BY <2>4, <2>5, <2>7 DEF Effect, RowEffect
<1>2. CASE ~Matches(requests[r].pick)
  BY <1>2, RefusalEffect DEF AnswerExisting
<1> QED
  BY <1>1, <1>2

\* Attachments that run side by side: one inserts, and the others answer with its row.
LEMMA AttachedEffect ==
  ASSUME IInv, NEW r \in Requests, LookForAttached(r) \/ InsertAttached(r) \/ SettleConflict(r)
  PROVE  RequestEffect(r) /\ Effect
<1> USE DEF outside, history
<1>1. /\ requests[r].op = "attach" /\ requests[r].at \in {"listed", "looked", "conflict"}
      /\ UNCHANGED <<outside, issued, job, workflow, spent>>
  BY DEF LookForAttached, InsertAttached, SettleConflict, Doing
<1>2. provider \in Shared /\ (provider \in Blind => requests[r].pick # {})
  BY <1>1 DEF IInv, RequestsAreSane, Sane
<1>3. requests[r].pick \in SUBSET Places
  BY DEF IInv, TypeOK
<1>4. CASE LookForAttached(r) /\ Exists
  BY <1>4, AnswerExistingEffect DEF LookForAttached, Doing
<1>5. CASE LookForAttached(r) /\ ~Exists
  BY <1>1, <1>5, AdvanceEffect, QuietEffect DEF LookForAttached
<1>6. CASE InsertAttached(r) /\ Exists
  BY <1>1, <1>6, AdvanceEffect, QuietEffect DEF InsertAttached
<1>7. CASE InsertAttached(r) /\ ~Exists
  <2> DEFINE done == provider \in {"shared_workspace", "shared_azure_repos"}
             y == NewRow(requests[r].pick, done)
  <2>1. /\ Write(y) /\ told' = {requests[r].pick} /\ Land(r) /\ Answer(r, TRUE)
        /\ lives < MaxLives /\ lives' = lives + 1
    BY <1>7 DEF InsertAttached
  <2>2. done \in BOOLEAN
    OBVIOUS
  <2> HIDE DEF done
  <2>3. /\ y \in Rows /\ y.places = requests[r].pick /\ y.launch = 0 /\ y.oauth = 0
    BY <1>3, <2>2, NewRows
  <2>4. row' = y
    BY <2>1 DEF Write
  <2>5. RowOpened
    <3>1. Solid(provider, row')
      BY <1>2, <2>3, <2>4 DEF Solid, Shared
    <3> QED
      BY <1>3, <1>7, <2>2, <2>4, <3>1 DEF RowOpened
  <2> HIDE DEF y
  <2>6. Ends(r, {"written", "done"})
    BY <2>1, AnswerEnds DEF IInv, Ends
  <2>7. issued' \in Nat
    BY <1>1, Ranges DEF IInv
  <2>8. RequestEffect(r)
    BY <1>1, <2>1, <2>6, <2>7, EndsEffect DEF IInv, Early
  <2>9. CapabilityEffect
    BY <1>1, <2>3, <2>4, ReleasedEffect
  <2>10. lives' \in 0..MaxLives
    BY <2>1, LivesAssumption DEF IInv, TypeOK
  <2>11. ToldEffect
    BY <1>3, <2>1, <2>3, <2>4 DEF ToldEffect
  <2> QED
    BY <1>1, <2>5, <2>8, <2>9, <2>10, <2>11 DEF Effect, RowEffect, JobEffect, IInv, TypeOK
<1>8. CASE SettleConflict(r) /\ Exists
  BY <1>8, AnswerExistingEffect DEF SettleConflict, Doing
<1>9. CASE SettleConflict(r) /\ ~Exists
  BY <1>9, RefusalEffect DEF SettleConflict, AnswerExisting, Matches
<1> QED
  BY <1>4, <1>5, <1>6, <1>7, <1>8, <1>9

\* The workflow of a setup at the platform ends, and its state with it.
LEMMA ResolvedEffect ==
  ASSUME IInv, UNCHANGED <<row, issued>>, workflow.status = "in_progress",
         NEW status \in {"returned", "failed"},
         workflow' = [workflow EXCEPT !.status = status, !.open = FALSE],
         Spend(workflow.state, workflow.state)
  PROVE  CapabilityEffect
<1>1. workflow \in [state : 0..issued,
                    status : {"none", "in_progress", "returned", "failed"}, open : BOOLEAN]
      /\ issued \in 0..MaxStates /\ workflow.state # 0
  BY Ranges DEF IInv, TypeOK, HeldIsFresh
<1>2. /\ workflow' \in [state : 0..issued',
                        status : {"none", "in_progress", "returned", "failed"}, open : BOOLEAN]
      /\ workflow'.status # "in_progress"
  BY <1>1
<1>3. /\ Held("launch")' = Held("launch") /\ Held("oauth")' = Held("oauth")
      /\ Held("workflow") = workflow.state /\ Held("workflow")' = 0
  BY <1>2 DEF Held, Exists
<1> QED
  BY <1>1, <1>2, <1>3 DEF CapabilityEffect, Slots

\* A setup at the platform: its state is held by the workflow and nowhere else.
LEMMA PlatformSetupEffect ==
  ASSUME IInv, NEW r \in Requests,
         LaunchSharedSetup(r) \/ SharedSetupReady(r) \/ FailConnectionOnboarding(r)
  PROVE  RequestEffect(r) /\ Effect
<1> USE DEF outside, history
<1>1. requests[r].keyed = FALSE /\ requests[r] \in Request
  BY DEF LaunchSharedSetup, SharedSetupReady, FailConnectionOnboarding, Doing, IInv,
     RequestsAreSane, Sane, Shapes, Request
<1>2. issued \in Nat /\ issued <= MaxStates /\ MaxStates \in Nat
  BY Ranges, StatesAssumption DEF IInv
<1>3. CASE LaunchSharedSetup(r)
  <2>1. PICK n \in States :
          /\ Issue(n)
          /\ workflow' = [state |-> n, status |-> "in_progress", open |-> TRUE]
          /\ Enter(r, "setup", "called", n, {}, NoAccount)
    BY <1>3 DEF LaunchSharedSetup
  <2>2. /\ n \in 0..MaxStates /\ n # 0 /\ issued' = n /\ n = issued + 1
        /\ {} \in SUBSET Places /\ NoAccount \in Accounts \cup {NoAccount}
    BY <2>1, StatesAssumption DEF Issue, States
  <2>3. UNCHANGED <<outside, row, job, receipt, lives, history>>
    BY <1>3 DEF LaunchSharedSetup
  <2>4. RequestEffect(r)
    BY <1>1, <1>2, <2>1, <2>2, <2>3, EnterEffect DEF IInv
  <2>5. CapabilityEffect
    <3>1. /\ Held("launch")' = Held("launch") /\ Held("oauth")' = Held("oauth")
          /\ Held("workflow")' = issued'
      BY <2>1, <2>2, <2>3 DEF Held, Exists
    <3>2. /\ workflow' \in [state : 0..issued',
                            status : {"none", "in_progress", "returned", "failed"},
                            open : BOOLEAN]
          /\ workflow'.state # 0
      BY <1>2, <2>1, <2>2
    <3> QED
      BY <1>2, <2>2, <2>3, <3>1, <3>2 DEF CapabilityEffect, Slots
  <2>6. ToldEffect
    BY <2>3 DEF ToldEffect, IInv, TypeOK, Exists
  <2> QED
    BY <2>3, <2>4, <2>5, <2>6 DEF Effect, RowEffect, JobEffect, IInv, TypeOK
<1>4. CASE SharedSetupReady(r)
  <2>1. Effect
    BY <1>4, QuietEffect DEF SharedSetupReady
  <2>2. Ends(r, {"done", "failed"})
    BY <1>4, AnswerEnds DEF SharedSetupReady, IInv, Ends
  <2>3. receipt' = receipt /\ issued' \in Nat
    BY <1>2, <1>4 DEF SharedSetupReady
  <2>4. RequestEffect(r)
    BY <1>1, <2>2, <2>3, EndsEffect DEF IInv
  <2> QED
    BY <2>1, <2>4
<1>5. CASE FailConnectionOnboarding(r)
  <2>1. Answer(r, FALSE) /\ UNCHANGED <<outside, row, issued, job, receipt, lives, proof, told>>
    BY <1>5 DEF FailConnectionOnboarding
  <2>2. RequestEffect(r)
    BY <1>2, <2>1, AnswerEnds, EndsEffect DEF IInv
  <2>3. CASE UNCHANGED <<workflow, spent>>
    BY <2>1, <2>2, <2>3, QuietEffect
  <2>4. CASE /\ workflow.status = "in_progress" /\ workflow.state = requests[r].state
             /\ workflow' = [workflow EXCEPT !.status = "failed", !.open = FALSE]
             /\ Spend(requests[r].state, workflow.state)
    <3>1. CapabilityEffect
      BY <2>1, <2>4, ResolvedEffect
    <3>2. ToldEffect
      BY <2>1 DEF ToldEffect, IInv, TypeOK, Exists
    <3> QED
      BY <2>1, <2>2, <3>1, <3>2 DEF Effect, RowEffect, JobEffect, IInv, TypeOK
  <2> QED
    BY <1>5, <2>3, <2>4 DEF FailConnectionOnboarding
<1> QED
  BY <1>3, <1>4, <1>5

\* A gateway key: it is claimed by one request, that is of the key until it is written down.
LEMMA KeyEffect ==
  ASSUME IInv, NEW r \in Requests,
         \/ ClaimGatewayConnectionAction(r)
         \/ FinishGatewayConnectionAction(r)
         \/ RequestLost(r)
  PROVE  RequestEffect(r) /\ Effect
<1> USE DEF outside, history
<1>0. Effect
  BY QuietEffect DEF ClaimGatewayConnectionAction, FinishGatewayConnectionAction, RequestLost
<1>1. issued' \in Nat /\ issued' = issued
  BY Ranges DEF IInv, ClaimGatewayConnectionAction, FinishGatewayConnectionAction, RequestLost
<1>2. requests \in [Requests -> Request] /\ requests[r] \in Request
  BY DEF IInv, Shapes
<1>3. /\ Idle \in Request /\ Idle.op = "none" /\ Idle.state = 0 /\ Idle.at = "idle"
      /\ Idle.keyed = FALSE
  BY StatesAssumption DEF Idle, Request
<1>4. CASE ClaimGatewayConnectionAction(r)
  <2>1. PICK op \in GatewayActions :
          requests' = [requests EXCEPT ![r] = [Idle EXCEPT !.op = op, !.at = "begun",
                                                           !.keyed = TRUE]]
    BY <1>4 DEF ClaimGatewayConnectionAction
  <2>2. op \in {"disable", "delete", "create", "launch", "complete", "attach"}
    BY <2>1 DEF GatewayActions
  <2> DEFINE q == [Idle EXCEPT !.op = op, !.at = "begun", !.keyed = TRUE]
  <2>3. q \in Request /\ q.op = op /\ q.state = 0 /\ q.at = "begun" /\ q.keyed = TRUE
    BY <1>3, <2>2 DEF Request
  <2>4. requests' = [requests EXCEPT ![r] = q]
    BY <2>1
  <2> HIDE DEF q
  <2>5. OtherRequests(r) /\ requests'[r] = q
    BY <1>2, <2>3, <2>4 DEF OtherRequests
  <2>6. Sane(requests[r])'
    BY <2>2, <2>3, <2>5 DEF Sane
  <2>7. KeyClaimed(r)
    <3>1. requests[r].at = "idle" /\ receipt.state = "none"
          /\ receipt' = [receipt EXCEPT !.state = "claimed", !.ran = @ + 1]
      BY <1>4 DEF ClaimGatewayConnectionAction
    <3>2. ~requests[r].keyed
      BY <3>1 DEF IInv, RequestsAreSane, Sane
    <3> QED
      BY <2>3, <2>5, <3>1, <3>2 DEF KeyClaimed
  <2> QED
    BY <1>0, <1>1, <2>3, <2>5, <2>6, <2>7 DEF RequestEffect
<1>5. CASE FinishGatewayConnectionAction(r) \/ RequestLost(r)
  <2>1. requests' = [requests EXCEPT ![r] = Idle]
    BY <1>5 DEF FinishGatewayConnectionAction, RequestLost
  <2>2. OtherRequests(r) /\ requests'[r] = Idle
    BY <1>2, <1>3, <2>1 DEF OtherRequests
  <2>3. Sane(requests[r])'
    BY <1>3, <2>2 DEF Sane
  <2>4. KeyQuiet(r) \/ KeyFinished(r)
    <3>1. CASE receipt' = receipt
      BY <1>3, <2>2, <3>1 DEF KeyQuiet
    <3>2. CASE /\ requests[r].keyed /\ requests[r].at \in {"done", "failed"}
               /\ receipt' = [receipt EXCEPT !.state =
                                 IF requests[r].at = "done" THEN "completed" ELSE "failed"]
      BY <1>3, <2>2, <3>2 DEF KeyFinished
    <3> QED
      BY <1>5, <3>1, <3>2 DEF FinishGatewayConnectionAction, RequestLost
  <2> QED
    BY <1>0, <1>1, <1>3, <2>2, <2>3, <2>4 DEF RequestEffect
<1> QED
  BY <1>4, <1>5

\* The validation that a setup or a user asks for is queued, or refused.
LEMMA ValidationEffect ==
  ASSUME IInv, NEW r \in Requests,
         ValidateConnection(r) \/ QueueValidation(r) \/ DispatchFails(r) \/ BeginDisable(r)
           \/ Refuse(r)
  PROVE  RequestEffect(r) /\ Effect
<1> USE DEF outside, history
<1>1. /\ 0 \in 0..MaxStates /\ 0 <= issued /\ {} \in SUBSET Places
      /\ NoAccount \in Accounts \cup {NoAccount}
  BY Ranges, StatesAssumption DEF IInv
<1>2. CASE ValidateConnection(r)
  <2>1. ~requests[r].keyed
    BY <1>2 DEF ValidateConnection, IInv, RequestsAreSane, Sane
  <2> QED
    BY <1>1, <1>2, <2>1, EnteringEffect DEF ValidateConnection
<1>3. CASE BeginDisable(r)
  BY <1>1, <1>3, EnteringFacts, EnteringEffect DEF BeginDisable
<1>4. CASE DispatchFails(r) \/ Refuse(r)
  BY <1>4, RefusalEffect DEF DispatchFails, Refuse
<1>5. CASE QueueValidation(r)
  <2>1. /\ requests[r].at = "written"
        /\ UNCHANGED <<outside, row, issued, receipt, workflow, lives, history>>
        /\ Answer(r, TRUE) \/ Answer(r, FALSE)
        /\ job' = job \/ job' = [NoJob EXCEPT !.at = "queued"]
    BY <1>5 DEF QueueValidation
  <2>2. Ends(r, {"done", "failed"})
    BY <2>1, AnswerEnds DEF IInv, Ends
  <2>3. issued' \in Nat
    BY <2>1, Ranges DEF IInv
  <2>4. RequestEffect(r)
    BY <2>1, <2>2, <2>3, EndsEffect DEF IInv
  <2>5. CapabilityEffect
    BY <2>1, IssuedEffect DEF IInv, TypeOK
  <2>6. ToldEffect
    BY <2>1 DEF ToldEffect, IInv, TypeOK, Exists
  <2> QED
    BY <2>1, <2>4, <2>5, <2>6 DEF Effect, RowEffect, JobEffect, IInv, TypeOK
<1> QED
  BY <1>2, <1>3, <1>4, <1>5

-----------------------------------------------------------------------------
(***************************************************************************)
(* The steps of no request.                                                *)
(***************************************************************************)
\* What a validation concludes is a health.
LEMMA VerdictHealth ==
  ASSUME NEW p \in Native \cup Shared, NEW target \in Targets, NEW world \in Worlds
  PROVE  Conclude(p, target, world).health \in Health
<1> USE DEF Verdict, CredentialFailure, Health, Graded, Counted
<1> DEFINE v == Conclude(p, target, world)
<1>1. CASE p \in {"aws", "shared_aws"}
  <2>1. v = Aws(target, world)
    BY <1>1 DEF Conclude
  <2> QED
    BY <2>1 DEF Aws
<1>2. CASE p = "aws_resource"
  BY <1>2 DEF Conclude, AwsResource
<1>3. CASE p = "azure"
  <2>1. v = Azure(target, world)
    BY <1>3 DEF Conclude
  <2> QED
    BY <2>1 DEF Azure, PerPlace
<1>4. CASE p = "gcp"
  <2>1. v = Gcp(target, world)
    BY <1>4 DEF Conclude
  <2> QED
    BY <2>1 DEF Gcp, PerPlace
<1>5. CASE p = "shared_gcp"
  <2>1. v = SharedGcp(target, world)
    BY <1>5 DEF Conclude
  <2> QED
    BY <2>1 DEF SharedGcp
<1>6. CASE p \in {"github", "shared_github"}
  <2>1. v \in {GitHub(target, world), SharedGitHub(target, world)}
    BY <1>6 DEF Conclude
  <2> QED
    BY <2>1 DEF SharedGitHub, GitHub
<1>7. CASE p \in {"azure_repos", "shared_azure_repos"}
  <2>1. v \in {AzureRepos(target, world), SharedAzureRepos(target, world)}
    BY <1>7 DEF Conclude
  <2> QED
    BY <2>1 DEF SharedAzureRepos, AzureRepos
<1>8. CASE p = "entra"
  <2>1. v = Entra(target, world)
    BY <1>8 DEF Conclude
  <2> QED
    BY <2>1 DEF Entra
<1>9. CASE p = "google_workspace"
  <2>1. v = GoogleWorkspace(target, world)
    BY <1>9 DEF Conclude
  <2> QED
    BY <2>1 DEF GoogleWorkspace
<1>10. CASE p \in {"shared_azure", "shared_entra"}
  <2>1. v = SharedMicrosoft(target, world)
    BY <1>10 DEF Conclude
  <2> QED
    BY <2>1 DEF SharedMicrosoft
<1>11. CASE p = "shared_workspace"
  <2>1. v = SharedWorkspace(target, world)
    BY <1>11 DEF Conclude
  <2>2. SharedWorkspace(target, world).health
          = GoogleWorkspace(target, [world EXCEPT !.login = TRUE]).health
    BY DEF SharedWorkspace, GoogleWorkspace
  <2>3. GoogleWorkspace(target, [world EXCEPT !.login = TRUE]).health \in Health
    BY DEF GoogleWorkspace
  <2> QED
    BY <2>1, <2>2, <2>3
<1> QED
  BY <1>1, <1>2, <1>3, <1>4, <1>5, <1>6, <1>7, <1>8, <1>9, <1>10, <1>11 DEF Native, Shared

\* What is recorded of a validation is what it has proven of the boundary it read.
LEMMA RecordedEffect ==
  ASSUME IInv, RecordValidation
  PROVE  Effect /\ UNCHANGED <<requests, receipt>>
<1> USE DEF outside
<1>1. /\ job.at = "running" /\ job' = NoJob
      /\ UNCHANGED <<outside, issued, requests, receipt, workflow, lives, spent, told>>
  BY DEF RecordValidation
<1>2. issued' \in {issued, issued + 1} \cap 0..MaxStates
  BY <1>1 DEF IInv, TypeOK
<1>3. JobEffect /\ lives' \in 0..MaxLives /\ offered' \subseteq Places
  BY <1>1 DEF JobEffect, IInv, TypeOK
<1>4. CASE ~Exists
  <2>1. UNCHANGED <<row, proof>>
    BY <1>4 DEF RecordValidation
  <2>2. CapabilityEffect
    BY <1>1, <1>2, <2>1, IssuedEffect
  <2>3. ToldEffect
    BY <1>1, <1>4, <2>1 DEF ToldEffect, IInv, TypeOK, Exists
  <2> QED
    BY <1>1, <1>3, <2>1, <2>2, <2>3 DEF Effect, RowEffect
<1>5. CASE Exists
  <2>1. PICK verdict \in Verdicts :
          /\ verdict.provider = provider /\ verdict.target = job.target
          /\ row' = RecordConnectionValidation(row, verdict.health)
          /\ proof' = IF verdict.health = "healthy"
                      THEN [boundary |-> job.boundary, covers |-> verdict.covers,
                            late |-> job.boundary # Boundary(row)]
                      ELSE NoProof
    BY <1>5 DEF RecordValidation
  <2>2. PICK p \in Providers \ {PlatformSetup}, target \in Targets, world \in Worlds :
          verdict = Summary(p, target, Conclude(p, target, world))
    BY <2>1 DEF Verdicts
  <2> DEFINE v == Conclude(p, target, world)
  <2> HIDE DEF v
  <2>3. /\ verdict.provider = p /\ verdict.target = target /\ verdict.health = v.health
        /\ verdict.covers = Covered(target, v)
    BY <2>2 DEF Summary, v, Covered
  <2>4. p \in Native \cup Shared /\ Solid(p, target)
    BY <1>1, <2>1, <2>2, <2>3, ProvidersAssumption DEF IInv, SolidBoundary
  <2>5. v.health \in Health
    BY <2>2, <2>4, VerdictHealth DEF v
  <2>6. v.health = "healthy" => Covered(target, v)
    BY <2>2, <2>4, HealthyCovers DEF v
  <2>7. row \in Rows
    BY <1>5, Ranges DEF IInv
  <2>8. row'.health = verdict.health /\ row'.launch = row.launch /\ row'.oauth = row.oauth
        /\ row'.places = row.places
    BY <2>1, <2>7 DEF RecordConnectionValidation, Rows
  <2>9. RowGraded
    BY <1>5, <2>1, <2>3, <2>5, <2>6, <2>8 DEF RowGraded
  <2>10. CapabilityEffect
    BY <1>1, <1>2, <1>5, <2>8, StatementEffect
  <2>11. ToldEffect
    BY <1>1, <1>5, <2>8 DEF ToldEffect, IInv, TypeOK
  <2> QED
    BY <1>1, <1>3, <2>9, <2>10, <2>11 DEF Effect, RowEffect
<1> QED
  BY <1>1, <1>4, <1>5

\* The other steps of no request.
LEMMA WorldEffect ==
  ASSUME IInv,
         StartValidation \/ ValidationLost \/ PlatformChanges \/ OnboardingCallback \/ Expire
  PROVE  Effect /\ UNCHANGED <<requests, receipt>>
<1> USE DEF outside, history
<1>0. UNCHANGED <<requests, receipt, provider, issued, told, proof, lives>>
  BY DEF StartValidation, ValidationLost, PlatformChanges, OnboardingCallback, Expire
<1>1. issued' \in {issued, issued + 1} \cap 0..MaxStates
  BY <1>0 DEF IInv, TypeOK
<1>2. row' = row => ToldEffect
  BY <1>0 DEF ToldEffect, IInv, TypeOK, Exists
<1>3. lives' \in 0..MaxLives
  BY <1>0 DEF IInv, TypeOK
<1>4. CASE StartValidation \/ ValidationLost \/ PlatformChanges
  <2>1. UNCHANGED <<row, workflow, spent>>
    BY <1>4 DEF StartValidation, ValidationLost, PlatformChanges
  <2>2. CapabilityEffect
    BY <1>1, <2>1, IssuedEffect
  <2>3. JobEffect
    BY <1>4 DEF StartValidation, ValidationLost, PlatformChanges, JobEffect
  <2>4. offered' \subseteq Places
    BY <1>4 DEF StartValidation, ValidationLost, PlatformChanges, IInv, TypeOK
  <2> QED
    BY <1>0, <1>2, <1>3, <2>1, <2>2, <2>3, <2>4 DEF Effect, RowEffect
<1>5. CASE OnboardingCallback
  <2>1. PICK n \in 1..issued, succeeded \in BOOLEAN :
          /\ workflow.status = "in_progress" /\ workflow.state = n
          /\ workflow' = [workflow EXCEPT !.open = FALSE,
                                           !.status = IF succeeded THEN "returned" ELSE "failed"]
          /\ Spend(n, workflow.state)
          /\ UNCHANGED <<outside, row, job>>
    BY <1>5 DEF OnboardingCallback
  <2> DEFINE status == IF succeeded THEN "returned" ELSE "failed"
  <2>2. status \in {"returned", "failed"}
    OBVIOUS
  <2>3. workflow' = [workflow EXCEPT !.status = status, !.open = FALSE]
    BY <2>1 DEF IInv, Shapes
  <2> HIDE DEF status
  <2>4. CapabilityEffect
    BY <1>0, <2>1, <2>2, <2>3, ResolvedEffect
  <2>5. JobEffect /\ offered' \subseteq Places
    BY <2>1 DEF JobEffect, IInv, TypeOK
  <2> QED
    BY <1>0, <1>2, <1>3, <2>1, <2>4, <2>5 DEF Effect, RowEffect
<1>6. CASE Expire /\ UNCHANGED row
  <2>1. /\ workflow' = [workflow EXCEPT !.open = FALSE] \/ workflow' = workflow
        /\ UNCHANGED <<spent, job, offered>>
    BY <1>6 DEF Expire
  <2>2. /\ workflow \in [state : 0..issued,
                         status : {"none", "in_progress", "returned", "failed"},
                         open : BOOLEAN]
        /\ workflow.status = "in_progress" => workflow.state # 0
    BY Ranges DEF IInv, HeldIsFresh
  <2>3. /\ workflow' \in [state : 0..issued',
                          status : {"none", "in_progress", "returned", "failed"},
                          open : BOOLEAN]
        /\ workflow'.status = workflow.status /\ workflow'.state = workflow.state
    BY <1>0, <2>1, <2>2
  <2>4. \A s \in Slots : Held(s)' = Held(s)
    BY <1>6, <2>3 DEF Held, Exists
  <2>5. "launch" \in Slots
    BY DEF Slots
  <2>6. CapabilityEffect
    BY <1>1, <2>1, <2>2, <2>3, <2>4, <2>5 DEF CapabilityEffect
  <2> QED
    BY <1>0, <1>2, <1>3, <1>6, <2>1, <2>6 DEF Effect, RowEffect, JobEffect, IInv, TypeOK
<1>7. CASE Expire /\ row' # row
  <2>1. PICK n \in row.window : row' = [row EXCEPT !.window = @ \ {n}]
    BY <1>7 DEF Expire
  <2>2. Exists /\ UNCHANGED <<workflow, spent, job, offered>>
    BY <1>7 DEF Expire
  <2>3. row \in Rows /\ row.window \ {n} \in SUBSET States
    BY <2>2, Ranges DEF IInv, Rows
  <2> DEFINE y == [row EXCEPT !.window = row.window \ {n}]
  <2>4. /\ y \in Rows /\ SameBoundary(row, y) /\ y.inst = row.inst /\ y.health = row.health
        /\ SameCapabilities(row, y)
    <3>1. row.places \in SUBSET Places /\ "unknown" \in Health
      BY <2>3 DEF Rows, Health
    <3> QED
      BY <2>3, <3>1, PlainRows
  <2>5. row' = y
    BY <2>1
  <2> HIDE DEF y
  <2>6. Changes(row')
    BY <2>4, <2>5 DEF Changes, SameCapabilities
  <2>7. CapabilityEffect
    BY <1>1, <2>2, <2>4, <2>5, StatementEffect DEF SameCapabilities
  <2>8. ToldEffect
    BY <1>0, <2>2 DEF ToldEffect, IInv, TypeOK
  <2> QED
    BY <1>0, <1>3, <2>2, <2>4, <2>5, <2>6, <2>7, <2>8
       DEF Effect, RowEffect, JobEffect, IInv, TypeOK, Write
<1> QED
  BY <1>4, <1>5, <1>6, <1>7

-----------------------------------------------------------------------------
(***************************************************************************)
(* The invariant, and what it shows.                                       *)
(***************************************************************************)
\* Nothing is issued, held, asked or told at the start.
LEMMA InitIInv == Init => IInv
<1> SUFFICES ASSUME Init PROVE IInv
  OBVIOUS
<1> USE DEF Init
<1>1. /\ 0 \in 0..MaxStates /\ MaxStates \in Nat /\ 0 \in 0..MaxLives
      /\ NoAccount \in Accounts \cup {NoAccount}
  BY StatesAssumption, LivesAssumption
<1>2. /\ Idle \in Request /\ Idle.op = "none" /\ Idle.state = 0 /\ Idle.at = "idle"
      /\ Idle.keyed = FALSE /\ Idle.pick = {}
  BY <1>1 DEF Idle, Request
<1>3. \A r \in Requests : requests[r] = Idle
  OBVIOUS
<1>4. ~Exists
  BY DEF Exists
<1>5. Shapes
  BY <1>1, <1>2 DEF Shapes
<1>6. TypeOK
  BY <1>1, <1>2, <1>3, <1>4 DEF TypeOK, NoJob
<1>7. HeldIsFresh
  BY <1>4 DEF HeldIsFresh, Held, Slots
<1>8. OneKey /\ RequestsAreSane
  BY <1>2, <1>3 DEF OneKey, RequestsAreSane, Sane
<1>9. SolidBoundary /\ HealthyMeansProved /\ AttachedAsAsked
  BY <1>4 DEF SolidBoundary, HealthyMeansProved, AttachedAsAsked, NoJob
<1>10. SpentOnce /\ ReceiptTellsTruth
  BY DEF SpentOnce, ReceiptTellsTruth
<1> QED
  BY <1>5, <1>6, <1>7, <1>8, <1>9, <1>10 DEF IInv

\* Every handler of a setup has its effects.
LEMMA SetupEffect ==
  ASSUME IInv, NEW r \in Requests, Setup(r)
  PROVE  RequestEffect(r) /\ Effect
<1>1. ASSUME \/ CreateAzureConnection(r) \/ CreateEntraConnection(r) \/ CreateGcpConnection(r)
             \/ CreateGoogleWorkspaceConnection(r) \/ CreateGitHubConnection(r)
             \/ CreateAzureReposConnection(r) \/ CreateAwsConnection(r)
      PROVE  RequestEffect(r) /\ Effect
  <2>1. /\ {{}} \in SUBSET (SUBSET Places) /\ {Places} \in SUBSET (SUBSET Places)
        /\ {Places} \subseteq {Places} /\ SUBSET Places \in SUBSET (SUBSET Places)
        /\ {{p} : p \in Places} \in SUBSET (SUBSET Places)
    OBVIOUS
  <2>2. {"aws", "aws_resource", "azure", "entra", "gcp", "github", "azure_repos",
         "google_workspace"} = Native
    BY DEF Native
  <2>3. CASE CreateAzureConnection(r)
    BY <2>1, <2>2, <2>3, CreateEffect DEF CreateAzureConnection
  <2>4. CASE CreateEntraConnection(r)
    BY <2>1, <2>2, <2>4, CreateEffect DEF CreateEntraConnection
  <2>5. CASE CreateGcpConnection(r)
    BY <2>1, <2>2, <2>5, CreateEffect DEF CreateGcpConnection
  <2>6. CASE CreateGoogleWorkspaceConnection(r)
    BY <2>1, <2>2, <2>6, CreateEffect DEF CreateGoogleWorkspaceConnection
  <2>7. CASE CreateGitHubConnection(r)
    BY <2>1, <2>2, <2>7, CreateEffect DEF CreateGitHubConnection
  <2>8. CASE CreateAzureReposConnection(r)
    BY <2>1, <2>2, <2>8, CreateEffect DEF CreateAzureReposConnection
  <2>9. CASE CreateAwsConnection(r)
    BY <2>1, <2>2, <2>9, CreateEffect DEF CreateAwsConnection
  <2> QED
    BY <1>1, <2>3, <2>4, <2>5, <2>6, <2>7, <2>8, <2>9
<1>2. ASSUME \/ LaunchAwsCloudformation(r) \/ LaunchAzureSetup(r) \/ LaunchEntraSetup(r)
             \/ LaunchGcpSetup(r) \/ LaunchGithubSetup(r) \/ LaunchAzureReposSetup(r)
      PROVE  RequestEffect(r) /\ Effect
  <2>1. \E p \in Launchers : Launch(r, p)
    BY <1>2 DEF LaunchAwsCloudformation, LaunchAzureSetup, LaunchEntraSetup, LaunchGcpSetup,
       LaunchGithubSetup, LaunchAzureReposSetup, Launchers
  <2> QED
    BY <2>1, LaunchEffect
<1> QED
  BY <1>1, <1>2, RecordLaunchEffect, PresentedEffect, BindByLaunchEffect, GithubEffect,
     AzureReposEffect, WorkspaceEffect DEF Setup

\* Every handler of an attachment or of a setup at the platform has its effects.
LEMMA AttachmentEffect ==
  ASSUME IInv, NEW r \in Requests, Attachment(r)
  PROVE  RequestEffect(r) /\ Effect
<1>1. ASSUME \/ UseSharedAws(r) \/ UseSharedGithub(r) \/ UseSharedGcp(r) \/ UseSharedWorkspace(r)
             \/ UseSharedMicrosoft(r) \/ UseSharedAzureRepos(r)
      PROVE  RequestEffect(r) /\ Effect
  <2>1. PICK providers \in SUBSET Shared, boundaries \in SUBSET (SUBSET Places) :
          /\ Attach(r, providers, boundaries)
          /\ boundaries = {offered} \/ providers \cap Blind = {}
    <3>1. {offered} \in SUBSET (SUBSET Places) /\ {Places} \in SUBSET (SUBSET Places)
          /\ SUBSET Places \in SUBSET (SUBSET Places)
      BY DEF IInv, TypeOK
    <3>2. /\ {"shared_aws"} \in SUBSET Shared /\ {"shared_github"} \in SUBSET Shared
          /\ {"shared_gcp"} \in SUBSET Shared /\ {"shared_workspace"} \in SUBSET Shared
          /\ {"shared_azure", "shared_entra"} \in SUBSET Shared
          /\ {"shared_azure_repos"} \in SUBSET Shared
          /\ {"shared_aws"} \cap Blind = {} /\ {"shared_azure_repos"} \cap Blind = {}
      BY DEF Shared, Blind
    <3> QED
      BY <1>1, <3>1, <3>2 DEF UseSharedAws, UseSharedGithub, UseSharedGcp, UseSharedWorkspace,
         UseSharedMicrosoft, UseSharedAzureRepos
  <2>2. provider \in Blind => {} \notin boundaries
    BY <2>1 DEF Attach
  <2> QED
    BY <2>1, <2>2, AttachEffect
<1> QED
  BY <1>1, AttachedEffect, PlatformSetupEffect DEF Attachment

\* So has every other step of a request.
LEMMA ControlEffect ==
  ASSUME IInv, NEW r \in Requests, Control(r)
  PROVE  RequestEffect(r) /\ Effect
BY ValidationEffect, DisableEffect, DeleteEffect, KeyEffect DEF Control

\* What any step but a stutter does.
LEMMA NextEffect ==
  ASSUME IInv, Next
  PROVE  Effect /\ IInv'
<1>1. ASSUME NEW r \in Requests, Setup(r) \/ Attachment(r) \/ Control(r)
      PROVE  Effect /\ IInv'
  BY <1>1, SetupEffect, AttachmentEffect, ControlEffect, RequestPreserves
<1>2. CASE StartValidation \/ RecordValidation \/ ValidationLost
           \/ PlatformChanges \/ OnboardingCallback \/ Expire
  BY <1>2, RecordedEffect, WorldEffect, WorldPreserves
<1> QED
  BY <1>1, <1>2 DEF Next

\* No step leaves the invariant.
LEMMA NextIInv == IInv /\ [Next]_vars => IInv'
<1> SUFFICES ASSUME IInv, [Next]_vars PROVE IInv'
  OBVIOUS
<1>1. CASE Next
  BY <1>1, NextEffect
<1>2. CASE UNCHANGED vars
  <2>1. Effect /\ UNCHANGED <<requests, receipt>>
    BY <1>2, QuietEffect DEF vars
  <2> QED
    BY <2>1, WorldPreserves
<1> QED
  BY <1>1, <1>2

\* The inductive invariant holds, for every number of requests, capabilities, accounts,
\* places and planes, and for every provider.
THEOREM Invariance == Spec => []IInv
<1>1. Init => IInv
  BY InitIInv
<1>2. IInv /\ [Next]_vars => IInv'
  BY NextIInv
<1> QED
  BY <1>1, <1>2, PTL DEF Spec

\* The variables stay within their types, and no state is used that was not issued.
THEOREM TypeCorrect == Spec => []TypeOK
<1>1. IInv => TypeOK
  BY DEF IInv
<1> QED
  BY <1>1, Invariance, PTL

\* A setup token, consent, install, OAuth or return state is good once, whoever comes back
\* with it late, twice or from an earlier launch, and however many do so at a time.
THEOREM CapabilitiesSpentOnce == Spec => []SpentOnce
<1>1. IInv => SpentOnce
  BY DEF IInv
<1> QED
  BY <1>1, Invariance, PTL

\* A healthy connection has its boundary proven, all of it, unless a setup was completed
\* while the validation was at work.
THEOREM HealthIsProved == Spec => []HealthyMeansProved
<1>1. IInv => HealthyMeansProved
  BY DEF IInv
<1> QED
  BY <1>1, Invariance, PTL

\* The receipt of a gateway key says completed only of an action that took effect, and no
\* action runs or takes effect twice under one key.
THEOREM ReceiptsTellTruth == Spec => []ReceiptTellsTruth
<1>1. IInv => ReceiptTellsTruth
  BY DEF IInv
<1> QED
  BY <1>1, Invariance, PTL

\* All attachments of one platform connection that were answered as successful were
\* answered with the boundary the row has.
THEOREM AttachmentsAgree == Spec => []AttachedAsAsked
<1>1. IInv => AttachedAsAsked
  BY DEF IInv
<1> QED
  BY <1>1, Invariance, PTL

\* The repositories of a GitHub connection are bound only for the installation that the row
\* names, which is the one the signed-in user was shown to have.
THEOREM InstallationVerified == Spec => VerifiedInstallation
<1> DEFINE Binding ==
        /\ provider = "github" /\ Exists /\ row' # NoRow
        /\ row'.account # row.account \/ row'.places # row.places
        => row'.account = row.inst
<1>1. IInv /\ [Next]_vars => [Binding]_vars
  <2> SUFFICES ASSUME IInv, Next, provider = "github", Exists, row' # NoRow,
                      row'.account # row.account \/ row'.places # row.places
               PROVE  row'.account = row.inst
    OBVIOUS
  <2>1. RowEffect /\ row \in Rows
    BY NextEffect, Ranges DEF Effect, IInv
  <2>2. CASE Changes(row')
    BY <2>2 DEF Changes, SameBoundary
  <2>3. CASE RowGraded
    BY <2>1, <2>3 DEF RowGraded, RecordConnectionValidation, Rows
  <2> QED
    BY <2>1, <2>2, <2>3 DEF RowEffect, RowOpened
<1>2. Spec => [][Binding]_vars
  BY <1>1, Invariance, PTL DEF Spec
<1> QED
  BY <1>2 DEF VerifiedInstallation

=============================================================================
