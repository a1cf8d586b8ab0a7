------------------------------ MODULE Validators -------------------------------
(***************************************************************************)
(* What one validation of a connection concludes.  Every provider has its  *)
(* own validator: each proves the credential and the identity behind it,   *)
(* then every place of the boundary (a Region, subscription, project or    *)
(* repository), then calls one entrypoint per declared plane there, and    *)
(* sums the answers up in a health and a credential state.  They differ in *)
(* what they need first, in what a missing place does and in how few       *)
(* passes are still a partial result.                                      *)
(***************************************************************************)
EXTENDS FiniteSets

CONSTANTS Places,      \* Regions, subscriptions, projects, repositories
          Planes,      \* declared planes of a place
          OddPlane     \* the plane a validator treats in a way of its own

\* A domain or a tenant has something to read: the bindings that take it whole rely on it.
ASSUME PlacesAssumption == Places # {}
ASSUME PlanesAssumption == OddPlane \in Planes

Checks == Places \X Planes
Health == {"unknown", "healthy", "partial", "unhealthy", "disabled"}

\* What the source answers during one validation: the login (and the identity behind
\* it), a second login or listing some validators need, the places that are there as
\* recorded, and each entrypoint ("na": the answer says it does not exist there).
Worlds == [login : BOOLEAN, second : BOOLEAN, there : [Places -> BOOLEAN],
           answer : [Checks -> {"ok", "error", "na"}]]

\* The part of a connection a validator looks at: its boundary, whether its setup is
\* recorded as completed, and whether its installation is the account's.
Targets == [places : SUBSET Places, done : BOOLEAN, same : BOOLEAN]

Verdict(health, credential, proven) ==
    [health |-> health, credential |-> credential, proven |-> proven]

CredentialFailure == Verdict("unhealthy", "failed", {})

There(target, world) == {p \in target.places : world.there[p]}

Answering(world, checks, good) == {check \in checks : world.answer[check] \in good}

\* Mutant of Graded: what passed is all that is asked about.
GradedByPasses(proven, wanted) == IF proven # {} THEN "healthy" ELSE "partial"

\* No failed or unknown result, or partial: whatever else passed.
Graded(proven, wanted) == IF wanted \subseteq proven THEN "healthy" ELSE "partial"

\* At least one passed, or unhealthy.
Counted(proven, wanted) ==
    IF wanted \subseteq proven THEN "healthy"
    ELSE IF proven = {} THEN "unhealthy" ELSE "partial"

-----------------------------------------------------------------------------
(* Amazon Web Services *)

\* Discovery passes if it finds Regions and all that were selected are among them.
DiscoverRegions(target, world) ==
    LET enabled == IF world.second THEN {p \in Places : world.there[p]} ELSE {}
    IN  [regions |-> enabled, passed |-> enabled # {} /\ target.places \subseteq enabled]

\* Listed in full, or selected whatever the listing says; a boundary without Regions is
\* automatic coverage: all that are enabled.
AwsCoveragePlan(target, discovery) ==
    LET scanned == IF target.places # {} THEN target.places
                   ELSE IF discovery.passed THEN discovery.regions ELSE {}
    IN  scanned \X Planes

\* An operation a Region does not have is not a failure.
ValidateRegionalPlanes(plan, world) == Answering(world, plan, {"ok", "na"})

Aws(target, world) ==
    LET discovery == DiscoverRegions(target, world)
        plan == AwsCoveragePlan(target, discovery)
        proven == ValidateRegionalPlanes(plan, world)
    IN IF ~world.login THEN CredentialFailure
       ELSE Verdict(IF discovery.passed THEN Graded(proven, plan) ELSE "partial",
                    "passed", proven)

\* The configuration of the one Lambda must be as it was pinned.
ReadLambda(target, world) ==
    Answering(world, target.places \X (Planes \ {OddPlane}), {"ok"}) # {}

\* It is read before the policies of its role; the result is never more than partial.
AwsResource(target, world) ==
    IF ~world.login THEN CredentialFailure
    ELSE Verdict("partial", "passed",
                 IF ReadLambda(target, world)
                 THEN Answering(world, target.places \X Planes, {"ok"}) ELSE {})

-----------------------------------------------------------------------------
(* Azure and Google Cloud *)

\* A place that is not bound as recorded leaves all its planes unknown; no place at all
\* is a failed credential.
PerPlace(target, world, proven) ==
    LET bound == There(target, world)
    IN IF bound = {} THEN CredentialFailure
       ELSE Verdict(Graded(proven, target.places \X Planes),
                    IF bound = target.places THEN "passed" ELSE "failed", proven)

\* The runtime plane is read with a token of its own.
AzurePlanes(target, world) ==
    {check \in Answering(world, There(target, world) \X Planes, {"ok"}) :
        check[2] = OddPlane => world.second}

Azure(target, world) ==
    IF ~world.login THEN CredentialFailure
    ELSE PerPlace(target, world, AzurePlanes(target, world))

GcpPlanes(target, world) == Answering(world, There(target, world) \X Planes, {"ok"})

Gcp(target, world) ==
    IF ~world.login THEN CredentialFailure
    ELSE PerPlace(target, world, GcpPlanes(target, world))

\* The broker checks the binding on every read: there are only planes that passed.
SharedGcp(target, world) ==
    LET wanted == target.places \X Planes
        proven == GcpPlanes(target, world)
    IN IF ~world.login THEN CredentialFailure
       ELSE Verdict(Counted(proven, wanted), IF proven = {} THEN "failed" ELSE "passed", proven)

-----------------------------------------------------------------------------
(* GitHub and Azure Repos *)

\* An empty repository has no revision to read: its contents plane does not apply.
ValidateRepositories(target, world) ==
    {check \in There(target, world) \X Planes :
        \/ world.answer[check] = "ok"
        \/ world.answer[check] = "na" /\ check[2] = OddPlane}

\* The installation is the App's, is not suspended, has the permissions, and belongs to
\* the account whose repositories the connection is bound to.
GetInstallation(target, world) == world.login /\ target.same

GitHub(target, world) ==
    LET proven == ValidateRepositories(target, world)
    IN IF target.places = {} \/ ~GetInstallation(target, world) THEN CredentialFailure
       ELSE Verdict(Graded(proven, target.places \X Planes), "passed", proven)

\* The registry of the platform (`second') must still list every pinned repository, and a
\* token for the first of them must be had.
SharedGitHub(target, world) ==
    IF world.second THEN GitHub(target, world) ELSE CredentialFailure

AzureRepos(target, world) ==
    LET proven == Answering(world, There(target, world) \X Planes, {"ok"})
    IN IF target.places = {} \/ ~target.done \/ ~world.login THEN CredentialFailure
       ELSE Verdict(Graded(proven, target.places \X Planes), "passed", proven)

\* One repository that is not what it was fails the listing.
SharedAzureRepos(target, world) ==
    IF There(target, world) = target.places THEN AzureRepos(target, world)
    ELSE CredentialFailure

-----------------------------------------------------------------------------
(* Entra and Google Workspace: the planes of one tenant or domain. *)

\* A login that works is a passed credential.
Entra(target, world) ==
    LET wanted == target.places \X Planes
        proven == Answering(world, wanted, {"ok"})
    IN IF ~target.done \/ ~world.login THEN CredentialFailure
       ELSE Verdict(Counted(proven, wanted), "passed", proven)

GoogleWorkspace(target, world) ==
    LET wanted == target.places \X Planes
        proven == Answering(world, wanted, {"ok"})
    IN IF ~target.done \/ ~world.login THEN CredentialFailure
       ELSE Verdict(Counted(proven, wanted), "passed", proven)

\* Through the platform a plane's answer is all there is to tell: a validation none of
\* whose planes passed has a failed credential, and one without planes is unhealthy.
SharedMicrosoft(target, world) ==
    LET wanted == target.places \X Planes
        proven == IF world.login
                  THEN {check \in Answering(world, wanted, {"ok"}) : world.there[check[1]]}
                  ELSE {}
    IN Verdict(IF wanted = {} THEN "unhealthy" ELSE Counted(proven, wanted),
               IF proven = {} THEN "failed" ELSE "passed", proven)

\* A binding that changed is an exception of the reader, not a verdict.
SharedWorkspace(target, world) ==
    LET verdict == GoogleWorkspace(target, [world EXCEPT !.login = TRUE])
    IN [verdict EXCEPT !.credential = IF verdict.proven = {} THEN "failed" ELSE "passed"]

=============================================================================
