------------------------------ MODULE CloudReads ------------------------------
(***************************************************************************)
(* The reads of the Azure, Google Cloud, Kubernetes, Microsoft Entra,       *)
(* Google Workspace and MCP connectors.                                    *)
(***************************************************************************)
EXTENDS Reads

TypePlanes(type) == {type, type \o " relationship"}

\* A classified resource is hosting an AI workload that runs as an identity.
WorkloadRows(type) ==
    Rows({type \o " workload", "service identity"}, type)
        \cup Rows({type \o " hosted on", type \o " runs as"}, type \o " relationship")

ResourceRows(type) == Rows({type \o " resource"}, type)

---------------------------------------------------------------------------
(* Google Cloud: one Cloud Asset listing per compute type; the AI types     *)
(* share a plane, which a failed listing makes partial.                     *)

\* The projects chosen, and a client that acts as the connection's principal.
GcpClient == Before("google cloud client")

\* Any broken page, or more than the record or page limit, fails the listing.
GcpListAssets(type, opens, blames) == <<Read("list_assets " \o type, {}, opens, blames, {}, {})>>

\* The identifiers of models a workload is configured with.
GcpModelConfiguration(type) ==
    Rows({"vertex model"}, type) \cup Rows({type \o " uses"}, type \o " relationship")

\* An asset of another type or project is refused.
GcpParseAsset(type, rows) ==
    <<Parse(type \o " asset", {"list_assets " \o type}, TypePlanes(type), rows)>>

GcpAssetAssertions(type) == ResourceRows(type) \cup WorkloadRows(type)

\* A cluster is not classified.
GcpDeployments ==
    LET configured(type) == GcpAssetAssertions(type) \cup GcpModelConfiguration(type)
    IN  Through(GcpClient,
                Plan(GcpListAssets("run", TypePlanes("run"), {})
                         \o GcpParseAsset("run", configured("run"))
                         \o GcpListAssets("function", TypePlanes("function"), {})
                         \o GcpParseAsset("function", configured("function"))
                         \o GcpListAssets("gke", TypePlanes("gke"), {})
                         \o GcpParseAsset("gke", ResourceRows("gke")),
                     {}, "withdrawn"))

\* Only when every type fails is the plane failed instead, which keeps no less.
GcpAiAssets(type) ==
    GcpListAssets(type, {}, {"ai inventory"})
        \o <<Parse(type \o " record", {"list_assets " \o type}, {"ai inventory"},
                   Rows({type \o " resource"}, "ai inventory"))>>

GcpAiInventory ==
    Through(GcpClient, Plan(GcpAiAssets("endpoint") \o GcpAiAssets("agent"), {}, "withdrawn"))

\* The audit entries of Vertex AI; more than the record limit is partial.
VertexActivity ==
    Through(GcpClient,
            Plan(<<Noting(List("list_entries", {}, {"activity"}, Rows({"vertex call"}, "activity")),
                          {"activity"})>>,
                 {}, "kept"))

\* Mutant: warnings do not count.
GcpResultLenient(states) == IF "failed" \in states THEN "failed" ELSE "complete"

\* A project: failed by any failed plane, else partial by any partial one.
GcpResult(states) ==
    IF "failed" \in states THEN "failed"
    ELSE IF "partial" \in states THEN "partial" ELSE "complete"

---------------------------------------------------------------------------
(* Azure: one Resource Graph query per compute type and per AI type.        *)

\* The subscriptions chosen, and a client for the customer's directory.
AzureClient == Before("azure client")

\* A broken page, a truncated answer or too many records fail the query.
AzureListResources(type, planes) == <<Read("list_resources " \o type, {}, planes, {}, {}, {})>>

\* A resource of another type, subscription or group is refused.
AzureParseResource(type, rows) ==
    <<Parse(type \o " resource", {"list_resources " \o type}, TypePlanes(type), rows)>>

AzureAssetAssertions(type) == ResourceRows(type) \cup WorkloadRows(type)

\* A cluster is not classified.
AzureDeployments ==
    LET listed(type) == AzureListResources(type, TypePlanes(type))
    IN  Through(AzureClient,
                Plan(listed("container app")
                         \o AzureParseResource("container app", AzureAssetAssertions("container app"))
                         \o listed("function app")
                         \o AzureParseResource("function app", AzureAssetAssertions("function app"))
                         \o listed("aks") \o AzureParseResource("aks", ResourceRows("aks")),
                     {}, "withdrawn"))

AzureAiInventory ==
    Through(AzureClient,
            Plan(AzureListResources("ai", {"ai inventory"})
                     \o <<Parse("ai resource", {"list_resources ai"}, {"ai inventory"},
                                Rows({"azure ai resource"}, "ai inventory"))>>,
                 {}, "withdrawn"))

AzureListActivity == <<Read("list_activity", {}, {"activity"}, {}, {}, {})>>

\* An event without an identity or a time is passed over with a warning.
AzureAiActivity ==
    Through(AzureClient,
            Plan(AzureListActivity
                     \o <<Parse("event", {"list_activity"}, {"activity"},
                                Rows({"management event"}, "activity"))>>,
                 {}, "kept"))

---------------------------------------------------------------------------
(* Kubernetes: a snapshot is one List object.  An image without a digest    *)
(* leaves the workload in and both planes partial.                          *)

KubernetesPlanes == TypePlanes("kubernetes")

KubernetesItems == <<Read("items", {}, KubernetesPlanes, {}, {}, {})>>

\* A workload whose pod specification cannot be read is passed over.
KubernetesParseWorkload(rows) ==
    <<Noting(Parse("workload", {"items"}, KubernetesPlanes, rows), KubernetesPlanes)>>

KubernetesAssertions == ResourceRows("kubernetes") \cup WorkloadRows("kubernetes")

Kubernetes ==
    Plan(KubernetesItems \o KubernetesParseWorkload(KubernetesAssertions), {}, "withdrawn")

---------------------------------------------------------------------------
(* Microsoft Entra.  Finding the service principals completes the planes of *)
(* applications and of service principals at once, although the context     *)
(* identities of the latter come from the two reads that follow.            *)

EntraGraph == Before("graph client")

\* The application of a service principal, and the identity it acts as.
EntraIdentities ==
    Rows({"application", "application identity", "application runs as"}, "application")

\* A user, group or role that a grant or an assignment names.
ContextIdentity == Rows({"context identity"}, "service principal")

EntraDiscover ==
    Read("servicePrincipals", {},
         {"application", "service principal", "delegated grant", "application permission"}, {}, {},
         EntraIdentities)

EntraGrants ==
    Read("oauth2PermissionGrants", {"servicePrincipals"}, {"delegated grant"}, {}, {},
         ContextIdentity \cup Rows({"connects to"}, "delegated grant"))

EntraAssignments ==
    Read("appRoleAssignments", {"servicePrincipals"}, {}, {"application permission"}, {},
         ContextIdentity \cup Rows({"can invoke"}, "application permission"))

\* The inventory is stored after the activity has been read, which may raise.
EntraInventory ==
    Through(EntraGraph,
            Plan(<<EntraDiscover, EntraGrants, EntraAssignments,
                   Fatal(Parse("activity record", {}, {}, {}))>>,
                 {}, "withdrawn"))

EntraApplications ==
    <<Read("servicePrincipals", {}, {"sign in", "directory audit"}, {}, {}, {})>>

\* Batches of applications: if each of them fails the plane is still only partial.
EntraSignIns ==
    <<Read("signIns", {"servicePrincipals"}, {}, {"sign in"}, {}, Rows({"sign in"}, "sign in"))>>

EntraDirectoryAudits ==
    <<Read("directoryAudits", {"servicePrincipals"}, {"directory audit"}, {}, {},
           Rows({"audit"}, "directory audit"))>>

\* A record of a matched application without a time, or an audit without a name, raises
\* out of the whole collection.
EntraNormalise(record, listing) == <<Fatal(Parse(record, {listing}, {}, {}))>>

EntraActivity ==
    Through(EntraGraph,
            Plan(EntraApplications
                     \o EntraSignIns \o EntraNormalise("sign-in record", "signIns")
                     \o EntraDirectoryAudits \o EntraNormalise("audit record", "directoryAudits"),
                 {}, "kept"))

EntraResult(states) ==
    IF states = {"complete"} THEN "complete"
    ELSE IF states = {"failed"} THEN "failed" ELSE "partial"

---------------------------------------------------------------------------
(* Google Workspace: two audit reports, each the only source of its plane.  *)
(* A report that fails or passes the record limit leaves nothing of itself. *)

WorkspaceReport(application, plane, things) ==
    Read(application, {}, {plane}, {}, {}, Rows(things, plane))

\* A record without a time raises out of the whole collection, and neither batch is stored.
WorkspaceReports(gemini, oauth) ==
    Before("reports client")
        \o <<WorkspaceReport("gemini_in_workspace_apps", "gemini", gemini),
             WorkspaceReport("token", "oauth", oauth),
             Fatal(Parse("record time", {"gemini_in_workspace_apps", "token"}, {}, {}))>>

\* Gemini is there if there was any record of it.
GeminiAssertion == {"gemini application"}

\* An application of the catalogue that was given a token.
OauthAssertion == {"oauth application"}

GeminiActivities == {"gemini activity"}

OauthActivity == {"oauth activity"}

WorkspaceInventory == Plan(WorkspaceReports(GeminiAssertion, OauthAssertion), {}, "withdrawn")

WorkspaceActivity == Plan(WorkspaceReports(GeminiActivities, OauthActivity), {}, "kept")

WorkspaceResult(states) ==
    IF states = {"complete"} THEN "complete"
    ELSE IF states = {"failed"} THEN "failed" ELSE "partial"

---------------------------------------------------------------------------
(* MCP over HTTP: the server once it is initialized, then its tools page by *)
(* page.  Any error ends the observation; the planes are failed only if the *)
(* server itself was not seen.                                             *)

McpPlanes == TypePlanes("mcp")

McpInitialize ==
    <<Read("initialize", {}, McpPlanes, {}, {}, Rows({"mcp server"}, "mcp")),
      Detail("notifications/initialized", {"initialize"}, McpPlanes, {})>>

\* One refused tool ends the listing like a failed page.
McpCollectTools ==
    <<Detail("tools/list", {"notifications/initialized"}, McpPlanes,
             Rows({"mcp tool"}, "mcp") \cup Rows({"mcp exposes"}, "mcp relationship"))>>

Mcp == Plan(McpInitialize \o McpCollectTools, {}, "withdrawn")

=============================================================================
