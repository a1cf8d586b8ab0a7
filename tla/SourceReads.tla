------------------------------ MODULE SourceReads ------------------------------
(***************************************************************************)
(* The reads of a source tree, of an Azure Repos repository, and of the     *)
(* reports that are imported from files.                                   *)
(***************************************************************************)
EXTENDS Reads

---------------------------------------------------------------------------
(* A checked-out tree.  A file too large or unreadable, a manifest or a     *)
(* configuration that cannot be parsed, two names of one identity: each     *)
(* leaves the inventory partial.                                           *)

SourcePlanes == {"source inventory", "source relationship"}

\* The repository itself is in every batch.
SourceTree == <<Parse("tree", {}, {}, Rows({"code repository"}, "source inventory"))>>

\* Every signal is one of the application, which is recorded once in the batch.
EnsureSourceApplication ==
    Rows({"ai application"}, "source inventory")
        \cup Rows({"application defined in"}, "source relationship")

SourceRows(what) ==
    Rows({what}, "source inventory") \cup Rows({"repository " \o what}, "source relationship")
        \cup EnsureSourceApplication

EnsureAgent ==
    Rows({"agent"}, "source inventory") \cup Rows({"agent defined in"}, "source relationship")

LinkAgentToModel == EnsureAgent \cup Rows({"agent uses"}, "source relationship")

\* The files of the tree in a bounded number, without vendored directories.
SourceFiles == <<Parse("source file", {}, SourcePlanes, {})>>

DiscoverFrameworks ==
    <<Parse("python tree", {"source file"}, SourcePlanes, SourceRows("framework"))>>

\* The tools a server registers, and what it exposes.
ExtractTools == Rows({"mcp tool"}, "source inventory") \cup Rows({"server exposes"}, "source relationship")

\* Two servers or tools of one canonical name stop the file.
DiscoverMcpPython ==
    <<Parse("mcp declaration", {"python tree"}, SourcePlanes,
            SourceRows("mcp server") \cup ExtractTools)>>

DiscoverModels ==
    <<Parse("model literal", {"source file"}, {}, SourceRows("model") \cup LinkAgentToModel)>>

DiscoverCapabilities ==
    <<Parse("capability call", {"source file"}, {},
            Rows({"tool", "target"}, "source inventory")
                \cup Rows({"can invoke", "acts on"}, "source relationship")
                \cup EnsureAgent \cup EnsureSourceApplication)>>

\* Files of servers in the two known layouts; what is no JSON is passed over.
McpConfigFiles == <<Parse("configuration file", {}, SourcePlanes, {})>>

DiscoverMcpConfig ==
    <<Parse("mcp configuration", {"configuration file"}, SourcePlanes,
            SourceRows("configured mcp server"))>>

\* A manifest that cannot be parsed is passed over as a whole.
DependencyDeclarations == <<Parse("dependency manifest", {}, SourcePlanes, {})>>

DiscoverDependencies ==
    <<Parse("dependency", {"dependency manifest"}, {}, SourceRows("dependency"))>>

SourceInventory ==
    SourceTree \o SourceFiles \o DiscoverFrameworks \o DiscoverMcpPython \o DiscoverModels
        \o DiscoverCapabilities \o McpConfigFiles \o DiscoverMcpConfig
        \o DependencyDeclarations \o DiscoverDependencies

\* A file of unsupported imports, and an invocation whose input is no literal object,
\* cannot be judged.
CommandSites ==
    <<Parse("posture source file", {}, {"source findings"}, {}),
      Parse("command site", {"posture source file"}, {"source findings"}, {})>>

\* An invocation that lacks a guardrail is a finding, unless its input uses a spread.
GuardrailFinding ==
    <<Parse("site without guardrail", {"command site"}, {"source findings"},
            Rows({"guardrail finding"}, "source findings"))>>

SourcePosture == CommandSites \o GuardrailFinding

Repository == Plan(SourceInventory, {}, "withdrawn")

RepositoryPosture == Plan(SourcePosture, {}, "withdrawn")

---------------------------------------------------------------------------
(* Azure Repos: the repository at the commit of its default branch.  The    *)
(* tree is written to a directory that the connectors above read.  A blob   *)
(* over the size limit is left out of it.                                  *)

SnapshotPlanes == {"source"} \cup SourcePlanes \cup {"source findings"}

\* Until the snapshot is there every failure is one failed source batch; the
\* other batches of the repository are not made at all.
SourceBatch == Rows({"source repository"}, "source")

AzureRepositories ==
    <<Read("list_repositories", {}, SnapshotPlanes, {}, {}, {})>>

AzureTree ==
    <<Read("refs", {"list_repositories"}, SnapshotPlanes, {}, {}, {}),
      Read("items", {"refs"}, SnapshotPlanes, {}, {}, {})>>

\* A blob over the limit is a warning of the source batch alone.
AzureSnapshot ==
    AzureTree
        \o <<Read("blob metadata", {"items"}, SnapshotPlanes, {}, {"source"}, {}),
             Read("blob content", {"blob metadata"}, SnapshotPlanes, {}, {}, SourceBatch)>>

\* The connectors see a file only if its blob was written.
OnSnapshot(reads) ==
    [i \in DOMAIN reads |->
        IF reads[i].per = {} THEN [reads[i] EXCEPT !.per = {"blob content"}] ELSE reads[i]]

AnalyzeSnapshot == OnSnapshot(SourceTree \o SourceFiles \o DiscoverModels \o SourcePosture)

AzureRepos == Plan(AzureRepositories \o AzureSnapshot \o AnalyzeSnapshot, {}, "withdrawn")

\* Of several repositories: one that failed or is partial makes the result partial.
AzureReposResult(states) == IF states = {"complete"} THEN "complete" ELSE "partial"

---------------------------------------------------------------------------
(* Imported reports: the document is refused as a whole, or its records are *)
(* taken one by one and a refused one leaves the plane partial.            *)

Document(document, plane, things) ==
    <<Fatal(Read(document, {}, {plane}, {}, {}, Rows(things, plane)))>>

\* A warning about a record that is taken counts like a refused one.  A report of whose
\* records all are refused is failed instead of partial, which withdraws no more.
Records(record, document, plane, things) ==
    <<Noting(Parse(record, {document}, {plane}, Rows(things, plane)), {plane})>>

\* The target is recorded even when no artifact is; it contains each component.
SyftReport ==
    Plan(Document("syft report", "components", {"target"})
             \o Records("artifact", "syft report", "components", {"component", "contains"}),
         {}, "withdrawn")

\* Matches are open observations, ignored matches suppressed ones; a component that
\* occurs twice is one observation each time.
GrypeMatch ==
    Records("match", "grype report", "vulnerabilities", {"open observation"})
        \o Records("ignored match", "grype report", "vulnerabilities", {"suppressed observation"})

\* A complete report marked authoritative is all there is.
GrypeReport == Plan(Document("grype report", "vulnerabilities", {}) \o GrypeMatch, {}, "withdrawn")

\* A report of several accounts or products needs the scope to be given.
OcsfIdentity == <<Fatal(Parse("report identity", {"ocsf report"}, {}, {}))>>

\* A second finding of one identifier is passed over.
OcsfRecord == Records("record", "ocsf report", "ocsf findings", {"ocsf finding"})

\* As with Grype, of an authoritative report.
OcsfReport ==
    Plan(Document("ocsf report", "ocsf findings", {}) \o OcsfIdentity \o OcsfRecord,
         {}, "withdrawn")

ActivityRow == Rows({"activity"}, "activity")

\* A supported Bedrock event with a time.
CloudTrailRecord == Parse("cloudtrail record", {"activity export"}, {"activity"}, ActivityRow)

\* An audit entry with a method and a time.
VertexRecord == Parse("vertex record", {"activity export"}, {"activity"}, ActivityRow)

\* One activity for each event of the record; one bad event refuses all of them.
WorkspaceRecord == Parse("workspace record", {"activity export"}, {"activity"}, ActivityRow)

\* A sign-in with a time.
EntraRecord == Parse("entra record", {"activity export"}, {"activity"}, ActivityRow)

\* An export has one format.
ActivityExport(record) ==
    Plan(Document("activity export", "activity", {}) \o <<Noting(record, {"activity"})>>,
         {}, "kept")

=============================================================================
