------------------------------ MODULE IssueEvidence ------------------------------
(***************************************************************************)
(* From provider reads to issues: two collectors of a tenant, of its AWS   *)
(* account and of its GitHub repository, write evidence under coverage     *)
(* rules, and the rule "deployed Bedrock call without a managed guardrail, *)
(* under a role of broader scope" is evaluated on what is stored.          *)
(*                                                                         *)
(* One repository, one region and one configured model; the workloads of a *)
(* service are one workload here, so each is read, in part or not at all,  *)
(* on its own.  The provider reads of a collection take place at once.     *)
(* Job rows, leases and generations are the subject of ConnectionJobs and  *)
(* GithubCollection: here a job runs, is retried or fails, and the         *)
(* batches of one connection come in the order they were read.             *)
(***************************************************************************)
EXTENDS Naturals

CONSTANTS
    Workload,  \* AI workloads, one for each AWS service
    Role,      \* their execution roles
    Path,      \* source files with a literal Bedrock call
    None,      \* no role, no pinned source
    MaxEdits   \* bound: changes of the account and of the default branch

ASSUME IssueEvidenceAssumption ==
    /\ None \notin Role \cup [calls : SUBSET Path, reach : [Workload -> SUBSET Path]]
    /\ Workload \cap {"roles", "calls", "edges"} = {}
    /\ MaxEdits \in Nat

VARIABLES
    cloud,      \* the AWS account
    source,     \* the tip of the default branch
    edits,      \* how often either was changed
    inventory,  \* live rows of the deployment batches
    deployedBy, \* live rows of the code-to-cloud batches
    findings,   \* finding rows: of roles, and of calls in the source
    coverage,   \* collection_coverage: the last report of each plane
    issues,     \* issue rows of the rule
    aws,        \* the collection job of the AWS connection and its worker
    github      \* that of the GitHub connection

vars == <<cloud, source, edits, inventory, deployedBy, findings, coverage, issues, aws, github>>

-----------------------------------------------------------------------------
\* The workloads that exist with their role, those that name the model, and the roles
\* that permit more than it.
Cloud == [role : [Workload -> Role \cup {None}], model : SUBSET Workload, broad : SUBSET Role]

\* Calls without a guardrail, and the files that each deployed artifact includes.
Source == [calls : SUBSET Path, reach : [Workload -> SUBSET Path]]

Inventory == [workloads : SUBSET Workload,
              runsAs    : SUBSET (Workload \X Role),
              uses      : SUBSET Workload]

NoInventory == [workloads |-> {}, runsAs |-> {}, uses |-> {}]

\* reachable_source_paths of each live deployed_by edge.
Correlation == [edges : SUBSET Workload, reach : [Workload -> SUBSET Path]]

NoCorrelation == [edges |-> {}, reach |-> [w \in Workload |-> {}]]

\* The planes of coverage: a read is complete, or it is not (partial, failed).
Plane == Workload \cup {"roles", "calls", "edges"}

FindingState == {"absent", "open", "resolved"}

Key == Workload \X Role \X Path

AwsJob == [pc    : {"idle", "reading", "inventory", "posture", "queueing", "evaluating"},
           full  : SUBSET Plane,              \* planes that the batch covers completely
           seen  : Inventory,
           broad : SUBSET Role,
           true  : BOOLEAN]                   \* history: read in full, and it still is so

NoBatch == [pc |-> "reading", full |-> {},
            seen |-> NoInventory, broad |-> {}, true |-> FALSE]

GithubJob == [pc      : {"idle", "queued", "targets", "posture", "correlation", "recording",
                         "evaluating"},
              targets : SUBSET Workload,      \* workloads the sources are matched with
              pin     : Source \cup {None},   \* content of the pinned commit
              done    : BOOLEAN,              \* the checkpoint holds the repository's result
              calls   : SUBSET Path,
              match   : Correlation,
              full    : SUBSET Plane,
              newest  : BOOLEAN]
\* The history `newest' of a job: it read all of the repository as it still is, and the
\* workloads it matched are those that are stored.

NewJob == [pc |-> "queued", targets |-> {}, pin |-> None, done |-> FALSE,
           calls |-> {}, match |-> NoCorrelation, full |-> {},
           newest |-> FALSE]

\* One type invariant for the providers, the rows and the workers.
TypeOK ==
    /\ cloud \in Cloud /\ source \in Source /\ edits \in 0..MaxEdits
    /\ inventory \in Inventory
    /\ deployedBy \in Correlation
    /\ findings \in [roles : [Role -> FindingState], calls : [Path -> FindingState]]
    /\ coverage \subseteq Plane
    /\ issues \in [Key -> {"absent", "open", "unknown", "resolved"}]
    /\ aws \in AwsJob
    /\ github \in GithubJob
    /\ \A w \in Workload \ deployedBy.edges : deployedBy.reach[w] = {}
    /\ \A e \in inventory.runsAs : e[1] \in inventory.workloads
    /\ inventory.uses \subseteq inventory.workloads

Init ==
    /\ cloud \in Cloud /\ source \in Source /\ edits = 0
    /\ \A w \in cloud.model : cloud.role[w] # None
    /\ inventory = NoInventory
    /\ deployedBy = NoCorrelation
    /\ findings = [roles |-> [q \in Role |-> "absent"], calls |-> [p \in Path |-> "absent"]]
    /\ coverage = {}
    /\ issues = [k \in Key |-> "absent"]
    /\ aws = [NoBatch EXCEPT !.pc = "idle"]
    /\ github = [NewJob EXCEPT !.pc = "idle"]

world == <<cloud, source, edits>>
evidence == <<inventory, deployedBy, findings, coverage>>

-----------------------------------------------------------------------------
\* Mutant of Upsert: what a batch does not name is resolved whatever it covers.
UpsertUncovered(rows, found, complete) ==
    [x \in DOMAIN rows |->
        IF x \in found THEN "open" ELSE IF rows[x] = "open" THEN "resolved" ELSE rows[x]]

\* A batch of findings: what it names is open, the rest is resolved if the read was
\* complete and authoritative.
Upsert(rows, found, complete) ==
    [x \in DOMAIN rows |->
        IF x \in found THEN "open"
        ELSE IF complete /\ rows[x] = "open" THEN "resolved" ELSE rows[x]]

\* The report of a batch on the planes it covers.
Reported(planes, full) == coverage' = (coverage \ planes) \cup (full \cap planes)

\* A collection of the AWS connection is queued and claimed.
StartAws ==
    /\ aws.pc = "idle"
    /\ aws' = NoBatch
    /\ UNCHANGED <<world, evidence, issues, github>>

\* What can be seen of the account: each service is read in full, in part or not at all;
\* the roles of the observed workloads that name a model are read, or cannot be.
Asked(seen) == {q \in Role : \E w \in seen.uses : <<w, q>> \in seen.runsAs}

ReadAws ==
    /\ aws.pc = "reading"
    /\ \E services \in SUBSET Workload,
          observed \in SUBSET {w \in Workload : cloud.role[w] # None},
          denied \in SUBSET Role :
          LET seen == [workloads |-> observed,
                       runsAs |-> {<<w, cloud.role[w]>> : w \in observed},
                       uses |-> observed \cap cloud.model] IN
          /\ \A w \in services : cloud.role[w] # None => w \in observed
          /\ denied \subseteq Asked(seen)
          /\ aws' = [aws EXCEPT !.pc = "inventory", !.seen = seen,
                !.full = services \cup (IF denied = {} THEN {"roles"} ELSE {}),
                !.broad = (Asked(seen) \ denied) \cap cloud.broad,
                !.true = denied = {} /\ services = Workload]
    /\ UNCHANGED <<world, evidence, issues, github>>

\* Rows of a service are withdrawn when its plane was covered completely without them.
Kept(w) == w \notin aws.full

IngestInventory ==
    /\ aws.pc = "inventory"
    /\ inventory' =
          [workloads |-> aws.seen.workloads \cup {w \in inventory.workloads : Kept(w)},
           runsAs |-> aws.seen.runsAs \cup {e \in inventory.runsAs : Kept(e[1])},
           uses |-> aws.seen.uses \cup {w \in inventory.uses : Kept(w)}]
    /\ Reported(Workload, aws.full)
    /\ aws' = [aws EXCEPT !.pc = "posture"]
    /\ github' = [github EXCEPT !.newest = @ /\ inventory'.workloads = inventory.workloads]
    /\ UNCHANGED <<world, deployedBy, findings, issues>>

IngestRolePosture ==
    /\ aws.pc = "posture"
    /\ findings' = [findings EXCEPT !.roles = Upsert(@, aws.broad, "roles" \in aws.full)]
    /\ Reported({"roles"}, aws.full)
    /\ aws' = [NoBatch EXCEPT !.pc = "queueing", !.true = aws.true]
    /\ UNCHANGED <<world, inventory, deployedBy, issues, github>>

\* The source collection that follows a cloud collection, unless one is active.
QueueSource ==
    /\ aws.pc = "queueing"
    /\ github' = IF github.pc = "idle" THEN NewJob ELSE github
    /\ aws' = [aws EXCEPT !.pc = "evaluating"]
    /\ UNCHANGED <<world, evidence, issues>>

-----------------------------------------------------------------------------
\* The workload, the repository, the role, the model and both findings are joined.
Joined(w, q, p) ==
    /\ w \in deployedBy.edges /\ p \in deployedBy.reach[w] /\ findings.calls[p] = "open"
    /\ <<w, q>> \in inventory.runsAs /\ findings.roles[q] = "open"

Confirmed(k) == Joined(k[1], k[2], k[3]) /\ k[1] \in inventory.uses

\* A join without an observed model makes the evaluation incomplete.
Incomplete == \E k \in Key : Joined(k[1], k[2], k[3]) /\ k[1] \notin inventory.uses

FindingsOpen(k) == findings.roles[k[2]] = "open" /\ findings.calls[k[3]] = "open"

\* Mutant of Evaluated: an issue that was resolved stays so.
EvaluatedOnce ==
    [k \in Key |->
        IF issues[k] = "resolved" THEN "resolved"
        ELSE IF Confirmed(k) THEN "open"
        ELSE IF issues[k] = "absent" THEN "absent"
        ELSE IF FindingsOpen(k) /\ Incomplete THEN "unknown" ELSE "resolved"]

\* The rule is evaluated in one transaction, under the tenant's evidence lock.
Evaluated ==
    [k \in Key |->
        IF Confirmed(k) THEN "open"
        ELSE IF issues[k] \in {"absent", "resolved"} THEN issues[k]
        ELSE IF FindingsOpen(k) /\ Incomplete THEN "unknown" ELSE "resolved"]

\* Only then is the job completed; a container lost in between starts or fails a job whose
\* evaluation stands.
EvaluateAws ==
    /\ aws.pc = "evaluating"
    /\ issues' = Evaluated
    /\ aws' = [aws EXCEPT !.pc = "idle"]
    /\ UNCHANGED <<world, evidence, github>>

\* A step raises, or the container is lost: the collection starts over or the job fails.
AwsRaises ==
    /\ aws.pc # "idle"
    /\ aws' = NoBatch \/ aws' = [NoBatch EXCEPT !.pc = "idle"]
    /\ UNCHANGED <<world, evidence, issues, github>>

-----------------------------------------------------------------------------
\* An administrator asks for a collection of the source.
QueueGithub ==
    /\ github.pc = "idle"
    /\ github' = NewJob
    /\ UNCHANGED <<world, evidence, issues, aws>>

\* The transient snapshot is gone.
Analyzed(job) == [job EXCEPT !.calls = {}, !.match = NoCorrelation, !.targets = {},
                             !.full = {}]

\* A slice is claimed and reads the workloads to match; a repository that is done is not
\* read again.
ClaimGithub ==
    /\ github.pc = "queued"
    /\ github' = IF github.done THEN [github EXCEPT !.pc = "evaluating"]
                 ELSE [github EXCEPT !.pc = "targets", !.targets = inventory.workloads]
    /\ UNCHANGED <<world, evidence, issues, aws>>

\* The commit is pinned, once for the job, and its content is analyzed: in full, or with
\* files or forms that cannot be read.
Analyze ==
    /\ github.pc = "targets"
    /\ LET pin == IF github.pin = None THEN source ELSE github.pin
           edges == {w \in github.targets : pin.reach[w] # {}} IN
       \E calls \in SUBSET pin.calls, matched \in SUBSET edges,
          reach \in [Workload -> SUBSET Path], full \in SUBSET {"calls", "edges"} :
          /\ "calls" \in full => calls = pin.calls
          /\ "edges" \in full => matched = edges
          /\ \A w \in Workload :
                /\ reach[w] \subseteq IF w \in matched THEN pin.reach[w] ELSE {}
                /\ "edges" \in full /\ w \in matched => reach[w] = pin.reach[w]
          /\ github' = [github EXCEPT !.pc = "posture", !.pin = pin, !.calls = calls,
                !.match = [edges |-> matched, reach |-> reach], !.full = full,
                !.newest = /\ pin = source /\ full = {"calls", "edges"}
                           /\ github.targets = inventory.workloads]
    /\ UNCHANGED <<world, evidence, issues, aws>>

\* A repository that cannot be read leaves a coverage of its source plane only.
Unreadable ==
    /\ github.pc = "targets"
    /\ github' = [Analyzed(github) EXCEPT !.pc = "recording", !.newest = FALSE]
    /\ UNCHANGED <<world, evidence, issues, aws>>

IngestCallPosture ==
    /\ github.pc = "posture"
    /\ findings' = [findings EXCEPT !.calls = Upsert(@, github.calls, "calls" \in github.full)]
    /\ Reported({"calls"}, github.full)
    /\ github' = [github EXCEPT !.pc = "correlation"]
    /\ UNCHANGED <<world, inventory, deployedBy, issues, aws>>

\* Mutant of IngestCorrelation: the paths of an edge outlive its withdrawal.
IngestCorrelationKeepingPaths ==
    /\ github.pc = "correlation"
    /\ LET match == github.match IN
       deployedBy' = [edges |-> match.edges \cup
                               (IF "edges" \in github.full THEN {} ELSE deployedBy.edges),
                      reach |-> [w \in Workload |->
                          IF w \in match.edges THEN match.reach[w] ELSE deployedBy.reach[w]]]
    /\ Reported({"edges"}, github.full)
    /\ github' = [Analyzed(github) EXCEPT !.pc = "recording"]
    /\ UNCHANGED <<world, inventory, findings, issues, aws>>

\* An edge that is matched again takes the attributes of the match; the others are
\* withdrawn when the correlation was complete.
IngestCorrelation ==
    /\ github.pc = "correlation"
    /\ LET match == github.match
           kept == IF "edges" \in github.full THEN {} ELSE deployedBy.edges IN
       deployedBy' = [edges |-> match.edges \cup kept,
                      reach |-> [w \in Workload |->
                          IF w \in match.edges THEN match.reach[w]
                          ELSE IF w \in kept THEN deployedBy.reach[w] ELSE {}]]
    /\ Reported({"edges"}, github.full)
    /\ github' = [Analyzed(github) EXCEPT !.pc = "recording"]
    /\ UNCHANGED <<world, inventory, findings, issues, aws>>

Record ==
    /\ github.pc = "recording"
    /\ github' = [github EXCEPT !.pc = "evaluating", !.done = TRUE, !.pin = None]
    /\ UNCHANGED <<world, evidence, issues, aws>>

EvaluateGithub ==
    /\ github.pc = "evaluating"
    /\ issues' = Evaluated
    /\ github' = [github EXCEPT !.pc = "idle"]
    /\ UNCHANGED <<world, evidence, aws>>

\* A slice is interrupted, raises or is lost: the job is resumed at its pin, or fails.
GithubRaises ==
    /\ github.pc \notin {"idle", "queued"}
    /\ \/ github' = [Analyzed(github) EXCEPT !.pc = "queued",
                                           !.newest = @ /\ github.done]
       \/ github' = [NewJob EXCEPT !.pc = "idle"]
    /\ UNCHANGED <<world, evidence, issues, aws>>

-----------------------------------------------------------------------------
\* The owner of the account or of the repository changes it.
EditCloud ==
    /\ edits < MaxEdits
    /\ cloud' \in Cloud \ {cloud}
    /\ \A w \in cloud'.model : cloud'.role[w] # None
    /\ edits' = edits + 1
    /\ aws' = [aws EXCEPT !.true = FALSE]
    /\ UNCHANGED <<source, evidence, issues, github>>

EditSource ==
    /\ edits < MaxEdits
    /\ source' \in Source \ {source}
    /\ edits' = edits + 1
    /\ github' = [github EXCEPT !.newest = FALSE]
    /\ UNCHANGED <<cloud, evidence, issues, aws>>

AwsStep ==
    \/ StartAws \/ ReadAws \/ IngestInventory \/ IngestRolePosture \/ QueueSource
    \/ EvaluateAws \/ AwsRaises

GithubStep ==
    \/ QueueGithub \/ ClaimGithub \/ Analyze \/ Unreadable \/ IngestCallPosture
    \/ IngestCorrelation \/ Record \/ EvaluateGithub \/ GithubRaises

Next == AwsStep \/ GithubStep \/ EditCloud \/ EditSource

Spec == Init /\ [][Next]_vars

-----------------------------------------------------------------------------
\* The gap itself: a deployed call without a guardrail, by a workload that names a model,
\* under a role that permits more.
Gap(k) ==
    /\ k[1] \in cloud.model /\ cloud.role[k[1]] = k[2] /\ k[2] \in cloud.broad
    /\ k[3] \in source.calls \cap source.reach[k[1]]

\* When the last collection of each connection succeeded, each having read all of what is
\* there now and the sources having been matched with the workloads that are stored, the
\* open issues are exactly the gaps: nothing that crashed, was retried, read in part or
\* evaluated in between has left a trace.
IssuesAreGaps ==
    aws.pc = "idle" /\ aws.true /\ github.pc = "idle" /\ github.newest =>
        \A k \in Key : (issues[k] = "open") <=> Gap(k)

\* The store implements the ledger: a row is given up only by a batch that reports
\* the plane of the row as covered completely.
Rows == ({"workload", "uses", "edge"} \X Workload) \cup ({"role"} \X Role)
        \cup ({"call"} \X Path) \cup ({"runs_as"} \X (Workload \X Role))

RowPlane(row) == CASE row[1] \in {"workload", "uses"} -> row[2]
                   [] row[1] = "runs_as" -> row[2][1]
                   [] row[1] = "role" -> "roles"
                   [] row[1] = "call" -> "calls"
                   [] row[1] = "edge" -> "edges"

Open(rows) == {x \in DOMAIN rows : rows[x] = "open"}

Held == ({"workload"} \X inventory.workloads) \cup ({"uses"} \X inventory.uses)
        \cup ({"runs_as"} \X inventory.runsAs) \cup ({"edge"} \X deployedBy.edges)
        \cup ({"role"} \X Open(findings.roles)) \cup ({"call"} \X Open(findings.calls))

Ledger == INSTANCE EvidenceLedger WITH Item <- Rows, planeOf <- RowPlane, held <- Held

LedgerSpec == Ledger!Spec

\* "Failed or partial absence does not withdraw earlier assets or close evidence": a role's
\* finding is resolved only by a run that read the role, or read every service.
FailedReadClosesNothing ==
    [][\A q \in Role :
          findings.roles[q] = "open" /\ findings'.roles[q] = "resolved" =>
              \/ q \in Asked(aws.seen)
              \/ Workload \subseteq coverage]_vars

=============================================================================
