-------------------------- MODULE Collectors_proofs --------------------------
(***************************************************************************)
(* What the rule of coverage is worth: of a connector whose plan obeys it, *)
(* nothing that stays is withdrawn, and a complete result is exact, for    *)
(* every number of faults and of changes of the source.                    *)
(*                                                                         *)
(* CollectorsAssumption states the rule of each plan that is followed, a   *)
(* condition on its reads alone.  Neither property is inductive: both look *)
(* at a whole run at its end.  StaysInSight follows, read by read, what    *)
(* was there throughout; it is either known still, or has left a mark on   *)
(* the coverage.                                                           *)
(***************************************************************************)
EXTENDS Collectors, SequenceTheorems, TLAPS

\* The calls on a path whose turn has come showed the thing, and its last read recorded it.
InSight(p) ==
    /\ \A i \in OnPath(connector, p) :
          i < at /\ ReadsOf[connector][i].call \in FollowedUp[connector] =>
              ReadsOf[connector][i].call \in made
    /\ p.read < at => seen # {}

\* The planes of the path are incomplete, or some plane if none of this is promised.
LeftMark(p) ==
    /\ failed \cup partial # {}
    /\ <<connector, thing>> \in Excused \/ PlanesOfPath(p) \subseteq failed \cup partial

\* What was there throughout the run has not been lost without a mark.
StaysInSight == at # 0 => \A p \in steady : InSight(p) \/ LeftMark(p)

\* What never was there is not in the batch.
NeverGlimpsed == at # 0 /\ ~glimpsed => there = {} /\ seen = {}

\* The plan was chosen from those that are followed.
SubjectFollowed == <<connector, thing>> \in Followed

\* The inductive invariant.
IInv == TypeOK /\ SubjectFollowed /\ StaysInSight /\ NeverGlimpsed

-----------------------------------------------------------------------------
(***************************************************************************)
(* The reads of every plan are a sequence.                                 *)
(***************************************************************************)
IsSeq(s) == \E S : s \in Seq(S)

\* Short tuples, and what is concatenated of sequences, are sequences.
LEMMA Tuples ==
  /\ \A a : IsSeq(<<a>>)
  /\ \A a, b : IsSeq(<<a, b>>)
  /\ \A a, b, c : IsSeq(<<a, b, c>>)
  /\ \A a, b, c, d : IsSeq(<<a, b, c, d>>)
<1>1. ASSUME NEW a PROVE <<a>> \in Seq({a})
  OBVIOUS
<1>2. ASSUME NEW a, NEW b PROVE <<a, b>> \in Seq({a, b})
  OBVIOUS
<1>3. ASSUME NEW a, NEW b, NEW c PROVE <<a, b, c>> \in Seq({a, b, c})
  OBVIOUS
<1>4. ASSUME NEW a, NEW b, NEW c, NEW d PROVE <<a, b, c, d>> \in Seq({a, b, c, d})
  OBVIOUS
<1> QED
  BY <1>1, <1>2, <1>3, <1>4 DEF IsSeq

\* So is what is concatenated of sequences.
LEMMA Concatenations == \A s, t : IsSeq(s) /\ IsSeq(t) => IsSeq(s \o t)
<1> SUFFICES ASSUME NEW s, NEW t, NEW S, s \in Seq(S), NEW T, t \in Seq(T)
             PROVE  s \o t \in Seq(S \cup T)
  BY DEF IsSeq
<1>1. s \in Seq(S \cup T) /\ t \in Seq(S \cup T)
  <2>1. Seq(S) \subseteq Seq(S \cup T) /\ Seq(T) \subseteq Seq(S \cup T)
    OBVIOUS
  <2> QED
    BY <2>1
<1> QED
  BY <1>1, ConcatProperties

\* And what is made of each member of one.
LEMMA Snapshots == \A reads : IsSeq(reads) => IsSeq(OnSnapshot(reads))
<1> SUFFICES ASSUME NEW reads, NEW S, reads \in Seq(S)
             PROVE  \E T : OnSnapshot(reads) \in Seq(T)
  BY DEF IsSeq
<1> DEFINE new == OnSnapshot(reads)
           T == {new[i] : i \in DOMAIN new}
<1>1. DOMAIN reads = 1 .. Len(reads) /\ Len(reads) \in Nat
  BY LenProperties
<1>2. DOMAIN new = 1 .. Len(reads) /\ new = [i \in DOMAIN new |-> new[i]]
  BY <1>1 DEF OnSnapshot
<1>3. new \in [1 .. Len(reads) -> T]
  BY <1>2
<1> HIDE DEF new, T
<1>4. new \in Seq(T)
  BY <1>1, <1>3, SeqDef
<1> QED
  BY <1>4 DEF new

\* The reads of a plan are a sequence if those it is written with are.
LEMMA PlanReads ==
  /\ \A reads, once, absence : IsSeq(reads) => IsSeq(Plan(reads, once, absence).reads)
  /\ \A prep, reads, once, absence :
        IsSeq(prep) /\ IsSeq(reads) => IsSeq(Through(prep, Plan(reads, once, absence)).reads)
BY Concatenations DEF Plan, Through

\* The reads of each connector are a sequence.
LEMMA PlansAreSequences == \A c \in Connectors : IsSeq(ReadsOf[c])
<1> USE Tuples, Concatenations
<1>1. /\ IsSeq(AwsSession) /\ IsSeq(ConnectionRegions) /\ IsSeq(GcpClient) /\ IsSeq(AzureClient)
      /\ IsSeq(EntraGraph)
  BY DEF AwsSession, ConnectionRegions, GcpClient, AzureClient, EntraGraph, Before
<1>2. \A reads, once, absence :
         IsSeq(reads) => IsSeq(OfConnection(Plan(reads, once, absence)).reads)
  <2>1. IsSeq(AwsSession \o ConnectionRegions)
    BY <1>1
  <2> QED
    BY <2>1, PlanReads DEF OfConnection
<1>3. IsSeq(AgentCore.reads)
  <2>1. /\ IsSeq(CollectWorkloadIdentities) /\ IsSeq(CollectRuntimes) /\ IsSeq(CollectGateways)
        /\ IsSeq(CollectMemories)
    BY DEF CollectWorkloadIdentities, CollectRuntimes, CollectRuntimeEndpoints, CollectGateways,
           CollectGatewayTargets, CollectMemories
  <2> QED
    BY <1>2, <2>1 DEF AgentCore
<1>4. IsSeq(Bedrock.reads) /\ IsSeq(BedrockLogging.reads) /\ IsSeq(BedrockActivity.reads)
  <2>1. /\ IsSeq(CollectGuardrails) /\ IsSeq(CollectAgents) /\ IsSeq(AgentRelationships)
        /\ IsSeq(LookupEvents)
    BY DEF CollectGuardrails, CollectAgents, AgentRelationships, LookupEvents
  <2> QED
    BY <1>2, <2>1 DEF Bedrock, BedrockLogging, BedrockActivity
<1>5. IsSeq(Compute.reads) /\ IsSeq(SelectedLambda.reads)
  <2>1. IsSeq(CollectLambda) /\ IsSeq(CollectEcs) /\ IsSeq(CollectEks) /\ IsSeq(CollectSagemaker)
    BY DEF CollectLambda, CollectEcs, CollectEks, CollectSagemaker
  <2>2. IsSeq(Compute.reads)
    BY <1>2, <2>1 DEF Compute
  <2> QED
    BY <1>1, <2>2, PlanReads DEF SelectedLambda
<1>6. IsSeq(Stack.reads) /\ IsSeq(StackPosture.reads)
  <2>1. /\ IsSeq(StackResources) /\ IsSeq(StackTemplateResources) /\ IsSeq(StackLambda)
        /\ IsSeq(StackEcsTask)
    BY DEF StackResources, StackTemplateResources, StackLambda, StackEcsTask
  <2>2. /\ IsSeq(LambdaTargets) /\ IsSeq(EcsTargets) /\ IsSeq(OverbroadBedrockPermissions)
        /\ IsSeq(LogRetention) /\ IsSeq(InvocationLogging)
    BY DEF LambdaTargets, EcsTargets, OverbroadBedrockPermissions, LogRetention, InvocationLogging
  <2> QED
    BY <2>1, <2>2, PlanReads DEF Stack, StackPosture
<1>7. IsSeq(GcpDeployments.reads) /\ IsSeq(GcpAiInventory.reads) /\ IsSeq(VertexActivity.reads)
  <2>1. /\ \A type, opens, blames : IsSeq(GcpListAssets(type, opens, blames))
        /\ \A type, rows : IsSeq(GcpParseAsset(type, rows))
    BY DEF GcpListAssets, GcpParseAsset
  <2>2. \A type : IsSeq(GcpAiAssets(type))
    BY <2>1 DEF GcpAiAssets
  <2>3. IsSeq(GcpAiAssets("endpoint") \o GcpAiAssets("agent"))
    BY <2>2
  <2>4. IsSeq(GcpDeployments.reads)
    BY <1>1, <2>1, PlanReads DEF GcpDeployments
  <2> QED
    BY <1>1, <2>3, <2>4, PlanReads DEF GcpAiInventory, VertexActivity
<1>8. /\ IsSeq(AzureDeployments.reads) /\ IsSeq(AzureAiInventory.reads)
      /\ IsSeq(AzureAiActivity.reads)
  <2>1. /\ \A type, planes : IsSeq(AzureListResources(type, planes))
        /\ \A type, rows : IsSeq(AzureParseResource(type, rows))
        /\ IsSeq(AzureListActivity)
    BY DEF AzureListResources, AzureParseResource, AzureListActivity
  <2>2. IsSeq(AzureDeployments.reads)
    BY <1>1, <2>1, PlanReads DEF AzureDeployments
  <2> QED
    BY <1>1, <2>1, <2>2, PlanReads DEF AzureAiInventory, AzureAiActivity
<1>9. IsSeq(Kubernetes.reads) /\ IsSeq(Mcp.reads)
  <2>1. /\ IsSeq(KubernetesItems) /\ \A rows : IsSeq(KubernetesParseWorkload(rows))
        /\ IsSeq(McpInitialize) /\ IsSeq(McpCollectTools)
    BY DEF KubernetesItems, KubernetesParseWorkload, McpInitialize, McpCollectTools
  <2> QED
    BY <2>1, PlanReads DEF Kubernetes, Mcp
<1>10. IsSeq(EntraInventory.reads) /\ IsSeq(EntraActivity.reads)
  <2>1. /\ IsSeq(EntraApplications) /\ IsSeq(EntraSignIns) /\ IsSeq(EntraDirectoryAudits)
        /\ \A record, listing : IsSeq(EntraNormalise(record, listing))
    BY DEF EntraApplications, EntraSignIns, EntraDirectoryAudits, EntraNormalise
  <2> QED
    BY <1>1, <2>1, PlanReads DEF EntraInventory, EntraActivity
<1>11. IsSeq(WorkspaceInventory.reads) /\ IsSeq(WorkspaceActivity.reads)
  <2>1. \A gemini, oauth : IsSeq(WorkspaceReports(gemini, oauth))
    BY DEF WorkspaceReports, Before
  <2> QED
    BY <2>1, PlanReads DEF WorkspaceInventory, WorkspaceActivity
<1>12. IsSeq(SourceTree) /\ IsSeq(SourceFiles) /\ IsSeq(DiscoverModels) /\ IsSeq(SourcePosture)
  BY DEF SourceTree, SourceFiles, DiscoverModels, SourcePosture, CommandSites, GuardrailFinding
<1>13. IsSeq(Repository.reads) /\ IsSeq(RepositoryPosture.reads)
  <2>1. /\ IsSeq(DiscoverFrameworks) /\ IsSeq(DiscoverMcpPython) /\ IsSeq(DiscoverCapabilities)
        /\ IsSeq(McpConfigFiles) /\ IsSeq(DiscoverMcpConfig) /\ IsSeq(DependencyDeclarations)
        /\ IsSeq(DiscoverDependencies)
    BY DEF DiscoverFrameworks, DiscoverMcpPython, DiscoverCapabilities, McpConfigFiles,
           DiscoverMcpConfig, DependencyDeclarations, DiscoverDependencies
  <2>2. IsSeq(SourceInventory)
    BY <1>12, <2>1 DEF SourceInventory
  <2> QED
    BY <1>12, <2>2, PlanReads DEF Repository, RepositoryPosture
<1>14. IsSeq(AzureRepos.reads)
  <2>1. IsSeq(AzureRepositories) /\ IsSeq(AzureSnapshot)
    BY DEF AzureRepositories, AzureSnapshot, AzureTree
  <2>2. IsSeq(AnalyzeSnapshot)
    BY <1>12, Snapshots DEF AnalyzeSnapshot
  <2> QED
    BY <2>1, <2>2, PlanReads DEF AzureRepos
<1>15. /\ \A document, plane, things : IsSeq(Document(document, plane, things))
       /\ \A record, document, plane, things : IsSeq(Records(record, document, plane, things))
       /\ IsSeq(OcsfIdentity)
  BY DEF Document, Records, OcsfIdentity
<1>16. /\ IsSeq(SyftReport.reads) /\ IsSeq(GrypeReport.reads) /\ IsSeq(OcsfReport.reads)
       /\ \A record : IsSeq(ActivityExport(record).reads)
  <2>1. IsSeq(GrypeMatch) /\ IsSeq(OcsfRecord)
    BY <1>15 DEF GrypeMatch, OcsfRecord
  <2> QED
    BY <1>15, <2>1, PlanReads DEF SyftReport, GrypeReport, OcsfReport, ActivityExport
<1> QED
  <2>1. \A c \in Connectors : IsSeq(PlanOf[c].reads)
    BY <1>3, <1>4, <1>5, <1>6, <1>7, <1>8, <1>9, <1>10, <1>11, <1>13, <1>14, <1>16
       DEF Connectors, PlanOf
  <2> QED
    BY <2>1 DEF ReadsOf

-----------------------------------------------------------------------------
(***************************************************************************)
(* Types.                                                                  *)
(***************************************************************************)
\* A path of a plan ends at one of its reads.
LEMMA ReadsAreNumbered ==
  ASSUME NEW c \in Connectors
  PROVE  /\ Len(ReadsOf[c]) \in Nat /\ DOMAIN ReadsOf[c] = 1 .. Len(ReadsOf[c])
         /\ \A t \in ThingsOf[c] : \A p \in Paths[c][t] :
               p.read \in 1 .. Len(ReadsOf[c]) /\ PlanesOfThing[c][p.read][t] # {}
<1>1. PICK S : ReadsOf[c] \in Seq(S)
  BY PlansAreSequences DEF IsSeq
<1>2. Len(ReadsOf[c]) \in Nat /\ DOMAIN ReadsOf[c] = 1 .. Len(ReadsOf[c])
  BY <1>1, LenProperties
<1>3. ASSUME NEW t \in ThingsOf[c], NEW p \in Paths[c][t]
      PROVE  p.read \in 1 .. Len(ReadsOf[c]) /\ PlanesOfThing[c][p.read][t] # {}
  <2>1. PICK i \in {k \in DOMAIN ReadsOf[c] : PlanesOfThing[c][k][t] # {}} :
              \E q \in CallsTo[c][i] : p = [calls |-> q, read |-> i]
    BY DEF Paths
  <2> QED
    BY <1>2, <2>1
<1> QED
  BY <1>2, <1>3

\* What a read can do to the coverage, and where it records a thing, are planes of the plan.
LEMMA PlanesOfReads ==
  ASSUME NEW c \in Connectors, NEW i \in DOMAIN ReadsOf[c]
  PROVE  /\ ReadsOf[c][i].opens \cup ReadsOf[c][i].blames \cup ReadsOf[c][i].spoils
                \cup ReadsOf[c][i].notes \subseteq PlanesOf[c]
         /\ \A t \in ThingsOf[c] : PlanesOfThing[c][i][t] \subseteq PlanesOf[c]
         /\ ReadsOf[c][i].per \cup ReadsOf[c][i].with \subseteq FollowedUp[c]
<1> DEFINE planes(j) == LET r == ReadsOf[c][j]
                        IN  r.opens \cup r.blames \cup r.spoils \cup r.notes
                                \cup {row[2] : row \in r.rows}
           follow(j) == ReadsOf[c][j].per \cup ReadsOf[c][j].with
<1>1. PlanesOf[c] = UNION {planes(j) : j \in DOMAIN ReadsOf[c]}
  BY DEF PlanesOf
<1>2. FollowedUp[c] = UNION {follow(j) : j \in DOMAIN ReadsOf[c]}
  BY DEF FollowedUp
<1>3. planes(i) \subseteq PlanesOf[c] /\ follow(i) \subseteq FollowedUp[c]
  <2> HIDE DEF planes, follow
  <2> QED
    BY <1>1, <1>2
<1>4. ASSUME NEW t \in ThingsOf[c] PROVE PlanesOfThing[c][i][t] \subseteq planes(i)
  BY DEF PlanesOfThing
<1> QED
  BY <1>3, <1>4

\* What is taken is of the plan.
LEMMA TakeTypes ==
  ASSUME TypeOK, Reading, Take
  PROVE  /\ made' \in SUBSET {ReadsOf[connector][i].call : i \in DOMAIN ReadsOf[connector]}
         /\ seen' \subseteq PlanesOf[connector]
         /\ made \subseteq made' /\ seen \subseteq seen'
<1>1. /\ connector \in Connectors /\ at \in DOMAIN ReadsOf[connector]
      /\ thing \in ThingsOf[connector] /\ seen \subseteq PlanesOf[connector]
  BY DEF TypeOK, Reading
<1>2. RecordedIn \subseteq PlanesOf[connector]
  BY <1>1, PlanesOfReads DEF RecordedIn
<1>3. /\ made \subseteq made' /\ seen' = seen \cup RecordedIn
      /\ made' \subseteq made \cup {ReadsOf[connector][at].call}
  BY DEF Take, Current
<1> QED
  BY <1>1, <1>2, <1>3 DEF TypeOK

\* The counter of the reads stays within the plan.
LEMMA NextReadTypes ==
  ASSUME TypeOK, Reading, NextRead
  PROVE  at' \in 0 .. Len(ReadsOf[connector]) + 1 /\ at' # 0
<1>1. at \in 1 .. Len(ReadsOf[connector]) /\ Len(ReadsOf[connector]) \in Nat
  BY ReadsAreNumbered DEF TypeOK, Reading
<1> QED
  BY <1>1 DEF NextRead

\* What a connector reports.
LEMMA Results ==
  ASSUME NEW c, NEW states
  PROVE  /\ ResultOf(c, states) \in {"complete", "partial", "failed"}
         /\ ResultOf(c, states) = "complete" => "failed" \notin states /\ "partial" \notin states
BY DEF ResultOf, EntraResult, WorkspaceResult, AzureReposResult, GcpResult

\* Every step keeps the types.
LEMMA TypeNext == TypeOK /\ [Next]_vars => TypeOK'
<1> SUFFICES ASSUME TypeOK, [Next]_vars
             PROVE  TypeOK'
  OBVIOUS
<1>0. connector \in Connectors /\ MaxFaults \in Nat /\ faults \in 0 .. MaxFaults
  BY CollectorsAssumption DEF TypeOK
<1>1. ASSUME Fault PROVE faults' \in 0 .. MaxFaults
  BY <1>0, <1>1 DEF Fault
<1>2. ASSUME Reading, NextRead, faults' \in 0 .. MaxFaults,
             Take \/ UNCHANGED <<made, seen>>,
             failed' \in SUBSET PlanesOf[connector], partial' \in SUBSET PlanesOf[connector]
      PROVE  TypeOK'
  <2>1. /\ made' \in SUBSET {ReadsOf[connector][i].call : i \in DOMAIN ReadsOf[connector]}
        /\ seen' \subseteq PlanesOf[connector]
    BY <1>2, TakeTypes DEF TypeOK
  <2>2. at' \in 0 .. Len(ReadsOf[connector]) + 1 /\ at' # 0
    BY <1>2, NextReadTypes
  <2> QED
    BY <1>2, <2>1, <2>2 DEF TypeOK, NextRead, subject, history
<1>3. ASSUME NEW outcome \in {"raised", "lost"}, Drop(outcome), Fault
      PROVE  TypeOK'
  <2>1. 0 \in 0 .. Len(ReadsOf[connector]) + 1
    BY <1>0, ReadsAreNumbered
  <2>2. at' = 0 /\ run' = <<{}, {}, {}, {}>> /\ history' = <<{}, FALSE>>
    BY <1>3 DEF Drop, run, history
  <2> QED
    BY <1>1, <1>3, <2>1, <2>2 DEF TypeOK, Drop, subject
<1>4. ASSUME Reading
      PROVE  Current.opens \cup Current.blames \cup Current.spoils \cup Current.notes
                \subseteq PlanesOf[connector]
  BY <1>0, <1>4, PlanesOfReads DEF Reading, Current
<1>5. CASE Begin
  <2>1. 1 \in 0 .. Len(ReadsOf[connector]) + 1
    BY <1>0, ReadsAreNumbered
  <2> QED
    BY <1>5, <2>1 DEF Begin, TypeOK, subject, run
<1>6. CASE Answer
  BY <1>2, <1>6 DEF Answer, TypeOK
<1>7. CASE Blemish
  <2>1. PICK planes \in {Current.notes, Current.spoils,
                         IF Current.per = {} THEN {} ELSE Current.blames} \ {{}} :
           partial' = partial \cup planes
    BY <1>7 DEF Blemish
  <2>2. planes \subseteq PlanesOf[connector]
    BY <1>4, <1>7 DEF Blemish
  <2>3. partial' \in SUBSET PlanesOf[connector] /\ failed' \in SUBSET PlanesOf[connector]
    BY <1>7, <2>1, <2>2 DEF Blemish, TypeOK
  <2> QED
    BY <1>1, <1>2, <1>7, <2>3 DEF Blemish
<1>8. CASE FailRead
  BY <1>1, <1>2, <1>4, <1>8 DEF FailRead, TypeOK
<1>9. CASE Refuse
  BY <1>1, <1>2, <1>4, <1>9 DEF Refuse, TypeOK
<1>10. CASE Raise \/ Lose
  BY <1>3, <1>10 DEF Raise, Lose
<1>11. CASE Ingest
  <2>1. 0 \in 0 .. Len(ReadsOf[connector]) + 1
    BY <1>0, ReadsAreNumbered
  <2>2. at' = 0 /\ run' = <<{}, {}, {}, {}>> /\ history' = <<{}, FALSE>>
    BY <1>11 DEF Ingest, run, history
  <2>3. result' \in {"complete", "partial", "failed"}
    BY <1>11, Results DEF Ingest
  <2> QED
    BY <1>11, <2>1, <2>2, <2>3 DEF TypeOK, Ingest, subject
<1>12. CASE Change
  <2>1. there' \in SUBSET Paths[connector][thing]
    BY <1>12 DEF Change, TypeOK
  <2>2. glimpsed' \in BOOLEAN /\ steady' \subseteq there'
    BY <1>12 DEF Change, TypeOK
  <2>3. at = 0 => run = <<{}, {}, {}, {}>> /\ steady' = {} /\ glimpsed' = FALSE
    BY <1>12 DEF Change, TypeOK, history
  <2>4. (at = 0 => run = <<{}, {}, {}, {}>> /\ history = <<{}, FALSE>>)'
    BY <1>12, <2>3 DEF Change, run, history
  <2> QED
    BY <1>12, <2>1, <2>2, <2>4 DEF Change, TypeOK, subject, run
<1>13. CASE UNCHANGED vars
  BY <1>13 DEF vars, TypeOK, run, history
<1> QED
  BY <1>5, <1>6, <1>7, <1>8, <1>9, <1>10, <1>11, <1>12, <1>13 DEF Next, Collect

-----------------------------------------------------------------------------
(***************************************************************************)
(* What is followed through a run.                                         *)
(***************************************************************************)
\* The plan that is carried out is laid out as assumed.
LEMMA PlanObeys ==
  ASSUME TypeOK, SubjectFollowed
  PROVE  /\ Traceable(connector, thing)
         /\ <<connector, thing>> \notin Excused => Governed(connector, thing)
<1>1. PICK c \in Connectors : \E t \in ThingsOf[c] :
         /\ <<connector, thing>> = <<c, t>>
         /\ Traceable(c, t)
         /\ <<connector, thing>> \in Excused \/ Governed(c, t)
  BY CollectorsAssumption DEF SubjectFollowed
<1>2. PICK t \in ThingsOf[c] :
         /\ <<connector, thing>> = <<c, t>>
         /\ Traceable(c, t)
         /\ <<connector, thing>> \in Excused \/ Governed(c, t)
  BY <1>1
<1> QED
  BY <1>2

\* The reads on a path that is there.
LEMMA PathReads ==
  ASSUME TypeOK, SubjectFollowed, NEW p \in steady
  PROVE  /\ p \in Paths[connector][thing] /\ p \in there /\ p.read \in OnPath(connector, p)
         /\ p.read \in Nat
         /\ \A i \in OnPath(connector, p) :
               /\ i \in DOMAIN ReadsOf[connector] /\ i \in Nat /\ i <= p.read
               /\ ReadsOf[connector][i].call \in p.calls
<1>1. connector \in Connectors /\ thing \in ThingsOf[connector]
  BY DEF TypeOK
<1>2. p \in Paths[connector][thing] /\ p \in there
  BY DEF TypeOK
<1>3. /\ Len(ReadsOf[connector]) \in Nat /\ p.read \in 1 .. Len(ReadsOf[connector])
      /\ DOMAIN ReadsOf[connector] = 1 .. Len(ReadsOf[connector])
  BY <1>1, <1>2, ReadsAreNumbered
<1>4. p.read \in OnPath(connector, p)
  BY <1>2, PlanObeys DEF Traceable
<1> QED
  BY <1>2, <1>3, <1>4 DEF OnPath

\* As long as a path is in sight, the answer of its next read shows the thing.
LEMMA InSightIsShown ==
  ASSUME TypeOK, SubjectFollowed, Reading, NEW p \in steady, InSight(p),
         at \in OnPath(connector, p)
  PROVE  Asked /\ Shown
<1>1. /\ p \in there /\ Current.call \in p.calls
      /\ at \in Nat /\ at \in DOMAIN ReadsOf[connector]
  BY PathReads DEF Current
<1>2. Asked
  <2>1. CASE Current.per = {}
    BY <2>1 DEF Asked
  <2>2. CASE \E j \in OnPath(connector, p) :
                j < at /\ ReadsOf[connector][j].call \in Current.per
    <3>1. PICK j \in OnPath(connector, p) :
                j < at /\ ReadsOf[connector][j].call \in Current.per
      BY <2>2
    <3>2. Current.per \subseteq FollowedUp[connector]
      BY <1>1, PlanesOfReads DEF TypeOK, Current
    <3>3. ReadsOf[connector][j].call \in made
      BY <3>1, <3>2 DEF InSight
    <3> QED
      BY <3>1, <3>3 DEF Asked
  <2> QED
    BY <2>1, <2>2, PathReads, PlanObeys DEF Traceable, Current
<1> QED
  BY <1>1, <1>2 DEF Shown

\* And if it is taken, the path stays in sight.
LEMMA TakenStaysInSight ==
  ASSUME TypeOK, SubjectFollowed, Reading, Take, NextRead, NEW p \in steady, InSight(p)
  PROVE  InSight(p)'
<1>0. at \in Nat /\ at' = at + 1 /\ UNCHANGED <<connector, thing>>
  BY ReadsAreNumbered DEF NextRead, subject, TypeOK, Reading
<1>1. made \subseteq made' /\ seen \subseteq seen'
  BY DEF Take
<1>2. ASSUME NEW i \in OnPath(connector, p), i < at',
             ReadsOf[connector][i].call \in FollowedUp[connector]
      PROVE  ReadsOf[connector][i].call \in made'
  <2>1. CASE i < at
    BY <1>1, <1>2, <2>1 DEF InSight
  <2>2. CASE i = at
    BY <1>2, <2>2, InSightIsShown DEF Take, Current
  <2> QED
    BY <1>0, <1>2, <2>1, <2>2, PathReads
<1>3. ASSUME p.read < at'
      PROVE  seen' # {}
  <2>1. CASE p.read < at
    BY <1>1, <2>1 DEF InSight
  <2>2. CASE p.read = at
    <3>1. at \in OnPath(connector, p) /\ at \in DOMAIN ReadsOf[connector] /\ p \in there
      BY <2>2, PathReads
    <3>2. Shown
      BY <3>1, InSightIsShown
    <3>3. Current.with \subseteq made
      <4> SUFFICES ASSUME NEW call \in Current.with
                   PROVE  call \in made
        OBVIOUS
      <4>1. PICK j \in OnPath(connector, p) \ {p.read} : call = ReadsOf[connector][j].call
        BY <2>2, PathReads, PlanObeys DEF Traceable, Current
      <4>2. j < at
        BY <2>2, <4>1, PathReads
      <4>3. call \in FollowedUp[connector]
        BY <3>1, PlanesOfReads DEF TypeOK, Current
      <4> QED
        BY <4>1, <4>2, <4>3 DEF InSight
    <3>4. Recorded
      BY <2>2, <3>1, <3>2, <3>3 DEF Recorded
    <3>5. PlanesOfThing[connector][at][thing] # {}
      BY <2>2, PathReads, ReadsAreNumbered DEF TypeOK
    <3> QED
      BY <3>4, <3>5 DEF Take, RecordedIn
  <2> QED
    BY <1>0, <1>3, <2>1, <2>2, PathReads
<1> QED
  BY <1>0, <1>2, <1>3 DEF InSight, OnPath

\* A read that goes wrong on a path leaves a mark, and one that is not on it changes nothing.
LEMMA FailureLeavesMark ==
  ASSUME TypeOK, SubjectFollowed, NEW p \in steady, InSight(p),
         FailRead \/ Refuse
  PROVE  InSight(p)' \/ LeftMark(p)'
<1>0. /\ at \in Nat /\ at' = at + 1 /\ UNCHANGED <<connector, thing, made, seen>>
      /\ Reading /\ ~Current.fatal
  BY ReadsAreNumbered DEF FailRead, Refuse, NextRead, subject, TypeOK, Reading
<1>1. CASE at \in OnPath(connector, p)
  <2>1. /\ p \in Paths[connector][thing]
        /\ <<connector, thing>> \notin Excused =>
              /\ Current.asks => PlanesOfPath(p) \subseteq Current.opens \cup Current.blames
              /\ Current.spoils # {} => PlanesOfPath(p) \subseteq Current.spoils
    BY <1>0, <1>1, PathReads, PlanObeys DEF Governed, Current, PlanesOfPath
  <2>2. Current.asks => Current.opens \cup Current.blames # {}
    BY <1>0, <1>1, <2>1, PlanObeys DEF Traceable, Current
  <2>3. PlanesOfPath(p)' = PlanesOfPath(p)
    BY <1>0 DEF PlanesOfPath
  <2>4. CASE FailRead
    <3>1. /\ Current.asks /\ failed' = failed \cup Current.opens
          /\ partial' = partial \cup Current.blames
      BY <2>4 DEF FailRead
    <3> QED
      BY <1>0, <2>1, <2>2, <2>3, <3>1 DEF LeftMark
  <2>5. CASE Refuse
    <3>1. Current.spoils # {} /\ partial' = partial \cup Current.spoils
      BY <2>5 DEF Refuse
    <3> QED
      BY <1>0, <2>1, <2>3, <3>1 DEF LeftMark
  <2> QED
    BY <2>4, <2>5
<1>2. CASE at \notin OnPath(connector, p)
  <2>1. p.read # at /\ p.read \in Nat
    BY <1>2, PathReads
  <2>2. OnPath(connector, p)' = OnPath(connector, p)
    BY <1>0 DEF OnPath
  <2>3. \A i \in OnPath(connector, p) : i < at' => i < at
    BY <1>0, <1>2, PathReads
  <2>4. p.read < at' => p.read < at
    BY <1>0, <2>1
  <2> QED
    BY <1>0, <2>2, <2>3, <2>4 DEF InSight
<1> QED
  BY <1>1, <1>2

\* A mark stays until the run ends.
LEMMA MarkStays ==
  ASSUME NEW p, LeftMark(p), failed \subseteq failed', partial \subseteq partial',
         UNCHANGED <<connector, thing>>
  PROVE  LeftMark(p)'
BY DEF LeftMark, PlanesOfPath

\* Every step keeps what was there throughout in sight, or leaves a mark.
LEMMA SightStep ==
  ASSUME TypeOK, SubjectFollowed, StaysInSight, [Next]_vars
  PROVE  StaysInSight'
<1>1. CASE Begin
  <2>1. at' = 1 /\ steady' = there /\ UNCHANGED <<connector, thing>>
    BY <1>1 DEF Begin, subject
  <2>2. ASSUME NEW p \in there
        PROVE  InSight(p)'
    <3>1. \A i \in 1 .. p.read : ~(i < 1)
      OBVIOUS
    <3>2. p.read \in Nat \ {0}
      BY ReadsAreNumbered DEF TypeOK
    <3> QED
      BY <2>1, <3>1, <3>2 DEF InSight, OnPath
  <2> QED
    BY <2>1, <2>2 DEF StaysInSight
<1>2. ASSUME Reading, NextRead, NEW p \in steady, Take,
             failed \subseteq failed', partial \subseteq partial'
      PROVE  InSight(p)' \/ LeftMark(p)'
  <2>1. at # 0 /\ UNCHANGED <<connector, thing>>
    BY <1>2, ReadsAreNumbered DEF Reading, TypeOK, NextRead, subject
  <2> QED
    BY <1>2, <2>1, TakenStaysInSight, MarkStays DEF StaysInSight
<1>3. CASE Answer \/ Blemish
  <2>1. /\ Reading /\ NextRead /\ Take /\ failed \subseteq failed' /\ partial \subseteq partial'
        /\ steady' = steady
    BY <1>3 DEF Answer, Blemish, NextRead, history
  <2> QED
    BY <1>2, <2>1 DEF StaysInSight
<1>4. CASE FailRead \/ Refuse
  <2>1. /\ Reading /\ failed \subseteq failed' /\ partial \subseteq partial'
        /\ UNCHANGED <<connector, thing, steady>>
    BY <1>4 DEF FailRead, Refuse, NextRead, subject, history
  <2>2. at # 0
    BY <2>1, ReadsAreNumbered DEF Reading, TypeOK
  <2> QED
    BY <1>4, <2>1, <2>2, FailureLeavesMark, MarkStays DEF StaysInSight
<1>5. CASE Ingest \/ Raise \/ Lose
  BY <1>5 DEF Ingest, Raise, Lose, Drop, StaysInSight
<1>6. CASE Change \/ UNCHANGED vars
  <2>1. /\ UNCHANGED <<connector, thing, at, made, seen, failed, partial>>
        /\ steady' \subseteq steady
    BY <1>6 DEF Change, vars, subject, run
  <2>2. ASSUME NEW p \in steady', InSight(p) PROVE InSight(p)'
    BY <2>1, <2>2 DEF InSight, OnPath
  <2> QED
    BY <2>1, <2>2, MarkStays DEF StaysInSight
<1> QED
  BY <1>1, <1>3, <1>4, <1>5, <1>6 DEF Next, Collect

\* Every step that leaves the thing away leaves it out of the batch.
LEMMA GlimpseStep ==
  ASSUME TypeOK, NeverGlimpsed, [Next]_vars
  PROVE  NeverGlimpsed'
<1>1. CASE Begin
  BY <1>1 DEF Begin, NeverGlimpsed, TypeOK, run
<1>2. CASE Answer \/ Blemish \/ FailRead \/ Refuse
  <2>1. /\ UNCHANGED <<there, glimpsed>> /\ Reading
        /\ Take \/ UNCHANGED seen
    BY <1>2 DEF Answer, Blemish, FailRead, Refuse, NextRead, history
  <2>2. at # 0
    BY <2>1, ReadsAreNumbered DEF Reading, TypeOK
  <2>3. there = {} /\ Take => UNCHANGED seen
    BY DEF Take, RecordedIn, Recorded
  <2> QED
    BY <2>1, <2>2, <2>3 DEF NeverGlimpsed
<1>3. CASE Ingest \/ Raise \/ Lose
  BY <1>3 DEF Ingest, Raise, Lose, Drop, NeverGlimpsed
<1>4. CASE Change
  <2>1. glimpsed' = (at # 0 /\ (glimpsed \/ there' # {})) /\ UNCHANGED <<at, seen>>
    BY <1>4 DEF Change, run
  <2>2. at # 0 /\ ~glimpsed' => ~glimpsed /\ there' = {}
    BY <2>1 DEF TypeOK
  <2> QED
    BY <2>1, <2>2 DEF NeverGlimpsed
<1>5. CASE UNCHANGED vars
  BY <1>5 DEF vars, NeverGlimpsed, run, history
<1> QED
  BY <1>1, <1>2, <1>3, <1>4, <1>5 DEF Next, Collect

\* Every step keeps the invariant.
LEMMA Inductive == IInv /\ [Next]_vars => IInv'
<1> SUFFICES ASSUME IInv, [Next]_vars
             PROVE  IInv'
  OBVIOUS
<1>1. UNCHANGED <<connector, thing>>
  BY DEF Next, Collect, Change, Begin, Answer, Blemish, FailRead, Refuse, Raise, Lose, Drop, Ingest,
         NextRead, subject, vars
<1>2. SubjectFollowed'
  BY <1>1 DEF IInv, SubjectFollowed
<1> QED
  BY <1>2, TypeNext, SightStep, GlimpseStep DEF IInv

\* At the start nothing was collected.
LEMMA Initial == Init => IInv
<1> SUFFICES ASSUME Init
             PROVE  IInv
  OBVIOUS
<1>1. PICK pair \in Followed : connector = pair[1] /\ thing = pair[2]
  BY DEF Init
<1>2. PICK c \in Connectors : \E t \in ThingsOf[c] :
         /\ pair = <<c, t>>
         /\ Traceable(c, t)
         /\ pair \in Excused \/ Governed(c, t)
  BY CollectorsAssumption
<1>3. connector \in Connectors /\ thing \in ThingsOf[connector] /\ SubjectFollowed
  BY <1>1, <1>2 DEF SubjectFollowed
<1>4. 0 \in 0 .. Len(ReadsOf[connector]) + 1 /\ 0 \in 0 .. MaxFaults
  BY <1>3, ReadsAreNumbered, CollectorsAssumption
<1>5. TypeOK
  BY <1>3, <1>4 DEF Init, TypeOK, run, history
<1> QED
  BY <1>3, <1>5 DEF Init, IInv, StaysInSight, NeverGlimpsed

-----------------------------------------------------------------------------
\* The inductive invariant of a collection holds in every reachable state.
THEOREM Invariance == Spec => []IInv
BY Initial, Inductive, PTL DEF Spec

\* The run, its batch and the store keep to the planes of the plan, of any of the connectors.
THEOREM TypeCorrect == Spec => []TypeOK
<1>1. IInv => TypeOK
  BY DEF IInv
<1> QED
  BY <1>1, Invariance, PTL

\* At the end of a run, a path that was there throughout has its thing in the batch, or has
\* left its mark.
LEMMA AtTheEnd ==
  ASSUME IInv, Finished, NEW p \in steady
  PROVE  seen # {} \/ LeftMark(p)
<1>1. /\ connector \in Connectors /\ thing \in ThingsOf[connector]
      /\ p \in Paths[connector][thing]
  BY DEF IInv, TypeOK
<1>2. p.read < at /\ at # 0
  BY <1>1, ReadsAreNumbered DEF Finished
<1> QED
  BY <1>2 DEF IInv, StaysInSight, InSight

\* No collection withdraws what was there throughout it, whatever fails and changes in
\* between, of any connector that obeys the rule (ingest, and the coverage of a batch).
THEOREM NothingThereIsWithdrawn == Spec => KeptWhileThere
<1>1. ASSUME IInv, [Next]_vars, NEW p \in steady, PlanesOfPath(p) \cap held # {},
             <<connector, thing>> \notin Excused
      PROVE  held' # {}
  <2>1. CASE Ingest
    <3>1. Finished /\ held' = (held \cup seen) \ Withdrawn
      BY <2>1 DEF Ingest
    <3>2. CASE seen # {}
      BY <3>1, <3>2 DEF Withdrawn, Missing
    <3>3. CASE LeftMark(p)
      <4>1. PICK plane \in PlanesOfPath(p) \cap held : TRUE
        BY <1>1
      <4>2. Coverage(plane) # "complete"
        BY <1>1, <3>3, <4>1 DEF LeftMark, Coverage
      <4> QED
        BY <3>1, <4>1, <4>2 DEF Withdrawn, Missing
    <3> QED
      BY <1>1, <3>1, <3>2, <3>3, AtTheEnd
  <2>2. CASE ~Ingest
    <3>1. held' = held
      BY <1>1, <2>2 DEF Next, Collect, Change, Begin, Answer, Blemish, FailRead, Refuse, Raise, Lose,
                        Drop, NextRead, vars
    <3> QED
      BY <1>1, <3>1
  <2> QED
    BY <2>1, <2>2
<1>2. IInv /\ [Next]_vars =>
        [(/\ \E p \in steady : PlanesOfPath(p) \cap held # {}
          /\ <<connector, thing>> \notin Excused) => held' # {}]_vars
  BY <1>1
<1> QED
  BY <1>2, Invariance, PTL DEF Spec, KeptWhileThere

\* A run that reports itself complete leaves exactly what was there, for every connector and
\* whatever happened in the runs before it (the result of a collector, and ingest).
THEOREM CompleteResultsAreExact == Spec => CompleteIsExact
<1>1. ASSUME IInv, [Next]_vars, Finished, at' = 0, result' = "complete"
      PROVE  /\ steady # {} => held' # {}
             /\ (~glimpsed /\ Withdraws[connector]) => held' = {}
  <2>0. /\ connector \in Connectors /\ at # 0 /\ failed \subseteq PlanesOf[connector]
        /\ partial \subseteq PlanesOf[connector] /\ held \subseteq PlanesOf[connector]
    BY <1>1, ReadsAreNumbered DEF IInv, TypeOK, Finished
  <2>1. Ingest
    <3>1. ~Begin /\ ~Change /\ at' # at
      BY <1>1, <2>0 DEF Begin, Change
    <3>2. ~Reading
      BY <1>1, <2>0, ReadsAreNumbered DEF Finished, Reading
    <3>3. ~Raise /\ ~Lose
      BY <1>1 DEF Raise, Lose, Drop
    <3> QED
      BY <1>1, <3>1, <3>2, <3>3 DEF Next, Collect, Answer, Blemish, FailRead, Refuse, vars
  <2>2. held' = (held \cup seen) \ Withdrawn /\ "failed" \notin States /\ "partial" \notin States
    BY <1>1, <2>1, Results DEF Ingest
  <2>3. failed = {} /\ partial = {}
    <3>1. \A plane \in PlanesOf[connector] : Coverage(plane) \in States
      BY DEF States
    <3> QED
      BY <2>0, <2>2, <3>1 DEF Coverage
  <2>4. ASSUME NEW p \in steady PROVE held' # {}
    <3>1. seen # {}
      BY <1>1, <2>3, AtTheEnd DEF LeftMark
    <3> QED
      BY <2>2, <3>1 DEF Withdrawn, Missing
  <2>5. ASSUME ~glimpsed, Withdraws[connector] PROVE held' = {}
    <3>1. seen = {}
      BY <1>1, <2>0, <2>5 DEF IInv, NeverGlimpsed
    <3>2. Withdrawn = held
      BY <2>3, <2>5, <3>1 DEF Withdrawn, Missing, Coverage
    <3> QED
      BY <2>2, <3>1, <3>2
  <2> QED
    BY <2>4, <2>5
<1>2. IInv /\ [Next]_vars =>
        [(Finished /\ at' = 0 /\ result' = "complete") =>
            /\ steady # {} => held' # {}
            /\ (~glimpsed /\ Withdraws[connector]) => held' = {}]_vars
  BY <1>1
<1> QED
  BY <1>2, Invariance, PTL DEF Spec, CompleteIsExact

=============================================================================
