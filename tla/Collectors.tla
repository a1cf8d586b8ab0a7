------------------------------ MODULE Collectors ------------------------------
(***************************************************************************)
(* A connector's collection of a source that changes while it is read, and *)
(* what the store makes of the batch.  PlanOf gives the reads of each      *)
(* connector.  One thing is followed: the reads that show it, what becomes *)
(* of each read, and in which planes the store holds it.                   *)
(***************************************************************************)
EXTENDS AwsReads, CloudReads, SourceReads, Integers, FiniteSets

CONSTANTS
    Followed,   \* pairs of a connector that runs and a thing that is followed
    Excused,    \* pairs KeptWhileThere does not speak of
    MaxPaths,   \* bound: reads that show the thing at one time
    MaxFaults   \* bound: failed reads, refused items and lost runs of a behaviour

VARIABLES
    connector, thing,  \* who collects, and what is followed
    there,             \* the paths of calls whose answers show the thing at the source
    at,                \* the next read of the run; 0 between runs
    made,              \* the calls later reads go by, whose answer showed the thing and was taken
    failed, partial,   \* planes the run has failed, and made partial
    seen,              \* planes in which the batch records the thing
    held,              \* planes in which the store holds the thing, not withdrawn
    result,            \* what the run reported that has ended; none while one is at work
    faults,
    steady, glimpsed   \* history: the paths there throughout the run; whether there was ever one

run == <<made, failed, partial, seen>>
history == <<steady, glimpsed>>
subject == <<connector, thing>>
vars == <<connector, thing, there, at, made, failed, partial, seen, held, result, faults,
          steady, glimpsed>>

---------------------------------------------------------------------------
(* The connectors, and the shape of their plans. *)

PlanOf ==
    [agentcore |-> AgentCore, bedrock |-> Bedrock, compute |-> Compute,
     selected_lambda |-> SelectedLambda, bedrock_logging |-> BedrockLogging,
     stack |-> Stack, stack_posture |-> StackPosture,
     bedrock_activity |-> BedrockActivity, gcp_deployments |-> GcpDeployments,
     gcp_ai |-> GcpAiInventory, vertex_activity |-> VertexActivity,
     azure_deployments |-> AzureDeployments, azure_ai |-> AzureAiInventory,
     azure_activity |-> AzureAiActivity, kubernetes |-> Kubernetes, mcp |-> Mcp,
     entra_inventory |-> EntraInventory, entra_activity |-> EntraActivity,
     workspace |-> WorkspaceInventory, workspace_activity |-> WorkspaceActivity,
     repository |-> Repository, repository_posture |-> RepositoryPosture,
     azure_repos |-> AzureRepos, syft |-> SyftReport, grype |-> GrypeReport,
     ocsf |-> OcsfReport, cloudtrail_export |-> ActivityExport(CloudTrailRecord),
     vertex_export |-> ActivityExport(VertexRecord),
     workspace_export |-> ActivityExport(WorkspaceRecord),
     entra_export |-> ActivityExport(EntraRecord)]

Connectors == DOMAIN PlanOf

\* What a connector reports of the states of its planes.
ResultOf(c, states) ==
    CASE c \in {"entra_inventory", "entra_activity"} -> EntraResult(states)
      [] c \in {"workspace", "workspace_activity"} -> WorkspaceResult(states)
      [] c = "azure_repos" -> AzureReposResult(states)
      [] OTHER -> GcpResult(states)

ReadsOf == [c \in Connectors |-> PlanOf[c].reads]
RowsOf == [c \in Connectors |-> UNION {ReadsOf[c][i].rows : i \in DOMAIN ReadsOf[c]}]

\* Activity is only ever added to; of everything else a complete plane is all there is.
Withdraws == [c \in Connectors |-> PlanOf[c].absence = "withdrawn"]

\* The things of a plan; a batch without rows is run for its coverage.
ThingsOf ==
    [c \in Connectors |->
        IF RowsOf[c] = {} THEN {"nothing"} ELSE {row[1] : row \in RowsOf[c]}]

PlanesOf ==
    [c \in Connectors |->
        UNION {LET r == ReadsOf[c][i]
               IN  r.opens \cup r.blames \cup r.spoils \cup r.notes \cup {row[2] : row \in r.rows}
                 : i \in DOMAIN ReadsOf[c]}]

\* The planes a read records a thing in.
PlanesOfThing ==
    [c \in Connectors |-> [i \in DOMAIN ReadsOf[c] |-> [t \in ThingsOf[c] |->
        {row[2] : row \in {r \in ReadsOf[c][i].rows : r[1] = t}}]]]

\* A thing of `once' has one plane.
HasOnePlane == [c \in Connectors |-> [t \in ThingsOf[c] |-> t \in PlanOf[c].once]]

\* The calls whose items a later read goes by.
FollowedUp ==
    [c \in Connectors |->
        UNION {ReadsOf[c][i].per \cup ReadsOf[c][i].with : i \in DOMAIN ReadsOf[c]}]

\* The calls that lead to the item of read i: one of those it is made per, and all
\* those it is made with.
CallsTo ==
    [c \in Connectors |->
        LET reads == ReadsOf[c]
            calls[i \in DOMAIN reads] ==
                LET r == reads[i]
                    of(names) == UNION {calls[j] : j \in {k \in 1 .. (i - 1) : reads[k].call \in names}}
                    from == IF r.per = {} THEN {{}} ELSE of(r.per)
                    also == IF r.with = {} THEN {{}} ELSE of(r.with)
                IN  {p \cup q \cup {r.call} : p \in from, q \in also}
        IN  calls]

\* A path: the calls to a read that shows the thing, and that read.
Paths ==
    [c \in Connectors |-> [t \in ThingsOf[c] |->
        UNION {{[calls |-> p, read |-> i] : p \in CallsTo[c][i]}
                 : i \in {k \in DOMAIN ReadsOf[c] : PlanesOfThing[c][k][t] # {}}}]]

PlanesOfPath(p) == PlanesOfThing[connector][p.read][thing]

\* The reads that a path goes through, the one that shows the thing being the last.
OnPath(c, p) == {i \in 1 .. p.read : ReadsOf[c][i].call \in p.calls}

\* How plans are laid out: each read on a path goes by an item that an earlier one shows, as
\* the last does by what it is made with, and a failure of any is noticed.
Traceable(c, t) ==
    \A p \in Paths[c][t] :
        /\ p.read \in OnPath(c, p)
        /\ ReadsOf[c][p.read].with \subseteq {ReadsOf[c][j].call : j \in OnPath(c, p) \ {p.read}}
        /\ \A i \in OnPath(c, p) :
              LET r == ReadsOf[c][i]
              IN  /\ r.per = {} \/ \E j \in OnPath(c, p) : j < i /\ ReadsOf[c][j].call \in r.per
                  /\ r.asks /\ ~r.fatal => r.opens \cup r.blames # {}

\* The rule that plans have to obey: a failure or a refused item on the way to a thing
\* leaves the planes incomplete in which the thing is recorded.
Governed(c, t) ==
    \A p \in Paths[c][t] : \A i \in OnPath(c, p) :
        LET r == ReadsOf[c][i]
            planes == PlanesOfThing[c][p.read][t]
        IN  ~r.fatal => /\ r.asks => planes \subseteq r.opens \cup r.blames
                        /\ r.spoils # {} => planes \subseteq r.spoils

\* Every plan that is followed is laid out like this, and obeys the rule unless it is excused.
ASSUME CollectorsAssumption ==
    /\ \A pair \in Followed : \E c \in Connectors : \E t \in ThingsOf[c] :
          /\ pair = <<c, t>>
          /\ Traceable(c, t)
          /\ pair \in Excused \/ Governed(c, t)
    /\ MaxFaults \in Nat

---------------------------------------------------------------------------

TypeOK ==
    /\ connector \in Connectors
    /\ thing \in ThingsOf[connector]
    /\ there \in SUBSET Paths[connector][thing]
    /\ at \in 0 .. Len(ReadsOf[connector]) + 1
    /\ made \in SUBSET {ReadsOf[connector][i].call : i \in DOMAIN ReadsOf[connector]}
    /\ {failed, partial, seen, held} \subseteq SUBSET PlanesOf[connector]
    /\ result \in {"none", "complete", "partial", "failed", "raised", "lost"}
    /\ faults \in 0 .. MaxFaults
    /\ steady \subseteq there
    /\ glimpsed \in BOOLEAN
    /\ (at = 0) => (run = <<{}, {}, {}, {}>> /\ history = <<{}, FALSE>>)

Init ==
    /\ \E pair \in Followed : connector = pair[1] /\ thing = pair[2]
    /\ there \in SUBSET Paths[connector][thing] /\ Cardinality(there) <= MaxPaths
    /\ at = 0
    /\ made = {} /\ failed = {} /\ partial = {} /\ seen = {}
    /\ held = {}
    /\ result = "none"
    /\ faults = 0
    /\ steady = {} /\ glimpsed = FALSE

Fault == faults < MaxFaults /\ faults' = faults + 1

\* The source changes, also between two reads of a run.
Change ==
    /\ \E p \in Paths[connector][thing] :
           there' = IF p \in there THEN there \ {p} ELSE there \cup {p}
    /\ Cardinality(there') <= MaxPaths
    /\ steady' = steady \cap there'
    /\ glimpsed' = (at # 0 /\ (glimpsed \/ there' # {}))
    /\ UNCHANGED <<subject, at, run, held, result, faults>>

Begin ==
    /\ at = 0
    /\ at' = 1
    /\ result' = "none"
    /\ steady' = there /\ glimpsed' = (there # {})
    /\ UNCHANGED <<subject, there, run, held, faults>>

---------------------------------------------------------------------------
(* The reads of the run, in the order of the plan. *)

Reading == at \in DOMAIN ReadsOf[connector]
Current == ReadsOf[connector][at]

\* It is asked for an item only if an earlier answer showed that item.
Asked == Current.per = {} \/ Current.per \cap made # {}
Shown == Asked /\ \E p \in there : Current.call \in p.calls

\* The answer shows the thing here, and the calls it goes with showed it too.
Recorded == Shown /\ Current.with \subseteq made /\ \E p \in there : p.read = at

\* A thing of `once' that has a plane keeps to it.
RecordedIn ==
    IF ~Recorded \/ (HasOnePlane[connector][thing] /\ seen # {}) THEN {}
    ELSE PlanesOfThing[connector][at][thing]

Take ==
    /\ made' = IF Shown THEN made \cup ({Current.call} \cap FollowedUp[connector]) ELSE made
    /\ seen' = seen \cup RecordedIn

NextRead == at' = at + 1 /\ UNCHANGED <<subject, there, held, result, history>>

\* The run ends without a batch.
Drop(outcome) ==
    /\ at' = 0
    /\ result' = outcome
    /\ made' = {} /\ failed' = {} /\ partial' = {} /\ seen' = {}
    /\ steady' = {} /\ glimpsed' = FALSE
    /\ UNCHANGED <<subject, there, held>>

Answer ==
    /\ Reading
    /\ Take
    /\ NextRead
    /\ UNCHANGED <<failed, partial, faults>>

\* The answer is good for the thing; another item of it is refused, or fails.
Blemish ==
    /\ Reading /\ Fault
    /\ \E planes \in {Current.notes, Current.spoils,
                      IF Current.per = {} THEN {} ELSE Current.blames} \ {{}} :
           partial' = partial \cup planes
    /\ Take
    /\ NextRead
    /\ UNCHANGED failed

\* The read fails.
FailRead ==
    /\ Reading /\ Asked /\ Current.asks /\ ~Current.fatal /\ Fault
    /\ failed' = failed \cup Current.opens
    /\ partial' = partial \cup Current.blames
    /\ NextRead
    /\ UNCHANGED <<made, seen>>

\* The item of the thing is refused.
Refuse ==
    /\ Reading /\ Shown /\ Current.spoils # {} /\ ~Current.fatal /\ Fault
    /\ partial' = partial \cup Current.spoils
    /\ NextRead
    /\ UNCHANGED <<made, seen, failed>>

\* A failure or a refusal that leaves the collector as an exception.
Raise == Reading /\ Asked /\ Current.fatal /\ Fault /\ Drop("raised")

\* The container stops before the batch is stored.
Lose == at # 0 /\ Fault /\ Drop("lost")

---------------------------------------------------------------------------
(* The batch is stored, in one transaction. *)

Finished == at = Len(ReadsOf[connector]) + 1

Coverage(plane) ==
    IF plane \in failed THEN "failed" ELSE IF plane \in partial THEN "partial" ELSE "complete"

States == {Coverage(plane) : plane \in PlanesOf[connector]}

\* Mutants: a plane with warnings is trusted; nothing is ever withdrawn.
MissingUnlessFailed(plane) == plane \notin failed /\ plane \notin seen
NeverMissing(plane) == FALSE

\* What a complete plane does not show is withdrawn from it.
Missing(plane) == Coverage(plane) = "complete" /\ plane \notin seen

Withdrawn ==
    IF Withdraws[connector] THEN {plane \in held : Missing(plane)} ELSE {}

\* Mutant: the rows of one run are still in the batch of the next.
IngestWithoutReset ==
    /\ Finished
    /\ held' = (held \cup seen) \ Withdrawn
    /\ result' = ResultOf(connector, States)
    /\ at' = 0
    /\ made' = {} /\ failed' = {} /\ partial' = {} /\ seen' = seen
    /\ steady' = {} /\ glimpsed' = FALSE
    /\ UNCHANGED <<subject, there, faults>>

Ingest ==
    /\ Finished
    /\ held' = (held \cup seen) \ Withdrawn
    /\ result' = ResultOf(connector, States)
    /\ at' = 0
    /\ made' = {} /\ failed' = {} /\ partial' = {} /\ seen' = {}
    /\ steady' = {} /\ glimpsed' = FALSE
    /\ UNCHANGED <<subject, there, faults>>

Collect == Begin \/ Answer \/ Ingest

Next == Collect \/ Change \/ Blemish \/ FailRead \/ Refuse \/ Raise \/ Lose

Spec == Init /\ [][Next]_vars

\* Collections keep being asked for, and a run goes on.
FairSpec == Spec /\ WF_vars(Collect)

---------------------------------------------------------------------------
(* Properties. *)

\* What was recorded through a read that still shows it, and was there throughout
\* the run, is not withdrawn at the end of it, whatever failed on the way
\* (InventoryRepository.ingest withdraws from complete planes only; the connectors
\* have to say which planes a failed read leaves incomplete).
KeptWhileThere ==
    [][(/\ \E p \in steady : PlanesOfPath(p) \cap held # {}
        /\ <<connector, thing>> \notin Excused)
           => held' # {}]_vars

\* A run that reports itself complete has what was there throughout it, and nothing
\* that was never there (the collectors' result "complete" and ingest).
CompleteIsExact ==
    [][(Finished /\ at' = 0 /\ result' = "complete") =>
           /\ steady # {} => held' # {}
           /\ (~glimpsed /\ Withdraws[connector]) => held' = {}]_vars

\* What the store holds and what is there agree.
Exact ==
    /\ there # {} => held # {}
    /\ (there = {} /\ Withdraws[connector]) => held = {}

\* Once failures end and the source stays as it is, the store comes to hold what is
\* there and no more: a failed run leaves nothing behind that a later one does not repair.
StoreSettles == []<><<there' # there>>_vars \/ <>[]Exact

=============================================================================
